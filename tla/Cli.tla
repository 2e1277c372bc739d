---------------------------------- MODULE Cli ----------------------------------
(***************************************************************************)
(* parsex-cli: the five commands of parsex-cli/main.cpp from the parse of  *)
(* their input to the exit code, and the file that "write --apply" and     *)
(* "export --output" leave at outputPath.                                  *)
(*                                                                         *)
(* Each process is one invocation.  WriteEngine::write saves into the      *)
(* FIXED name outputPath.parsex-tmp and renames it; writeCacheAtomically   *)
(* (export) saves into a name of its own.  Names and files are kept apart: *)
(* a name holds the identity of a file, so two processes that open the     *)
(* same name write into the same file, also after it has been renamed.     *)
(***************************************************************************)
EXTENDS Integers

CONSTANTS
    Procs,      \* invocations of parsex-cli
    Old,        \* the file at outputPath before any of them ran
    NoFile,     \* the name does not exist
    Hole,       \* a block of a file not written since it was truncated
    Blocks,     \* write units of an output document
    MaxFaults   \* bound: failing operations and kills in a behaviour

ASSUME SizeAssumption == Blocks \in Nat \ {0} /\ MaxFaults \in Nat
ASSUME FileAssumption == Old \notin Procs /\ NoFile \notin Procs \cup {Old} /\ Hole \notin Procs \cup {Old}

VARIABLES
    out,      \* the file named outputPath
    temp,     \* the file named outputPath.parsex-tmp
    content,  \* content[f][k]: who wrote block k of file f
    pc,       \* the next step of each invocation
    run,      \* run[p]: its command line, open file, position and exit code
    faults,   \* failures and kills so far
    killed,   \* invocations that were killed
    raced     \* files opened while another write --apply was saving or renaming

vars == <<out, temp, content, pc, run, faults, killed, raced>>

Files == Procs \cup {Old}
Commands == {"parse", "validate", "diff", "write", "export"}
Steps == {"ready", "input", "engine", "open", "save", "rename", "drop", "print", "exited"}

\* What parseFile can throw: libparsex's own errors, and a runtime_error for a
\* root without xsi:schemaLocation or input the raw scanner does not support.
InputErrors == {"ParseError(Io)", "ParseError(Syntax)", "UnsupportedReleaseError", "runtime_error"}

\* What can end a command before its report; dump(2) throws a type_error besides.
Exceptions == InputErrors \cup {"WriteError", "failed to write", "failed to move", "system_error"}

\* The process exit codes; CLI11 has codes of its own for a bad command line.
ExitCode == {"none", "Ok", "DataErr", "IoErr", "Software", "CLI11"}

\* exit_code.hpp classify(): a filesystem_error never reaches it, because the
\* write paths use the error_code overloads; a std::system_error matches no
\* branch, its message being neither "failed to write" nor "failed to move".
classify(ex) ==
    CASE ex \in {"ParseError(Io)", "failed to write", "failed to move"} -> "IoErr"
      [] ex \in {"ParseError(Syntax)", "UnsupportedReleaseError", "WriteError"} -> "DataErr"
      [] OTHER -> "Software"

Run == [cmd : Commands, apply : BOOLEAN, trace : BOOLEAN, fd : Files \cup {NoFile},
        pos : 0..Blocks, ex : Exceptions \cup {"none"}, exit : ExitCode,
        printed : BOOLEAN, traces : 0..2, undumped : BOOLEAN, stray : BOOLEAN]

NewRun(c, apply, trace) ==
    [cmd |-> c, apply |-> apply, trace |-> trace, fd |-> NoFile, pos |-> 0, ex |-> "none",
     exit |-> "none", printed |-> FALSE, traces |-> 0, undumped |-> FALSE, stray |-> FALSE]

\* "apply" is --apply for write, and --output for export.
Saves(p) == run[p].apply /\ run[p].cmd \in {"write", "export"}
Writer(p) == run[p].apply /\ run[p].cmd = "write"
Active(p) == pc[p] \notin {"ready", "exited"}

\* A write --apply between its open and its rename.
Writing(p) == Writer(p) /\ pc[p] \in {"save", "rename"}

Whole(f) == \E w \in Files : \A k \in 1..Blocks : content[f][k] = w
Empty == [k \in 1..Blocks |-> Hole]

Init ==
    /\ out \in {NoFile, Old}
    /\ temp = NoFile
    /\ content = [f \in Files |-> IF f = Old THEN [k \in 1..Blocks |-> Old] ELSE Empty]
    /\ pc = [p \in Procs |-> "ready"]
    /\ run = [p \in Procs |-> NewRun("parse", FALSE, FALSE)]
    /\ faults = 0
    /\ killed = {}
    /\ raced = {}

Goto(p, step) == pc' = [pc EXCEPT ![p] = step]

\* emitTraceIfEnabled.
Traced(r) == IF r.trace THEN [r EXCEPT !.traces = @ + 1] ELSE r

\* dump(2) throws a type_error on a text that is not UTF-8: a path, or a message or a
\* span attribute that quotes one.  Only main catches it.
Undumped(r) == [r EXCEPT !.undumped = TRUE, !.exit = classify("type_error")]

\* Mutant of Throw: the exception is rethrown before the trace is emitted.
ThrowUntraced(p, ex) ==
    /\ Goto(p, "exited")
    /\ run' = [run EXCEPT ![p] = [@ EXCEPT !.ex = ex, !.exit = classify(ex)]]

\* The end of a command that caught an exception: the trace is emitted, the exception
\* rethrown to the error boundary of main, which turns it into an exit code.  If the
\* trace's own dump(2) throws, that type_error gets there instead.
Rethrow(p, r) ==
    /\ Goto(p, "exited")
    /\ \/ run' = [run EXCEPT ![p] = [Traced(r) EXCEPT !.exit = classify(r.ex)]]
       \/ r.trace /\ run' = [run EXCEPT ![p] = Undumped(r)]

Throw(p, ex) == Rethrow(p, [run[p] EXCEPT !.ex = ex])

MayFail == faults < MaxFaults /\ faults' = faults + 1

--------------------------------------------------------------------------------
(* main: one subcommand per invocation *)

Launch(p, c, apply, trace) ==
    /\ pc[p] = "ready"
    /\ apply => c \in {"write", "export"}
    /\ run' = [run EXCEPT ![p] = NewRun(c, apply, trace)]
    /\ Goto(p, "input")
    /\ UNCHANGED <<out, temp, content, faults, killed, raced>>

\* CLI11 rejects the command line: app.exit() prints and chooses the exit code.
RejectCommandLine(p) ==
    /\ pc[p] = "ready"
    /\ run' = [run EXCEPT ![p].exit = "CLI11"]
    /\ Goto(p, "exited")
    /\ UNCHANGED <<out, temp, content, faults, killed, raced>>

\* parser.parseFile of the input (both inputs of diff), then the engine: the
\* diff and the export text are pure; validate() decides a dry run.
ReadInput(p) ==
    /\ pc[p] = "input"
    /\ Goto(p, IF Saves(p) THEN "engine" ELSE "print")
    /\ UNCHANGED <<out, temp, content, run, faults, killed, raced>>

\* An unreadable, malformed or unsupported input.  runValidateCommand turns each
\* into a parse.failed finding and goes on; every other command throws.
InputFails(p) ==
    /\ pc[p] = "input"
    /\ MayFail
    /\ IF run[p].cmd = "validate"
       THEN Goto(p, "print") /\ UNCHANGED run
       ELSE \E reason \in InputErrors : Throw(p, reason)
    /\ UNCHANGED <<out, temp, content, killed, raced>>

\* The report on stdout, then the trace, then exit code 0.
PrintReport(p) ==
    /\ pc[p] = "print"
    /\ run' = [run EXCEPT ![p] = [Traced(@) EXCEPT !.printed = TRUE, !.exit = "Ok"]]
    /\ Goto(p, "exited")
    /\ UNCHANGED <<out, temp, content, faults, killed, raced>>

\* Under --json the report is a dump(2), after the command's try block: when it
\* throws, emitTraceIfEnabled is never reached.
PrintFails(p) ==
    /\ pc[p] = "print"
    /\ MayFail
    /\ run' = [run EXCEPT ![p] = Undumped(@)]
    /\ Goto(p, "exited")
    /\ UNCHANGED <<out, temp, content, killed, raced>>

\* The report is out, and the dump(2) of the trace throws.
TraceFails(p) ==
    /\ pc[p] = "print"
    /\ run[p].trace
    /\ MayFail
    /\ run' = [run EXCEPT ![p] = [Undumped(@) EXCEPT !.printed = TRUE]]
    /\ Goto(p, "exited")
    /\ UNCHANGED <<out, temp, content, killed, raced>>

--------------------------------------------------------------------------------
(* WriteEngine::write and, for export, writeCacheAtomically *)

\* validate() and the whitespace guard pass, or throw before any file is touched.
PrepareOutput(p) ==
    /\ pc[p] = "engine"
    /\ Goto(p, "open")
    /\ UNCHANGED <<out, temp, content, run, faults, killed, raced>>

RejectProject(p) ==
    /\ pc[p] = "engine"
    /\ Writer(p)
    /\ MayFail
    /\ \E ex \in {"WriteError", "runtime_error"} : Throw(p, ex)
    /\ UNCHANGED <<out, temp, content, killed, raced>>

\* open with truncation: an existing temporary file is emptied and shared, a
\* missing one is created.  An export's random name never exists before.  No lock
\* keeps two invocations apart; "raced" remembers that they overlapped.
OpenedFile(p) == IF Writer(p) /\ temp # NoFile THEN temp ELSE p

OpenTemp(p) ==
    /\ pc[p] = "open"
    /\ content' = [content EXCEPT ![OpenedFile(p)] = Empty]
    /\ run' = [run EXCEPT ![p].fd = OpenedFile(p)]
    /\ temp' = IF Writer(p) THEN OpenedFile(p) ELSE temp
    /\ raced' = IF Writer(p) /\ \E q \in Procs \ {p} : Writing(q)
                THEN raced \cup {OpenedFile(p)} ELSE raced
    /\ Goto(p, "save")
    /\ UNCHANGED <<out, faults, killed>>

\* Mutant of SaveBlock: the loop runs once more than there are blocks.
SavePastEnd(p) ==
    /\ pc[p] = "save"
    /\ run[p].pos <= Blocks
    /\ content' = IF run[p].pos = Blocks THEN content
                  ELSE [content EXCEPT ![run[p].fd][run[p].pos + 1] = p]
    /\ run' = [run EXCEPT ![p].pos = @ + 1]
    /\ Goto(p, IF run[p].pos = Blocks THEN "rename" ELSE "save")
    /\ UNCHANGED <<out, temp, faults, killed, raced>>

\* Mutant of SaveBlock: the last block is left in the buffer.
SaveAllButLast(p) ==
    /\ pc[p] = "save"
    /\ run[p].pos < Blocks
    /\ content' = IF run[p].pos + 1 = Blocks THEN content
                  ELSE [content EXCEPT ![run[p].fd][run[p].pos + 1] = p]
    /\ run' = [run EXCEPT ![p].pos = @ + 1]
    /\ Goto(p, IF run[p].pos + 1 = Blocks THEN "rename" ELSE "save")
    /\ UNCHANGED <<out, temp, faults, killed, raced>>

\* xmlSaveFormatFileEnc, or portableWriteFull, writes the next block.
SaveBlock(p) ==
    /\ pc[p] = "save"
    /\ run[p].pos < Blocks
    /\ content' = [content EXCEPT ![run[p].fd][run[p].pos + 1] = p]
    /\ run' = [run EXCEPT ![p].pos = @ + 1]
    /\ Goto(p, IF run[p].pos + 1 = Blocks THEN "rename" ELSE "save")
    /\ UNCHANGED <<out, temp, faults, killed, raced>>

\* rename(tempPath, outputPath): whichever file has the name by now.
MoveIntoPlace(p) ==
    /\ pc[p] = "rename"
    /\ Writer(p) => temp # NoFile
    /\ out' = IF Writer(p) THEN temp ELSE run[p].fd
    /\ temp' = IF Writer(p) THEN NoFile ELSE temp
    /\ Goto(p, "print")
    /\ UNCHANGED <<content, run, faults, killed, raced>>

\* open, write, fsync (export only) or rename fails.
SaveFails(p) ==
    /\ pc[p] \in {"open", "save", "rename"}
    /\ \/ pc[p] = "rename" /\ Writer(p) /\ temp = NoFile /\ UNCHANGED faults
       \/ MayFail
    /\ Goto(p, "drop")
    /\ run' = [run EXCEPT ![p].ex =
                  IF ~Writer(p) THEN "system_error"
                  ELSE IF pc[p] = "rename" THEN "failed to move" ELSE "failed to write"]
    /\ UNCHANGED <<out, temp, content, killed, raced>>

\* Mutant of DropTemp: rethrows without removing the temporary file.
KeepTemp(p) ==
    /\ pc[p] = "drop"
    /\ Throw(p, run[p].ex)
    /\ UNCHANGED <<out, temp, content, faults, killed, raced>>

\* Mutant of DropTemp: a failed write removes nothing and reports success.
SwallowFailure(p) ==
    /\ pc[p] = "drop"
    /\ temp' = IF Writer(p) THEN NoFile ELSE temp
    /\ Goto(p, "print")
    /\ run' = [run EXCEPT ![p].ex = "none"]
    /\ UNCHANGED <<out, content, faults, killed, raced>>

\* The catch block of write() removes tempPath, whoever created it; TmpCleanup
\* removes the export's own file.  Then the exception goes on.
DropTemp(p) ==
    /\ pc[p] = "drop"
    /\ temp' = IF Writer(p) THEN NoFile ELSE temp
    /\ Throw(p, run[p].ex)
    /\ UNCHANGED <<out, content, faults, killed, raced>>

\* That remove fails too; its error is ignored and the file keeps the name.
DropTempFails(p) ==
    /\ pc[p] = "drop"
    /\ Writer(p) /\ temp # NoFile
    /\ MayFail
    /\ Rethrow(p, [run[p] EXCEPT !.stray = TRUE])
    /\ UNCHANGED <<out, temp, content, killed, raced>>

--------------------------------------------------------------------------------
\* The invocation is killed; its files stay as they are.
Kill(p) ==
    /\ Active(p)
    /\ MayFail
    /\ Goto(p, "exited")
    /\ killed' = killed \cup {p}
    /\ UNCHANGED <<out, temp, content, run, raced>>

Step(p) ==
    \/ ReadInput(p) \/ InputFails(p) \/ PrintReport(p) \/ PrintFails(p) \/ TraceFails(p)
    \/ PrepareOutput(p) \/ RejectProject(p)
    \/ OpenTemp(p) \/ SaveBlock(p) \/ MoveIntoPlace(p) \/ SaveFails(p)
    \/ DropTemp(p) \/ DropTempFails(p)

Next ==
    \/ \E p \in Procs, c \in Commands, apply, trace \in BOOLEAN : Launch(p, c, apply, trace)
    \/ \E p \in Procs : RejectCommandLine(p) \/ Step(p) \/ Kill(p)

Spec == Init /\ [][Next]_vars

--------------------------------------------------------------------------------
(* Properties *)

\* Every variable has its type.
TypeOK ==
    /\ out \in Files \cup {NoFile}
    /\ temp \in Files \cup {NoFile}
    /\ content \in [Files -> [1..Blocks -> Files \cup {Hole}]]
    /\ pc \in [Procs -> Steps]
    /\ run \in [Procs -> Run]
    /\ faults \in 0..MaxFaults
    /\ killed \subseteq Procs
    /\ raced \subseteq Files

\* The file at outputPath is one writer's whole document at every moment, also
\* while any number of invocations run, fail and are killed: "a failed write() never
\* leaves a partially-written file at outputPath" (write_engine.cpp:104-105).  Only
\* a file that two write --apply had open, or could rename, at the same time may be
\* torn, because the temporary name is fixed and nothing locks it.
OutputWhole == out # NoFile /\ out \notin raced => Whole(out)

\* outputPath holds what the exit codes say: only an invocation that was asked to
\* write reaches it ("Dry-run unless --apply, so an accidental write never mutates a
\* file", main.cpp:502); unless two overlapped, one that reported failure left
\* nothing there, except that the report or the trace may fail after the rename; and
\* one that reported success left a whole document, its own or that of a later one.
OutputAsReported ==
    \A p \in Procs :
        /\ out # NoFile /\ (\E k \in 1..Blocks : content[out][k] = p) =>
              /\ Saves(p)
              /\ \/ out \in raced
                 \/ run[p].exit \in {"none", "Ok"}
                 \/ run[p].ex = "none"
        /\ Saves(p) /\ run[p].exit = "Ok" =>
              /\ out # NoFile
              /\ \/ out \in raced
                 \/ \E q \in Procs : Saves(q) /\ \A k \in 1..Blocks : content[out][k] = q

\* The temporary name exists only while a write --apply that opened it is between
\* its open and the end of its catch block, or was killed there, or could not
\* remove it (write_engine.cpp:117-122), however many of them share the name.
TempOnlyWhileWriting ==
    temp # NoFile =>
        \E p \in Procs :
            /\ Writer(p) /\ run[p].fd = temp
            /\ pc[p] \in {"save", "rename", "drop"} \/ p \in killed \/ run[p].stray

\* A command that fails prints no report, and one that ends emits its trace
\* exactly once, on the failure path too (main.cpp:244-253), unless writing the
\* report or the trace itself threw: the exit code says so, even after the report.
ReportOrFail ==
    \A p \in Procs : pc[p] = "exited" /\ p \notin killed =>
        /\ run[p].exit = "Ok" => run[p].printed
        /\ run[p].printed => run[p].ex = "none" /\ (run[p].exit = "Ok" \/ run[p].undumped)
        /\ run[p].undumped => run[p].exit = "Software"
        /\ run[p].traces = IF run[p].trace /\ ~run[p].undumped THEN 1 ELSE 0

\* Documented, and not so: "a failed write() never leaves a partially-written file
\* at outputPath" (write_engine.cpp:104-105).  Two invocations with the same output
\* share outputPath.parsex-tmp: one renames what the other is still writing, and when
\* the other then fails, the torn file stays although nothing runs any more.
NeverPartial ==
    out # NoFile /\ killed = {} /\ (\A p \in Procs : ~Active(p)) => Whole(out)

\* Documented, and not so: "After the subcommand finishes (or after an exception is
\* caught for tracing), the CLI dumps the telemetryReport envelope" (docs/cli.md:289).
\* What dump(2) throws is caught only in main, past the trace.
TraceAlwaysDumped ==
    \A p \in Procs :
        pc[p] = "exited" /\ p \notin killed /\ run[p].trace => run[p].traces = 1

================================================================================
