------------------------------- MODULE Discovery -------------------------------
(***************************************************************************)
(* Parser::parseProject (parser.cpp): how the files that make up a project *)
(* are found, in its three modes, and the cross-file resolution that ends  *)
(* each of them.  LazyOnReference is a fixpoint: every round computes the  *)
(* short names still missing once, then reads, filters and parses the      *)
(* candidates one at a time, from a disk that may change meanwhile.        *)
(*                                                                         *)
(* A document is what discovery can tell about a file: whether it parses,  *)
(* the names its text spells as <SHORT-NAME>name<, whether that text is    *)
(* opaque to the byte scan (UTF-16, or nothing could be read), and the     *)
(* typed names it defines and references.                                  *)
(***************************************************************************)
EXTENDS Integers, Sequences, FiniteSets

CONSTANTS
    Paths,    \* normalized file paths, numbered in sort order
    Arxml,    \* the paths with an .arxml extension, in any case
    Dirs,     \* directories
    Parent,   \* the directory of a path
    Under,    \* the paths below a directory, at any depth
    Names,    \* short names
    NoName,   \* the empty short name of a reference without a target
    Disks,    \* the disks a call may start from
    EntryLists, \* the entryPoints a call may be given
    Edits,    \* the <<path, document>> changes another program may make
    Absent,   \* no such file
    MaxEdits, \* bound: changes to the disk during the call
    kMaxLazyIterations

Types == {"pdu", "signal", "ecu"}
Ref == Types \X (Names \cup {NoName})
Doc == [parses : BOOLEAN, opaque : BOOLEAN, text : SUBSET Names,
        defs : SUBSET Ref, refs : SUBSET Ref]

ASSUME PathAssumption ==
    /\ Paths \subseteq Nat /\ IsFiniteSet(Paths) /\ Arxml \subseteq Paths
    /\ Parent \in [Paths -> Dirs] /\ Under \in [Dirs -> SUBSET Paths]
ASSUME DiskAssumption ==
    /\ Disks \subseteq [Paths -> Doc \cup {Absent}] /\ Edits \subseteq Paths \X (Doc \cup {Absent})
    /\ Absent \notin Doc /\ NoName \notin Names /\ EntryLists \subseteq Seq(Paths)
ASSUME CapAssumption == kMaxLazyIterations \in Nat \ {0} /\ MaxEdits \in Nat

VARIABLES
    disk,       \* the file system
    mode,       \* FileDiscoveryMode
    entries,    \* entryPoints
    pc,         \* the next step of the call
    files,      \* project.files: the parsed documents, as they were when read
    parsed,     \* the paths not to parse again
    pool,       \* candidates: <<path, search directory>>, twice when directories nest
    todo,       \* the part of the pool, or of the scan, still ahead
    wanted,     \* WantedRefs, computed at the start of the round
    candidate,  \* the path that passed the pre-filter
    added,      \* the round has added a file
    iteration,  \* productive rounds so far
    result,     \* how the call ended
    missing,    \* refs() of the DanglingFileReferenceError
    edits       \* changes to the disk so far

call == <<mode, entries>>
round == <<pool, wanted, candidate, added, iteration>>
vars == <<disk, mode, entries, pc, files, parsed, pool, todo, wanted, candidate, added,
          iteration, result, missing, edits>>

Modes == {"ExplicitList", "DirectoryScan", "LazyOnReference"}

--------------------------------------------------------------------------------
(* References *)

Defined(fs) == UNION {fs[i].doc.defs : i \in DOMAIN fs}
Referenced(fs) == {r \in UNION {fs[i].doc.refs : i \in DOMAIN fs} : r[2] # NoName}

\* collectWantedRefs: a reference without a target is never wanted.
collectWantedRefs(fs) == Referenced(fs) \ Defined(fs)

definesWantedName(doc, refs) == doc.defs \cap refs # {}

\* candidateDefinesAny: the byte scan looks for the names whatever their type.
candidateDefinesAny(doc, refs) ==
    IF doc = Absent THEN TRUE ELSE doc.opaque \/ \E r \in refs : r[2] \in doc.text

--------------------------------------------------------------------------------
Init ==
    /\ disk \in Disks
    /\ mode \in Modes
    /\ entries = <<>>
    /\ pc = "start"
    /\ files = <<>>
    /\ parsed = {}
    /\ pool = {}
    /\ todo = {}
    /\ wanted = {}
    /\ candidate = 0
    /\ added = FALSE
    /\ iteration = 0
    /\ result = "none"
    /\ missing = {}
    /\ edits = 0

\* parseFile succeeds on a file that is there and well formed.
Parses(p) == disk[p] # Absent /\ disk[p].parses
Append1(p) == Append(files, [path |-> p, doc |-> disk[p]])

\* An exception leaves parseProject: the partial project is discarded.
Fail ==
    /\ pc' = "done"
    /\ result' = "error"
    /\ files' = <<>>

\* parseProject(entryPoints, mode).
Begin(es) ==
    /\ pc = "start"
    /\ entries' = es
    /\ pc' = IF mode = "DirectoryScan" THEN "list" ELSE "entries"
    /\ UNCHANGED <<disk, mode, files, parsed, todo, round, result, missing, edits>>

\* ExplicitList and LazyOnReference parse the entry points in the given order,
\* a path that is given twice included.
ParseEntry ==
    /\ pc = "entries"
    /\ Len(files) < Len(entries)
    /\ LET p == entries[Len(files) + 1] IN
          \/ /\ Parses(p)
             /\ files' = Append1(p)
             /\ parsed' = parsed \cup {p}
             /\ UNCHANGED <<pc, result>>
          \/ ~Parses(p) /\ Fail /\ UNCHANGED parsed
    /\ UNCHANGED <<disk, call, todo, round, missing, edits>>

EntriesParsed ==
    /\ pc = "entries"
    /\ Len(files) = Len(entries)
    /\ pc' = IF mode = "LazyOnReference" THEN "enumerate" ELSE "resolve"
    /\ UNCHANGED <<disk, call, files, parsed, todo, round, result, missing, edits>>

EntrySet == {entries[i] : i \in DOMAIN entries}
SearchDirs == {Parent[p] : p \in EntrySet}

--------------------------------------------------------------------------------
(* DirectoryScan *)

\* The entry points and every .arxml sibling of theirs, as one sorted set.
ListSiblings ==
    /\ pc = "list"
    /\ LET siblings == {p \in Arxml : Parent[p] \in SearchDirs /\ disk[p] # Absent} IN
          todo' = {<<p, Parent[p]>> : p \in EntrySet \cup siblings}
    /\ pc' = "scan"
    /\ UNCHANGED <<disk, call, files, parsed, round, result, missing, edits>>

First(pairs) == CHOOSE c \in pairs : \A d \in pairs : c[1] <= d[1]

ScanFile ==
    /\ pc = "scan"
    /\ todo # {}
    /\ LET p == First(todo)[1] IN
          \/ Parses(p) /\ files' = Append1(p) /\ UNCHANGED <<pc, result>>
          \/ ~Parses(p) /\ Fail
    /\ todo' = todo \ {First(todo)}
    /\ UNCHANGED <<disk, call, parsed, round, missing, edits>>

ScanEnds ==
    /\ pc = "scan"
    /\ todo = {}
    /\ pc' = "resolve"
    /\ UNCHANGED <<disk, call, files, parsed, todo, round, result, missing, edits>>

--------------------------------------------------------------------------------
(* LazyOnReference *)

\* enumerateCandidates: once, recursively, without the files already parsed.
enumerateCandidates ==
    {c \in Arxml \X SearchDirs : c[1] \in Under[c[2]] /\ disk[c[1]] # Absent /\ c[1] \notin parsed}

Enumerate ==
    /\ pc = "enumerate"
    /\ pool' = enumerateCandidates
    /\ pc' = "round"
    /\ UNCHANGED <<disk, call, files, parsed, todo, wanted, candidate, added, iteration,
                   result, missing, edits>>

\* A search tree that cannot be read fails the call, in both searching modes.
ListingFails ==
    /\ pc \in {"list", "enumerate"}
    /\ Fail
    /\ UNCHANGED <<disk, call, parsed, todo, round, missing, edits>>

\* expandProjectOnce begins: Complete, or a pass over the whole pool.
BeginRound ==
    /\ pc = "round"
    /\ wanted' = collectWantedRefs(files)
    /\ added' = FALSE
    /\ \/ wanted' = {} /\ pc' = "resolve" /\ UNCHANGED todo
       \/ wanted' # {} /\ pc' = "probe" /\ todo' = pool
    /\ UNCHANGED <<disk, call, files, parsed, pool, candidate, iteration, result, missing, edits>>

ProbeCandidate ==
    /\ pc = "probe"
    /\ todo # {}
    /\ LET c == First(todo) IN
          \/ /\ c[1] \in parsed \/ ~candidateDefinesAny(disk[c[1]], wanted)
             /\ UNCHANGED <<pc, candidate>>
          \/ /\ c[1] \notin parsed /\ candidateDefinesAny(disk[c[1]], wanted)
             /\ candidate' = c[1]
             /\ pc' = "parse"
    /\ todo' = todo \ {First(todo)}
    /\ UNCHANGED <<disk, call, files, parsed, pool, wanted, added, iteration, result, missing, edits>>

\* Mutant of ParseCandidate: adds every candidate that parses.
TakeEveryCandidate ==
    /\ pc = "parse"
    /\ IF Parses(candidate)
       THEN files' = Append1(candidate) /\ parsed' = parsed \cup {candidate} /\ added' = TRUE
       ELSE UNCHANGED <<files, parsed, added>>
    /\ pc' = "probe"
    /\ UNCHANGED <<disk, call, pool, todo, wanted, candidate, iteration, result, missing, edits>>

\* Mutant of ParseCandidate: trusts the pre-filter, though the file may be gone.
TakeUnparsed ==
    /\ pc = "parse"
    /\ files' = Append1(candidate) /\ parsed' = parsed \cup {candidate} /\ added' = TRUE
    /\ pc' = "probe"
    /\ UNCHANGED <<disk, call, pool, todo, wanted, candidate, iteration, result, missing, edits>>

\* Mutant of ParseCandidate: a false positive is not looked at again.
ForgetCandidate ==
    /\ pc = "parse"
    /\ parsed' = parsed \cup {candidate}
    /\ IF Parses(candidate) /\ definesWantedName(disk[candidate], wanted)
       THEN files' = Append1(candidate) /\ added' = TRUE
       ELSE UNCHANGED <<files, added>>
    /\ pc' = "probe"
    /\ UNCHANGED <<disk, call, pool, todo, wanted, candidate, iteration, result, missing, edits>>

\* Mutant of ParseCandidate: reports progress for a candidate it skipped.
CountSkipped ==
    /\ pc = "parse"
    /\ added' = TRUE
    /\ IF Parses(candidate) /\ definesWantedName(disk[candidate], wanted)
       THEN files' = Append1(candidate) /\ parsed' = parsed \cup {candidate}
       ELSE UNCHANGED <<files, parsed>>
    /\ pc' = "probe"
    /\ UNCHANGED <<disk, call, pool, todo, wanted, candidate, iteration, result, missing, edits>>

\* Mutant of ParseCandidate: a candidate that does not parse is tried again.
RetryCandidate ==
    /\ pc = "parse"
    /\ Parses(candidate)
    /\ IF definesWantedName(disk[candidate], wanted)
       THEN files' = Append1(candidate) /\ parsed' = parsed \cup {candidate} /\ added' = TRUE
       ELSE UNCHANGED <<files, parsed, added>>
    /\ pc' = "probe"
    /\ UNCHANGED <<disk, call, pool, todo, wanted, candidate, iteration, result, missing, edits>>

\* The candidate joins the project when it parses and defines a wanted name; an
\* unparseable one and a false positive are skipped, and looked at again in the
\* next round.
ParseCandidate ==
    /\ pc = "parse"
    /\ IF Parses(candidate) /\ definesWantedName(disk[candidate], wanted)
       THEN files' = Append1(candidate) /\ parsed' = parsed \cup {candidate} /\ added' = TRUE
       ELSE UNCHANGED <<files, parsed, added>>
    /\ pc' = "probe"
    /\ UNCHANGED <<disk, call, pool, todo, wanted, candidate, iteration, result, missing, edits>>

\* Advanced: another round, up to the cap; Stuck: the loop ends.
EndRound ==
    /\ pc = "probe"
    /\ todo = {}
    /\ \/ /\ added
          /\ iteration' = iteration + 1
          /\ pc' = IF iteration + 1 < kMaxLazyIterations THEN "round" ELSE "resolve"
       \/ ~added /\ pc' = "resolve" /\ UNCHANGED iteration
    /\ UNCHANGED <<disk, call, files, parsed, pool, todo, wanted, candidate, added,
                   result, missing, edits>>

\* resolveCrossFileReferences, at the end of every mode.
resolveCrossFileReferences ==
    /\ pc = "resolve"
    /\ pc' = "done"
    /\ missing' = collectWantedRefs(files)
    /\ result' = IF missing' = {} THEN "ok" ELSE "DanglingFileReference"
    /\ UNCHANGED <<disk, call, files, parsed, todo, round, edits>>

--------------------------------------------------------------------------------
\* Another program rewrites, adds or removes a file while the call runs.
Edit(p, doc) ==
    /\ pc # "done"
    /\ edits < MaxEdits
    /\ disk[p] # doc
    /\ disk' = [disk EXCEPT ![p] = doc]
    /\ edits' = edits + 1
    /\ UNCHANGED <<call, pc, files, parsed, todo, round, result, missing>>

Parser ==
    \/ \E es \in EntryLists : Begin(es)
    \/ ParseEntry \/ EntriesParsed
    \/ ListSiblings \/ ScanFile \/ ScanEnds \/ ListingFails
    \/ Enumerate \/ BeginRound \/ ProbeCandidate \/ ParseCandidate \/ EndRound
    \/ resolveCrossFileReferences

Next == Parser \/ \E e \in Edits : Edit(e[1], e[2])

Spec == Init /\ [][Next]_vars

\* The call is one thread of straight-line code: it takes its next step.
FairSpec == Spec /\ WF_vars(Parser)

--------------------------------------------------------------------------------
(* Properties *)

\* Every variable has its type.
TypeOK ==
    /\ disk \in [Paths -> Doc \cup {Absent}]
    /\ mode \in Modes
    /\ entries \in Seq(Paths)
    /\ pc \in {"start", "entries", "list", "scan", "enumerate", "round", "probe", "parse",
               "resolve", "done"}
    /\ files \in Seq([path : Paths, doc : Doc])
    /\ parsed \subseteq Paths
    /\ pool \subseteq Paths \X Dirs
    /\ todo \subseteq Paths \X Dirs
    /\ wanted \subseteq Ref
    /\ candidate \in Paths \cup {0}
    /\ added \in BOOLEAN
    /\ iteration \in 0..kMaxLazyIterations
    /\ result \in {"none", "ok", "error", "DanglingFileReference"}
    /\ missing \subseteq Ref
    /\ edits \in 0..MaxEdits

\* A lazy call that gives up before the cap tells the truth: nothing that was
\* there to be found, in the searched trees, defines a name it calls missing
\* ("no discovered file defines the wanted name", project_error.hpp:10-15), as
\* long as the disk stood still and the documents spell their names plainly.
Spelled(doc) == doc.opaque \/ \A r \in doc.defs : r[2] \in doc.text

DanglingIsTrue ==
    /\ mode = "LazyOnReference" /\ result = "DanglingFileReference"
    /\ edits = 0 /\ iteration < kMaxLazyIterations
    => \A c \in pool : Parses(c[1]) /\ Spelled(disk[c[1]]) => disk[c[1]].defs \cap missing = {}

\* A project holds a file twice only when the caller listed it twice, although
\* nested search directories list it twice.
NoFileTwice ==
    \A i, j \in DOMAIN files :
        i # j /\ files[i].path = files[j].path =>
            mode # "DirectoryScan" /\ i <= Len(entries) /\ j <= Len(entries)

\* Every file discovery adds is added once ("deduped", parser.hpp:14) and defines a
\* name that an earlier file references and no entry point defines: "only files
\* defining short names that parsed content actually references" (parser.hpp:15-16),
\* whatever happens to the disk.
DiscoveredIsWanted ==
    /\ NoFileTwice
    /\ mode = "LazyOnReference" =>
        \A i \in DOMAIN files : i > Len(entries) =>
            \E r \in files[i].doc.defs :
                /\ \E j \in 1..(i - 1) : r \in Referenced(<<files[j]>>)
                /\ \A k \in 1..Len(entries) : r \notin files[k].doc.defs

\* Every round but the last adds a file, so the cap is reached only by a project
\* that grew that often: "termination never actually depends on this"
\* (parser.cpp:60-62).
RoundsProductive ==
    mode = "LazyOnReference" /\ result # "error" =>
        iteration + (IF added /\ pc \in {"probe", "parse"} THEN 1 ELSE 0)
            <= IF Len(files) <= Len(entries) THEN 0 ELSE Len(files) - Len(entries)

\* The call returns or throws.
CallReturns == [](pc # "start" => <>(pc = "done"))

\* Documented, and not so: the pre-filter has no false negatives ("False
\* negatives would be DanglingFileReference lies, hence the whitespace tolerance
\* and the UTF-16 fallback", parser.cpp:156-157).
PrefilterNeverLies ==
    /\ mode = "LazyOnReference" /\ result = "DanglingFileReference"
    /\ edits = 0 /\ iteration < kMaxLazyIterations
    => \A c \in pool : Parses(c[1]) => disk[c[1]].defs \cap missing = {}

================================================================================
