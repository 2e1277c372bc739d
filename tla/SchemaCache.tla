------------------------------ MODULE SchemaCache ------------------------------
(***************************************************************************)
(* The schema registry's disk cache: resolveSchema() (schema_registry.cpp) *)
(* over writeCacheAtomically() (atomic_write.cpp), called by any number of *)
(* processes (CLI invocations and MCP servers) that share one cache        *)
(* directory.  Every file-system operation the code performs is one step,  *)
(* so calls interleave, fail, and are killed at each of them.              *)
(*                                                                         *)
(* A file's content is the directory it was copied from, how many blocks   *)
(* of it are written, and how many of those fsync has made durable.        *)
(***************************************************************************)
EXTENDS Integers, Sequences

CONSTANTS
    Procs,       \* processes sharing the cache directory
    Releases,    \* AUTOSAR release strings
    Importers,   \* releases whose schema imports xml.xsd
    Sidecar,     \* the name xml.xsd
    Dirs,        \* schema source directories
    SearchPath,  \* the directories findSourceFile tries, per process, in order
    Stocks,      \* the contents the source directories may start with
    Blocks,      \* write() units in a schema file
    NoFile,      \* the name does not exist
    MaxCalls,    \* bound: resolveSchema calls in a behaviour
    MaxEvents    \* bound: failures, kills and outside changes in a behaviour

ASSUME ReleaseAssumption ==
    Releases # {} /\ Importers \subseteq Releases /\ Sidecar \notin Releases
ASSUME PathAssumption == SearchPath \in [Procs -> Seq(Dirs)]
ASSUME StockAssumption == Stocks \subseteq [Dirs -> SUBSET (Releases \cup {Sidecar})]
ASSUME BlocksAssumption == Blocks \in Nat \ {0}
ASSUME NoFileAssumption ==
    NoFile \notin Dirs /\ NoFile \notin [from : Dirs, len : 0..Blocks, dur : 0..Blocks]
ASSUME BoundAssumption == MaxCalls \in Nat /\ MaxEvents \in Nat

VARIABLES
    holds,      \* holds[d]: the schema files present in source directory d
    cache,      \* cache[n]: the file at name n of the cache directory
    tmp,        \* tmp[p]: the temporary file process p is writing
    pc,         \* pc[p]: the next step of p's resolveSchema call
    call,       \* call[p]: the locals of p's current or last call
    calls,      \* calls begun so far
    events,     \* environment events so far
    lossy,      \* some kill, power loss or failed remove(cachePath) has happened
    stray       \* the processes whose temporary file was left behind for good

vars == <<holds, cache, tmp, pc, call, calls, events, lossy, stray>>

Names == Releases \cup {Sidecar}
Content == [from : Dirs, len : 0..Blocks, dur : 0..Blocks]
File == Content \cup {NoFile}
Steps == {"idle", "probe", "fetch", "open", "write", "rename", "sibling", "drop", "parse", "import"}
Result == {"none", "ok", "UnsupportedRelease", "SchemaFileCorrupt"}

\* The locals of resolveSchema: the release, the source directory found, the
\* name being written, the bytes of it written so far, where parsePath points,
\* whether the call was a hit, where the parsed bytes came from, and how it
\* ended.  "disturbed" is history: another actor was active during the call.
Call == [rel : Releases, dir : Dirs \cup {NoFile}, target : Names, done : 0..Blocks,
         at : {"cache", "source"}, hit : BOOLEAN, from : Dirs \cup {NoFile},
         disturbed : BOOLEAN, result : Result]

NewCall(r, busy) ==
    [rel |-> r, dir |-> NoFile, target |-> r, done |-> 0, at |-> "cache", hit |-> FALSE,
     from |-> NoFile, disturbed |-> busy, result |-> "none"]

Active(p) == pc[p] # "idle"
Complete(f) == f # NoFile /\ f.len = Blocks

Disturb(c, others) == [p \in Procs |-> [c[p] EXCEPT !.disturbed = @ \/ p \in others]]
ActiveOthers(p) == {q \in Procs \ {p} : Active(q)}

Init ==
    /\ holds \in Stocks
    /\ cache = [n \in Names |-> NoFile]
    /\ tmp = [p \in Procs |-> NoFile]
    /\ pc = [p \in Procs |-> "idle"]
    /\ call = [p \in Procs |-> NewCall(CHOOSE r \in Releases : TRUE, FALSE)]
    /\ calls = 0
    /\ events = 0
    /\ lossy = FALSE
    /\ stray = {}

--------------------------------------------------------------------------------
(* resolveSchema: probing the cache and finding the source *)

\* A process calls resolveSchema(r).  A file an earlier call left behind keeps its
\* random name, which nobody opens again: the model forgets it here.
Begin(p, r) ==
    /\ ~Active(p)
    /\ calls < MaxCalls
    /\ calls' = calls + 1
    /\ pc' = [pc EXCEPT ![p] = "probe"]
    /\ call' = Disturb([call EXCEPT ![p] = NewCall(r, ActiveOthers(p) # {})], ActiveOthers(p))
    /\ tmp' = [tmp EXCEPT ![p] = NoFile]
    /\ stray' = stray \ {p}
    /\ UNCHANGED <<holds, cache, events, lossy>>

\* findSourceFile: the first directory of the search path that has the release.
findSourceFile(p, r) ==
    {i \in DOMAIN SearchPath[p] :
        /\ r \in holds[SearchPath[p][i]]
        /\ \A j \in 1..(i - 1) : r \notin holds[SearchPath[p][j]]}

Finish(p, result) ==
    /\ pc' = [pc EXCEPT ![p] = "idle"]
    /\ call' = [call EXCEPT ![p].result = result]

CacheHit(p) ==
    /\ pc[p] = "probe"
    /\ cache[call[p].rel] # NoFile
    /\ pc' = [pc EXCEPT ![p] = "parse"]
    /\ call' = [call EXCEPT ![p].hit = TRUE]
    /\ UNCHANGED <<holds, cache, tmp, calls, events, lossy, stray>>

CacheMiss(p) ==
    /\ pc[p] = "probe"
    /\ cache[call[p].rel] = NoFile
    /\ \E i \in findSourceFile(p, call[p].rel) :
          call' = [call EXCEPT ![p].dir = SearchPath[p][i]]
    /\ pc' = [pc EXCEPT ![p] = "fetch"]
    /\ UNCHANGED <<holds, cache, tmp, calls, events, lossy, stray>>

UnsupportedRelease(p) ==
    /\ pc[p] = "probe"
    /\ cache[call[p].rel] = NoFile
    /\ findSourceFile(p, call[p].rel) = {}
    /\ Finish(p, "UnsupportedRelease")
    /\ UNCHANGED <<holds, cache, tmp, calls, events, lossy, stray>>

--------------------------------------------------------------------------------
(* readFileBytes and writeCacheAtomically, for the entry and then the sidecar *)

\* readFileBytes(source); its throw is caught like a failed cache write.
ReadSource(p) ==
    /\ pc[p] = "fetch"
    /\ pc' = [pc EXCEPT ![p] = IF call[p].target \in holds[call[p].dir] THEN "open" ELSE "drop"]
    /\ call' = [call EXCEPT ![p].done = 0]
    /\ UNCHANGED <<holds, cache, tmp, calls, events, lossy, stray>>

\* Mutant of OpenTmp: opens, and so truncates, the destination itself.
OpenDestination(p) ==
    /\ pc[p] = "open"
    /\ cache' = [cache EXCEPT ![call[p].target] = [from |-> call[p].dir, len |-> 0, dur |-> 0]]
    /\ tmp' = [tmp EXCEPT ![p] = [from |-> call[p].dir, len |-> 0, dur |-> 0]]
    /\ pc' = [pc EXCEPT ![p] = "write"]
    /\ UNCHANGED <<holds, call, calls, events, lossy, stray>>

\* create_directories, makeTmpPath (a random, never shared name) and open().
OpenTmp(p) ==
    /\ pc[p] = "open"
    /\ tmp' = [tmp EXCEPT ![p] = [from |-> call[p].dir, len |-> 0, dur |-> 0]]
    /\ pc' = [pc EXCEPT ![p] = "write"]
    /\ UNCHANGED <<holds, cache, call, calls, events, lossy, stray>>

\* Mutant of WriteChunk: writes one block past the end of the buffer.
WriteChunkPastEnd(p) ==
    /\ pc[p] = "write"
    /\ call[p].done < Blocks
    /\ \E k \in 1..(Blocks - call[p].done + 1) :
          /\ call' = [call EXCEPT ![p].done = @ + k]
          /\ tmp' = [tmp EXCEPT ![p] =
                        IF @ = NoFile THEN NoFile ELSE [@ EXCEPT !.len = call[p].done + k]]
    /\ UNCHANGED <<holds, cache, pc, calls, events, lossy, stray>>

\* Mutant of WriteChunk: the loop never adds writeCount to done.
WriteChunkNoAdvance(p) ==
    /\ pc[p] = "write"
    /\ call[p].done < Blocks
    /\ UNCHANGED vars

\* One write() of portableWriteFull: any positive part of what is left.
WriteChunk(p) ==
    /\ pc[p] = "write"
    /\ call[p].done < Blocks
    /\ \E k \in 1..(Blocks - call[p].done) :
          /\ call' = [call EXCEPT ![p].done = @ + k]
          /\ tmp' = [tmp EXCEPT ![p] =
                        IF @ = NoFile THEN NoFile ELSE [@ EXCEPT !.len = call[p].done + k]]
    /\ UNCHANGED <<holds, cache, pc, calls, events, lossy, stray>>

\* Mutant of SyncTmp: closes the file without fsync.
CloseWithoutSync(p) ==
    /\ pc[p] = "write"
    /\ call[p].done = Blocks
    /\ pc' = [pc EXCEPT ![p] = "rename"]
    /\ UNCHANGED <<holds, cache, tmp, call, calls, events, lossy, stray>>

Synced(f) == [f EXCEPT !.dur = f.len]

\* portableSync then portableClose.
SyncTmp(p) ==
    /\ pc[p] = "write"
    /\ call[p].done = Blocks
    /\ tmp' = [tmp EXCEPT ![p] = IF @ = NoFile THEN NoFile ELSE Synced(@)]
    /\ pc' = [pc EXCEPT ![p] = "rename"]
    /\ UNCHANGED <<holds, cache, call, calls, events, lossy, stray>>

\* rename(tmp, path) and disarm(): after the entry comes the sidecar, after the
\* sidecar the parse.
RenameTmp(p) ==
    /\ pc[p] = "rename"
    /\ tmp[p] # NoFile
    /\ cache' = [cache EXCEPT ![call[p].target] = tmp[p]]
    /\ tmp' = [tmp EXCEPT ![p] = NoFile]
    /\ pc' = [pc EXCEPT ![p] = IF call[p].target = Sidecar THEN "parse" ELSE "sibling"]
    /\ UNCHANGED <<holds, call, calls, events, lossy, stray>>

\* is_regular_file(siblingSource): stage xml.xsd when the source has it.
CheckSibling(p) ==
    /\ pc[p] = "sibling"
    /\ \/ /\ Sidecar \in holds[call[p].dir]
          /\ pc' = [pc EXCEPT ![p] = "fetch"]
          /\ call' = [call EXCEPT ![p].target = Sidecar]
       \/ /\ Sidecar \notin holds[call[p].dir]
          /\ pc' = [pc EXCEPT ![p] = "parse"]
          /\ UNCHANGED call
    /\ UNCHANGED <<holds, cache, tmp, calls, events, lossy, stray>>

\* Mutant of WriteFails: no TmpCleanup.
WriteFailsNoCleanup(p) ==
    /\ pc[p] \in {"open", "write", "rename"}
    /\ events < MaxEvents
    /\ events' = events + 1
    /\ pc' = [pc EXCEPT ![p] = "drop"]
    /\ UNCHANGED <<holds, cache, tmp, call, calls, lossy, stray>>

\* create_directories, open, write, fsync or rename fails: TmpCleanup removes
\* the temporary file and the exception reaches resolveSchema's catch.
WriteFails(p) ==
    /\ pc[p] \in {"open", "write", "rename"}
    /\ \/ pc[p] = "rename" /\ tmp[p] = NoFile /\ UNCHANGED events
       \/ events < MaxEvents /\ events' = events + 1
    /\ tmp' = [tmp EXCEPT ![p] = NoFile]
    /\ pc' = [pc EXCEPT ![p] = "drop"]
    /\ UNCHANGED <<holds, cache, call, calls, lossy, stray>>

\* A write, fsync or rename fails and so does TmpCleanup's remove, whose error is
\* ignored: the exception is the same, the temporary file stays behind.
CleanupFails(p) ==
    /\ pc[p] \in {"write", "rename"}
    /\ tmp[p] # NoFile
    /\ events + 2 <= MaxEvents
    /\ events' = events + 2
    /\ stray' = stray \cup {p}
    /\ pc' = [pc EXCEPT ![p] = "drop"]
    /\ UNCHANGED <<holds, cache, tmp, call, calls, lossy>>

\* Mutant of DropEntry: goes on to parse the cache copy it just removed.
DropEntryParseCache(p) ==
    /\ pc[p] = "drop"
    /\ cache' = [cache EXCEPT ![call[p].rel] = NoFile]
    /\ pc' = [pc EXCEPT ![p] = "parse"]
    /\ UNCHANGED <<holds, tmp, call, calls, events, lossy, stray>>

\* Mutant of DropEntry: leaves the half-populated entry in the cache.
KeepEntry(p) ==
    /\ pc[p] = "drop"
    /\ pc' = [pc EXCEPT ![p] = "parse"]
    /\ call' = [call EXCEPT ![p].at = "source"]
    /\ UNCHANGED <<holds, cache, tmp, calls, events, lossy, stray>>

\* The catch block: remove(cachePath), its error ignored, and parse the source.
DropEntry(p) ==
    /\ pc[p] = "drop"
    /\ cache' = [cache EXCEPT ![call[p].rel] = NoFile]
    /\ pc' = [pc EXCEPT ![p] = "parse"]
    /\ call' = [call EXCEPT ![p].at = "source"]
    /\ UNCHANGED <<holds, tmp, calls, events, lossy, stray>>

DropEntryFails(p) ==
    /\ pc[p] = "drop"
    /\ events < MaxEvents
    /\ events' = events + 1
    /\ lossy' = TRUE
    /\ pc' = [pc EXCEPT ![p] = "parse"]
    /\ call' = [call EXCEPT ![p].at = "source"]
    /\ UNCHANGED <<holds, cache, tmp, calls, stray>>

--------------------------------------------------------------------------------
(* parseSchemaFile: libxml2 opens parsePath and then the import beside it *)

\* The file libxml2 finds at a name, in the directory parsePath points into.
FileAt(p, n) ==
    IF call[p].at = "cache" THEN cache[n]
    ELSE IF n \in holds[call[p].dir]
         THEN [from |-> call[p].dir, len |-> Blocks, dur |-> Blocks]
         ELSE NoFile

ParseRoot(p) ==
    /\ pc[p] = "parse"
    /\ LET root == FileAt(p, call[p].rel) IN
          \/ /\ Complete(root)
             /\ call[p].rel \in Importers
             /\ pc' = [pc EXCEPT ![p] = "import"]
             /\ call' = [call EXCEPT ![p].from = root.from]
          \/ /\ Complete(root)
             /\ call[p].rel \notin Importers
             /\ pc' = [pc EXCEPT ![p] = "idle"]
             /\ call' = [call EXCEPT ![p].from = root.from, ![p].result = "ok"]
          \/ /\ ~Complete(root)
             /\ Finish(p, "SchemaFileCorrupt")
    /\ UNCHANGED <<holds, cache, tmp, calls, events, lossy, stray>>

ParseImport(p) ==
    /\ pc[p] = "import"
    /\ Finish(p, IF Complete(FileAt(p, Sidecar)) THEN "ok" ELSE "SchemaFileCorrupt")
    /\ UNCHANGED <<holds, cache, tmp, calls, events, lossy, stray>>

--------------------------------------------------------------------------------
(* The environment: kills, power loss, a deleted cache, a vanished source *)

\* The process is killed, and a temporary file it was writing stays behind.
Kill(p) ==
    /\ Active(p)
    /\ events < MaxEvents
    /\ events' = events + 1
    /\ lossy' = TRUE
    /\ pc' = [pc EXCEPT ![p] = "idle"]
    /\ stray' = IF tmp[p] = NoFile THEN stray ELSE stray \cup {p}
    /\ UNCHANGED <<holds, cache, tmp, call, calls>>

\* Every process stops; a cached file is lost with its directory entry, or keeps
\* at least the blocks that fsync made durable.
AfterPowerLoss(f) ==
    {NoFile, f} \cup
    (IF f = NoFile THEN {} ELSE {[f EXCEPT !.len = k] : k \in f.dur..f.len})

PowerLoss ==
    /\ events < MaxEvents
    /\ events' = events + 1
    /\ lossy' = TRUE
    /\ cache' \in [Names -> UNION {AfterPowerLoss(cache[n]) : n \in Names}]
    /\ \A n \in Names : cache'[n] \in AfterPowerLoss(cache[n])
    /\ stray' = {p \in Procs : tmp[p] # NoFile}
    /\ pc' = [p \in Procs |-> "idle"]
    /\ UNCHANGED <<holds, tmp, call, calls>>

\* The user removes the whole cache directory, at any time.
DeleteCache ==
    /\ events < MaxEvents
    /\ events' = events + 1
    /\ cache' = [n \in Names |-> NoFile]
    /\ tmp' = [p \in Procs |-> NoFile]
    /\ stray' = {}
    /\ call' = Disturb(call, {p \in Procs : Active(p)})
    /\ UNCHANGED <<holds, pc, calls, lossy>>

\* A source file disappears or becomes unreadable.
VanishSource(d, n) ==
    /\ events < MaxEvents
    /\ n \in holds[d]
    /\ events' = events + 1
    /\ holds' = [holds EXCEPT ![d] = @ \ {n}]
    /\ call' = Disturb(call, {p \in Procs : Active(p)})
    /\ UNCHANGED <<cache, tmp, pc, calls, lossy, stray>>

--------------------------------------------------------------------------------
Step(p) ==
    \/ CacheHit(p) \/ CacheMiss(p) \/ UnsupportedRelease(p)
    \/ ReadSource(p) \/ OpenTmp(p) \/ WriteChunk(p) \/ SyncTmp(p) \/ RenameTmp(p)
    \/ CheckSibling(p) \/ WriteFails(p) \/ CleanupFails(p)
    \/ DropEntry(p) \/ DropEntryFails(p) \/ ParseRoot(p) \/ ParseImport(p)

Environment ==
    \/ PowerLoss
    \/ DeleteCache
    \/ \E d \in Dirs, n \in Names : VanishSource(d, n)

Next ==
    \/ \E p \in Procs : Step(p) \/ Kill(p)
    \/ \E p \in Procs, r \in Releases : Begin(p, r)
    \/ Environment

Spec == Init /\ [][Next]_vars

\* The operating system keeps running a process that was not killed.
FairSpec == Spec /\ \A p \in Procs : WF_vars(Step(p))

--------------------------------------------------------------------------------
(* Properties *)

\* Every variable has its type.
TypeOK ==
    /\ holds \in [Dirs -> SUBSET Names]
    /\ cache \in [Names -> File]
    /\ tmp \in [Procs -> File]
    /\ pc \in [Procs -> Steps]
    /\ call \in [Procs -> Call]
    /\ calls \in 0..MaxCalls
    /\ events \in 0..MaxEvents
    /\ lossy \in BOOLEAN
    /\ stray \subseteq Procs

\* A file of the cache directory is complete and durable whenever it exists,
\* whatever the other processes do, whichever step is killed and whenever the
\* power fails: "a reader opening path never observes a half-written state"
\* (atomic_write.hpp:8-10).
CacheNeverTorn ==
    \A n \in Names : cache[n] # NoFile => cache[n].len = Blocks /\ cache[n].dur = Blocks

\* "Any failure (write/fsync/rename) removes the temp file ... nothing stray is
\* left behind" (atomic_write.hpp:10-11), as far as the code keeps it: a temporary
\* file exists outside open()..rename() only when its process was stopped while
\* writing it, or when TmpCleanup's own remove() failed (atomic_write.cpp:101-102).
NothingStray ==
    \A p \in Procs : tmp[p] # NoFile => pc[p] \in {"write", "rename"} \/ p \in stray

Intact(r, d) == r \in holds[d] /\ (r \in Importers => Sidecar \in holds[d])

SourceIntact(p) ==
    \E i \in findSourceFile(p, call[p].rel) : Intact(call[p].rel, SearchPath[p][i])

Ended(p) == ~Active(p) /\ call[p].result # "none"

\* A cache miss whose source is intact serves the schema, with the bytes of that
\* source, whichever of its cache writes fail: "A cache-write failure is NOT
\* fatal" (schema_registry.hpp:26-27) and "the bytes are identical"
\* (schema_registry.cpp:131-132).  Only for a call no other actor disturbed.
UndisturbedMissServes ==
    \A p \in Procs :
        /\ Ended(p) /\ ~call[p].hit /\ ~call[p].disturbed
        /\ call[p].dir # NoFile /\ Intact(call[p].rel, call[p].dir)
        => call[p].result = "ok" /\ call[p].from = call[p].dir

\* When no call is running, an entry copied from a source that has xml.xsd has
\* its sidecar in the cache, unless a kill, a power loss or a failing remove()
\* intervened, even when the user deletes the cache under a running call: "so a later hit
\* never parses a cache copy whose sidecar import is missing"
\* (schema_registry.cpp:159-161), with any number of concurrent writers.
HalfPopulatedOnlyByLoss ==
    (\A p \in Procs : ~Active(p)) /\ ~lossy =>
        \A r \in Releases :
            cache[r] # NoFile /\ Sidecar \in holds[cache[r].from] => cache[Sidecar] # NoFile

\* The steps of writeCacheAtomically implement one indivisible replacement of
\* the name (AtomicStore), for the entry and for the sidecar.
Stored(f) == IF f = NoFile THEN NoFile ELSE IF f.len = Blocks THEN f.from ELSE "torn"

Abstract == INSTANCE AtomicStore WITH store <- [n \in Names |-> Stored(cache[n])]

AtomicReplace == Abstract!Spec

\* A call that is not killed returns or throws: the write loop of
\* portableWriteFull and the catch path both lead to the parse.
CallsEnd == \A p \in Procs : Active(p) ~> ~Active(p)

\* Documented, and not so: "the atomic-write pattern avoids races if multiple
\* calls happen to fetch the same release concurrently" (docs/lld.md:786).  Two
\* calls whose sources are intact should both be served.
ConcurrentFetchServes ==
    \A p \in Procs : Ended(p) /\ SourceIntact(p) => call[p].result = "ok"

================================================================================
