--------------------------- MODULE SchemaCacheProofs ---------------------------
(***************************************************************************)
(* For every set of processes, releases and directories, every file size   *)
(* and every bound: the cache directory never holds a torn file, a         *)
(* temporary file outlives open()..rename() only by a kill or a failing    *)
(* remove(), and the steps of writeCacheAtomically implement AtomicStore;  *)
(* an undisturbed miss serves the schema of its source, and an entry       *)
(* without its import is left behind only by a kill, a power loss or a     *)
(* failing remove().                                                       *)
(***************************************************************************)
EXTENDS SchemaCache, TLAPS

\* The source directory is known from the miss on, and for good once the call
\* has turned to the source.
DirKnown ==
    \A p \in Procs :
        pc[p] \in {"fetch", "open", "write", "rename", "sibling", "drop"} \/ call[p].at = "source"
        => call[p].dir \in Dirs

\* A temporary file holds what portableWriteFull has written so far, and is
\* complete and durable once the process is about to rename it.
TmpProgress ==
    \A p \in Procs :
        /\ pc[p] = "open" => call[p].done = 0
        /\ tmp[p] # NoFile =>
              \/ pc[p] = "write" /\ tmp[p].len = call[p].done
              \/ pc[p] = "rename" /\ tmp[p].len = Blocks /\ tmp[p].dur = Blocks
              \/ p \in stray /\ pc[p] \in {"drop", "parse", "import", "idle"}

\* The inductive invariant.
IInv == TypeOK /\ DirKnown /\ TmpProgress /\ CacheNeverTorn

\* The call record a process starts from is well typed (resolveSchema's locals
\* before its first statement).
LEMMA NewCallType ==
    ASSUME NEW r \in Releases, NEW busy \in BOOLEAN
    PROVE  NewCall(r, busy) \in Call
BY BlocksAssumption DEF NewCall, Call, Names, Result

\* Recording a disturbance in the history changes no local of the code.
LEMMA DisturbKeeps ==
    ASSUME NEW c \in [Procs -> Call], NEW others
    PROVE  /\ Disturb(c, others) \in [Procs -> Call]
           /\ \A p \in Procs : /\ Disturb(c, others)[p].dir = c[p].dir
                               /\ Disturb(c, others)[p].at = c[p].at
                               /\ Disturb(c, others)[p].done = c[p].done
BY DEF Disturb, Call

\* Assigning one local of resolveSchema leaves a well-typed call record.
LEMMA AssignLocal ==
    ASSUME NEW c \in Call
    PROVE  /\ \A k \in 0..Blocks : [c EXCEPT !.done = k] \in Call
           /\ \A n \in Names : [c EXCEPT !.target = n] \in Call
           /\ \A a \in {"cache", "source"} : [c EXCEPT !.at = a] \in Call
           /\ \A d \in Dirs : [c EXCEPT !.dir = d] \in Call /\ [c EXCEPT !.from = d] \in Call
           /\ \A r \in Result : [c EXCEPT !.result = r] \in Call
           /\ \A d \in Dirs, r \in Result : [c EXCEPT !.from = d, !.result = r] \in Call
<1>1. \A k \in 0..Blocks : [c EXCEPT !.done = k] \in Call
  BY DEF Call
<1>2. \A n \in Names : [c EXCEPT !.target = n] \in Call
  BY DEF Call
<1>3. \A a \in {"cache", "source"} : [c EXCEPT !.at = a] \in Call
  BY DEF Call
<1>4. \A d \in Dirs : [c EXCEPT !.dir = d] \in Call /\ [c EXCEPT !.from = d] \in Call
  BY DEF Call
<1>5. \A r \in Result : [c EXCEPT !.result = r] \in Call
  BY DEF Call
<1>6. \A d \in Dirs, r \in Result : [c EXCEPT !.from = d, !.result = r] \in Call
  BY DEF Call
<1> QED
  BY <1>1, <1>2, <1>3, <1>4, <1>5, <1>6

\* A process that assigns its own call record keeps the type of call.
LEMMA OwnCall ==
    ASSUME TypeOK, NEW p \in Procs, NEW c \in Call, call' = [call EXCEPT ![p] = c]
    PROVE  call' \in [Procs -> Call]
BY DEF TypeOK

\* A process that moves to one of the steps keeps the type of pc.
LEMMA OwnStep ==
    ASSUME TypeOK, NEW p \in Procs, NEW s \in Steps, pc' = [pc EXCEPT ![p] = s]
    PROVE  pc' \in [Procs -> Steps]
BY DEF TypeOK

\* A process that replaces its own temporary file keeps the type of tmp.
LEMMA OwnTmp ==
    ASSUME TypeOK, NEW p \in Procs, NEW f \in File, tmp' = [tmp EXCEPT ![p] = f]
    PROVE  tmp' \in [Procs -> File]
BY DEF TypeOK

\* A process that replaces one file of the cache keeps the type of cache.
LEMMA OneName ==
    ASSUME TypeOK, NEW n \in Names, NEW f \in File, cache' = [cache EXCEPT ![n] = f]
    PROVE  cache' \in [Names -> File]
BY DEF TypeOK

\* The locals of a call are typed as its record says.
LEMMA Locals ==
    ASSUME TypeOK, NEW p \in Procs
    PROVE  /\ call[p] \in Call
           /\ call[p].rel \in Names
           /\ call[p].target \in Names
           /\ call[p].done \in 0..Blocks
           /\ tmp[p] \in File
BY DEF TypeOK, Call, Names

\* The cache is empty and no call is running when the system starts.
LEMMA InitInv == Init => IInv
<1> SUFFICES ASSUME Init PROVE IInv
  OBVIOUS
<1> USE BlocksAssumption, BoundAssumption, StockAssumption, ReleaseAssumption
<1>1. (CHOOSE r \in Releases : TRUE) \in Releases
  OBVIOUS
<1>2. NewCall(CHOOSE r \in Releases : TRUE, FALSE) \in Call
  BY <1>1, NewCallType
<1>3. TypeOK
  <2>1. holds \in [Dirs -> SUBSET Names]
    BY DEF Init, Names
  <2>2. call \in [Procs -> Call]
    BY <1>2 DEF Init
  <2>3. calls \in 0..MaxCalls /\ events \in 0..MaxEvents
    BY DEF Init
  <2>5. lossy \in BOOLEAN /\ stray \subseteq Procs
    BY DEF Init
  <2>4. cache \in [Names -> File] /\ tmp \in [Procs -> File] /\ pc \in [Procs -> Steps]
    BY DEF Init, File, Steps
  <2> QED
    BY <2>1, <2>2, <2>3, <2>4, <2>5 DEF TypeOK
<1>4. DirKnown /\ TmpProgress /\ CacheNeverTorn
  BY DEF Init, DirKnown, TmpProgress, CacheNeverTorn, NewCall
<1> QED
  BY <1>3, <1>4 DEF IInv

\* Every step of resolveSchema keeps the invariant.
LEMMA StepInv ==
    ASSUME IInv, NEW p \in Procs, Step(p)
    PROVE  IInv'
<1> USE BlocksAssumption
<1>0. TypeOK /\ DirKnown /\ TmpProgress /\ CacheNeverTorn
  BY DEF IInv
<1>a. /\ call[p] \in Call
      /\ call[p].rel \in Names
      /\ call[p].target \in Names
      /\ call[p].done \in 0..Blocks
      /\ tmp[p] \in File
  BY <1>0, Locals
<1>1. CASE CacheHit(p)
  <2>1. TypeOK'
    <3>1. call' \in [Procs -> Call]
      <4>1. call[p] \in Call
        BY <1>0 DEF TypeOK
      <4>2. [call[p] EXCEPT !.hit = TRUE] \in Call
        BY <4>1 DEF Call
      <4> QED
        BY <1>0, <1>1, <4>2 DEF CacheHit, TypeOK
    <3>2. pc' \in [Procs -> Steps]
      BY <1>0, <1>1 DEF CacheHit, TypeOK, Steps
    <3> QED
      BY <1>0, <1>1, <3>1, <3>2 DEF CacheHit, TypeOK
  <2>2. DirKnown'
    BY <1>0, <1>1 DEF CacheHit, TypeOK, DirKnown, Call
  <2>3. TmpProgress'
    BY <1>0, <1>1 DEF CacheHit, TypeOK, TmpProgress, Call, File, Content
  <2>4. CacheNeverTorn'
    BY <1>0, <1>1 DEF CacheHit, TypeOK, TmpProgress, CacheNeverTorn, Call
  <2> QED
    BY <2>1, <2>2, <2>3, <2>4 DEF IInv
<1>2. CASE CacheMiss(p)
  <2>0. PICK d \in Dirs : call' = [call EXCEPT ![p].dir = d]
    <3>1. PICK i \in findSourceFile(p, call[p].rel) : call' = [call EXCEPT ![p].dir = SearchPath[p][i]]
      BY <1>2 DEF CacheMiss
    <3>2. SearchPath[p][i] \in Dirs
      BY <3>1, PathAssumption DEF findSourceFile
    <3> QED
      BY <3>1, <3>2
  <2>1. TypeOK'
    <3>1. call' \in [Procs -> Call]
      BY <1>0, <2>0 DEF TypeOK, Call
    <3>2. pc' \in [Procs -> Steps]
      BY <1>0, <1>2 DEF CacheMiss, TypeOK, Steps
    <3> QED
      BY <1>0, <1>2, <3>1, <3>2 DEF CacheMiss, TypeOK
  <2>2. DirKnown'
    BY <1>0, <1>2, <2>0 DEF CacheMiss, TypeOK, DirKnown, Call
  <2>3. TmpProgress'
    BY <1>0, <1>2 DEF CacheMiss, findSourceFile, TypeOK, TmpProgress, Call, File, Content
  <2>4. CacheNeverTorn'
    BY <1>0, <1>2 DEF CacheMiss, findSourceFile, TypeOK, TmpProgress, CacheNeverTorn, Call
  <2> QED
    BY <2>1, <2>2, <2>3, <2>4 DEF IInv
<1>3. CASE UnsupportedRelease(p)
  <2>1. TypeOK'
    <3>1. call' \in [Procs -> Call]
      <4>1. [call[p] EXCEPT !.result = "UnsupportedRelease"] \in Call
        BY <1>a, AssignLocal DEF Result
      <4>2. call' = [call EXCEPT ![p] = [call[p] EXCEPT !.result = "UnsupportedRelease"]]
        BY <1>3 DEF UnsupportedRelease, Finish
      <4> QED
        BY <1>0, <4>1, <4>2, OwnCall
    <3>2. pc' \in [Procs -> Steps]
      BY <1>0, <1>3, OwnStep DEF UnsupportedRelease, Finish, Steps
    <3> QED
      BY <1>0, <1>3, <3>1, <3>2 DEF UnsupportedRelease, TypeOK
  <2>2. DirKnown'
    BY <1>0, <1>3 DEF UnsupportedRelease, Finish, Result, TypeOK, DirKnown, Call
  <2>3. TmpProgress'
    BY <1>0, <1>3 DEF UnsupportedRelease, Finish, Result, TypeOK, TmpProgress, Call, File, Content
  <2>4. CacheNeverTorn'
    BY <1>0, <1>3 DEF UnsupportedRelease, Finish, Result, TypeOK, TmpProgress, CacheNeverTorn, Call
  <2> QED
    BY <2>1, <2>2, <2>3, <2>4 DEF IInv
<1>4. CASE ReadSource(p)
  <2>1. TypeOK'
    <3>1. call' \in [Procs -> Call]
      <4>0. 0 \in 0..Blocks
        OBVIOUS
      <4>1. [call[p] EXCEPT !.done = 0] \in Call
        BY <1>a, <4>0, AssignLocal
      <4>2. call' = [call EXCEPT ![p] = [call[p] EXCEPT !.done = 0]]
        BY <1>4 DEF ReadSource
      <4> QED
        BY <1>0, <4>1, <4>2, OwnCall
    <3>2. pc' \in [Procs -> Steps]
      BY <1>0, <1>4, OwnStep DEF ReadSource, Steps
    <3> QED
      BY <1>0, <1>4, <3>1, <3>2 DEF ReadSource, TypeOK
  <2>2. DirKnown'
    BY <1>0, <1>4 DEF ReadSource, TypeOK, DirKnown, Call
  <2>3. TmpProgress'
    BY <1>0, <1>4 DEF ReadSource, TypeOK, TmpProgress, Call, File, Content
  <2>4. CacheNeverTorn'
    BY <1>0, <1>4 DEF ReadSource, TypeOK, TmpProgress, CacheNeverTorn, Call
  <2> QED
    BY <2>1, <2>2, <2>3, <2>4 DEF IInv
<1>5. CASE OpenTmp(p)
  <2>1. TypeOK'
    <3>1. tmp' \in [Procs -> File]
      <4>1. call[p].dir \in Dirs
        BY <1>0, <1>5 DEF OpenTmp, DirKnown
      <4>2. [from |-> call[p].dir, len |-> 0, dur |-> 0] \in File
        BY <4>1 DEF File, Content
      <4> QED
        BY <1>0, <1>5, <4>2, OwnTmp DEF OpenTmp
    <3>2. pc' \in [Procs -> Steps]
      BY <1>0, <1>5, OwnStep DEF OpenTmp, Steps
    <3> QED
      BY <1>0, <1>5, <3>1, <3>2 DEF OpenTmp, TypeOK
  <2>2. DirKnown'
    BY <1>0, <1>5 DEF OpenTmp, TypeOK, DirKnown, Call
  <2>3. TmpProgress'
    BY <1>0, <1>5 DEF OpenTmp, TypeOK, TmpProgress, Call, File, Content
  <2>4. CacheNeverTorn'
    BY <1>0, <1>5 DEF OpenTmp, TypeOK, TmpProgress, CacheNeverTorn, Call
  <2> QED
    BY <2>1, <2>2, <2>3, <2>4 DEF IInv
<1>6. CASE WriteChunk(p)
  <2>1. TypeOK'
    <3>0. PICK k \in 1..(Blocks - call[p].done) :
             /\ call' = [call EXCEPT ![p].done = @ + k]
             /\ tmp' = [tmp EXCEPT ![p] =
                           IF @ = NoFile THEN NoFile ELSE [@ EXCEPT !.len = call[p].done + k]]
      BY <1>6 DEF WriteChunk
    <3> DEFINE n == call[p].done + k
    <3>1. n \in 0..Blocks
      BY <1>a
    <3> HIDE DEF n
    <3>2. call' \in [Procs -> Call]
      <4>1. [call[p] EXCEPT !.done = n] \in Call
        BY <1>a, <3>1, AssignLocal
      <4>2. call' = [call EXCEPT ![p] = [call[p] EXCEPT !.done = n]]
        BY <3>0 DEF n
      <4> QED
        BY <1>0, <4>1, <4>2, OwnCall
    <3>3. tmp' \in [Procs -> File]
      <4>1. (IF tmp[p] = NoFile THEN NoFile ELSE [tmp[p] EXCEPT !.len = n]) \in File
        BY <1>a, <3>1 DEF File, Content
      <4>2. tmp' = [tmp EXCEPT ![p] = IF tmp[p] = NoFile THEN NoFile ELSE [tmp[p] EXCEPT !.len = n]]
        BY <3>0 DEF n
      <4> QED
        BY <1>0, <4>1, <4>2, OwnTmp
    <3> QED
      BY <1>0, <1>6, <3>2, <3>3 DEF WriteChunk, TypeOK
  <2>2. DirKnown'
    BY <1>0, <1>6 DEF WriteChunk, TypeOK, DirKnown, Call
  <2>3. TmpProgress'
    BY <1>0, <1>6 DEF WriteChunk, TypeOK, TmpProgress, Call, File, Content
  <2>4. CacheNeverTorn'
    BY <1>0, <1>6 DEF WriteChunk, TypeOK, TmpProgress, CacheNeverTorn, Call
  <2> QED
    BY <2>1, <2>2, <2>3, <2>4 DEF IInv
<1>7. CASE SyncTmp(p)
  <2>1. TypeOK'
    <3>1. tmp' \in [Procs -> File]
      <4>1. (IF tmp[p] = NoFile THEN NoFile ELSE Synced(tmp[p])) \in File
        BY <1>a DEF File, Content, Synced
      <4>2. tmp' = [tmp EXCEPT ![p] = IF tmp[p] = NoFile THEN NoFile ELSE Synced(tmp[p])]
        BY <1>7 DEF SyncTmp
      <4> QED
        BY <1>0, <4>1, <4>2, OwnTmp
    <3>2. pc' \in [Procs -> Steps]
      BY <1>0, <1>7, OwnStep DEF SyncTmp, Steps
    <3> QED
      BY <1>0, <1>7, <3>1, <3>2 DEF SyncTmp, TypeOK
  <2>2. DirKnown'
    BY <1>0, <1>7 DEF SyncTmp, Synced, TypeOK, DirKnown, Call
  <2>3. TmpProgress'
    BY <1>0, <1>7 DEF SyncTmp, Synced, TypeOK, TmpProgress, Call, File, Content
  <2>4. CacheNeverTorn'
    BY <1>0, <1>7 DEF SyncTmp, Synced, TypeOK, TmpProgress, CacheNeverTorn, Call
  <2> QED
    BY <2>1, <2>2, <2>3, <2>4 DEF IInv
<1>8. CASE RenameTmp(p)
  <2>1. TypeOK'
    <3>1. tmp' \in [Procs -> File]
      BY <1>0, <1>8, OwnTmp DEF RenameTmp, File
    <3>2. cache' \in [Names -> File]
      BY <1>0, <1>a, <1>8, OneName DEF RenameTmp
    <3>3. pc' \in [Procs -> Steps]
      BY <1>0, <1>8, OwnStep DEF RenameTmp, Steps
    <3> QED
      BY <1>0, <1>8, <3>1, <3>2, <3>3 DEF RenameTmp, TypeOK
  <2>2. DirKnown'
    BY <1>0, <1>8 DEF RenameTmp, TypeOK, DirKnown, Call
  <2>3. TmpProgress'
    BY <1>0, <1>8 DEF RenameTmp, TypeOK, TmpProgress, Call, File, Content
  <2>4. CacheNeverTorn'
    BY <1>0, <1>8 DEF RenameTmp, TypeOK, TmpProgress, CacheNeverTorn, Call
  <2> QED
    BY <2>1, <2>2, <2>3, <2>4 DEF IInv
<1>9. CASE CheckSibling(p)
  <2>1. TypeOK'
    <3>1. call' \in [Procs -> Call]
      <4>1. [call[p] EXCEPT !.target = Sidecar] \in Call
        BY <1>a, AssignLocal DEF Names
      <4>2. CASE call' = [call EXCEPT ![p].target = Sidecar]
        <5>1. call' = [call EXCEPT ![p] = [call[p] EXCEPT !.target = Sidecar]]
          BY <4>2
        <5> QED
          BY <1>0, <4>1, <5>1, OwnCall
      <4>3. CASE UNCHANGED call
        BY <1>0, <4>3 DEF TypeOK
      <4> QED
        BY <1>9, <4>2, <4>3 DEF CheckSibling
    <3>2. pc' \in [Procs -> Steps]
      BY <1>0, <1>9, OwnStep DEF CheckSibling, Steps
    <3> QED
      BY <1>0, <1>9, <3>1, <3>2 DEF CheckSibling, TypeOK
  <2>2. DirKnown'
    BY <1>0, <1>9 DEF CheckSibling, TypeOK, DirKnown, Call
  <2>3. TmpProgress'
    BY <1>0, <1>9 DEF CheckSibling, TypeOK, TmpProgress, Call, File, Content
  <2>4. CacheNeverTorn'
    BY <1>0, <1>9 DEF CheckSibling, TypeOK, TmpProgress, CacheNeverTorn, Call
  <2> QED
    BY <2>1, <2>2, <2>3, <2>4 DEF IInv
<1>10. CASE WriteFails(p)
  <2>1. TypeOK'
    <3>1. tmp' \in [Procs -> File]
      BY <1>0, <1>10, OwnTmp DEF WriteFails, File
    <3>2. pc' \in [Procs -> Steps]
      BY <1>0, <1>10, OwnStep DEF WriteFails, Steps
    <3>3. events' \in 0..MaxEvents
      BY <1>0, <1>10, BoundAssumption DEF WriteFails, TypeOK
    <3> QED
      BY <1>0, <1>10, <3>1, <3>2, <3>3 DEF WriteFails, TypeOK
  <2>2. DirKnown'
    BY <1>0, <1>10 DEF WriteFails, TypeOK, DirKnown, Call
  <2>3. TmpProgress'
    BY <1>0, <1>10 DEF WriteFails, TypeOK, TmpProgress, Call, File, Content
  <2>4. CacheNeverTorn'
    BY <1>0, <1>10 DEF WriteFails, TypeOK, TmpProgress, CacheNeverTorn, Call
  <2> QED
    BY <2>1, <2>2, <2>3, <2>4 DEF IInv
<1>11. CASE DropEntry(p)
  <2>1. TypeOK'
    <3>1. call' \in [Procs -> Call]
      <4>1. [call[p] EXCEPT !.at = "source"] \in Call
        BY <1>a, AssignLocal
      <4>2. call' = [call EXCEPT ![p] = [call[p] EXCEPT !.at = "source"]]
        BY <1>11 DEF DropEntry
      <4> QED
        BY <1>0, <4>1, <4>2, OwnCall
    <3>2. pc' \in [Procs -> Steps]
      BY <1>0, <1>11, OwnStep DEF DropEntry, Steps
    <3>3. cache' \in [Names -> File]
      BY <1>0, <1>a, <1>11, OneName DEF DropEntry, File
    <3> QED
      BY <1>0, <1>11, <3>1, <3>2, <3>3 DEF DropEntry, TypeOK
  <2>2. DirKnown'
    BY <1>0, <1>11 DEF DropEntry, TypeOK, DirKnown, Call
  <2>3. TmpProgress'
    BY <1>0, <1>11 DEF DropEntry, TypeOK, TmpProgress, Call, File, Content
  <2>4. CacheNeverTorn'
    BY <1>0, <1>11 DEF DropEntry, TypeOK, TmpProgress, CacheNeverTorn, Call
  <2> QED
    BY <2>1, <2>2, <2>3, <2>4 DEF IInv
<1>12. CASE DropEntryFails(p)
  <2>1. TypeOK'
    <3>1. call' \in [Procs -> Call]
      <4>1. [call[p] EXCEPT !.at = "source"] \in Call
        BY <1>a, AssignLocal
      <4>2. call' = [call EXCEPT ![p] = [call[p] EXCEPT !.at = "source"]]
        BY <1>12 DEF DropEntryFails
      <4> QED
        BY <1>0, <4>1, <4>2, OwnCall
    <3>2. pc' \in [Procs -> Steps]
      BY <1>0, <1>12, OwnStep DEF DropEntryFails, Steps
    <3>3. events' \in 0..MaxEvents
      BY <1>0, <1>12, BoundAssumption DEF DropEntryFails, TypeOK
    <3> QED
      BY <1>0, <1>12, <3>1, <3>2, <3>3 DEF DropEntryFails, TypeOK
  <2>2. DirKnown'
    BY <1>0, <1>12 DEF DropEntryFails, TypeOK, DirKnown, Call
  <2>3. TmpProgress'
    BY <1>0, <1>12 DEF DropEntryFails, TypeOK, TmpProgress, Call, File, Content
  <2>4. CacheNeverTorn'
    BY <1>0, <1>12 DEF DropEntryFails, TypeOK, TmpProgress, CacheNeverTorn, Call
  <2> QED
    BY <2>1, <2>2, <2>3, <2>4 DEF IInv
<1>13. CASE ParseRoot(p)
  <2>1. TypeOK'
    <3> DEFINE root == FileAt(p, call[p].rel)
    <3>1. Complete(root) => root.from \in Dirs
      <4>1. CASE call[p].at = "cache"
        BY <1>0, <1>a, <4>1 DEF TypeOK, FileAt, Complete, File, Content
      <4>2. CASE call[p].at = "source"
        BY <1>0, <4>2 DEF DirKnown, FileAt, Complete
      <4> QED
        BY <1>a, <4>1, <4>2 DEF Call
    <3>2. call' \in [Procs -> Call] /\ pc' \in [Procs -> Steps]
      <4> HIDE DEF root
      <4>1. CASE Complete(root) /\ pc' = [pc EXCEPT ![p] = "import"]
                 /\ call' = [call EXCEPT ![p].from = root.from]
        <5>1. [call[p] EXCEPT !.from = root.from] \in Call
          BY <1>a, <3>1, <4>1, AssignLocal
        <5>2. call' = [call EXCEPT ![p] = [call[p] EXCEPT !.from = root.from]]
          BY <4>1
        <5> QED
          BY <1>0, <4>1, <5>1, <5>2, OwnCall, OwnStep DEF Steps
      <4>2. CASE Complete(root) /\ pc' = [pc EXCEPT ![p] = "idle"]
                 /\ call' = [call EXCEPT ![p].from = root.from, ![p].result = "ok"]
        <5>1. [call[p] EXCEPT !.from = root.from, !.result = "ok"] \in Call
          BY <1>a, <3>1, <4>2, AssignLocal DEF Result
        <5>2. call' = [call EXCEPT ![p] = [call[p] EXCEPT !.from = root.from, !.result = "ok"]]
          BY <1>0, <4>2 DEF TypeOK
        <5> QED
          BY <1>0, <4>2, <5>1, <5>2, OwnCall, OwnStep DEF Steps
      <4>3. CASE Finish(p, "SchemaFileCorrupt")
        <5>1. [call[p] EXCEPT !.result = "SchemaFileCorrupt"] \in Call
          BY <1>a, AssignLocal DEF Result
        <5>2. call' = [call EXCEPT ![p] = [call[p] EXCEPT !.result = "SchemaFileCorrupt"]]
          BY <4>3 DEF Finish
        <5>3. pc' \in [Procs -> Steps]
          BY <1>0, <4>3, OwnStep DEF Finish, Steps
        <5> QED
          BY <1>0, <5>1, <5>2, <5>3, OwnCall
      <4> QED
        BY <1>13, <4>1, <4>2, <4>3 DEF ParseRoot, root
    <3> QED
      BY <1>0, <1>13, <3>2 DEF ParseRoot, TypeOK
  <2>2. DirKnown'
    BY <1>0, <1>13 DEF ParseRoot, FileAt, Complete, Finish, Result, TypeOK, DirKnown, Call
  <2>3. TmpProgress'
    BY <1>0, <1>13 DEF ParseRoot, FileAt, Complete, Finish, Result, TypeOK, TmpProgress, Call, File, Content
  <2>4. CacheNeverTorn'
    BY <1>0, <1>13 DEF ParseRoot, FileAt, Complete, Finish, Result, TypeOK, TmpProgress, CacheNeverTorn, Call
  <2> QED
    BY <2>1, <2>2, <2>3, <2>4 DEF IInv
<1>14. CASE ParseImport(p)
  <2>1. TypeOK'
    <3> DEFINE r == IF Complete(FileAt(p, Sidecar)) THEN "ok" ELSE "SchemaFileCorrupt"
    <3>1. call' \in [Procs -> Call]
      <4>1. r \in Result
        BY DEF Result
      <4>2. call' = [call EXCEPT ![p] = [call[p] EXCEPT !.result = r]]
        BY <1>14 DEF ParseImport, Finish
      <4> HIDE DEF r
      <4>3. [call[p] EXCEPT !.result = r] \in Call
        BY <1>a, <4>1, AssignLocal
      <4> QED
        BY <1>0, <4>2, <4>3, OwnCall
    <3>2. pc' \in [Procs -> Steps]
      BY <1>0, <1>14, OwnStep DEF ParseImport, Finish, Steps
    <3> QED
      BY <1>0, <1>14, <3>1, <3>2 DEF ParseImport, TypeOK
  <2>2. DirKnown'
    BY <1>0, <1>14 DEF ParseImport, Finish, Result, TypeOK, DirKnown, Call
  <2>3. TmpProgress'
    BY <1>0, <1>14 DEF ParseImport, Finish, Result, TypeOK, TmpProgress, Call, File, Content
  <2>4. CacheNeverTorn'
    BY <1>0, <1>14 DEF ParseImport, Finish, Result, TypeOK, TmpProgress, CacheNeverTorn, Call
  <2> QED
    BY <2>1, <2>2, <2>3, <2>4 DEF IInv
<1>15. CASE CleanupFails(p)
  <2>1. TypeOK'
    <3>1. pc' \in [Procs -> Steps]
      BY <1>0, <1>15, OwnStep DEF CleanupFails, Steps
    <3>2. events' \in 0..MaxEvents
      BY <1>0, <1>15, BoundAssumption DEF CleanupFails, TypeOK
    <3> QED
      BY <1>0, <1>15, <3>1, <3>2 DEF CleanupFails, TypeOK
  <2>2. DirKnown'
    BY <1>0, <1>15 DEF CleanupFails, TypeOK, DirKnown, Call
  <2>3. TmpProgress'
    BY <1>0, <1>15 DEF CleanupFails, TypeOK, TmpProgress, Call, File, Content
  <2>4. CacheNeverTorn'
    BY <1>0, <1>15 DEF CleanupFails, TypeOK, TmpProgress, CacheNeverTorn, Call
  <2> QED
    BY <2>1, <2>2, <2>3, <2>4 DEF IInv
<1> QED
  BY <1>1, <1>2, <1>3, <1>4, <1>5, <1>6, <1>7, <1>8, <1>9, <1>10, <1>11, <1>12, <1>13, <1>14,
     <1>15
     DEF Step

\* A power loss forgets a cached file or keeps it whole, because it was fsync'd
\* before it got its name.
LEMMA PowerLossKeeps ==
    ASSUME TypeOK, CacheNeverTorn, PowerLoss
    PROVE  \A n \in Names : cache'[n] \in {NoFile, cache[n]}
<1> SUFFICES ASSUME NEW n \in Names, cache[n] # NoFile PROVE cache'[n] \in {NoFile, cache[n]}
  BY DEF PowerLoss, AfterPowerLoss
<1>1. cache[n] \in Content /\ cache[n].len = Blocks /\ cache[n].dur = Blocks
  BY DEF CacheNeverTorn, TypeOK, File
<1>2. \A k \in cache[n].dur..cache[n].len : k = Blocks
  BY <1>1, BlocksAssumption
<1>3. [cache[n] EXCEPT !.len = Blocks] = cache[n]
  BY <1>1 DEF Content
<1> QED
  BY <1>2, <1>3 DEF PowerLoss, AfterPowerLoss

\* Starting a call, a kill, a power loss, a deleted cache and a vanished source
\* keep the invariant.
LEMMA EnvironmentInv ==
    ASSUME IInv,
           \/ \E p \in Procs : Kill(p)
           \/ \E p \in Procs, r \in Releases : Begin(p, r)
           \/ Environment
    PROVE  IInv'
<1> USE BlocksAssumption, BoundAssumption
<1>0. TypeOK /\ DirKnown /\ TmpProgress /\ CacheNeverTorn
  BY DEF IInv
<1>1. ASSUME NEW p \in Procs, Kill(p) PROVE IInv'
  <2>1. TypeOK'
    BY <1>0, <1>1 DEF Kill, TypeOK, File, Steps
  <2>2. DirKnown' /\ TmpProgress' /\ CacheNeverTorn'
    BY <1>0, <1>1 DEF Kill, TypeOK, DirKnown, TmpProgress, CacheNeverTorn
  <2> QED
    BY <2>1, <2>2 DEF IInv
<1>2. ASSUME NEW p \in Procs, NEW r \in Releases, Begin(p, r) PROVE IInv'
  <2> DEFINE busy == ActiveOthers(p) # {}
             c == [call EXCEPT ![p] = NewCall(r, busy)]
  <2>1. c \in [Procs -> Call]
    BY <1>0, NewCallType DEF TypeOK
  <2>2. call' = Disturb(c, ActiveOthers(p))
    BY <1>2 DEF Begin
  <2>3. /\ call' \in [Procs -> Call]
        /\ \A q \in Procs : /\ call'[q].dir = c[q].dir
                             /\ call'[q].at = c[q].at
                             /\ call'[q].done = c[q].done
    <3> HIDE DEF c
    <3> QED
      BY <2>1, <2>2, DisturbKeeps
  <2>4. /\ c[p].at = "cache"
        /\ \A q \in Procs \ {p} : c[q] = call[q]
    BY <1>0 DEF TypeOK, NewCall
  <2>5. TypeOK'
    <3>1. pc' \in [Procs -> Steps] /\ calls' \in 0..MaxCalls
      BY <1>0, <1>2 DEF Begin, TypeOK, Steps
    <3>2. tmp' \in [Procs -> File]
      BY <1>0, <1>2, OwnTmp DEF Begin, File
    <3> QED
      BY <1>0, <1>2, <2>3, <3>1, <3>2 DEF Begin, TypeOK
  <2> HIDE DEF c
  <2>6. DirKnown'
    <3>1. /\ pc'[p] = "probe"
          /\ \A q \in Procs \ {p} : pc'[q] = pc[q]
      BY <1>0, <1>2 DEF Begin, TypeOK
    <3>2. call'[p].at = "cache"
      BY <2>3, <2>4
    <3>3. \A q \in Procs \ {p} : call'[q].dir = call[q].dir /\ call'[q].at = call[q].at
      BY <2>3, <2>4
    <3> QED
      BY <1>0, <3>1, <3>2, <3>3 DEF DirKnown
  <2>7. TmpProgress'
    <3>1. pc'[p] = "probe" /\ tmp'[p] = NoFile
      BY <1>0, <1>2 DEF Begin, TypeOK
    <3>3. \A q \in Procs \ {p} : /\ pc'[q] = pc[q] /\ call'[q].done = call[q].done
                                  /\ tmp'[q] = tmp[q] /\ (q \in stray => q \in stray')
      BY <1>0, <1>2, <2>3, <2>4 DEF Begin, TypeOK
    <3> QED
      BY <1>0, <3>1, <3>3 DEF TmpProgress
  <2>8. CacheNeverTorn'
    BY <1>0, <1>2 DEF Begin, CacheNeverTorn
  <2> QED
    BY <2>5, <2>6, <2>7, <2>8 DEF IInv
<1>3. ASSUME PowerLoss PROVE IInv'
  <2>1. \A n \in Names : cache'[n] \in {NoFile, cache[n]}
    BY <1>0, <1>3, PowerLossKeeps
  <2>2. TypeOK'
    <3>1. cache' \in [Names -> File]
      BY <1>0, <1>3, <2>1 DEF PowerLoss, TypeOK, File
    <3> QED
      BY <1>0, <1>3, <3>1 DEF PowerLoss, TypeOK, File, Steps
  <2>3. DirKnown' /\ TmpProgress' /\ CacheNeverTorn'
    BY <1>0, <1>3, <2>1 DEF PowerLoss, TypeOK, DirKnown, TmpProgress, CacheNeverTorn
  <2> QED
    BY <2>2, <2>3 DEF IInv
<1>4. ASSUME NEW others, call' = Disturb(call, others), UNCHANGED pc
      PROVE  /\ call' \in [Procs -> Call] /\ DirKnown'
             /\ TmpProgress /\ UNCHANGED <<tmp, stray>> => TmpProgress'
  <2>1. /\ call' \in [Procs -> Call]
        /\ \A q \in Procs : /\ call'[q].dir = call[q].dir
                             /\ call'[q].at = call[q].at
                             /\ call'[q].done = call[q].done
    BY <1>0, <1>4, DisturbKeeps DEF TypeOK
  <2> QED
    BY <1>0, <1>4, <2>1 DEF DirKnown, TmpProgress
<1>5. ASSUME DeleteCache PROVE IInv'
  <2>1. call' \in [Procs -> Call] /\ DirKnown'
    BY <1>4, <1>5 DEF DeleteCache
  <2>2. TypeOK'
    BY <1>0, <1>5, <2>1 DEF DeleteCache, TypeOK, File
  <2>3. \A q \in Procs : call'[q].done = call[q].done
    BY <1>0, <1>5, DisturbKeeps DEF DeleteCache, TypeOK
  <2>4. TmpProgress' /\ CacheNeverTorn'
    BY <1>0, <1>5, <2>3 DEF DeleteCache, TmpProgress, CacheNeverTorn
  <2> QED
    BY <2>1, <2>2, <2>4 DEF IInv
<1>6. ASSUME NEW d \in Dirs, NEW n \in Names, VanishSource(d, n) PROVE IInv'
  <2>1. call' \in [Procs -> Call] /\ DirKnown' /\ TmpProgress'
    BY <1>0, <1>4, <1>6 DEF VanishSource
  <2>2. TypeOK'
    BY <1>0, <1>6, <2>1 DEF VanishSource, TypeOK
  <2>3. CacheNeverTorn'
    BY <1>0, <1>6 DEF VanishSource, CacheNeverTorn
  <2> QED
    BY <2>1, <2>2, <2>3 DEF IInv
<1> QED
  BY <1>1, <1>2, <1>3, <1>5, <1>6 DEF Environment

\* A stuttering step changes nothing the invariant reads.
LEMMA StutterInv == IInv /\ UNCHANGED vars => IInv'
BY DEF IInv, TypeOK, DirKnown, TmpProgress, CacheNeverTorn, vars

\* The inductive invariant holds in every state of the specification.
THEOREM InductiveInvariant == Spec => []IInv
<1>1. IInv /\ [Next]_vars => IInv'
  BY StepInv, EnvironmentInv, StutterInv DEF Next
<1> QED
  BY InitInv, <1>1, PTL DEF Spec

\* The variables of the cache model keep their types.
THEOREM TypeCorrect == Spec => []TypeOK
<1>1. IInv => TypeOK
  BY DEF IInv
<1> QED
  BY InductiveInvariant, <1>1, PTL

\* No interleaving, failure, kill or power loss leaves a torn file in the cache
\* directory: what writeCacheAtomically promises its readers.
THEOREM NeverTorn == Spec => []CacheNeverTorn
<1>1. IInv => CacheNeverTorn
  BY DEF IInv
<1> QED
  BY InductiveInvariant, <1>1, PTL

\* A temporary file outlives its writeCacheAtomically only when the process was
\* stopped while it wrote it, or TmpCleanup's own remove() failed
\* (atomic_write.cpp:101-102).
THEOREM NoStrayFile == Spec => []NothingStray
<1>1. IInv => NothingStray
  BY DEF IInv, TmpProgress, NothingStray
<1> QED
  BY InductiveInvariant, <1>1, PTL

--------------------------------------------------------------------------------
(* The refinement of AtomicStore *)

\* Every step is a step of AtomicStore, or leaves the store as it is.
LEMMA StepRefines ==
    ASSUME IInv, IInv', [Next]_vars
    PROVE  [Abstract!Next]_([n \in Names |-> Stored(cache[n])])
<1> DEFINE store == [n \in Names |-> Stored(cache[n])]
<1>0. TypeOK /\ TmpProgress /\ CacheNeverTorn /\ CacheNeverTorn' /\ DirKnown
  BY DEF IInv
<1>1. ASSUME UNCHANGED cache PROVE UNCHANGED store
  BY <1>1
<1>2. ASSUME NEW p \in Procs, RenameTmp(p) PROVE \E n \in Names, d \in Dirs : Abstract!Put(n, d)
  <2>1. call[p].target \in Names /\ tmp[p] \in Content /\ tmp[p].len = Blocks
    BY <1>0, <1>2 DEF RenameTmp, TypeOK, TmpProgress, Call, File
  <2>2. Stored(tmp[p]) = tmp[p].from /\ tmp[p].from \in Dirs
    BY <1>2, <2>1 DEF RenameTmp, Stored, Content
  <2>3. store' = [store EXCEPT ![call[p].target] = tmp[p].from]
    BY <1>0, <1>2, <2>1, <2>2 DEF RenameTmp, TypeOK
  <2> QED
    BY <2>1, <2>2, <2>3 DEF Abstract!Put
<1>3. ASSUME NEW p \in Procs, DropEntry(p) PROVE \E n \in Names : Abstract!Remove(n)
  <2>1. call[p].rel \in Names
    BY <1>0 DEF TypeOK, Call, Names
  <2>2. store' = [store EXCEPT ![call[p].rel] = NoFile]
    BY <1>0, <1>3, <2>1 DEF DropEntry, TypeOK, Stored
  <2> QED
    BY <2>1, <2>2 DEF Abstract!Remove
<1>4. ASSUME PowerLoss PROVE \E lost \in SUBSET Names : Abstract!Forget(lost)
  <2> DEFINE lost == {n \in Names : cache'[n] = NoFile}
  <2>1. \A n \in Names : cache'[n] \in {NoFile, cache[n]}
    BY <1>0, <1>4, PowerLossKeeps
  <2>2. store' = [n \in Names |-> IF n \in lost THEN NoFile ELSE store[n]]
    BY <2>1 DEF Stored
  <2>3. Abstract!Forget(lost)
    BY <2>2 DEF Abstract!Forget
  <2> QED
    BY <2>3
<1>5. ASSUME DeleteCache PROVE \E lost \in SUBSET Names : Abstract!Forget(lost)
  <2>1. store' = [n \in Names |-> IF n \in Names THEN NoFile ELSE store[n]]
    BY <1>5 DEF DeleteCache, Stored
  <2> QED
    BY <2>1 DEF Abstract!Forget
<1>6. ASSUME NEW p \in Procs, Step(p), ~RenameTmp(p), ~DropEntry(p) PROVE UNCHANGED cache
  BY <1>6 DEF Step, CacheHit, CacheMiss, UnsupportedRelease, ReadSource, OpenTmp, WriteChunk,
     SyncTmp, CheckSibling, WriteFails, CleanupFails, DropEntryFails, ParseRoot, ParseImport
<1>7. ASSUME \/ \E p \in Procs : Kill(p)
             \/ \E p \in Procs, r \in Releases : Begin(p, r)
             \/ \E d \in Dirs, n \in Names : VanishSource(d, n)
             \/ UNCHANGED vars
      PROVE  UNCHANGED cache
  BY <1>7 DEF Kill, Begin, VanishSource, vars
<1> QED
  BY <1>1, <1>2, <1>3, <1>4, <1>5, <1>6, <1>7 DEF Next, Environment, Abstract!Next

\* The cache as writeCacheAtomically and resolveSchema use it implements the
\* store whose cells are replaced indivisibly.
THEOREM RefinesAtomicStore == Spec => AtomicReplace
<1>1. Init => Abstract!Init
  BY DEF Init, Abstract!Init, Stored
<1>2. IInv /\ IInv' /\ [Next]_vars => [Abstract!Next]_([n \in Names |-> Stored(cache[n])])
  BY StepRefines
<1> QED
  BY <1>1, <1>2, InductiveInvariant, PTL DEF Spec, AtomicReplace, Abstract!Spec

--------------------------------------------------------------------------------
(* What a call finds in the cache is what it put there, and an entry without  *)
(* its import is left behind only by a kill, a power loss or a failing remove. *)

\* The locals of a call are consistent with where it is.
Ledger ==
    \A p \in Procs :
        /\ call[p].target \in {call[p].rel, Sidecar}
        /\ tmp[p] # NoFile => tmp[p].from = call[p].dir
        /\ Active(p) => call[p].result = "none"
        /\ pc[p] = "probe" =>
              call[p].target = call[p].rel /\ call[p].dir = NoFile /\ ~call[p].hit
        /\ pc[p] = "import" => call[p].rel \in Importers

\* The entry is in the cache and the call is on its way to the sidecar's rename.
Staging(p) ==
    \/ pc[p] = "sibling"
    \/ call[p].target = Sidecar /\ pc[p] \in {"fetch", "open", "write", "rename"}

\* The call that wrote r's entry will stage its sidecar or remove it.
Repairs(p, r) ==
    /\ call[p].rel = r /\ call[p].dir = cache[r].from
    /\ Staging(p) \/ (call[p].target = Sidecar /\ pc[p] = "drop")

\* An entry without its sidecar has somebody at work on it.
Repaired ==
    ~lossy => \A r \in Releases :
        cache[r] # NoFile /\ Sidecar \in holds[cache[r].from] =>
            cache[Sidecar] # NoFile \/ \E p \in Procs : Repairs(p, r)

\* Nobody else is active in an undisturbed call.
Alone == \A p \in Procs : Active(p) /\ ~call[p].disturbed => ActiveOthers(p) = {}

OwnEntry(p) == cache[call[p].rel] # NoFile /\ cache[call[p].rel].from = call[p].dir

\* What an undisturbed miss finds in the cache is what it put there.
Served ==
    \A p \in Procs : Active(p) /\ ~call[p].hit /\ ~call[p].disturbed =>
        /\ Staging(p) => OwnEntry(p)
        /\ pc[p] \in {"parse", "import"} /\ call[p].at = "cache" =>
              OwnEntry(p) /\ (Sidecar \in holds[call[p].dir] => cache[Sidecar] # NoFile)
        /\ pc[p] = "import" => call[p].from = call[p].dir

\* The inductive invariant, on top of IInv.
JInv == IInv /\ Ledger /\ Repaired /\ Alone /\ Served /\ UndisturbedMissServes

--------------------------------------------------------------------------------
(* What a step leaves alone *)

LEMMA Others ==
    ASSUME TypeOK, NEW p \in Procs, Step(p)
    PROVE  /\ \A q \in Procs \ {p} : pc'[q] = pc[q] /\ call'[q] = call[q] /\ tmp'[q] = tmp[q]
           /\ call'[p].rel = call[p].rel /\ call'[p].disturbed = call[p].disturbed
           /\ UNCHANGED <<holds, calls>>
           /\ Active(p)
<1> USE DEF TypeOK, Call, Active
<1>1. CASE CacheHit(p)
  BY <1>1 DEF CacheHit
<1>2. CASE CacheMiss(p)
  BY <1>2 DEF CacheMiss
<1>3. CASE UnsupportedRelease(p)
  BY <1>3 DEF UnsupportedRelease, Finish
<1>4. CASE ReadSource(p)
  BY <1>4 DEF ReadSource
<1>5. CASE OpenTmp(p)
  BY <1>5 DEF OpenTmp
<1>6. CASE WriteChunk(p)
  BY <1>6 DEF WriteChunk
<1>7. CASE SyncTmp(p)
  BY <1>7 DEF SyncTmp
<1>8. CASE RenameTmp(p)
  BY <1>8 DEF RenameTmp
<1>9. CASE CheckSibling(p)
  BY <1>9 DEF CheckSibling
<1>10. CASE WriteFails(p)
  BY <1>10 DEF WriteFails
<1>11. CASE DropEntry(p)
  BY <1>11 DEF DropEntry
<1>12. CASE DropEntryFails(p)
  BY <1>12 DEF DropEntryFails
<1>13. CASE ParseRoot(p)
  BY <1>13 DEF ParseRoot, Finish
<1>14. CASE ParseImport(p)
  BY <1>14 DEF ParseImport, Finish
<1>15. CASE CleanupFails(p)
  BY <1>15 DEF CleanupFails
<1> QED
  BY <1>1, <1>2, <1>3, <1>4, <1>5, <1>6, <1>7, <1>8, <1>9, <1>10, <1>11, <1>12, <1>13, <1>14,
     <1>15
     DEF Step

LEMMA LedgerStep ==
    ASSUME IInv, Ledger, NEW p \in Procs, Step(p)
    PROVE  Ledger'
<1>0. TypeOK /\ TmpProgress
  BY DEF IInv
<1>1. SUFFICES /\ call'[p].target \in {call'[p].rel, Sidecar}
               /\ tmp'[p] # NoFile => tmp'[p].from = call'[p].dir
               /\ pc'[p] # "idle" => call'[p].result = "none"
               /\ pc'[p] = "probe" =>
                     call'[p].target = call'[p].rel /\ call'[p].dir = NoFile /\ ~call'[p].hit
               /\ pc'[p] = "import" => call'[p].rel \in Importers
  BY <1>0, Others DEF Ledger, Active
<1> USE <1>0 DEF TypeOK, Call, Ledger, Active
<1>2. CASE CacheHit(p)
  BY <1>2 DEF CacheHit
<1>3. CASE CacheMiss(p)
  BY <1>3 DEF CacheMiss, TmpProgress
<1>4. CASE UnsupportedRelease(p)
  BY <1>4 DEF UnsupportedRelease, Finish
<1>5. CASE ReadSource(p)
  BY <1>5 DEF ReadSource
<1>6. CASE OpenTmp(p)
  BY <1>6 DEF OpenTmp
<1>7. CASE WriteChunk(p)
  BY <1>7 DEF WriteChunk, File, Content
<1>8. CASE SyncTmp(p)
  BY <1>8 DEF SyncTmp, Synced, File, Content
<1>9. CASE RenameTmp(p)
  BY <1>9 DEF RenameTmp
<1>10. CASE CheckSibling(p)
  BY <1>10 DEF CheckSibling
<1>11. CASE WriteFails(p)
  BY <1>11 DEF WriteFails
<1>12. CASE DropEntry(p)
  BY <1>12 DEF DropEntry
<1>13. CASE DropEntryFails(p)
  BY <1>13 DEF DropEntryFails
<1>14. CASE ParseRoot(p)
  BY <1>14 DEF ParseRoot, Finish
<1>15. CASE ParseImport(p)
  BY <1>15 DEF ParseImport, Finish
<1>16. CASE CleanupFails(p)
  BY <1>16 DEF CleanupFails
<1> QED
  BY <1>2, <1>3, <1>4, <1>5, <1>6, <1>7, <1>8, <1>9, <1>10, <1>11, <1>12, <1>13, <1>14, <1>15,
     <1>16
     DEF Step

LEMMA AloneStep ==
    ASSUME IInv, Alone, NEW p \in Procs, Step(p)
    PROVE  Alone' /\ \A q \in Procs \ {p} : Active(q) => call[q].disturbed
<1>0. TypeOK
  BY DEF IInv
<1>1. Active(p) /\ \A q \in Procs \ {p} : pc'[q] = pc[q] /\ call'[q] = call[q]
  BY <1>0, Others
<1>2. call'[p].disturbed = call[p].disturbed
  BY <1>0, Others
<1>3. \A q \in Procs \ {p} : Active(q) => call[q].disturbed
  BY <1>1 DEF Alone, ActiveOthers
<1>4. Alone'
  BY <1>1, <1>2, <1>3 DEF Alone, ActiveOthers, Active
<1> QED
  BY <1>3, <1>4

LEMMA RepairedStep ==
    ASSUME IInv, Ledger, Repaired, NEW p \in Procs, Step(p)
    PROVE  Repaired'
<1>0. TypeOK /\ TmpProgress
  BY DEF IInv
<1>1. SUFFICES ASSUME ~lossy', NEW r \in Releases, cache'[r] # NoFile,
                      Sidecar \in holds'[cache'[r].from], cache'[Sidecar] = NoFile
               PROVE  \E q \in Procs : Repairs(q, r)'
  BY DEF Repaired
<1>2. /\ \A q \in Procs \ {p} : pc'[q] = pc[q] /\ call'[q] = call[q]
      /\ call'[p].rel = call[p].rel /\ holds' = holds
  BY <1>0, Others
<1>3. call[p].rel \in Releases /\ call[p].target \in {call[p].rel, Sidecar}
      /\ Sidecar # r /\ Sidecar # call[p].rel
  BY <1>0, ReleaseAssumption DEF Ledger, TypeOK, Call
<1>4. ASSUME UNCHANGED <<cache, lossy>> PROVE \E q \in Procs : Repairs(q, r)'
  <2>1. PICK q \in Procs : Repairs(q, r)
    BY <1>1, <1>2, <1>4 DEF Repaired
  <2>2. CASE q # p
    BY <1>2, <1>4, <2>1, <2>2 DEF Repairs, Staging
  <2>3. CASE q = p
    <3> USE <1>0, <1>1, <1>2, <1>3, <1>4, <2>1, <2>3 DEF TypeOK, Call, Repairs, Staging
    <3>1. CASE CacheHit(p)
      BY <3>1 DEF CacheHit
    <3>2. CASE CacheMiss(p)
      BY <3>2 DEF CacheMiss
    <3>3. CASE UnsupportedRelease(p)
      BY <3>3 DEF UnsupportedRelease
    <3>4. CASE ReadSource(p)
      BY <3>4 DEF ReadSource
    <3>5. CASE OpenTmp(p)
      BY <3>5 DEF OpenTmp
    <3>6. CASE WriteChunk(p)
      BY <3>6 DEF WriteChunk
    <3>7. CASE SyncTmp(p)
      BY <3>7 DEF SyncTmp
    <3>8. CASE RenameTmp(p)
      BY <3>8 DEF RenameTmp
    <3>9. CASE CheckSibling(p)
      BY <3>9 DEF CheckSibling
    <3>10. CASE WriteFails(p)
      BY <3>10 DEF WriteFails
    <3>11. CASE DropEntry(p)
      BY <3>11 DEF DropEntry
    <3>12. CASE DropEntryFails(p)
      BY <3>12 DEF DropEntryFails
    <3>13. CASE ParseRoot(p)
      BY <3>13 DEF ParseRoot
    <3>14. CASE ParseImport(p)
      BY <3>14 DEF ParseImport
    <3>15. CASE CleanupFails(p)
      BY <3>15 DEF CleanupFails
    <3> QED
      BY <3>1, <3>2, <3>3, <3>4, <3>5, <3>6, <3>7, <3>8, <3>9, <3>10, <3>11, <3>12, <3>13,
         <3>14, <3>15 DEF Step
  <2> QED
    BY <2>2, <2>3
<1>5. CASE RenameTmp(p)
  <2>1. /\ pc[p] = "rename" /\ tmp[p] # NoFile /\ UNCHANGED <<call, lossy>>
        /\ cache' = [cache EXCEPT ![call[p].target] = tmp[p]]
        /\ pc'[p] = IF call[p].target = Sidecar THEN "parse" ELSE "sibling"
    BY <1>0, <1>5 DEF RenameTmp, TypeOK
  <2>2. call[p].target = call[p].rel
    BY <1>0, <1>1, <1>3, <2>1 DEF TypeOK, Names
  <2>3. CASE r = call[p].rel
    <3>1. cache'[r].from = call[p].dir
      BY <1>0, <2>1, <2>2, <2>3 DEF TypeOK, Names, Ledger
    <3> QED
      BY <1>3, <2>1, <2>2, <2>3, <3>1 DEF Repairs, Staging
  <2>4. CASE r # call[p].rel
    <3>1. cache'[r] = cache[r] /\ cache'[Sidecar] = cache[Sidecar]
      BY <1>0, <1>3, <2>1, <2>2, <2>4 DEF TypeOK, Names
    <3>2. PICK q \in Procs : Repairs(q, r)
      BY <1>1, <1>2, <2>1, <3>1 DEF Repaired
    <3>3. q # p
      BY <2>4, <3>2 DEF Repairs
    <3> QED
      BY <1>2, <3>1, <3>2, <3>3 DEF Repairs, Staging
  <2> QED
    BY <2>3, <2>4
<1>6. CASE DropEntry(p)
  <2>1. cache' = [cache EXCEPT ![call[p].rel] = NoFile] /\ UNCHANGED lossy
    BY <1>6 DEF DropEntry
  <2>2. r # call[p].rel
    BY <1>0, <1>1, <2>1 DEF TypeOK, Names
  <2>3. cache'[r] = cache[r] /\ cache'[Sidecar] = cache[Sidecar]
    BY <1>0, <1>3, <2>1, <2>2 DEF TypeOK, Names
  <2>4. PICK q \in Procs : Repairs(q, r)
    BY <1>1, <1>2, <2>1, <2>3 DEF Repaired
  <2>5. q # p
    BY <2>2, <2>4 DEF Repairs
  <2> QED
    BY <1>2, <2>3, <2>4, <2>5 DEF Repairs, Staging
<1>7. ASSUME ~RenameTmp(p), ~DropEntry(p) PROVE UNCHANGED <<cache, lossy>>
  <2>1. CASE DropEntryFails(p)
    BY <1>1, <2>1 DEF DropEntryFails
  <2>2. CASE ~DropEntryFails(p)
    BY <1>7, <2>2 DEF Step, CacheHit, CacheMiss, UnsupportedRelease, ReadSource, OpenTmp,
       WriteChunk, SyncTmp, CheckSibling, WriteFails, CleanupFails, ParseRoot, ParseImport
  <2> QED
    BY <2>1, <2>2
<1> QED
  BY <1>4, <1>5, <1>6, <1>7

LEMMA ServedStep ==
    ASSUME IInv, Ledger, Alone, Served, NEW p \in Procs, Step(p)
    PROVE  Served'
<1>0. TypeOK
  BY DEF IInv
<1>1. /\ \A q \in Procs \ {p} : pc'[q] = pc[q] /\ call'[q] = call[q]
      /\ call'[p].rel = call[p].rel /\ call'[p].disturbed = call[p].disturbed
      /\ holds' = holds /\ Active(p)
  BY <1>0, Others
<1>2. \A q \in Procs \ {p} : Active(q) => call[q].disturbed
  BY AloneStep
<1>3. SUFFICES ASSUME Active(p)', ~call'[p].hit, ~call'[p].disturbed
               PROVE  /\ Staging(p)' => OwnEntry(p)'
                      /\ pc'[p] \in {"parse", "import"} /\ call'[p].at = "cache" =>
                            OwnEntry(p)' /\ (Sidecar \in holds[call'[p].dir] => cache'[Sidecar] # NoFile)
                      /\ pc'[p] = "import" => call'[p].from = call'[p].dir
  BY <1>1, <1>2 DEF Served, Active
<1>4. call[p].rel \in Releases /\ call[p].target \in {call[p].rel, Sidecar}
      /\ call[p].rel # Sidecar
  BY <1>0, ReleaseAssumption DEF Ledger, TypeOK, Call
<1> USE <1>0, <1>1, <1>3, <1>4 DEF TypeOK, Call, Served, Active, Staging, OwnEntry
<1>5. CASE CacheHit(p)
  BY <1>5 DEF CacheHit
<1>6. CASE CacheMiss(p)
  BY <1>6 DEF CacheMiss, Ledger
<1>7. CASE UnsupportedRelease(p)
  BY <1>7 DEF UnsupportedRelease, Finish
<1>8. CASE ReadSource(p)
  BY <1>8 DEF ReadSource
<1>9. CASE OpenTmp(p)
  BY <1>9 DEF OpenTmp
<1>10. CASE WriteChunk(p)
  BY <1>10 DEF WriteChunk
<1>11. CASE SyncTmp(p)
  BY <1>11 DEF SyncTmp
<1>12. CASE RenameTmp(p)
  BY <1>12 DEF RenameTmp, Ledger, Names
<1>13. CASE CheckSibling(p)
  BY <1>13 DEF CheckSibling
<1>14. CASE WriteFails(p)
  BY <1>14 DEF WriteFails
<1>15. CASE DropEntry(p)
  BY <1>15 DEF DropEntry
<1>16. CASE DropEntryFails(p)
  BY <1>16 DEF DropEntryFails
<1>17. CASE ParseRoot(p)
  <2> DEFINE root == FileAt(p, call[p].rel)
  <2>1. root # NoFile /\ (call[p].at = "cache" => OwnEntry(p)) => root.from = call[p].dir
    BY DEF FileAt
  <2>2. Complete(root) => root # NoFile
    BY DEF Complete
  <2>3. /\ pc'[p] # "idle" => Complete(root) /\ call'[p].from = root.from
        /\ \A q \in Procs : call'[q].at = call[q].at /\ call'[q].dir = call[q].dir
                            /\ call'[q].hit = call[q].hit /\ call'[q].target = call[q].target
        /\ pc[p] = "parse" /\ pc'[p] \in {"import", "idle"} /\ UNCHANGED cache
    <3> HIDE DEF root
    <3> QED
      BY <1>17 DEF ParseRoot, Finish, root
  <2> HIDE DEF root
  <2>4. ~call[p].hit /\ ~call[p].disturbed
    BY <2>3
  <2> QED
    BY <2>1, <2>2, <2>3, <2>4
<1>18. CASE ParseImport(p)
  BY <1>18 DEF ParseImport, Finish
<1>19. CASE CleanupFails(p)
  BY <1>19 DEF CleanupFails
<1> QED
  BY <1>5, <1>6, <1>7, <1>8, <1>9, <1>10, <1>11, <1>12, <1>13, <1>14, <1>15, <1>16, <1>17, <1>18,
     <1>19
     DEF Step

\* A file read from a source directory is whole.
LEMMA SourceWhole ==
    ASSUME NEW d \in Dirs
    PROVE  Complete([from |-> d, len |-> Blocks, dur |-> Blocks])
<1>1. [from |-> d, len |-> Blocks, dur |-> Blocks] \in [from : Dirs, len : 0..Blocks, dur : 0..Blocks]
  BY BlocksAssumption
<1> QED
  BY <1>1, NoFileAssumption DEF Complete

LEMMA UndisturbedStep ==
    ASSUME IInv, Ledger, Served, UndisturbedMissServes, NEW p \in Procs, Step(p)
    PROVE  UndisturbedMissServes'
<1>0. TypeOK /\ CacheNeverTorn
  BY DEF IInv
<1>1. /\ \A q \in Procs \ {p} : pc'[q] = pc[q] /\ call'[q] = call[q]
      /\ holds' = holds /\ Active(p)
  BY <1>0, Others
<1>2. SUFFICES ASSUME Ended(p)', ~call'[p].hit, ~call'[p].disturbed, call'[p].dir # NoFile,
                      Intact(call[p].rel, call'[p].dir)
               PROVE  call'[p].result = "ok" /\ call'[p].from = call'[p].dir
  <2>1. call'[p].rel = call[p].rel
    BY <1>0, Others
  <2>2. \A q \in Procs \ {p} : Ended(q)' = Ended(q)
    BY <1>1 DEF Ended, Active
  <2> QED
    BY <1>1, <2>1, <2>2 DEF UndisturbedMissServes, Intact
<1>3. call[p].result = "none" /\ call[p].rel \in Names /\ Sidecar \in Names
  BY <1>0, <1>1, Locals DEF Ledger, Names
<1>4. \A n \in Names : cache[n] # NoFile => Complete(cache[n])
  BY <1>0 DEF CacheNeverTorn, Complete
<1>5. CASE UnsupportedRelease(p)
  BY <1>0, <1>2, <1>5 DEF UnsupportedRelease, Finish, Ledger, TypeOK, Call
<1>6. CASE ParseRoot(p)
  <2> DEFINE root == FileAt(p, call[p].rel)
  <2>1. /\ call'[p].dir = call[p].dir /\ call'[p].hit = call[p].hit /\ pc[p] = "parse"
        /\ call'[p].disturbed = call[p].disturbed
    BY <1>0, <1>6 DEF ParseRoot, Finish, TypeOK, Call
  <2>2. call[p].at = "cache" => OwnEntry(p)
    BY <1>1, <1>2, <2>1 DEF Served
  <2>3. Complete(root) /\ root.from = call[p].dir
    <3>1. CASE call[p].at = "cache"
      BY <1>3, <1>4, <2>2, <3>1 DEF FileAt, OwnEntry
    <3>2. CASE call[p].at # "cache"
      <4>1. root = [from |-> call[p].dir, len |-> Blocks, dur |-> Blocks]
        BY <1>2, <2>1, <3>2 DEF FileAt, Intact
      <4>2. call[p].dir \in Dirs
        BY <1>0, <1>2, <2>1 DEF TypeOK, Call
      <4>3. Complete(root)
        BY <4>1, <4>2, SourceWhole
      <4> QED
        BY <4>1, <4>3
    <3> QED
      BY <3>1, <3>2
  <2> HIDE DEF root
  <2> QED
    BY <1>0, <1>2, <1>6, <2>1, <2>3 DEF ParseRoot, TypeOK, Call, Ended, Active, Finish, root
<1>7. CASE ParseImport(p)
  <2>1. /\ call'[p].dir = call[p].dir /\ call'[p].hit = call[p].hit /\ pc[p] = "import"
        /\ call'[p].disturbed = call[p].disturbed /\ call'[p].from = call[p].from
        /\ call'[p].result = IF Complete(FileAt(p, Sidecar)) THEN "ok" ELSE "SchemaFileCorrupt"
    BY <1>0, <1>7 DEF ParseImport, Finish, TypeOK, Call
  <2>2. call[p].from = call[p].dir /\ Sidecar \in holds[call[p].dir]
    BY <1>1, <1>2, <2>1 DEF Served, Ledger, Intact
  <2>3. call[p].at = "cache" => cache[Sidecar] # NoFile
    BY <1>1, <1>2, <2>1, <2>2 DEF Served
  <2>4. Complete(FileAt(p, Sidecar))
    <3>1. call[p].dir \in Dirs
      BY <1>0, <1>2, <2>1 DEF TypeOK, Call
    <3> QED
      BY <1>3, <1>4, <2>2, <2>3, <3>1, SourceWhole DEF FileAt
  <2> QED
    BY <2>1, <2>2, <2>4
<1>8. ASSUME ~UnsupportedRelease(p), ~ParseRoot(p), ~ParseImport(p) PROVE pc'[p] # "idle"
  BY <1>0, <1>1, <1>8 DEF Active, TypeOK, Step, CacheHit, CacheMiss, ReadSource, OpenTmp,
     WriteChunk, SyncTmp, RenameTmp, CheckSibling, WriteFails, CleanupFails, DropEntry,
     DropEntryFails
<1> QED
  BY <1>2, <1>5, <1>6, <1>7, <1>8 DEF Ended, Active

--------------------------------------------------------------------------------
(* Beginning a call, and the environment *)

\* The history of a call records who was active; nothing else changes.
LEMMA Disturbed ==
    ASSUME NEW c \in [Procs -> Call], NEW others
    PROVE  \A q \in Procs :
              /\ q \notin others => Disturb(c, others)[q] = c[q]
              /\ q \in others => Disturb(c, others)[q].disturbed
              /\ Disturb(c, others)[q].rel = c[q].rel
              /\ Disturb(c, others)[q].target = c[q].target
              /\ Disturb(c, others)[q].dir = c[q].dir
              /\ Disturb(c, others)[q].hit = c[q].hit
              /\ Disturb(c, others)[q].result = c[q].result
<1> SUFFICES ASSUME NEW q \in Procs
             PROVE  /\ q \notin others => Disturb(c, others)[q] = c[q]
                    /\ q \in others => Disturb(c, others)[q].disturbed
                    /\ Disturb(c, others)[q].rel = c[q].rel
                    /\ Disturb(c, others)[q].target = c[q].target
                    /\ Disturb(c, others)[q].dir = c[q].dir
                    /\ Disturb(c, others)[q].hit = c[q].hit
                    /\ Disturb(c, others)[q].result = c[q].result
  OBVIOUS
<1> DEFINE late == c[q].disturbed \/ q \in others
<1>1. c[q] \in Call
  OBVIOUS
<1>2. Disturb(c, others)[q] = [c[q] EXCEPT !.disturbed = late]
  BY DEF Disturb
<1>3. q \notin others => late = c[q].disturbed
  BY <1>1 DEF Call
<1>4. q \in others => late
  OBVIOUS
<1> HIDE DEF late
<1>5. late = c[q].disturbed => [c[q] EXCEPT !.disturbed = late] = c[q]
  BY <1>1 DEF Call
<1>6. [c[q] EXCEPT !.disturbed = late].disturbed = late
  BY <1>1 DEF Call
<1>7. q \in others => Disturb(c, others)[q].disturbed
  BY <1>2, <1>4, <1>6
<1>8. q \notin others => Disturb(c, others)[q] = c[q]
  BY <1>2, <1>3, <1>5
<1> QED
  BY <1>1, <1>2, <1>7, <1>8 DEF Call

LEMMA KillKeeps == ASSUME JInv, NEW p \in Procs, Kill(p) PROVE JInv'
<1>0. TypeOK
  BY DEF JInv, IInv
<1>1. IInv'
  BY EnvironmentInv DEF JInv
<1>2. Ledger' /\ Repaired' /\ Alone'
  BY <1>0 DEF JInv, Kill, Ledger, Repaired, Alone, ActiveOthers, Active, TypeOK
<1>3. Served'
  BY <1>0 DEF JInv, Kill, Served, Active, Staging, OwnEntry, TypeOK
<1>4. UndisturbedMissServes'
  BY <1>0 DEF JInv, Kill, UndisturbedMissServes, Ledger, Ended, Active, Intact, TypeOK
<1> QED
  BY <1>1, <1>2, <1>3, <1>4 DEF JInv

LEMMA BeginKeepsServing ==
    ASSUME JInv, NEW p \in Procs, NEW r \in Releases, Begin(p, r) PROVE JInv'
<1> DEFINE busy == ActiveOthers(p) # {}
           c == [call EXCEPT ![p] = NewCall(r, busy)]
<1>0. TypeOK /\ TmpProgress
  BY DEF JInv, IInv
<1>1. IInv'
  BY EnvironmentInv DEF JInv
<1>2. c \in [Procs -> Call]
  BY <1>0, NewCallType DEF TypeOK
<1>3. call' = Disturb(c, ActiveOthers(p)) /\ p \notin ActiveOthers(p)
  BY DEF Begin, ActiveOthers
<1>4. c[p] = NewCall(r, busy) /\ \A q \in Procs \ {p} : c[q] = call[q]
  BY <1>0 DEF TypeOK
<1>5. /\ \A q \in Procs : q \notin ActiveOthers(p) => call'[q] = c[q]
      /\ \A q \in ActiveOthers(p) : call'[q].disturbed
      /\ \A q \in Procs : /\ call'[q].rel = c[q].rel /\ call'[q].target = c[q].target
                          /\ call'[q].dir = c[q].dir /\ call'[q].hit = c[q].hit
                          /\ call'[q].result = c[q].result
  <2> HIDE DEF c
  <2> QED
    BY <1>2, <1>3, Disturbed DEF ActiveOthers
<1> HIDE DEF c
<1>6. /\ pc[p] = "idle" /\ pc'[p] = "probe" /\ \A q \in Procs \ {p} : pc'[q] = pc[q]
      /\ UNCHANGED <<holds, cache, lossy>> /\ tmp'[p] = NoFile
      /\ \A q \in Procs \ {p} : tmp'[q] = tmp[q]
  BY <1>0 DEF Begin, Active, TypeOK
<1>7. /\ call'[p].rel = r /\ call'[p].target = r /\ call'[p].dir = NoFile /\ ~call'[p].hit
      /\ call'[p].result = "none" /\ (~call'[p].disturbed => ActiveOthers(p) = {})
  <2>1. call'[p] = NewCall(r, busy)
    BY <1>3, <1>4, <1>5
  <2> HIDE DEF busy
  <2>2. /\ call'[p].rel = r /\ call'[p].target = r /\ call'[p].dir = NoFile
        /\ call'[p].result = "none" /\ call'[p].hit = FALSE /\ call'[p].disturbed = busy
    BY <2>1 DEF NewCall
  <2> QED
    BY <2>2 DEF busy
<1>8. \A q \in Procs \ {p} :
         /\ call'[q].rel = call[q].rel /\ call'[q].target = call[q].target
         /\ call'[q].dir = call[q].dir /\ call'[q].hit = call[q].hit
         /\ call'[q].result = call[q].result
         /\ Active(q) => call'[q].disturbed
         /\ ~Active(q) => call'[q] = call[q]
  BY <1>4, <1>5 DEF ActiveOthers
<1>9. Ledger'
  BY <1>6, <1>7, <1>8 DEF JInv, Ledger, Active
<1>10. Repaired'
  <2>1. \A q \in Procs, s \in Releases : Repairs(q, s) => Repairs(q, s)'
    BY <1>6, <1>8 DEF Repairs, Staging
  <2> QED
    BY <1>6, <2>1 DEF JInv, Repaired
<1>11. Alone'
  BY <1>6, <1>7, <1>8 DEF Alone, ActiveOthers, Active
<1>12. Served'
  BY <1>6, <1>8 DEF Served, Staging, Active
<1>13. UndisturbedMissServes'
  BY <1>6, <1>8 DEF JInv, UndisturbedMissServes, Ended, Active, Intact
<1> QED
  BY <1>1, <1>9, <1>10, <1>11, <1>12, <1>13 DEF JInv

LEMMA PowerLossKeepsServing == ASSUME JInv, PowerLoss PROVE JInv'
<1>0. TypeOK
  BY DEF JInv, IInv
<1>1. IInv'
  BY EnvironmentInv DEF JInv, Environment
<1>2. Ledger' /\ Repaired' /\ Alone' /\ Served'
  BY <1>0 DEF JInv, PowerLoss, Ledger, Repaired, Alone, Served, Active, TypeOK
<1>3. UndisturbedMissServes'
  BY <1>0 DEF JInv, PowerLoss, UndisturbedMissServes, Ledger, Ended, Active, Intact, TypeOK
<1> QED
  BY <1>1, <1>2, <1>3 DEF JInv

\* A change on disk disturbs every call that is running.
LEMMA ChangeKeeps ==
    ASSUME JInv, call' = Disturb(call, {p \in Procs : Active(p)}), UNCHANGED pc,
           tmp' = tmp \/ \A p \in Procs : tmp'[p] = NoFile,
           \A d \in Dirs : holds'[d] \subseteq holds[d]
    PROVE  Ledger' /\ Alone' /\ Served' /\ UndisturbedMissServes'
<1> DEFINE busy == {p \in Procs : Active(p)}
<1>0. TypeOK
  BY DEF JInv, IInv
<1>1. \A q \in Procs :
         /\ call'[q].rel = call[q].rel /\ call'[q].target = call[q].target
         /\ call'[q].dir = call[q].dir /\ call'[q].hit = call[q].hit
         /\ call'[q].result = call[q].result
         /\ Active(q) => call'[q].disturbed
         /\ ~Active(q) => call'[q] = call[q]
  BY <1>0, Disturbed DEF TypeOK
<1>2. Ledger'
  BY <1>1 DEF JInv, Ledger, Active
<1>3. Alone' /\ Served'
  BY <1>1 DEF Alone, Served, Active
<1>4. UndisturbedMissServes'
  <2>1. SUFFICES ASSUME NEW p \in Procs, Ended(p)', ~call'[p].hit, ~call'[p].disturbed,
                        call'[p].dir # NoFile, Intact(call[p].rel, call[p].dir)'
                 PROVE  call'[p].result = "ok" /\ call'[p].from = call'[p].dir
    BY <1>1 DEF UndisturbedMissServes, Intact
  <2>2. call'[p] = call[p] /\ Ended(p)
    BY <1>1, <2>1 DEF Ended, Active
  <2>3. call[p].dir \in Dirs
    BY <1>0, <2>1, <2>2 DEF TypeOK, Call
  <2>4. Intact(call[p].rel, call[p].dir)
    BY <2>1, <2>2, <2>3 DEF Intact
  <2> QED
    BY <2>1, <2>2, <2>4 DEF JInv, UndisturbedMissServes
<1> QED
  BY <1>2, <1>3, <1>4

LEMMA DeleteKeeps == ASSUME JInv, DeleteCache PROVE JInv'
<1>1. IInv'
  BY EnvironmentInv DEF JInv, Environment
<1>2. Ledger' /\ Alone' /\ Served' /\ UndisturbedMissServes'
  BY ChangeKeeps DEF DeleteCache
<1>3. Repaired'
  BY DEF DeleteCache, Repaired, Names
<1> QED
  BY <1>1, <1>2, <1>3 DEF JInv

LEMMA VanishKeeps ==
    ASSUME JInv, NEW d \in Dirs, NEW n \in Names, VanishSource(d, n) PROVE JInv'
<1>0. TypeOK
  BY DEF JInv, IInv
<1>1. IInv'
  BY EnvironmentInv DEF JInv, Environment
<1>2. \A e \in Dirs : holds'[e] \subseteq holds[e]
  BY <1>0 DEF VanishSource, TypeOK
<1>3. Ledger' /\ Alone' /\ Served' /\ UndisturbedMissServes'
  BY <1>2, ChangeKeeps DEF VanishSource
<1>4. Repaired'
  <2>1. \A q \in Procs : /\ call'[q].rel = call[q].rel /\ call'[q].target = call[q].target
                          /\ call'[q].dir = call[q].dir
    BY <1>0, Disturbed DEF VanishSource, TypeOK
  <2>2. \A q \in Procs, r \in Releases : Repairs(q, r) => Repairs(q, r)'
    BY <2>1 DEF VanishSource, Repairs, Staging
  <2>3. \A r \in Releases : cache[r] # NoFile => cache[r].from \in Dirs
    BY <1>0 DEF TypeOK, Names, File, Content
  <2> QED
    BY <1>2, <2>2, <2>3 DEF JInv, VanishSource, Repaired
<1> QED
  BY <1>1, <1>3, <1>4 DEF JInv

--------------------------------------------------------------------------------
(* The theorems *)

LEMMA InitServing == Init => JInv
<1> SUFFICES ASSUME Init PROVE JInv
  OBVIOUS
<1>1. IInv
  BY InitInv
<1>2. \A p \in Procs : pc[p] = "idle" /\ tmp[p] = NoFile /\ call[p].result = "none"
                        /\ call[p].target = call[p].rel
  <2> DEFINE c == NewCall(CHOOSE r \in Releases : TRUE, FALSE)
  <2>1. c.result = "none" /\ c.target = c.rel
    BY DEF NewCall
  <2>2. \A p \in Procs : call[p] = c
    BY DEF Init
  <2> QED
    BY <2>1, <2>2 DEF Init
<1>3. \A r \in Releases : cache[r] = NoFile
  BY DEF Init, Names
<1>4. Ledger /\ Repaired /\ Alone /\ Served /\ UndisturbedMissServes
  BY <1>2, <1>3 DEF Ledger, Repaired, Alone, Served, UndisturbedMissServes, Ended, Active
<1> QED
  BY <1>1, <1>4 DEF JInv

LEMMA NextServing == JInv /\ [Next]_vars => JInv'
<1> SUFFICES ASSUME JInv, [Next]_vars PROVE JInv'
  OBVIOUS
<1>1. ASSUME NEW p \in Procs, Step(p) PROVE JInv'
  <2>1. IInv' /\ Ledger' /\ Repaired'
    BY <1>1, StepInv, LedgerStep, RepairedStep DEF JInv
  <2>2. Alone' /\ Served' /\ UndisturbedMissServes'
    BY <1>1, AloneStep, ServedStep, UndisturbedStep DEF JInv
  <2> QED
    BY <2>1, <2>2 DEF JInv
<1>2. ASSUME NEW p \in Procs, Kill(p) PROVE JInv'
  BY <1>2, KillKeeps
<1>3. ASSUME NEW p \in Procs, NEW r \in Releases, Begin(p, r) PROVE JInv'
  BY <1>3, BeginKeepsServing
<1>4. CASE PowerLoss
  BY <1>4, PowerLossKeepsServing
<1>5. CASE DeleteCache
  BY <1>5, DeleteKeeps
<1>6. ASSUME NEW d \in Dirs, NEW n \in Names, VanishSource(d, n) PROVE JInv'
  BY <1>6, VanishKeeps
<1>7. CASE UNCHANGED vars
  BY <1>7 DEF vars, JInv, IInv, TypeOK, DirKnown, TmpProgress, CacheNeverTorn, Ledger, Repaired,
     Repairs, Staging, Alone, ActiveOthers, Active, Served, OwnEntry, UndisturbedMissServes,
     Ended, Intact
<1> QED
  BY <1>1, <1>2, <1>3, <1>4, <1>5, <1>6, <1>7 DEF Next, Environment

LEMMA AlwaysServing == Spec => []JInv
BY InitServing, NextServing, PTL DEF Spec

\* A call that misses the cache, is disturbed by nobody and finds its source
\* intact returns the schema of that source, whichever of its cache writes fail
\* (schema_registry.hpp:26-27, schema_registry.cpp:131-132).
THEOREM UndisturbedServed == Spec => []UndisturbedMissServes
<1>1. JInv => UndisturbedMissServes
  BY DEF JInv
<1> QED
  BY <1>1, AlwaysServing, PTL

\* When no call is running, an entry lacks its import only after a kill, a power
\* loss or a failing remove() (schema_registry.cpp:159-161), however many calls
\* wrote it.
THEOREM HalfOnlyByLoss == Spec => []HalfPopulatedOnlyByLoss
<1>1. JInv => HalfPopulatedOnlyByLoss
  <2>1. \A p \in Procs, r \in Releases : Repairs(p, r) => Active(p)
    BY DEF Repairs, Staging, Active
  <2> QED
    BY <2>1 DEF JInv, Repaired, HalfPopulatedOnlyByLoss
<1> QED
  BY <1>1, AlwaysServing, PTL

================================================================================
