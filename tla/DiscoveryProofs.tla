---------------------------- MODULE DiscoveryProofs ----------------------------
(***************************************************************************)
(* For any disk, any edits of it, any entry points and any cap: what       *)
(* parseProject adds is wanted and added once, its rounds make progress,   *)
(* and what it calls missing is missing.                                   *)
(***************************************************************************)
EXTENDS Discovery, WellFoundedInduction, TLAPS

File == [path : Paths, doc : Doc]

Searching == {"enumerate", "round", "probe", "parse"}

\* The cap is ahead until the loop ends, and before it nothing has been counted.
Bounds ==
    /\ pc \notin {"resolve", "done"} => iteration < kMaxLazyIterations
    /\ pc \in {"start", "entries", "enumerate"} => iteration = 0 /\ added = FALSE

\* Which mode gets where, and how many files it has by then.
Shape ==
    /\ pc # "done" => result = "none"
    /\ pc = "start" => files = <<>> /\ entries = <<>> /\ parsed = {}
    /\ pc = "entries" => mode # "DirectoryScan" /\ Len(files) <= Len(entries)
    /\ pc \in {"list", "scan"} => mode = "DirectoryScan"
    /\ pc = "list" => files = <<>>
    /\ pc \in Searching => mode = "LazyOnReference" /\ Len(entries) <= Len(files)

\* A directory scan has each path once, ahead or behind.
Scanning ==
    /\ mode = "DirectoryScan" =>
          \A i, j \in DOMAIN files : files[i].path = files[j].path => i = j
    /\ pc = "scan" =>
          /\ \A c, d \in todo : c[1] = d[1] => c = d
          /\ \A i \in DOMAIN files, c \in todo : files[i].path # c[1]

\* A lazy call remembers the paths of its files, and a candidate is none of them.
Remembered ==
    /\ pc \in Searching \cup {"entries"} => \A i \in DOMAIN files : files[i].path \in parsed
    /\ pc = "parse" => candidate \in Paths \ parsed

\* A wanted name is referenced by a file and defined by no entry point.
Aimed ==
    pc \in {"probe", "parse"} =>
        \A r \in wanted :
            /\ \E j \in DOMAIN files : r \in files[j].doc.refs /\ r[2] # NoName
            /\ \A k \in 1..Len(entries) : r \notin files[k].doc.defs

\* The wanted names are stale only in a round that has added a file.
Current == pc \in {"probe", "parse"} /\ ~added => wanted = collectWantedRefs(files)

Misses(c, refs) == Parses(c[1]) /\ Spelled(disk[c[1]]) => disk[c[1]].defs \cap refs = {}

\* On a disk that stands still, the candidates passed over in a round without
\* progress define nothing that is wanted.
Told ==
    edits = 0 /\ mode = "LazyOnReference" =>
        /\ pc \in Searching \cup {"entries", "resolve"} =>
              \A p \in parsed : \E i \in DOMAIN files : files[i].doc = disk[p]
        /\ pc \in {"probe", "parse"} =>
              \A c \in pool \ todo :
                  \/ added \/ c[1] \in parsed \/ Misses(c, wanted)
                  \/ pc = "parse" /\ c[1] = candidate
        /\ pc = "resolve" /\ iteration < kMaxLazyIterations =>
              \A c \in pool : Misses(c, collectWantedRefs(files))

\* The inductive invariant.
IInv ==
    /\ TypeOK /\ Bounds /\ Shape /\ Scanning /\ Remembered /\ Aimed /\ Current /\ Told
    /\ DanglingIsTrue /\ DiscoveredIsWanted /\ RoundsProductive

--------------------------------------------------------------------------------
(* Paths, references and files *)

LEMMA Least == ASSUME NEW S, S \subseteq Nat, S # {} PROVE \E x \in S : \A y \in S : x <= y
<1>1. IsWellFoundedOn(OpToRel(<, Nat), Nat)
  BY NatLessThanWellFounded
<1>2. PICK x \in S : \A y \in S : ~ (<<y, x>> \in OpToRel(<, Nat))
  BY <1>1, WFMin
<1>3. ASSUME NEW y \in S PROVE x <= y
  <2>1. ~ (<<y, x>> \in OpToRel(<, Nat))
    BY <1>2
  <2>2. y \in Nat /\ x \in Nat
    OBVIOUS
  <2>3. ~ (y < x)
    BY <2>1, <2>2 DEF OpToRel
  <2> QED
    BY <2>2, <2>3
<1> QED
  BY <1>3

\* std::set iterates from the smallest path.
LEMMA FirstIs == ASSUME NEW S, S \subseteq Paths \X Dirs, S # {} PROVE First(S) \in S
<1> DEFINE numbers == {c[1] : c \in S}
<1>1. numbers \subseteq Nat /\ numbers # {}
  BY PathAssumption
<1>2. PICK x \in numbers : \A y \in numbers : x <= y
  BY <1>1, Least
<1>3. PICK c \in S : c[1] = x
  BY <1>2
<1>4. \A d \in S : c[1] <= d[1]
  BY <1>2, <1>3
<1> QED
  BY <1>3, <1>4 DEF First

LEMMA Collected ==
    ASSUME NEW fs \in Seq(File)
    PROVE  /\ collectWantedRefs(fs) \subseteq Ref
           /\ \A r \in collectWantedRefs(fs) :
                 /\ \E j \in DOMAIN fs : r \in fs[j].doc.refs /\ r[2] # NoName
                 /\ \A k \in DOMAIN fs : r \notin fs[k].doc.defs
           /\ \A k \in DOMAIN fs : fs[k].doc.defs \cap collectWantedRefs(fs) = {}
<1>1. ASSUME NEW j \in DOMAIN fs PROVE fs[j].doc.refs \subseteq Ref
  <2>1. fs[j] \in File
    OBVIOUS
  <2>2. fs[j].doc \in Doc
    BY <2>1 DEF File
  <2> QED
    BY <2>2 DEF Doc
<1>2. \A r \in Referenced(fs) : \E j \in DOMAIN fs : r \in fs[j].doc.refs /\ r[2] # NoName
  BY DEF Referenced
<1>3. \A k \in DOMAIN fs : fs[k].doc.defs \subseteq Defined(fs)
  BY DEF Defined
<1> QED
  BY <1>1, <1>2, <1>3 DEF collectWantedRefs

LEMMA OneFile ==
    ASSUME NEW f, NEW r, r \in f.doc.refs, r[2] # NoName
    PROVE  r \in Referenced(<<f>>)
<1>1. 1 \in DOMAIN <<f>> /\ <<f>>[1] = f
  OBVIOUS
<1>2. r \in UNION {<<f>>[i].doc.refs : i \in DOMAIN <<f>>}
  BY <1>1
<1> QED
  BY <1>2 DEF Referenced

LEMMA Grown ==
    ASSUME files \in Seq(File), NEW p \in Paths, Parses(p), disk \in [Paths -> Doc \cup {Absent}],
           files' = Append1(p)
    PROVE  /\ files' \in Seq(File) /\ Len(files) \in Nat /\ Len(files') = Len(files) + 1
           /\ DOMAIN files = 1..Len(files) /\ DOMAIN files' = 1..(Len(files) + 1)
           /\ \A i \in DOMAIN files : files'[i] = files[i] /\ i \in DOMAIN files' /\ i <= Len(files)
           /\ files'[Len(files) + 1] = [path |-> p, doc |-> disk[p]]
           /\ \A i \in DOMAIN files' : i \in DOMAIN files \/ i = Len(files) + 1
<1>1. disk[p] \in Doc
  BY DEF Parses
<1>2. [path |-> p, doc |-> disk[p]] \in File
  BY <1>1 DEF File
<1> QED
  BY <1>2 DEF Append1

LEMMA Typed ==
    ASSUME IInv
    PROVE  /\ files \in Seq(File) /\ Len(files) \in Nat /\ DOMAIN files = 1..Len(files)
           /\ entries \in Seq(Paths) /\ Len(entries) \in Nat /\ DOMAIN entries = 1..Len(entries)
           /\ iteration \in Nat /\ kMaxLazyIterations \in Nat
           /\ disk \in [Paths -> Doc \cup {Absent}] /\ parsed \subseteq Paths
           /\ pool \subseteq Paths \X Dirs /\ todo \subseteq Paths \X Dirs /\ added \in BOOLEAN
BY CapAssumption DEF IInv, TypeOK, File

--------------------------------------------------------------------------------
(* The steps *)

\* What a failure leaves is an empty project, of which everything is true.
LEMMA FailKeeps ==
    ASSUME IInv, Fail,
           UNCHANGED <<disk, mode, entries, pool, wanted, candidate, added, iteration, missing, edits>>,
           parsed' \subseteq Paths, todo' \subseteq Paths \X Dirs
    PROVE  IInv'
<1>1. TypeOK'
  BY DEF IInv, TypeOK, Fail
<1>2. (Bounds /\ Shape /\ Aimed /\ Remembered /\ Current /\ Told)'
  BY DEF Fail, Bounds, Shape, Aimed, Remembered, Current, Told, Searching
<1>3. Scanning'
  BY DEF Fail, Scanning
<1>4. (DanglingIsTrue /\ RoundsProductive)'
  BY DEF Fail, DanglingIsTrue, RoundsProductive
<1>5. DiscoveredIsWanted'
  BY DEF Fail, DiscoveredIsWanted, NoFileTwice
<1> QED
  BY <1>1, <1>2, <1>3, <1>4, <1>5 DEF IInv

LEMMA BeginKeeps == ASSUME IInv, NEW es \in EntryLists, Begin(es) PROVE IInv'
<1>1. es \in Seq(Paths) /\ Len(es) \in Nat /\ es \in Seq(Paths)
  BY DiskAssumption
<1>2. files = <<>> /\ parsed = {} /\ mode \in Modes /\ pc = "start" /\ result = "none"
  BY DEF IInv, Shape, Begin, TypeOK
<1>3. TypeOK'
  BY <1>1 DEF IInv, TypeOK, Begin, round
<1>4. (Bounds /\ Shape /\ Remembered /\ Aimed /\ Current /\ Scanning)'
  BY <1>1, <1>2 DEF IInv, Begin, round, Bounds, Shape, Remembered, Aimed, Current, Scanning,
     Searching, Modes
<1>5. Told'
  BY <1>2 DEF Begin, round, Told, Searching
<1>6. (DanglingIsTrue /\ DiscoveredIsWanted /\ NoFileTwice)'
  BY <1>2 DEF Begin, round, DanglingIsTrue, DiscoveredIsWanted, NoFileTwice
<1>7. RoundsProductive'
  BY <1>1, <1>2 DEF IInv, Bounds, Begin, round, RoundsProductive
<1> QED
  BY <1>3, <1>4, <1>5, <1>6, <1>7 DEF IInv

LEMMA ParseEntryKeeps == ASSUME IInv, ParseEntry PROVE IInv'
<1> DEFINE p == entries[Len(files) + 1]
<1> USE Typed
<1>1. p \in Paths /\ pc = "entries" /\ Len(files) < Len(entries) /\ result = "none"
  BY DEF ParseEntry, IInv, Shape
<1>2. CASE ~Parses(p)
  <2>1. Fail /\ UNCHANGED <<disk, mode, entries, pool, wanted, candidate, added, iteration,
                            missing, edits, parsed, todo>>
    BY <1>2 DEF ParseEntry, call, round
  <2> QED
    BY <2>1, FailKeeps
<1>3. CASE Parses(p)
  <2>1. /\ files' = Append1(p) /\ parsed' = parsed \cup {p}
        /\ UNCHANGED <<disk, mode, entries, pc, result, todo, pool, wanted, candidate, added,
                       iteration, missing, edits>>
    BY <1>3 DEF ParseEntry, call, round, Fail
  <2>2. files' \in Seq(File) /\ Len(files') = Len(files) + 1 /\ DOMAIN files' = 1..(Len(files) + 1)
    BY <1>1, <1>3, <2>1, Grown
  <2>3. /\ \A i \in DOMAIN files : files'[i] = files[i] /\ i \in DOMAIN files' /\ i <= Len(files)
        /\ files'[Len(files) + 1] = [path |-> p, doc |-> disk[p]]
        /\ \A i \in DOMAIN files' : i \in DOMAIN files \/ i = Len(files) + 1
    BY <1>1, <1>3, <2>1, Grown
  <2>4. TypeOK'
    BY <1>1, <2>1, <2>2 DEF IInv, TypeOK, File
  <2>5. (Bounds /\ Shape /\ Aimed /\ Current /\ Scanning)'
    BY <1>1, <2>1, <2>2 DEF IInv, Bounds, Shape, Aimed, Current, Scanning, Searching
  <2>6. Remembered'
    BY <1>1, <2>1, <2>2, <2>3 DEF IInv, Remembered
  <2>7. Told'
    <3>1. SUFFICES ASSUME edits = 0, mode = "LazyOnReference"
                   PROVE  \A q \in parsed' : \E i \in DOMAIN files' : files'[i].doc = disk[q]
      BY <1>1, <2>1 DEF Told, Searching
    <3>2. \A q \in parsed : \E i \in DOMAIN files : files[i].doc = disk[q]
      BY <1>1, <3>1 DEF IInv, Told
    <3>3. files'[Len(files) + 1].doc = disk[p] /\ Len(files) + 1 \in DOMAIN files'
      BY <2>2, <2>3
    <3> QED
      BY <2>1, <2>3, <3>2, <3>3
  <2>8. (DanglingIsTrue /\ RoundsProductive)'
    BY <1>1, <2>1, <2>2 DEF IInv, Bounds, DanglingIsTrue, RoundsProductive
  <2>9. DiscoveredIsWanted'
    BY <1>1, <2>1, <2>2 DEF IInv, Shape, DiscoveredIsWanted, NoFileTwice
  <2> QED
    BY <2>4, <2>5, <2>6, <2>7, <2>8, <2>9 DEF IInv
<1> QED
  BY <1>2, <1>3

LEMMA EntriesParsedKeeps == ASSUME IInv, EntriesParsed PROVE IInv'
<1> USE Typed
<1>1. UNCHANGED <<disk, mode, entries, files, parsed, todo, pool, wanted, candidate, added,
                  iteration, result, missing, edits>>
  BY DEF EntriesParsed, call, round
<1>2. pc = "entries" /\ pc' = (IF mode = "LazyOnReference" THEN "enumerate" ELSE "resolve")
  BY DEF EntriesParsed
<1>3. mode # "DirectoryScan" /\ result = "none" /\ Len(files) = Len(entries)
  BY <1>2 DEF IInv, Shape, EntriesParsed
<1>4. TypeOK'
  BY <1>1, <1>2 DEF IInv, TypeOK
<1>5. (Bounds /\ Shape /\ Aimed /\ Current /\ Scanning /\ Remembered)'
  BY <1>1, <1>2, <1>3 DEF IInv, Bounds, Shape, Aimed, Current, Scanning, Remembered, Searching
<1>6. Told'
  BY <1>1, <1>2 DEF IInv, Told, Searching
<1>7. (DanglingIsTrue /\ RoundsProductive)'
  BY <1>1, <1>2, <1>3 DEF IInv, Bounds, DanglingIsTrue, RoundsProductive
<1>8. DiscoveredIsWanted'
  BY <1>1 DEF IInv, DiscoveredIsWanted, NoFileTwice
<1> QED
  BY <1>4, <1>5, <1>6, <1>7, <1>8 DEF IInv

LEMMA ListSiblingsKeeps == ASSUME IInv, ListSiblings PROVE IInv'
<1> USE Typed
<1> DEFINE siblings == {p \in Arxml : Parent[p] \in SearchDirs /\ disk[p] # Absent}
<1>1. UNCHANGED <<disk, mode, entries, files, parsed, pool, wanted, candidate, added,
                  iteration, result, missing, edits>>
  BY DEF ListSiblings, call, round
<1>2. pc = "list" /\ pc' = "scan" /\ todo' = {<<p, Parent[p]>> : p \in EntrySet \cup siblings}
  BY DEF ListSiblings
<1>3. EntrySet \cup siblings \subseteq Paths
  <2>1. \A i \in DOMAIN entries : entries[i] \in Paths
    OBVIOUS
  <2>2. EntrySet \subseteq Paths
    BY <2>1 DEF EntrySet
  <2>3. siblings \subseteq Paths
    BY PathAssumption
  <2> QED
    BY <2>2, <2>3
<1>4. todo' \subseteq Paths \X Dirs /\ \A c, d \in todo' : c[1] = d[1] => c = d
  <2>1. \A p \in Paths : <<p, Parent[p]>> \in Paths \X Dirs
    BY PathAssumption
  <2>2. \A c \in todo' : c \in Paths \X Dirs
    BY <1>2, <1>3, <2>1
  <2>3. \A c \in todo' : c = <<c[1], Parent[c[1]]>>
    BY <1>2
  <2> QED
    BY <2>2, <2>3
<1>5. files = <<>> /\ mode = "DirectoryScan"
  BY <1>2 DEF IInv, Shape
<1>6. TypeOK'
  BY <1>1, <1>2, <1>4 DEF IInv, TypeOK
<1>7. (Bounds /\ Shape /\ Aimed /\ Current /\ Remembered)'
  BY <1>1, <1>2, <1>5 DEF IInv, Bounds, Shape, Aimed, Current, Remembered, Searching
<1>8. Scanning'
  BY <1>1, <1>4, <1>5 DEF Scanning
<1>9. (Told /\ DanglingIsTrue /\ RoundsProductive /\ DiscoveredIsWanted)'
  BY <1>1, <1>2, <1>5 DEF Told, DanglingIsTrue, RoundsProductive, DiscoveredIsWanted, NoFileTwice
<1> QED
  BY <1>6, <1>7, <1>8, <1>9 DEF IInv

LEMMA ScanFileKeeps == ASSUME IInv, ScanFile PROVE IInv'
<1> USE Typed
<1> DEFINE first == First(todo)
           p == first[1]
<1>1. first \in todo /\ p \in Paths
  BY FirstIs DEF ScanFile
<1>2. /\ pc = "scan" /\ mode = "DirectoryScan" /\ result = "none"
      /\ todo' = todo \ {first}
      /\ UNCHANGED <<disk, mode, entries, parsed, pool, wanted, candidate, added, iteration,
                     missing, edits>>
  BY DEF ScanFile, IInv, Shape, call, round
<1>3. CASE ~Parses(p)
  <2>1. Fail
    BY <1>3 DEF ScanFile
  <2>2. todo' \subseteq Paths \X Dirs /\ parsed' \subseteq Paths
    BY <1>2
  <2> QED
    BY <1>2, <2>1, <2>2, FailKeeps
<1>4. CASE Parses(p)
  <2>1. files' = Append1(p) /\ UNCHANGED <<pc, result>>
    BY <1>4 DEF ScanFile
  <2>2. files' \in Seq(File) /\ Len(files') = Len(files) + 1 /\ DOMAIN files' = 1..(Len(files) + 1)
    BY <1>1, <1>4, <2>1, Grown
  <2>3. /\ \A i \in DOMAIN files : files'[i] = files[i]
        /\ files'[Len(files) + 1] = [path |-> p, doc |-> disk[p]]
        /\ \A i \in DOMAIN files' : i \in DOMAIN files \/ i = Len(files) + 1
    BY <1>1, <1>4, <2>1, Grown
  <2>4. TypeOK'
    BY <1>2, <2>1, <2>2 DEF IInv, TypeOK, File
  <2>5. (Bounds /\ Shape /\ Aimed /\ Current /\ Remembered)'
    BY <1>2, <2>1 DEF IInv, Bounds, Shape, Aimed, Current, Remembered, Searching
  <2>6. Scanning'
    <3>1. \A c, d \in todo : c[1] = d[1] => c = d
      BY <1>2 DEF IInv, Scanning
    <3>2. \A i \in DOMAIN files, c \in todo : files[i].path # c[1]
      BY <1>2 DEF IInv, Scanning
    <3>3. \A i, j \in DOMAIN files : files[i].path = files[j].path => i = j
      BY <1>2 DEF IInv, Scanning
    <3>4. \A c \in todo' : c \in todo /\ c[1] # p
      BY <1>1, <1>2, <3>1
    <3> files'[Len(files) + 1].path = p
      BY <2>3
    <3>5. \A i, j \in DOMAIN files' : files'[i].path = files'[j].path => i = j
      BY <1>1, <2>3, <3>2, <3>3
    <3>6. \A i \in DOMAIN files', c \in todo' : files'[i].path # c[1]
      BY <2>3, <3>2, <3>4
    <3> QED
      BY <3>1, <3>4, <3>5, <3>6 DEF Scanning
  <2>7. (Told /\ DanglingIsTrue /\ RoundsProductive)'
    BY <1>2 DEF Told, DanglingIsTrue, RoundsProductive
  <2>8. DiscoveredIsWanted'
    BY <1>2, <2>6 DEF Scanning, DiscoveredIsWanted, NoFileTwice
  <2> QED
    BY <2>4, <2>5, <2>6, <2>7, <2>8 DEF IInv
<1> QED
  BY <1>3, <1>4

LEMMA ScanEndsKeeps == ASSUME IInv, ScanEnds PROVE IInv'
<1>1. /\ pc = "scan" /\ pc' = "resolve" /\ mode = "DirectoryScan"
      /\ UNCHANGED <<disk, mode, entries, files, parsed, todo, pool, wanted, candidate, added,
                     iteration, result, missing, edits>>
  BY DEF ScanEnds, IInv, Shape, call, round
<1>2. TypeOK'
  BY <1>1 DEF IInv, TypeOK
<1>3. (Bounds /\ Shape /\ Aimed /\ Current /\ Remembered /\ Scanning)'
  BY <1>1 DEF IInv, Bounds, Shape, Aimed, Current, Remembered, Scanning, Searching
<1>4. (Told /\ DanglingIsTrue /\ RoundsProductive)'
  BY <1>1 DEF Told, DanglingIsTrue, RoundsProductive
<1>5. DiscoveredIsWanted'
  BY <1>1 DEF IInv, DiscoveredIsWanted, NoFileTwice
<1> QED
  BY <1>2, <1>3, <1>4, <1>5 DEF IInv

LEMMA ListingFailsKeeps == ASSUME IInv, ListingFails PROVE IInv'
<1>1. UNCHANGED <<disk, mode, entries, pool, wanted, candidate, added, iteration, missing, edits,
                  parsed, todo>>
  BY DEF ListingFails, call, round
<1> QED
  BY <1>1, Typed, FailKeeps DEF ListingFails

LEMMA EnumerateKeeps == ASSUME IInv, Enumerate PROVE IInv'
<1> USE Typed
<1>1. /\ pc = "enumerate" /\ pc' = "round" /\ pool' = enumerateCandidates
      /\ UNCHANGED <<disk, mode, entries, files, parsed, todo, wanted, candidate, added,
                     iteration, result, missing, edits>>
  BY DEF Enumerate, call
<1>2. SearchDirs \subseteq Dirs
  BY PathAssumption DEF SearchDirs, EntrySet
<1>3. pool' \subseteq Paths \X Dirs
  BY <1>1, <1>2, PathAssumption DEF enumerateCandidates
<1>4. TypeOK'
  BY <1>1, <1>3 DEF IInv, TypeOK
<1>5. (Bounds /\ Shape /\ Aimed /\ Current /\ Remembered /\ Scanning)'
  BY <1>1 DEF IInv, Bounds, Shape, Aimed, Current, Remembered, Scanning, Searching
<1>6. Told'
  BY <1>1 DEF IInv, Told, Searching
<1>7. result = "none" /\ iteration = 0 /\ added = FALSE
  BY <1>1 DEF IInv, Shape, Bounds
<1>8. (DanglingIsTrue /\ RoundsProductive)'
  BY <1>1, <1>7 DEF DanglingIsTrue, RoundsProductive
<1>9. DiscoveredIsWanted'
  BY <1>1 DEF IInv, DiscoveredIsWanted, NoFileTwice
<1> QED
  BY <1>4, <1>5, <1>6, <1>8, <1>9 DEF IInv

LEMMA BeginRoundKeeps == ASSUME IInv, BeginRound PROVE IInv'
<1> USE Typed
<1>1. /\ pc = "round" /\ wanted' = collectWantedRefs(files) /\ added' = FALSE
      /\ UNCHANGED <<disk, mode, entries, files, parsed, pool, candidate, iteration, result,
                     missing, edits>>
  BY DEF BeginRound, call
<1>2. /\ mode = "LazyOnReference" /\ Len(entries) <= Len(files) /\ result = "none"
      /\ iteration < kMaxLazyIterations
  BY <1>1 DEF IInv, Shape, Bounds, Searching
<1>3. /\ wanted' \subseteq Ref
      /\ \A r \in wanted' :
            /\ \E j \in DOMAIN files : r \in files[j].doc.refs /\ r[2] # NoName
            /\ \A k \in DOMAIN files : r \notin files[k].doc.defs
  BY <1>1, Collected
<1>4. CASE wanted' = {} /\ pc' = "resolve" /\ UNCHANGED todo
  <2>1. TypeOK'
    BY <1>1, <1>4 DEF IInv, TypeOK
  <2>2. (Bounds /\ Shape /\ Aimed /\ Current /\ Remembered /\ Scanning)'
    BY <1>1, <1>2, <1>4 DEF IInv, Bounds, Shape, Aimed, Current, Remembered, Scanning, Searching
  <2>3. \A c \in pool : Misses(c, collectWantedRefs(files))
    BY <1>1, <1>4 DEF Misses
  <2>4. (\A c \in pool : Misses(c, collectWantedRefs(files)))'
    BY <1>1, <2>3 DEF Misses, Parses, Spelled, collectWantedRefs, Referenced, Defined
  <2>5. Told'
    BY <1>1, <1>4, <2>4 DEF IInv, Told, Searching
  <2>6. (DanglingIsTrue /\ RoundsProductive)'
    BY <1>1, <1>2, <1>4 DEF IInv, DanglingIsTrue, RoundsProductive
  <2>7. DiscoveredIsWanted'
    BY <1>1 DEF IInv, DiscoveredIsWanted, NoFileTwice
  <2> QED
    BY <2>1, <2>2, <2>5, <2>6, <2>7 DEF IInv
<1>5. CASE wanted' # {} /\ pc' = "probe" /\ todo' = pool
  <2>1. TypeOK'
    BY <1>1, <1>3, <1>5 DEF IInv, TypeOK
  <2>2. (Bounds /\ Shape /\ Remembered /\ Scanning)'
    BY <1>1, <1>2, <1>5 DEF IInv, Bounds, Shape, Remembered, Scanning, Searching
  <2>3. Aimed'
    BY <1>1, <1>2, <1>3 DEF Aimed
  <2>4. Current'
    BY <1>1 DEF Current, collectWantedRefs, Referenced, Defined
  <2>5. Told'
    BY <1>1, <1>5 DEF IInv, Told, Searching
  <2>6. (DanglingIsTrue /\ RoundsProductive)'
    BY <1>1, <1>2, <1>5 DEF IInv, DanglingIsTrue, RoundsProductive
  <2>7. DiscoveredIsWanted'
    BY <1>1 DEF IInv, DiscoveredIsWanted, NoFileTwice
  <2> QED
    BY <2>1, <2>2, <2>3, <2>4, <2>5, <2>6, <2>7 DEF IInv
<1> QED
  BY <1>4, <1>5 DEF BeginRound

\* What the byte scan passes over, in a text that spells its names, is not wanted.
LEMMA PassedOver ==
    ASSUME NEW c, ~candidateDefinesAny(disk[c[1]], wanted)
    PROVE  Misses(c, wanted)
BY DEF candidateDefinesAny, Misses, Parses, Spelled

LEMMA ProbeCandidateKeeps == ASSUME IInv, ProbeCandidate PROVE IInv'
<1> USE Typed
<1> DEFINE c == First(todo)
<1>1. c \in todo /\ c[1] \in Paths
  BY FirstIs DEF ProbeCandidate
<1>2. /\ pc = "probe" /\ todo' = todo \ {c}
      /\ UNCHANGED <<disk, mode, entries, files, parsed, pool, wanted, added, iteration, result,
                     missing, edits>>
  BY DEF ProbeCandidate, call
<1>3. \/ /\ c[1] \in parsed \/ ~candidateDefinesAny(disk[c[1]], wanted)
         /\ pc' = "probe" /\ candidate' = candidate
      \/ c[1] \notin parsed /\ candidate' = c[1] /\ pc' = "parse"
  BY <1>2 DEF ProbeCandidate
<1>4. TypeOK'
  BY <1>1, <1>2, <1>3 DEF IInv, TypeOK
<1>5. (Bounds /\ Shape /\ Scanning /\ Remembered)'
  BY <1>1, <1>2, <1>3 DEF IInv, Bounds, Shape, Scanning, Remembered, Searching
<1>6. (Aimed /\ Current)'
  BY <1>2, <1>3 DEF IInv, Aimed, Current, collectWantedRefs, Referenced, Defined
<1>7. Told'
  <2>1. SUFFICES ASSUME edits = 0, mode = "LazyOnReference", NEW d \in pool, d \notin todo'
                 PROVE  added \/ d[1] \in parsed \/ Misses(d, wanted)
                        \/ (pc' = "parse" /\ d[1] = candidate')
    BY <1>2, <1>3 DEF IInv, Told, Searching, Misses, Parses, Spelled
  <2>2. CASE d \in todo
    <3>1. d = c
      BY <1>2, <2>1, <2>2
    <3> QED
      BY <1>3, <3>1, PassedOver
  <2>3. CASE d \notin todo
    BY <1>2, <2>1, <2>3 DEF IInv, Told
  <2> QED
    BY <2>2, <2>3
<1>8. (DanglingIsTrue /\ RoundsProductive)'
  BY <1>2, <1>3 DEF IInv, Shape, DanglingIsTrue, RoundsProductive
<1>9. DiscoveredIsWanted'
  BY <1>2 DEF IInv, DiscoveredIsWanted, NoFileTwice
<1> QED
  BY <1>4, <1>5, <1>6, <1>7, <1>8, <1>9 DEF IInv

LEMMA SkipKeeps ==
    ASSUME IInv, ParseCandidate, ~(Parses(candidate) /\ definesWantedName(disk[candidate], wanted))
    PROVE  IInv'
<1> USE Typed
<1>1. /\ pc = "parse" /\ pc' = "probe"
      /\ UNCHANGED <<disk, mode, entries, files, parsed, pool, todo, wanted, candidate, added,
                     iteration, result, missing, edits>>
  BY DEF ParseCandidate, call
<1>2. TypeOK'
  BY <1>1 DEF IInv, TypeOK
<1>3. (Bounds /\ Shape /\ Scanning /\ Remembered)'
  BY <1>1 DEF IInv, Bounds, Shape, Scanning, Remembered, Searching
<1>4. (Aimed /\ Current)'
  BY <1>1 DEF IInv, Aimed, Current, collectWantedRefs, Referenced, Defined
<1>5. Told'
  <2>1. SUFFICES ASSUME edits = 0, mode = "LazyOnReference", NEW d \in pool, d \notin todo
                 PROVE  added \/ d[1] \in parsed \/ Misses(d, wanted)
    BY <1>1 DEF IInv, Told, Searching, Misses, Parses, Spelled
  <2>2. d[1] = candidate => Misses(d, wanted)
    BY DEF Misses, definesWantedName
  <2> QED
    BY <1>1, <2>1, <2>2 DEF IInv, Told
<1>6. (DanglingIsTrue /\ RoundsProductive)'
  BY <1>1 DEF IInv, Shape, DanglingIsTrue, RoundsProductive
<1>7. DiscoveredIsWanted'
  BY <1>1 DEF IInv, DiscoveredIsWanted, NoFileTwice
<1> QED
  BY <1>2, <1>3, <1>4, <1>5, <1>6, <1>7 DEF IInv

LEMMA TakeKeeps ==
    ASSUME IInv, ParseCandidate, Parses(candidate), definesWantedName(disk[candidate], wanted)
    PROVE  IInv'
<1> USE Typed
<1>1. /\ pc = "parse" /\ pc' = "probe" /\ files' = Append1(candidate)
      /\ parsed' = parsed \cup {candidate} /\ added' = TRUE
      /\ UNCHANGED <<disk, mode, entries, pool, todo, wanted, candidate, iteration, result,
                     missing, edits>>
  BY DEF ParseCandidate, call
<1>2. /\ candidate \in Paths \ parsed /\ mode = "LazyOnReference" /\ Len(entries) <= Len(files)
      /\ result = "none" /\ iteration < kMaxLazyIterations
  BY <1>1 DEF IInv, Remembered, Shape, Bounds, Searching
<1>3. files' \in Seq(File) /\ Len(files') = Len(files) + 1 /\ DOMAIN files' = 1..(Len(files) + 1)
  BY <1>1, <1>2, Grown
<1>4. /\ \A i \in DOMAIN files : files'[i] = files[i] /\ i \in DOMAIN files' /\ i <= Len(files)
      /\ files'[Len(files) + 1] = [path |-> candidate, doc |-> disk[candidate]]
      /\ \A i \in DOMAIN files' : i \in DOMAIN files \/ i = Len(files) + 1
  BY <1>1, <1>2, Grown
<1>5. /\ files'[Len(files) + 1].path = candidate /\ files'[Len(files) + 1].doc = disk[candidate]
      /\ Len(files) + 1 \in DOMAIN files'
  BY <1>3, <1>4
<1>6. \A i \in DOMAIN files : files[i].path \in parsed
  BY <1>1 DEF IInv, Remembered, Searching
<1>7. TypeOK'
  BY <1>1, <1>2, <1>3 DEF IInv, TypeOK, File
<1>8. (Bounds /\ Shape /\ Scanning)'
  BY <1>1, <1>2, <1>3 DEF IInv, Bounds, Shape, Scanning, Searching
<1>9. (Remembered /\ Current)'
  BY <1>1, <1>4, <1>5, <1>6 DEF Remembered, Current
<1>10. Aimed'
  <2>1. \A r \in wanted :
           /\ \E j \in DOMAIN files : r \in files[j].doc.refs /\ r[2] # NoName
           /\ \A k \in 1..Len(entries) : r \notin files[k].doc.defs
    BY <1>1 DEF IInv, Aimed
  <2>2. \A k \in 1..Len(entries) : k \in DOMAIN files
    BY <1>2
  <2> QED
    BY <1>1, <1>4, <2>1, <2>2 DEF Aimed
<1>11. Told'
  <2>1. SUFFICES ASSUME edits = 0
                 PROVE  \A q \in parsed' : \E i \in DOMAIN files' : files'[i].doc = disk[q]
    BY <1>1 DEF Told, Searching
  <2>2. \A q \in parsed : \E i \in DOMAIN files : files[i].doc = disk[q]
    BY <1>1, <1>2, <2>1 DEF IInv, Told, Searching
  <2> QED
    BY <1>1, <1>4, <1>5, <2>2
<1>12. DanglingIsTrue'
  BY <1>1, <1>2 DEF DanglingIsTrue
<1>13. RoundsProductive'
  <2>1. iteration <= (IF Len(files) <= Len(entries) THEN 0 ELSE Len(files) - Len(entries))
    BY <1>2 DEF IInv, RoundsProductive
  <2> QED
    BY <1>1, <1>2, <1>3, <2>1 DEF RoundsProductive
<1>14. NoFileTwice'
  <2>1. SUFFICES ASSUME NEW i \in DOMAIN files', NEW j \in DOMAIN files', i # j,
                        files'[i].path = files'[j].path
                 PROVE  mode # "DirectoryScan" /\ i <= Len(entries) /\ j <= Len(entries)
    BY <1>1 DEF NoFileTwice
  <2>2. i \in DOMAIN files /\ j \in DOMAIN files
    BY <1>2, <1>4, <1>5, <1>6, <2>1
  <2> QED
    BY <1>4, <2>1, <2>2 DEF IInv, DiscoveredIsWanted, NoFileTwice
<1>15. DiscoveredIsWanted'
  <2>1. SUFFICES ASSUME NEW i \in DOMAIN files', i > Len(entries)
                 PROVE  \E r \in files'[i].doc.defs :
                           /\ \E j \in 1..(i - 1) : r \in Referenced(<<files'[j]>>)
                           /\ \A k \in 1..Len(entries) : r \notin files'[k].doc.defs
    BY <1>1, <1>14 DEF DiscoveredIsWanted, Referenced
  <2>2. CASE i \in DOMAIN files
    <3>1. PICK r \in files[i].doc.defs :
             /\ \E j \in 1..(i - 1) : r \in Referenced(<<files[j]>>)
             /\ \A k \in 1..Len(entries) : r \notin files[k].doc.defs
      BY <1>2, <2>1, <2>2 DEF IInv, DiscoveredIsWanted
    <3>2. PICK j \in 1..(i - 1) : r \in Referenced(<<files[j]>>)
      BY <3>1
    <3>3. j \in DOMAIN files /\ \A k \in 1..Len(entries) : k \in DOMAIN files
      BY <1>2, <2>2
    <3>4. files'[j] = files[j] /\ files'[i] = files[i]
      BY <1>4, <2>2, <3>3
    <3>5. \A k \in 1..Len(entries) : files'[k] = files[k]
      BY <1>4, <3>3
    <3> QED
      BY <3>1, <3>2, <3>4, <3>5
  <2>3. CASE i = Len(files) + 1
    <3>1. PICK r \in disk[candidate].defs : r \in wanted
      BY DEF definesWantedName
    <3>2. PICK j \in DOMAIN files : r \in files[j].doc.refs /\ r[2] # NoName
      BY <1>1, <3>1 DEF IInv, Aimed
    <3>3. r \in Referenced(<<files'[j]>>) /\ j \in 1..(i - 1)
      BY <1>4, <2>3, <3>2, OneFile
    <3>4. \A k \in 1..Len(entries) : r \notin files'[k].doc.defs
      <4>1. \A k \in 1..Len(entries) : k \in DOMAIN files /\ r \notin files[k].doc.defs
        BY <1>1, <1>2, <3>1 DEF IInv, Aimed
      <4> QED
        BY <1>4, <4>1
    <3> QED
      BY <1>5, <2>3, <3>1, <3>3, <3>4
  <2> QED
    BY <1>4, <2>2, <2>3
<1> QED
  BY <1>7, <1>8, <1>9, <1>10, <1>11, <1>12, <1>13, <1>15 DEF IInv

LEMMA EndRoundKeeps == ASSUME IInv, EndRound PROVE IInv'
<1> USE Typed
<1>1. /\ pc = "probe" /\ todo = {}
      /\ UNCHANGED <<disk, mode, entries, files, parsed, pool, todo, wanted, candidate, added,
                     result, missing, edits>>
  BY DEF EndRound, call
<1>2. /\ mode = "LazyOnReference" /\ Len(entries) <= Len(files) /\ result = "none"
      /\ iteration < kMaxLazyIterations
  BY <1>1 DEF IInv, Shape, Bounds, Searching
<1>3. CASE /\ added /\ iteration' = iteration + 1
           /\ pc' = IF iteration + 1 < kMaxLazyIterations THEN "round" ELSE "resolve"
  <2>1. TypeOK'
    BY <1>1, <1>2, <1>3 DEF IInv, TypeOK
  <2>2. (Bounds /\ Shape /\ Scanning /\ Remembered /\ Aimed /\ Current)'
    BY <1>1, <1>2, <1>3 DEF IInv, Bounds, Shape, Scanning, Remembered, Aimed, Current, Searching
  <2>3. Told'
    BY <1>1, <1>2, <1>3 DEF IInv, Told, Searching
  <2>4. (DanglingIsTrue /\ RoundsProductive)'
    BY <1>1, <1>2, <1>3 DEF IInv, DanglingIsTrue, RoundsProductive
  <2>5. DiscoveredIsWanted'
    BY <1>1 DEF IInv, DiscoveredIsWanted, NoFileTwice
  <2> QED
    BY <2>1, <2>2, <2>3, <2>4, <2>5 DEF IInv
<1>4. CASE ~added /\ pc' = "resolve" /\ UNCHANGED iteration
  <2>1. TypeOK'
    BY <1>1, <1>4 DEF IInv, TypeOK
  <2>2. (Bounds /\ Shape /\ Scanning /\ Remembered /\ Aimed /\ Current)'
    BY <1>1, <1>2, <1>4 DEF IInv, Bounds, Shape, Scanning, Remembered, Aimed, Current, Searching
  <2>3. Told'
    <3>1. SUFFICES ASSUME edits = 0
                   PROVE  \A c \in pool : Misses(c, collectWantedRefs(files))
      BY <1>1, <1>2, <1>4
         DEF IInv, Told, Searching, Misses, Parses, Spelled, collectWantedRefs, Referenced, Defined
    <3>2. wanted = collectWantedRefs(files)
      BY <1>1, <1>4 DEF IInv, Current
    <3>3. \A c \in pool : c[1] \in parsed \/ Misses(c, wanted)
      BY <1>1, <1>2, <1>4, <3>1 DEF IInv, Told
    <3>4. \A q \in parsed : \E i \in DOMAIN files : files[i].doc = disk[q]
      BY <1>1, <1>2, <3>1 DEF IInv, Told, Searching
    <3>5. \A k \in DOMAIN files : files[k].doc.defs \cap collectWantedRefs(files) = {}
      BY Collected
    <3>6. \A c \in pool : c[1] \in parsed => Misses(c, collectWantedRefs(files))
      BY <3>4, <3>5 DEF Misses
    <3> QED
      BY <3>2, <3>3, <3>6
  <2>4. (DanglingIsTrue /\ RoundsProductive)'
    BY <1>1, <1>2, <1>4 DEF IInv, DanglingIsTrue, RoundsProductive
  <2>5. DiscoveredIsWanted'
    BY <1>1 DEF IInv, DiscoveredIsWanted, NoFileTwice
  <2> QED
    BY <2>1, <2>2, <2>3, <2>4, <2>5 DEF IInv
<1> QED
  BY <1>3, <1>4 DEF EndRound

LEMMA ResolveKeeps == ASSUME IInv, resolveCrossFileReferences PROVE IInv'
<1> USE Typed
<1>1. /\ pc = "resolve" /\ pc' = "done" /\ missing' = collectWantedRefs(files)
      /\ result' \in {"ok", "DanglingFileReference"}
      /\ UNCHANGED <<disk, mode, entries, files, parsed, pool, todo, wanted, candidate, added,
                     iteration, edits>>
  BY DEF resolveCrossFileReferences, call, round
<1>2. result = "none"
  BY <1>1 DEF IInv, Shape
<1>3. missing' \subseteq Ref
  BY <1>1, Collected
<1>4. TypeOK'
  BY <1>1, <1>3 DEF IInv, TypeOK
<1>5. (Bounds /\ Shape /\ Scanning /\ Remembered /\ Aimed /\ Current)'
  BY <1>1 DEF IInv, Bounds, Shape, Scanning, Remembered, Aimed, Current, Searching
<1>6. Told'
  BY <1>1 DEF Told, Searching
<1>7. DanglingIsTrue'
  <2>1. SUFFICES ASSUME mode = "LazyOnReference", edits = 0, iteration < kMaxLazyIterations
                 PROVE  \A c \in pool : Misses(c, collectWantedRefs(files))
    BY <1>1 DEF DanglingIsTrue, Misses, Parses, Spelled
  <2> QED
    BY <1>1, <2>1 DEF IInv, Told
<1>8. RoundsProductive'
  BY <1>1, <1>2 DEF IInv, RoundsProductive
<1>9. DiscoveredIsWanted'
  BY <1>1 DEF IInv, DiscoveredIsWanted, NoFileTwice
<1> QED
  BY <1>4, <1>5, <1>6, <1>7, <1>8, <1>9 DEF IInv

\* After an edit nothing is promised of what is missing; the rest is about what was read.
LEMMA EditKeeps == ASSUME IInv, NEW e \in Edits, Edit(e[1], e[2]) PROVE IInv'
<1>1. e[1] \in Paths /\ e[2] \in Doc \cup {Absent}
  BY DiskAssumption
<1>2. /\ edits' = edits + 1 /\ edits < MaxEdits
      /\ UNCHANGED <<mode, entries, pc, files, parsed, pool, todo, wanted, candidate, added,
                     iteration, result, missing>>
  BY DEF Edit, call, round
<1>3. disk' \in [Paths -> Doc \cup {Absent}]
  BY <1>1, Typed DEF Edit
<1>4. edits' # 0 /\ edits' \in 0..MaxEdits
  BY <1>2, CapAssumption DEF IInv, TypeOK
<1>5. TypeOK'
  BY <1>2, <1>3, <1>4 DEF IInv, TypeOK
<1>6. (Bounds /\ Shape /\ Scanning /\ Remembered /\ Aimed /\ Current)'
  BY <1>2 DEF IInv, Bounds, Shape, Scanning, Remembered, Aimed, Current, Searching,
     collectWantedRefs, Referenced, Defined
<1>7. (Told /\ DanglingIsTrue)'
  BY <1>4 DEF Told, DanglingIsTrue
<1>8. RoundsProductive'
  BY <1>2 DEF IInv, RoundsProductive
<1>9. DiscoveredIsWanted'
  BY <1>2 DEF IInv, DiscoveredIsWanted, NoFileTwice
<1> QED
  BY <1>5, <1>6, <1>7, <1>8, <1>9 DEF IInv

LEMMA StutterKeeps == ASSUME IInv, UNCHANGED vars PROVE IInv'
<1>1. (TypeOK /\ Bounds /\ Shape /\ Scanning /\ Remembered)'
  BY DEF vars, IInv, TypeOK, Bounds, Shape, Scanning, Remembered
<1>2. (Aimed /\ Current)'
  BY DEF vars, IInv, Aimed, Current, collectWantedRefs, Referenced, Defined
<1>3. Told'
  BY DEF vars, IInv, Told, Misses, Parses, Spelled, collectWantedRefs, Referenced, Defined
<1>4. (DanglingIsTrue /\ RoundsProductive)'
  BY DEF vars, IInv, DanglingIsTrue, RoundsProductive, Parses, Spelled
<1>5. DiscoveredIsWanted'
  BY DEF vars, IInv, DiscoveredIsWanted, NoFileTwice
<1> QED
  BY <1>1, <1>2, <1>3, <1>4, <1>5 DEF IInv

LEMMA InitInv == Init => IInv
<1> SUFFICES ASSUME Init PROVE IInv
  OBVIOUS
<1>1. TypeOK
  <2>1. disk \in [Paths -> Doc \cup {Absent}]
    BY DiskAssumption DEF Init
  <2>2. iteration \in 0..kMaxLazyIterations /\ edits \in 0..MaxEdits
    BY CapAssumption DEF Init
  <2>3. entries \in Seq(Paths) /\ files \in Seq([path : Paths, doc : Doc])
    BY DEF Init
  <2>4. candidate \in Paths \cup {0} /\ added \in BOOLEAN /\ mode \in Modes
    BY DEF Init
  <2>5. parsed = {} /\ pool = {} /\ todo = {} /\ wanted = {} /\ missing = {}
    BY DEF Init
  <2>6. pc = "start" /\ result = "none"
    BY DEF Init
  <2> QED
    BY <2>1, <2>2, <2>3, <2>4, <2>5, <2>6 DEF TypeOK
<1>2. Bounds /\ Shape /\ Scanning /\ Remembered /\ Aimed /\ Current
  BY CapAssumption DEF Init, Bounds, Shape, Scanning, Remembered, Aimed, Current, Searching
<1>3. Told /\ DanglingIsTrue /\ RoundsProductive /\ DiscoveredIsWanted
  BY DEF Init, Told, Searching, DanglingIsTrue, RoundsProductive, DiscoveredIsWanted, NoFileTwice
<1> QED
  BY <1>1, <1>2, <1>3 DEF IInv

LEMMA StepInv == IInv /\ [Next]_vars => IInv'
<1> SUFFICES ASSUME IInv, [Next]_vars PROVE IInv'
  OBVIOUS
<1>1. ASSUME NEW es \in EntryLists, Begin(es) PROVE IInv'
  BY <1>1, BeginKeeps
<1>2. CASE ParseEntry
  BY <1>2, ParseEntryKeeps
<1>3. CASE EntriesParsed
  BY <1>3, EntriesParsedKeeps
<1>4. CASE ListSiblings
  BY <1>4, ListSiblingsKeeps
<1>5. CASE ScanFile
  BY <1>5, ScanFileKeeps
<1>6. CASE ScanEnds
  BY <1>6, ScanEndsKeeps
<1>7. CASE ListingFails
  BY <1>7, ListingFailsKeeps
<1>8. CASE Enumerate
  BY <1>8, EnumerateKeeps
<1>9. CASE BeginRound
  BY <1>9, BeginRoundKeeps
<1>10. CASE ProbeCandidate
  BY <1>10, ProbeCandidateKeeps
<1>11. CASE ParseCandidate
  BY <1>11, SkipKeeps, TakeKeeps
<1>12. CASE EndRound
  BY <1>12, EndRoundKeeps
<1>13. CASE resolveCrossFileReferences
  BY <1>13, ResolveKeeps
<1>14. ASSUME NEW e \in Edits, Edit(e[1], e[2]) PROVE IInv'
  BY <1>14, EditKeeps
<1>15. CASE UNCHANGED vars
  BY <1>15, StutterKeeps
<1> QED
  BY <1>1, <1>2, <1>3, <1>4, <1>5, <1>6, <1>7, <1>8, <1>9, <1>10, <1>11, <1>12, <1>13, <1>14,
     <1>15 DEF Next, Parser

LEMMA Always == Spec => []IInv
BY InitInv, StepInv, PTL DEF Spec

--------------------------------------------------------------------------------
(* The theorems *)

\* Every variable keeps its type through every step of parseProject and every
\* edit of the disk.
THEOREM TypeCorrect == Spec => []TypeOK
<1>1. IInv => TypeOK
  BY DEF IInv
<1> QED
  BY <1>1, Always, PTL

\* A lazy call that stops before its cap reports as missing only what no file of
\* the searched trees defines (project_error.hpp:10-15).
THEOREM DanglingAlwaysTrue == Spec => []DanglingIsTrue
<1>1. IInv => DanglingIsTrue
  BY DEF IInv
<1> QED
  BY <1>1, Always, PTL

\* Discovery adds no file twice and none that an earlier file does not ask for
\* (parser.hpp:14-16), whatever happens to the disk.
THEOREM DiscoveryMinimal == Spec => []DiscoveredIsWanted
<1>1. IInv => DiscoveredIsWanted
  BY DEF IInv
<1> QED
  BY <1>1, Always, PTL

\* Every round but the last adds a file (parser.cpp:60-62).
THEOREM RoundsAlwaysProductive == Spec => []RoundsProductive
<1>1. IInv => RoundsProductive
  BY DEF IInv
<1> QED
  BY <1>1, Always, PTL
================================================================================
