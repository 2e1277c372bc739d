---------------------------------- MODULE Diff ----------------------------------
(***************************************************************************)
(* DiffEngine::diff: the four passes over two projects (match by path,     *)
(* detect moves, fill in the field differences, sort).                     *)
(*                                                                         *)
(* Two of the six domain types stand for the two ways their collections    *)
(* are compared: "Pdu" (as Frame, Signal and SignalGroup) item by item     *)
(* under a key, "Cluster" (as EcuInstance) as one list.  An element has    *)
(* its short name, a field that is part of its secondary key (length), one *)
(* that is not (category) and its items.  Names and references are numbers *)
(* so that they can be sorted; 0 is the empty string.  A project is the    *)
(* concatenation of its files, which is what collectAll makes of it.       *)
(***************************************************************************)
EXTENDS Integers, Sequences, FiniteSets

CONSTANTS
    Projects   \* the projects to compare

Types == {"Cluster", "Pdu"}
Item == [ref : Nat, start : Nat, order : {"L", "M"}]
Element == [type : Types, name : Nat, length : Nat, category : Nat, items : Seq(Item)]

ASSUME ProjectAssumption == Projects \subseteq Seq(Element)

VARIABLES
    old, new,     \* the two projects
    pc,           \* the next pass
    entries,      \* DiffReport::entries, until it is sorted
    diagnostics,  \* DiffReport::diagnostics, a set because it is sorted too
    sorted        \* the entries as reported

vars == <<old, new, pc, entries, diagnostics, sorted>>

--------------------------------------------------------------------------------
(* Vectors *)

\* The numbers of S from the least: the order of a std::map, of a sorted vector
\* and of what push_back leaves of a loop over indices.
Ascending(S) ==
    [k \in 1..Cardinality(S) |-> CHOOSE p \in S : Cardinality({q \in S : q <= p}) = k]

\* The elements of s at the positions P.
AtPositions(s, P) == LET order == Ascending(P) IN [k \in DOMAIN order |-> s[order[k]]]

--------------------------------------------------------------------------------
(* Matching *)

Positions(s, type, path) == {i \in DOMAIN s : s[i].type = type /\ s[i].name = path}

\* indexByPath: the first element of each name; nameless ones are left out.
indexByPath(s, type) ==
    [path \in {s[i].name : i \in {j \in DOMAIN s : s[j].type = type}} \ {0} |->
        s[CHOOSE i \in Positions(s, type, path) : \A j \in Positions(s, type, path) : i <= j]]

Entry(kind, type, oldPath, newPath) ==
    [kind |-> kind, type |-> type, oldPath |-> oldPath, newPath |-> newPath, fields |-> {}]

matchByPath(o, n, type) ==
    LET gone == Ascending(DOMAIN o \ DOMAIN n)
        came == Ascending(DOMAIN n \ DOMAIN o)
        both == Ascending(DOMAIN o \cap DOMAIN n) IN
    [i \in DOMAIN gone |-> Entry("Removed", type, gone[i], 0)]
        \o [i \in DOMAIN came |-> Entry("Added", type, 0, came[i])]
        \o [i \in DOMAIN both |-> Entry("Modified", type, both[i], both[i])]

matchParsedProjects(o, n) ==
    matchByPath(indexByPath(o, "Cluster"), indexByPath(n, "Cluster"), "Cluster")
        \o matchByPath(indexByPath(o, "Pdu"), indexByPath(n, "Pdu"), "Pdu")

--------------------------------------------------------------------------------
(* Move detection *)

\* joinSorted: the items as a bag of what identifies them.
joinSorted(items) ==
    [id \in {<<items[i].ref, items[i].start>> : i \in DOMAIN items} |->
        Cardinality({i \in DOMAIN items : <<items[i].ref, items[i].start>> = id})]

secondaryKey(e) == <<e.length, joinSorted(e.items)>>

RemovedIdx(report, o, type, key) ==
    {i \in DOMAIN report : /\ report[i].kind = "Removed" /\ report[i].type = type
                           /\ secondaryKey(o[report[i].oldPath]) = key}
AddedIdx(report, n, type, key) ==
    {i \in DOMAIN report : /\ report[i].kind = "Added" /\ report[i].type = type
                           /\ secondaryKey(n[report[i].newPath]) = key}

\* The groups of detectMovesForType with a candidate that is gone, as indices.
Groups(report, o, n, type) ==
    {<<RemovedIdx(report, o, type, key), AddedIdx(report, n, type, key)>> :
        key \in {secondaryKey(o[report[i].oldPath]) :
                   i \in {j \in DOMAIN report : report[j].kind = "Removed" /\ report[j].type = type}}}

\* Mutant of CleanPair: takes any pair of a group.
AnyPair(g) == Cardinality(g[1]) = 1 /\ g[2] # {}

CleanPair(g) == Cardinality(g[1]) = 1 /\ Cardinality(g[2]) = 1

\* Ambiguous: both sides present, no one-to-one pair.
Ambiguous(g) == ~CleanPair(g) /\ g[1] # {} /\ g[2] # {}

\* Mutant of Rewritten: the kind of the entry is not changed.
MoveWithoutKind(report, pairs) ==
    [i \in DOMAIN report |->
        IF \E g \in pairs : g[1] = {i}
        THEN [report[i] EXCEPT !.newPath = report[CHOOSE j \in DOMAIN report : \E g \in pairs : g[1] = {i} /\ j \in g[2]].newPath]
        ELSE report[i]]

\* The removed entry of a clean pair becomes the move.
Rewritten(report, pairs) ==
    [i \in DOMAIN report |->
        IF \E g \in pairs : g[1] = {i}
        THEN [report[i] EXCEPT !.kind = "Moved",
                               !.newPath = report[CHOOSE j \in DOMAIN report : \E g \in pairs : g[1] = {i} /\ j \in g[2]].newPath]
        ELSE report[i]]

\* The loop's test: index i is the next one to erase.
Erases(addedToErase, erasePos, i) == erasePos <= Len(addedToErase) /\ addedToErase[erasePos] = i

\* Where the erase loop stands in addedToErase when it comes to each index.
ErasePositions(report, addedToErase) ==
    LET erasePos[i \in DOMAIN report] ==
            IF i = 1 THEN 1
            ELSE IF Erases(addedToErase, erasePos[i - 1], i - 1) THEN erasePos[i - 1] + 1 ELSE erasePos[i - 1] IN
    erasePos

\* What the erase loop keeps.
KeptIdx(report, addedToErase) ==
    LET erasePos == ErasePositions(report, addedToErase) IN
    {i \in DOMAIN report : ~Erases(addedToErase, erasePos[i], i)}

\* Mutant of ErasedIdx: addedToErase is not sorted (here: it comes from the greatest).
ErasedUnsorted(pairs) ==
    LET sortedIdx == Ascending(UNION {g[2] : g \in pairs}) IN
    [k \in DOMAIN sortedIdx |-> sortedIdx[Len(sortedIdx) + 1 - k]]

\* addedToErase when it is sorted.
ErasedIdx(pairs) == Ascending(UNION {g[2] : g \in pairs})

\* A clean pair becomes one Moved entry, its added one is erased, the rest stays.
detectMovesForType(report, o, n, type) ==
    LET pairs == {g \in Groups(report, o, n, type) : CleanPair(g)} IN
    AtPositions(Rewritten(report, pairs), KeptIdx(report, ErasedIdx(pairs)))

detectedAmbiguities(report, o, n, type) ==
    {[type |-> type, removed |-> {report[i].oldPath : i \in g[1]}, added |-> {report[i].newPath : i \in g[2]}] :
        g \in {h \in Groups(report, o, n, type) : Ambiguous(h)}}

\* One type after the other, each over the whole report.
clustersDetected(report, o, n) ==
    detectMovesForType(report, indexByPath(o, "Cluster"), indexByPath(n, "Cluster"), "Cluster")
applyMoveDetection(report, o, n) ==
    detectMovesForType(clustersDetected(report, o, n), indexByPath(o, "Pdu"), indexByPath(n, "Pdu"), "Pdu")
ambiguities(report, o, n) ==
    detectedAmbiguities(report, indexByPath(o, "Cluster"), indexByPath(n, "Cluster"), "Cluster")
        \cup detectedAmbiguities(clustersDetected(report, o, n), indexByPath(o, "Pdu"), indexByPath(n, "Pdu"), "Pdu")

--------------------------------------------------------------------------------
(* Field differences *)

Field(name, key) == [name |-> name, key |-> key]

Keys(items) == {items[i].ref : i \in DOMAIN items}

\* try_emplace: the first item of a key.
ItemAt(items, key) ==
    items[CHOOSE i \in DOMAIN items : items[i].ref = key /\ \A j \in 1..(i - 1) : items[j].ref # key]

\* diffNestedCollectionWith.
diffNestedCollection(o, n) ==
    {Field("absent", key) : key \in (Keys(o) \ Keys(n)) \cup (Keys(n) \ Keys(o))}
        \cup {Field("start", key) : key \in {c \in Keys(o) \cap Keys(n) : ItemAt(o, c).start # ItemAt(n, c).start}}
        \cup {Field("order", key) : key \in {c \in Keys(o) \cap Keys(n) : ItemAt(o, c).order # ItemAt(n, c).order}}

\* diffStruct: field by field; the items are one field.
diffStruct(o, n) ==
    (IF o.category # n.category THEN {Field("common", 0)} ELSE {})
        \cup (IF o.length # n.length THEN {Field("length", 0)} ELSE {})
        \cup (IF o.items # n.items THEN {Field("items", 0)} ELSE {})

\* diffPduElements and its like: the field of the items is replaced by what
\* differs key by key.
diffElements(o, n) == (diffStruct(o, n) \ {Field("items", 0)}) \cup diffNestedCollection(o.items, n.items)

\* diffPair: what differs between the two elements of an entry.
diffPair(type, o, n) == IF type = "Pdu" THEN diffElements(o, n) ELSE diffStruct(o, n)

\* An entry with the fields that differ; an addition or a removal has none.
Filled(e, o, n) ==
    IF e.kind \in {"Moved", "Modified"}
    THEN [e EXCEPT !.fields = diffPair(e.type, indexByPath(o, e.type)[e.oldPath],
                                       indexByPath(n, e.type)[e.newPath])]
    ELSE e

\* populateFieldDiffs: a Modified entry without a difference is dropped.
Populated(report, o, n) ==
    LET filled == [i \in DOMAIN report |-> Filled(report[i], o, n)] IN
    AtPositions(filled, {i \in DOMAIN filled : filled[i].kind # "Modified" \/ filled[i].fields # {}})

--------------------------------------------------------------------------------
(* Sorting *)

sortKeyFor(e) == IF e.kind = "Removed" THEN e.oldPath ELSE e.newPath

\* The comparison of sortDeterministically; "Cluster" < "Pdu".
Before(e, f) ==
    \/ sortKeyFor(e) < sortKeyFor(f)
    \/ sortKeyFor(e) = sortKeyFor(f) /\ e.type = "Cluster" /\ f.type = "Pdu"

\* The orders std::sort may produce: any that puts no entry before a lesser one.
Sorted(s) ==
    {[k \in DOMAIN s |-> s[q[k]]] :
        q \in {r \in [DOMAIN s -> DOMAIN s] :
                 \A i, j \in DOMAIN s : i < j => r[i] # r[j] /\ ~Before(s[r[j]], s[r[i]])}}

--------------------------------------------------------------------------------
Init ==
    /\ old \in Projects
    /\ new \in Projects
    /\ pc = "match"
    /\ entries = <<>>
    /\ diagnostics = {}
    /\ sorted = <<>>

Match ==
    /\ pc = "match"
    /\ entries' = matchParsedProjects(old, new)
    /\ pc' = "moveDetection"
    /\ UNCHANGED <<old, new, diagnostics, sorted>>

MoveDetection ==
    /\ pc = "moveDetection"
    /\ entries' = applyMoveDetection(entries, old, new)
    /\ diagnostics' = ambiguities(entries, old, new)
    /\ pc' = "fieldDiff"
    /\ UNCHANGED <<old, new, sorted>>

FieldDiff ==
    /\ pc = "fieldDiff"
    /\ entries' = Populated(entries, old, new)
    /\ pc' = "sort"
    /\ UNCHANGED <<old, new, diagnostics, sorted>>

Sort ==
    /\ pc = "sort"
    /\ sorted' \in Sorted(entries)
    /\ pc' = "done"
    /\ UNCHANGED <<old, new, entries, diagnostics>>

Next == Match \/ MoveDetection \/ FieldDiff \/ Sort

Spec == Init /\ [][Next]_vars

--------------------------------------------------------------------------------
(* Properties *)

EntriesOf(s) == {s[i] : i \in DOMAIN s}
Report == EntriesOf(sorted)

\* Every variable has its type.
TypeOK ==
    /\ old \in Seq(Element) /\ new \in Seq(Element)
    /\ pc \in {"match", "moveDetection", "fieldDiff", "sort", "done"}
    /\ \A e \in EntriesOf(entries) \cup Report :
          /\ e.kind \in {"Added", "Removed", "Moved", "Modified"} /\ e.type \in Types
          /\ e.oldPath \in Nat /\ e.newPath \in Nat
          /\ e.kind = "Added" <=> e.oldPath = 0
          /\ e.kind = "Removed" <=> e.newPath = 0

\* Nothing is lost and nothing is told twice: every path of a project is told at
\* exactly one position of the report, unless it is in both projects with no
\* difference.  Move detection rewrites one entry and erases another by their
\* indices, type after type over one vector, so an index gone wrong shows here:
\* a path vanishes or stays beside its move (diff_moves.hpp:80-125).  No two
\* entries compare equal either, so the sort, which is not stable, has one
\* result: "output never depends on hash-map iteration order"
\* (diff_report.hpp:61-62).
EveryPathToldOnce ==
    pc = "done" => \A type \in Types :
        LET o == indexByPath(old, type)  n == indexByPath(new, type) IN
        /\ \A i, j \in DOMAIN sorted : i < j => Before(sorted[i], sorted[j])
        /\ \A p \in DOMAIN o :
              Cardinality({i \in DOMAIN sorted : sorted[i].type = type /\ sorted[i].oldPath = p}) =
                  IF p \in DOMAIN n /\ diffPair(type, o[p], n[p]) = {} THEN 0 ELSE 1
        /\ \A p \in DOMAIN n :
              Cardinality({i \in DOMAIN sorted : sorted[i].type = type /\ sorted[i].newPath = p}) =
                  IF p \in DOMAIN o /\ diffPair(type, o[p], n[p]) = {} THEN 0 ELSE 1

\* A move is never guessed (diff_moves.hpp:43-44): it leads from a path that is
\* gone to one that is new, and no other such path has the same secondary key.
MovesAreCertain ==
    pc = "done" => \A e \in Report : e.kind = "Moved" =>
        LET o == indexByPath(old, e.type)  n == indexByPath(new, e.type)
            gone == DOMAIN o \ DOMAIN n
            came == DOMAIN n \ DOMAIN o
            key == secondaryKey(o[e.oldPath]) IN
        /\ {p \in gone : secondaryKey(o[p]) = key} = {e.oldPath}
        /\ {p \in came : secondaryKey(n[p]) = key} = {e.newPath}

Mirror(e) ==
    [e EXCEPT !.oldPath = e.newPath, !.newPath = e.oldPath,
              !.kind = CASE e.kind = "Added" -> "Removed" [] e.kind = "Removed" -> "Added" [] OTHER -> e.kind]

\* The comparison is symmetric: from new to old every addition is a removal and
\* every move goes the other way, with the same fields.
Symmetric ==
    pc = "done" =>
        EntriesOf(Populated(applyMoveDetection(matchParsedProjects(new, old), new, old), new, old))
            = {Mirror(e) : e \in Report}

\* docs/lld.md:388 of a path that occurs more than once: "Later occurrence wins
\* silently in the map build, but a warning is attached noting the duplicate".
\* indexByPath takes the first one (diff_match.hpp:35) and attaches nothing: a
\* changed later occurrence leaves neither an entry nor a diagnostic.
DuplicateWarned ==
    pc = "done" => \A type \in Types : \A p \in {e.name : e \in EntriesOf(old \o new)} \ {0} :
        \A s \in {old, new} : Cardinality(Positions(s, type, p)) > 1 =>
            \E d \in diagnostics : d.type = type /\ p \in d.removed \cup d.added

SameButOrder(a, b) ==
    /\ a.length = b.length /\ a.category = b.category
    /\ Len(a.items) = Len(b.items)
    /\ \A x \in EntriesOf(a.items) \cup EntriesOf(b.items) :
          Cardinality({i \in DOMAIN a.items : a.items[i] = x}) = Cardinality({i \in DOMAIN b.items : b.items[i] = x})

\* docs/lld.md:375: "Element order within the original XML doesn't affect the diff
\* [...] the diff naturally ignores pure reordering".  The channels of a cluster and
\* the channels and controllers of an ECU are compared as vectors (diffStruct), so
\* the same ones in another order are a modification.
ReorderingIgnored ==
    pc = "done" => \A e \in Report : e.kind = "Modified" =>
        ~SameButOrder(indexByPath(old, e.type)[e.oldPath], indexByPath(new, e.type)[e.newPath])

================================================================================
