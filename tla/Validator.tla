------------------------------- MODULE Validator -------------------------------
(***************************************************************************)
(* validateAll over a project the loader has read: validateSchema per file  *)
(* (validator_schema.cpp), which reads the file again from a disk another   *)
(* program may have written to, validateReferences and validateUniqueness   *)
(* over the raw trees.  validateCanSemantics is CanLayout's subject.  What  *)
(* the schema rejects is libxml2's verdict: here, elements of some tags.    *)
(* The order of the findings and their wording are left out.                *)
(***************************************************************************)
EXTENDS Loader

CONSTANTS
    Invalid,    \* tags of the elements that violate the schema
    destToTags, \* the tags each recognised DEST accepts
    Edits,      \* <<f, d>>: another program may make d the document of file f
    MaxEdits    \* bound: such edits

ASSUME EditAssumption == MaxEdits \in Nat /\ \A e \in Edits : e[2] \in DOMAIN Documents \cup {Missing}

VARIABLES
    stage,      \* what validateAll is doing
    judged,     \* the next file validateSchema is called for
    findings,   \* ValidationResult::errors
    edits       \* edits so far

vars == <<disk, loaderVars, stage, judged, findings, edits>>

ShortName == <<"n">>
RefSuffix == <<"-", "r">>

Init ==
    /\ LoaderInit
    /\ stage = "load" /\ judged = 1 /\ findings = {} /\ edits = 0

Edit ==
    /\ edits < MaxEdits /\ stage # "done"
    /\ \E e \in Edits :
          /\ e[1] \in DOMAIN disk /\ disk[e[1]] # e[2]
          /\ disk' = [disk EXCEPT ![e[1]] = e[2]]
    /\ edits' = edits + 1
    /\ UNCHANGED <<loaderVars, stage, judged, findings>>

\* location is a node of the parsed tree of the file, 0 for none; path is the path the
\* finding names, origin the lexeme the schema rejects.  The severity follows the code.
Finding(code, f, location, path, origin) ==
    [code |-> code, file |-> f, location |-> location, path |-> path, origin |-> origin]

--------------------------------------------------------------------------------
(* validateSchema *)

\* The node that starts nearest to the line, the earlier one of two.
spanForLine(tree, line) ==
    LET higher == {i \in DOMAIN tree : tree[i].line >= line}
        i == Min(higher)
    IN IF higher = {} THEN Len(tree)
       ELSE IF tree[i].line = line \/ i = 1 THEN i
       ELSE IF tree[i].line - line < line - tree[i - 1].line THEN i ELSE i - 1

\* The line libxml2 reports for an element: that of the end of its start tag.
XmlLine(d, k) == LineOf(Documents[d], k + 1)

Rejected(d) == {k \in Tags(Documents[d]) : Documents[d].lexemes[k].tag \in Invalid}

validateSchema(f) ==
    IF disk[f] \notin DOMAIN Documents \/ ~Read[disk[f]].wellFormed
    THEN {Finding("schema.unreadable", f, 0, <<>>, 0)}
    ELSE {Finding("schema.invalid", f, spanForLine(trees[f], XmlLine(disk[f], k)), <<>>, k) :
             k \in Rejected(disk[f])}

--------------------------------------------------------------------------------
(* validateReferences and validateUniqueness *)

trimText(text) ==
    LET ink == {k \in DOMAIN text : text[k] \notin Space} IN
        IF ink = {} THEN <<>> ELSE SubSeq(text, Min(ink), Max(ink))

Children(f, i) == {j \in DOMAIN trees[f] : trees[f][j].parent = i}

\* The trimmed text of the first SHORT-NAME child, <<>> when there is none.
NameOf(f, i) ==
    LET carriers == {j \in Children(f, i) : trees[f][j].tag = ShortName} IN
        IF carriers = {} THEN <<>> ELSE trimText(trees[f][Min(carriers)].text)

\* The path of every node of a file, as indexNode and checkNode hand it down.
nodePath(f) ==
    LET path[i \in 0..Len(trees[f])] ==
            IF i = 0 THEN <<>>
            ELSE LET base == path[trees[f][i].parent] IN
                 IF NameOf(f, i) = <<>> THEN base ELSE base \o <<"/">> \o NameOf(f, i)
    IN path

\* The nodes both walks visit: they do not descend into a SHORT-NAME.
Visited(f) ==
    LET visited[i \in 1..Len(trees[f])] ==
            i = 1 \/ (trees[f][i].tag # ShortName /\ visited[trees[f][i].parent])
    IN {i \in DOMAIN trees[f] : visited[i]}

Entries(f) == {i \in Visited(f) : NameOf(f, i) # <<>>}

\* Mutant of Claimant: the last file wins.
LastClaimant(path) ==
    LET files == {f \in DOMAIN trees : \E i \in Entries(f) : nodePath(f)[i] = path}
        f == Max(files)
    IN IF files = {} THEN <<0, 0>> ELSE <<f, Min({i \in Entries(f) : nodePath(f)[i] = path})>>

\* buildReferencePathIndex: the first element in file and document order that has
\* the path, <<0, 0>> when none has.
Claimant(path) ==
    LET files == {f \in DOMAIN trees : \E i \in Entries(f) : nodePath(f)[i] = path}
        f == Min(files)
    IN IF files = {} THEN <<0, 0>> ELSE <<f, Min({i \in Entries(f) : nodePath(f)[i] = path})>>

isRefTag(tag) == Len(tag) > Len(RefSuffix) /\ IsSuffix(RefSuffix, tag)

\* The references with a DEST and a target.
RefSites(f) ==
    {i \in DOMAIN trees[f] :
        isRefTag(trees[f][i].tag) /\ trees[f][i].dest # NoDest /\ trimText(trees[f][i].text) # <<>>}

\* The finding about a reference, if any.
Judge(f, i) ==
    LET path == trimText(trees[f][i].text)
        dest == trees[f][i].dest
        target == Claimant(path)
    IN CASE target = <<0, 0>> -> {Finding("ref.dangling", f, i, path, 0)}
         [] target # <<0, 0>> /\ dest \notin DOMAIN destToTags ->
              {Finding("ref.dest_unrecognized", f, i, path, 0)}
         [] target # <<0, 0>> /\ dest \in DOMAIN destToTags
              /\ trees[target[1]][target[2]].tag \notin destToTags[dest] ->
              {Finding("ref.type_mismatch", f, i, path, 0)}
         [] OTHER -> {}

validateReferences == UNION {UNION {Judge(f, i) : i \in RefSites(f)} : f \in DOMAIN trees}

\* The children of a node with a name, in document order.
Members(f, i, name) ==
    InOrder({j \in Children(f, i) : trees[f][j].tag # ShortName /\ NameOf(f, j) = name}, Len(trees[f]))

checkNode(f, i) ==
    LET names == {NameOf(f, j) : j \in Children(f, i)} \ {<<>>} IN
    {Finding("shortname.duplicate", f, Members(f, i, name)[2], nodePath(f)[i], 0) :
        name \in {n \in names : Len(Members(f, i, n)) > 1}}

validateUniqueness == UNION {UNION {checkNode(f, i) : i \in Visited(f)} : f \in DOMAIN trees}

--------------------------------------------------------------------------------
(* validateAll *)

\* The load has succeeded for every file.
Begin ==
    /\ stage = "load" /\ file > Len(disk)
    /\ stage' = "schema"
    /\ UNCHANGED <<disk, loaderVars, judged, findings, edits>>

SchemaStep ==
    /\ stage = "schema" /\ judged <= Len(disk)
    /\ findings' = findings \cup validateSchema(judged)
    /\ judged' = judged + 1
    /\ UNCHANGED <<disk, loaderVars, stage, edits>>

TreeStep ==
    /\ stage = "schema" /\ judged > Len(disk)
    /\ findings' = findings \cup validateReferences \cup validateUniqueness
    /\ stage' = "done"
    /\ UNCHANGED <<disk, loaderVars, judged, edits>>

Next ==
    \/ Load /\ UNCHANGED <<disk, stage, judged, findings, edits>>
    \/ Begin \/ SchemaStep \/ TreeStep
    \/ Edit

Spec == Init /\ [][Next]_vars

--------------------------------------------------------------------------------
(* Properties *)

\* Every variable has its type: the scanner is inside the file, the stack holds
\* nodes, and a finding lies at a node of the parsed tree or nowhere.
DocumentTypeOK ==
    /\ disk \in [DOMAIN disk -> DOMAIN Documents \cup {Missing, Utf32}]
    /\ input \in [DOMAIN disk -> DOMAIN Documents \cup {Missing, Utf32}]
    /\ outcome \in [DOMAIN disk -> Outcomes]
    /\ file \in 1..(Len(disk) + 1)
    /\ encoding \in {"single", "le", "be"}
    /\ Reading => /\ next \in 1..(Len(lexemes) + 1)
                  /\ sent \in Nat
                  /\ cursor \in 0..Len(bytes)
                  /\ ToSet(stack) \subseteq DOMAIN nodes
    /\ stage \in {"load", "schema", "done"}
    /\ judged \in 1..(Len(disk) + 1)
    /\ \A x \in findings : x.location \in 0..Len(trees[x.file])
    /\ edits \in 0..MaxEdits

\* Every file is one that the scanner reads as XML does.
ScannedWell == ToSet(input) \subseteq Scannables

\* The path a node spells: the names of the elements whose bytes enclose it.
Around(f, i) ==
    {j \in DOMAIN trees[f] : trees[f][j].start <= trees[f][i].start /\ trees[f][i].end <= trees[f][j].end}
Spelled(f, i) ==
    FlattenSeq([j \in DOMAIN trees[f] |->
        IF j \in Around(f, i) /\ NameOf(f, j) # <<>> THEN <<"/">> \o NameOf(f, j) ELSE <<>>])

Elements == UNION {{<<f, i>> : i \in Entries(f)} : f \in DOMAIN trees}

\* A reference is reported as dangling exactly when no element of the project has
\* the path; when some have, its DEST is held against the tag of the first of them
\* ("first file order wins", validator_references.cpp:36).
ReferencesJust ==
    stage = "done" /\ ScannedWell =>
        \A f \in DOMAIN trees : \A i \in RefSites(f) :
            LET path == trimText(trees[f][i].text)
                dest == trees[f][i].dest
                meant == {e \in Elements : Spelled(e[1], e[2]) = path}
                first(e) == \A o \in meant : e[1] < o[1] \/ (e[1] = o[1] /\ e[2] <= o[2])
                tag == {trees[e[1]][e[2]].tag : e \in {o \in meant : first(o)}}
                told == {x.code : x \in {y \in findings : y.file = f /\ y.location = i /\ y.path = path
                                                         /\ y.code # "shortname.duplicate"}}
            IN CASE meant = {} -> told = {"ref.dangling"}
                 [] meant # {} /\ dest \notin DOMAIN destToTags -> told = {"ref.dest_unrecognized"}
                 [] OTHER -> told = IF tag \subseteq destToTags[dest] THEN {} ELSE {"ref.type_mismatch"}

\* Two siblings of one name are reported, once, at the second of them.
DuplicatesTold ==
    stage = "done" =>
        \A f \in DOMAIN trees : \A i \in Entries(f) :
            LET twins == {j \in Entries(f) : trees[f][j].parent = trees[f][i].parent
                                             /\ NameOf(f, j) = NameOf(f, i)}
                told == {x \in findings : x.code = "shortname.duplicate" /\ x.file = f /\ x.location \in twins}
            IN IF Cardinality(twins) > 1
               THEN \E x \in told : told = {x} /\ Cardinality({j \in twins : j < x.location}) = 1
               ELSE told = {}

\* What the schema rejects in a file nobody has written to lies on the line of the
\* rejected element, when its start tag does not span lines.
SchemaOnItsLine ==
    \A x \in findings :
        LET d == input[x.file]
            k == x.origin
        IN x.code = "schema.invalid" /\ edits = 0 /\ d \in Scannables /\ XmlLine(d, k) = LineOf(Documents[d], k) =>
              /\ trees[x.file][x.location].line = LineOf(Documents[d], k)
              /\ x.location <= NodeOf(Documents[d], k)

\* The findings of the parts that work on the raw tree are true and complete, and
\* those of the part that reads the disk again lie where they should while nobody
\* writes to the file (validator_references.cpp:125-196, validator_uniqueness.cpp,
\* validator_schema.cpp:36-77).
FindingsJust == ReferencesJust /\ DuplicatesTold /\ SchemaOnItsLine

================================================================================
