----------------------------- MODULE WriteContent -----------------------------
(***************************************************************************)
(* What WriteEngine::write puts into a document (write_engine.cpp,         *)
(* write_elements.cpp, write_ordering.cpp, write_context.cpp), and what    *)
(* the parser makes of it when it is read again.  How the document reaches *)
(* the disk is Cli's subject.                                              *)
(***************************************************************************)
EXTENDS ModelBuilder, FiniteSets

CONSTANTS
    Projects,   \* the projects: sequences of raw documents
    Ampersands, \* the names with an '&' in them
    Left,       \* what xmlNodeSetContent leaves of each
    MaxRounds   \* bound: how often the output is read and written again

ASSUME RoundAssumption == MaxRounds \in Nat
ASSUME AmpersandAssumption ==
    Ampersands \subseteq Nat \ {NoName} /\ Left \in [Ampersands -> Nat]
ASSUME ProjectAssumption ==
    \A p \in Projects : p \in Seq(ToSet(p)) /\ \A d \in ToSet(p) : WellFormed(d)

VARIABLES
    input,     \* the raw documents the first command is given
    files,     \* the raw documents to parse
    project,   \* ParsedProject::files
    phase,     \* "parse", "write", "assert", "saved", "threw" or "refused"
    document,  \* the tree write() builds
    previous,  \* the project the files were written from
    round      \* how many writes the files have been through

contentVars == <<input, files, project, phase, document, previous, round>>

NoDocument == [location |-> <<>>, root |-> Group("", <<>>)]

--------------------------------------------------------------------------------
(* Ordering: stable sorts *)

\* How many of the keys come no later than the i-th.
Rank(keys, i) == Cardinality({j \in DOMAIN keys : keys[j] < keys[i] \/ (keys[j] = keys[i] /\ j <= i)})
SortedBy(s, keys) == [k \in DOMAIN s |-> s[CHOOSE i \in DOMAIN s : Rank(keys, i) = k]]

\* Mutant of sortedStrings: the order of the input.
UnsortedStrings(names) == names

RefsOf(mappings) == [i \in DOMAIN mappings |-> mappings[i].ref]
NamesOf(items) == [i \in DOMAIN items |-> items[i].name]

sortedStrings(names) == SortedBy(names, names)
sortedMappings(mappings) == SortedBy(mappings, RefsOf(mappings))
sortedCopy(items) == SortedBy(items, NamesOf(items))

--------------------------------------------------------------------------------
(* The element builders *)

\* xmlNodeSetContent takes an '&' for the start of an entity reference: of "&amp;" the
\* character is left, of an '&' that ends nowhere what stands before it, or nothing.
\* (A reference to an entity nobody declared makes a document no parser reads.)
SetContent(name) == IF name \in Ampersands THEN Left[name] ELSE name

Text(tag, option) == [i \in DOMAIN option |-> Leaf(tag, option[i])]
Category(e) == Text("CATEGORY", [i \in DOMAIN e.category |-> SetContent(e.category[i])])
Titled(tag, title, children) == Node(tag, "", <<Leaf("SHORT-NAME", title)>> \o children)
Named(tag, name, children) == Titled(tag, SetContent(name), children)
NamedEach(tag, names) == [i \in DOMAIN names |-> Named(tag, names[i], <<>>)]
NonEmpty(tag, children) == IF children = <<>> THEN <<>> ELSE <<Group(tag, children)>>
SysRef(tag, name) == Leaf(tag, <<"Sys", SetContent(name)>>)

buildClusterElement(c) ==
    LET channels == NonEmpty("PHYSICAL-CHANNELS",
            NamedEach("CAN-PHYSICAL-CHANNEL", sortedStrings(c.physicalChannels)))
        conditional == NonEmpty("CAN-CLUSTER-CONDITIONAL", Text("BAUDRATE", c.baudrate) \o channels)
    IN Named("CAN-CLUSTER", c.name,
             Category(c) \o NonEmpty("CAN-CLUSTER-VARIANTS", conditional))

buildEcuInstanceElement(e) ==
    Named("ECU-INSTANCE", e.name,
        Category(e)
            \o NonEmpty("COMM-CONTROLLERS",
                        NamedEach("CAN-COMMUNICATION-CONTROLLER", sortedStrings(e.controllers))))

\* The short name synthesised for a mapping: owner and target, or owner and index.
MappingName(owner, ref, idx) ==
    IF ref = NoName THEN <<SetContent(owner), "mapping", idx>>
    ELSE <<SetContent(owner), "target", SetContent(ref)>>

MappingElement(owner, m, idx, tag, refTag) ==
    Titled(tag, MappingName(owner, m.ref, idx),
          (IF m.ref = NoName THEN <<>> ELSE <<SysRef(refTag, m.ref)>>)
              \o <<Leaf("START-POSITION", m.start)>>)

\* Mutant of MappingElements: a mapping without a target is skipped.
TargetedMappingElements(owner, mappings, tag, refTag) ==
    LET targeted == SelectSeq(sortedMappings(mappings), LAMBDA m : m.ref # NoName)
    IN [i \in DOMAIN targeted |-> MappingElement(owner, targeted[i], i - 1, tag, refTag)]

MappingElements(owner, mappings, tag, refTag) ==
    LET sorted == sortedMappings(mappings)
    IN [i \in DOMAIN sorted |-> MappingElement(owner, sorted[i], i - 1, tag, refTag)]

buildFrameElement(f) ==
    Named("CAN-FRAME", f.name,
        <<Leaf("FRAME-LENGTH", f.length)>>
            \o NonEmpty("PDU-TO-FRAME-MAPPINGS",
                   MappingElements(f.name, f.pdus, "PDU-TO-FRAME-MAPPING", "PDU-REF")))

buildPduElement(p) ==
    Named("I-SIGNAL-I-PDU", p.name,
        <<Leaf("LENGTH", p.length)>>
            \o NonEmpty("I-SIGNAL-TO-PDU-MAPPINGS",
                   MappingElements(p.name, p.signalMappings, "I-SIGNAL-TO-I-PDU-MAPPING", "I-SIGNAL-REF")))

buildSignalElement(s) ==
    Named("I-SIGNAL", s.name,
        NonEmpty("INIT-VALUE",
                 NonEmpty("NUMERICAL-VALUE-SPECIFICATION", Text("VALUE", s.initValue)))
            \o <<Leaf("LENGTH", s.bitLength)>>
            \o (IF s.isSigned
                THEN <<Group("NETWORK-REPRESENTATION-PROPS",
                             <<Leaf("BASE-TYPE-REF", <<"SwBaseType", "SINT8">>)>>)>>
                ELSE <<>>))

buildSignalGroupElement(g) ==
    LET members == sortedStrings(g.members)
    IN Named("I-SIGNAL-GROUP", g.name,
             NonEmpty("I-SIGNAL-REFS", [i \in DOMAIN members |-> SysRef("I-SIGNAL-REF", members[i])]))

BuildElement(type, e) ==
    CASE type = "Cluster" -> buildClusterElement(e)
      [] type = "EcuInstance" -> buildEcuInstanceElement(e)
      [] type = "Frame" -> buildFrameElement(e)
      [] type = "Pdu" -> buildPduElement(e)
      [] type = "Signal" -> buildSignalElement(e)
      [] type = "SignalGroup" -> buildSignalGroupElement(e)

--------------------------------------------------------------------------------
(* The document *)

\* The inverse of schemaFilenameTable.  An unknown release gets the default filename.
schemaFilenameForRelease(release) ==
    IF \E f \in DOMAIN schemaFilenameTable : schemaFilenameTable[f] = release
    THEN CHOOSE f \in DOMAIN schemaFilenameTable : schemaFilenameTable[f] = release
    ELSE "AUTOSAR_00046.xsd"

ReleaseOf(p) == IF p = <<>> THEN "4.4.0" ELSE p[1].autosarRelease

Merged(p, type) == FlattenSeq([f \in DOMAIN p |-> p[f].elements[type]])
Emitted(type, items) ==
    LET sorted == sortedCopy(items) IN [i \in DOMAIN sorted |-> BuildElement(type, sorted[i])]

BuildTree(p) ==
    [location |-> <<"namespace", schemaFilenameForRelease(ReleaseOf(p))>>,
     root |-> Group("AUTOSAR", <<Group("AR-PACKAGES", <<Titled("AR-PACKAGE", "Sys", <<
         Group("ELEMENTS", FlattenSeq([i \in DOMAIN Types |->
             Emitted(Types[i], Merged(p, Types[i]))]))>>)>>)>>)]

\* WriteEngine::validate: the elements without a short name.
validate(p) ==
    UNION {{<<f, type, i>> : i \in {j \in DOMAIN p[f].elements[type] :
                                       p[f].elements[type][j].name = NoName}} :
              f \in DOMAIN p, type \in TypeNames}

\* An empty category is written as an element without content.  Whether libxml2
\* gives that element an empty text node depends on its version.
EmptyTexts(d) == {i \in DOMAIN d.root : d.root[i].tag = "CATEGORY" /\ d.root[i].text = NoName}

--------------------------------------------------------------------------------
(* Parse, write, parse again *)

ContentInit ==
    /\ input \in Projects /\ files = input
    /\ project = <<>> /\ previous = <<>>
    /\ phase = "parse" /\ round = 0
    /\ document = NoDocument

ParseFiles ==
    /\ phase = "parse" /\ \A f \in DOMAIN files : Resolvable(files[f])
    /\ project' = [f \in DOMAIN files |-> parseFile(files[f])]
    /\ phase' = "write"
    /\ UNCHANGED <<input, files, document, previous, round>>

ParseThrows ==
    /\ phase = "parse" /\ \E f \in DOMAIN files : ~Resolvable(files[f])
    /\ phase' = "threw"
    /\ UNCHANGED <<input, files, project, document, previous, round>>

WriteRefused ==
    /\ phase = "write" /\ validate(project) # {}
    /\ phase' = "refused"
    /\ UNCHANGED <<input, files, project, document, previous, round>>

BuildDocument ==
    /\ phase = "write" /\ validate(project) = {}
    /\ document' = BuildTree(project)
    /\ phase' = "assert"
    /\ UNCHANGED <<input, files, project, previous, round>>

\* assertNoWhitespaceOnlyTextNodes
TextRefused ==
    /\ phase = "assert" /\ EmptyTexts(document) # {}
    /\ phase' = "refused"
    /\ UNCHANGED <<input, files, project, document, previous, round>>

Save ==
    /\ phase = "assert"
    /\ phase' = "saved"
    /\ UNCHANGED <<input, files, project, document, previous, round>>

\* The next command is given the file just written.
ReadAgain ==
    /\ phase = "saved" /\ round < MaxRounds
    /\ files' = <<document>> /\ previous' = project
    /\ phase' = "parse" /\ round' = round + 1
    /\ UNCHANGED <<input, project, document>>

ContentNext ==
    \/ ParseFiles \/ ParseThrows \/ WriteRefused \/ BuildDocument
    \/ TextRefused \/ Save \/ ReadAgain

ContentSpec == ContentInit /\ [][ContentNext]_contentVars

--------------------------------------------------------------------------------
(* Properties *)

BagOf(s) == [x \in ToSet(s) |-> Cardinality({i \in DOMAIN s : s[i] = x})]

\* What of an element survives.  Lost are, as announced, the channels of an ECU, the
\* transmitters of a frame, a signal's start bit, byte order, receivers and value
\* table; and unannounced, the byte order of a signal mapping, and the category of a
\* frame, a PDU, a signal and a signal group.
Kept(type, e) ==
    CASE type = "Cluster" -> <<e.name, e.category, e.baudrate, BagOf(e.physicalChannels)>>
      [] type = "EcuInstance" -> <<e.name, e.category, BagOf(e.controllers)>>
      [] type = "Frame" -> <<e.name, e.length, BagOf(e.pdus)>>
      [] type = "Pdu" ->
            <<e.name, e.length,
              BagOf([i \in DOMAIN e.signalMappings |-> <<e.signalMappings[i].ref, e.signalMappings[i].start>>])>>
      [] type = "Signal" -> <<e.name, e.bitLength, e.isSigned, e.initValue>>
      [] type = "SignalGroup" -> <<e.name, BagOf(e.members)>>

KeptOf(p) ==
    [type \in TypeNames |->
        LET merged == Merged(p, type) IN BagOf([i \in DOMAIN merged |-> Kept(type, merged[i])])]

\* Nothing that is read and written again has an '&' in it.
Ampersand(row) ==
    \/ row.tag \in {"SHORT-NAME", "CATEGORY"} /\ row.text \in Ampersands
    \/ row.tag \in ReferenceTags /\ shortNameOfRef(row.text) \in Ampersands
NoAmpersand == \A d \in ToSet(input) : \A i \in DOMAIN d.root : ~Ampersand(d.root[i])

(* What write() saves of documents without an '&' reads back: the file parses,    *)
(* under the release of the project's first file, into the elements of all its    *)
(* files, each as often as it was there, with what Kept lists and nothing else;   *)
(* from then on parse and write change nothing ("parse-write-reparse is           *)
(* idempotent", docs/lld.md:28), and a write is refused only for an element       *)
(* without a name or an empty category.  What Kept leaves out is lost although    *)
(* the documentation lists less: see RoundTripsAsDocumented.                      *)
WrittenReadsBack ==
    NoAmpersand =>
        /\ round > 0 =>
              /\ phase # "threw"
              /\ phase # "parse" =>
                    /\ Len(project) = 1
                    /\ project[1].autosarRelease = ReleaseOf(previous)
                    /\ KeptOf(project) = KeptOf(previous)
                    /\ round > 1 => project = previous
        /\ phase = "refused" =>
              \E f \in DOMAIN project, type \in TypeNames :
                  \E e \in ToSet(project[f].elements[type]) : e.name = NoName \/ e.category = <<NoName>>

ListFields == {"physicalChannels", "controllers", "pdus", "signalMappings", "members"}
KeysOf(e, field) == IF field \in {"pdus", "signalMappings"} THEN RefsOf(e[field]) ELSE e[field]
KeysUnique(e) == \A field \in ListFields \cap DOMAIN e : IsInjective(KeysOf(e, field))

Names(p) == FlattenSeq([i \in DOMAIN Types |-> NamesOf(Merged(p, Types[i]))])
Determined(p) ==
    /\ IsInjective(Names(p))
    /\ \A type \in TypeNames : \A e \in ToSet(Merged(p, type)) : KeysUnique(e)

\* The same elements, in any order, each with its lists reversed.
ReversedLists(e) == [f \in DOMAIN e |-> IF f \in ListFields THEN Reverse(e[f]) ELSE e[f]]
Shuffles(s) ==
    {[i \in DOMAIN s |-> ReversedLists(s[p[i]])] :
        p \in {q \in [DOMAIN s -> DOMAIN s] : IsInjective(q)}}

Written(d, type) == Tagged(d.root, Family[type])
SiblingNames(node) ==
    LET nodes == ChildrenOf(node) IN FlattenSeq([i \in DOMAIN nodes |-> childText(nodes[i], "SHORT-NAME")])

(* The order of the input never shows in the output (write_ordering.hpp calls     *)
(* every collection unordered), and no two siblings of it have the same name, the *)
(* synthesised names of the mappings included, as long as the project's names are *)
(* distinct, no list names the same thing twice and no name has an '&' (a cut     *)
(* name may be another's).                                                        *)
OutputCanonical ==
    (NoAmpersand /\ phase \in {"assert", "saved"} /\ Determined(project)) =>
        /\ \A type \in TypeNames : \A s \in Shuffles(Merged(project, type)) :
              Emitted(type, s) = Written(document, type)
        /\ \A i \in DOMAIN document.root : IsInjective(SiblingNames(Subtree(document.root, i)))

\* The fields whose loss README.md:203-206 and write_elements.cpp:60-70 announce;
\* "missing" is not part of the element.
Announced == {"connectedChannels", "transmitters", "startBit", "byteOrder", "receivers", "valueTable", "missing"}
Represented(e) ==
    [f \in DOMAIN e \ Announced |-> IF f \in ListFields THEN BagOf(e[f]) ELSE e[f]]
RepresentedIn(p, type) ==
    LET merged == Merged(p, type) IN BagOf([i \in DOMAIN merged |-> Represented(merged[i])])

\* The project was read from the file the one before it was written to.
SecondReading == round > 0 /\ phase \notin {"parse", "threw"}

\* Documented, and not so: the writer "faithfully round-trips everything the domain
\* model represents" (README.md:201) but for what it lists.  The builders also drop
\* the CATEGORY of a frame, a PDU, a signal and a signal group (write_elements.cpp:
\* 110-221), and the byte order of every signal mapping of a PDU.
RoundTripsAsDocumented ==
    NoAmpersand /\ SecondReading =>
        \A type \in TypeNames : RepresentedIn(project, type) = RepresentedIn(previous, type)

\* By the same sentence, and not so: every element comes back under its name.  A name
\* with an '&' is passed to xmlNodeSetContent as it is, which wants it escaped.
NamesReadBack ==
    SecondReading =>
        \A type \in TypeNames :
            BagOf(NamesOf(Merged(project, type))) = BagOf(NamesOf(Merged(previous, type)))
================================================================================
