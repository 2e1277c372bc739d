----------------------------- MODULE ModelBuilder -----------------------------
(***************************************************************************)
(* The typed model of one file (model_builder.cpp, buildSubtree of         *)
(* parser.cpp) and the release of its schema (release_detector.cpp).       *)
(*                                                                         *)
(* A raw node has a tag, its text and its children.  Texts stand for what  *)
(* is left of them once trimmed: a short name or a label is a number (0 is *)
(* the empty one), a reference the sequence of its parts, a numeral what    *)
(* parseInteger reads in it (how that differs from what was meant is        *)
(* CanLayout's subject), with Unreadable when it reads nothing, and a byte *)
(* order its upper-case spelling.  An optional value is a sequence of at   *)
(* most one.  Spans are the loader's subject.                              *)
(***************************************************************************)
EXTENDS Integers, Sequences, SequencesExt

CONSTANT
    MaxUint32  \* the largest uint32

ASSUME UintAssumption == MaxUint32 \in Nat

Unreadable == -1
NoName == 0

\* A node is the sequence of its rows in document order: its own, with how many they are,
\* and after it those of its children.
Node(tag, text, children) ==
    LET inside == FlattenSeq(children)
    IN <<[tag |-> tag, text |-> text, size |-> 1 + Len(inside)]>> \o inside
Leaf(tag, text) == Node(tag, text, <<>>)
Group(tag, children) == Node(tag, "", children)

TagOf(node) == node[1].tag
TextOf(node) == node[1].text

Types == <<"Cluster", "EcuInstance", "Frame", "Pdu", "Signal", "SignalGroup">>
TypeNames == {Types[i] : i \in DOMAIN Types}

Family ==
    [Cluster |-> {"CLUSTER", "CAN-CLUSTER"}, EcuInstance |-> {"ECU-INSTANCE"},
     Frame |-> {"FRAME", "CAN-FRAME"}, Pdu |-> {"PDU", "I-SIGNAL-I-PDU"},
     Signal |-> {"SYSTEM-SIGNAL", "I-SIGNAL"}, SignalGroup |-> {"SIGNAL-GROUP", "I-SIGNAL-GROUP"}]

--------------------------------------------------------------------------------
(* Walking the raw tree *)

Subtree(rows, i) == SubSeq(rows, i, i + rows[i].size - 1)

\* Subtrees end inside those they begin in.
IsForest(rows) ==
    \A i \in DOMAIN rows :
        /\ rows[i].size \in 1..(Len(rows) - i + 1)
        /\ \A j \in i..(i + rows[i].size - 1) : j + rows[j].size <= i + rows[i].size

\* The nodes of some rows with one of the tags, and those that are in no other.
Tagged(rows, tags) ==
    FlattenSeq([i \in DOMAIN rows |-> IF rows[i].tag \in tags THEN <<Subtree(rows, i)>> ELSE <<>>])
Outermost(rows) ==
    FlattenSeq([i \in DOMAIN rows |->
        IF \A j \in 1..(i - 1) : j + rows[j].size <= i THEN <<Subtree(rows, i)>> ELSE <<>>])

ChildrenOf(node) == Outermost(Tail(node))
collectDescendants(node, tags) == Tagged(Tail(node), tags)
findDescendants(node, tag) == collectDescendants(node, {tag})
OfTags(node, tags) == FlattenSeq([i \in DOMAIN tags |-> findDescendants(node, tags[i])])

OfTag(nodes, tag) ==
    FlattenSeq([i \in DOMAIN nodes |-> IF TagOf(nodes[i]) = tag THEN <<nodes[i]>> ELSE <<>>])
FirstOf(s) == IF s = <<>> THEN <<>> ELSE <<Head(s)>>
findChild(node, tag) == FirstOf(OfTag(ChildrenOf(node), tag))

Texts(nodes) == [i \in DOMAIN nodes |-> TextOf(nodes[i])]
childText(node, tag) == Texts(findChild(node, tag))
OrElse(option, other) == IF option # <<>> THEN option ELSE other
Value(option, fallback) == IF option # <<>> THEN option[1] ELSE fallback

--------------------------------------------------------------------------------
(* Conversions *)

parseUint32(text) == IF text \in 0..MaxUint32 THEN <<text>> ELSE <<>>
parseDouble(text) == IF text = Unreadable THEN <<>> ELSE <<text>>
parseInteger(text) == IF text = Unreadable THEN 0 ELSE text

childUint32(node, tag, fallback) ==
    LET text == childText(node, tag)
    IN IF text = <<>> THEN fallback ELSE Value(parseUint32(text[1]), fallback)

shortNameOfRef(ref) == Last(ref)
parseByteOrder(text) ==
    IF text = "LEAST-SIGNIFICANT-BYTE-FIRST" THEN "least" ELSE "most"

\* The base types among the inputs whose name has the shape of a signed one.
isSignedBaseType(ref) == shortNameOfRef(ref) \in {"SINT8", "S16"}

NonEmptyOf(names) == FlattenSeq([i \in DOMAIN names |-> IF names[i] # NoName THEN <<names[i]>> ELSE <<>>])

refShortNames(node, tag) ==
    LET refs == findDescendants(node, tag)
    IN NonEmptyOf([i \in DOMAIN refs |-> shortNameOfRef(TextOf(refs[i]))])

extractShortName(node) == Value(childText(node, "SHORT-NAME"), NoName)

\* channelShortNames, controllerShortNames
ShortNamesOf(node, tags) ==
    LET nodes == OfTags(node, tags)
    IN NonEmptyOf([i \in DOMAIN nodes |-> extractShortName(nodes[i])])

--------------------------------------------------------------------------------
(* The raw trees: a subtree is a block of rows, and each text reads as its tag says *)

NameTags == {"SHORT-NAME", "CATEGORY", "LABEL"}
NumeralTags == {"BAUDRATE", "START-POSITION", "LENGTH", "FRAME-LENGTH", "START-BIT", "BIT-LENGTH", "VALUE"}
ReferenceTags ==
    {"CHANNEL-REF", "TRANSMITTER-REF", "PDU-REF", "SIGNAL-REF", "I-SIGNAL-REF", "RECEIVER-REF", "SYSTEM-SIGNAL-REF"}

WellTyped(row) ==
    /\ row.tag \in NameTags => row.text \in Nat
    /\ row.tag \in NumeralTags => row.text \in Int
    /\ row.tag \in ReferenceTags => shortNameOfRef(row.text) \in Nat

WellFormed(document) ==
    LET rows == document.root
    IN  /\ rows # <<>> /\ rows \in Seq(ToSet(rows))
        /\ IsForest(rows) /\ rows[1].size = Len(rows)
        /\ \A i \in DOMAIN rows : WellTyped(rows[i])

--------------------------------------------------------------------------------
(* The builders.  "missing" is what the warnings pushed for the element say.      *)

category(node) == childText(node, "CATEGORY")
Missing(node, what) ==
    what \cup (IF extractShortName(node) = NoName THEN {"SHORT-NAME"} ELSE {})
If(condition, what) == IF condition THEN {what} ELSE {}

buildCluster(node) ==
    LET direct == childText(node, "BAUDRATE")
        text == OrElse(direct, Texts(FirstOf(findDescendants(node, "BAUDRATE"))))
    IN [name |-> extractShortName(node), category |-> category(node),
        baudrate |-> IF text = <<>> THEN <<>> ELSE parseUint32(text[1]),
        physicalChannels |-> ShortNamesOf(node, <<"PHYSICAL-CHANNEL", "CAN-PHYSICAL-CHANNEL">>),
        missing |-> Missing(node, If(text = <<>>, "baudrate"))]

buildEcuInstance(node) ==
    LET channels == refShortNames(node, "CHANNEL-REF")
        controllers == ShortNamesOf(node, <<"CAN-CONTROLLER", "CAN-COMMUNICATION-CONTROLLER">>)
    IN [name |-> extractShortName(node), category |-> category(node),
        connectedChannels |-> channels, controllers |-> controllers,
        missing |-> Missing(node, If(channels = <<>> /\ controllers = <<>>, "controllers"))]

FramePduMapping(mapping) ==
    [ref |-> shortNameOfRef(Value(childText(mapping, "PDU-REF"), <<NoName>>)),
     start |-> childUint32(mapping, "START-POSITION", 0)]

buildFrame(node) ==
    LET mappings == OfTags(node, <<"FRAME-PDU", "PDU-TO-FRAME-MAPPING">>)
        pdus == [i \in DOMAIN mappings |-> FramePduMapping(mappings[i])]
        hasLength == findChild(node, "LENGTH") # <<>> \/ findChild(node, "FRAME-LENGTH") # <<>>
    IN [name |-> extractShortName(node), category |-> category(node),
        length |-> childUint32(node, "LENGTH", childUint32(node, "FRAME-LENGTH", 0)),
        transmitters |-> refShortNames(node, "TRANSMITTER-REF"), pdus |-> pdus,
        missing |-> Missing(node, If(~hasLength, "length") \cup If(pdus = <<>>, "pdus"))]

PduSignalMapping(mapping) ==
    LET order == OrElse(childText(mapping, "BYTE-ORDER"), childText(mapping, "PACKING-BYTE-ORDER"))
        signal == OrElse(childText(mapping, "SIGNAL-REF"), childText(mapping, "I-SIGNAL-REF"))
    IN [ref |-> shortNameOfRef(Value(signal, <<NoName>>)),
        start |-> childUint32(mapping, "START-POSITION", 0),
        byteOrder |-> parseByteOrder(Value(order, ""))]

buildPdu(node) ==
    LET mappings == OfTags(node, <<"PDU-SIGNAL-MAPPING", "I-SIGNAL-TO-I-PDU-MAPPING">>)
    IN [name |-> extractShortName(node), category |-> category(node),
        length |-> childUint32(node, "LENGTH", 0), signalMappings |-> [i \in DOMAIN mappings |-> PduSignalMapping(mappings[i])],
        missing |-> Missing(node, If(findChild(node, "LENGTH") = <<>>, "length")
                                      \cup If(mappings = <<>>, "signals"))]

ValueTableEntry(entry) ==
    [value |-> parseInteger(Value(childText(entry, "VALUE"), 0)),
     label |-> Value(childText(entry, "LABEL"), NoName)]

buildSignal(node) ==
    LET types == FirstOf(findDescendants(node, "BASE-TYPE-REF"))
        initial == findChild(node, "INIT-VALUE")
        value == IF initial = <<>> THEN <<>> ELSE Texts(FirstOf(findDescendants(initial[1], "VALUE")))
        table == findChild(node, "VALUE-TABLE")
        entries == IF table = <<>> THEN <<>> ELSE OfTag(ChildrenOf(table[1]), "VALUE-TABLE-ENTRY")
    IN [name |-> extractShortName(node), category |-> category(node),
        startBit |-> childUint32(node, "START-BIT", 0),
        bitLength |-> childUint32(node, "BIT-LENGTH", childUint32(node, "LENGTH", 0)),
        byteOrder |-> parseByteOrder(Value(childText(node, "BYTE-ORDER"), "")),
        isSigned |-> types # <<>> /\ isSignedBaseType(TextOf(types[1])),
        initValue |-> IF value = <<>> THEN <<>> ELSE parseDouble(value[1]),
        receivers |-> refShortNames(node, "RECEIVER-REF"),
        valueTable |-> IF table = <<>> THEN <<>> ELSE <<[i \in DOMAIN entries |-> ValueTableEntry(entries[i])]>>,
        missing |-> Missing(node,
            If(TagOf(node) = "I-SIGNAL" /\ findChild(node, "LENGTH") = <<>>, "length"))]

buildSignalGroup(node) ==
    LET members == refShortNames(node, "I-SIGNAL-REF") \o refShortNames(node, "SYSTEM-SIGNAL-REF")
    IN [name |-> extractShortName(node), category |-> category(node), members |-> members,
        missing |-> Missing(node, If(members = <<>>, "members"))]

Build(type, node) ==
    CASE type = "Cluster" -> buildCluster(node)
      [] type = "EcuInstance" -> buildEcuInstance(node)
      [] type = "Frame" -> buildFrame(node)
      [] type = "Pdu" -> buildPdu(node)
      [] type = "Signal" -> buildSignal(node)
      [] type = "SignalGroup" -> buildSignalGroup(node)

buildSubtree(root) ==
    [type \in TypeNames |->
        LET nodes == Tagged(root, Family[type]) IN [i \in DOMAIN nodes |-> Build(type, nodes[i])]]

--------------------------------------------------------------------------------
(* Releases *)

schemaFilenameTable ==
    [filename \in {"AUTOSAR_4-2-2.xsd", "AUTOSAR_4-3-0.xsd", "AUTOSAR_00044.xsd", "AUTOSAR_00046.xsd",
                   "AUTOSAR_00048.xsd", "AUTOSAR_00049.xsd", "AUTOSAR_00050.xsd"} |->
        CASE filename = "AUTOSAR_4-2-2.xsd" -> "4.2.2" [] filename = "AUTOSAR_4-3-0.xsd" -> "4.3.0"
          [] filename = "AUTOSAR_00044.xsd" -> "4.3.1" [] filename = "AUTOSAR_00046.xsd" -> "4.4.0"
          [] filename = "AUTOSAR_00048.xsd" -> "R19-11" [] filename = "AUTOSAR_00049.xsd" -> "R20-11"
          [] filename = "AUTOSAR_00050.xsd" -> "R21-11"]

\* A raw document is its root and the tokens of xsi:schemaLocation.
detectSchemaFilename(document) == IF Len(document.location) < 2 THEN <<>> ELSE <<document.location[2]>>

\* parseFile throws without a filename, and resolveRelease for an unknown one.
Resolvable(document) ==
    LET schema == detectSchemaFilename(document)
    IN schema # <<>> /\ schema[1] \in DOMAIN schemaFilenameTable

parseFile(document) ==
    [autosarRelease |-> schemaFilenameTable[detectSchemaFilename(document)[1]],
     elements |-> buildSubtree(document.root)]
================================================================================
