---------------------------- MODULE MCWriteContent ----------------------------
(* An instance of WriteContent: projects of at most three elements in one or two  *)
(* files, in both vocabularies the parser reads.                                  *)
EXTENDS WriteContent

Sn(n) == Leaf("SHORT-NAME", n)
Num(tag, n) == Leaf(tag, n)
Ref(tag, n) == Leaf(tag, <<"Pkg", n>>)
El(tag, n, children) == Node(tag, "", <<Sn(n)>> \o children)
Cat(n) == Leaf("CATEGORY", n)
Mapping(tag, refs, start) == Node(tag, "", <<Sn(9)>> \o refs \o <<Num("START-POSITION", start)>>)

Clusters ==
    {El("CLUSTER", 1, <<Cat(5), Num("BAUDRATE", 2),
            Group("PHYSICAL-CHANNELS", <<El("PHYSICAL-CHANNEL", 7, <<>>), El("PHYSICAL-CHANNEL", 6, <<>>)>>)>>),
     El("CAN-CLUSTER", 2, <<Group("CAN-CLUSTER-VARIANTS", <<Group("CAN-CLUSTER-CONDITIONAL",
            <<Num("BAUDRATE", 4), El("CAN-PHYSICAL-CHANNEL", 7, <<>>), El("PHYSICAL-CHANNEL", 8, <<>>)>>)>>)>>),
     El("CAN-CLUSTER", 3, <<Cat(NoName), Num("BAUDRATE", Unreadable)>>),
     El("CAN-CLUSTER", 4, <<>>),
     El("CAN-CLUSTER", 12, <<Cat(13)>>)}

Ecus ==
    {El("ECU-INSTANCE", 1, <<Ref("CHANNEL-REF", 7), El("CAN-CONTROLLER", 8, <<>>),
            El("CAN-COMMUNICATION-CONTROLLER", 6, <<>>)>>),
     El("ECU-INSTANCE", 2, <<Cat(5), Ref("CHANNEL-REF", 7), El("CAN-CONTROLLER", 13, <<>>)>>),
     El("ECU-INSTANCE", NoName, <<>>)}

Frames ==
    {El("FRAME", 1, <<Num("LENGTH", 2), Ref("TRANSMITTER-REF", 1),
            Mapping("FRAME-PDU", <<Ref("PDU-REF", 2)>>, 1), Mapping("FRAME-PDU", <<Ref("PDU-REF", 1)>>, 0)>>),
     El("CAN-FRAME", 2, <<Cat(5), Num("FRAME-LENGTH", 3),
            Mapping("PDU-TO-FRAME-MAPPING", <<>>, 1), Mapping("PDU-TO-FRAME-MAPPING", <<Ref("PDU-REF", 1)>>, 2)>>),
     El("CAN-FRAME", 3, <<Num("LENGTH", 4), Num("FRAME-LENGTH", 1)>>)}

Pdus ==
    {El("PDU", 1, <<Num("LENGTH", 1),
            Mapping("PDU-SIGNAL-MAPPING", <<Ref("SIGNAL-REF", 2), Leaf("BYTE-ORDER", "LEAST-SIGNIFICANT-BYTE-FIRST")>>, 1),
            Mapping("PDU-SIGNAL-MAPPING", <<Ref("SIGNAL-REF", 1)>>, 0)>>),
     El("I-SIGNAL-I-PDU", 2, <<Num("LENGTH", 3), Group("I-SIGNAL-TO-PDU-MAPPINGS",
            <<Mapping("I-SIGNAL-TO-I-PDU-MAPPING", <<Ref("I-SIGNAL-REF", 1),
                  Leaf("PACKING-BYTE-ORDER", "MOST-SIGNIFICANT-BYTE-LAST")>>, 2),
              Mapping("I-SIGNAL-TO-I-PDU-MAPPING", <<>>, 1), Mapping("I-SIGNAL-TO-I-PDU-MAPPING", <<>>, 0)>>)>>),
     El("PDU", 1, <<El("SYSTEM-SIGNAL", 3, <<>>)>>)}

Signals ==
    {El("SYSTEM-SIGNAL", 1, <<Num("START-BIT", 2), Num("BIT-LENGTH", 3),
            Leaf("BYTE-ORDER", "LEAST-SIGNIFICANT-BYTE-FIRST"), Ref("RECEIVER-REF", 1),
            Group("VALUE-TABLE", <<Group("VALUE-TABLE-ENTRY", <<Num("VALUE", 1), Leaf("LABEL", 4)>>)>>)>>),
     El("I-SIGNAL", 2, <<Num("LENGTH", 1), Ref("BASE-TYPE-REF", "S16"),
            Group("INIT-VALUE", <<Group("NUMERICAL-VALUE-SPECIFICATION", <<Num("VALUE", 2)>>)>>)>>),
     El("I-SIGNAL", 3, <<Ref("BASE-TYPE-REF", "UINT8"), Group("INIT-VALUE", <<Num("VALUE", Unreadable)>>)>>)}

SignalGroups ==
    {El("SIGNAL-GROUP", 1, <<Ref("SYSTEM-SIGNAL-REF", 2), Ref("SYSTEM-SIGNAL-REF", 1)>>),
     El("I-SIGNAL-GROUP", 2, <<Ref("SYSTEM-SIGNAL-REF", 1), Ref("I-SIGNAL-REF", 3), Ref("I-SIGNAL-REF", 3)>>),
     Group("I-SIGNAL-GROUP", <<>>)}

Pool == Clusters \cup Ecus \cup Frames \cup Pdus \cup Signals \cup SignalGroups

Raw(schema, elements) ==
    [location |-> schema, root |-> Group("AUTOSAR", <<Group("AR-PACKAGES", elements)>>)]
Known == <<"namespace", "AUTOSAR_00050.xsd">>
Older == <<"namespace", "AUTOSAR_4-2-2.xsd">>
Unknown == {<<"namespace", "AUTOSAR_4-0-1.xsd">>, <<"namespace">>, <<>>}

\* Of 12 nothing is left, of 13 what stands before its '&'.
MCAmpersands == {12, 13}
MCLeft == [n \in MCAmpersands |-> IF n = 12 THEN NoName ELSE 1]

MCProjects ==
    {<<>>} \cup {<<Raw(Known, <<a>>)>> : a \in Pool}
        \cup {<<Raw(Older, <<a, b>>)>> : a, b \in Pool}
        \cup {<<Raw(Known, <<a, b>>), Raw(Older, <<c>>)>> : a, b, c \in Pool}
        \cup {<<Raw(Known, <<>>), Raw(u, <<a>>)>> : u \in Unknown, a \in Clusters}
================================================================================
