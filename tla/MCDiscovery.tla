------------------------------ MODULE MCDiscovery ------------------------------
(* Instances of Discovery: paths 1 and 2 in a directory, 3 and 4 below it.     *)
(* Name x is a PDU in one document and an ECU in another.                      *)
EXTENDS Discovery

CONSTANTS top, sub, x, y

MCPaths == 1..4
MCParent == [p \in MCPaths |-> IF p <= 2 THEN top ELSE sub]
MCUnder == [d \in {top, sub} |-> IF d = top THEN MCPaths ELSE {3, 4}]

Plain(defs, refs) ==
    [parses |-> TRUE, opaque |-> FALSE, text |-> {r[2] : r \in defs}, defs |-> defs, refs |-> refs]

Frame == Plain({}, {<<"pdu", x>>, <<"ecu", NoName>>})
Cluster == Plain({<<"ecu", x>>}, {<<"pdu", x>>})
Pdu == Plain({<<"pdu", x>>}, {<<"signal", y>>})
Signal == Plain({<<"signal", y>>}, {<<"ecu", x>>})
Ecu == Plain({<<"ecu", x>>}, {})
Utf16 == [Plain({<<"pdu", x>>, <<"signal", y>>}, {}) EXCEPT !.opaque = TRUE, !.text = {}]
Comment == [Plain({}, {}) EXCEPT !.text = {x, y}]
Broken == [Comment EXCEPT !.parses = FALSE]
\* <SHORT-NAME T="..."> spells the name in a form the byte scan does not match.
Attributed == [Pdu EXCEPT !.text = {}]

MCDisks ==
    {d \in [MCPaths -> {Frame, Cluster, Pdu, Signal, Ecu, Utf16, Comment, Broken, Absent}] :
        /\ d[1] \in {Frame, Cluster, Pdu, Broken}
        /\ d[2] \in {Pdu, Signal, Ecu, Utf16, Comment}
        /\ d[3] \in {Pdu, Signal, Ecu, Broken, Absent}
        /\ d[4] \in {Pdu, Ecu, Signal, Comment}}
MCEdits == {<<2, Absent>>, <<3, Signal>>, <<4, Ecu>>}
MCEntryLists == {<<1>>, <<1, 1>>, <<1, 3>>, <<3, 2>>}

AttributedDisk ==
    {[p \in MCPaths |-> CASE p = 1 -> Frame [] p = 2 -> Attributed [] p = 3 -> Signal [] OTHER -> Ecu]}
================================================================================
