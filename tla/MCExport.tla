------------------------------ MODULE MCExport ---------------------------------
(* An instance of Export.    Pairs of signals at every start of a two-byte    *)
(* payload, in both numberings; triples, so that a colliding signal is followed*)
(* by one that meets the bits it gave up; and the special cases of the walk:   *)
(* dangling and repeated names, values beyond int, lengths without a DLC.      *)
EXTENDS Export

MCNames == {"a", "b", "c"}
MCIntMax == 127

LSB == "LEAST-SIGNIFICANT-BYTE-FIRST"
MSB == "MOST-SIGNIFICANT-BYTE-FIRST"
At(n, s, p) == [signal |-> n, start |-> s, packing |-> p]
Sig(n, l) == [name |-> n, tag |-> "I-SIGNAL", literal |-> "decimal", value |-> l]
Pdu(l, ms, ss) == [length |-> l, mappings |-> ms, signals |-> ss]

Pairs ==
    {Pdu(l, <<At("a", s, p), At("b", t, q)>>, <<Sig("a", u), Sig("b", v)>>) :
        l \in {1, 2}, s \in 0..15, t \in {0, 5, 7, 8, 11, 15, 16}, p \in {LSB, MSB}, q \in {LSB, MSB},
        u \in {1, 3, 9, 16}, v \in {1, 4, 9}}

Triples ==
    {Pdu(2, <<At("a", r, LSB), At("b", s, p), At("c", t, q)>>, <<Sig("a", 4), Sig("b", u), Sig("c", v)>>) :
        r \in {0, 6}, s \in {1, 7, 8}, t \in {2, 9, 15}, p \in {LSB, MSB}, q \in {LSB, MSB},
        u \in {2, 12}, v \in {2, 8}}

Special ==
    {Pdu(l, ms, ss) :
        l \in {0, 1, 2, 8, 9, 12},
        ms \in {<<>>, <<At("a", 128, LSB), At("b", 0, "")>>, <<At("c", 3, MSB)>>,
                <<At("a", 0, LSB), At("a", 4, LSB)>>,
                <<At("a", 7, "MOST-SIGNIFICANT-BYTE-LAST"), At("b", 0, LSB)>>},
        ss \in {<<Sig("a", 8), Sig("b", 8)>>, <<Sig("a", 0), Sig("b", 128), Sig("a", 8)>>,
                <<Sig("a", 8), Sig("c", 12), Sig("a", 0)>>}}

\* What the model and the raw tree read differently, and a signal of no name.
Spelt(n, tag, form, v) == [name |-> n, tag |-> tag, literal |-> form, value |-> v]
Readings ==
    {Pdu(8, <<At("a", 8, LSB), At("", 0, ""), At("a", 23, MSB), At("b", 31, "MOST-SIGNIFICANT-BYTE-LAST"),
              At("c", 40, "")>>, ss) :
        ss \in {<<Spelt("a", "SYSTEM-SIGNAL", "absent", 0), Spelt("a", "I-SIGNAL", "decimal", 8),
                  Spelt("b", "I-SIGNAL", "binary", 3)>>,
                <<Spelt("a", "I-SIGNAL", "absent", 0), Spelt("b", "SYSTEM-SIGNAL", "absent", 0),
                  Spelt("b", "SYSTEM-SIGNAL", "decimal", 4), Spelt("c", "I-SIGNAL", "octal", 11)>>}}

MCInputs == Pairs \cup Triples \cup Special \cup Readings

MCFrames == {"f", "g"}
MCPorts == {"tx", "rx"}
MCEcus == {"e1", "e2"}
MCPaths == {<<"TX", "grp">>, <<"RX", "grp">>}

Place(p, s) == [pdu |-> p, start |-> s]
Fr(n1, ps) == [name |-> n1, transmitters |-> <<"e2">>, pdus |-> ps]
Trig(f, i, ps) == [frame |-> f, id |-> i, ports |-> ps]
Bare == [ports |-> <<>>, groups |-> <<>>, ecus |-> <<>>, system |-> {"a"}, frames |-> <<>>,
         triggerings |-> <<Trig("f", 100, <<>>)>>, receiverRefs |-> [s \in MCNames |-> <<"e1">>]]

\* The PDU in a frame, at two places and beyond the range of a uint32.
Placed == {[Bare EXCEPT !.frames = <<Fr("f", <<Place("p", 0), Place("p", o)>>)>>] : o \in {16, 252}}

\* Two frames, repeated names, dangling references, ports and groups that agree or not.
Rich ==
    {[Bare EXCEPT !.frames = fs, !.triggerings = ts, !.ports = ps, !.groups = gs, !.ecus = es] :
        fs \in {<<Fr("f", <<Place("p", 8), Place("q", 0)>>), Fr("g", <<Place("p", 3)>>)>>,
                <<Fr("f", <<Place("p", 0)>>), Fr("f", <<Place("q", 0), Place("q", 0)>>)>>},
        ts \in {<<Trig("f", 1, <<"tx", "rx">>), Trig("g", 2, <<"tx">>)>>,
                <<Trig("f", NoId, <<"rx">>), Trig("f", 3, <<>>), Trig("g", 4, <<"rx", "tx", "rx">>)>>,
                <<Trig("g", 5, <<"rx">>)>>},
        ps \in {<<>>, <<[name |-> "tx", ecu |-> "e1", out |-> TRUE], [name |-> "rx", ecu |-> "e2", out |-> FALSE]>>,
                <<[name |-> "rx", ecu |-> "", out |-> TRUE], [name |-> "tx", ecu |-> "e2", out |-> FALSE],
                  [name |-> "tx", ecu |-> "e1", out |-> TRUE]>>},
        gs \in {<<>>, <<[path |-> <<"RX", "grp">>, out |-> FALSE, pdus |-> <<"p", "q">>],
                        [path |-> <<"TX", "grp">>, out |-> TRUE, pdus |-> <<"p">>]>>,
                <<[path |-> <<"TX", "grp">>, out |-> TRUE, pdus |-> <<"q">>],
                  [path |-> <<"TX", "grp">>, out |-> FALSE, pdus |-> <<"p">>]>>},
        es \in {<<[name |-> "e1", groups |-> <<<<"TX", "grp">>>>], [name |-> "e2", groups |-> <<<<"RX", "grp">>>>]>>,
                <<[name |-> "e2", groups |-> <<<<"RX", "grp">>, <<"TX", "grp">>>>],
                  [name |-> "e1", groups |-> <<<<"TX", "grp">>>>]>>}}

MCNetworks == [i \in MCInputs |-> Placed \cup (IF i \in Readings THEN Rich ELSE {})]
================================================================================
