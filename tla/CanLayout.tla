------------------------------- MODULE CanLayout -------------------------------
(***************************************************************************)
(* Validator::validateCanSemantics on one PDU (validator_can.cpp): the     *)
(* length check, then the walk over the signal mappings that claims one    *)
(* bit of the payload after the other.  A PDU's occupancy array is its     *)
(* own, so PDUs and files do not interact.                                 *)
(*                                                                         *)
(* The PDU is as the XML gave it: "packing" is the text of                 *)
(* PACKING-BYTE-ORDER, "" when the element is absent, and a signal's       *)
(* "literal" tells how its LENGTH is spelt.  What the model builder makes  *)
(* of it is part of the module.                                            *)
(***************************************************************************)
EXTENDS Integers, Sequences

CONSTANTS
    Names,   \* short names of signals
    IntMax,  \* the largest int; a uint32 goes up to 2 * IntMax + 1
    Inputs   \* the PDUs, each with the signals of its file

None == "none"
Uint32 == 0..(2 * IntMax + 1)
Packing == {"LEAST-SIGNIFICANT-BYTE-FIRST", "MOST-SIGNIFICANT-BYTE-FIRST",
            "MOST-SIGNIFICANT-BYTE-LAST", ""}
NoRef == ""  \* a mapping of a signal group has no I-SIGNAL-REF
Mapping == [signal : Names \cup {NoRef}, start : Uint32, packing : Packing]
Signal == [name : Names, tag : {"I-SIGNAL", "SYSTEM-SIGNAL"},
           literal : {"decimal", "binary", "octal", "absent"}, value : Uint32]

ASSUME NameAssumption == None \notin Names /\ NoRef \notin Names
ASSUME IntAssumption == IntMax \in Nat
Input == [length : Uint32, mappings : Seq(Mapping), signals : Seq(Signal)]

ASSUME InputAssumption == Inputs \subseteq Input /\ \A i \in Inputs : 8 * i.length <= IntMax

VARIABLES
    pdu,        \* the PDU under check and the signals of its file
    pc,         \* "length", "mapping", "bits" or "done"
    k,          \* the mapping under check
    idx,        \* how many of its bits have been visited
    pos,        \* the bit to visit next
    occupancy,  \* which signal has claimed a bit of the payload
    findings    \* what has been reported

vars == <<pdu, pc, k, idx, pos, occupancy, findings>>

--------------------------------------------------------------------------------
(* The tables and conversions *)

\* canFdBytesForDlc: the payload of each DLC of CAN FD.
canFdBytesForDlc == <<0, 1, 2, 3, 4, 5, 6, 7, 8, 12, 16, 20, 24, 32, 48, 64>>

isValidClassicCanLength(length) == length <= 8
isValidCanFdLength(length) == length \in 0..8 \cup {12, 16, 20, 24, 32, 48, 64}

\* parseByteOrder: whatever is not little endian by name is big endian, which
\* is also the default of a mapping without the element.
LittleEndian(m) == m.packing = "LEAST-SIGNIFICANT-BYTE-FIRST"

\* static_cast<int> of a uint32.
AsInt(u) == IF u > IntMax THEN u - 2 * (IntMax + 1) ELSE u

\* childUint32 of the LENGTH: the model builder knows decimal literals only.  Of
\* 0b11 it reads the 0, and octal digits (at most two here) as decimal ones.
ModelLength(s) ==
    CASE s.literal = "decimal" -> s.value
      [] s.literal = "octal" -> 10 * (s.value \div 8) + (s.value % 8)
      [] OTHER -> 0

\* signals.try_emplace: the first signal of a name.
SignalsNamed(n) == {i \in DOMAIN pdu.signals : pdu.signals[i].name = n}
Defined(n) == SignalsNamed(n) # {}
BitLength(n) ==
    ModelLength(pdu.signals[CHOOSE i \in SignalsNamed(n) : \A j \in SignalsNamed(n) : i <= j])

\* Mutant of NextBit: byte N's last bit leads to its own first one.
NextBitSameByte(m, p) ==
    IF LittleEndian(m) THEN p + 1
    ELSE IF p % 8 = 0 THEN p + 7 ELSE p - 1

\* physicalBitsForIntelSignal and physicalBitsForMotorolaSignal: the bit after p.
NextBit(m, p) ==
    IF LittleEndian(m) THEN p + 1
    ELSE IF p % 8 = 0 THEN p + 15 ELSE p - 1

pduBits == 8 * pdu.length
mapping == pdu.mappings[k]

--------------------------------------------------------------------------------
Init ==
    /\ pdu \in Inputs
    /\ pc = "length"
    /\ k = 1
    /\ idx = 0
    /\ pos = 0
    /\ occupancy = [b \in 0..(pduBits - 1) |-> None]
    /\ findings = <<>>

Report(code, bit) ==
    findings' = Append(findings, [code |-> code, mapping |-> k, bit |-> bit,
                                  owner |-> IF bit \in DOMAIN occupancy THEN occupancy[bit] ELSE None])

\* checkPayloadLength, and the early return of checkSignalOverlap.
CheckPayloadLength ==
    /\ pc = "length"
    /\ \/ /\ isValidClassicCanLength(pdu.length) \/ isValidCanFdLength(pdu.length)
          /\ UNCHANGED findings
       \/ /\ ~isValidClassicCanLength(pdu.length) /\ ~isValidCanFdLength(pdu.length)
          /\ Report("can.dlc_mismatch", 0)
    /\ pc' = IF pduBits = 0 \/ pdu.mappings = <<>> THEN "done" ELSE "mapping"
    /\ UNCHANGED <<pdu, k, idx, pos, occupancy>>

\* Mutant of NextMapping: one mapping too many.
OneTooMany ==
    /\ k' = k + 1
    /\ pc' = IF k > Len(pdu.mappings) THEN "done" ELSE "mapping"
    /\ UNCHANGED <<pdu, idx, pos>>

\* The loop goes on with the next mapping, or ends.
NextMapping ==
    /\ k' = k + 1
    /\ pc' = IF k = Len(pdu.mappings) THEN "done" ELSE "mapping"
    /\ UNCHANGED <<pdu, idx, pos>>

\* No signal of that name, no length, or a start or length that is negative as
\* an int: no bits to visit.
HasBits(m) ==
    /\ Defined(m.signal)
    /\ BitLength(m.signal) # 0
    /\ AsInt(m.start) >= 0
    /\ AsInt(BitLength(m.signal)) > 0

SkipMapping ==
    /\ pc = "mapping"
    /\ ~HasBits(mapping)
    /\ NextMapping
    /\ UNCHANGED <<occupancy, findings>>

BeginSignal ==
    /\ pc = "mapping"
    /\ HasBits(mapping)
    /\ idx' = 0
    /\ pos' = AsInt(mapping.start)
    /\ pc' = "bits"
    /\ UNCHANGED <<pdu, k, occupancy, findings>>

InRange == pos \in DOMAIN occupancy
Taken == InRange /\ occupancy[pos] \notin {None, mapping.signal}

\* Mutant of ClaimBit: the last bit of a signal is not claimed.
ClaimAllButLast ==
    /\ pc = "bits"
    /\ InRange /\ ~Taken
    /\ IF idx + 2 < BitLength(mapping.signal)
       THEN /\ occupancy' = [occupancy EXCEPT ![pos] = mapping.signal]
            /\ idx' = idx + 1
            /\ pos' = NextBit(mapping, pos)
            /\ UNCHANGED <<pdu, pc, k>>
       ELSE UNCHANGED occupancy /\ NextMapping
    /\ UNCHANGED findings

ClaimBit ==
    /\ pc = "bits"
    /\ InRange /\ ~Taken
    /\ occupancy' = [occupancy EXCEPT ![pos] = mapping.signal]
    /\ IF idx + 1 < BitLength(mapping.signal)
       THEN idx' = idx + 1 /\ pos' = NextBit(mapping, pos) /\ UNCHANGED <<pdu, pc, k>>
       ELSE NextMapping
    /\ UNCHANGED findings

OutOfRange ==
    /\ pc = "bits"
    /\ ~InRange
    /\ Report("can.signal_out_of_range", pos)
    /\ NextMapping
    /\ UNCHANGED occupancy

\* One report per colliding signal; its other bits stay unclaimed.
Collision ==
    /\ pc = "bits"
    /\ Taken
    /\ Report("can.signal_overlap", pos)
    /\ NextMapping
    /\ UNCHANGED occupancy

Next ==
    \/ CheckPayloadLength
    \/ SkipMapping \/ BeginSignal
    \/ ClaimBit \/ OutOfRange \/ Collision

Spec == Init /\ [][Next]_vars

--------------------------------------------------------------------------------
(* The reference: a payload is a row of bits in the order of transmission, *)
(* most significant first within a byte.  Row turns a bit number into its  *)
(* place in that row; a big-endian signal is a run of the row and a        *)
(* little-endian one a run of the numbers.                                 *)

Row(p) == 8 * (p \div 8) + 7 - (p % 8)

Covers(m, p) ==
    /\ Defined(m.signal)
    /\ LET first == IF LittleEndian(m) THEN m.start ELSE Row(m.start)
           at == IF LittleEndian(m) THEN p ELSE Row(p) IN
          first <= at /\ at < first + BitLength(m.signal)

Overlap(i, j) ==
    LET m == pdu.mappings[i]  n == pdu.mappings[j] IN
        m.signal # n.signal /\ \E p \in 0..(pduBits - 1) : Covers(m, p) /\ Covers(n, p)

\* A signal leaves the payload when one of the bits it needs is not there.
Leaves(i) ==
    LET m == pdu.mappings[i] IN
        /\ Defined(m.signal) /\ BitLength(m.signal) # 0
        /\ (IF LittleEndian(m) THEN m.start ELSE Row(m.start)) + BitLength(m.signal) > pduBits

Legal ==
    /\ \E dlc \in DOMAIN canFdBytesForDlc : canFdBytesForDlc[dlc] = pdu.length
    /\ pduBits # 0 => \A i \in DOMAIN pdu.mappings :
          ~Leaves(i) /\ \A j \in DOMAIN pdu.mappings : ~Overlap(i, j)

--------------------------------------------------------------------------------
(* Properties *)

Finding == [code : {"can.dlc_mismatch", "can.signal_out_of_range", "can.signal_overlap"},
            mapping : Nat, bit : Nat, owner : Names \cup {None}]

\* Every variable has its type.
TypeOK ==
    /\ pdu \in Input
    /\ pc \in {"length", "mapping", "bits", "done"}
    /\ k \in 1..(Len(pdu.mappings) + 1)
    /\ pc \in {"mapping", "bits"} => k \in DOMAIN pdu.mappings
    /\ idx \in Nat /\ pos \in Nat
    /\ occupancy \in [0..(pduBits - 1) -> Names \cup {None}]
    /\ findings \in Seq(Finding)

\* The numbers that an int can hold.
Fits ==
    /\ \A i \in DOMAIN pdu.mappings : pdu.mappings[i].start <= IntMax
    /\ \A i \in DOMAIN pdu.signals : ModelLength(pdu.signals[i]) <= IntMax

\* The verdict of the walk is that of the reference: a PDU whose numbers fit an
\* int passes exactly when its length has a DLC, its signals lie within the
\* payload and no two of them share a bit, whatever their byte orders and the
\* order of the mappings; a PDU that fails is never legal, whatever its numbers.
SilentIffLegal ==
    pc = "done" => /\ findings # <<>> => ~Legal
                   /\ findings = <<>> /\ Fits => Legal

\* What is reported is true: the two signals of an overlap really share the bit that
\* the message names, and a bit out of range belongs to the signal; a mapping is named
\* at most once, in the order of the mappings: "one report per colliding signal"
\* (validator_can.cpp:162).
FindingsTrue ==
    /\ \A i, j \in DOMAIN findings :
          (i < j /\ findings[i].code # "can.dlc_mismatch") => findings[i].mapping < findings[j].mapping
    /\ \A f \in {findings[i] : i \in DOMAIN findings} :
           LET m == pdu.mappings[f.mapping] IN
           /\ f.code = "can.signal_overlap" =>
                 /\ Covers(m, f.bit)
                 /\ f.owner \notin {None, m.signal}
                 /\ \E i \in 1..(f.mapping - 1) :
                       pdu.mappings[i].signal = f.owner /\ Covers(pdu.mappings[i], f.bit)
           /\ f.code = "can.signal_out_of_range" => Covers(m, f.bit) /\ f.bit >= pduBits

================================================================================
