------------------------------ MODULE ExportProofs ------------------------------
(***************************************************************************)
(* The walk of checkSignalOverlap and the export that follows it.  For     *)
(* PDUs of any length, with any signals and mappings: what the walk        *)
(* reports is true, and it is silent exactly on the PDUs that the          *)
(* reference calls legal.  The parties of every exported frame are those   *)
(* that the file states, what is not exported is told exactly once, and    *)
(* the bits of an exported signal are those that the validator claimed.    *)
(***************************************************************************)
EXTENDS Export, WellFoundedInduction, FiniteSetTheorems, TLAPS

\* A bit's place on the line that a signal runs along: the numbers for a
\* little-endian signal, the order of transmission for a big-endian one.
Place(m, p) == IF LittleEndian(m) THEN p ELSE Row(p)

--------------------------------------------------------------------------------
(* Bits *)

\* Row numbers the bits of each byte the other way round.
LEMMA RowFacts ==
    ASSUME NEW p \in Nat
    PROVE  /\ Row(p) \in Nat /\ Row(Row(p)) = p
           /\ Row(IF p % 8 = 0 THEN p + 15 ELSE p - 1) = Row(p) + 1
           /\ (IF p % 8 = 0 THEN p + 15 ELSE p - 1) \in Nat
           /\ \A l \in Nat : p < 8 * l <=> Row(p) < 8 * l
<1> DEFINE q == p \div 8
           r == p % 8
<1>1. q \in Nat /\ r \in 0..7 /\ p = 8 * q + r
  OBVIOUS
<1>2. Row(p) = 8 * q + 7 - r
  BY DEF Row
<1> HIDE DEF q, r
<1>3. \A a \in Nat, b \in 0..7 : (8 * a + b) \div 8 = a /\ (8 * a + b) % 8 = b
  OBVIOUS
<1>4. \A a \in Nat, b \in 0..7 : Row(8 * a + b) = 8 * a + 7 - b
  BY <1>3 DEF Row
<1>5. Row(p) \in Nat /\ Row(p) = 8 * q + (7 - r) /\ 7 - r \in 0..7
  BY <1>1, <1>2
<1>6. Row(Row(p)) = p
  BY <1>1, <1>4, <1>5
<1>7. p % 8 = r
  BY DEF r
<1>8. CASE r = 0
  <2>1. p + 15 = 8 * (q + 1) + 7 /\ q + 1 \in Nat
    BY <1>1, <1>8
  <2>2. Row(p + 15) = 8 * (q + 1) + 7 - 7
    BY <1>4, <2>1
  <2> QED
    BY <1>1, <1>2, <1>5, <1>6, <1>7, <1>8, <2>2
<1>9. CASE r # 0
  <2>1. p - 1 = 8 * q + (r - 1) /\ r - 1 \in 0..7 /\ p - 1 \in Nat
    BY <1>1, <1>9
  <2>2. Row(p - 1) = 8 * q + 7 - (r - 1)
    BY <1>1, <1>4, <2>1
  <2> QED
    BY <1>1, <1>2, <1>5, <1>6, <1>7, <1>9, <2>1, <2>2
<1>10. \A l \in Nat : p < 8 * l <=> Row(p) < 8 * l
  BY <1>1, <1>5
<1> QED
  BY <1>5, <1>6, <1>8, <1>9, <1>10

\* NextBit is the next place, and no two bits share one.
LEMMA Places ==
    ASSUME NEW m, NEW p \in Nat
    PROVE  /\ Place(m, p) \in Nat /\ Place(m, Place(m, p)) = p
           /\ NextBit(m, p) \in Nat /\ Place(m, NextBit(m, p)) = Place(m, p) + 1
           /\ \A l \in Nat : p < 8 * l <=> Place(m, p) < 8 * l
<1>1. CASE LittleEndian(m)
  BY <1>1 DEF Place, NextBit
<1>2. CASE ~LittleEndian(m)
  BY <1>2, RowFacts DEF Place, NextBit
<1> QED
  BY <1>1, <1>2

LEMMA Least == ASSUME NEW S, S \subseteq Nat, S # {} PROVE \E x \in S : \A y \in S : x <= y
<1>1. IsWellFoundedOn(OpToRel(<, Nat), Nat)
  BY NatLessThanWellFounded
<1>2. PICK x \in S : \A y \in S : ~ (<<y, x>> \in OpToRel(<, Nat))
  BY <1>1, WFMin
<1>3. ASSUME NEW y \in S PROVE x <= y
  <2>1. ~ (<<y, x>> \in OpToRel(<, Nat))
    BY <1>2
  <2>2. y \in Nat /\ x \in Nat
    OBVIOUS
  <2>3. ~ (y < x)
    BY <2>1, <2>2 DEF OpToRel
  <2> QED
    BY <2>2, <2>3
<1> QED
  BY <1>3

--------------------------------------------------------------------------------
(* Signals *)

LEMMA Lengths ==
    ASSUME pdu \in Input, NEW n, Defined(n)
    PROVE  /\ BitLength(n) \in Nat /\ n \in Names
           /\ Fits => BitLength(n) <= IntMax
<1> DEFINE S == SignalsNamed(n)
           first == CHOOSE i \in S : \A j \in S : i <= j
<1>1. pdu.signals \in Seq(Signal)
  BY DEF Input
<1>2. S # {} /\ S \subseteq Nat /\ S \subseteq DOMAIN pdu.signals
  BY <1>1 DEF Defined, SignalsNamed
<1>3. first \in S
  BY <1>2, Least
<1>4. pdu.signals[first] \in Signal /\ pdu.signals[first].name = n
  <2>1. \A i \in S : i \in DOMAIN pdu.signals /\ pdu.signals[i].name = n
    BY DEF SignalsNamed
  <2> HIDE DEF S, first
  <2> QED
    BY <1>1, <1>3, <2>1
<1>5. n \in Names /\ pdu.signals[first].value \in Nat
  BY <1>4, IntAssumption DEF Signal, Uint32
<1>6. ModelLength(pdu.signals[first]) \in Nat
  BY <1>5 DEF ModelLength
<1>7. Fits => ModelLength(pdu.signals[first]) <= IntMax
  BY <1>2, <1>3 DEF Fits
<1>8. BitLength(n) = ModelLength(pdu.signals[first])
  BY DEF BitLength
<1> QED
  BY <1>5, <1>6, <1>7, <1>8

\* The walk only reads the PDU.
LEMMA SamePdu ==
    ASSUME pdu' = pdu
    PROVE  /\ \A n : Defined(n)' = Defined(n) /\ BitLength(n)' = BitLength(n)
           /\ \A m : HasBits(m)' = HasBits(m)
           /\ \A m, p : Covers(m, p)' = Covers(m, p)
<1>1. \A n : SignalsNamed(n)' = SignalsNamed(n)
  BY DEF SignalsNamed
<1>2. \A n : Defined(n)' = Defined(n)
  BY <1>1 DEF Defined
<1>3. \A n : BitLength(n)' = BitLength(n)
  BY <1>1 DEF BitLength
<1>4. \A m : HasBits(m)' = HasBits(m)
  BY <1>2, <1>3 DEF HasBits
<1>5. \A m, p : Covers(m, p)' = Covers(m, p)
  BY <1>2, <1>3 DEF Covers
<1> QED
  BY <1>2, <1>3, <1>4, <1>5

--------------------------------------------------------------------------------
(* The invariant *)

\* Bit p, if signal n owns it.
Owned(p, n) == p \in DOMAIN occupancy /\ occupancy[p] = n

\* Where the walk is: the next bit lies idx places from the start of a signal
\* that has more than idx bits.
Walking ==
    pc = "bits" =>
        /\ HasBits(mapping) /\ mapping.start <= IntMax
        /\ idx < BitLength(mapping.signal)
        /\ Place(mapping, pos) = Place(mapping, mapping.start) + idx

\* Mappings are looked at only when there is a payload, and to the last one.
Progress ==
    /\ pc = "length" => k = 1 /\ findings = <<>>
    /\ pc \in {"mapping", "bits"} => pduBits # 0
    /\ pc = "done" => k = Len(pdu.mappings) + 1 \/ pduBits = 0 \/ pdu.mappings = <<>>

\* A bit is owned by a signal that covers it.
Owners ==
    \A p \in DOMAIN occupancy : occupancy[p] # None =>
        \E i \in DOMAIN pdu.mappings :
            /\ i < k \/ (i = k /\ pc = "bits")
            /\ pdu.mappings[i].signal = occupancy[p] /\ Covers(pdu.mappings[i], p)

\* What a finding says.
Told(f) ==
    /\ f.code = "can.dlc_mismatch" => ~isValidClassicCanLength(pdu.length) /\ ~isValidCanFdLength(pdu.length)
    /\ f.code # "can.dlc_mismatch" =>
          /\ pduBits # 0 /\ f.mapping \in DOMAIN pdu.mappings /\ f.mapping < k
          /\ Covers(pdu.mappings[f.mapping], f.bit)
    /\ f.code = "can.signal_overlap" =>
          /\ f.bit < pduBits /\ f.owner \notin {None, pdu.mappings[f.mapping].signal}
          /\ \E i \in 1..(f.mapping - 1) :
                pdu.mappings[i].signal = f.owner /\ Covers(pdu.mappings[i], f.bit)
    /\ f.code = "can.signal_out_of_range" => f.bit >= pduBits

Findings == {findings[i] : i \in DOMAIN findings}

FindingsTold ==
    /\ \A f \in Findings : Told(f)
    /\ \A i, j \in DOMAIN findings : i < j =>
          /\ findings[j].code # "can.dlc_mismatch"
          /\ findings[i].code # "can.dlc_mismatch" => findings[i].mapping < findings[j].mapping

\* Silence so far: the length has a DLC, the mappings behind own all their bits,
\* and the mapping under way owns those behind the next one.
Silent ==
    findings = <<>> =>
        /\ pc # "length" => isValidClassicCanLength(pdu.length) \/ isValidCanFdLength(pdu.length)
        /\ \A i \in DOMAIN pdu.mappings : i < k /\ pduBits # 0 /\ HasBits(pdu.mappings[i]) =>
              \A p \in Nat : Covers(pdu.mappings[i], p) => Owned(p, pdu.mappings[i].signal)
        /\ pc = "bits" =>
              \A p \in Nat :
                  Covers(mapping, p) /\ Place(mapping, p) < Place(mapping, mapping.start) + idx
                  => Owned(p, mapping.signal)

IInv == TypeOK /\ Walking /\ Progress /\ Owners /\ FindingsTold /\ Silent

LEMMA Typed ==
    ASSUME TypeOK
    PROVE  /\ k \in Nat /\ pduBits \in Nat /\ pdu.length \in Nat /\ pdu \in Input
           /\ pdu.mappings \in Seq(Mapping) /\ Len(pdu.mappings) \in Nat
           /\ DOMAIN pdu.mappings = 1..Len(pdu.mappings)
           /\ \A i \in DOMAIN pdu.mappings : pdu.mappings[i] \in Mapping /\ pdu.mappings[i].start \in Nat
           /\ DOMAIN occupancy = 0..(pduBits - 1)
           /\ findings \in Seq(Finding) /\ Len(findings) \in Nat
           /\ DOMAIN findings = 1..Len(findings)
<1>1. pdu.length \in Nat /\ pdu.mappings \in Seq(Mapping)
  BY IntAssumption DEF TypeOK, Input, Uint32
<1>2. \A i \in DOMAIN pdu.mappings : pdu.mappings[i] \in Mapping
  BY <1>1
<1>3. \A m \in Mapping : m.start \in Nat
  BY IntAssumption DEF Mapping, Uint32
<1> QED
  BY <1>1, <1>2, <1>3 DEF TypeOK, pduBits

\* The end of a mapping.
LEMMA Advanced ==
    ASSUME TypeOK, pc \in {"mapping", "bits"}, pduBits # 0, NextMapping
    PROVE  /\ k' = k + 1 /\ pdu' = pdu /\ pc' \in {"mapping", "done"} /\ k \in DOMAIN pdu.mappings
           /\ k' \in 1..(Len(pdu'.mappings) + 1)
           /\ pc' \in {"mapping", "bits"} => k' \in DOMAIN pdu'.mappings
           /\ idx' \in Nat /\ pos' \in Nat
           /\ Progress' /\ Walking'
<1> USE Typed
<1>1. k' = k + 1 /\ pdu' = pdu /\ pc' \in {"mapping", "done"} /\ k \in DOMAIN pdu.mappings
  BY DEF NextMapping, TypeOK
<1>2. pc' = "done" <=> k = Len(pdu.mappings)
  BY DEF NextMapping
<1>3. pduBits' = pduBits
  BY <1>1 DEF pduBits
<1>4. Progress'
  BY <1>1, <1>2, <1>3 DEF Progress
<1> QED
  BY <1>1, <1>2, <1>4 DEF NextMapping, TypeOK, Walking

\* What has been told stays true as the walk goes on.
LEMMA StillTold ==
    ASSUME TypeOK, pdu' = pdu, k' \in Nat, k <= k', NEW f, Told(f)
    PROVE  Told(f)'
<1>1. pduBits' = pduBits
  BY DEF pduBits
<1>2. \A m, p : Covers(m, p)' = Covers(m, p)
  BY SamePdu
<1>3. f.mapping \in DOMAIN pdu.mappings /\ f.mapping < k => f.mapping < k'
  BY Typed
<1> QED
  BY <1>1, <1>2, <1>3 DEF Told

LEMMA KeepTold ==
    ASSUME TypeOK, FindingsTold, pdu' = pdu, findings' = findings, k' \in Nat, k <= k'
    PROVE  FindingsTold'
<1>1. Findings' = Findings
  BY DEF Findings
<1>2. \A f \in Findings' : Told(f)'
  BY <1>1, StillTold DEF FindingsTold
<1> QED
  BY <1>2 DEF FindingsTold

\* One more finding, about the mapping under way.
LEMMA AlsoTold ==
    ASSUME TypeOK, FindingsTold, pdu' = pdu, k' = k + 1, NEW f \in Finding,
           findings' = Append(findings, f),
           f.code # "can.dlc_mismatch", f.mapping = k, Told(f)'
    PROVE  FindingsTold' /\ findings' \in Seq(Finding) /\ findings' # <<>>
<1> USE Typed
<1>1. /\ findings' \in Seq(Finding) /\ DOMAIN findings' = 1..(Len(findings) + 1)
      /\ \A i \in DOMAIN findings : findings'[i] = findings[i] /\ i <= Len(findings)
      /\ findings'[Len(findings) + 1] = f
      /\ \A i \in DOMAIN findings' : i \in DOMAIN findings \/ i = Len(findings) + 1
  OBVIOUS
<1>2. Findings' = Findings \cup {f}
  <2>1. Findings' \subseteq Findings \cup {f}
    BY <1>1 DEF Findings
  <2>2. \A i \in DOMAIN findings : findings[i] \in Findings'
    <3>1. \A i \in DOMAIN findings : i \in DOMAIN findings'
      BY <1>1
    <3> QED
      BY <1>1, <3>1 DEF Findings
  <2>3. f \in Findings'
    BY <1>1 DEF Findings
  <2> QED
    BY <2>1, <2>2, <2>3 DEF Findings
<1>3. \A g \in Findings' : Told(g)'
  BY <1>2, StillTold DEF FindingsTold
<1>4. \A i \in DOMAIN findings : findings[i].code # "can.dlc_mismatch" => findings[i].mapping < k
  BY DEF FindingsTold, Findings, Told
<1>5. ASSUME NEW i \in DOMAIN findings', NEW j \in DOMAIN findings', i < j
      PROVE  /\ findings'[j].code # "can.dlc_mismatch"
             /\ findings'[i].code # "can.dlc_mismatch" => findings'[i].mapping < findings'[j].mapping
  <2>1. i \in DOMAIN findings
    BY <1>1, <1>5
  <2>2. CASE j \in DOMAIN findings
    BY <1>1, <1>5, <2>1, <2>2 DEF FindingsTold
  <2>3. CASE j = Len(findings) + 1
    BY <1>1, <1>4, <2>1, <2>3
  <2> QED
    BY <1>1, <2>2, <2>3
<1>6. FindingsTold'
  BY <1>3, <1>5 DEF FindingsTold
<1> QED
  BY <1>1, <1>6

LEMMA LengthKeeps == ASSUME IInv, CheckPayloadLength PROVE IInv'
<1> USE Typed
<1> DEFINE valid == isValidClassicCanLength(pdu.length) \/ isValidCanFdLength(pdu.length)
           f == [code |-> "can.dlc_mismatch", mapping |-> k, bit |-> 0,
                 owner |-> IF 0 \in DOMAIN occupancy THEN occupancy[0] ELSE None]
<1>0. TypeOK /\ pc = "length" /\ k = 1 /\ findings = <<>>
  BY DEF IInv, CheckPayloadLength, Progress
<1>1. /\ UNCHANGED <<pdu, k, idx, pos, occupancy>>
      /\ pc' = IF pduBits = 0 \/ pdu.mappings = <<>> THEN "done" ELSE "mapping"
      /\ (valid /\ findings' = <<>>) \/ (~valid /\ findings' = <<f>>)
  BY <1>0 DEF CheckPayloadLength, Report
<1>2. f \in Finding
  BY <1>0 DEF Finding, TypeOK
<1>3. pduBits' = pduBits
  BY <1>1 DEF pduBits
<1>4. TypeOK'
  <2>1. findings' \in Seq(Finding)
    <3> HIDE DEF f, valid
    <3>1. <<f>> \in Seq(Finding) /\ <<>> \in Seq(Finding)
      BY <1>2
    <3> QED
      BY <1>1, <3>1
  <2>2. pc' = "mapping" => k \in DOMAIN pdu.mappings
    BY <1>0, <1>1
  <2> QED
    BY <1>0, <1>1, <1>3, <2>1, <2>2 DEF TypeOK
<1>5. Walking' /\ Progress'
  BY <1>1, <1>3 DEF Walking, Progress
<1>6. Owners'
  BY <1>0, <1>1, SamePdu DEF IInv, Owners
<1>7. FindingsTold'
  <2>1. CASE findings' = <<>>
    <3>1. DOMAIN findings' = {}
      BY <2>1
    <3>2. Findings' = {}
      BY <3>1 DEF Findings
    <3> QED
      BY <3>1, <3>2 DEF FindingsTold
  <2>2. CASE ~valid /\ findings' = <<f>>
    <3>1. f.code = "can.dlc_mismatch"
      OBVIOUS
    <3> HIDE DEF f
    <3>2. DOMAIN findings' = {1} /\ findings'[1] = f
      BY <2>2
    <3>3. \A g \in Findings' : g.code = "can.dlc_mismatch"
      BY <3>1, <3>2 DEF Findings
    <3>4. \A g \in Findings' : Told(g)'
      BY <1>1, <2>2, <3>3 DEF Told
    <3> QED
      BY <3>2, <3>4 DEF FindingsTold
  <2> QED
    BY <1>1, <2>1, <2>2
<1>8. Silent'
  <2>1. CASE findings' = <<>>
    <3>1. valid
      BY <1>1, <2>1
    <3>2. pc' # "bits" /\ \A i \in DOMAIN pdu.mappings : ~(i < k)
      BY <1>0, <1>1
    <3> QED
      BY <1>1, <3>1, <3>2 DEF Silent
  <2>2. CASE findings' # <<>>
    BY <2>2 DEF Silent
  <2> QED
    BY <2>1, <2>2
<1> QED
  BY <1>4, <1>5, <1>6, <1>7, <1>8 DEF IInv

LEMMA SkipKeeps == ASSUME IInv, SkipMapping PROVE IInv'
<1> USE Typed
<1>0. TypeOK /\ pc = "mapping" /\ pduBits # 0
  BY DEF IInv, SkipMapping, Progress
<1>1. ~HasBits(mapping) /\ NextMapping /\ UNCHANGED <<pdu, occupancy, findings>>
  BY DEF SkipMapping, NextMapping
<1>2. /\ k' = k + 1 /\ pc' \in {"mapping", "done"} /\ k \in DOMAIN pdu.mappings
      /\ k' \in 1..(Len(pdu'.mappings) + 1)
      /\ pc' \in {"mapping", "bits"} => k' \in DOMAIN pdu'.mappings
      /\ idx' \in Nat /\ pos' \in Nat
      /\ Progress' /\ Walking'
  BY <1>0, <1>1, Advanced
<1>3. TypeOK'
  BY <1>0, <1>1, <1>2 DEF TypeOK, pduBits
<1>4. Owners'
  BY <1>0, <1>1, <1>2, SamePdu DEF IInv, Owners
<1>5. FindingsTold'
  BY <1>0, <1>1, <1>2, KeepTold DEF IInv
<1>6. Silent'
  <2>1. SUFFICES ASSUME findings = <<>>, NEW i \in DOMAIN pdu.mappings, i < k + 1,
                        HasBits(pdu.mappings[i]), NEW p \in Nat, Covers(pdu.mappings[i], p)
                 PROVE  Owned(p, pdu.mappings[i].signal)
    <3>1. findings = <<>> =>
              isValidClassicCanLength(pdu.length) \/ isValidCanFdLength(pdu.length)
      BY <1>0 DEF IInv, Silent
    <3> QED
      BY <1>1, <1>2, <3>1, SamePdu DEF Silent, Owned
  <2>2. i < k
    BY <1>0, <1>1, <2>1 DEF mapping
  <2> QED
    BY <1>0, <2>1, <2>2 DEF IInv, Silent
<1> QED
  BY <1>2, <1>3, <1>4, <1>5, <1>6 DEF IInv

LEMMA BeginKeeps == ASSUME IInv, BeginSignal PROVE IInv'
<1> USE Typed
<1>0. TypeOK /\ pc = "mapping" /\ pduBits # 0 /\ k \in DOMAIN pdu.mappings
  BY DEF IInv, BeginSignal, Progress, TypeOK
<1>1. /\ HasBits(mapping) /\ idx' = 0 /\ pos' = AsInt(mapping.start) /\ pc' = "bits"
      /\ UNCHANGED <<pdu, k, occupancy, findings>>
  BY DEF BeginSignal
<1>2. mapping \in Mapping /\ mapping.start \in Uint32
  BY <1>0 DEF mapping, Mapping
<1>3. mapping.start <= IntMax /\ pos' = mapping.start /\ pos' \in Nat
  BY <1>1, <1>2, IntAssumption DEF HasBits, AsInt, Uint32
<1>4. mapping' = mapping /\ pduBits' = pduBits
  BY <1>1 DEF mapping, pduBits
<1>5. TypeOK'
  BY <1>0, <1>1, <1>3, <1>4 DEF TypeOK
<1>6. BitLength(mapping.signal) \in Nat /\ BitLength(mapping.signal) # 0
  BY <1>0, <1>1, Lengths DEF HasBits
<1>7. Place(mapping, mapping.start) \in Nat
  BY <1>3, Places
<1>8. Walking'
  BY <1>1, <1>3, <1>4, <1>6, <1>7, SamePdu DEF Walking
<1>9. Progress'
  BY <1>0, <1>1, <1>4 DEF Progress
<1>10. Owners'
  BY <1>0, <1>1, SamePdu DEF IInv, Owners
<1>11. FindingsTold'
  BY <1>0, <1>1, KeepTold DEF IInv
<1>12. Silent'
  <2>1. \A p \in Nat : Covers(mapping, p) => Place(mapping, p) >= Place(mapping, mapping.start)
    BY DEF Covers, Place
  <2>2. \A p \in Nat : ~(Covers(mapping, p) /\ Place(mapping, p) < Place(mapping, mapping.start) + 0)
    BY <1>7, <2>1, Places
  <2> QED
    BY <1>0, <1>1, <1>4, <2>2, SamePdu DEF IInv, Silent, Owned
<1> QED
  BY <1>5, <1>8, <1>9, <1>10, <1>11, <1>12 DEF IInv

\* A signal covers a run of places.
LEMMA Run ==
    ASSUME NEW m, NEW p
    PROVE  Covers(m, p) <=>
              /\ Defined(m.signal)
              /\ Place(m, m.start) <= Place(m, p)
              /\ Place(m, p) < Place(m, m.start) + BitLength(m.signal)
BY DEF Covers, Place

\* The walk visits bits of the signal only.
LEMMA Here ==
    ASSUME IInv, pc = "bits"
    PROVE  /\ mapping \in Mapping /\ mapping.start \in Nat /\ pos \in Nat /\ idx \in Nat
           /\ mapping = pdu.mappings[k] /\ k \in DOMAIN pdu.mappings
           /\ Place(mapping, mapping.start) \in Nat /\ Place(mapping, pos) \in Nat
           /\ BitLength(mapping.signal) \in Nat /\ mapping.signal \in Names
           /\ Covers(mapping, pos)
<1>1. /\ mapping \in Mapping /\ mapping.start \in Nat /\ pos \in Nat /\ idx \in Nat
      /\ mapping = pdu.mappings[k] /\ k \in DOMAIN pdu.mappings
  BY Typed DEF IInv, TypeOK, mapping
<1>2. Place(mapping, mapping.start) \in Nat /\ Place(mapping, pos) \in Nat
  BY <1>1, Places
<1>3. Defined(mapping.signal) /\ pdu \in Input
  BY DEF IInv, Walking, HasBits, TypeOK
<1>4. BitLength(mapping.signal) \in Nat /\ mapping.signal \in Names
  BY <1>3, Lengths
<1>5. Covers(mapping, pos)
  BY <1>1, <1>2, <1>3, <1>4, Run DEF IInv, Walking
<1> QED
  BY <1>1, <1>2, <1>4, <1>5

\* A report ends the mapping; it is true when it says something true of the bit.
LEMMA ReportKeeps ==
    ASSUME IInv, pc = "bits", NextMapping, UNCHANGED occupancy,
           NEW f \in Finding, findings' = Append(findings, f),
           f.mapping = k, f.bit = pos,
           \/ f.code = "can.signal_out_of_range" /\ pos \notin DOMAIN occupancy
           \/ /\ f.code = "can.signal_overlap" /\ pos \in DOMAIN occupancy
              /\ f.owner = occupancy[pos] /\ f.owner \notin {None, mapping.signal}
    PROVE  IInv'
<1> USE Typed, Here
<1>0. TypeOK /\ pduBits # 0
  BY DEF IInv, Progress
<1>1. /\ k' = k + 1 /\ pdu' = pdu /\ pc' \in {"mapping", "done"} /\ k \in DOMAIN pdu.mappings
      /\ k' \in 1..(Len(pdu'.mappings) + 1)
      /\ pc' \in {"mapping", "bits"} => k' \in DOMAIN pdu'.mappings
      /\ idx' \in Nat /\ pos' \in Nat
      /\ Progress' /\ Walking'
  BY <1>0, Advanced
<1>2. pduBits' = pduBits
  BY <1>1 DEF pduBits
<1>3. Covers(mapping, pos) /\ mapping = pdu.mappings[k]
  OBVIOUS
<1>4. f.code = "can.signal_overlap" =>
         \E i \in 1..(f.mapping - 1) :
            pdu.mappings[i].signal = f.owner /\ Covers(pdu.mappings[i], pos)
  <2>1. SUFFICES ASSUME f.code = "can.signal_overlap"
                 PROVE  \E i \in 1..(k - 1) :
                           pdu.mappings[i].signal = f.owner /\ Covers(pdu.mappings[i], pos)
    OBVIOUS
  <2>2. pos \in DOMAIN occupancy /\ occupancy[pos] # None
    BY <2>1
  <2>3. PICK i \in DOMAIN pdu.mappings :
               /\ i < k \/ i = k
               /\ pdu.mappings[i].signal = occupancy[pos] /\ Covers(pdu.mappings[i], pos)
    BY <2>2 DEF IInv, Owners
  <2>4. i # k
    BY <1>3, <2>1, <2>3
  <2>5. i \in 1..(k - 1)
    BY <1>0, <2>3, <2>4
  <2> QED
    BY <2>1, <2>3, <2>5
<1>5. f.code = "can.signal_overlap" => f.bit < pduBits
  BY <1>0
<1>6. f.code = "can.signal_out_of_range" => f.bit >= pduBits
  BY <1>0
<1>7. \A m, p : Covers(m, p)' = Covers(m, p)
  BY <1>1, SamePdu
<1>8. Told(f)'
  <2>1. f.code # "can.dlc_mismatch"
    OBVIOUS
  <2>2. f.mapping \in DOMAIN pdu.mappings /\ f.mapping < k'
    BY <1>0, <1>1
  <2>3. Covers(pdu.mappings[f.mapping], f.bit)
    BY <1>3
  <2>4. f.code = "can.signal_overlap" => f.owner \notin {None, pdu.mappings[f.mapping].signal}
    BY <1>3
  <2>5. f.code = "can.signal_overlap" =>
         \E i \in 1..(f.mapping - 1) :
            pdu.mappings[i].signal = f.owner /\ Covers(pdu.mappings[i], f.bit)
    BY <1>4
  <2> QED
    BY ONLY <1>0, <1>1, <1>2, <1>5, <1>6, <1>7, <2>1, <2>2, <2>3, <2>4, <2>5 DEF Told
<1>9. FindingsTold' /\ findings' \in Seq(Finding) /\ findings' # <<>>
  BY <1>0, <1>1, <1>8, AlsoTold DEF IInv
<1>10. TypeOK'
  BY <1>0, <1>1, <1>2, <1>9 DEF TypeOK
<1>11. Owners'
  <2>1. SUFFICES ASSUME NEW p \in DOMAIN occupancy, occupancy[p] # None
                 PROVE  \E i \in DOMAIN pdu.mappings :
                           /\ i < k + 1
                           /\ pdu.mappings[i].signal = occupancy[p] /\ Covers(pdu.mappings[i], p)
    BY <1>1, <1>7 DEF Owners
  <2>2. PICK i \in DOMAIN pdu.mappings :
               /\ i < k \/ i = k
               /\ pdu.mappings[i].signal = occupancy[p] /\ Covers(pdu.mappings[i], p)
    BY <2>1 DEF IInv, Owners
  <2>3. i < k + 1
    BY <1>0, <2>2
  <2> QED
    BY <2>2, <2>3
<1>12. Silent'
  BY <1>9 DEF Silent
<1> QED
  BY <1>1, <1>9, <1>10, <1>11, <1>12 DEF IInv

LEMMA OutOfRangeKeeps == ASSUME IInv, OutOfRange PROVE IInv'
<1> DEFINE f == [code |-> "can.signal_out_of_range", mapping |-> k, bit |-> pos,
                 owner |-> IF pos \in DOMAIN occupancy THEN occupancy[pos] ELSE None]
<1>1. pc = "bits" /\ pos \notin DOMAIN occupancy /\ NextMapping /\ UNCHANGED occupancy
  BY DEF OutOfRange, InRange
<1>2. findings' = Append(findings, f)
  BY DEF OutOfRange, Report
<1>3. f \in Finding
  BY <1>1, Here, Typed DEF Finding, IInv
<1>4. f.code = "can.signal_out_of_range" /\ f.mapping = k /\ f.bit = pos
  OBVIOUS
<1> HIDE DEF f
<1> QED
  BY <1>1, <1>2, <1>3, <1>4, ReportKeeps

LEMMA CollisionKeeps == ASSUME IInv, Collision PROVE IInv'
<1> DEFINE f == [code |-> "can.signal_overlap", mapping |-> k, bit |-> pos,
                 owner |-> IF pos \in DOMAIN occupancy THEN occupancy[pos] ELSE None]
<1>1. /\ pc = "bits" /\ pos \in DOMAIN occupancy /\ occupancy[pos] \notin {None, mapping.signal}
      /\ NextMapping /\ UNCHANGED occupancy
  BY DEF Collision, Taken, InRange
<1>2. findings' = Append(findings, f)
  BY DEF Collision, Report
<1>3. occupancy[pos] \in Names \cup {None}
  BY <1>1 DEF IInv, TypeOK
<1>4. f \in Finding
  BY <1>1, <1>3, Here, Typed DEF Finding, IInv
<1>5. f.code = "can.signal_overlap" /\ f.mapping = k /\ f.bit = pos /\ f.owner = occupancy[pos]
  BY <1>1
<1> HIDE DEF f
<1> QED
  BY <1>1, <1>2, <1>4, <1>5, ReportKeeps

LEMMA ClaimKeeps == ASSUME IInv, ClaimBit PROVE IInv'
<1> DEFINE n == mapping.signal
           last == ~(idx + 1 < BitLength(n))
<1>0. TypeOK /\ pc = "bits" /\ pduBits # 0
  BY DEF IInv, ClaimBit, Progress
<1>1. /\ pos \in DOMAIN occupancy /\ occupancy[pos] \in {None, n}
      /\ occupancy' = [occupancy EXCEPT ![pos] = n]
      /\ findings' = findings
  BY DEF ClaimBit, InRange, Taken
<1>2. \/ last /\ NextMapping
      \/ ~last /\ idx' = idx + 1 /\ pos' = NextBit(mapping, pos) /\ UNCHANGED <<pdu, pc, k>>
  BY DEF ClaimBit
<1>3. /\ n \in Names /\ n # None /\ pos \in Nat /\ idx \in Nat /\ Covers(mapping, pos)
      /\ mapping = pdu.mappings[k] /\ k \in DOMAIN pdu.mappings /\ k \in Nat
      /\ Place(mapping, mapping.start) \in Nat /\ BitLength(n) \in Nat
      /\ DOMAIN pdu.mappings \subseteq Nat
  BY <1>0, Here, Typed, NameAssumption
<1>4. /\ idx < BitLength(n) /\ mapping.start <= IntMax /\ HasBits(mapping)
      /\ Place(mapping, pos) = Place(mapping, mapping.start) + idx
  BY <1>0 DEF IInv, Walking
<1>5. /\ DOMAIN occupancy' = DOMAIN occupancy /\ occupancy'[pos] = n
      /\ \A p \in DOMAIN occupancy : p # pos => occupancy'[p] = occupancy[p]
      /\ occupancy' \in [0..(pduBits - 1) -> Names \cup {None}]
  BY <1>0, <1>1, <1>3 DEF TypeOK
<1>6. pdu' = pdu /\ pduBits' = pduBits
  BY <1>2 DEF NextMapping, pduBits
<1>7. \A p, o : o # None /\ Owned(p, o) => p \in DOMAIN occupancy' /\ occupancy'[p] = o
  BY <1>1, <1>5 DEF Owned
<1>8. \A p \in Nat : Covers(mapping, p) /\ Place(mapping, p) < Place(mapping, mapping.start) + idx + 1
                     /\ findings = <<>>
                     => p \in DOMAIN occupancy' /\ occupancy'[p] = n
  <2>1. SUFFICES ASSUME NEW p \in Nat, Covers(mapping, p), findings = <<>>,
                        Place(mapping, p) < Place(mapping, mapping.start) + idx + 1
                 PROVE  p \in DOMAIN occupancy' /\ occupancy'[p] = n
    OBVIOUS
  <2>2. Place(mapping, p) \in Nat
    BY Places
  <2>3. CASE Place(mapping, p) = Place(mapping, pos)
    <3>1. Place(mapping, Place(mapping, p)) = p /\ Place(mapping, Place(mapping, pos)) = pos
      BY <1>3, Places
    <3>2. p = pos
      BY <2>3, <3>1
    <3> QED
      BY <1>1, <1>5, <3>2
  <2>4. CASE Place(mapping, p) # Place(mapping, pos)
    <3>1. Place(mapping, p) < Place(mapping, mapping.start) + idx
      BY <1>3, <1>4, <2>1, <2>2, <2>4
    <3>2. Owned(p, n)
      BY <1>0, <2>1, <3>1 DEF IInv, Silent
    <3> QED
      BY <1>3, <1>7, <3>2
  <2> QED
    BY <2>3, <2>4
<1>9. \A i \in DOMAIN pdu.mappings, p \in Nat :
         findings = <<>> /\ i < k /\ HasBits(pdu.mappings[i]) /\ Covers(pdu.mappings[i], p) =>
         p \in DOMAIN occupancy' /\ occupancy'[p] = pdu.mappings[i].signal
  <2>1. SUFFICES ASSUME NEW i \in DOMAIN pdu.mappings, NEW p \in Nat, findings = <<>>, i < k,
                        HasBits(pdu.mappings[i]), Covers(pdu.mappings[i], p)
                 PROVE  p \in DOMAIN occupancy' /\ occupancy'[p] = pdu.mappings[i].signal
    OBVIOUS
  <2>2. Owned(p, pdu.mappings[i].signal)
    BY <1>0, <2>1 DEF IInv, Silent
  <2>3. pdu.mappings[i].signal \in Names
    BY <1>0, <2>1, Lengths DEF HasBits, TypeOK
  <2> QED
    BY <1>7, <2>2, <2>3, NameAssumption
<1>10. findings = <<>> => isValidClassicCanLength(pdu.length) \/ isValidCanFdLength(pdu.length)
  BY <1>0 DEF IInv, Silent
<1>11. \A p \in DOMAIN occupancy' : occupancy'[p] # None =>
          \E i \in DOMAIN pdu.mappings :
             i <= k /\ pdu.mappings[i].signal = occupancy'[p] /\ Covers(pdu.mappings[i], p)
  <2>1. SUFFICES ASSUME NEW p \in DOMAIN occupancy, occupancy'[p] # None
                 PROVE  \E i \in DOMAIN pdu.mappings :
                           i <= k /\ pdu.mappings[i].signal = occupancy'[p] /\ Covers(pdu.mappings[i], p)
    BY <1>5
  <2>2. CASE p = pos
    BY <1>3, <1>5, <2>2
  <2>3. CASE p # pos
    <3>1. occupancy'[p] = occupancy[p]
      BY <1>5, <2>3
    <3>2. PICK i \in DOMAIN pdu.mappings :
             /\ i < k \/ i = k
             /\ pdu.mappings[i].signal = occupancy[p] /\ Covers(pdu.mappings[i], p)
      BY <2>1, <3>1 DEF IInv, Owners
    <3> QED
      BY <1>3, <3>1, <3>2
  <2> QED
    BY <2>2, <2>3
<1>12. CASE last /\ NextMapping
  <2>1. /\ k' = k + 1 /\ pc' \in {"mapping", "done"}
        /\ k' \in 1..(Len(pdu'.mappings) + 1)
        /\ pc' \in {"mapping", "bits"} => k' \in DOMAIN pdu'.mappings
        /\ idx' \in Nat /\ pos' \in Nat
        /\ Progress' /\ Walking'
    BY <1>0, <1>12, Advanced
  <2>2. TypeOK'
    BY <1>0, <1>1, <1>5, <1>6, <2>1 DEF TypeOK
  <2>3. Owners'
    <3>1. \A i \in DOMAIN pdu.mappings : i <= k => i < k'
      BY <1>3, <2>1
    <3> QED
      BY <1>6, <1>11, <3>1, SamePdu DEF Owners
  <2>4. FindingsTold'
    BY <1>0, <1>1, <1>3, <1>6, <2>1, KeepTold DEF IInv
  <2>5. Silent'
    <3>1. idx + 1 = BitLength(n)
      BY <1>3, <1>4, <1>12
    <3>2. \A p \in Nat : Covers(mapping, p) => Place(mapping, p) < Place(mapping, mapping.start) + idx + 1
      BY <1>3, <3>1, Run
    <3>3. \A i \in DOMAIN pdu.mappings : i < k' => i < k \/ i = k
      BY <1>3, <2>1
    <3>4. SUFFICES ASSUME findings = <<>>, NEW i \in DOMAIN pdu.mappings, i < k',
                          HasBits(pdu.mappings[i]), NEW p \in Nat, Covers(pdu.mappings[i], p)
                   PROVE  p \in DOMAIN occupancy' /\ occupancy'[p] = pdu.mappings[i].signal
      BY <1>1, <1>6, <1>10, <2>1, SamePdu DEF Silent, Owned
    <3>5. CASE i < k
      BY <1>9, <3>4, <3>5
    <3>6. CASE i = k
      BY <1>3, <1>8, <3>2, <3>4, <3>6
    <3> QED
      BY <3>3, <3>4, <3>5, <3>6
  <2> QED
    BY <2>1, <2>2, <2>3, <2>4, <2>5 DEF IInv
<1>13. CASE ~last /\ idx' = idx + 1 /\ pos' = NextBit(mapping, pos) /\ UNCHANGED <<pdu, pc, k>>
  <2>1. mapping' = mapping
    BY <1>13 DEF mapping
  <2>2. pos' \in Nat /\ Place(mapping, pos') = Place(mapping, mapping.start) + idx'
    BY <1>3, <1>4, <1>13, Places
  <2>3. TypeOK'
    BY <1>0, <1>1, <1>3, <1>5, <1>6, <1>13, <2>2 DEF TypeOK
  <2>4. Walking'
    BY <1>4, <1>6, <1>13, <2>1, <2>2, SamePdu DEF Walking
  <2>5. Progress'
    BY <1>0, <1>6, <1>13 DEF Progress
  <2>6. Owners'
    <3>1. \A i \in DOMAIN pdu.mappings : i <= k => i < k \/ i = k
      BY <1>3
    <3> QED
      BY <1>0, <1>6, <1>11, <1>13, <3>1, SamePdu DEF Owners
  <2>7. FindingsTold'
    BY <1>0, <1>1, <1>3, <1>6, <1>13, KeepTold DEF IInv
  <2>8. Silent'
    <3>1. Place(mapping, mapping.start) + idx' = Place(mapping, mapping.start) + idx + 1
      BY <1>3, <1>13
    <3> QED
      BY <1>0, <1>1, <1>6, <1>8, <1>9, <1>10, <1>13, <2>1, <3>1, SamePdu DEF Silent, Owned
  <2> QED
    BY <2>3, <2>4, <2>5, <2>6, <2>7, <2>8 DEF IInv
<1> QED
  BY <1>2, <1>12, <1>13

LEMMA InitInv == Init => IInv
<1> SUFFICES ASSUME Init PROVE IInv
  OBVIOUS
<1>1. pdu \in Input /\ pc = "length" /\ k = 1 /\ idx = 0 /\ pos = 0 /\ findings = <<>>
  BY InputAssumption DEF Init
<1>2. pdu.mappings \in Seq(Mapping)
  BY <1>1 DEF Input
<1>3. k \in 1..(Len(pdu.mappings) + 1)
  BY <1>1, <1>2
<1>4. TypeOK
  <2>1. findings \in Seq(Finding)
    BY <1>1
  <2>2. occupancy \in [0..(pduBits - 1) -> Names \cup {None}]
    BY DEF Init
  <2> QED
    BY <1>1, <1>3, <2>1, <2>2 DEF TypeOK
<1>5. Walking /\ Progress
  BY <1>1 DEF Walking, Progress
<1>6. Owners
  BY DEF Init, Owners
<1>7. FindingsTold
  <2>1. DOMAIN findings = {}
    BY <1>1
  <2>2. Findings = {}
    BY <2>1 DEF Findings
  <2> QED
    BY <2>1, <2>2 DEF FindingsTold
<1>8. Silent
  BY <1>1, <1>2 DEF Silent
<1> QED
  BY <1>4, <1>5, <1>6, <1>7, <1>8 DEF IInv

LEMMA StutterKeeps == ASSUME IInv, UNCHANGED vars PROVE IInv'
<1>1. UNCHANGED <<pdu, pc, k, idx, pos, occupancy, findings>>
  BY DEF vars
<1>2. pduBits' = pduBits /\ mapping' = mapping
  BY <1>1 DEF pduBits, mapping
<1>3. TypeOK' /\ Progress'
  BY <1>1, <1>2 DEF IInv, TypeOK, Progress
<1>4. Walking' /\ Owners' /\ Silent'
  BY <1>1, <1>2, SamePdu DEF IInv, Walking, Owners, Silent, Owned
<1>5. FindingsTold'
  BY <1>1, KeepTold, Typed DEF IInv
<1> QED
  BY <1>3, <1>4, <1>5 DEF IInv

LEMMA Always == Spec => []IInv
<1>1. IInv /\ [Next]_vars => IInv'
  BY LengthKeeps, SkipKeeps, BeginKeeps, ClaimKeeps, OutOfRangeKeeps, CollisionKeeps, StutterKeeps
     DEF Next
<1> QED
  BY InitInv, <1>1, PTL DEF Spec

--------------------------------------------------------------------------------
(* The verdict *)

\* The two length checks together are the table of the DLCs.
LEMMA Table ==
    ASSUME NEW l \in Nat
    PROVE  (\E dlc \in DOMAIN canFdBytesForDlc : canFdBytesForDlc[dlc] = l)
           <=> isValidClassicCanLength(l) \/ isValidCanFdLength(l)
<1> DEFINE T == canFdBytesForDlc
<1>1. DOMAIN T = 1..16
  BY DEF canFdBytesForDlc
<1>2. /\ T[1] = 0 /\ T[2] = 1 /\ T[3] = 2 /\ T[4] = 3 /\ T[5] = 4 /\ T[6] = 5 /\ T[7] = 6 /\ T[8] = 7
      /\ T[9] = 8 /\ T[10] = 12 /\ T[11] = 16 /\ T[12] = 20 /\ T[13] = 24 /\ T[14] = 32
      /\ T[15] = 48 /\ T[16] = 64
  BY DEF canFdBytesForDlc
<1> HIDE DEF T
<1>3. \A d \in 1..16 : T[d] \in 0..8 \cup {12, 16, 20, 24, 32, 48, 64}
  BY <1>2
<1>4. \A n \in 0..8 : n + 1 \in 1..16 /\ T[n + 1] = n
  BY <1>2
<1>5. l \in {12, 16, 20, 24, 32, 48, 64} => \E d \in 1..16 : T[d] = l
  BY <1>2
<1>6. isValidClassicCanLength(l) \/ isValidCanFdLength(l) <=> l \in 0..8 \cup {12, 16, 20, 24, 32, 48, 64}
  BY DEF isValidClassicCanLength, isValidCanFdLength
<1>7. (\E d \in 1..16 : T[d] = l) <=> l \in 0..8 \cup {12, 16, 20, 24, 32, 48, 64}
  BY <1>3, <1>4, <1>5
<1> QED
  BY <1>1, <1>6, <1>7 DEF T

\* A finding rules out that the PDU is legal.
LEMMA FoundNotLegal == ASSUME IInv, findings # <<>> PROVE ~Legal
<1> USE Typed
<1>1. TypeOK
  BY DEF IInv
<1>2. 1 \in DOMAIN findings
  BY <1>1
<1>3. PICK f \in Findings : Told(f) /\ f \in Finding
  BY <1>1, <1>2 DEF IInv, FindingsTold, Findings
<1>4. CASE f.code = "can.dlc_mismatch"
  BY <1>1, <1>3, <1>4, Table DEF Told, Legal
<1>5. CASE f.code = "can.signal_overlap"
  <2> DEFINE m == pdu.mappings[f.mapping]
  <2>1. PICK i \in 1..(f.mapping - 1) :
               pdu.mappings[i].signal = f.owner /\ Covers(pdu.mappings[i], f.bit)
    BY <1>3, <1>5 DEF Told
  <2>2. /\ f.mapping \in DOMAIN pdu.mappings /\ Covers(m, f.bit) /\ f.owner # m.signal
        /\ pduBits # 0 /\ f.bit < pduBits
    BY <1>3, <1>5 DEF Told
  <2>3. f.bit \in 0..(pduBits - 1) /\ i \in DOMAIN pdu.mappings
    BY <1>1, <1>3, <2>2 DEF Finding
  <2>4. Overlap(i, f.mapping)
    BY <2>1, <2>2, <2>3 DEF Overlap
  <2> QED
    BY <2>2, <2>3, <2>4 DEF Legal
<1>6. CASE f.code = "can.signal_out_of_range"
  <2> DEFINE m == pdu.mappings[f.mapping]
  <2>1. /\ f.mapping \in DOMAIN pdu.mappings /\ Covers(m, f.bit) /\ pduBits # 0
        /\ f.bit >= pduBits /\ f.bit \in Nat
    BY <1>3, <1>6 DEF Told, Finding
  <2>2. m.start \in Nat /\ pduBits = 8 * pdu.length
    BY <1>1, <2>1 DEF pduBits
  <2> HIDE DEF m
  <2>3. Place(m, f.bit) \in Nat /\ Place(m, m.start) \in Nat
    BY <2>1, <2>2, Places
  <2>4. ~(Place(m, f.bit) < pduBits)
    <3>1. f.bit < 8 * pdu.length <=> Place(m, f.bit) < 8 * pdu.length
      BY <1>1, <2>1, Places
    <3> QED
      BY <1>1, <2>1, <2>2, <3>1
  <2>5. /\ Defined(m.signal) /\ Place(m, m.start) <= Place(m, f.bit)
        /\ Place(m, f.bit) < Place(m, m.start) + BitLength(m.signal)
    BY <2>1, Run
  <2>6. BitLength(m.signal) \in Nat
    BY <1>1, <2>5, Lengths
  <2>7. BitLength(m.signal) # 0 /\ Place(m, m.start) + BitLength(m.signal) > pduBits
    BY <1>1, <2>3, <2>4, <2>5, <2>6
  <2>8. Leaves(f.mapping)
    BY <2>5, <2>7 DEF Leaves, Place, m
  <2> QED
    BY <2>1, <2>8 DEF Legal
<1> QED
  BY <1>3, <1>4, <1>5, <1>6 DEF Finding

\* Silence to the end, on numbers that an int can hold, means that the PDU is legal.
LEMMA SilentLegal == ASSUME IInv, pc = "done", findings = <<>>, Fits PROVE Legal
<1> USE Typed
<1>1. TypeOK
  BY DEF IInv
<1>2. \E dlc \in DOMAIN canFdBytesForDlc : canFdBytesForDlc[dlc] = pdu.length
  BY <1>1, Table DEF IInv, Silent
<1> SUFFICES ASSUME pduBits # 0, NEW i \in DOMAIN pdu.mappings
             PROVE  ~Leaves(i) /\ \A j \in DOMAIN pdu.mappings : ~Overlap(i, j)
  BY <1>2 DEF Legal
<1>3. \A j \in DOMAIN pdu.mappings : j < k
  <2>1. k = Len(pdu.mappings) + 1
    BY <1>1 DEF IInv, Progress
  <2> QED
    BY <1>1, <2>1
<1>4. ASSUME NEW j \in DOMAIN pdu.mappings, Defined(pdu.mappings[j].signal),
             BitLength(pdu.mappings[j].signal) # 0
      PROVE  \A p \in Nat : Covers(pdu.mappings[j], p) => Owned(p, pdu.mappings[j].signal)
  <2>1. pdu.mappings[j].start <= IntMax /\ pdu.mappings[j].start \in Nat
    BY <1>1 DEF Fits
  <2>2. BitLength(pdu.mappings[j].signal) <= IntMax /\ BitLength(pdu.mappings[j].signal) \in Nat
    BY <1>1, <1>4, Lengths
  <2>3. HasBits(pdu.mappings[j])
    BY <1>4, <2>1, <2>2, IntAssumption DEF HasBits, AsInt
  <2> QED
    BY <1>3, <2>3 DEF IInv, Silent
<1>5. ~Leaves(i)
  <2> DEFINE m == pdu.mappings[i]
             first == Place(m, m.start)
             bits == BitLength(m.signal)
             x == first + bits - 1
             p == Place(m, x)
  <2>1. SUFFICES ASSUME Defined(m.signal), bits # 0, first + bits > pduBits PROVE FALSE
    BY DEF Leaves, Place
  <2>2. bits \in Nat /\ m.start \in Nat
    BY <1>1, <2>1, Lengths
  <2>3. first \in Nat
    BY <2>2, Places
  <2>4. first + bits - 1 \in Nat /\ first + bits - 1 >= first /\ first + bits - 1 < first + bits
        /\ first + bits - 1 >= 8 * pdu.length
    BY <1>1, <2>1, <2>2, <2>3 DEF pduBits
  <2>5. p \in Nat /\ Place(m, p) = first + bits - 1 /\ ~(p < 8 * pdu.length)
    <3>1. x \in Nat /\ ~(x < 8 * pdu.length) /\ pdu.length \in Nat
      BY <1>1, <2>4
    <3>2. x = first + bits - 1
      OBVIOUS
    <3> HIDE DEF x, m
    <3>3. Place(m, x) \in Nat /\ Place(m, Place(m, x)) = x
          /\ (x < 8 * pdu.length <=> Place(m, x) < 8 * pdu.length)
      BY <3>1, Places
    <3> QED
      BY <3>1, <3>2, <3>3
  <2>6. Covers(m, p)
    BY <2>1, <2>4, <2>5, Run
  <2>7. Owned(p, m.signal)
    BY <1>4, <2>1, <2>5, <2>6
  <2>8. p \in 0..(pduBits - 1)
    BY <1>1, <2>7 DEF Owned
  <2> HIDE DEF p
  <2> QED
    BY <1>1, <2>5, <2>8 DEF pduBits
<1>6. ASSUME NEW j \in DOMAIN pdu.mappings, Overlap(i, j) PROVE FALSE
  <2> DEFINE m == pdu.mappings[i]
             n == pdu.mappings[j]
  <2>1. PICK p \in 0..(pduBits - 1) : Covers(m, p) /\ Covers(n, p)
    BY <1>6 DEF Overlap
  <2>2. p \in Nat /\ m.start \in Nat /\ n.start \in Nat
    BY <1>1
  <2>3. /\ Place(m, p) \in Nat /\ Place(m, m.start) \in Nat
        /\ Place(n, p) \in Nat /\ Place(n, n.start) \in Nat
    BY <2>2, Places
  <2>4. /\ Defined(m.signal) /\ BitLength(m.signal) # 0
        /\ Defined(n.signal) /\ BitLength(n.signal) # 0
    <3> HIDE DEF m, n
    <3>1. Defined(m.signal) /\ Place(m, m.start) <= Place(m, p)
          /\ Place(m, p) < Place(m, m.start) + BitLength(m.signal)
      BY <2>1, Run
    <3>2. Defined(n.signal) /\ Place(n, n.start) <= Place(n, p)
          /\ Place(n, p) < Place(n, n.start) + BitLength(n.signal)
      BY <2>1, Run
    <3>3. BitLength(m.signal) \in Nat /\ BitLength(n.signal) \in Nat
      BY <1>1, <3>1, <3>2, Lengths
    <3> QED
      BY <2>3, <3>1, <3>2, <3>3
  <2>5. Owned(p, m.signal) /\ Owned(p, n.signal)
    BY <1>4, <2>1, <2>2, <2>4
  <2> QED
    BY <1>6, <2>5 DEF Owned, Overlap
<1> QED
  BY <1>5, <1>6

--------------------------------------------------------------------------------
(* The theorems *)

\* Every variable of the walk keeps its type.
THEOREM TypeCorrect == Spec => []TypeOK
<1>1. IInv => TypeOK
  BY DEF IInv
<1> QED
  BY <1>1, Always, PTL

\* An overlap or a bit out of range that checkSignalOverlap reports is really one,
\* and no mapping is reported twice (validator_can.cpp:162).
THEOREM FindingsAlwaysTrue == Spec => []FindingsTrue
<1>1. IInv => FindingsTrue
  <2> SUFFICES ASSUME IInv PROVE FindingsTrue
    OBVIOUS
  <2>1. \A i, j \in DOMAIN findings : (i < j /\ findings[i].code # "can.dlc_mismatch")
           => findings[i].mapping < findings[j].mapping
    BY DEF IInv, FindingsTold
  <2>2. \A f \in {findings[i] : i \in DOMAIN findings} : Told(f)
    BY DEF IInv, FindingsTold, Findings
  <2> QED
    BY <2>1, <2>2 DEF FindingsTrue, Told
<1> QED
  BY <1>1, Always, PTL

\* When the walk ends, it has said something only of a PDU that is not legal, and
\* nothing, if the numbers fit an int, only of one that is: the bit-by-bit walk of
\* validator_can.cpp in two numberings is the row of bits of the reference.
THEOREM VerdictRight == Spec => []SilentIffLegal
<1>1. IInv => SilentIffLegal
  BY FoundNotLegal, SilentLegal DEF SilentIffLegal
<1> QED
  BY <1>1, Always, PTL

--------------------------------------------------------------------------------
(* Loops over a sequence *)

\* Induction over the turns of a loop, on a set.
LEMMA Turns ==
    ASSUME NEW n \in Nat, NEW P, 0 \in P, \A i \in 1..n : i - 1 \in P => i \in P
    PROVE  0..n \subseteq P
<1> DEFINE Q == (0..n) \ P
<1> SUFFICES ASSUME Q # {} PROVE FALSE
  OBVIOUS
<1>0. Q \subseteq Nat /\ \A y \in Q : y \in 0..n /\ y \notin P
  OBVIOUS
<1>1. PICK x \in Q : \A y \in Q : x <= y
  <2> HIDE DEF Q
  <2> QED BY <1>0, Least
<1>2. x # 0 /\ x \in 1..n /\ x - 1 \in 0..n
  BY <1>0
<1>3. x - 1 \in P
  BY <1>1, <1>2
<1> QED
  BY <1>1, <1>2, <1>3

LEMMA UpTo ==
    ASSUME NEW n \in Nat, NEW i \in 1..n
    PROVE  Max(1..i) = i /\ (1..i) \ {i} = 1..(i - 1) /\ 1..i # {} /\ 1..i \in SUBSET (1..n)
<1>1. i \in 1..i /\ \A y \in 1..i : i >= y
  OBVIOUS
<1>2. \E x \in 1..i : \A y \in 1..i : x >= y
  BY <1>1
<1>3. Max(1..i) \in 1..i /\ \A y \in 1..i : Max(1..i) >= y
  BY <1>2 DEF Max
<1>4. Max(1..i) = i
  BY <1>1, <1>3
<1>5. (1..i) \ {i} = 1..(i - 1)
  OBVIOUS
<1>6. 1..i # {} /\ 1..i \in SUBSET (1..n)
  BY <1>1
<1> QED
  BY <1>4, <1>5, <1>6, Zenon

LEMMA Greatest ==
    ASSUME NEW n \in Nat, NEW t \in SUBSET (1..n), n \in t
    PROVE  Max(t) = n
<1>1. \A y \in t : n >= y
  OBVIOUS
<1>2. Max(t) \in t /\ \A y \in t : Max(t) >= y
  BY <1>1 DEF Max
<1>3. Max(t) >= n /\ n >= Max(t) /\ Max(t) \in 1..n
  BY <1>1, <1>2
<1> HIDE DEF Max
<1> QED
  BY <1>3

LEMMA MaxIn ==
    ASSUME NEW n \in Nat, NEW t \in SUBSET (1..n), t # {}
    PROVE  Max(t) \in t
<1> DEFINE Q == {m \in Nat : \A y \in t : m >= y}
<1>1. n \in Q /\ Q \subseteq Nat
  OBVIOUS
<1>2. PICK m \in Q : \A y \in Q : m <= y
  <2> HIDE DEF Q
  <2> QED BY <1>1, Least
<1>3. m \in Nat /\ \A y \in t : m >= y
  BY <1>2
<1>4. m \in t
  <2> SUFFICES ASSUME m \notin t PROVE FALSE
    OBVIOUS
  <2>1. \A y \in t : y \in Nat /\ y # 0 /\ m > y
    BY <1>3
  <2>2. m - 1 \in Nat
    <3>1. PICK y \in t : TRUE
      OBVIOUS
    <3> QED BY <1>3, <2>1, <3>1
  <2>3. m - 1 \in Q
    BY <1>3, <2>1, <2>2
  <2> QED BY <1>2, <1>3, <2>3
<1> QED
  BY <1>3, <1>4 DEF Max

\* The recursion of a fold, and that it has a solution.
FoldEquation(g, n, b, G) ==
    \A t \in SUBSET (1..n) : g[t] = IF t = {} THEN b ELSE G[<<Max(t), g[t \ {Max(t)}]>>]

LEMMA FoldDefined ==
    ASSUME NEW n \in Nat, NEW V, NEW b \in V, NEW G \in [(1..n) \X V -> V]
    PROVE  \E g \in [SUBSET (1..n) -> V] : FoldEquation(g, n, b, G)
<1> DEFINE Solves(g, i) == \A t \in SUBSET (1..i) :
              g[t] = IF t = {} THEN b ELSE G[<<Max(t), g[t \ {Max(t)}]>>]
           Solved(i) == \E g \in [SUBSET (1..i) -> V] : Solves(g, i)
           P == {i \in 0..n : Solved(i)}
<1>1. Solved(0)
  <2>1. SUBSET (1..0) = {{}}
    OBVIOUS
  <2>2. [t \in SUBSET (1..0) |-> b] \in [SUBSET (1..0) -> V]
    OBVIOUS
  <2>3. Solves([t \in SUBSET (1..0) |-> b], 0)
    BY <2>1
  <2> QED
    BY <2>2, <2>3
<1>2. ASSUME NEW i \in 1..n, Solved(i - 1) PROVE Solved(i)
  <2> DEFINE T == SUBSET (1..i)
             S == SUBSET (1..(i - 1))
  <2>1. PICK g \in [S -> V] : Solves(g, i - 1)
    BY <1>2
  <2> DEFINE h == [t \in T |-> IF i \in t THEN G[<<i, g[t \ {i}]>>] ELSE g[t]]
  <2>2. ASSUME NEW t \in T PROVE t \ {i} \in S /\ (i \notin t => t \in S)
    OBVIOUS
  <2>3. \A t \in S : t \in T /\ i \notin t
    OBVIOUS
  <2>4. h \in [T -> V]
    <3>1. ASSUME NEW t \in T PROVE (IF i \in t THEN G[<<i, g[t \ {i}]>>] ELSE g[t]) \in V
      BY <2>1, <2>2
    <3> QED BY <3>1
  <2>5. \A t \in S : h[t] = g[t]
    BY <2>3
  <2>6. ASSUME NEW t \in T PROVE h[t] = IF t = {} THEN b ELSE G[<<Max(t), h[t \ {Max(t)}]>>]
    <3>1. CASE i \in t
      <4>1. Max(t) = i
        BY <3>1, Greatest
      <4>2. h[t \ {i}] = g[t \ {i}] /\ h[t] = G[<<i, g[t \ {i}]>>] /\ t # {}
        BY <3>1, <2>2, <2>5
      <4> HIDE DEF h
      <4> QED BY <4>1, <4>2
    <3>2. CASE i \notin t
      <4>1. t \in S /\ h[t] = g[t]
        BY <3>2, <2>2, <2>5
      <4>2. g[t] = IF t = {} THEN b ELSE G[<<Max(t), g[t \ {Max(t)}]>>]
        BY <4>1, <2>1
      <4>3. t \ {Max(t)} \in S
        BY <4>1
      <4>4. h[t \ {Max(t)}] = g[t \ {Max(t)}]
        BY <4>3, <2>5
      <4> HIDE DEF h
      <4> QED BY <4>1, <4>2, <4>4
    <3> QED BY <3>1, <3>2
  <2> HIDE DEF h
  <2>7. Solves(h, i)
    BY <2>6
  <2> QED
    BY <2>4, <2>7
<1>3. Solved(n)
  <2> HIDE DEF Solved
  <2>1. 0 \in P /\ \A i \in 1..n : i - 1 \in P => i \in P
    BY <1>1, <1>2
  <2>2. 0..n \subseteq P
    <3> HIDE DEF P
    <3> QED BY <2>1, Turns
  <2> QED BY <2>2
<1> QED
  BY <1>3 DEF FoldEquation

\* The recursion, as the turns of a loop need it.
Folds(g, n, V, b, G) ==
    \A t \in SUBSET (1..n) :
        /\ t = {} => g[t] = b
        /\ t # {} => /\ Max(t) \in 1..n /\ g[t \ {Max(t)}] \in V
                     /\ g[t] = G[<<Max(t), g[t \ {Max(t)}]>>]

LEMMA FoldSolved ==
    ASSUME NEW n \in Nat, NEW V, NEW b \in V, NEW G \in [(1..n) \X V -> V]
    PROVE  \E g \in [SUBSET (1..n) -> V] : Folds(g, n, V, b, G)
<1>1. PICK g \in [SUBSET (1..n) -> V] : FoldEquation(g, n, b, G)
  BY FoldDefined
<1>2. ASSUME NEW t \in SUBSET (1..n), t # {}
      PROVE  Max(t) \in 1..n /\ t \ {Max(t)} \in SUBSET (1..n)
  BY <1>2, MaxIn
<1>3. Folds(g, n, V, b, G)
  BY <1>1, <1>2 DEF Folds, FoldEquation
<1> QED
  BY <1>3

LEMMA LeastIndex ==
    ASSUME NEW n \in Nat, NEW S \in SUBSET (1..n), S # {}
    PROVE  Min(S) \in S /\ Min(S) # 0 /\ \A j \in S : Min(S) <= j
<1>0. S \subseteq Nat
  OBVIOUS
<1>1. PICK x \in S : \A y \in S : x <= y
  BY <1>0, Least
<1>2. Min(S) \in S /\ \A j \in S : Min(S) <= j
  BY <1>1 DEF Min
<1> QED
  BY <1>2

--------------------------------------------------------------------------------
(* Parties *)

Party(ps, f, out) == IF out THEN ps[f].transmitters ELSE ps[f].receivers
PartyLists == [transmitters : Seq(Ecus), receivers : Seq(Ecus)]
Once(ps) == \A f \in Frames, out \in BOOLEAN : IsInjective(Party(ps, f, out))
PartyMaps == {ps \in [Frames -> PartyLists] : Once(ps)}

\* <<frame, out, ecu>>: the ECU sends (out) or receives the frame.
Roles == Frames \X BOOLEAN \X Ecus
Said(ps) == {r \in Roles : r[3] \in Range(Party(ps, r[1], r[2]))}

\* The map qs is ps with the roles of X added.
Adds(ps, qs, X) ==
    /\ qs \in PartyMaps
    /\ \A r \in Roles : r \in Said(qs) <=> r \in Said(ps) \/ r \in X

LEMMA UniqueAdded ==
    ASSUME NEW list \in Seq(Ecus), IsInjective(list), NEW ecu \in Ecus \cup {NoEcu}
    PROVE  /\ addUnique(list, ecu) \in Seq(Ecus)
           /\ IsInjective(addUnique(list, ecu))
           /\ \A e \in Ecus : e \in Range(addUnique(list, ecu)) <=> e \in Range(list) \/ e = ecu
<1>1. CASE ecu = NoEcu
  <2>1. addUnique(list, ecu) = list /\ ecu \notin Ecus
    BY <1>1, NetworkAssumption DEF addUnique
  <2> QED BY <2>1
<1>2. CASE ecu # NoEcu /\ Contains(list, ecu)
  <2>1. addUnique(list, ecu) = list
    BY <1>2 DEF addUnique
  <2>2. ecu \in Range(list)
    BY <1>2 DEF Contains, Range
  <2> QED BY <2>1, <2>2
<1>3. CASE ecu # NoEcu /\ ~Contains(list, ecu)
  <2> DEFINE new == Append(list, ecu)
  <2>1. addUnique(list, ecu) = new /\ ecu \in Ecus
    BY <1>3 DEF addUnique
  <2>2. /\ new \in Seq(Ecus) /\ Len(list) \in Nat /\ DOMAIN list = 1..Len(list)
        /\ DOMAIN new = 1..(Len(list) + 1)
        /\ new[Len(list) + 1] = ecu /\ \A i \in 1..Len(list) : new[i] = list[i]
    BY <2>1
  <2>3. \A i \in 1..Len(list) : list[i] # ecu
    BY <1>3 DEF Contains
  <2> HIDE DEF new
  <2>4. IsInjective(new)
    <3> SUFFICES ASSUME NEW a \in DOMAIN new, NEW b \in DOMAIN new, new[a] = new[b] PROVE a = b
      BY DEF IsInjective
    <3>1. a \in 1..Len(list) \/ a = Len(list) + 1
      BY <2>2
    <3>2. b \in 1..Len(list) \/ b = Len(list) + 1
      BY <2>2
    <3> QED BY <2>2, <2>3, <3>1, <3>2 DEF IsInjective
  <2>5. ASSUME NEW e \in Ecus PROVE e \in Range(new) <=> e \in Range(list) \/ e = ecu
    <3>1. e \in Range(new) <=> \E i \in 1..(Len(list) + 1) : new[i] = e
      BY <2>2 DEF Range
    <3>2. e \in Range(list) <=> \E i \in 1..Len(list) : list[i] = e
      BY <2>2 DEF Range
    <3>3. 1..(Len(list) + 1) = 1..Len(list) \cup {Len(list) + 1}
      BY <2>2
    <3> QED BY <2>2, <3>1, <3>2, <3>3
  <2> QED BY <2>1, <2>2, <2>4, <2>5
<1> QED
  BY <1>1, <1>2, <1>3

LEMMA PartyTyped ==
    ASSUME NEW ps \in PartyMaps, NEW f \in Frames, NEW out \in BOOLEAN
    PROVE  /\ Party(ps, f, out) \in Seq(Ecus) /\ IsInjective(Party(ps, f, out))
           /\ ps[f] = [transmitters |-> Party(ps, f, TRUE), receivers |-> Party(ps, f, FALSE)]
<1>1. ps \in [Frames -> PartyLists] /\ Once(ps)
  BY Zenon DEF PartyMaps
<1>2. ps[f] \in PartyLists
  BY <1>1
<1>3. /\ ps[f].transmitters \in Seq(Ecus) /\ ps[f].receivers \in Seq(Ecus)
      /\ ps[f] = [transmitters |-> ps[f].transmitters, receivers |-> ps[f].receivers]
  BY <1>2 DEF PartyLists
<1>4. IsInjective(Party(ps, f, out))
  BY <1>1 DEF Once
<1>5. Party(ps, f, out) \in Seq(Ecus)
  BY <1>3 DEF Party
<1> QED
  BY <1>3, <1>4, <1>5, Zenon DEF Party

LEMMA SetSenders ==
    ASSUME NEW r \in PartyLists, NEW v
    PROVE  [r EXCEPT !.transmitters = v] = [transmitters |-> v, receivers |-> r.receivers]
BY DEF PartyLists

LEMMA SetReceivers ==
    ASSUME NEW r \in PartyLists, NEW v
    PROVE  [r EXCEPT !.receivers = v] = [transmitters |-> r.transmitters, receivers |-> v]
BY DEF PartyLists

LEMMA NewSender ==
    ASSUME NEW ps \in [Frames -> PartyLists], NEW f \in Frames, NEW out \in BOOLEAN, NEW ecu, out
    PROVE  addParty(ps, f, out, ecu) =
              [ps EXCEPT ![f] = [transmitters |-> addUnique(ps[f].transmitters, ecu),
                                 receivers |-> ps[f].receivers]]
<1>1. addParty(ps, f, out, ecu) =
         [ps EXCEPT ![f] = [ps[f] EXCEPT !.transmitters = addUnique(ps[f].transmitters, ecu)]]
  BY Zenon DEF addParty
<1>2. ps[f] \in PartyLists
  OBVIOUS
<1> QED
  BY <1>1, <1>2, SetSenders, Zenon

LEMMA NewReceiver ==
    ASSUME NEW ps \in [Frames -> PartyLists], NEW f \in Frames, NEW out \in BOOLEAN, NEW ecu, ~out
    PROVE  addParty(ps, f, out, ecu) =
              [ps EXCEPT ![f] = [transmitters |-> ps[f].transmitters,
                                 receivers |-> addUnique(ps[f].receivers, ecu)]]
<1>1. addParty(ps, f, out, ecu) =
         [ps EXCEPT ![f] = [ps[f] EXCEPT !.receivers = addUnique(ps[f].receivers, ecu)]]
  BY Zenon DEF addParty
<1>2. ps[f] \in PartyLists
  OBVIOUS
<1> QED
  BY <1>1, <1>2, SetReceivers, Zenon

\* addParty changes one list of one frame.
LEMMA PartyAdded ==
    ASSUME NEW ps \in PartyMaps, NEW f \in Frames, NEW out \in BOOLEAN, NEW ecu \in Ecus \cup {NoEcu}
    PROVE  Adds(ps, addParty(ps, f, out, ecu), {<<f, out, ecu>>})
<1> DEFINE new == addParty(ps, f, out, ecu)
           one == [transmitters |-> IF out THEN addUnique(ps[f].transmitters, ecu) ELSE ps[f].transmitters,
                   receivers |-> IF out THEN ps[f].receivers ELSE addUnique(ps[f].receivers, ecu)]
<1>1. ps \in [Frames -> PartyLists]
  BY Zenon DEF PartyMaps
<1>2. new = [ps EXCEPT ![f] = one]
  <2>1. CASE out
    BY <1>1, <2>1, NewSender
  <2>2. CASE ~out
    BY <1>1, <2>2, NewReceiver
  <2> QED BY <2>1, <2>2
<1>3. \A g \in Frames, o \in BOOLEAN : Party(ps, g, o) \in Seq(Ecus) /\ IsInjective(Party(ps, g, o))
  BY PartyTyped
<1>4. /\ addUnique(Party(ps, f, out), ecu) \in Seq(Ecus)
      /\ IsInjective(addUnique(Party(ps, f, out), ecu))
      /\ \A e \in Ecus : e \in Range(addUnique(Party(ps, f, out), ecu)) <=>
            e \in Range(Party(ps, f, out)) \/ e = ecu
  BY <1>3, UniqueAdded
<1>5. one \in PartyLists
  <2>1. ps[f].transmitters \in Seq(Ecus) /\ ps[f].receivers \in Seq(Ecus)
    BY <1>3 DEF Party
  <2> QED BY <1>4, <2>1 DEF Party, PartyLists
<1>6. new \in [Frames -> PartyLists]
  BY <1>1, <1>2, <1>5
<1>7. \A g \in Frames : new[g] = IF g = f THEN one ELSE ps[g]
  BY <1>1, <1>2
<1> HIDE DEF new, one
<1>8. one.transmitters = (IF out THEN addUnique(ps[f].transmitters, ecu) ELSE ps[f].transmitters)
  BY DEF one
<1>9. one.receivers = (IF out THEN ps[f].receivers ELSE addUnique(ps[f].receivers, ecu))
  BY DEF one
<1>10. ASSUME NEW g \in Frames, NEW o \in BOOLEAN
       PROVE  Party(new, g, o) = IF g = f /\ o = out THEN addUnique(Party(ps, f, out), ecu)
                                 ELSE Party(ps, g, o)
  BY <1>7, <1>8, <1>9 DEF Party
<1>11. Once(new)
  BY <1>3, <1>4, <1>10 DEF Once
<1>12. new \in PartyMaps
  BY <1>6, <1>11, Zenon DEF PartyMaps
<1>13. ASSUME NEW r \in Roles PROVE r \in Said(new) <=> r \in Said(ps) \/ r = <<f, out, ecu>>
  <2>1. r[1] \in Frames /\ r[2] \in BOOLEAN /\ r[3] \in Ecus /\ r = <<r[1], r[2], r[3]>>
    BY DEF Roles
  <2>2. \A qs : r \in Said(qs) <=> r[3] \in Range(Party(qs, r[1], r[2]))
    BY Zenon DEF Said
  <2>3. CASE r[1] = f /\ r[2] = out
    <3>1. r[3] \in Range(Party(new, r[1], r[2])) <=> r[3] \in Range(Party(ps, r[1], r[2])) \/ r[3] = ecu
      BY <1>4, <1>10, <2>1, <2>3
    <3>2. r = <<f, out, ecu>> <=> r[3] = ecu
      BY <2>1, <2>3
    <3> QED BY <2>2, <3>1, <3>2
  <2>4. CASE ~(r[1] = f /\ r[2] = out)
    <3>1. Party(new, r[1], r[2]) = Party(ps, r[1], r[2])
      BY <1>10, <2>1, <2>4
    <3>2. r # <<f, out, ecu>>
      BY <2>4
    <3> QED BY <2>2, <3>1, <3>2
  <2> QED BY <2>3, <2>4
<1> QED
  BY <1>12, <1>13 DEF new, Adds

\* A loop that adds roles to the map adds those of all its turns.
LEMMA PartyLoop ==
    ASSUME NEW n \in Nat, NEW b \in PartyMaps, NEW A, NEW it,
           it[{}] = b,
           \A i \in 1..n : it[1..(i - 1)] \in PartyMaps => Adds(it[1..(i - 1)], it[1..i], A[i])
    PROVE  Adds(b, it[1..n], {r \in Roles : \E i \in 1..n : r \in A[i]})
<1> DEFINE Sum(i) == {r \in Roles : \E j \in 1..i : r \in A[j]}
           P == {i \in 0..n : Adds(b, it[1..i], Sum(i))}
<1>1. Adds(b, it[1..0], Sum(0))
  <2>1. 1..0 = {}
    OBVIOUS
  <2>2. it[1..0] = b
    BY <2>1
  <2>3. Sum(0) = {}
    BY <2>1
  <2> HIDE DEF Sum
  <2> QED
    BY <2>2, <2>3 DEF Adds
<1>2. ASSUME NEW i \in 1..n, Adds(b, it[1..(i - 1)], Sum(i - 1)) PROVE Adds(b, it[1..i], Sum(i))
  <2>1. Adds(it[1..(i - 1)], it[1..i], A[i])
    BY <1>2 DEF Adds
  <2>2. ASSUME NEW r \in Roles PROVE r \in Sum(i) <=> r \in Sum(i - 1) \/ r \in A[i]
    <3>1. 1..i = 1..(i - 1) \cup {i}
      OBVIOUS
    <3> QED
      BY <3>1
  <2> HIDE DEF Sum
  <2> QED
    BY <1>2, <2>1, <2>2 DEF Adds
<1>3. Adds(b, it[1..n], Sum(n))
  <2> HIDE DEF Sum
  <2>1. 0 \in P /\ \A i \in 1..n : i - 1 \in P => i \in P
    BY <1>1, <1>2
  <2>2. 0..n \subseteq P
    <3> HIDE DEF P
    <3> QED BY <2>1, Turns
  <2> QED BY <2>2
<1> QED
  BY <1>3

LEMMA TriggeringFound ==
    ASSUME net \in Network, NEW name, TriggeringOf(name) # 0
    PROVE  /\ TriggeringOf(name) \in DOMAIN net.triggerings
           /\ net.triggerings[TriggeringOf(name)] \in Triggering
           /\ net.triggerings[TriggeringOf(name)].frame = name
<1> DEFINE I == {i \in 1..Len(net.triggerings) : net.triggerings[i].frame = name}
<1>1. net.triggerings \in Seq(Triggering)
  BY DEF Network
<1>2. TriggeringOf(name) = IF I # {} THEN Min(I) ELSE 0
  BY DEF TriggeringOf, SelectInSeq
<1>3. TriggeringOf(name) \in I
  <2>1. I \in SUBSET (1..Len(net.triggerings)) /\ Len(net.triggerings) \in Nat
    BY <1>1
  <2> HIDE DEF I
  <2> QED BY <1>2, <2>1, LeastIndex
<1>4. TriggeringOf(name) \in 1..Len(net.triggerings) /\ net.triggerings[TriggeringOf(name)].frame = name
  BY <1>3
<1> QED
  BY <1>1, <1>4

LEMMA PortFound ==
    ASSUME net \in Network, NEW name, PortOf(name) # 0
    PROVE  /\ PortOf(name) \in DOMAIN net.ports
           /\ net.ports[PortOf(name)] \in Port
           /\ net.ports[PortOf(name)].name = name
<1> DEFINE I == {i \in 1..Len(net.ports) : net.ports[i].name = name}
<1>1. net.ports \in Seq(Port)
  BY DEF Network
<1>2. PortOf(name) = IF I # {} THEN Min(I) ELSE 0
  BY DEF PortOf, SelectInSeq
<1>3. PortOf(name) \in I
  <2>1. I \in SUBSET (1..Len(net.ports)) /\ Len(net.ports) \in Nat
    BY <1>1
  <2> HIDE DEF I
  <2> QED BY <1>2, <2>1, LeastIndex
<1>4. PortOf(name) \in 1..Len(net.ports) /\ net.ports[PortOf(name)].name = name
  BY <1>3
<1> QED
  BY <1>1, <1>4

PortRoles(name, frame) ==
    IF PortOf(name) = 0 THEN {}
    ELSE {<<frame, net.ports[PortOf(name)].out, net.ports[PortOf(name)].ecu>>}

LEMMA PortAdded ==
    ASSUME net \in Network, NEW ps \in PartyMaps, NEW frame \in Frames, NEW name
    PROVE  Adds(ps, AddPort(ps, frame, name), PortRoles(name, frame))
<1>1. CASE PortOf(name) = 0
  BY <1>1 DEF AddPort, PortRoles, Adds
<1>2. CASE PortOf(name) # 0
  <2> DEFINE p == net.ports[PortOf(name)]
  <2>1. p \in Port
    BY <1>2, PortFound
  <2>2. p.out \in BOOLEAN /\ p.ecu \in Ecus \cup {NoEcu}
    BY <2>1 DEF Port
  <2>3. AddPort(ps, frame, name) = addParty(ps, frame, p.out, p.ecu)
    BY <1>2 DEF AddPort
  <2>4. PortRoles(name, frame) = {<<frame, p.out, p.ecu>>}
    BY <1>2 DEF PortRoles
  <2> HIDE DEF p
  <2> QED
    BY <2>2, <2>3, <2>4, PartyAdded
<1> QED
  BY <1>1, <1>2

TriggeringPorts(frame) ==
    IF TriggeringOf(frame.name) = 0 THEN <<>> ELSE net.triggerings[TriggeringOf(frame.name)].ports

TriggeringRoles(frame) ==
    {r \in Roles : \E i \in 1..Len(TriggeringPorts(frame)) :
                      r \in PortRoles(TriggeringPorts(frame)[i], frame.name)}

\* The ports of a frame's triggering.
LEMMA TriggeringAdded ==
    ASSUME net \in Network, NEW ps \in PartyMaps, NEW frame \in Frame, TriggeringOf(frame.name) # 0
    PROVE  Adds(ps, FramePorts(ps, frame), TriggeringRoles(frame))
<1> DEFINE seq == TriggeringPorts(frame)
           n == Len(seq)
           op(qs, p) == AddPort(qs, frame.name, p)
           G == [x \in (1..n) \X PartyMaps |-> op(x[2], seq[x[1]])]
           A == [i \in 1..n |-> PortRoles(seq[i], frame.name)]
           Eq(it) == it = [t \in SUBSET DOMAIN seq |->
                              IF t = {} THEN ps ELSE op(it[t \ {Max(t)}], seq[Max(t)])]
           it == CHOOSE it : Eq(it)
<1>1. seq \in Seq(Ports)
  BY TriggeringFound DEF TriggeringPorts, Triggering
<1>2. n \in Nat /\ DOMAIN seq = 1..n
  BY <1>1
<1>3. FramePorts(ps, frame) = it[DOMAIN seq]
  BY DEF FramePorts, FoldLeft, MapThenFoldSet, TriggeringPorts
<1>4. ASSUME NEW i \in 1..n, NEW qs \in PartyMaps PROVE Adds(qs, op(qs, seq[i]), A[i])
  BY PortAdded DEF Frame
<1>5. \E g : Eq(g)
  <2> HIDE DEF seq, n
  <2>1. ASSUME NEW i \in 1..n, NEW qs \in PartyMaps
        PROVE  G[<<i, qs>>] = op(qs, seq[i]) /\ op(qs, seq[i]) \in PartyMaps
    BY <1>4 DEF Adds
  <2>2. G \in [(1..n) \X PartyMaps -> PartyMaps]
    BY <2>1
  <2>3. PICK g \in [SUBSET (1..n) -> PartyMaps] : Folds(g, n, PartyMaps, ps, G)
    <3> HIDE DEF G
    <3> QED BY <1>2, <2>2, FoldSolved
  <2> HIDE DEF op, G
  <2>4. g = [t \in SUBSET (1..n) |-> IF t = {} THEN ps ELSE op(g[t \ {Max(t)}], seq[Max(t)])]
    BY <2>1, <2>3 DEF Folds
  <2> QED BY <1>2, <2>4
<1>6. Eq(it)
  BY <1>5
<1> HIDE DEF it, op, seq, n
<1>7. \A t \in SUBSET (1..n) : it[t] = IF t = {} THEN ps ELSE op(it[t \ {Max(t)}], seq[Max(t)])
  BY <1>2, <1>6
<1>8. it[{}] = ps
  BY <1>7
<1>9. ASSUME NEW i \in 1..n, it[1..(i - 1)] \in PartyMaps
      PROVE  Adds(it[1..(i - 1)], it[1..i], A[i])
  <2>1. Max(1..i) = i /\ (1..i) \ {i} = 1..(i - 1) /\ 1..i # {} /\ 1..i \in SUBSET (1..n)
    BY <1>2, UpTo, Zenon
  <2>2. it[1..i] = op(it[1..(i - 1)], seq[i])
    BY <1>7, <2>1, Zenon
  <2> HIDE DEF A
  <2> QED BY <1>4, <1>9, <2>2
<1>10. Adds(ps, it[1..n], {r \in Roles : \E i \in 1..n : r \in A[i]})
  <2> HIDE DEF A
  <2> QED BY <1>2, <1>8, <1>9, PartyLoop
<1>11. TriggeringRoles(frame) = {r \in Roles : \E i \in 1..n : r \in A[i]}
  BY DEF TriggeringRoles, seq, n
<1> QED
  BY <1>2, <1>3, <1>10, <1>11

LEMMA FramePortsAdded ==
    ASSUME net \in Network, NEW ps \in PartyMaps, NEW frame \in Frame
    PROVE  Adds(ps, FramePorts(ps, frame), TriggeringRoles(frame))
<1>1. CASE TriggeringOf(frame.name) = 0
  <2>1. FramePorts(ps, frame) = ps
    BY <1>1 DEF FramePorts
  <2>2. TriggeringRoles(frame) = {}
    BY <1>1 DEF TriggeringRoles, TriggeringPorts
  <2> QED BY <2>1, <2>2 DEF Adds
<1> QED
  BY <1>1, TriggeringAdded

PortPartyRoles == {r \in Roles : \E i \in 1..Len(net.frames) : r \in TriggeringRoles(net.frames[i])}

\* The ports of all frames.
LEMMA PortPartiesAdded ==
    ASSUME net \in Network, NEW ps \in PartyMaps
    PROVE  Adds(ps, addPortParties(ps), PortPartyRoles)
<1> DEFINE seq == net.frames
           n == Len(seq)
           op(qs, p) == FramePorts(qs, p)
           G == [x \in (1..n) \X PartyMaps |-> op(x[2], seq[x[1]])]
           A == [i \in 1..n |-> TriggeringRoles(seq[i])]
           Eq(it) == it = [t \in SUBSET DOMAIN seq |->
                              IF t = {} THEN ps ELSE op(it[t \ {Max(t)}], seq[Max(t)])]
           it == CHOOSE it : Eq(it)
<1>1. seq \in Seq(Frame)
  BY DEF Network
<1>2. n \in Nat /\ DOMAIN seq = 1..n
  BY <1>1
<1>3. addPortParties(ps) = it[DOMAIN seq]
  BY DEF addPortParties, FoldLeft, MapThenFoldSet
<1>4. ASSUME NEW i \in 1..n, NEW qs \in PartyMaps PROVE Adds(qs, op(qs, seq[i]), A[i])
  BY <1>1, FramePortsAdded
<1>5. \E g : Eq(g)
  <2> HIDE DEF seq, n
  <2>1. ASSUME NEW i \in 1..n, NEW qs \in PartyMaps
        PROVE  G[<<i, qs>>] = op(qs, seq[i]) /\ op(qs, seq[i]) \in PartyMaps
    BY <1>4 DEF Adds
  <2>2. G \in [(1..n) \X PartyMaps -> PartyMaps]
    BY <2>1
  <2>3. PICK g \in [SUBSET (1..n) -> PartyMaps] : Folds(g, n, PartyMaps, ps, G)
    <3> HIDE DEF G
    <3> QED BY <1>2, <2>2, FoldSolved
  <2> HIDE DEF op, G
  <2>4. g = [t \in SUBSET (1..n) |-> IF t = {} THEN ps ELSE op(g[t \ {Max(t)}], seq[Max(t)])]
    BY <2>1, <2>3 DEF Folds
  <2> QED BY <1>2, <2>4
<1>6. Eq(it)
  BY <1>5
<1> HIDE DEF it, op, seq, n
<1>7. \A t \in SUBSET (1..n) : it[t] = IF t = {} THEN ps ELSE op(it[t \ {Max(t)}], seq[Max(t)])
  BY <1>2, <1>6
<1>8. it[{}] = ps
  BY <1>7
<1>9. ASSUME NEW i \in 1..n, it[1..(i - 1)] \in PartyMaps
      PROVE  Adds(it[1..(i - 1)], it[1..i], A[i])
  <2>1. Max(1..i) = i /\ (1..i) \ {i} = 1..(i - 1) /\ 1..i # {} /\ 1..i \in SUBSET (1..n)
    BY <1>2, UpTo, Zenon
  <2>2. it[1..i] = op(it[1..(i - 1)], seq[i])
    BY <1>7, <2>1, Zenon
  <2> HIDE DEF A
  <2> QED BY <1>4, <1>9, <2>2
<1>10. Adds(ps, it[1..n], {r \in Roles : \E i \in 1..n : r \in A[i]})
  <2> HIDE DEF A
  <2> QED BY <1>2, <1>8, <1>9, PartyLoop
<1>11. PortPartyRoles = {r \in Roles : \E i \in 1..n : r \in A[i]}
  BY DEF PortPartyRoles, seq, n
<1> QED
  BY <1>2, <1>3, <1>10, <1>11

LEMMA GroupFound ==
    ASSUME net \in Network, NEW path, GroupOf(path) # 0
    PROVE  /\ GroupOf(path) \in DOMAIN net.groups
           /\ net.groups[GroupOf(path)] \in Group
           /\ net.groups[GroupOf(path)].path = path
           /\ \A i \in DOMAIN net.groups : net.groups[i].path = path => GroupOf(path) <= i
<1> DEFINE I == {i \in 1..Len(net.groups) : net.groups[i].path = path}
<1>1. net.groups \in Seq(Group)
  BY DEF Network
<1>2. GroupOf(path) = IF I # {} THEN Min(I) ELSE 0
  BY DEF GroupOf, SelectInSeq
<1>3. GroupOf(path) \in I /\ \A i \in I : GroupOf(path) <= i
  <2>1. I \in SUBSET (1..Len(net.groups)) /\ Len(net.groups) \in Nat
    BY <1>1
  <2>2. I # {} /\ GroupOf(path) = Min(I)
    BY <1>2
  <2> HIDE DEF I
  <2>3. Min(I) \in I /\ \A i \in I : Min(I) <= i
    BY <2>1, <2>2, LeastIndex
  <2> QED BY <2>2, <2>3
<1>4. GroupOf(path) \in 1..Len(net.groups) /\ net.groups[GroupOf(path)].path = path
  BY <1>3
<1>5. \A i \in DOMAIN net.groups : net.groups[i].path = path => GroupOf(path) <= i
  BY <1>1, <1>3
<1> QED
  BY <1>1, <1>4, <1>5

\* A group's PDU makes its ECU a party of every frame that carries the PDU.
CarrierRoles(p, out, ecu) ==
    {r \in Roles : \E i \in 1..Len(net.frames) :
        r \in IF Carries(net.frames[i], p) THEN {<<net.frames[i].name, out, ecu>>} ELSE {}}

ToFrames(qs, p, out, ecu) ==
    FoldLeft(LAMBDA rs, fr : IF Carries(fr, p) THEN addParty(rs, fr.name, out, ecu) ELSE rs, qs, net.frames)

\* One PDU of a group.
LEMMA CarriersAdded ==
    ASSUME net \in Network, NEW ps \in PartyMaps, NEW p, NEW out \in BOOLEAN, NEW ecu \in Ecus
    PROVE  Adds(ps, ToFrames(ps, p, out, ecu), CarrierRoles(p, out, ecu))
<1> DEFINE seq == net.frames
           n == Len(seq)
           op(qs, fr) == IF Carries(fr, p) THEN addParty(qs, fr.name, out, ecu) ELSE qs
           G == [x \in (1..n) \X PartyMaps |-> op(x[2], seq[x[1]])]
           A == [i \in 1..n |-> IF Carries(seq[i], p) THEN {<<seq[i].name, out, ecu>>} ELSE {}]
           Eq(it) == it = [t \in SUBSET DOMAIN seq |->
                              IF t = {} THEN ps ELSE op(it[t \ {Max(t)}], seq[Max(t)])]
           it == CHOOSE it : Eq(it)
<1>1. seq \in Seq(Frame)
  BY DEF Network
<1>2. n \in Nat /\ DOMAIN seq = 1..n
  BY <1>1
<1>3. ToFrames(ps, p, out, ecu) = it[DOMAIN seq]
  BY DEF ToFrames, FoldLeft, MapThenFoldSet
<1>4. ASSUME NEW i \in 1..n, NEW qs \in PartyMaps PROVE Adds(qs, op(qs, seq[i]), A[i])
  <2>0. seq[i] \in Frame
    BY <1>1, <1>2
  <2> HIDE DEF seq, n
  <2>1. seq[i].name \in Frames
    BY <2>0 DEF Frame
  <2>2. CASE Carries(seq[i], p)
    BY <2>1, <2>2, PartyAdded
  <2>3. CASE ~Carries(seq[i], p)
    BY <2>3 DEF Adds
  <2> QED BY <2>2, <2>3
<1>5. \E g : Eq(g)
  <2> HIDE DEF seq, n
  <2>1. ASSUME NEW i \in 1..n, NEW qs \in PartyMaps
        PROVE  G[<<i, qs>>] = op(qs, seq[i]) /\ op(qs, seq[i]) \in PartyMaps
    BY <1>4 DEF Adds
  <2>2. G \in [(1..n) \X PartyMaps -> PartyMaps]
    BY <2>1
  <2>3. PICK g \in [SUBSET (1..n) -> PartyMaps] : Folds(g, n, PartyMaps, ps, G)
    <3> HIDE DEF G
    <3> QED BY <1>2, <2>2, FoldSolved
  <2> HIDE DEF op, G
  <2>4. g = [t \in SUBSET (1..n) |-> IF t = {} THEN ps ELSE op(g[t \ {Max(t)}], seq[Max(t)])]
    BY <2>1, <2>3 DEF Folds
  <2> QED BY <1>2, <2>4
<1>6. Eq(it)
  BY <1>5
<1> HIDE DEF it, op, seq, n
<1>7. \A t \in SUBSET (1..n) : it[t] = IF t = {} THEN ps ELSE op(it[t \ {Max(t)}], seq[Max(t)])
  BY <1>2, <1>6
<1>8. it[{}] = ps
  BY <1>7
<1>9. ASSUME NEW i \in 1..n, it[1..(i - 1)] \in PartyMaps
      PROVE  Adds(it[1..(i - 1)], it[1..i], A[i])
  <2>1. Max(1..i) = i /\ (1..i) \ {i} = 1..(i - 1) /\ 1..i # {} /\ 1..i \in SUBSET (1..n)
    BY <1>2, UpTo, Zenon
  <2>2. it[1..i] = op(it[1..(i - 1)], seq[i])
    BY <1>7, <2>1, Zenon
  <2> HIDE DEF A
  <2> QED BY <1>4, <1>9, <2>2
<1>10. Adds(ps, it[1..n], {r \in Roles : \E i \in 1..n : r \in A[i]})
  <2> HIDE DEF A
  <2> QED BY <1>2, <1>8, <1>9, PartyLoop
<1>11. CarrierRoles(p, out, ecu) = {r \in Roles : \E i \in 1..n : r \in A[i]}
  BY DEF CarrierRoles, seq, n
<1> QED
  BY <1>2, <1>3, <1>10, <1>11

GroupPdus(path) == IF GroupOf(path) = 0 THEN <<>> ELSE net.groups[GroupOf(path)].pdus

GroupRoles(path, ecu) ==
    {r \in Roles : \E i \in 1..Len(GroupPdus(path)) :
        r \in CarrierRoles(GroupPdus(path)[i], net.groups[GroupOf(path)].out, ecu)}

\* The PDUs of a group.
LEMMA GroupPdusAdded ==
    ASSUME net \in Network, NEW ps \in PartyMaps, NEW path, NEW ecu \in Ecus, GroupOf(path) # 0
    PROVE  Adds(ps, AddGroup(ps, ecu, path), GroupRoles(path, ecu))
<1> DEFINE seq == GroupPdus(path)
           n == Len(seq)
           op(qs, p) == ToFrames(qs, p, net.groups[GroupOf(path)].out, ecu)
           G == [x \in (1..n) \X PartyMaps |-> op(x[2], seq[x[1]])]
           A == [i \in 1..n |-> CarrierRoles(seq[i], net.groups[GroupOf(path)].out, ecu)]
           Eq(it) == it = [t \in SUBSET DOMAIN seq |->
                              IF t = {} THEN ps ELSE op(it[t \ {Max(t)}], seq[Max(t)])]
           it == CHOOSE it : Eq(it)
<1>1. seq \in Seq(PduNames)
  BY GroupFound DEF GroupPdus, Group
<1>2. n \in Nat /\ DOMAIN seq = 1..n
  BY <1>1
<1>3. AddGroup(ps, ecu, path) = it[DOMAIN seq]
  BY DEF AddGroup, ToFrames, FoldLeft, MapThenFoldSet, GroupPdus
<1>4. ASSUME NEW i \in 1..n, NEW qs \in PartyMaps PROVE Adds(qs, op(qs, seq[i]), A[i])
  BY GroupFound, CarriersAdded DEF Group
<1>5. \E g : Eq(g)
  <2> HIDE DEF seq, n
  <2>1. ASSUME NEW i \in 1..n, NEW qs \in PartyMaps
        PROVE  G[<<i, qs>>] = op(qs, seq[i]) /\ op(qs, seq[i]) \in PartyMaps
    BY <1>4 DEF Adds
  <2>2. G \in [(1..n) \X PartyMaps -> PartyMaps]
    BY <2>1
  <2>3. PICK g \in [SUBSET (1..n) -> PartyMaps] : Folds(g, n, PartyMaps, ps, G)
    <3> HIDE DEF G
    <3> QED BY <1>2, <2>2, FoldSolved
  <2> HIDE DEF op, G
  <2>4. g = [t \in SUBSET (1..n) |-> IF t = {} THEN ps ELSE op(g[t \ {Max(t)}], seq[Max(t)])]
    BY <2>1, <2>3 DEF Folds
  <2> QED BY <1>2, <2>4
<1>6. Eq(it)
  BY <1>5
<1> HIDE DEF it, op, seq, n
<1>7. \A t \in SUBSET (1..n) : it[t] = IF t = {} THEN ps ELSE op(it[t \ {Max(t)}], seq[Max(t)])
  BY <1>2, <1>6
<1>8. it[{}] = ps
  BY <1>7
<1>9. ASSUME NEW i \in 1..n, it[1..(i - 1)] \in PartyMaps
      PROVE  Adds(it[1..(i - 1)], it[1..i], A[i])
  <2>1. Max(1..i) = i /\ (1..i) \ {i} = 1..(i - 1) /\ 1..i # {} /\ 1..i \in SUBSET (1..n)
    BY <1>2, UpTo, Zenon
  <2>2. it[1..i] = op(it[1..(i - 1)], seq[i])
    BY <1>7, <2>1, Zenon
  <2> HIDE DEF A
  <2> QED BY <1>4, <1>9, <2>2
<1>10. Adds(ps, it[1..n], {r \in Roles : \E i \in 1..n : r \in A[i]})
  <2> HIDE DEF A
  <2> QED BY <1>2, <1>8, <1>9, PartyLoop
<1>11. GroupRoles(path, ecu) = {r \in Roles : \E i \in 1..n : r \in A[i]}
  BY DEF GroupRoles, seq, n
<1> QED
  BY <1>2, <1>3, <1>10, <1>11

LEMMA GroupAdded ==
    ASSUME net \in Network, NEW ps \in PartyMaps, NEW path, NEW ecu \in Ecus
    PROVE  Adds(ps, AddGroup(ps, ecu, path), GroupRoles(path, ecu))
<1>1. CASE GroupOf(path) = 0
  <2>1. AddGroup(ps, ecu, path) = ps
    BY <1>1 DEF AddGroup
  <2>2. GroupRoles(path, ecu) = {}
    BY <1>1 DEF GroupRoles, GroupPdus
  <2> QED BY <2>1, <2>2 DEF Adds
<1> QED
  BY <1>1, GroupPdusAdded

EcuRoles(ecu) == {r \in Roles : \E i \in 1..Len(ecu.groups) : r \in GroupRoles(ecu.groups[i], ecu.name)}

\* The groups of an ECU.
LEMMA EcuGroupsAdded ==
    ASSUME net \in Network, NEW ps \in PartyMaps, NEW ecu \in Ecu
    PROVE  Adds(ps, EcuGroups(ps, ecu), EcuRoles(ecu))
<1> DEFINE seq == ecu.groups
           n == Len(seq)
           op(qs, p) == AddGroup(qs, ecu.name, p)
           G == [x \in (1..n) \X PartyMaps |-> op(x[2], seq[x[1]])]
           A == [i \in 1..n |-> GroupRoles(seq[i], ecu.name)]
           Eq(it) == it = [t \in SUBSET DOMAIN seq |->
                              IF t = {} THEN ps ELSE op(it[t \ {Max(t)}], seq[Max(t)])]
           it == CHOOSE it : Eq(it)
<1>1. seq \in Seq(Paths)
  BY DEF Ecu
<1>2. n \in Nat /\ DOMAIN seq = 1..n
  BY <1>1
<1>3. EcuGroups(ps, ecu) = it[DOMAIN seq]
  BY DEF EcuGroups, FoldLeft, MapThenFoldSet
<1>4. ASSUME NEW i \in 1..n, NEW qs \in PartyMaps PROVE Adds(qs, op(qs, seq[i]), A[i])
  BY GroupAdded DEF Ecu
<1>5. \E g : Eq(g)
  <2> HIDE DEF seq, n
  <2>1. ASSUME NEW i \in 1..n, NEW qs \in PartyMaps
        PROVE  G[<<i, qs>>] = op(qs, seq[i]) /\ op(qs, seq[i]) \in PartyMaps
    BY <1>4 DEF Adds
  <2>2. G \in [(1..n) \X PartyMaps -> PartyMaps]
    BY <2>1
  <2>3. PICK g \in [SUBSET (1..n) -> PartyMaps] : Folds(g, n, PartyMaps, ps, G)
    <3> HIDE DEF G
    <3> QED BY <1>2, <2>2, FoldSolved
  <2> HIDE DEF op, G
  <2>4. g = [t \in SUBSET (1..n) |-> IF t = {} THEN ps ELSE op(g[t \ {Max(t)}], seq[Max(t)])]
    BY <2>1, <2>3 DEF Folds
  <2> QED BY <1>2, <2>4
<1>6. Eq(it)
  BY <1>5
<1> HIDE DEF it, op, seq, n
<1>7. \A t \in SUBSET (1..n) : it[t] = IF t = {} THEN ps ELSE op(it[t \ {Max(t)}], seq[Max(t)])
  BY <1>2, <1>6
<1>8. it[{}] = ps
  BY <1>7
<1>9. ASSUME NEW i \in 1..n, it[1..(i - 1)] \in PartyMaps
      PROVE  Adds(it[1..(i - 1)], it[1..i], A[i])
  <2>1. Max(1..i) = i /\ (1..i) \ {i} = 1..(i - 1) /\ 1..i # {} /\ 1..i \in SUBSET (1..n)
    BY <1>2, UpTo, Zenon
  <2>2. it[1..i] = op(it[1..(i - 1)], seq[i])
    BY <1>7, <2>1, Zenon
  <2> HIDE DEF A
  <2> QED BY <1>4, <1>9, <2>2
<1>10. Adds(ps, it[1..n], {r \in Roles : \E i \in 1..n : r \in A[i]})
  <2> HIDE DEF A
  <2> QED BY <1>2, <1>8, <1>9, PartyLoop
<1>11. EcuRoles(ecu) = {r \in Roles : \E i \in 1..n : r \in A[i]}
  BY DEF EcuRoles, seq, n
<1> QED
  BY <1>2, <1>3, <1>10, <1>11

GroupPartyRoles == {r \in Roles : \E i \in 1..Len(net.ecus) : r \in EcuRoles(net.ecus[i])}

\* The groups of all ECUs.
LEMMA GroupPartiesAdded ==
    ASSUME net \in Network, NEW ps \in PartyMaps
    PROVE  Adds(ps, addGroupParties(ps), GroupPartyRoles)
<1> DEFINE seq == net.ecus
           n == Len(seq)
           op(qs, p) == EcuGroups(qs, p)
           G == [x \in (1..n) \X PartyMaps |-> op(x[2], seq[x[1]])]
           A == [i \in 1..n |-> EcuRoles(seq[i])]
           Eq(it) == it = [t \in SUBSET DOMAIN seq |->
                              IF t = {} THEN ps ELSE op(it[t \ {Max(t)}], seq[Max(t)])]
           it == CHOOSE it : Eq(it)
<1>1. seq \in Seq(Ecu)
  BY DEF Network
<1>2. n \in Nat /\ DOMAIN seq = 1..n
  BY <1>1
<1>3. addGroupParties(ps) = it[DOMAIN seq]
  BY DEF addGroupParties, FoldLeft, MapThenFoldSet
<1>4. ASSUME NEW i \in 1..n, NEW qs \in PartyMaps PROVE Adds(qs, op(qs, seq[i]), A[i])
  BY <1>1, EcuGroupsAdded
<1>5. \E g : Eq(g)
  <2> HIDE DEF seq, n
  <2>1. ASSUME NEW i \in 1..n, NEW qs \in PartyMaps
        PROVE  G[<<i, qs>>] = op(qs, seq[i]) /\ op(qs, seq[i]) \in PartyMaps
    BY <1>4 DEF Adds
  <2>2. G \in [(1..n) \X PartyMaps -> PartyMaps]
    BY <2>1
  <2>3. PICK g \in [SUBSET (1..n) -> PartyMaps] : Folds(g, n, PartyMaps, ps, G)
    <3> HIDE DEF G
    <3> QED BY <1>2, <2>2, FoldSolved
  <2> HIDE DEF op, G
  <2>4. g = [t \in SUBSET (1..n) |-> IF t = {} THEN ps ELSE op(g[t \ {Max(t)}], seq[Max(t)])]
    BY <2>1, <2>3 DEF Folds
  <2> QED BY <1>2, <2>4
<1>6. Eq(it)
  BY <1>5
<1> HIDE DEF it, op, seq, n
<1>7. \A t \in SUBSET (1..n) : it[t] = IF t = {} THEN ps ELSE op(it[t \ {Max(t)}], seq[Max(t)])
  BY <1>2, <1>6
<1>8. it[{}] = ps
  BY <1>7
<1>9. ASSUME NEW i \in 1..n, it[1..(i - 1)] \in PartyMaps
      PROVE  Adds(it[1..(i - 1)], it[1..i], A[i])
  <2>1. Max(1..i) = i /\ (1..i) \ {i} = 1..(i - 1) /\ 1..i # {} /\ 1..i \in SUBSET (1..n)
    BY <1>2, UpTo, Zenon
  <2>2. it[1..i] = op(it[1..(i - 1)], seq[i])
    BY <1>7, <2>1, Zenon
  <2> HIDE DEF A
  <2> QED BY <1>4, <1>9, <2>2
<1>10. Adds(ps, it[1..n], {r \in Roles : \E i \in 1..n : r \in A[i]})
  <2> HIDE DEF A
  <2> QED BY <1>2, <1>8, <1>9, PartyLoop
<1>11. GroupPartyRoles = {r \in Roles : \E i \in 1..n : r \in A[i]}
  BY DEF GroupPartyRoles, seq, n
<1> QED
  BY <1>2, <1>3, <1>10, <1>11

\* The roles that ports and groups add are those that the file states.
LEMMA PortRolesStated ==
    ASSUME net \in Network, NEW h \in DOMAIN net.frames, NEW ecu \in Ecus, NEW out \in BOOLEAN
    PROVE  <<net.frames[h].name, out, ecu>> \in PortPartyRoles <=> PortSays(net.frames[h], ecu, out)
<1> DEFINE name == net.frames[h].name
           r == <<name, out, ecu>>
<1>1. net.frames \in Seq(Frame) /\ net.frames[h] \in Frame /\ h \in 1..Len(net.frames)
  BY DEF Network
<1>2. r \in Roles /\ r[1] = name /\ r[2] = out /\ r[3] = ecu
  BY <1>1 DEF Roles, Frame
<1>3. TriggeringOf(name) # 0 => net.triggerings[TriggeringOf(name)].ports \in Seq(Ports)
  BY TriggeringFound DEF Triggering
<1>4. ASSUME NEW p
      PROVE  r \in PortRoles(p, name) <=>
                PortOf(p) # 0 /\ net.ports[PortOf(p)] = [name |-> p, ecu |-> ecu, out |-> out]
  <2>1. CASE PortOf(p) = 0
    BY <2>1 DEF PortRoles
  <2>2. CASE PortOf(p) # 0
    <3> DEFINE port == net.ports[PortOf(p)]
    <3>1. port \in Port /\ port.name = p
      BY <2>2, PortFound
    <3>2. port = [name |-> p, ecu |-> port.ecu, out |-> port.out]
      BY <3>1 DEF Port
    <3>3. PortRoles(p, name) = {<<name, port.out, port.ecu>>}
      BY <2>2 DEF PortRoles
    <3> HIDE DEF port
    <3>4. r \in PortRoles(p, name) <=> port.out = out /\ port.ecu = ecu
      BY <3>3
    <3>5. port = [name |-> p, ecu |-> ecu, out |-> out] <=> port.out = out /\ port.ecu = ecu
      BY <3>2
    <3> QED
      BY <2>2, <3>4, <3>5 DEF port
  <2> QED BY <2>1, <2>2
<1>5. r \in TriggeringRoles(net.frames[h]) <=> PortSays(net.frames[h], ecu, out)
  <2>1. CASE TriggeringOf(name) = 0
    BY <2>1 DEF TriggeringRoles, TriggeringPorts, PortSays
  <2>2. CASE TriggeringOf(name) # 0
    <3> DEFINE ports == net.triggerings[TriggeringOf(name)].ports
    <3>1. r \in TriggeringRoles(net.frames[h]) <=> \E i \in 1..Len(ports) : r \in PortRoles(ports[i], name)
      BY <1>2, <2>2 DEF TriggeringRoles, TriggeringPorts
    <3>2. PortSays(net.frames[h], ecu, out) <=>
             \E p \in Range(ports) : PortOf(p) # 0 /\ net.ports[PortOf(p)] = [name |-> p, ecu |-> ecu, out |-> out]
      BY <2>2 DEF PortSays
    <3>3. \A p : p \in Range(ports) <=> \E i \in 1..Len(ports) : p = ports[i]
      BY <1>3, <2>2 DEF Range
    <3> HIDE DEF ports, r
    <3> QED BY <1>4, <3>1, <3>2, <3>3
  <2> QED BY <2>1, <2>2
<1>6. ASSUME NEW g \in 1..Len(net.frames), r \in TriggeringRoles(net.frames[g])
      PROVE  r \in TriggeringRoles(net.frames[h])
  <2>1. PICK i \in 1..Len(TriggeringPorts(net.frames[g])) :
            r \in PortRoles(TriggeringPorts(net.frames[g])[i], net.frames[g].name)
    BY <1>6 DEF TriggeringRoles
  <2>2. r[1] = net.frames[g].name
    BY <2>1 DEF PortRoles
  <2>3. net.frames[g].name = name
    BY <1>2, <2>2
  <2>4. TriggeringRoles(net.frames[g]) = TriggeringRoles(net.frames[h])
    BY <2>3 DEF TriggeringRoles, TriggeringPorts
  <2> QED BY <1>6, <2>4
<1>7. r \in PortPartyRoles <=> \E g \in 1..Len(net.frames) : r \in TriggeringRoles(net.frames[g])
  BY <1>2 DEF PortPartyRoles
<1> HIDE DEF r
<1>8. r \in PortPartyRoles <=> PortSays(net.frames[h], ecu, out)
  BY <1>1, <1>5, <1>6, <1>7
<1> QED
  BY <1>8 DEF r

LEMMA GroupRolesStated ==
    ASSUME net \in Network, NEW h \in DOMAIN net.frames, NEW ecu \in Ecus, NEW out \in BOOLEAN
    PROVE  <<net.frames[h].name, out, ecu>> \in GroupPartyRoles <=> GroupSays(net.frames[h], ecu, out)
<1> DEFINE name == net.frames[h].name
           r == <<name, out, ecu>>
           Holds(g) == \E p \in Range(net.groups[g].pdus), x \in DOMAIN net.frames :
                          net.frames[x].name = name /\ Carries(net.frames[x], p)
           Leads(g) == \A first \in 1..(g - 1) : net.groups[first].path # net.groups[g].path
<1>1. /\ net.frames \in Seq(Frame) /\ DOMAIN net.frames = 1..Len(net.frames)
      /\ net.groups \in Seq(Group) /\ net.ecus \in Seq(Ecu)
      /\ DOMAIN net.groups = 1..Len(net.groups) /\ DOMAIN net.ecus = 1..Len(net.ecus)
      /\ net.frames[h] \in Frame
  BY DEF Network
<1>2. r \in Roles
  BY <1>1 DEF Roles, Frame
<1>3. ASSUME NEW path, NEW e
      PROVE  r \in GroupRoles(path, e) <=>
                /\ GroupOf(path) # 0 /\ e = ecu /\ net.groups[GroupOf(path)].out = out
                /\ Holds(GroupOf(path))
  <2>1. CASE GroupOf(path) = 0
    BY <2>1 DEF GroupRoles, GroupPdus
  <2>2. CASE GroupOf(path) # 0
    <3> DEFINE gr == net.groups[GroupOf(path)]
    <3>1. gr \in Group /\ gr.pdus \in Seq(PduNames)
      BY <2>2, GroupFound DEF Group
    <3>2. r \in GroupRoles(path, e) <=> \E i \in 1..Len(gr.pdus) : r \in CarrierRoles(gr.pdus[i], gr.out, e)
      BY <1>2, <2>2 DEF GroupRoles, GroupPdus
    <3>3. ASSUME NEW p
          PROVE  r \in CarrierRoles(p, gr.out, e) <=>
                    /\ e = ecu /\ gr.out = out
                    /\ \E x \in DOMAIN net.frames : net.frames[x].name = name /\ Carries(net.frames[x], p)
      <4>1. r \in CarrierRoles(p, gr.out, e) <=>
               \E x \in DOMAIN net.frames : Carries(net.frames[x], p) /\ r = <<net.frames[x].name, gr.out, e>>
        BY <1>1, <1>2 DEF CarrierRoles
      <4> HIDE DEF gr
      <4>2. \A x : r = <<net.frames[x].name, gr.out, e>> <=> net.frames[x].name = name /\ gr.out = out /\ e = ecu
        OBVIOUS
      <4> QED BY <4>1, <4>2
    <3>4. \A p : p \in Range(gr.pdus) <=> \E i \in 1..Len(gr.pdus) : p = gr.pdus[i]
      BY <3>1 DEF Range
    <3>5. Holds(GroupOf(path)) <=> \E p \in Range(gr.pdus), x \in DOMAIN net.frames :
                          net.frames[x].name = name /\ Carries(net.frames[x], p)
      OBVIOUS
    <3> HIDE DEF gr, r, Holds
    <3>6. r \in GroupRoles(path, e) <=> e = ecu /\ gr.out = out /\ Holds(GroupOf(path))
      BY <3>2, <3>3, <3>4, <3>5
    <3> QED BY <2>2, <3>6 DEF gr
  <2> QED BY <2>1, <2>2
<1>4. r \in GroupPartyRoles <=>
         \E i \in DOMAIN net.ecus : \E j \in DOMAIN net.ecus[i].groups :
            r \in GroupRoles(net.ecus[i].groups[j], net.ecus[i].name)
  <2> HIDE DEF r
  <2>2. r \in GroupPartyRoles <=> \E i \in 1..Len(net.ecus) : r \in EcuRoles(net.ecus[i])
    BY <1>2, Zenon DEF GroupPartyRoles
  <2>3. ASSUME NEW i \in DOMAIN net.ecus
        PROVE  r \in EcuRoles(net.ecus[i]) <=>
            \E j \in DOMAIN net.ecus[i].groups : r \in GroupRoles(net.ecus[i].groups[j], net.ecus[i].name)
    <3>1. net.ecus[i] \in Ecu
      BY <1>1
    <3>2. net.ecus[i].groups \in Seq(Paths)
      BY <3>1 DEF Ecu
    <3>3. DOMAIN net.ecus[i].groups = 1..Len(net.ecus[i].groups)
      BY <3>2
    <3>4. r \in EcuRoles(net.ecus[i]) <=> \E j \in 1..Len(net.ecus[i].groups) :
                r \in GroupRoles(net.ecus[i].groups[j], net.ecus[i].name)
      BY <1>2, Zenon DEF EcuRoles
    <3> QED BY <3>3, <3>4
  <2> QED BY <1>1, <2>2, <2>3
<1>5. ASSUME NEW path
      PROVE  (GroupOf(path) # 0 /\ net.groups[GroupOf(path)].out = out /\ Holds(GroupOf(path))) <=>
                \E g \in DOMAIN net.groups :
                   net.groups[g].path = path /\ Leads(g) /\ net.groups[g].out = out /\ Holds(g)
  <2> HIDE DEF Holds
  <2>1. ASSUME GroupOf(path) # 0
        PROVE  GroupOf(path) \in DOMAIN net.groups /\ net.groups[GroupOf(path)].path = path /\ Leads(GroupOf(path))
    <3>1. GroupOf(path) \in 1..Len(net.groups) /\ net.groups[GroupOf(path)].path = path
      BY <1>1, <2>1, GroupFound
    <3>2. \A i \in 1..Len(net.groups) : net.groups[i].path = path => GroupOf(path) <= i
      BY <1>1, <2>1, GroupFound
    <3> QED BY <1>1, <3>1, <3>2
  <2>2. ASSUME NEW g \in DOMAIN net.groups, net.groups[g].path = path, Leads(g)
        PROVE  GroupOf(path) = g
    <3> DEFINE I == {i \in 1..Len(net.groups) : net.groups[i].path = path}
    <3>1. g \in I /\ GroupOf(path) = IF I # {} THEN Min(I) ELSE 0
      BY <1>1, <2>2 DEF GroupOf, SelectInSeq
    <3>2. I \in SUBSET (1..Len(net.groups)) /\ Len(net.groups) \in Nat /\ I # {}
      BY <1>1, <3>1
    <3>3. GroupOf(path) \in I /\ GroupOf(path) <= g
      <4> HIDE DEF I
      <4>1. Min(I) \in I /\ \A j \in I : Min(I) <= j
        BY <3>2, LeastIndex
      <4> QED BY <3>1, <3>2, <4>1
    <3>4. GroupOf(path) \in 1..Len(net.groups) /\ net.groups[GroupOf(path)].path = net.groups[g].path
      BY <3>3, <2>2
    <3>5. g \in 1..Len(net.groups)
      BY <1>1
    <3> QED BY <2>2, <3>3, <3>4, <3>5
  <2>3. ASSUME NEW g \in DOMAIN net.groups, net.groups[g].path = path, Leads(g) PROVE GroupOf(path) # 0
    <3>1. GroupOf(path) = g
      BY <2>2, <2>3
    <3> QED BY <1>1, <3>1
  <2> HIDE DEF Leads
  <2> QED BY <2>1, <2>2, <2>3
<1>6. GroupSays(net.frames[h], ecu, out) <=>
         \E i \in DOMAIN net.ecus : net.ecus[i].name = ecu /\ \E j \in DOMAIN net.ecus[i].groups :
            \E g \in DOMAIN net.groups :
               net.groups[g].path = net.ecus[i].groups[j] /\ Leads(g) /\ net.groups[g].out = out /\ Holds(g)
  <2>1. GroupSays(net.frames[h], ecu, out) <=>
           \E i \in DOMAIN net.ecus, g \in DOMAIN net.groups :
              /\ net.ecus[i].name = ecu /\ net.groups[g].path \in Range(net.ecus[i].groups)
              /\ Leads(g) /\ net.groups[g].out = out /\ Holds(g)
    BY DEF GroupSays
  <2>2. \A i, path : path \in Range(net.ecus[i].groups) <=> \E j \in DOMAIN net.ecus[i].groups : path = net.ecus[i].groups[j]
    BY DEF Range
  <2> HIDE DEF Leads, Holds
  <2> QED BY <2>1, <2>2
<1> HIDE DEF Leads, Holds, r
<1>7. r \in GroupPartyRoles <=> GroupSays(net.frames[h], ecu, out)
  BY <1>3, <1>4, <1>5, <1>6
<1> QED
  BY <1>7 DEF r

--------------------------------------------------------------------------------
(* Counting the elements of a sequence *)

Spots(s, T) == {j \in DOMAIN s : s[j] \in T}
Times(s, T) == Cardinality(Spots(s, T))

LEMMA TimesTyped ==
    ASSUME NEW V, NEW s \in Seq(V), NEW T
    PROVE  IsFiniteSet(Spots(s, T)) /\ Times(s, T) \in Nat /\ Spots(s, T) \subseteq 1..Len(s)
<1>1. Spots(s, T) \subseteq 1..Len(s) /\ Len(s) \in Nat
  BY DEF Spots
<1>2. IsFiniteSet(1..Len(s))
  BY <1>1, FS_Interval
<1>3. IsFiniteSet(Spots(s, T))
  BY <1>1, <1>2, FS_Subset
<1> QED
  BY <1>1, <1>3, FS_CardinalityType DEF Times

LEMMA TimesAppend ==
    ASSUME NEW V, NEW s \in Seq(V), NEW e \in V, NEW T
    PROVE  Times(Append(s, e), T) = Times(s, T) + IF e \in T THEN 1 ELSE 0
<1> DEFINE t == Append(s, e)
           n == Len(s) + 1
<1>1. /\ Len(s) \in Nat /\ DOMAIN s = 1..Len(s) /\ DOMAIN t = 1..n /\ n \in DOMAIN t
      /\ t[n] = e /\ \A j \in 1..Len(s) : t[j] = s[j]
  OBVIOUS
<1>2. IsFiniteSet(Spots(s, T)) /\ Times(s, T) \in Nat /\ n \notin Spots(s, T)
  BY <1>1, TimesTyped DEF Spots
<1> HIDE DEF t
<1>3. CASE e \in T
  <2>1. Spots(t, T) = Spots(s, T) \cup {n}
    BY <1>1, <1>3 DEF Spots
  <2>2. Cardinality(Spots(t, T)) = Cardinality(Spots(s, T)) + 1
    <3> HIDE DEF n
    <3> QED BY <1>2, <2>1, FS_AddElement
  <2> QED BY <1>2, <1>3, <2>2 DEF Times, t
<1>4. CASE e \notin T
  <2>1. Spots(t, T) = Spots(s, T)
    BY <1>1, <1>4 DEF Spots
  <2> QED BY <1>2, <1>4, <2>1 DEF Times, t
<1> QED
  BY <1>3, <1>4

LEMMA TimesEmpty == \A T : Times(<<>>, T) = 0
<1>1. \A T : Spots(<<>>, T) = {}
  BY DEF Spots
<1> QED
  BY <1>1, FS_EmptySet DEF Times

\* The same elements at other places.
LEMMA TimesConcat ==
    ASSUME NEW V, NEW s \in Seq(V), NEW t \in Seq(V), NEW T
    PROVE  Times(s \o t, T) = Times(s, T) + Times(t, T)
<1> DEFINE st == s \o t
           m == Len(s)
           n == Len(t)
           Right == {j \in (m + 1)..(m + n) : st[j] \in T}
           Shift == [j \in Spots(t, T) |-> m + j]
<1>1. /\ m \in Nat /\ n \in Nat /\ st \in Seq(V) /\ Len(st) = m + n
      /\ DOMAIN s = 1..m /\ DOMAIN t = 1..n /\ DOMAIN st = 1..(m + n)
      /\ \A j \in 1..m : st[j] = s[j]
      /\ \A j \in 1..n : st[m + j] = t[j]
  OBVIOUS
<1>2. /\ IsFiniteSet(Spots(s, T)) /\ IsFiniteSet(Spots(t, T)) /\ IsFiniteSet(Spots(st, T))
      /\ Times(s, T) \in Nat /\ Times(t, T) \in Nat
  BY <1>1, TimesTyped
<1> HIDE DEF st, m, n
<1>3. Spots(st, T) = Spots(s, T) \cup Right /\ Spots(s, T) \cap Right = {}
  <2>1. \A j : j \in Spots(s, T) => j \in 1..m
    BY <1>1 DEF Spots
  <2>2. \A j : j \in Right => j \notin 1..m
    BY <1>1
  <2>3. Spots(s, T) \cap Right = {}
    BY <2>1, <2>2
  <2>4. ASSUME NEW j PROVE j \in Spots(st, T) <=> j \in Spots(s, T) \cup Right
    <3>1. j \in 1..(m + n) <=> j \in 1..m \/ j \in (m + 1)..(m + n)
      BY <1>1
    <3> QED BY <1>1, <3>1 DEF Spots
  <2> QED BY <2>3, <2>4
<1>4. IsFiniteSet(Right)
  BY <1>2, <1>3, FS_Subset
<1>5. Shift \in Bijection(Spots(t, T), Right)
  <2>1. ASSUME NEW j \in Spots(t, T) PROVE Shift[j] = m + j /\ m + j \in Right /\ j \in Nat
    BY <1>1 DEF Spots
  <2>2. Shift \in [Spots(t, T) -> Right]
    BY <2>1
  <2>3. ASSUME NEW j \in Right PROVE \E i \in Spots(t, T) : Shift[i] = j
    <3>1. j - m \in 1..n /\ st[j] \in T /\ m + (j - m) = j
      BY <1>1
    <3>2. j - m \in Spots(t, T)
      BY <1>1, <3>1 DEF Spots
    <3> QED BY <2>1, <3>1, <3>2
  <2>4. \A i, j \in Spots(t, T) : Shift[i] = Shift[j] => i = j
    BY <1>1, <2>1
  <2> HIDE DEF Shift, Right
  <2>5. Shift \in Surjection(Spots(t, T), Right)
    BY <2>2, <2>3 DEF Surjection
  <2>6. Shift \in Injection(Spots(t, T), Right)
    BY <2>2, <2>4 DEF Injection, IsInjective
  <2> QED BY <2>5, <2>6 DEF Bijection
<1>6. Cardinality(Right) = Times(t, T)
  <2> HIDE DEF Shift, Right
  <2>1. ExistsBijection(Spots(t, T), Right)
    BY <1>5 DEF ExistsBijection
  <2> QED BY <1>2, <2>1, FS_Bijection DEF Times
<1>7. Cardinality(Spots(st, T)) = Cardinality(Spots(s, T)) + Cardinality(Right)
  <2> HIDE DEF Right
  <2>1. Cardinality(Spots(s, T) \cap Right) = 0
    BY <1>3, FS_EmptySet
  <2>2. Cardinality(Spots(s, T) \cup Right) =
           Cardinality(Spots(s, T)) + Cardinality(Right) - Cardinality(Spots(s, T) \cap Right)
    BY <1>2, <1>4, FS_Union
  <2>3. Cardinality(Spots(s, T)) \in Nat /\ Cardinality(Right) \in Nat
    BY <1>2, <1>4, FS_CardinalityType
  <2> QED BY <1>3, <2>1, <2>2, <2>3
<1> QED
  BY <1>2, <1>6, <1>7 DEF Times, st

--------------------------------------------------------------------------------
(* The signals of a PDU *)

Named(i) == pdu.mappings[i].signal # NoRef
Found(i) == pickModelSignal(pdu.mappings[i].signal) # 0

\* Every exported signal is what makeSignal makes of a mapping.
Exported(receivers) ==
    {makeSignal(x[1], x[2], receivers) :
        x \in {y \in (DOMAIN pdu.mappings) \X Uint32 : Named(y[1]) /\ Found(y[1])}}
Notices == [frame : {turn}, code : {"undefined_signal", "unknown_pdu"}, place : Nat \X Nat]
Outs(receivers) == [signals : Seq(Exported(receivers)), warnings : Seq(Notices)]

SignalsAt(i, offset, receivers) == {e \in Exported(receivers) : e.place = i /\ e.offset = offset}
WarningsAt(code, offset, i) == {Warn(code, <<offset, i>>)}
Both(out, i, offset, receivers) ==
    Times(out.signals, SignalsAt(i, offset, receivers))
    + Times(out.warnings, WarningsAt("undefined_signal", offset, i))
UnknownAt(out, offset) == Times(out.warnings, WarningsAt("unknown_pdu", offset, 0))

\* The mappings of I have been told once more at the offset, and nothing else has.
Tells(out, new, I, offset, receivers) ==
    /\ new \in Outs(receivers)
    /\ \A j \in DOMAIN pdu.mappings, o \in Uint32 :
          Both(new, j, o, receivers) =
              Both(out, j, o, receivers) + IF j \in I /\ o = offset /\ Named(j) THEN 1 ELSE 0
    /\ \A o \in Uint32 : UnknownAt(new, o) = UnknownAt(out, o)

LEMMA OutTyped ==
    ASSUME NEW rc, NEW out \in Outs(rc)
    PROVE  /\ out.signals \in Seq(Exported(rc)) /\ out.warnings \in Seq(Notices)
           /\ out = [signals |-> out.signals, warnings |-> out.warnings]
           /\ \A i, o : Both(out, i, o, rc) \in Nat
           /\ \A o : UnknownAt(out, o) \in Nat
<1>1. /\ out.signals \in Seq(Exported(rc)) /\ out.warnings \in Seq(Notices)
      /\ out = [signals |-> out.signals, warnings |-> out.warnings]
  BY DEF Outs
<1>2. /\ \A T : Times(out.signals, T) \in Nat
      /\ \A T : Times(out.warnings, T) \in Nat
  BY <1>1, TimesTyped
<1>3. ASSUME NEW i, NEW o PROVE Both(out, i, o, rc) \in Nat /\ UnknownAt(out, o) \in Nat
  <2>1. /\ Times(out.signals, SignalsAt(i, o, rc)) \in Nat
        /\ Times(out.warnings, WarningsAt("undefined_signal", o, i)) \in Nat
        /\ Times(out.warnings, WarningsAt("unknown_pdu", o, 0)) \in Nat
    BY <1>2, Zenon
  <2> QED BY <2>1 DEF Both, UnknownAt
<1> QED
  BY <1>1, <1>3

LEMMA SetSignals ==
    ASSUME NEW rc, NEW out \in Outs(rc), NEW v
    PROVE  [out EXCEPT !.signals = v] = [signals |-> v, warnings |-> out.warnings]
BY DEF Outs

LEMMA SetWarnings ==
    ASSUME NEW rc, NEW out \in Outs(rc), NEW v
    PROVE  [out EXCEPT !.warnings = v] = [signals |-> out.signals, warnings |-> v]
BY DEF Outs

LEMMA MoreSignals ==
    ASSUME NEW rc, NEW out \in Outs(rc), NEW e
    PROVE  [out EXCEPT !.signals = Append(@, e)] =
              [signals |-> Append(out.signals, e), warnings |-> out.warnings]
BY SetSignals, Zenon

LEMMA MoreWarnings ==
    ASSUME NEW rc, NEW out \in Outs(rc), NEW w
    PROVE  [out EXCEPT !.warnings = Append(@, w)] =
              [signals |-> out.signals, warnings |-> Append(out.warnings, w)]
BY SetWarnings, Zenon

LEMMA WarnTyped ==
    ASSUME NEW code \in {"undefined_signal", "unknown_pdu"}, NEW o \in Nat, NEW i \in Nat
    PROVE  /\ Warn(code, <<o, i>>) \in Notices
           /\ \A c, p, j : Warn(code, <<o, i>>) \in WarningsAt(c, p, j) <=> c = code /\ p = o /\ j = i
<1>1. <<o, i>> \in Nat \X Nat
  OBVIOUS
<1>2. Warn(code, <<o, i>>) \in Notices
  BY <1>1 DEF Warn, Notices
<1>3. \A c, p, j : Warn(code, <<o, i>>) = Warn(c, <<p, j>>) <=> c = code /\ p = o /\ j = i
  BY DEF Warn
<1>4. \A c, p, j : Warn(code, <<o, i>>) \in WarningsAt(c, p, j) <=> c = code /\ p = o /\ j = i
  BY <1>3, Zenon DEF WarningsAt
<1> QED
  BY <1>2, <1>4

LEMMA SignalMade ==
    ASSUME NEW i \in DOMAIN pdu.mappings, NEW offset \in Uint32, Named(i), Found(i), NEW rc
    PROVE  /\ makeSignal(i, offset, rc) \in Exported(rc)
           /\ makeSignal(i, offset, rc).place = i /\ makeSignal(i, offset, rc).offset = offset
           /\ makeSignal(i, offset, rc).receivers =
                 IF rc = <<>> THEN net.receiverRefs[pdu.mappings[i].signal] ELSE rc
<1>1. <<i, offset>> \in {y \in (DOMAIN pdu.mappings) \X Uint32 : Named(y[1]) /\ Found(y[1])}
  <2> DEFINE D == DOMAIN pdu.mappings
  <2>1. <<i, offset>> \in D \X Uint32 /\ <<i, offset>>[1] = i
    <3>1. i \in D
      OBVIOUS
    <3> HIDE DEF D
    <3> QED BY <3>1
  <2>2. Named(<<i, offset>>[1]) /\ Found(<<i, offset>>[1])
    BY <2>1
  <2> QED BY <2>1, <2>2, Zenon
<1>2. makeSignal(i, offset, rc) \in Exported(rc)
  BY <1>1 DEF Exported
<1>3. /\ makeSignal(i, offset, rc).place = i /\ makeSignal(i, offset, rc).offset = offset
      /\ makeSignal(i, offset, rc).receivers =
            IF rc = <<>> THEN net.receiverRefs[pdu.mappings[i].signal] ELSE rc
  BY DEF makeSignal
<1> QED
  BY <1>2, <1>3

LEMMA SignalTold ==
    ASSUME pdu \in Input, NEW rc, NEW out \in Outs(rc), NEW i \in DOMAIN pdu.mappings, NEW offset \in Uint32
    PROVE  Tells(out, AppendSignal(out, i, offset, rc), {i}, offset, rc)
<1> DEFINE new == AppendSignal(out, i, offset, rc)
<1>1. /\ out.signals \in Seq(Exported(rc)) /\ out.warnings \in Seq(Notices)
      /\ \A j, o : Both(out, j, o, rc) \in Nat
      /\ \A o : UnknownAt(out, o) \in Nat
      /\ \A T : Times(out.signals, T) \in Nat
      /\ \A T : Times(out.warnings, T) \in Nat
  BY OutTyped, TimesTyped
<1>2. /\ offset \in Nat /\ Uint32 \subseteq Nat
      /\ \A j \in DOMAIN pdu.mappings : j \in Nat /\ j # 0
  BY IntAssumption DEF Uint32, Input
<1>3. CASE ~Named(i)
  <2>1. new = out
    BY <1>3 DEF AppendSignal, Named
  <2> HIDE DEF new
  <2> QED BY <1>1, <1>3, <2>1 DEF Tells, new
<1>4. CASE Named(i) /\ ~Found(i)
  <2> DEFINE w == Warn("undefined_signal", <<offset, i>>)
  <2>1. new = [signals |-> out.signals, warnings |-> Append(out.warnings, w)]
    <3>1. new = [out EXCEPT !.warnings = Append(@, w)]
      BY <1>4 DEF AppendSignal, Named, Found
    <3> QED BY <3>1, MoreWarnings
  <2>2. w \in Notices /\ \A c, p, j : w \in WarningsAt(c, p, j) <=> c = "undefined_signal" /\ p = offset /\ j = i
    <3>1. i \in Nat
      BY <1>2
    <3> QED BY <1>2, <3>1, WarnTyped
  <2> HIDE DEF w, new
  <2>3. new.signals = out.signals /\ new.warnings = Append(out.warnings, w)
    BY <2>1
  <2>4. new \in Outs(rc)
    BY <1>1, <2>1, <2>2 DEF Outs
  <2>5. \A T : Times(new.warnings, T) = Times(out.warnings, T) + IF w \in T THEN 1 ELSE 0
    BY <1>1, <2>2, <2>3, TimesAppend
  <2>6. ASSUME NEW j \in DOMAIN pdu.mappings, NEW o \in Uint32
        PROVE  Both(new, j, o, rc) =
                  Both(out, j, o, rc) + IF j \in {i} /\ o = offset /\ Named(j) THEN 1 ELSE 0
    <3>1. w \in WarningsAt("undefined_signal", o, j) <=> j \in {i} /\ o = offset
      BY <2>2
    <3>3. Times(new.signals, SignalsAt(j, o, rc)) = Times(out.signals, SignalsAt(j, o, rc))
      BY <2>3
    <3>5. Both(new, j, o, rc) = Both(out, j, o, rc) + IF j \in {i} /\ o = offset THEN 1 ELSE 0
      BY <1>1, <2>5, <3>1, <3>3 DEF Both
    <3> QED BY <1>4, <3>5
  <2>7. ASSUME NEW o \in Uint32 PROVE UnknownAt(new, o) = UnknownAt(out, o)
    <3>1. w \notin WarningsAt("unknown_pdu", o, 0)
      BY <2>2
    <3> QED BY <1>1, <2>5, <3>1 DEF UnknownAt
  <2> QED BY <2>4, <2>6, <2>7 DEF Tells, new
<1>5. CASE Named(i) /\ Found(i)
  <2> DEFINE e == makeSignal(i, offset, rc)
  <2>1. new = [signals |-> Append(out.signals, e), warnings |-> out.warnings]
    <3>1. new = [out EXCEPT !.signals = Append(@, e)]
      BY <1>5 DEF AppendSignal, Named, Found
    <3> QED BY <3>1, MoreSignals
  <2>2. e \in Exported(rc) /\ e.place = i /\ e.offset = offset
    BY <1>5, SignalMade
  <2> HIDE DEF e, new
  <2>3. new.signals = Append(out.signals, e) /\ new.warnings = out.warnings
    BY <2>1
  <2>4. new \in Outs(rc)
    BY <1>1, <2>1, <2>2 DEF Outs
  <2>5. \A T : Times(new.signals, T) = Times(out.signals, T) + IF e \in T THEN 1 ELSE 0
    BY <1>1, <2>2, <2>3, TimesAppend
  <2>6. ASSUME NEW j \in DOMAIN pdu.mappings, NEW o \in Uint32
        PROVE  Both(new, j, o, rc) =
                  Both(out, j, o, rc) + IF j \in {i} /\ o = offset /\ Named(j) THEN 1 ELSE 0
    <3>1. e \in SignalsAt(j, o, rc) <=> j \in {i} /\ o = offset
      BY <2>2 DEF SignalsAt
    <3>3. Both(new, j, o, rc) = Both(out, j, o, rc) + IF j \in {i} /\ o = offset THEN 1 ELSE 0
      BY <1>1, <2>3, <2>5, <3>1 DEF Both
    <3> QED BY <1>5, <3>3
  <2>7. \A o \in Uint32 : UnknownAt(new, o) = UnknownAt(out, o)
    BY <2>3 DEF UnknownAt
  <2> QED BY <2>4, <2>6, <2>7 DEF Tells, new
<1> QED
  BY <1>3, <1>4, <1>5

LEMMA TellLoop ==
    ASSUME NEW n \in Nat, NEW rc, NEW offset, NEW out \in Outs(rc), NEW it,
           it[{}] = out, 1..n = DOMAIN pdu.mappings,
           \A i \in 1..n : it[1..(i - 1)] \in Outs(rc) => Tells(it[1..(i - 1)], it[1..i], {i}, offset, rc)
    PROVE  Tells(out, it[1..n], 1..n, offset, rc)
<1> DEFINE P == {i \in 0..n : Tells(out, it[1..i], 1..i, offset, rc)}
<1>1. Tells(out, it[1..0], 1..0, offset, rc)
  <2>1. 1..0 = {}
    OBVIOUS
  <2>2. it[1..0] = out
    BY <2>1
  <2>3. \A j, o : Both(out, j, o, rc) \in Nat
    BY OutTyped
  <2> QED
    BY <2>1, <2>2, <2>3 DEF Tells
<1>2. ASSUME NEW i \in 1..n, Tells(out, it[1..(i - 1)], 1..(i - 1), offset, rc)
      PROVE  Tells(out, it[1..i], 1..i, offset, rc)
  <2> DEFINE was == it[1..(i - 1)]
             is == it[1..i]
  <2>1. was \in Outs(rc)
    BY <1>2 DEF Tells
  <2>2. Tells(was, is, {i}, offset, rc)
    BY <2>1
  <2>3. is \in Outs(rc)
    BY <2>2 DEF Tells
  <2>4. ASSUME NEW j \in DOMAIN pdu.mappings, NEW o \in Uint32
        PROVE  Both(is, j, o, rc) =
                  Both(out, j, o, rc) + IF j \in 1..i /\ o = offset /\ Named(j) THEN 1 ELSE 0
    <3>1. Both(was, j, o, rc) =
             Both(out, j, o, rc) + IF j \in 1..(i - 1) /\ o = offset /\ Named(j) THEN 1 ELSE 0
      BY <1>2 DEF Tells
    <3>2. Both(is, j, o, rc) =
             Both(was, j, o, rc) + IF j \in {i} /\ o = offset /\ Named(j) THEN 1 ELSE 0
      BY <2>2 DEF Tells
    <3>3. Both(out, j, o, rc) \in Nat
      BY OutTyped
    <3>4. j \in 1..n /\ (j \in 1..i <=> j \in 1..(i - 1) \/ j = i) /\ ~(j \in 1..(i - 1) /\ j = i)
      OBVIOUS
    <3> HIDE DEF was, is
    <3> QED BY <3>1, <3>2, <3>3, <3>4
  <2>5. \A o \in Uint32 : UnknownAt(is, o) = UnknownAt(out, o)
    BY <1>2, <2>2 DEF Tells
  <2> QED
    BY <2>3, <2>4, <2>5 DEF Tells
<1>3. 0 \in P /\ \A i \in 1..n : i - 1 \in P => i \in P
  BY <1>1, <1>2
<1>4. 0..n \subseteq P
  <2> HIDE DEF P
  <2> QED BY <1>3, Turns
<1> QED
  BY <1>4

AllSignals(out, offset, receivers) ==
    FoldLeft(LAMBDA o, i : AppendSignal(o, i, offset, receivers), out, [i \in DOMAIN pdu.mappings |-> i])

\* appendPduSignals tells every mapping of the PDU once.
LEMMA PduTold ==
    ASSUME pdu \in Input, NEW rc, NEW out \in Outs(rc), NEW offset \in Uint32
    PROVE  Tells(out, AllSignals(out, offset, rc), DOMAIN pdu.mappings, offset, rc)
<1> DEFINE seq == [i \in DOMAIN pdu.mappings |-> i]
           n == Len(pdu.mappings)
           op(qs, i) == AppendSignal(qs, i, offset, rc)
           G == [x \in (1..n) \X Outs(rc) |-> op(x[2], seq[x[1]])]
           Eq(it) == it = [t \in SUBSET DOMAIN seq |->
                              IF t = {} THEN out ELSE op(it[t \ {Max(t)}], seq[Max(t)])]
           it == CHOOSE it : Eq(it)
<1>1. pdu.mappings \in Seq(Mapping)
  BY DEF Input
<1>2. n \in Nat /\ DOMAIN pdu.mappings = 1..n /\ DOMAIN seq = 1..n /\ \A i \in 1..n : seq[i] = i
  BY <1>1
<1>3. AllSignals(out, offset, rc) = it[DOMAIN seq]
  BY DEF AllSignals, FoldLeft, MapThenFoldSet
<1> HIDE DEF seq, n
<1>4. ASSUME NEW i \in 1..n, NEW qs \in Outs(rc) PROVE Tells(qs, op(qs, seq[i]), {i}, offset, rc)
  BY <1>2, SignalTold
<1>5. \E g : Eq(g)
  <2>1. ASSUME NEW i \in 1..n, NEW qs \in Outs(rc)
        PROVE  G[<<i, qs>>] = op(qs, seq[i]) /\ op(qs, seq[i]) \in Outs(rc)
    BY <1>4 DEF Tells
  <2>2. G \in [(1..n) \X Outs(rc) -> Outs(rc)]
    BY <2>1
  <2>3. PICK g \in [SUBSET (1..n) -> Outs(rc)] : Folds(g, n, Outs(rc), out, G)
    <3> HIDE DEF G
    <3> QED BY <1>2, <2>2, FoldSolved
  <2> HIDE DEF op, G
  <2>4. g = [t \in SUBSET (1..n) |-> IF t = {} THEN out ELSE op(g[t \ {Max(t)}], seq[Max(t)])]
    BY <2>1, <2>3 DEF Folds
  <2>5. DOMAIN seq = 1..n
    BY <1>2
  <2>6. Eq(g)
    BY <2>4, <2>5, Zenon
  <2> QED BY <2>6
<1>6. Eq(it)
  BY <1>5
<1> HIDE DEF it, op
<1>7. \A t \in SUBSET (1..n) : it[t] = IF t = {} THEN out ELSE op(it[t \ {Max(t)}], seq[Max(t)])
  BY <1>2, <1>6
<1>8. it[{}] = out
  BY <1>7
<1>9. ASSUME NEW i \in 1..n, it[1..(i - 1)] \in Outs(rc)
      PROVE  Tells(it[1..(i - 1)], it[1..i], {i}, offset, rc)
  <2>1. Max(1..i) = i /\ (1..i) \ {i} = 1..(i - 1) /\ 1..i # {} /\ 1..i \in SUBSET (1..n)
    BY <1>2, UpTo, Zenon
  <2>2. it[1..i] = op(it[1..(i - 1)], seq[i])
    BY <1>7, <2>1, Zenon
  <2> QED BY <1>4, <1>9, <2>2
<1>10. Tells(out, it[1..n], 1..n, offset, rc)
  BY <1>2, <1>8, <1>9, TellLoop
<1> QED
  BY <1>2, <1>3, <1>10

--------------------------------------------------------------------------------
(* The signals of a frame *)

Placements == [pdu : PduNames, start : Uint32]
OfPdu(o) == {m \in Placements : m.start = o /\ m.pdu = PduName}
NotOfPdu(o) == {m \in Placements : m.start = o /\ m.pdu # PduName}

\* The PDU's named mappings have been told once more at the place of m, or it has been
\* told that m is unknown.
Carried(out, new, m, receivers) ==
    /\ new \in Outs(receivers)
    /\ \A j \in DOMAIN pdu.mappings, o \in Uint32 :
          Named(j) => Both(new, j, o, receivers) =
                         Both(out, j, o, receivers) + IF m \in OfPdu(o) THEN 1 ELSE 0
    /\ \A o \in Uint32 : UnknownAt(new, o) = UnknownAt(out, o) + IF m \in NotOfPdu(o) THEN 1 ELSE 0

LEMMA PduCarried ==
    ASSUME pdu \in Input, NEW rc, NEW out \in Outs(rc), NEW m \in Placements, m.pdu = PduName
    PROVE  Carried(out, appendPduSignals(out, m, rc), m, rc)
<1> DEFINE new == appendPduSignals(out, m, rc)
<1>1. m.start \in Uint32
  BY DEF Placements
<1>2. new = AllSignals(out, m.start, rc)
  BY DEF appendPduSignals, AllSignals
<1> HIDE DEF new
<1>3. Tells(out, new, DOMAIN pdu.mappings, m.start, rc)
  BY <1>1, <1>2, PduTold
<1>4. \A o : (m \in OfPdu(o) <=> m.start = o) /\ m \notin NotOfPdu(o)
  BY DEF OfPdu, NotOfPdu
<1>5. \A o : UnknownAt(out, o) \in Nat
  BY OutTyped
<1>6. ASSUME NEW j \in DOMAIN pdu.mappings, NEW o \in Uint32, Named(j)
      PROVE  Both(new, j, o, rc) = Both(out, j, o, rc) + IF m \in OfPdu(o) THEN 1 ELSE 0
  BY <1>3, <1>4, <1>6 DEF Tells
<1>7. new \in Outs(rc) /\ \A o \in Uint32 :
         UnknownAt(new, o) = UnknownAt(out, o) + IF m \in NotOfPdu(o) THEN 1 ELSE 0
  BY <1>3, <1>4, <1>5 DEF Tells
<1> QED
  BY <1>6, <1>7 DEF Carried, new

LEMMA UnknownCarried ==
    ASSUME pdu \in Input, NEW rc, NEW out \in Outs(rc), NEW m \in Placements, m.pdu # PduName
    PROVE  Carried(out, appendPduSignals(out, m, rc), m, rc)
<1> DEFINE new == appendPduSignals(out, m, rc)
           w == Warn("unknown_pdu", <<m.start, 0>>)
<1>1. m.start \in Uint32 /\ m.start \in Nat
  BY IntAssumption DEF Placements, Uint32
<1>2. new = [signals |-> out.signals, warnings |-> Append(out.warnings, w)]
  <2>1. new = [out EXCEPT !.warnings = Append(@, w)]
    BY DEF appendPduSignals
  <2> QED BY <2>1, MoreWarnings
<1>3. w \in Notices /\ \A c, p, j : w \in WarningsAt(c, p, j) <=> c = "unknown_pdu" /\ p = m.start /\ j = 0
  BY <1>1, WarnTyped
<1>4. /\ out.signals \in Seq(Exported(rc)) /\ out.warnings \in Seq(Notices)
      /\ \A o : UnknownAt(out, o) \in Nat
      /\ \A T : Times(out.signals, T) \in Nat
      /\ \A T : Times(out.warnings, T) \in Nat
  BY OutTyped, TimesTyped
<1> HIDE DEF new, w
<1>5. new.signals = out.signals /\ new.warnings = Append(out.warnings, w)
  BY <1>2
<1>6. new \in Outs(rc)
  BY <1>2, <1>3, <1>4 DEF Outs
<1>7. \A T : Times(new.warnings, T) = Times(out.warnings, T) + IF w \in T THEN 1 ELSE 0
  BY <1>3, <1>4, <1>5, TimesAppend
<1>8. \A o : (m \in NotOfPdu(o) <=> m.start = o) /\ m \notin OfPdu(o)
  BY DEF OfPdu, NotOfPdu
<1>9. ASSUME NEW j \in DOMAIN pdu.mappings, NEW o \in Uint32
      PROVE  Both(new, j, o, rc) = Both(out, j, o, rc) + IF m \in OfPdu(o) THEN 1 ELSE 0
  <2>1. w \notin WarningsAt("undefined_signal", o, j)
    BY <1>3
  <2> QED BY <1>4, <1>5, <1>7, <1>8, <2>1 DEF Both
<1>10. ASSUME NEW o \in Uint32
       PROVE  UnknownAt(new, o) = UnknownAt(out, o) + IF m \in NotOfPdu(o) THEN 1 ELSE 0
  BY <1>3, <1>7, <1>8 DEF UnknownAt
<1> QED
  BY <1>6, <1>9, <1>10 DEF Carried, new

LEMMA PlacementCarried ==
    ASSUME pdu \in Input, NEW rc, NEW out \in Outs(rc), NEW m \in Placements
    PROVE  Carried(out, appendPduSignals(out, m, rc), m, rc)
BY PduCarried, UnknownCarried

Upto(s, i, T) == Cardinality({x \in 1..i : s[x] \in T})

LEMMA UptoNext ==
    ASSUME NEW s, NEW T, NEW n \in Nat, NEW i \in 1..n
    PROVE  /\ Upto(s, 0, T) = 0 /\ Upto(s, i - 1, T) \in Nat
           /\ Upto(s, i, T) = Upto(s, i - 1, T) + IF s[i] \in T THEN 1 ELSE 0
<1> DEFINE S == {x \in 1..(i - 1) : s[x] \in T}
           R == {x \in 1..i : s[x] \in T}
<1>1. IsFiniteSet(S) /\ Cardinality(S) \in Nat
  <2>1. IsFiniteSet(1..(i - 1))
    BY FS_Interval
  <2>2. S \subseteq 1..(i - 1)
    OBVIOUS
  <2> HIDE DEF S
  <2> QED BY <2>1, <2>2, FS_Subset, FS_CardinalityType
<1>2. i \notin S /\ (s[i] \in T => R = S \cup {i}) /\ (s[i] \notin T => R = S)
  <2>1. \A x : x \in 1..i <=> x \in 1..(i - 1) \/ x = i
    OBVIOUS
  <2> QED BY <2>1
<1>3. Upto(s, 0, T) = 0
  <2>1. {x \in 1..0 : s[x] \in T} = {}
    OBVIOUS
  <2> QED BY <2>1, FS_EmptySet DEF Upto
<1>4. Upto(s, i - 1, T) = Cardinality(S) /\ Upto(s, i, T) = Cardinality(R)
  BY DEF Upto
<1> HIDE DEF S, R
<1>5. s[i] \in T => Cardinality(R) = Cardinality(S) + 1
  BY <1>1, <1>2, FS_AddElement
<1> QED
  BY <1>1, <1>2, <1>3, <1>4, <1>5

LEMMA UptoStep ==
    ASSUME NEW n \in Nat, NEW i \in 1..n, NEW s
    PROVE  \A T : Upto(s, i, T) = Upto(s, i - 1, T) + IF s[i] \in T THEN 1 ELSE 0
<1>1. ASSUME NEW T PROVE Upto(s, i, T) = Upto(s, i - 1, T) + IF s[i] \in T THEN 1 ELSE 0
  BY UptoNext
<1> QED
  BY <1>1

NoSignals == [signals |-> <<>>, warnings |-> <<>>]

LEMMA NothingYet ==
    ASSUME NEW rc
    PROVE  /\ NoSignals \in Outs(rc)
           /\ \A j, o : Both(NoSignals, j, o, rc) = 0 /\ UnknownAt(NoSignals, o) = 0
<1>1. NoSignals \in Outs(rc) /\ NoSignals.signals = <<>> /\ NoSignals.warnings = <<>>
  BY DEF NoSignals, Outs
<1>2. \A j, o : Both(NoSignals, j, o, rc) = 0 /\ UnknownAt(NoSignals, o) = 0
  BY <1>1, TimesEmpty DEF Both, UnknownAt
<1> QED
  BY <1>1, <1>2

\* After the first i of a frame's PDUs, everything has been told as often as it was placed.
Placed(out, pdus, i, receivers) ==
    /\ out \in Outs(receivers)
    /\ \A j \in DOMAIN pdu.mappings, o \in Uint32 :
          Named(j) => Both(out, j, o, receivers) = Upto(pdus, i, OfPdu(o))
    /\ \A o \in Uint32 : UnknownAt(out, o) = Upto(pdus, i, NotOfPdu(o))

LEMMA CarryLoop ==
    ASSUME NEW n \in Nat, NEW rc, NEW pdus, NEW it, it[{}] = NoSignals,
           \A i \in 1..n : it[1..(i - 1)] \in Outs(rc) => Carried(it[1..(i - 1)], it[1..i], pdus[i], rc)
    PROVE  Placed(it[1..n], pdus, n, rc)
<1> DEFINE P == {i \in 0..n : Placed(it[1..i], pdus, i, rc)}
<1>1. Placed(it[1..0], pdus, 0, rc)
  <2>1. 1..0 = {}
    OBVIOUS
  <2>2. it[1..0] = NoSignals
    BY <2>1
  <2>3. \A T : Upto(pdus, 0, T) = 0
    <3>1. \A T : {x \in 1..0 : pdus[x] \in T} = {}
      OBVIOUS
    <3> QED BY <3>1, FS_EmptySet DEF Upto
  <2> QED
    BY <2>2, <2>3, NothingYet DEF Placed
<1>2. ASSUME NEW i \in 1..n, Placed(it[1..(i - 1)], pdus, i - 1, rc)
      PROVE  Placed(it[1..i], pdus, i, rc)
  <2> DEFINE was == it[1..(i - 1)]
             is == it[1..i]
  <2>1. Carried(was, is, pdus[i], rc) /\ Placed(was, pdus, i - 1, rc)
    BY <1>2 DEF Placed
  <2>2. \A T : Upto(pdus, i, T) = Upto(pdus, i - 1, T) + IF pdus[i] \in T THEN 1 ELSE 0
    BY UptoStep, Zenon
  <2> HIDE DEF was, is
  <2>3. is \in Outs(rc)
    BY <2>1 DEF Carried
  <2>4. ASSUME NEW j \in DOMAIN pdu.mappings, NEW o \in Uint32, Named(j)
        PROVE  Both(is, j, o, rc) = Upto(pdus, i, OfPdu(o))
    BY <2>1, <2>2, <2>4 DEF Carried, Placed
  <2>5. ASSUME NEW o \in Uint32
        PROVE  UnknownAt(is, o) = Upto(pdus, i, NotOfPdu(o))
    BY <2>1, <2>2 DEF Carried, Placed
  <2> QED
    BY <2>3, <2>4, <2>5 DEF Placed, is
<1>3. 0 \in P /\ \A i \in 1..n : i - 1 \in P => i \in P
  BY <1>1, <1>2
<1>4. 0..n \subseteq P
  <2> HIDE DEF P
  <2> QED BY <1>3, Turns
<1> QED
  BY <1>4

FrameSignals(pdus, receivers) ==
    FoldLeft(LAMBDA o, m : appendPduSignals(o, m, receivers), NoSignals, pdus)

\* The loop of ExportFrame.
LEMMA FramePlaced ==
    ASSUME pdu \in Input, NEW rc, NEW pdus \in Seq(Placements)
    PROVE  Placed(FrameSignals(pdus, rc), pdus, Len(pdus), rc)
<1> DEFINE seq == pdus
           n == Len(pdus)
           op(qs, m) == appendPduSignals(qs, m, rc)
           G == [x \in (1..n) \X Outs(rc) |-> op(x[2], seq[x[1]])]
           Eq(it) == it = [t \in SUBSET DOMAIN seq |->
                              IF t = {} THEN NoSignals ELSE op(it[t \ {Max(t)}], seq[Max(t)])]
           it == CHOOSE it : Eq(it)
<1>1. NoSignals \in Outs(rc)
  BY NothingYet
<1>2. n \in Nat /\ DOMAIN seq = 1..n /\ \A i \in 1..n : seq[i] \in Placements /\ seq[i] = pdus[i]
  OBVIOUS
<1>3. FrameSignals(pdus, rc) = it[DOMAIN seq]
  BY DEF FrameSignals, FoldLeft, MapThenFoldSet
<1> HIDE DEF seq, n
<1>4. ASSUME NEW i \in 1..n, NEW qs \in Outs(rc) PROVE Carried(qs, op(qs, seq[i]), pdus[i], rc)
  BY <1>2, PlacementCarried
<1>5. \E g : Eq(g)
  <2>1. ASSUME NEW i \in 1..n, NEW qs \in Outs(rc)
        PROVE  G[<<i, qs>>] = op(qs, seq[i]) /\ op(qs, seq[i]) \in Outs(rc)
    BY <1>4 DEF Carried
  <2>2. G \in [(1..n) \X Outs(rc) -> Outs(rc)]
    BY <2>1
  <2>3. PICK g \in [SUBSET (1..n) -> Outs(rc)] : Folds(g, n, Outs(rc), NoSignals, G)
    <3> HIDE DEF G
    <3> QED BY <1>1, <1>2, <2>2, FoldSolved
  <2> HIDE DEF op, G
  <2>4. g = [t \in SUBSET (1..n) |-> IF t = {} THEN NoSignals ELSE op(g[t \ {Max(t)}], seq[Max(t)])]
    BY <2>1, <2>3 DEF Folds
  <2>5. DOMAIN seq = 1..n
    BY <1>2
  <2>6. Eq(g)
    BY <2>4, <2>5, Zenon
  <2> QED BY <2>6
<1>6. Eq(it)
  BY <1>5
<1> HIDE DEF it, op
<1>7. \A t \in SUBSET (1..n) : it[t] = IF t = {} THEN NoSignals ELSE op(it[t \ {Max(t)}], seq[Max(t)])
  BY <1>2, <1>6
<1>8. it[{}] = NoSignals
  BY <1>7
<1>9. ASSUME NEW i \in 1..n, it[1..(i - 1)] \in Outs(rc)
      PROVE  Carried(it[1..(i - 1)], it[1..i], pdus[i], rc)
  <2>1. Max(1..i) = i /\ (1..i) \ {i} = 1..(i - 1) /\ 1..i # {} /\ 1..i \in SUBSET (1..n)
    BY <1>2, UpTo, Zenon
  <2>2. it[1..i] = op(it[1..(i - 1)], seq[i])
    BY <1>7, <2>1, Zenon
  <2> QED BY <1>4, <1>9, <2>2
<1>10. Placed(it[1..n], pdus, n, rc)
  BY <1>2, <1>8, <1>9, CarryLoop
<1> QED
  BY <1>2, <1>3, <1>10 DEF n

--------------------------------------------------------------------------------
(* The invariant *)

SignalExports == [place : Nat \ {0}, offset : Uint32, name : Names \cup {NoRef}, start : Nat,
                  big : BOOLEAN, length : Nat, scaling : {"chain", "model"}, receivers : Seq(Ecus)]
FrameExports == [of : Nat, id : Identifier, transmitters : Seq(Ecus), signals : Seq(SignalExports)]
Warnings == [frame : Nat, code : {"undefined_signal", "unknown_pdu", "no_identifier"},
             place : Nat \X Nat]

\* An exported signal occupies in the frame the bits that the validator claimed.
KeepsLayout(e) ==
    LET m == pdu.mappings[e.place] IN
        Plain(m) /\ e.offset % 8 = 0 /\ m.start + e.offset < 2 * IntMax + 2 =>
            \A p \in 0..(pduBits - 1) : Occupies(e, p + e.offset) <=> Covers(m, p)

\* The PDU has been walked before the export begins, and the loop over the frames
\* has not left one behind.
Stages ==
    /\ net \in Network
    /\ stage \in {"ports", "groups", "frames", "end"}
    /\ stage # "ports" => pc = "done"
    /\ stage \in {"ports", "groups"} => turn = 1 /\ frames = <<>> /\ warnings = <<>>
    /\ turn \in 1..(Len(net.frames) + 1)
    /\ stage = "frames" => turn \in DOMAIN net.frames

\* The map holds the roles of the ports, then those of the groups too.
PartiesSaid ==
    /\ parties \in PartyMaps
    /\ stage = "ports" => \A r \in Roles : r \notin Said(parties)
    /\ stage = "groups" => \A r \in Roles : r \in Said(parties) <=> r \in PortPartyRoles
    /\ stage \in {"frames", "end"} =>
          \A r \in Roles : r \in Said(parties) <=> r \in PortPartyRoles \/ r \in GroupPartyRoles

\* A frame of the export has the parties of the map and signals of the PDU.
FrameMade(e) ==
    LET f == net.frames[e.of]
        who == parties[f.name] IN
    /\ e.transmitters = IF who.transmitters = <<>> THEN f.transmitters ELSE who.transmitters
    /\ \A x \in DOMAIN e.signals :
          /\ KeepsLayout(e.signals[x])
          /\ who.receivers # <<>> => e.signals[x].receivers = who.receivers

FramesMade ==
    /\ frames \in Seq(FrameExports)
    /\ \A j \in DOMAIN frames : frames[j].of \in 1..(turn - 1) /\ FrameMade(frames[j])
    /\ warnings \in Seq(Warnings)
    /\ \A j \in DOMAIN warnings : warnings[j].frame \in 1..(turn - 1)

ExportInv == IInv /\ Stages /\ PartiesSaid /\ FramesMade /\ NothingDroppedSilently

\* A frame's signals are looked up by name: what is found has that name.
LEMMA SignalPicked ==
    ASSUME pdu \in Input, NEW name, pickModelSignal(name) # 0
    PROVE  /\ pickModelSignal(name) \in DOMAIN pdu.signals
           /\ pdu.signals[pickModelSignal(name)] \in Signal
           /\ pdu.signals[pickModelSignal(name)].name = name
<1> DEFINE n == Len(pdu.signals)
           S == {i \in 1..n : pdu.signals[i].tag = "I-SIGNAL" /\ pdu.signals[i].name = name}
           L == {i \in 1..n : pdu.signals[i].name = name /\ ModelLength(pdu.signals[i]) # 0}
           A == {i \in 1..n : pdu.signals[i].name = name}
           i == pickModelSignal(name)
<1>1. pdu.signals \in Seq(Signal)
  BY DEF Input
<1>2. n \in Nat /\ DOMAIN pdu.signals = 1..n /\ \A j \in 1..n : pdu.signals[j] \in Signal
  BY <1>1
<1>3. ISignal(name) = IF S # {} THEN Min(S) ELSE 0
  BY DEF ISignal, SelectInSeq
<1>4. \/ i = ISignal(name)
      \/ i = IF L # {} THEN Min(L) ELSE 0
      \/ i = IF A # {} THEN Min(A) ELSE 0
  BY DEF pickModelSignal, SelectInSeq
<1>5. S \in SUBSET (1..n) /\ L \in SUBSET (1..n) /\ A \in SUBSET (1..n) /\ S \subseteq A /\ L \subseteq A
  OBVIOUS
<1>6. i \in A
  <2> HIDE DEF S, L, A, n, i
  <2>1. \A X \in SUBSET (1..n) : X # {} => Min(X) \in X
    BY <1>2, LeastIndex
  <2>2. i # 0
    BY DEF i
  <2> QED BY <1>3, <1>4, <1>5, <2>1, <2>2
<1> QED
  BY <1>2, <1>6

LEMMA MappingFound ==
    ASSUME pdu \in Input, NEW i \in DOMAIN pdu.mappings
    PROVE  /\ FirstMapping(pdu.mappings[i].signal) \in DOMAIN pdu.mappings
           /\ pdu.mappings[FirstMapping(pdu.mappings[i].signal)].signal = pdu.mappings[i].signal
<1> DEFINE n == Len(pdu.mappings)
           name == pdu.mappings[i].signal
           A == {j \in 1..n : pdu.mappings[j].signal = name}
<1>1. pdu.mappings \in Seq(Mapping)
  BY DEF Input
<1>2. n \in Nat /\ DOMAIN pdu.mappings = 1..n
  BY <1>1
<1>3. FirstMapping(name) = IF A # {} THEN Min(A) ELSE 0
  BY DEF FirstMapping, SelectInSeq
<1>4. i \in A /\ A \in SUBSET (1..n)
  BY <1>2
<1>5. FirstMapping(name) \in A
  <2> HIDE DEF A, n, name
  <2> QED BY <1>2, <1>3, <1>4, LeastIndex
<1> QED
  BY <1>2, <1>5

\* A row of bits and a run of numbers move together by whole bytes.
LEMMA RowMoves ==
    ASSUME NEW p \in Nat, NEW o \in Nat, o % 8 = 0
    PROVE  Row(p + o) = Row(p) + o
<1>1. PICK q \in Nat : o = 8 * q
  OBVIOUS
<1>2. (p + 8 * q) \div 8 = (p \div 8) + q /\ (p + 8 * q) % 8 = p % 8
  BY <1>1
<1> QED
  BY <1>1, <1>2 DEF Row

LEMMA LengthTyped ==
    ASSUME NEW s \in Signal
    PROVE  ModelLength(s) \in Nat /\ s.value \in Nat
<1>1. s.value \in Nat
  BY IntAssumption DEF Signal, Uint32
<1>2. 10 * (s.value \div 8) + (s.value % 8) \in Nat
  BY <1>1
<1> QED
  BY <1>1, <1>2 DEF ModelLength

LEMMA SignalTyped ==
    ASSUME pdu \in Input, net \in Network, NEW i \in DOMAIN pdu.mappings, NEW offset \in Uint32,
           Named(i), Found(i), NEW rc \in Seq(Ecus)
    PROVE  makeSignal(i, offset, rc) \in SignalExports
<1> DEFINE m == pdu.mappings[i]
           n == m.signal
           s == (m.start + offset) % (2 * IntMax + 2)
           b == pdu.mappings[FirstMapping(n)].packing = "MOST-SIGNIFICANT-BYTE-FIRST"
           l == RawLength(n)
           c == Scaling(n)
           r == IF rc = <<>> THEN net.receiverRefs[n] ELSE rc
<1>1. m \in Mapping /\ i \in Nat \ {0}
  <2>1. pdu.mappings \in Seq(Mapping)
    BY DEF Input
  <2> QED BY <2>1
<1>2. n \in Names
  BY <1>1 DEF Mapping, Named
<1>3. s \in Nat
  <2>1. m.start \in Nat /\ offset \in Nat
    BY <1>1, IntAssumption DEF Mapping, Uint32
  <2> HIDE DEF m
  <2> QED BY <2>1, IntAssumption
<1>4. l \in Nat
  <2>1. pdu.signals[pickModelSignal(n)] \in Signal
    BY SignalPicked DEF Found
  <2> QED BY <2>1, LengthTyped DEF RawLength
<1>5. c \in {"chain", "model"}
  BY DEF Scaling
<1>6. r \in Seq(Ecus)
  BY <1>2 DEF Network
<1>7. b \in BOOLEAN
  OBVIOUS
<1>8. makeSignal(i, offset, rc) =
         [place |-> i, offset |-> offset, name |-> n, start |-> s, big |-> b, length |-> l,
          scaling |-> c, receivers |-> r]
  BY DEF makeSignal
<1> HIDE DEF m, n, s, b, l, c, r
<1> QED
  BY <1>1, <1>2, <1>3, <1>4, <1>5, <1>6, <1>7, <1>8 DEF SignalExports

\* The bits of a signal, in the frame and in the PDU.
LEMMA SignalKeepsLayout ==
    ASSUME pdu \in Input, NEW i \in DOMAIN pdu.mappings, NEW offset \in Uint32, Named(i), Found(i), NEW rc
    PROVE  KeepsLayout(makeSignal(i, offset, rc))
<1> DEFINE e == makeSignal(i, offset, rc)
           m == pdu.mappings[i]
           n == m.signal
           d == pickModelSignal(n)
<1>0. e.place = i /\ e.offset = offset
  BY SignalMade
<1> SUFFICES ASSUME Plain(m), offset % 8 = 0, m.start + offset < 2 * IntMax + 2,
                    NEW p \in 0..(pduBits - 1)
             PROVE  Occupies(e, p + offset) <=> Covers(m, p)
  BY <1>0, Zenon DEF KeepsLayout
<1>1. m \in Mapping /\ m.start \in Nat /\ offset \in Nat /\ p \in Nat
  <2>1. pdu.mappings \in Seq(Mapping)
    BY DEF Input
  <2>2. m \in Mapping
    BY <2>1
  <2>3. p \in Nat
    BY IntAssumption DEF pduBits, Input, Uint32
  <2> QED BY <2>2, <2>3, IntAssumption DEF Mapping, Uint32
<1>2. d \in DOMAIN pdu.signals /\ pdu.signals[d] \in Signal /\ d \in SignalsNamed(n)
  BY SignalPicked DEF Found, SignalsNamed
<1>3. \A j \in SignalsNamed(n) : j = d
  BY <1>2 DEF Plain
<1>4. pdu.signals[d].literal = "decimal"
  BY <1>2 DEF Plain
<1>5. BitLength(n) = ModelLength(pdu.signals[d])
  <2>1. d <= d
    <3>1. pdu.signals \in Seq(Signal)
      BY DEF Input
    <3> QED BY <1>2, <3>1
  <2>2. \E j \in SignalsNamed(n) : \A x \in SignalsNamed(n) : j <= x
    BY <1>2, <1>3, <2>1
  <2>3. (CHOOSE j \in SignalsNamed(n) : \A x \in SignalsNamed(n) : j <= x) = d
    BY <1>3, <2>2
  <2> QED BY <2>3 DEF BitLength
<1>6. RawLength(n) = ModelLength(pdu.signals[d]) /\ BitLength(n) \in Nat
  BY <1>2, <1>4, <1>5, LengthTyped DEF RawLength, ModelLength
<1>7. Defined(n)
  BY <1>2 DEF Defined
<1>8. pdu.mappings[FirstMapping(n)].packing = m.packing
  BY MappingFound DEF Plain
<1>9. m.packing = "MOST-SIGNIFICANT-BYTE-FIRST" <=> ~LittleEndian(m)
  BY DEF Plain, LittleEndian
<1>10. (m.start + offset) % (2 * IntMax + 2) = m.start + offset
  <2> HIDE DEF m
  <2> QED BY <1>1, IntAssumption
<1>11. /\ e.big <=> ~LittleEndian(m)
       /\ e.start = m.start + offset
       /\ e.length = BitLength(n)
  BY <1>5, <1>6, <1>8, <1>9, <1>10 DEF makeSignal
<1> HIDE DEF e
<1>12. CASE LittleEndian(m)
  <2>1. Occupies(e, p + offset) <=> m.start + offset <= p + offset /\ p + offset < m.start + offset + BitLength(n)
    BY <1>11, <1>12 DEF Occupies
  <2>2. Covers(m, p) <=> m.start <= p /\ p < m.start + BitLength(n)
    BY <1>7, <1>12 DEF Covers
  <2> HIDE DEF m, n
  <2> QED BY <1>1, <1>6, <2>1, <2>2
<1>13. CASE ~LittleEndian(m)
  <2>1. Occupies(e, p + offset) <=>
           Row(m.start + offset) <= Row(p + offset) /\ Row(p + offset) < Row(m.start + offset) + BitLength(n)
    BY <1>11, <1>13 DEF Occupies
  <2>2. Covers(m, p) <=> Row(m.start) <= Row(p) /\ Row(p) < Row(m.start) + BitLength(n)
    BY <1>7, <1>13 DEF Covers
  <2>3. Row(m.start + offset) = Row(m.start) + offset /\ Row(p + offset) = Row(p) + offset
    BY <1>1, RowMoves
  <2>4. Row(m.start) \in Nat /\ Row(p) \in Nat
    BY <1>1, RowFacts
  <2> HIDE DEF m, n
  <2> QED BY <1>1, <1>6, <2>1, <2>2, <2>3, <2>4
<1> QED
  BY <1>12, <1>13 DEF e

LEMMA ExportedRight ==
    ASSUME pdu \in Input, net \in Network, NEW rc \in Seq(Ecus), NEW e \in Exported(rc)
    PROVE  e \in SignalExports /\ KeepsLayout(e) /\ (rc # <<>> => e.receivers = rc)
<1>1. PICK x \in {y \in (DOMAIN pdu.mappings) \X Uint32 : Named(y[1]) /\ Found(y[1])} :
          e = makeSignal(x[1], x[2], rc)
  BY Zenon DEF Exported
<1>2. x[1] \in DOMAIN pdu.mappings /\ x[2] \in Uint32 /\ Named(x[1]) /\ Found(x[1])
  <2> DEFINE D == DOMAIN pdu.mappings
  <2>1. x \in D \X Uint32 /\ Named(x[1]) /\ Found(x[1])
    BY <1>1, Zenon
  <2>2. x[1] \in D /\ x[2] \in Uint32
    <3> HIDE DEF D
    <3> QED BY <2>1
  <2> QED BY <2>1, <2>2
<1>3. e \in SignalExports
  BY <1>1, <1>2, SignalTyped
<1>4. KeepsLayout(e)
  BY <1>1, <1>2, SignalKeepsLayout
<1>5. rc # <<>> => e.receivers = rc
  BY <1>1, <1>2, SignalMade
<1> QED
  BY <1>3, <1>4, <1>5

\* The other steps leave the file as it is, and with it what the loops will find.
LEMMA SameFile ==
    ASSUME net' = net
    PROVE  PortPartyRoles' = PortPartyRoles /\ GroupPartyRoles' = GroupPartyRoles
<1>1. \A name : TriggeringOf(name)' = TriggeringOf(name)
  BY DEF TriggeringOf, SelectInSeq
<1>2. \A name : PortOf(name)' = PortOf(name)
  BY DEF PortOf, SelectInSeq
<1>3. \A name, f : PortRoles(name, f)' = PortRoles(name, f)
  BY <1>2 DEF PortRoles
<1>4. \A f : TriggeringPorts(f)' = TriggeringPorts(f)
  BY <1>1 DEF TriggeringPorts
<1>5. \A f : TriggeringRoles(f)' = TriggeringRoles(f)
  BY <1>3, <1>4 DEF TriggeringRoles
<1>6. PortPartyRoles' = PortPartyRoles
  BY <1>5 DEF PortPartyRoles
<1>7. \A path : GroupOf(path)' = GroupOf(path)
  BY DEF GroupOf, SelectInSeq
<1>8. \A path : GroupPdus(path)' = GroupPdus(path)
  BY <1>7 DEF GroupPdus
<1>9. \A p, out, ecu : CarrierRoles(p, out, ecu)' = CarrierRoles(p, out, ecu)
  BY DEF CarrierRoles
<1>10. \A path, ecu : GroupRoles(path, ecu)' = GroupRoles(path, ecu)
  BY <1>7, <1>8, <1>9 DEF GroupRoles
<1>11. \A ecu : EcuRoles(ecu)' = EcuRoles(ecu)
  BY <1>10 DEF EcuRoles
<1>12. GroupPartyRoles' = GroupPartyRoles
  BY <1>11 DEF GroupPartyRoles
<1> QED
  BY <1>6, <1>12

LEMMA SameParties ==
    ASSUME net' = net, parties' = parties, PartiesSaid,
           stage' = stage \/ (stage = "frames" /\ stage' \in {"frames", "end"})
    PROVE  PartiesSaid'
<1>1. PortPartyRoles' = PortPartyRoles /\ GroupPartyRoles' = GroupPartyRoles
  BY SameFile
<1>2. Said(parties)' = Said(parties)
  BY DEF Said, Party
<1> QED
  BY <1>1, <1>2 DEF PartiesSaid

LEMMA SameSignals ==
    ASSUME pdu' = pdu, net' = net, parties' = parties
    PROVE  \A e : FrameMade(e)' <=> FrameMade(e)
<1>1. pduBits' = pduBits /\ \A m, p : Covers(m, p)' <=> Covers(m, p)
  BY SamePdu DEF pduBits
<1>2. \A m : Plain(m)' <=> Plain(m)
  <2>1. \A n : SignalsNamed(n)' = SignalsNamed(n)
    BY DEF SignalsNamed
  <2> QED BY <2>1 DEF Plain
<1>3. \A e : KeepsLayout(e)' <=> KeepsLayout(e)
  BY <1>1, <1>2 DEF KeepsLayout, Occupies
<1> QED
  BY <1>3 DEF FrameMade

--------------------------------------------------------------------------------
(* The stages keep the invariant *)

LEMMA NoFrames ==
    ASSUME frames = <<>>, warnings = <<>>, turn = 1
    PROVE  FramesMade /\ NothingDroppedSilently
<1>1. frames \in Seq(FrameExports) /\ DOMAIN frames = {} /\ warnings \in Seq(Warnings) /\ DOMAIN warnings = {}
  OBVIOUS
<1>2. 1..(turn - 1) = {}
  OBVIOUS
<1> QED
  BY <1>1, <1>2, Zenon DEF FramesMade, NothingDroppedSilently

LEMMA NobodySaid ==
    [f \in Frames |-> Nobody] \in PartyMaps /\ \A r \in Roles : r \notin Said([f \in Frames |-> Nobody])
<1> DEFINE ps == [f \in Frames |-> Nobody]
<1>1. Nobody \in PartyLists /\ Nobody.transmitters = <<>> /\ Nobody.receivers = <<>>
  BY DEF Nobody, PartyLists
<1>2. ps \in [Frames -> PartyLists] /\ \A f \in Frames, out \in BOOLEAN : Party(ps, f, out) = <<>>
  BY <1>1 DEF Party
<1>3. IsInjective(<<>>) /\ Range(<<>>) = {}
  BY DEF IsInjective, Range
<1> HIDE DEF ps
<1>4. Once(ps)
  BY <1>2, <1>3, Zenon DEF Once
<1>5. ps \in PartyMaps
  BY <1>2, <1>4, Zenon DEF PartyMaps
<1>6. \A r \in Roles : r \notin Said(ps)
  <2> SUFFICES ASSUME NEW r \in Roles PROVE r \notin Said(ps)
    OBVIOUS
  <2>1. r[1] \in Frames /\ r[2] \in BOOLEAN
    BY DEF Roles
  <2>2. Range(Party(ps, r[1], r[2])) = {}
    BY <1>2, <1>3, <2>1, Zenon
  <2> QED BY <2>2 DEF Said
<1> QED
  BY <1>5, <1>6 DEF ps

LEMMA ExportBegins == ExportInit => ExportInv
<1> SUFFICES ASSUME ExportInit PROVE ExportInv
  OBVIOUS
<1> USE DEF ExportInit
<1>1. IInv
  BY InitInv
<1>2. net \in Network
  BY NetworkAssumption DEF Init
<1>3. Stages
  <2>1. net.frames \in Seq(Frame)
    BY <1>2 DEF Network
  <2>2. 1 \in 1..(Len(net.frames) + 1)
    BY <2>1
  <2> QED BY <1>2, <2>2 DEF Stages
<1>4. PartiesSaid
  BY NobodySaid DEF PartiesSaid
<1>5. FramesMade /\ NothingDroppedSilently
  BY NoFrames
<1> QED
  BY <1>1, <1>3, <1>4, <1>5 DEF ExportInv

LEMMA WalkKeeps ==
    ASSUME IInv, Next
    PROVE  IInv' /\ pdu' = pdu /\ pc # "done"
<1> USE DEF Next
<1>1. IInv'
  BY LengthKeeps, SkipKeeps, BeginKeeps, ClaimKeeps, OutOfRangeKeeps, CollisionKeeps
<1>2. pdu' = pdu /\ pc # "done"
  BY DEF CheckPayloadLength, SkipMapping, BeginSignal, ClaimBit, OutOfRange, Collision, NextMapping
<1> QED
  BY <1>1, <1>2

LEMMA ValidateKeeps == ASSUME ExportInv, Validate PROVE ExportInv'
<1> USE DEF ExportInv
<1>1. IInv' /\ pdu' = pdu /\ pc # "done"
  BY WalkKeeps DEF Validate
<1>2. UNCHANGED exportVars
  BY DEF Validate
<1>3. stage = "ports" /\ turn = 1 /\ frames = <<>> /\ warnings = <<>>
  BY <1>1 DEF Stages
<1>4. Stages'
  BY <1>2, <1>3 DEF Stages, exportVars
<1>5. PartiesSaid'
  BY <1>2, SameParties DEF exportVars
<1>6. FramesMade' /\ NothingDroppedSilently'
  <2>1. (frames = <<>> /\ warnings = <<>> /\ turn = 1)'
    BY <1>2, <1>3 DEF exportVars
  <2> QED BY <2>1, NoFrames, PTL
<1> QED
  BY <1>1, <1>4, <1>5, <1>6

\* The stages before the frames.
LEMMA PartiesKeep ==
    ASSUME ExportInv, UNCHANGED <<vars, net, turn, frames, warnings>>,
           turn = 1, frames = <<>>, warnings = <<>>
    PROVE  IInv' /\ FramesMade' /\ NothingDroppedSilently'
<1>1. IInv'
  BY StutterKeeps DEF ExportInv
<1>2. (frames = <<>> /\ warnings = <<>> /\ turn = 1)'
  OBVIOUS
<1>3. FramesMade' /\ NothingDroppedSilently'
  BY <1>2, NoFrames, PTL
<1> QED
  BY <1>1, <1>3

LEMMA PortPartiesKeep == ASSUME ExportInv, AddPortParties PROVE ExportInv'
<1> USE DEF ExportInv
<1>1. /\ pc = "done" /\ stage = "ports" /\ stage' = "groups"
      /\ parties' = addPortParties(parties)
      /\ UNCHANGED <<vars, net, turn, frames, warnings>>
  BY DEF AddPortParties
<1>2. turn = 1 /\ frames = <<>> /\ warnings = <<>> /\ net \in Network
  BY <1>1 DEF Stages
<1>3. IInv' /\ FramesMade' /\ NothingDroppedSilently'
  BY <1>1, <1>2, PartiesKeep
<1>4. Stages'
  BY <1>1 DEF Stages, vars
<1>5. Adds(parties, parties', PortPartyRoles)
  BY <1>1, <1>2, PortPartiesAdded DEF PartiesSaid
<1>6. PortPartyRoles' = PortPartyRoles
  BY <1>1, SameFile
<1>7. Said(parties)' = Said(parties')
  BY DEF Said, Party
<1>8. PartiesSaid'
  BY <1>1, <1>5, <1>6, <1>7 DEF PartiesSaid, Adds
<1> QED
  BY <1>3, <1>4, <1>8

LEMMA GroupPartiesKeep == ASSUME ExportInv, AddGroupParties PROVE ExportInv'
<1> USE DEF ExportInv
<1>1. /\ stage = "groups" /\ stage' = NextStage(turn)
      /\ parties' = addGroupParties(parties)
      /\ UNCHANGED <<vars, net, turn, frames, warnings>>
  BY DEF AddGroupParties
<1>2. turn = 1 /\ frames = <<>> /\ warnings = <<>> /\ net \in Network /\ pc = "done"
  BY <1>1 DEF Stages
<1>3. IInv' /\ FramesMade' /\ NothingDroppedSilently'
  BY <1>1, <1>2, PartiesKeep
<1>4. stage' \in {"frames", "end"} /\ (stage' = "frames" => 1 \in DOMAIN net.frames)
  <2>1. net.frames \in Seq(Frame)
    BY <1>2 DEF Network
  <2> QED BY <1>1, <1>2, <2>1 DEF NextStage
<1>5. Stages'
  BY <1>1, <1>2, <1>4 DEF Stages, vars
<1>6. Adds(parties, parties', GroupPartyRoles)
  BY <1>1, <1>2, GroupPartiesAdded DEF PartiesSaid
<1>7. PortPartyRoles' = PortPartyRoles /\ GroupPartyRoles' = GroupPartyRoles
  BY <1>1, SameFile
<1>8. Said(parties)' = Said(parties')
  BY DEF Said, Party
<1>9. PartiesSaid'
  BY <1>1, <1>4, <1>6, <1>7, <1>8 DEF PartiesSaid, Adds
<1> QED
  BY <1>3, <1>5, <1>9

LEMMA AdvanceKeeps ==
    ASSUME ExportInv, stage = "frames", Advance, UNCHANGED <<vars, net, parties>>
    PROVE  /\ IInv' /\ Stages' /\ PartiesSaid'
           /\ turn \in Nat \ {0} /\ turn' = turn + 1
           /\ turn \in DOMAIN net.frames /\ net.frames[turn] \in Frame
           /\ \A f : f \in 1..(turn' - 1) <=> f \in 1..(turn - 1) \/ f = turn
           /\ \A e : FrameMade(e)' <=> FrameMade(e)
<1> USE DEF ExportInv
<1>1. net \in Network /\ net.frames \in Seq(Frame) /\ turn \in DOMAIN net.frames /\ pc = "done"
  BY DEF Stages, Network
<1>2. turn' = turn + 1 /\ stage' = IF turn + 1 > Len(net.frames) THEN "end" ELSE "frames"
  BY DEF Advance, NextStage
<1>3. IInv'
  BY StutterKeeps
<1>4. turn \in 1..Len(net.frames) /\ Len(net.frames) \in Nat /\ DOMAIN net.frames = 1..Len(net.frames)
  BY <1>1
<1>5. Stages'
  BY <1>1, <1>2, <1>4 DEF Stages, vars
<1>6. PartiesSaid'
  BY <1>2, SameParties
<1>7. \A e : FrameMade(e)' <=> FrameMade(e)
  BY SameSignals DEF vars
<1> QED
  BY <1>1, <1>2, <1>3, <1>4, <1>5, <1>6, <1>7

\* The counts of NothingDroppedSilently.
ToldOf(f) == {j \in DOMAIN frames : frames[j].of = f}
WarnedOf(f, code, place) == Spots(warnings, {[frame |-> f, code |-> code, place |-> place]})
PlacesOf(f, T) == Cardinality({x \in DOMAIN net.frames[f].pdus : net.frames[f].pdus[x] \in T})
SignalsOf(e, i, start) ==
    Cardinality({x \in DOMAIN e.signals : e.signals[x].place = i /\ e.signals[x].offset = start})

\* One frame's accounts.
InOnePlace(f) ==
    Cardinality(ToldOf(f)) + Cardinality(WarnedOf(f, "no_identifier", <<0, 0>>)) = 1
AccountedAt(f, e, start) ==
    /\ Cardinality(WarnedOf(f, "unknown_pdu", <<start, 0>>)) = PlacesOf(f, NotOfPdu(start))
    /\ \A i \in DOMAIN pdu.mappings : Named(i) =>
          PlacesOf(f, OfPdu(start)) =
              SignalsOf(e, i, start) + Cardinality(WarnedOf(f, "undefined_signal", <<start, i>>))
Accounted(f, e) == \A m \in DOMAIN net.frames[f].pdus : AccountedAt(f, e, net.frames[f].pdus[m].start)
FrameAccounted(f) == InOnePlace(f) /\ \A t \in ToldOf(f) : Accounted(f, frames[t])
AllAccounted == \A f \in 1..(turn - 1) : FrameAccounted(f)

LEMMA PlacesCounted ==
    ASSUME net \in Network, NEW f \in DOMAIN net.frames, NEW o
    PROVE  /\ Cardinality({x \in DOMAIN net.frames[f].pdus :
                              /\ net.frames[f].pdus[x].start = o
                              /\ (net.frames[f].pdus[x].pdu = PduName) = TRUE}) = PlacesOf(f, OfPdu(o))
           /\ Cardinality({x \in DOMAIN net.frames[f].pdus :
                              /\ net.frames[f].pdus[x].start = o
                              /\ (net.frames[f].pdus[x].pdu = PduName) = FALSE}) = PlacesOf(f, NotOfPdu(o))
<1> DEFINE pdus == net.frames[f].pdus
<1>1. pdus \in Seq(Placements)
  <2>1. net.frames[f] \in Frame
    <3>1. net.frames \in Seq(Frame)
      BY DEF Network
    <3> QED BY <3>1
  <2> QED BY <2>1 DEF Frame, Placements
<1>2. \A x \in DOMAIN pdus : pdus[x] \in Placements
  BY <1>1
<1> HIDE DEF pdus
<1>3. {x \in DOMAIN pdus : pdus[x].start = o /\ (pdus[x].pdu = PduName) = TRUE} =
         {x \in DOMAIN pdus : pdus[x] \in OfPdu(o)}
  <2>1. \A x \in DOMAIN pdus : pdus[x].start = o /\ (pdus[x].pdu = PduName) = TRUE <=> pdus[x] \in OfPdu(o)
    BY <1>2 DEF OfPdu
  <2> QED BY <2>1
<1>4. {x \in DOMAIN pdus : pdus[x].start = o /\ (pdus[x].pdu = PduName) = FALSE} =
         {x \in DOMAIN pdus : pdus[x] \in NotOfPdu(o)}
  <2>1. \A x \in DOMAIN pdus : pdus[x].start = o /\ (pdus[x].pdu = PduName) = FALSE <=> pdus[x] \in NotOfPdu(o)
    BY <1>2 DEF NotOfPdu
  <2> QED BY <2>1
<1> QED
  BY <1>3, <1>4, Zenon DEF PlacesOf, pdus

LEMMA WarningsCounted ==
    \A f, c, p : WarnedOf(f, c, p) =
                    {j \in DOMAIN warnings : warnings[j] = [frame |-> f, code |-> c, place |-> p]}
BY DEF WarnedOf, Spots

LEMMA Accounts ==
    ASSUME Stages
    PROVE  NothingDroppedSilently <=> AllAccounted
<1> DEFINE Known(f, o) ==
               Cardinality({x \in DOMAIN net.frames[f].pdus :
                               /\ net.frames[f].pdus[x].start = o
                               /\ (net.frames[f].pdus[x].pdu = PduName) = TRUE})
           Unknown(f, o) ==
               Cardinality({x \in DOMAIN net.frames[f].pdus :
                               /\ net.frames[f].pdus[x].start = o
                               /\ (net.frames[f].pdus[x].pdu = PduName) = FALSE})
           Warned(f, c, p) == {j \in DOMAIN warnings : warnings[j] = [frame |-> f, code |-> c, place |-> p]}
           Fine(f) ==
               /\ Cardinality(ToldOf(f)) + Cardinality(Warned(f, "no_identifier", <<0, 0>>)) = 1
               /\ \A t \in ToldOf(f), m \in DOMAIN net.frames[f].pdus :
                     /\ Cardinality(Warned(f, "unknown_pdu", <<net.frames[f].pdus[m].start, 0>>))
                           = Unknown(f, net.frames[f].pdus[m].start)
                     /\ \A i \in DOMAIN pdu.mappings : Named(i) =>
                           Known(f, net.frames[f].pdus[m].start) =
                               SignalsOf(frames[t], i, net.frames[f].pdus[m].start)
                               + Cardinality(Warned(f, "undefined_signal",
                                                    <<net.frames[f].pdus[m].start, i>>))
<1>1. NothingDroppedSilently <=> \A f \in 1..(turn - 1) : Fine(f)
  BY Zenon DEF NothingDroppedSilently, ToldOf, SignalsOf, Named
<1>2. net.frames \in Seq(Frame) /\ net \in Network /\ turn \in 1..(Len(net.frames) + 1)
  BY DEF Stages, Network
<1>3. \A f, c, p : Warned(f, c, p) = WarnedOf(f, c, p)
  BY DEF WarnedOf, Spots
<1>4. ASSUME NEW f \in DOMAIN net.frames, NEW o
      PROVE  Known(f, o) = PlacesOf(f, OfPdu(o)) /\ Unknown(f, o) = PlacesOf(f, NotOfPdu(o))
  BY <1>2, PlacesCounted
<1> HIDE DEF Known, Unknown, Warned
<1>5. ASSUME NEW f \in 1..(turn - 1) PROVE Fine(f) <=> FrameAccounted(f)
  <2>1. f \in DOMAIN net.frames
    BY <1>2
  <2> QED
    BY <1>3, <1>4, <2>1, Zenon DEF FrameAccounted, InOnePlace, Accounted, AccountedAt
<1> HIDE DEF Fine
<1> QED
  BY <1>1, <1>5 DEF AllAccounted

\* What is appended later leaves the accounts of the frames behind as they are.
LEMMA AccountsKept ==
    ASSUME NEW f, FrameAccounted(f), pdu' = pdu, net' = net,
           ToldOf(f)' = ToldOf(f), \A t \in ToldOf(f) : frames'[t] = frames[t],
           \A c, p : WarnedOf(f, c, p)' = WarnedOf(f, c, p)
    PROVE  FrameAccounted(f)'
<1>1. \A T : PlacesOf(f, T)' = PlacesOf(f, T)
  BY DEF PlacesOf
<1>2. \A i : Named(i)' <=> Named(i)
  BY DEF Named
<1>3. \A t \in ToldOf(f) : Accounted(f, frames[t])
  BY DEF FrameAccounted
<1>4. \A e : Accounted(f, e) => Accounted(f, e)'
  <2> SUFFICES ASSUME NEW e, Accounted(f, e) PROVE Accounted(f, e)'
    OBVIOUS
  <2>1. \A i, o : SignalsOf(e, i, o)' = SignalsOf(e, i, o)
    BY DEF SignalsOf
  <2>2. \A o : OfPdu(o)' = OfPdu(o) /\ NotOfPdu(o)' = NotOfPdu(o)
    BY DEF OfPdu, NotOfPdu, Placements, Uint32
  <2>3. \A start : AccountedAt(f, e, start) => AccountedAt(f, e, start)'
    BY <1>1, <1>2, <2>1, <2>2 DEF AccountedAt
  <2> QED BY <2>3 DEF Accounted
<1> QED
  BY <1>3, <1>4 DEF FrameAccounted, InOnePlace

LEMMA WarnedBefore ==
    ASSUME NEW new \in Seq(Warnings), warnings \in Seq(Warnings), warnings' = warnings \o new,
           NEW f, \A j \in DOMAIN new : new[j].frame # f
    PROVE  \A c, p : WarnedOf(f, c, p)' = WarnedOf(f, c, p)
<1> SUFFICES ASSUME NEW c, NEW p PROVE WarnedOf(f, c, p)' = WarnedOf(f, c, p)
  OBVIOUS
<1> DEFINE m == Len(warnings)
           n == Len(new)
           w == [frame |-> f, code |-> c, place |-> p]
<1>1. /\ m \in Nat /\ n \in Nat /\ DOMAIN warnings = 1..m /\ DOMAIN new = 1..n
      /\ DOMAIN warnings' = 1..(m + n)
      /\ \A j \in 1..m : warnings'[j] = warnings[j]
      /\ \A j \in (m + 1)..(m + n) : warnings'[j] = new[j - m] /\ j - m \in 1..n
  OBVIOUS
<1>2. w.frame = f
  OBVIOUS
<1> HIDE DEF w, m, n
<1>3. ASSUME NEW j PROVE j \in DOMAIN warnings' /\ warnings'[j] = w <=> j \in DOMAIN warnings /\ warnings[j] = w
  <2>1. j \in 1..(m + n) <=> j \in 1..m \/ j \in (m + 1)..(m + n)
    BY <1>1
  <2>2. j \in (m + 1)..(m + n) => warnings'[j] # w
    BY <1>1, <1>2
  <2>3. j \in 1..m => j \notin (m + 1)..(m + n)
    BY <1>1
  <2> QED BY <1>1, <2>1, <2>2, <2>3
<1> QED
  BY <1>3 DEF WarnedOf, Spots, w

\* No warning about the frame under way.
LEMMA NotYetWarned ==
    ASSUME ExportInv, stage = "frames", NEW f, f = turn
    PROVE  /\ \A c, p : Times(warnings, {[frame |-> f, code |-> c, place |-> p]}) = 0
           /\ ToldOf(f) = {}
<1> USE DEF ExportInv
<1>1. turn \in Nat /\ f \notin 1..(turn - 1)
  BY DEF Stages
<1>2. ASSUME NEW c, NEW p PROVE Times(warnings, {[frame |-> f, code |-> c, place |-> p]}) = 0
  <2> DEFINE T == {[frame |-> f, code |-> c, place |-> p]}
  <2>1. \A e \in T : e.frame = f
    OBVIOUS
  <2> HIDE DEF T
  <2>2. Spots(warnings, T) = {}
    BY <1>1, <2>1 DEF Spots, FramesMade
  <2>3. Times(warnings, T) = 0
    BY <2>2, FS_EmptySet DEF Times
  <2> QED BY <2>3 DEF T
<1>3. ToldOf(f) = {}
  BY <1>1 DEF ToldOf, FramesMade
<1> QED
  BY <1>2, <1>3

LEMMA SkipFrameKeeps == ASSUME ExportInv, SkipFrame PROVE ExportInv'
<1> USE DEF ExportInv
<1> DEFINE w == Warn("no_identifier", <<0, 0>>)
<1>1. /\ stage = "frames" /\ warnings' = Append(warnings, w)
      /\ Advance /\ UNCHANGED <<vars, net, parties, frames>>
  BY DEF SkipFrame
<1>2. /\ IInv' /\ Stages' /\ PartiesSaid' /\ turn \in Nat \ {0} /\ turn' = turn + 1
      /\ \A f : f \in 1..(turn' - 1) <=> f \in 1..(turn - 1) \/ f = turn
      /\ \A e : FrameMade(e)' <=> FrameMade(e)
  BY <1>1, AdvanceKeeps
<1>3. w \in Warnings /\ w.frame = turn
  BY <1>2 DEF Warn, Warnings
<1>4. warnings \in Seq(Warnings) /\ warnings' \in Seq(Warnings) /\ warnings' = warnings \o <<w>>
  <2> HIDE DEF w
  <2> QED BY <1>1, <1>3 DEF FramesMade
<1>5. FramesMade'
  <2>1. \A j \in DOMAIN warnings' : (j \in DOMAIN warnings /\ warnings'[j] = warnings[j]) \/ warnings'[j] = w
    <3> HIDE DEF w
    <3> QED BY <1>1, <1>4
  <2>2. \A j \in DOMAIN warnings' : warnings'[j].frame \in 1..(turn' - 1)
    BY <1>2, <1>3, <2>1 DEF FramesMade
  <2>3. \A j \in DOMAIN frames' : frames'[j].of \in 1..(turn' - 1) /\ FrameMade(frames[j])
    BY <1>1, <1>2 DEF FramesMade
  <2> QED BY <1>1, <1>2, <1>4, <2>2, <2>3 DEF FramesMade
<1>6. ASSUME NEW f \in 1..(turn' - 1) PROVE FrameAccounted(f)'
  <2>1. CASE f = turn
    <3> DEFINE T == {[frame |-> f, code |-> "no_identifier", place |-> <<0, 0>>]}
    <3>1. Times(warnings, T) = 0 /\ ToldOf(f) = {}
      BY <1>1, <2>1, NotYetWarned, Zenon
    <3>2. w \in T
      BY <2>1 DEF Warn
    <3>3. Times(warnings', T) = 1
      <4> HIDE DEF w, T
      <4>1. Times(Append(warnings, w), T) = Times(warnings, T) + 1
        BY <1>3, <1>4, <3>2, TimesAppend
      <4> QED BY <1>1, <3>1, <4>1
    <3>4. Cardinality(WarnedOf(f, "no_identifier", <<0, 0>>)') = 1
      BY <3>3, Zenon DEF WarnedOf, Times
    <3>5. ToldOf(f)' = {}
      BY <1>1, <3>1 DEF ToldOf
    <3>6. Cardinality(ToldOf(f)') = 0
      BY <3>5, FS_EmptySet
    <3> QED BY <3>4, <3>5, <3>6 DEF FrameAccounted, InOnePlace
  <2>2. CASE f \in 1..(turn - 1)
    <3>1. FrameAccounted(f) /\ f # turn
      BY <1>2, <2>2, Accounts DEF AllAccounted
    <3>2. ToldOf(f)' = ToldOf(f) /\ \A t \in ToldOf(f) : frames'[t] = frames[t]
      BY <1>1 DEF ToldOf
    <3>3. <<w>> \in Seq(Warnings) /\ \A j \in DOMAIN <<w>> : <<w>>[j].frame # f
      <4>1. w.frame # f
        BY <1>3, <3>1
      <4> HIDE DEF w
      <4> QED BY <1>3, <4>1
    <3>4. \A c, p : WarnedOf(f, c, p)' = WarnedOf(f, c, p)
      <4> HIDE DEF w
      <4> QED BY <1>4, <3>3, WarnedBefore
    <3> QED BY <1>1, <3>1, <3>2, <3>4, AccountsKept DEF vars
  <2> QED BY <1>2, <2>1, <2>2
<1>7. NothingDroppedSilently'
  <2>1. AllAccounted'
    BY <1>6 DEF AllAccounted
  <2> QED BY <1>2, <2>1, Accounts, PTL
<1> QED
  BY <1>2, <1>5, <1>7

\* What the loop of ExportFrame makes of one frame.
LEMMA FrameDone ==
    ASSUME pdu \in Input, net \in Network, turn \in Nat, NEW rc \in Seq(Ecus), NEW pdus \in Seq(Placements),
           NEW out, out = FrameSignals(pdus, rc)
    PROVE  /\ out.signals \in Seq(Exported(rc)) /\ out.warnings \in Seq(Warnings)
           /\ \A j \in DOMAIN out.warnings :
                 out.warnings[j].frame = turn /\ out.warnings[j].code # "no_identifier"
           /\ \A o \in Uint32 : Times(out.warnings, WarningsAt("unknown_pdu", o, 0)) =
                                   Upto(pdus, Len(pdus), NotOfPdu(o))
           /\ \A j \in DOMAIN pdu.mappings, o \in Uint32 : Named(j) =>
                 Times(out.signals, SignalsAt(j, o, rc)) + Times(out.warnings, WarningsAt("undefined_signal", o, j))
                    = Upto(pdus, Len(pdus), OfPdu(o))
<1>1. Placed(out, pdus, Len(pdus), rc)
  BY FramePlaced
<1>2. out \in Outs(rc)
  BY <1>1 DEF Placed
<1>3. out.signals \in Seq(Exported(rc)) /\ out.warnings \in Seq(Notices)
  BY <1>2, OutTyped
<1>4. \A w \in Notices : w \in Warnings /\ w.frame = turn /\ w.code # "no_identifier"
  BY DEF Notices, Warnings
<1>5. \A j \in DOMAIN out.warnings : out.warnings[j] \in Notices
  BY <1>3
<1>6. out.warnings \in Seq(Warnings)
  <2>1. Notices \subseteq Warnings
    BY <1>4
  <2> QED BY <1>3, <2>1
<1> QED
  BY <1>1, <1>3, <1>4, <1>5, <1>6 DEF Placed, Both, UnknownAt

LEMMA SignalsTyped ==
    ASSUME pdu \in Input, net \in Network, NEW rc \in Seq(Ecus), NEW s \in Seq(Exported(rc))
    PROVE  /\ s \in Seq(SignalExports)
           /\ \A x \in DOMAIN s : KeepsLayout(s[x]) /\ (rc # <<>> => s[x].receivers = rc)
<1>1. Exported(rc) \subseteq SignalExports
  BY ExportedRight
<1>2. \A x \in DOMAIN s : s[x] \in Exported(rc)
  OBVIOUS
<1> QED
  BY <1>1, <1>2, ExportedRight

\* The record that ExportFrame appends.
LEMMA FrameMadeRight ==
    ASSUME ExportInv, stage = "frames", HasHeader(net.frames[turn]), NEW f, f = net.frames[turn],
           NEW who, who = parties[f.name], NEW s \in Seq(Exported(who.receivers)), NEW e,
           e = [of |-> turn, id |-> net.triggerings[TriggeringOf(f.name)].id,
                transmitters |-> IF who.transmitters = <<>> THEN f.transmitters ELSE who.transmitters,
                signals |-> s]
    PROVE  e \in FrameExports /\ FrameMade(e)
<1> USE DEF ExportInv
<1>1. net \in Network /\ turn \in Nat /\ pdu \in Input /\ f \in Frame
  <2>1. net \in Network /\ net.frames \in Seq(Frame) /\ turn \in DOMAIN net.frames /\ turn \in Nat
    BY DEF Stages, Network
  <2>2. pdu \in Input
    BY DEF IInv, TypeOK
  <2> QED BY <2>1, <2>2
<1>2. who.receivers \in Seq(Ecus) /\ who.transmitters \in Seq(Ecus)
  <2>1. parties \in [Frames -> PartyLists]
    BY Zenon DEF PartiesSaid, PartyMaps
  <2> QED BY <1>1, <2>1 DEF Frame, PartyLists
<1>3. s \in Seq(SignalExports) /\
      \A x \in DOMAIN s : KeepsLayout(s[x]) /\ (who.receivers # <<>> => s[x].receivers = who.receivers)
  <2> DEFINE rc == who.receivers
  <2>1. rc \in Seq(Ecus) /\ s \in Seq(Exported(rc))
    BY <1>2
  <2> HIDE DEF rc
  <2>2. s \in Seq(SignalExports) /\ \A x \in DOMAIN s : KeepsLayout(s[x]) /\ (rc # <<>> => s[x].receivers = rc)
    BY <1>1, <2>1, SignalsTyped
  <2> QED BY <2>2 DEF rc
<1>4. net.triggerings[TriggeringOf(f.name)].id \in Identifier
  BY <1>1, TriggeringFound DEF HasHeader, Triggering
<1>5. e \in FrameExports
  BY <1>1, <1>2, <1>3, <1>4 DEF FrameExports, Frame
<1>6. FrameMade(e)
  BY <1>3 DEF FrameMade
<1> QED
  BY <1>5, <1>6

LEMMA SignalsCounted ==
    ASSUME NEW rc, NEW s \in Seq(Exported(rc)), NEW e, e.signals = s, NEW i, NEW o
    PROVE  SignalsOf(e, i, o) = Times(s, SignalsAt(i, o, rc))
<1>1. \A x \in DOMAIN s : s[x] \in Exported(rc)
  OBVIOUS
<1>2. {x \in DOMAIN s : s[x].place = i /\ s[x].offset = o} = Spots(s, SignalsAt(i, o, rc))
  BY <1>1 DEF Spots, SignalsAt
<1> QED
  BY <1>2, Zenon DEF SignalsOf, Times

\* The accounts of the frame just exported.
LEMMA NewAccounts ==
    ASSUME ExportInv, stage = "frames", NEW f, f = turn, UNCHANGED <<vars, net>>,
           NEW rc \in Seq(Ecus), NEW out, out = FrameSignals(net.frames[f].pdus, rc),
           NEW e, e.of = turn, e.signals = out.signals,
           frames' = Append(frames, e), warnings' = warnings \o out.warnings
    PROVE  FrameAccounted(f)'
<1> USE DEF ExportInv
<1> DEFINE pdus == net.frames[f].pdus
<1>1. net \in Network /\ turn \in Nat /\ f \in DOMAIN net.frames /\ pdu \in Input
  BY DEF Stages, IInv, TypeOK
<1>2. pdus \in Seq(Placements) /\ DOMAIN pdus = 1..Len(pdus)
  <2>1. net.frames \in Seq(Frame)
    BY <1>1 DEF Network
  <2>2. net.frames[f] \in Frame
    BY <1>1, <2>1
  <2>3. pdus \in Seq(Placements)
    BY <2>2 DEF Frame, Placements
  <2> HIDE DEF pdus
  <2> QED BY <2>3
<1>3. /\ out.signals \in Seq(Exported(rc)) /\ out.warnings \in Seq(Warnings)
      /\ \A j \in DOMAIN out.warnings :
            out.warnings[j].frame = turn /\ out.warnings[j].code # "no_identifier"
      /\ \A o \in Uint32 : Times(out.warnings, WarningsAt("unknown_pdu", o, 0)) =
                              Upto(pdus, Len(pdus), NotOfPdu(o))
      /\ \A j \in DOMAIN pdu.mappings, o \in Uint32 : Named(j) =>
            Times(out.signals, SignalsAt(j, o, rc)) + Times(out.warnings, WarningsAt("undefined_signal", o, j))
               = Upto(pdus, Len(pdus), OfPdu(o))
  <2> HIDE DEF pdus
  <2>1. out = FrameSignals(pdus, rc)
    BY DEF pdus
  <2> QED BY <1>1, <1>2, <2>1, FrameDone
<1>4. warnings \in Seq(Warnings) /\ frames \in Seq(FrameExports)
  BY DEF FramesMade
<1>5. \A T : Times(warnings', T) = Times(warnings, T) + Times(out.warnings, T)
  BY <1>3, <1>4, TimesConcat
<1>6. \A T : Times(out.warnings, T) \in Nat
  BY <1>3, TimesTyped
<1>7. \A c, p : Times(warnings, {[frame |-> f, code |-> c, place |-> p]}) = 0
  BY NotYetWarned
<1>8. ToldOf(f) = {}
  BY NotYetWarned
<1>9. ASSUME NEW c, NEW p
      PROVE  Cardinality(WarnedOf(f, c, p)') = Times(out.warnings, {[frame |-> f, code |-> c, place |-> p]})
  <2> DEFINE T == {[frame |-> f, code |-> c, place |-> p]}
  <2>1. Times(warnings, T) = 0
    BY <1>7
  <2>2. WarnedOf(f, c, p)' = Spots(warnings', T)
    BY DEF WarnedOf, Spots
  <2> HIDE DEF T
  <2>3. Cardinality(WarnedOf(f, c, p)') = Times(out.warnings, T)
    BY <1>5, <1>6, <2>1, <2>2 DEF Times
  <2> QED BY <2>3 DEF T
<1>10. \A c, o, i : WarningsAt(c, o, i) = {[frame |-> f, code |-> c, place |-> <<o, i>>]}
  BY DEF WarningsAt, Warn
<1>11. Cardinality(WarnedOf(f, "no_identifier", <<0, 0>>)') = 0
  <2> DEFINE T == {[frame |-> f, code |-> "no_identifier", place |-> <<0, 0>>]}
  <2>1. \A w \in T : w.code = "no_identifier"
    OBVIOUS
  <2>2. Cardinality(WarnedOf(f, "no_identifier", <<0, 0>>)') = Times(out.warnings, T)
    BY <1>9
  <2> HIDE DEF T
  <2>3. Spots(out.warnings, T) = {}
    BY <1>3, <2>1 DEF Spots
  <2> QED BY <2>2, <2>3, FS_EmptySet DEF Times
<1>12. ToldOf(f)' = {Len(frames) + 1} /\ frames'[Len(frames) + 1] = e
  <2>1. /\ Len(frames) \in Nat /\ DOMAIN frames = 1..Len(frames) /\ DOMAIN frames' = 1..(Len(frames) + 1)
        /\ \A j \in 1..Len(frames) : frames'[j] = frames[j]
        /\ frames'[Len(frames) + 1] = e
    BY <1>4
  <2>2. ASSUME NEW j PROVE j \in DOMAIN frames' /\ frames'[j].of = f <=> j = Len(frames) + 1
    <3>1. j \in 1..(Len(frames) + 1) <=> j \in 1..Len(frames) \/ j = Len(frames) + 1
      BY <2>1
    <3> QED BY <1>8, <2>1, <3>1 DEF ToldOf
  <2>3. ToldOf(f)' = {Len(frames) + 1}
    BY <2>2 DEF ToldOf
  <2> QED BY <2>1, <2>3
<1>13. InOnePlace(f)'
  <2>1. Cardinality(ToldOf(f)') = 1
    BY <1>12, FS_Singleton
  <2> QED BY <1>11, <2>1 DEF InOnePlace
<1>14. \A T : PlacesOf(f, T)' = Upto(pdus, Len(pdus), T)
  <2>1. \A T : PlacesOf(f, T)' = Cardinality({x \in DOMAIN pdus : pdus[x] \in T})
    BY DEF PlacesOf
  <2> HIDE DEF pdus
  <2> QED BY <1>2, <2>1 DEF Upto
<1>15. Accounted(f, e)'
  <2> SUFFICES ASSUME NEW m \in DOMAIN pdus, NEW start, start = pdus[m].start
               PROVE  AccountedAt(f, e, start)'
    <3>1. net' = net
      OBVIOUS
    <3> QED BY <3>1 DEF Accounted
  <2>1. start \in Uint32
    <3> HIDE DEF pdus
    <3>1. pdus[m] \in Placements
      BY <1>2
    <3> QED BY <3>1 DEF Placements
  <2>2. \A o : OfPdu(o)' = OfPdu(o) /\ NotOfPdu(o)' = NotOfPdu(o)
    BY DEF OfPdu, NotOfPdu, Placements, Uint32
  <2> HIDE DEF pdus
  <2>3. Cardinality(WarnedOf(f, "unknown_pdu", <<start, 0>>)') = PlacesOf(f, NotOfPdu(start))'
    <3>1. Cardinality(WarnedOf(f, "unknown_pdu", <<start, 0>>)') = Times(out.warnings, WarningsAt("unknown_pdu", start, 0))
      BY <1>9, <1>10
    <3>2. PlacesOf(f, NotOfPdu(start))' = Upto(pdus, Len(pdus), NotOfPdu(start))
      BY <1>14, <2>2
    <3> QED BY <1>3, <2>1, <3>1, <3>2
  <2>4. ASSUME NEW i \in DOMAIN pdu.mappings, Named(i)
        PROVE  PlacesOf(f, OfPdu(start))' =
                  SignalsOf(e, i, start) + Cardinality(WarnedOf(f, "undefined_signal", <<start, i>>)')
    <3>1. Cardinality(WarnedOf(f, "undefined_signal", <<start, i>>)') =
             Times(out.warnings, WarningsAt("undefined_signal", start, i))
      BY <1>9, <1>10
    <3>2. PlacesOf(f, OfPdu(start))' = Upto(pdus, Len(pdus), OfPdu(start))
      BY <1>14, <2>2
    <3>3. SignalsOf(e, i, start) = Times(out.signals, SignalsAt(i, start, rc))
      BY <1>3, SignalsCounted
    <3> QED BY <1>3, <2>1, <2>4, <3>1, <3>2, <3>3
  <2>5. pdu' = pdu /\ \A i : Named(i)' <=> Named(i)
    BY DEF vars, Named
  <2>6. \A i : SignalsOf(e, i, start)' = SignalsOf(e, i, start)
    BY DEF SignalsOf
  <2> QED BY <2>3, <2>4, <2>5, <2>6 DEF AccountedAt
<1> QED
  BY <1>12, <1>13, <1>15 DEF FrameAccounted

LEMMA ExportFrameKeeps == ASSUME ExportInv, ExportFrame PROVE ExportInv'
<1> USE DEF ExportInv
<1> DEFINE f0 == net.frames[turn]
           who0 == parties[f0.name]
           out0 == FrameSignals(f0.pdus, who0.receivers)
           e0 == [of |-> turn, id |-> net.triggerings[TriggeringOf(f0.name)].id,
                  transmitters |-> IF who0.transmitters = <<>> THEN f0.transmitters ELSE who0.transmitters,
                  signals |-> out0.signals]
<1>1. /\ stage = "frames" /\ HasHeader(f0)
      /\ frames' = Append(frames, e0) /\ warnings' = warnings \o out0.warnings
      /\ Advance /\ UNCHANGED <<vars, net, parties>>
  BY DEF ExportFrame, FrameSignals, NoSignals
<1> PICK f : f = f0
  OBVIOUS
<1> PICK who : who = who0
  OBVIOUS
<1> PICK out : out = out0
  OBVIOUS
<1> PICK e : e = e0
  OBVIOUS
<1>2. /\ IInv' /\ Stages' /\ PartiesSaid' /\ turn \in Nat \ {0} /\ turn' = turn + 1
      /\ turn \in DOMAIN net.frames /\ f \in Frame
      /\ \A g : g \in 1..(turn' - 1) <=> g \in 1..(turn - 1) \/ g = turn
      /\ \A x : FrameMade(x)' <=> FrameMade(x)
  BY <1>1, AdvanceKeeps
<1>3. who.receivers \in Seq(Ecus) /\ f.pdus \in Seq(Placements)
  <2>1. parties \in [Frames -> PartyLists]
    BY Zenon DEF PartiesSaid, PartyMaps
  <2> QED BY <1>2, <2>1 DEF Frame, PartyLists, Placements
<1>4. out = FrameSignals(f.pdus, who.receivers)
  OBVIOUS
<1>5. /\ out.signals \in Seq(Exported(who.receivers)) /\ out.warnings \in Seq(Warnings)
      /\ \A j \in DOMAIN out.warnings : out.warnings[j].frame = turn
  <2>1. pdu \in Input /\ net \in Network /\ turn \in Nat
    BY DEF IInv, TypeOK, Stages
  <2> DEFINE rc == who.receivers
             pdus == f.pdus
  <2>2. rc \in Seq(Ecus) /\ pdus \in Seq(Placements) /\ out = FrameSignals(pdus, rc)
    BY <1>3, <1>4
  <2> HIDE DEF rc, pdus
  <2>3. /\ out.signals \in Seq(Exported(rc)) /\ out.warnings \in Seq(Warnings)
        /\ \A j \in DOMAIN out.warnings : out.warnings[j].frame = turn
    BY <2>1, <2>2, FrameDone
  <2> QED BY <2>3 DEF rc
<1>6. e \in FrameExports /\ FrameMade(e)
  <2> DEFINE s == out.signals
  <2>1. s \in Seq(Exported(who.receivers)) /\ e = [of |-> turn, id |-> net.triggerings[TriggeringOf(f.name)].id,
          transmitters |-> IF who.transmitters = <<>> THEN f.transmitters ELSE who.transmitters,
          signals |-> s]
    BY <1>5
  <2> HIDE DEF s
  <2> QED BY <1>1, <2>1, FrameMadeRight
<1>7. e.of = turn /\ e.signals = out.signals
  OBVIOUS
<1>8. frames' = Append(frames, e) /\ warnings' = warnings \o out.warnings
  BY <1>1
<1> HIDE DEF f0, who0, out0, e0
<1>9. warnings \in Seq(Warnings) /\ frames \in Seq(FrameExports)
  BY DEF FramesMade
<1>10. /\ frames' \in Seq(FrameExports) /\ warnings' \in Seq(Warnings)
       /\ Len(frames) \in Nat /\ DOMAIN frames = 1..Len(frames)
       /\ \A j \in DOMAIN frames' : (j \in DOMAIN frames /\ frames'[j] = frames[j]) \/ frames'[j] = e
       /\ \A j \in DOMAIN frames : j \in DOMAIN frames' /\ frames'[j] = frames[j]
       /\ \A j \in DOMAIN frames' : j \in DOMAIN frames \/ (j = Len(frames) + 1 /\ frames'[j] = e)
  BY <1>5, <1>6, <1>8, <1>9
<1>11. FramesMade'
  <2>1. \A j \in DOMAIN frames' : frames'[j].of \in 1..(turn' - 1) /\ FrameMade(frames'[j])
    BY <1>2, <1>6, <1>7, <1>10 DEF FramesMade
  <2>2. \A j \in DOMAIN warnings' : warnings'[j].frame \in 1..(turn' - 1)
    <3> DEFINE m == Len(warnings)
               n == Len(out.warnings)
    <3>1. /\ m \in Nat /\ n \in Nat /\ DOMAIN warnings = 1..m /\ DOMAIN out.warnings = 1..n
          /\ DOMAIN warnings' = 1..(m + n)
          /\ \A j \in 1..m : warnings'[j] = warnings[j]
          /\ \A j \in (m + 1)..(m + n) : warnings'[j] = out.warnings[j - m] /\ j - m \in 1..n
      BY <1>5, <1>8, <1>9
    <3> HIDE DEF m, n
    <3>2. \A j \in 1..(m + n) : j \in 1..m \/ j \in (m + 1)..(m + n)
      BY <3>1
    <3>3. \A j \in 1..m : warnings'[j].frame \in 1..(turn' - 1)
      BY <1>2, <3>1 DEF FramesMade
    <3>4. \A j \in (m + 1)..(m + n) : warnings'[j].frame \in 1..(turn' - 1)
      BY <1>2, <1>5, <3>1
    <3> QED BY <3>1, <3>2, <3>3, <3>4
  <2> QED BY <1>2, <1>10, <2>1, <2>2 DEF FramesMade
<1>12. ASSUME NEW g \in 1..(turn' - 1) PROVE FrameAccounted(g)'
  <2>1. CASE g = turn
    <3> DEFINE rc == who.receivers
    <3>1. rc \in Seq(Ecus) /\ out = FrameSignals(net.frames[g].pdus, rc)
      BY <1>3, <1>4, <2>1 DEF f0
    <3> HIDE DEF rc
    <3> QED BY <1>1, <1>7, <1>8, <2>1, <3>1, NewAccounts
  <2>2. CASE g \in 1..(turn - 1)
    <3>1. FrameAccounted(g) /\ g # turn
      BY <1>2, <2>2, Accounts DEF AllAccounted
    <3>2. \A j : j \in ToldOf(g)' <=> j \in ToldOf(g)
      BY <1>7, <1>10, <3>1 DEF ToldOf
    <3>3. ToldOf(g)' = ToldOf(g) /\ \A t \in ToldOf(g) : frames'[t] = frames[t]
      <4>1. ToldOf(g)' = ToldOf(g)
        BY <3>2 DEF ToldOf
      <4>2. \A t \in ToldOf(g) : frames'[t] = frames[t]
        BY <1>10 DEF ToldOf
      <4> QED BY <4>1, <4>2
    <3>4. \A j \in DOMAIN out.warnings : out.warnings[j].frame # g
      BY <1>5, <3>1
    <3>5. \A c, p : WarnedOf(g, c, p)' = WarnedOf(g, c, p)
      <4> DEFINE new == out.warnings
      <4>1. new \in Seq(Warnings) /\ warnings' = warnings \o new /\ \A j \in DOMAIN new : new[j].frame # g
        BY <1>5, <1>8, <3>4
      <4> HIDE DEF new
      <4> QED BY <1>9, <4>1, WarnedBefore
    <3> QED BY <1>1, <3>1, <3>3, <3>5, AccountsKept DEF vars
  <2> QED BY <1>2, <2>1, <2>2
<1>13. NothingDroppedSilently'
  <2>1. AllAccounted'
    BY <1>12 DEF AllAccounted
  <2> QED BY <1>2, <2>1, Accounts, PTL
<1> QED
  BY <1>2, <1>11, <1>13

LEMMA ExportStutterKeeps == ASSUME ExportInv, UNCHANGED <<vars, exportVars>> PROVE ExportInv'
<1> USE DEF ExportInv
<1>1. UNCHANGED vars /\ UNCHANGED <<pdu, pc, net, stage, parties, turn, frames, warnings>>
  BY DEF vars, exportVars
<1>2. IInv'
  BY <1>1, StutterKeeps
<1>3. Stages'
  BY <1>1 DEF Stages
<1>4. PartiesSaid'
  BY <1>1, SameParties
<1>5. FramesMade'
  <2>1. \A e : FrameMade(e)' <=> FrameMade(e)
    BY <1>1, SameSignals
  <2> QED BY <1>1, <2>1 DEF FramesMade
<1>6. NothingDroppedSilently'
  BY <1>1 DEF NothingDroppedSilently
<1> QED
  BY <1>2, <1>3, <1>4, <1>5, <1>6

LEMMA ExportAlways == ExportSpec => []ExportInv
<1>1. ExportInv /\ [ExportNext]_<<vars, exportVars>> => ExportInv'
  BY ValidateKeeps, PortPartiesKeep, GroupPartiesKeep, SkipFrameKeeps, ExportFrameKeeps, ExportStutterKeeps
     DEF ExportNext
<1> QED
  BY ExportBegins, <1>1, PTL DEF ExportSpec

--------------------------------------------------------------------------------
(* The properties *)

Stated(f, out) == {e \in Ecus : PortSays(f, e, out) \/ GroupSays(f, e, out)}

\* The list of a frame in the map holds the ECUs that the file states, each once.
LEMMA PartyStated ==
    ASSUME Stages, PartiesSaid, stage \in {"frames", "end"}, NEW h \in DOMAIN net.frames, NEW out \in BOOLEAN
    PROVE  LET list == Party(parties, net.frames[h].name, out) IN
              /\ Range(list) = Stated(net.frames[h], out) /\ IsInjective(list)
              /\ list = <<>> <=> Stated(net.frames[h], out) = {}
<1> DEFINE f == net.frames[h]
           list == Party(parties, f.name, out)
<1>1. net \in Network /\ f.name \in Frames
  <2>1. net \in Network /\ net.frames \in Seq(Frame)
    BY DEF Stages, Network
  <2>2. f \in Frame
    BY <2>1
  <2> QED BY <2>1, <2>2 DEF Frame
<1>2. list \in Seq(Ecus) /\ IsInjective(list)
  BY <1>1, PartyTyped DEF PartiesSaid
<1>3. Range(list) \subseteq Ecus /\ (list = <<>> <=> Range(list) = {})
  <2> HIDE DEF list
  <2>1. list # <<>> => 1 \in DOMAIN list
    BY <1>2
  <2>2. list = <<>> => DOMAIN list = {}
    OBVIOUS
  <2> QED BY <1>2, <2>1, <2>2 DEF Range
<1>4. ASSUME NEW e \in Ecus PROVE e \in Range(list) <=> PortSays(f, e, out) \/ GroupSays(f, e, out)
  <2> DEFINE r == <<f.name, out, e>>
  <2>1. r \in Roles /\ r[1] = f.name /\ r[2] = out /\ r[3] = e
    BY <1>1 DEF Roles
  <2>2. r \in PortPartyRoles <=> PortSays(f, e, out)
    BY <1>1, PortRolesStated
  <2>3. r \in GroupPartyRoles <=> GroupSays(f, e, out)
    BY <1>1, GroupRolesStated
  <2> HIDE DEF f
  <2>4. r \in Said(parties) <=> r[3] \in Range(Party(parties, r[1], r[2]))
    <3> HIDE DEF r
    <3> QED BY <2>1 DEF Said
  <2>5. r \in Said(parties) <=> e \in Range(list)
    BY <2>1, <2>4
  <2>6. r \in Said(parties) <=> r \in PortPartyRoles \/ r \in GroupPartyRoles
    <3> HIDE DEF r
    <3> QED BY <2>1 DEF PartiesSaid
  <2> QED BY <2>2, <2>3, <2>5, <2>6
<1>5. Range(list) = Stated(f, out)
  <2> HIDE DEF list, f
  <2> QED BY <1>3, <1>4 DEF Stated
<1> QED
  BY <1>2, <1>3, <1>5, Zenon

\* The senders and receivers of every exported frame are exactly those that the ports of
\* its triggering and the ECUs' groups state (addPortParties, addGroupParties), each once.
THEOREM PartiesAlwaysAsStated == ExportSpec => []PartiesAsStated
<1>1. ExportInv => PartiesAsStated
  <2> SUFFICES ASSUME ExportInv, NEW j \in DOMAIN frames
               PROVE  LET f == net.frames[frames[j].of] IN
        /\ Range(frames[j].transmitters) = IF Stated(f, TRUE) = {} THEN Range(f.transmitters) ELSE Stated(f, TRUE)
        /\ Stated(f, TRUE) # {} => IsInjective(frames[j].transmitters)
        /\ Stated(f, FALSE) # {} => \A x \in DOMAIN frames[j].signals :
              Range(frames[j].signals[x].receivers) = Stated(f, FALSE)
    BY DEF PartiesAsStated, Stated
  <2> USE DEF ExportInv
  <2> DEFINE h == frames[j].of
             f == net.frames[h]
             who == parties[f.name]
  <2>1. h \in 1..(turn - 1) /\ FrameMade(frames[j])
    BY DEF FramesMade
  <2>2. h \in DOMAIN net.frames
    <3>1. net.frames \in Seq(Frame) /\ turn \in 1..(Len(net.frames) + 1)
      BY DEF Stages, Network
    <3> HIDE DEF h
    <3> QED BY <2>1, <3>1
  <2>3. stage \in {"frames", "end"}
    <3>1. frames # <<>>
      OBVIOUS
    <3> QED BY <3>1 DEF Stages
  <2>4. /\ Range(who.transmitters) = Stated(f, TRUE) /\ IsInjective(who.transmitters)
        /\ who.transmitters = <<>> <=> Stated(f, TRUE) = {}
    <3> HIDE DEF h
    <3> QED BY <2>2, <2>3, PartyStated DEF Party
  <2>5. /\ Range(who.receivers) = Stated(f, FALSE)
        /\ who.receivers = <<>> <=> Stated(f, FALSE) = {}
    <3> HIDE DEF h
    <3> QED BY <2>2, <2>3, PartyStated DEF Party
  <2>6. /\ frames[j].transmitters = IF who.transmitters = <<>> THEN f.transmitters ELSE who.transmitters
        /\ \A x \in DOMAIN frames[j].signals :
              who.receivers # <<>> => frames[j].signals[x].receivers = who.receivers
    BY <2>1 DEF FrameMade
  <2> HIDE DEF h, f, who
  <2>7. Stated(f, FALSE) # {} => \A x \in DOMAIN frames[j].signals :
           Range(frames[j].signals[x].receivers) = Stated(f, FALSE)
    BY <2>5, <2>6
  <2>8. Range(frames[j].transmitters) = IF Stated(f, TRUE) = {} THEN Range(f.transmitters) ELSE Stated(f, TRUE)
    BY <2>4, <2>6
  <2>9. Stated(f, TRUE) # {} => IsInjective(frames[j].transmitters)
    BY <2>4, <2>6
  <2> QED BY <2>7, <2>8, <2>9 DEF f, h
<1> QED
  BY <1>1, ExportAlways, PTL

\* Every frame of the file, and every mapping in it that names a signal, is in the export
\* or in one warning (appendPduSignals, the frame loop of buildExportDatabase).
THEOREM NothingEverDropped == ExportSpec => []NothingDroppedSilently
<1>1. ExportInv => NothingDroppedSilently
  BY DEF ExportInv
<1> QED
  BY <1>1, ExportAlways, PTL

\* A signal occupies in an exported frame the bits that the validator claimed for it in
\* its PDU (makeSignal and applyRawSignalData against validateCanSemantics).
THEOREM LayoutAlwaysKept == ExportSpec => []ExportKeepsLayout
<1>1. ExportInv => ExportKeepsLayout
  <2> SUFFICES ASSUME ExportInv, NEW j \in DOMAIN frames, NEW x \in DOMAIN frames[j].signals
               PROVE  KeepsLayout(frames[j].signals[x])
    BY Zenon DEF ExportKeepsLayout, KeepsLayout
  <2> QED BY DEF ExportInv, FramesMade, FrameMade
<1> QED
  BY <1>1, ExportAlways, PTL

\* Every variable of the exporter has its type, and every exported frame is one that the
\* loop has passed.
THEOREM ExportTypeCorrect == ExportSpec => []ExportTypeOK
<1>1. ExportInv => ExportTypeOK
  <2> SUFFICES ASSUME ExportInv PROVE ExportTypeOK
    OBVIOUS
  <2> USE DEF ExportInv
  <2>1. TypeOK
    BY DEF IInv
  <2>2. parties \in [Frames -> [transmitters : Seq(Ecus), receivers : Seq(Ecus)]]
    BY Zenon DEF PartiesSaid, PartyMaps, PartyLists
  <2>3. /\ net \in Network /\ stage \in {"ports", "groups", "frames", "end"}
        /\ turn \in 1..(Len(net.frames) + 1)
    BY DEF Stages
  <2>4. \A i \in DOMAIN frames : frames[i].of \in 1..(turn - 1)
    BY DEF FramesMade
  <2> QED BY <2>1, <2>2, <2>3, <2>4 DEF ExportTypeOK
<1> QED
  BY <1>1, ExportAlways, PTL

\* The exporter leaves the validator's walk alone: what is proved of the walk (CanLayout)
\* holds of every file that is exported.
THEOREM ExportWalks == ExportSpec => Spec
<1>1. ExportInit => Init
  BY DEF ExportInit
<1>2. [ExportNext]_<<vars, exportVars>> => [Next]_vars
  BY DEF ExportNext, Validate, AddPortParties, AddGroupParties, SkipFrame, ExportFrame
<1> QED
  BY <1>1, <1>2, PTL DEF ExportSpec, Spec

\* So the verdict of the walk is that of the reference when the export follows it.
THEOREM ExportVerdictRight == ExportSpec => []SilentIffLegal
BY ExportWalks, VerdictRight, PTL

\* And the two signals of an overlap share the bit that the finding names.
THEOREM ExportFindingsTrue == ExportSpec => []FindingsTrue
BY ExportWalks, FindingsAlwaysTrue, PTL

================================================================================
