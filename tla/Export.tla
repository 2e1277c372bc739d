--------------------------------- MODULE Export ---------------------------------
(***************************************************************************)
(* buildExportDatabase (export/can_db.cpp) on a file whose PDU has been    *)
(* through the validator's walk (CanLayout).  The two read the same XML    *)
(* and share nothing else: the validator takes signals, lengths and byte   *)
(* orders from the model, the exporter takes them from the raw tree when   *)
(* it finds them there.                                                    *)
(*                                                                         *)
(* The file has one I-SIGNAL-I-PDU, the pdu of CanLayout; its frames may   *)
(* map it any number of times, and may map PDUs that are not of this kind. *)
(***************************************************************************)
EXTENDS CanLayout, SequencesExt

CONSTANTS
    PduName,   \* the short name of the I-SIGNAL-I-PDU
    PduNames,  \* the names that frames and groups refer to
    Frames,    \* short names of frames
    Ports,     \* short names of frame ports
    Ecus,      \* short names of ECUs
    Paths,     \* full paths of PDU groups: <<package, short name>>
    Networks   \* for each PDU, what the rest of its file may be

NoEcu == ""   \* a FRAME-PORT outside any ECU-INSTANCE
NoId == -1    \* no IDENTIFIER, or one that parseId refuses

Frame == [name : Frames, transmitters : Seq(Ecus),
          pdus : Seq([pdu : PduNames, start : Uint32])]
Identifier == Uint32 \cup {NoId}
Triggering == [frame : Frames, id : Identifier, ports : Seq(Ports)]
Port == [name : Ports, ecu : Ecus \cup {NoEcu}, out : BOOLEAN]
Group == [path : Paths, out : BOOLEAN, pdus : Seq(PduNames)]
Ecu == [name : Ecus, groups : Seq(Paths)]
Network == [frames : Seq(Frame), triggerings : Seq(Triggering), ports : Seq(Port),
            groups : Seq(Group), ecus : Seq(Ecu),
            system : SUBSET Names,              \* I-SIGNALs whose SYSTEM-SIGNAL-REF resolves
            receiverRefs : [Names -> Seq(Ecus)]] \* a signal's own RECEIVER-REFs

ASSUME NetworkAssumption ==
    /\ PduName \in PduNames
    /\ NoEcu \notin Ecus
    /\ \A i \in Inputs : Networks[i] \subseteq Network

VARIABLES
    net,       \* the frames, ports, groups and ECUs of the file
    stage,     \* "ports", "groups", "frames" or "end"
    parties,   \* PartyMap
    turn,        \* the frame to export next
    frames,    \* ExportDatabase::frames
    warnings   \* ExportDatabase::warnings

exportVars == <<net, stage, parties, turn, frames, warnings>>

--------------------------------------------------------------------------------
(* The index of the raw tree: the first of a name wins *)

TriggeringOf(name) == SelectInSeq(net.triggerings, LAMBDA t : t.frame = name)
PortOf(name) == SelectInSeq(net.ports, LAMBDA p : p.name = name)
ISignal(name) == SelectInSeq(pdu.signals, LAMBDA s : s.tag = "I-SIGNAL" /\ s.name = name)
FirstMapping(name) == SelectInSeq(pdu.mappings, LAMBDA m : m.signal = name)

\* Mutant of GroupOf: the join by short name that takes RX/<ecu> for TX/<ecu>.
GroupByShortName(path) == SelectInSeq(net.groups, LAMBDA g : g.path[2] = path[2])

\* groupsByPath: "AUTOSAR commonly has RX/<ecu> and TX/<ecu> groups with the same
\* short name, which a short-name join would conflate".
GroupOf(path) == SelectInSeq(net.groups, LAMBDA g : g.path = path)

--------------------------------------------------------------------------------
(* Who sends and receives each frame *)

addUnique(list, name) ==
    IF name = NoEcu \/ Contains(list, name) THEN list ELSE Append(list, name)

addParty(ps, frame, out, ecu) ==
    IF out THEN [ps EXCEPT ![frame].transmitters = addUnique(@, ecu)]
           ELSE [ps EXCEPT ![frame].receivers = addUnique(@, ecu)]

AddPort(ps, frame, name) ==
    LET i == PortOf(name) IN
        IF i = 0 THEN ps ELSE addParty(ps, frame, net.ports[i].out, net.ports[i].ecu)

FramePorts(ps, frame) ==
    LET i == TriggeringOf(frame.name) IN
        IF i = 0 THEN ps
        ELSE FoldLeft(LAMBDA qs, p : AddPort(qs, frame.name, p), ps, net.triggerings[i].ports)

addPortParties(ps) == FoldLeft(FramePorts, ps, net.frames)

Carries(frame, p) == \E i \in DOMAIN frame.pdus : frame.pdus[i].pdu = p

AddGroup(ps, ecu, path) ==
    LET i == GroupOf(path) IN
        IF i = 0 THEN ps
        ELSE LET ToFrames(qs, p) ==
                     FoldLeft(LAMBDA rs, fr : IF Carries(fr, p)
                                              THEN addParty(rs, fr.name, net.groups[i].out, ecu)
                                              ELSE rs, qs, net.frames)
             IN FoldLeft(ToFrames, ps, net.groups[i].pdus)

EcuGroups(ps, ecu) == FoldLeft(LAMBDA qs, path : AddGroup(qs, ecu.name, path), ps, ecu.groups)

addGroupParties(ps) == FoldLeft(EcuGroups, ps, net.ecus)

--------------------------------------------------------------------------------
(* The signals of a frame *)

\* pickModelSignal: the I-SIGNAL of that name, else the first with a length.
pickModelSignal(name) ==
    LET withLength == SelectInSeq(pdu.signals, LAMBDA s : s.name = name /\ ModelLength(s) # 0) IN
    CASE ISignal(name) # 0 -> ISignal(name)
      [] ISignal(name) = 0 /\ withLength # 0 -> withLength
      [] OTHER -> SelectInSeq(pdu.signals, LAMBDA s : s.name = name)

\* applyScaling: the I-SIGNAL leads to a SYSTEM-SIGNAL, or the model's is used.
Scaling(name) ==
    IF ISignal(name) # 0 /\ name \in net.system THEN "chain" ELSE "model"

\* The LENGTH of the raw I-SIGNAL, in every literal form of AUTOSAR; the model's
\* reading when there is no I-SIGNAL or no LENGTH.
RawLength(name) ==
    LET s == pdu.signals[pickModelSignal(name)] IN
        IF ISignal(name) # 0 /\ s.literal # "absent" THEN s.value ELSE ModelLength(s)

\* Mutant of makeSignal: the place of the PDU in the frame is forgotten.
MakeSignalInPdu(i, offset, receivers) ==
    LET place == pdu.mappings[i] IN
    [place |-> i, offset |-> offset, name |-> place.signal, start |-> place.start,
     big |-> pdu.mappings[FirstMapping(place.signal)].packing = "MOST-SIGNIFICANT-BYTE-FIRST",
     length |-> RawLength(place.signal),
     scaling |-> Scaling(place.signal),
     receivers |-> IF receivers = <<>> THEN net.receiverRefs[place.signal] ELSE receivers]

\* makeSignal and applyRawSignalData.  The byte order is that of the first mapping
\* of the signal in the PDU; the sum of the starts is a uint32.
makeSignal(i, offset, receivers) ==
    LET place == pdu.mappings[i] IN
    [place |-> i, offset |-> offset, name |-> place.signal,
     start |-> (place.start + offset) % (2 * IntMax + 2),
     big |-> pdu.mappings[FirstMapping(place.signal)].packing = "MOST-SIGNIFICANT-BYTE-FIRST",
     length |-> RawLength(place.signal),
     scaling |-> Scaling(place.signal),
     receivers |-> IF receivers = <<>> THEN net.receiverRefs[place.signal] ELSE receivers]

Warn(code, place) == [frame |-> turn, code |-> code, place |-> place]

\* Mutant of AppendSignal: an undefined signal is left out without a warning.
AppendSignalQuietly(out, i, offset, receivers) ==
    IF pdu.mappings[i].signal = NoRef \/ pickModelSignal(pdu.mappings[i].signal) = 0 THEN out
    ELSE [out EXCEPT !.signals = Append(@, makeSignal(i, offset, receivers))]

\* One turn of the loop: a group's mapping is passed over, an undefined signal is
\* warned about, any other is exported.
AppendSignal(out, i, offset, receivers) ==
    CASE pdu.mappings[i].signal = NoRef -> out
      [] pdu.mappings[i].signal # NoRef /\ pickModelSignal(pdu.mappings[i].signal) = 0 ->
            [out EXCEPT !.warnings = Append(@, Warn("undefined_signal", <<offset, i>>))]
      [] OTHER -> [out EXCEPT !.signals = Append(@, makeSignal(i, offset, receivers))]

appendPduSignals(out, mapped, receivers) ==
    IF mapped.pdu # PduName
    THEN [out EXCEPT !.warnings = Append(@, Warn("unknown_pdu", <<mapped.start, 0>>))]
    ELSE FoldLeft(LAMBDA o, i : AppendSignal(o, i, mapped.start, receivers), out,
                  [i \in DOMAIN pdu.mappings |-> i])

--------------------------------------------------------------------------------
Nobody == [transmitters |-> <<>>, receivers |-> <<>>]

ExportInit ==
    /\ Init
    /\ net \in Networks[pdu]
    /\ stage = "ports"
    /\ parties = [f \in Frames |-> Nobody]
    /\ turn = 1
    /\ frames = <<>>
    /\ warnings = <<>>

Validate == Next /\ UNCHANGED exportVars

AddPortParties ==
    /\ pc = "done" /\ stage = "ports"
    /\ parties' = addPortParties(parties)
    /\ stage' = "groups"
    /\ UNCHANGED <<vars, net, turn, frames, warnings>>

NextStage(k1) == IF k1 > Len(net.frames) THEN "end" ELSE "frames"

AddGroupParties ==
    /\ stage = "groups"
    /\ parties' = addGroupParties(parties)
    /\ stage' = NextStage(turn)
    /\ UNCHANGED <<vars, net, turn, frames, warnings>>

\* makeFrameHeader: a triggering with an IDENTIFIER that parses.
HasHeader(frame) ==
    LET i == TriggeringOf(frame.name) IN i # 0 /\ net.triggerings[i].id # NoId

\* Mutant of Advance: the frame is not left behind.
AdvanceNot == turn' = turn /\ stage' = NextStage(turn + 1)

Advance == turn' = turn + 1 /\ stage' = NextStage(turn + 1)

SkipFrame ==
    /\ stage = "frames"
    /\ ~HasHeader(net.frames[turn])
    /\ warnings' = Append(warnings, Warn("no_identifier", <<0, 0>>))
    /\ Advance
    /\ UNCHANGED <<vars, net, parties, frames>>

ExportFrame ==
    /\ stage = "frames"
    /\ HasHeader(net.frames[turn])
    /\ LET frame == net.frames[turn]
           who == parties[frame.name]
           out == FoldLeft(LAMBDA o, m : appendPduSignals(o, m, who.receivers),
                           [signals |-> <<>>, warnings |-> <<>>], frame.pdus) IN
          /\ frames' = Append(frames,
                [of |-> turn, id |-> net.triggerings[TriggeringOf(frame.name)].id,
                 transmitters |-> IF who.transmitters = <<>> THEN frame.transmitters
                                                             ELSE who.transmitters,
                 signals |-> out.signals])
          /\ warnings' = warnings \o out.warnings
    /\ Advance
    /\ UNCHANGED <<vars, net, parties>>

ExportNext == Validate \/ AddPortParties \/ AddGroupParties \/ SkipFrame \/ ExportFrame

ExportSpec == ExportInit /\ [][ExportNext]_<<vars, exportVars>>

--------------------------------------------------------------------------------
(* Properties *)

\* Every variable has its type.
ExportTypeOK ==
    /\ TypeOK
    /\ net \in Network
    /\ stage \in {"ports", "groups", "frames", "end"}
    /\ parties \in [Frames -> [transmitters : Seq(Ecus), receivers : Seq(Ecus)]]
    /\ turn \in 1..(Len(net.frames) + 1)
    /\ \A i \in DOMAIN frames : frames[i].of \in 1..(turn - 1)

\* A frame, and every mapping of it that names a signal, is either in the export
\* or in exactly one warning: what is not exported "produces a warning; the rest
\* of the file is still exported" (docs/cli.md:253).  Mappings of signal groups
\* are the exception the code makes.
NothingDroppedSilently ==
    \A f \in 1..(turn - 1) :
        LET told == {j \in DOMAIN frames : frames[j].of = f}
            Warned(code, place) ==
                {j \in DOMAIN warnings : warnings[j] = [frame |-> f, code |-> code, place |-> place]}
            Count(S) == Cardinality(S) IN
        /\ Count(told) + Count(Warned("no_identifier", <<0, 0>>)) = 1
        /\ \A t \in told, m \in DOMAIN net.frames[f].pdus :
              LET start == net.frames[f].pdus[m].start
                  Times(name) == Count({x \in DOMAIN net.frames[f].pdus :
                                           net.frames[f].pdus[x].start = start
                                           /\ (net.frames[f].pdus[x].pdu = PduName) = name}) IN
              /\ Count(Warned("unknown_pdu", <<start, 0>>)) = Times(FALSE)
              /\ \A i \in DOMAIN pdu.mappings : pdu.mappings[i].signal # NoRef =>
                    Times(TRUE) =
                        Count({x \in DOMAIN frames[t].signals :
                                  /\ frames[t].signals[x].place = i
                                  /\ frames[t].signals[x].offset = start})
                        + Count(Warned("undefined_signal", <<start, i>>))

\* The bits of an exported signal, in the numbering of DBC.
Occupies(e, p) ==
    LET first == IF e.big THEN Row(e.start) ELSE e.start
        at == IF e.big THEN Row(p) ELSE p IN
        first <= at /\ at < first + e.length

\* What the model and the raw tree spell alike: a byte order by name, the same in
\* every mapping of the signal, a decimal length, one definition.
Plain(m) ==
    /\ m.packing \in {"LEAST-SIGNIFICANT-BYTE-FIRST", "MOST-SIGNIFICANT-BYTE-FIRST"}
    /\ \A i \in DOMAIN pdu.mappings : pdu.mappings[i].signal = m.signal => pdu.mappings[i].packing = m.packing
    /\ \A i \in SignalsNamed(m.signal) : pdu.signals[i].literal = "decimal"
    /\ \A i, j \in SignalsNamed(m.signal) : i = j

\* The exporter and the validator see the same bits: a signal of a PDU placed at a
\* byte boundary of the frame occupies there exactly the bits that the validator
\* claimed for it, so a PDU without findings exports without overlaps, although
\* the one reads the raw tree and the other the model.
ExportKeepsLayout ==
    \A j \in DOMAIN frames : \A x \in DOMAIN frames[j].signals :
        LET e == frames[j].signals[x]
            m == pdu.mappings[e.place] IN
        Plain(m) /\ e.offset % 8 = 0 /\ m.start + e.offset < 2 * IntMax + 2 =>
            \A p \in 0..(pduBits - 1) : Occupies(e, p + e.offset) <=> Covers(m, p)

\* An ECU sends (out) or receives a frame when a port of its triggering says so, or
\* one of the ECU's PDU groups that holds a PDU of the frame.
PortSays(f, ecu, out) ==
    LET t == TriggeringOf(f.name) IN
        t # 0 /\ \E p \in Range(net.triggerings[t].ports) :
            PortOf(p) # 0 /\ net.ports[PortOf(p)] = [name |-> p, ecu |-> ecu, out |-> out]

GroupSays(f, ecu, out) ==
    \E i \in DOMAIN net.ecus, g \in DOMAIN net.groups, h \in DOMAIN net.frames :
        /\ net.ecus[i].name = ecu /\ net.groups[g].path \in Range(net.ecus[i].groups)
        /\ \A first \in 1..(g - 1) : net.groups[first].path # net.groups[g].path
        /\ net.groups[g].out = out
        /\ net.frames[h].name = f.name
        /\ \E p \in Range(net.groups[g].pdus) : Carries(net.frames[h], p)

\* The senders of a frame are exactly the ECUs that a port of its triggering or a
\* PDU group says send it, each once, and the frame's own list when none does;
\* likewise the receivers: the two sources never disagree about a direction, and
\* groups of one short name in two packages stay apart (can_db.cpp:159-161).
PartiesAsStated ==
    \A j \in DOMAIN frames :
        LET f == net.frames[frames[j].of]
            Stated(out) == {e \in Ecus : PortSays(f, e, out) \/ GroupSays(f, e, out)} IN
        /\ Range(frames[j].transmitters) = IF Stated(TRUE) = {} THEN Range(f.transmitters) ELSE Stated(TRUE)
        /\ Stated(TRUE) # {} => IsInjective(frames[j].transmitters)
        /\ Stated(FALSE) # {} => \A x \in DOMAIN frames[j].signals :
              Range(frames[j].signals[x].receivers) = Stated(FALSE)

================================================================================
