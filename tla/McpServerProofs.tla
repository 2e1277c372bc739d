---------------------------- MODULE McpServerProofs ----------------------------
(***************************************************************************)
(* For sessions of any length and clients that send any kind of line:      *)
(* the responses come once each, in order, under the right id, and tell    *)
(* the truth about what was written.                                       *)
(***************************************************************************)
EXTENDS McpServer, TLAPS

Points == {"read", "too deep", "malformed", "envelope", "dispatch", "route", "call", "reply", "exited"}

\* The response r answers a line like l under an id it may carry.
Owns(r, l) ==
    \/ r.id = r.line /\ (l.shape = "json" => l.id)
    \/ r.id = Null /\ l.shape = "json" /\ ~l.id
    \/ r.kind \in {"ParseError", "NestingTooDeep"} /\ l.shape \in {"deep", "malformed"}

\* What the position of the loop says of the line it is handling.
Handling ==
    /\ Len(sent) <= MaxLines /\ next <= Len(sent) + 1
    /\ pc \notin {"read", "exited"} => next \in DOMAIN sent
    /\ pc = "too deep" => line.shape = "deep"
    /\ pc = "malformed" => line.shape = "malformed"
    /\ pc \in {"envelope", "dispatch", "route", "call"} => line.shape = "json"
    /\ pc \in {"dispatch", "route", "call"} => isValidEnvelope
    /\ pc \in {"route", "call"} => line.id

\* The response about to be written.
Pending ==
    pc = "reply" =>
        /\ reply.line = next
        /\ ~Notification(line)
        /\ Owns(reply, line)
        /\ reply.kind = "applied" <=> next \in written
        /\ reply.kind = "applied" => reply.id = next /\ reply.sendable

\* What has been answered or written is behind the loop.
Past ==
    /\ \A i \in DOMAIN outbox : outbox[i].line \in DOMAIN sent /\ outbox[i].line < next
    /\ \A n \in written : n \in DOMAIN sent /\ (n < next \/ (n = next /\ pc = "reply"))

\* The inductive invariant.
IInv ==
    /\ TypeOK /\ AnsweredOnceInOrder /\ OwnId /\ WriteAcknowledged
    /\ Handling /\ Pending /\ Past

\* A line appended to the session leaves the earlier lines where they are.
LEMMA Appended ==
    ASSUME NEW t \in Templates, sent \in Seq(Line), sent' = Append(sent, t)
    PROVE  /\ sent' \in Seq(Line) /\ Len(sent') = Len(sent) + 1
           /\ \A n \in DOMAIN sent : n \in DOMAIN sent' /\ sent'[n] = sent[n]
<1>1. t \in Line
  BY LineAssumption
<1> QED
  BY <1>1

LEMMA Numbers ==
    ASSUME IInv
    PROVE  /\ sent \in Seq(Line) /\ Len(sent) \in Nat /\ DOMAIN sent = 1..Len(sent)
           /\ next \in Nat /\ MaxLines \in Nat /\ Len(sent) <= MaxLines
<1>1. sent \in Seq(Line) /\ next \in 1..(MaxLines + 1) /\ Len(sent) <= MaxLines
  BY DEF IInv, TypeOK, Handling
<1>2. MaxLines \in Nat
  BY BoundAssumption
<1>3. Len(sent) \in Nat /\ DOMAIN sent = 1..Len(sent)
  BY <1>1
<1>4. next \in Nat
  BY <1>1, <1>2
<1> QED
  BY <1>1, <1>2, <1>3, <1>4

\* The client's steps keep the invariant.
LEMMA ClientKeeps ==
    ASSUME IInv, CloseInput \/ \E t \in Templates : Send(t)
    PROVE  IInv'
<1>1. CASE CloseInput
  <2>1. TypeOK'
    BY <1>1 DEF IInv, TypeOK, CloseInput
  <2>2. UNCHANGED <<sent, next, pc, reply, outbox, written>> /\ line' = line
    BY <1>1 DEF CloseInput, line
  <2>3. Handling' /\ Past'
    BY <2>2 DEF IInv, Handling, Past, isValidEnvelope, IsNotification
  <2>4. Pending'
    BY <2>2 DEF IInv, Pending, Notification, Owns
  <2>5. AnsweredOnceInOrder' /\ OwnId' /\ WriteAcknowledged'
    BY <2>2 DEF IInv, AnsweredOnceInOrder, OwnId, WriteAcknowledged, Notification
  <2> QED
    BY <2>1, <2>3, <2>4, <2>5 DEF IInv
<1>2. ASSUME NEW t \in Templates, Send(t) PROVE IInv'
  <2>1. /\ sent' \in Seq(Line) /\ Len(sent') = Len(sent) + 1
        /\ \A n \in DOMAIN sent : n \in DOMAIN sent' /\ sent'[n] = sent[n]
    BY <1>2, Appended DEF IInv, TypeOK, Send
  <2>2. /\ Len(sent) < MaxLines
        /\ UNCHANGED <<eof, next, pc, reply, outbox, written>>
    BY <1>2 DEF Send
  <2>3. next \in Nat /\ Len(sent) \in Nat /\ MaxLines \in Nat /\ next <= Len(sent) + 1
    BY Numbers DEF IInv, Handling
  <2>4. TypeOK'
    BY <2>1, <2>2 DEF IInv, TypeOK
  <2>5. next \in DOMAIN sent => line' = line
    BY <2>1, <2>2 DEF line
  <2>6. Handling'
    <3>1. Len(sent') <= MaxLines /\ next' <= Len(sent') + 1
      BY <2>1, <2>2, <2>3
    <3>2. CASE pc \in {"read", "exited"}
      BY <3>1, <3>2, <2>2 DEF Handling
    <3>3. CASE pc \notin {"read", "exited"}
      <4>1. next \in DOMAIN sent
        BY <3>3 DEF IInv, Handling
      <4>2. line' = line /\ next' \in DOMAIN sent'
        BY <4>1, <2>1, <2>2, <2>5
      <4> QED
        BY <3>1, <4>2, <2>2 DEF IInv, Handling, isValidEnvelope, IsNotification
    <3> QED
      BY <3>2, <3>3
  <2>7. Pending'
    <3>1. CASE pc = "reply"
      <4>1. next \in DOMAIN sent
        BY <3>1 DEF IInv, Handling
      <4>2. line' = line
        BY <4>1, <2>5
      <4> QED
        BY <3>1, <4>2, <2>2 DEF IInv, Pending, Owns, Notification
    <3> QED
      BY <3>1, <2>2 DEF Pending
  <2>8. Past'
    BY <2>1, <2>2 DEF IInv, Past
  <2>9. \A i \in DOMAIN outbox : sent'[outbox[i].line] = sent[outbox[i].line]
    BY <2>1 DEF IInv, Past
  <2>10. AnsweredOnceInOrder' /\ OwnId'
    BY <2>2, <2>9 DEF IInv, AnsweredOnceInOrder, OwnId, Notification
  <2>11. WriteAcknowledged'
    BY <2>1, <2>2 DEF IInv, WriteAcknowledged, Past
  <2> QED
    BY <2>4, <2>6, <2>7, <2>8, <2>10, <2>11 DEF IInv
<1> QED
  BY <1>1, <1>2

\* A step that only moves the loop on within its line keeps the invariant.
LEMMA MoveKeeps ==
    ASSUME IInv, UNCHANGED <<sent, eof, next, reply, outbox, written>>,
           pc # "reply", pc' \in Points \ {"reply"}, Handling'
    PROVE  IInv'
<1>1. TypeOK'
  BY DEF IInv, TypeOK, Points
<1>2. Pending' /\ Past'
  BY DEF IInv, Pending, Past
<1>3. AnsweredOnceInOrder' /\ OwnId' /\ WriteAcknowledged'
  BY DEF IInv, AnsweredOnceInOrder, OwnId, WriteAcknowledged, Notification
<1> QED
  BY <1>1, <1>2, <1>3 DEF IInv

\* Leaving a line without a response keeps the invariant.
LEMMA SkipKeeps ==
    ASSUME IInv, Skip, next \in DOMAIN sent, next \notin written
    PROVE  IInv'
<1>1. next \in 1..Len(sent) /\ Len(sent) \in Nat /\ MaxLines \in Nat /\ Len(sent) <= MaxLines
  BY Numbers
<1>2. TypeOK'
  <2>1. next + 1 \in 1..(MaxLines + 1)
    BY <1>1
  <2> QED
    BY <2>1 DEF IInv, TypeOK, Skip
<1>3. Handling' /\ Pending'
  <2>1. next + 1 <= Len(sent) + 1
    BY <1>1
  <2> QED
    BY <2>1, <1>1 DEF Handling, Pending, Skip
<1>4. \A n \in DOMAIN sent : n < next => n < next'
  BY <1>1 DEF Skip
<1>5. Past'
  BY <1>4 DEF IInv, Past, Skip
<1>6. AnsweredOnceInOrder' /\ OwnId'
  BY DEF IInv, AnsweredOnceInOrder, OwnId, Notification, Skip
<1>7. \A n \in written : n < next
  BY DEF IInv, Past
<1>8. WriteAcknowledged'
  BY <1>7 DEF IInv, WriteAcknowledged, Skip
<1> QED
  BY <1>2, <1>3, <1>5, <1>6, <1>8 DEF IInv

\* Preparing a response keeps the invariant if the response is one the line may get.
LEMMA RespondKeeps ==
    ASSUME IInv, pc # "reply", next \in DOMAIN sent,
           NEW id \in Ids \cup {Null}, NEW kind \in Kinds, NEW sendable \in BOOLEAN,
           Respond(id, kind, sendable), ~Notification(line),
           Owns([id |-> id, kind |-> kind, line |-> next, sendable |-> sendable], line),
           written' = (IF kind = "applied" THEN written \cup {next} ELSE written),
           kind = "applied" => id = next /\ sendable /\ line.tool = "write" /\ line.apply
    PROVE  IInv'
<1> DEFINE r == [id |-> id, kind |-> kind, line |-> next, sendable |-> sendable]
<1>1. reply' = r /\ pc' = "reply" /\ UNCHANGED <<sent, eof, next, outbox>>
  BY DEF Respond
<1>2. next \in 1..Len(sent) /\ Len(sent) \in Nat /\ MaxLines \in Nat /\ Len(sent) <= MaxLines
  BY Numbers
<1>3. next \in Ids
  BY <1>2 DEF Ids
<1>4. r \in Reply
  BY <1>3 DEF Reply
<1>5. next \notin written /\ \A n \in written : n < next
  BY <1>2 DEF IInv, Past
<1>6. TypeOK'
  BY <1>1, <1>3, <1>4 DEF IInv, TypeOK
<1>7. line' = line
  BY <1>1 DEF line
<1>8. Handling'
  BY <1>1 DEF IInv, Handling
<1>9. next' \in written' <=> kind = "applied"
  BY <1>1, <1>5
<1>10. Pending'
  <2>1. ~Notification(line)' /\ Owns(reply, line)'
    BY <1>1, <1>7 DEF Notification, Owns
  <2> QED
    BY <2>1, <1>1, <1>9 DEF Pending
<1>11. Past'
  BY <1>1 DEF IInv, Past
<1>12. AnsweredOnceInOrder' /\ OwnId'
  BY <1>1 DEF IInv, AnsweredOnceInOrder, OwnId, Notification
<1>13. WriteAcknowledged'
  <2>1. ASSUME NEW i \in DOMAIN outbox PROVE outbox[i].kind = "applied" <=> outbox[i].line \in written'
    <3>1. outbox[i].line < next /\ outbox[i].line # next
      BY <1>2 DEF IInv, Past
    <3> QED
      BY <3>1 DEF IInv, WriteAcknowledged
  <2>2. ASSUME NEW n \in written'
        PROVE  /\ sent[n].tool = "write" /\ sent[n].apply
               /\ n < next => \E i \in DOMAIN outbox : outbox[i].line = n /\ outbox[i].id = n
    <3>1. CASE n \in written
      BY <3>1 DEF IInv, WriteAcknowledged
    <3>2. CASE n \notin written
      <4>1. n = next /\ kind = "applied"
        BY <3>2, <2>2
      <4> QED
        BY <4>1, <1>2 DEF line
    <3> QED
      BY <3>1, <3>2
  <2> QED
    BY <2>1, <2>2, <1>1 DEF WriteAcknowledged
<1> QED
  BY <1>6, <1>8, <1>10, <1>11, <1>12, <1>13 DEF IInv

\* So does answering a request under its own id without writing anything.
LEMMA AnswerKeeps ==
    ASSUME IInv, pc # "reply", next \in DOMAIN sent, line.shape = "json", line.id,
           NEW kind \in Kinds \ {"applied"}, Answer(next, kind)
    PROVE  IInv'
<1>1. next \in Ids \cup {Null}
  BY Numbers DEF Ids
<1>2. ~Notification(line)
  BY DEF Notification
<1>3. Owns([id |-> next, kind |-> kind, line |-> next, sendable |-> TRUE], line)
  BY DEF Owns
<1>4. Respond(next, kind, TRUE) /\ UNCHANGED written
  BY DEF Answer
<1> QED
  BY <1>1, <1>2, <1>3, <1>4, RespondKeeps

--------------------------------------------------------------------------------
(* One lemma for the steps that handle a line, one for those that end it *)

LEMMA HandleKeeps ==
    ASSUME IInv, ReadLine \/ EndOfInput \/ RecoverLine \/ CheckEnvelope \/ Dispatch
    PROVE  IInv'
<1> USE DEF Points
<1>0. /\ next \in Nat /\ Len(sent) \in Nat /\ DOMAIN sent = 1..Len(sent) /\ Len(sent) <= MaxLines
      /\ MaxLines \in Nat /\ next \in 1..(MaxLines + 1)
  BY Numbers DEF IInv, TypeOK
<1>1. CASE ReadLine
  <2>0. next <= Len(sent) /\ pc = "read"
    BY <1>1 DEF ReadLine
  <2>1. next \in DOMAIN sent /\ pc = "read"
    <3>1. 1 <= next
      BY <1>0
    <3>2. next \in 1..Len(sent)
      BY <3>1, <2>0, <1>0
    <3> QED
      BY <3>2, <2>0, <1>0
  <2>2. CASE line.shape = "empty" /\ Skip
    <3>1. next \notin written
      BY <2>1, <1>0 DEF IInv, Past
    <3> QED
      BY <2>1, <2>2, <3>1, SkipKeeps
  <2>3. ASSUME NEW p \in {"too deep", "malformed", "envelope"}, pc' = p,
               UNCHANGED <<sent, eof, next, reply, outbox, written>>,
               p = "too deep" => line.shape = "deep", p = "malformed" => line.shape = "malformed",
               p = "envelope" => line.shape = "json"
        PROVE  IInv'
    <3>1. line' = line
      BY <2>3 DEF line
    <3>2. Handling'
      BY <2>1, <2>3, <3>1 DEF IInv, Handling
    <3> QED
      BY <2>1, <2>3, <3>2, MoveKeeps
  <2> QED
    BY <1>1, <2>2, <2>3 DEF ReadLine
<1>2. CASE EndOfInput
  <2>1. Handling'
    BY <1>2 DEF IInv, Handling, EndOfInput
  <2> QED
    BY <1>2, <2>1, MoveKeeps DEF EndOfInput
<1>3. CASE RecoverLine
  <2>1. next \in DOMAIN sent /\ pc # "reply" /\ line.shape \in {"deep", "malformed"}
    BY <1>3 DEF IInv, Handling, RecoverLine
  <2>2. CASE tryRecoverId = {} /\ Skip
    <3>1. next \notin written
      BY <2>1, <1>0 DEF IInv, Past
    <3> QED
      BY <2>1, <2>2, <3>1, SkipKeeps
  <2>3. ASSUME NEW id \in tryRecoverId, NEW kind \in {"NestingTooDeep", "ParseError"},
               Respond(id, kind, line.first # "garbled"), UNCHANGED written
        PROVE  IInv'
    <3>1. id \in Ids \cup {Null}
      <4>1. next \in Ids
        BY <2>1, <1>0 DEF Ids
      <4>2. tryRecoverId \in {{next}, Ids \ {next}, {Null}, {}}
        <5>1. line.first \in {"own", "other", "garbled", "none"}
          <6>1. line \in Line
            BY <2>1, Numbers DEF line
          <6> QED
            BY <6>1 DEF Line
        <5> QED
          BY <5>1 DEF tryRecoverId
      <4> QED
        BY <4>1, <4>2, <2>3
    <3>2. ~Notification(line)
      BY <2>1 DEF Notification
    <3>3. kind \in Kinds /\ kind # "applied"
      BY DEF Kinds
    <3>4. Owns([id |-> id, kind |-> kind, line |-> next, sendable |-> (line.first # "garbled")], line)
      BY <2>1 DEF Owns
    <3>5. written' = (IF kind = "applied" THEN written \cup {next} ELSE written)
      BY <2>3, <3>3
    <3> QED
      BY <2>1, <2>3, <3>1, <3>2, <3>3, <3>4, <3>5, RespondKeeps
  <2> QED
    BY <1>3, <2>2, <2>3 DEF RecoverLine
<1>4. CASE CheckEnvelope
  <2>1. next \in DOMAIN sent /\ pc = "envelope" /\ line.shape = "json"
    BY <1>4 DEF IInv, Handling, CheckEnvelope
  <2>2. CASE ~isValidEnvelope /\ Answer(IF line.id THEN next ELSE Null, "InvalidRequest")
    <3> DEFINE id == IF line.id THEN next ELSE Null
    <3>1. id \in Ids \cup {Null}
      BY <2>1, <1>0 DEF Ids
    <3>2. ~Notification(line)
      BY <2>2 DEF Notification, isValidEnvelope, IsNotification
    <3>3. "InvalidRequest" \in Kinds
      BY DEF Kinds
    <3>4. Owns([id |-> id, kind |-> "InvalidRequest", line |-> next, sendable |-> TRUE], line)
      BY <2>1 DEF Owns
    <3>5. Respond(id, "InvalidRequest", TRUE) /\ UNCHANGED written
      BY <2>2 DEF Answer
    <3> HIDE DEF id
    <3> QED
      BY <2>1, <3>1, <3>2, <3>3, <3>4, <3>5, RespondKeeps
  <2>3. CASE isValidEnvelope /\ pc' = "dispatch" /\ UNCHANGED <<sent, eof, next, reply, outbox, written>>
    <3>1. line' = line
      BY <2>3 DEF line
    <3>2. Handling'
      BY <2>1, <2>3, <3>1 DEF IInv, Handling, isValidEnvelope, IsNotification
    <3> QED
      BY <2>1, <2>3, <3>2, MoveKeeps
  <2> QED
    BY <1>4, <2>2, <2>3 DEF CheckEnvelope
<1>5. CASE Dispatch
  <2>1. next \in DOMAIN sent /\ pc = "dispatch" /\ line.shape = "json" /\ isValidEnvelope
    BY <1>5 DEF IInv, Handling, Dispatch
  <2>2. CASE ~line.id /\ Skip
    <3>1. next \notin written
      BY <2>1, <1>0 DEF IInv, Past
    <3> QED
      BY <2>1, <2>2, <3>1, SkipKeeps
  <2>3. CASE line.id /\ line.version = "other" /\ Answer(next, "VersionMismatch")
    BY <2>1, <2>3, AnswerKeeps DEF Kinds
  <2>4. CASE line.id /\ line.version # "other" /\ pc' = "route"
             /\ UNCHANGED <<sent, eof, next, reply, outbox, written>>
    <3>1. line' = line
      BY <2>4 DEF line
    <3>2. Handling'
      BY <2>1, <2>4, <3>1 DEF IInv, Handling, isValidEnvelope, IsNotification
    <3> QED
      BY <2>1, <2>4, <3>2, MoveKeeps
  <2> QED
    BY <1>5, <2>2, <2>3, <2>4 DEF Dispatch
<1> QED
  BY <1>1, <1>2, <1>3, <1>4, <1>5

LEMMA RouteKeeps ==
    ASSUME IInv, RouteRequest \/ RejectCall \/ CallTool \/ ToolFails
    PROVE  IInv'
<1> USE DEF Points
<1>1. next \in DOMAIN sent /\ pc \in {"route", "call"} /\ line.shape = "json" /\ line.id
  BY DEF IInv, Handling, RouteRequest, RejectCall, CallTool, ToolFails
<1>2. ASSUME NEW kind \in Kinds \ {"applied"}, Answer(next, kind) PROVE IInv'
  BY <1>1, <1>2, AnswerKeeps
<1>3. CASE RouteRequest
  <2>1. CASE pc' = "call" /\ pc = "route" /\ UNCHANGED <<sent, eof, next, reply, outbox, written>>
    <3>1. line' = line
      BY <2>1 DEF line
    <3>2. Handling'
      BY <1>1, <2>1, <3>1 DEF IInv, Handling, isValidEnvelope, IsNotification
    <3> QED
      BY <2>1, <3>2, MoveKeeps
  <2> QED
    BY <1>2, <1>3, <2>1 DEF RouteRequest, Kinds
<1>4. CASE RejectCall
  <2>1. Rejected \in Kinds \ {"applied"}
    BY DEF Rejected, Kinds
  <2> QED
    BY <1>2, <1>4, <2>1 DEF RejectCall
<1>5. ASSUME NEW kind \in {"applied", "result", "isError"}, NEW sendable \in BOOLEAN, Respond(next, kind, sendable),
             written' = (IF kind = "applied" THEN written \cup {next} ELSE written),
             kind = "applied" => sendable /\ line.tool = "write" /\ line.apply
      PROVE  IInv'
  <2>1. next \in Ids \cup {Null} /\ kind \in Kinds /\ ~Notification(line) /\ pc # "reply"
    BY <1>1, Numbers DEF Ids, Kinds, Notification
  <2>2. Owns([id |-> next, kind |-> kind, line |-> next, sendable |-> sendable], line)
    BY <1>1 DEF Owns
  <2> QED
    BY <1>1, <1>5, <2>1, <2>2, RespondKeeps
<1>6. CASE CallTool
  <2> DEFINE applies == line.tool = "write" /\ line.apply
             kind == IF applies THEN "applied" ELSE "result"
             sendable == line.tool = "write" \/ line.text = "UTF-8"
  <2>1. kind \in {"applied", "result"} /\ (kind = "applied" <=> applies)
    OBVIOUS
  <2>2. Respond(next, kind, sendable) /\ written' = (IF applies THEN written \cup {next} ELSE written)
    BY <1>6 DEF CallTool
  <2>3. sendable \in BOOLEAN /\ (applies => sendable)
    OBVIOUS
  <2>4. applies => line.tool = "write" /\ line.apply
    OBVIOUS
  <2> HIDE DEF applies, kind, sendable
  <2> QED
    BY <1>5, <2>1, <2>2, <2>3, <2>4
<1>7. CASE ToolFails
  <2>1. Respond(next, "isError", line.text = "UTF-8") /\ UNCHANGED written
    BY <1>7 DEF ToolFails
  <2> QED
    BY <1>5, <2>1
<1> QED
  BY <1>3, <1>4, <1>6, <1>7

LEMMA WriteKeeps ==
    ASSUME IInv, WriteMessage \/ WriteMessageFails
    PROVE  IInv'
<1>1. /\ next \in 1..Len(sent) /\ Len(sent) \in Nat /\ Len(sent) <= MaxLines /\ MaxLines \in Nat
      /\ pc = "reply" /\ DOMAIN sent = 1..Len(sent)
  BY Numbers DEF IInv, Handling, WriteMessage, WriteMessageFails
<1>2. /\ reply.line = next /\ ~Notification(line) /\ Owns(reply, line)
      /\ reply.kind = "applied" <=> next \in written
      /\ reply.kind = "applied" => reply.id = next /\ reply.sendable
  BY <1>1 DEF IInv, Pending
<1>3. CASE WriteMessageFails
  <2>1. next \notin written /\ Skip
    BY <1>2, <1>3 DEF WriteMessageFails
  <2> QED
    BY <1>1, <2>1, SkipKeeps
<1>4. CASE WriteMessage
  <2>1. /\ outbox' = Append(outbox, reply) /\ pc' = "read" /\ next' = next + 1
        /\ UNCHANGED <<sent, eof, reply, written>>
    BY <1>4 DEF WriteMessage
  <2>2. outbox \in Seq(Reply) /\ reply \in Reply
    BY DEF IInv, TypeOK
  <2>3. /\ outbox' \in Seq(Reply) /\ Len(outbox) \in Nat /\ DOMAIN outbox = 1..Len(outbox)
        /\ DOMAIN outbox' = 1..(Len(outbox) + 1)
        /\ \A i \in DOMAIN outbox : outbox'[i] = outbox[i]
        /\ outbox'[Len(outbox) + 1] = reply
    BY <2>1, <2>2
  <2>4. \A i \in DOMAIN outbox' : i \in DOMAIN outbox \/ i = Len(outbox) + 1
    BY <2>3
  <2>5. TypeOK'
    <3>1. next' \in 1..(MaxLines + 1)
      BY <1>1, <2>1
    <3> QED
      BY <2>1, <2>3, <3>1 DEF IInv, TypeOK
  <2>6. Handling' /\ Pending'
    <3>1. next' <= Len(sent') + 1 /\ Len(sent') <= MaxLines
      BY <1>1, <2>1
    <3> QED
      BY <2>1, <3>1 DEF Handling, Pending
  <2>7. Past'
    <3>1. \A n \in DOMAIN sent : n < next \/ n = next => n < next'
      BY <1>1, <2>1
    <3>2. \A i \in DOMAIN outbox' : outbox'[i].line \in DOMAIN sent /\ outbox'[i].line < next'
      BY <1>1, <1>2, <2>3, <2>4, <3>1 DEF IInv, Past
    <3> QED
      BY <2>1, <3>1, <3>2 DEF IInv, Past
  <2>8. AnsweredOnceInOrder'
    <3>1. \A i, j \in DOMAIN outbox' : i < j => outbox'[i].line < outbox'[j].line
      <4> SUFFICES ASSUME NEW i \in DOMAIN outbox', NEW j \in DOMAIN outbox', i < j
                   PROVE  outbox'[i].line < outbox'[j].line
        OBVIOUS
      <4>1. i \in DOMAIN outbox
        BY <2>3
      <4>2. CASE j \in DOMAIN outbox
        BY <4>1, <4>2, <2>3 DEF IInv, AnsweredOnceInOrder
      <4>3. CASE j = Len(outbox) + 1
        BY <4>1, <4>3, <1>2, <2>3 DEF IInv, Past
      <4> QED
        BY <2>4, <4>2, <4>3
    <3>2. \A i \in DOMAIN outbox' : ~Notification(sent[outbox'[i].line])
      BY <1>2, <2>3, <2>4 DEF IInv, AnsweredOnceInOrder, line
    <3> QED
      BY <2>1, <3>1, <3>2 DEF AnsweredOnceInOrder, Notification
  <2>9. OwnId'
    <3>1. \A i \in DOMAIN outbox' : Owns(outbox'[i], sent[outbox'[i].line])
      <4>1. \A i \in DOMAIN outbox : Owns(outbox[i], sent[outbox[i].line])
        BY DEF IInv, OwnId, Owns
      <4> QED
        BY <1>2, <2>3, <2>4, <4>1 DEF line
    <3> QED
      BY <2>1, <3>1 DEF OwnId, Owns
  <2>10. WriteAcknowledged'
    <3>1. \A i \in DOMAIN outbox' : outbox'[i].kind = "applied" <=> outbox'[i].line \in written
      BY <1>2, <2>3, <2>4 DEF IInv, WriteAcknowledged
    <3>2. ASSUME NEW n \in written
          PROVE  \E i \in DOMAIN outbox' : outbox'[i].line = n /\ outbox'[i].id = n
      <4>1. CASE n < next
        <5>1. PICK i \in DOMAIN outbox : outbox[i].line = n /\ outbox[i].id = n
          BY <3>2, <4>1 DEF IInv, WriteAcknowledged
        <5>2. i \in DOMAIN outbox'
          BY <2>3
        <5> QED
          BY <5>1, <5>2, <2>3
      <4>2. CASE n = next
        <5>1. Len(outbox) + 1 \in DOMAIN outbox'
          BY <2>3
        <5> QED
          BY <5>1, <3>2, <4>2, <1>2, <2>3
      <4> QED
        BY <4>1, <4>2 DEF IInv, Past
    <3> QED
      BY <2>1, <3>1, <3>2 DEF IInv, WriteAcknowledged
  <2> QED
    BY <2>5, <2>6, <2>7, <2>8, <2>9, <2>10 DEF IInv
<1> QED
  BY <1>3, <1>4

LEMMA InitInv == Init => IInv
<1> SUFFICES ASSUME Init PROVE IInv
  OBVIOUS
<1>1. sent = <<>> /\ outbox = <<>> /\ next = 1 /\ pc = "read" /\ written = {} /\ eof = FALSE /\ reply = NoReply
  BY DEF Init
<1>2. MaxLines \in Nat /\ 1 \in 1..MaxLines
  BY BoundAssumption
<1>3. TypeOK
  <2>1. NoReply \in Reply
    BY <1>2 DEF Reply, NoReply, Ids, Kinds
  <2>2. next \in 1..(MaxLines + 1)
    BY <1>1, <1>2
  <2>3. <<>> \in Seq(Line) /\ <<>> \in Seq(Reply)
    OBVIOUS
  <2>4. eof \in BOOLEAN /\ pc \in Points /\ written \subseteq Ids
    BY <1>1 DEF Points
  <2> QED
    BY <1>1, <2>1, <2>2, <2>3, <2>4 DEF TypeOK, Points
<1>4. Handling /\ Pending /\ Past
  BY <1>1, <1>2 DEF Handling, Pending, Past
<1>5. AnsweredOnceInOrder /\ OwnId /\ WriteAcknowledged
  BY <1>1 DEF AnsweredOnceInOrder, OwnId, WriteAcknowledged
<1> QED
  BY <1>3, <1>4, <1>5 DEF IInv

LEMMA StepInv == IInv /\ [Next]_vars => IInv'
<1> SUFFICES ASSUME IInv, [Next]_vars PROVE IInv'
  OBVIOUS
<1>1. CASE UNCHANGED vars
  <2>1. UNCHANGED <<sent, eof, next, pc, reply, outbox, written>>
    BY <1>1 DEF vars
  <2>2. line' = line
    BY <2>1 DEF line
  <2>3. TypeOK'
    BY <2>1 DEF IInv, TypeOK
  <2>4. Handling' /\ Past'
    BY <2>1, <2>2 DEF IInv, Handling, Past, isValidEnvelope, IsNotification
  <2>5. Pending'
    BY <2>1, <2>2 DEF IInv, Pending, Notification, Owns
  <2>6. AnsweredOnceInOrder' /\ OwnId' /\ WriteAcknowledged'
    BY <2>1 DEF IInv, AnsweredOnceInOrder, OwnId, WriteAcknowledged, Notification
  <2> QED
    BY <2>3, <2>4, <2>5, <2>6 DEF IInv
<1>2. CASE Next
  BY <1>2, ClientKeeps, HandleKeeps, RouteKeeps, WriteKeeps DEF Next, Server
<1> QED
  BY <1>1, <1>2

\* The variables keep their types.
THEOREM TypeCorrect == Spec => []TypeOK
<1>1. IInv => TypeOK
  BY DEF IInv
<1> QED
  BY <1>1, InitInv, StepInv, PTL DEF Spec

\* The loop of runServer answers a line at most once, in the order of the lines, and
\* never a notification (main.cpp:69-75).
THEOREM InOrder == Spec => []AnsweredOnceInOrder
<1>1. IInv => AnsweredOnceInOrder
  BY DEF IInv
<1> QED
  BY <1>1, InitInv, StepInv, PTL DEF Spec

\* A response carries the id of the line it answers, null if that has none; an id
\* recovered by tryRecoverId may be another's.
THEOREM UnderOwnId == Spec => []OwnId
<1>1. IInv => OwnId
  BY DEF IInv
<1> QED
  BY <1>1, InitInv, StepInv, PTL DEF Spec

\* write_arxml is answered with "applied" exactly when it has replaced its output.
THEOREM Acknowledged == Spec => []WriteAcknowledged
<1>1. IInv => WriteAcknowledged
  BY DEF IInv
<1> QED
  BY <1>1, InitInv, StepInv, PTL DEF Spec
================================================================================
