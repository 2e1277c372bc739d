------------------------------- MODULE McpServer -------------------------------
(***************************************************************************)
(* parsex-mcp: the read loop of runServer (main.cpp), the envelope checks  *)
(* and id recovery of protocol.hpp, the routing of dispatchMessage and the *)
(* tool calls of dispatch.hpp, fed by a client that pipelines its lines.   *)
(*                                                                         *)
(* A line is what the loop can tell about it.  Requests are numbered by    *)
(* the line that carries them, so the id of line i is i; "first" is the    *)
(* id that the textual scan of tryRecoverId meets first, which may be a    *)
(* nested key with another request's id, or bytes that are not UTF-8;      *)
(* "text" is what the engine's messages about the call's files are made of.*)
(***************************************************************************)
EXTENDS Integers, Sequences

CONSTANTS
    Templates, \* the kinds of line a client may send
    MaxLines   \* bound: lines in a session

Ids == 1..MaxLines
Null == 0
Methods == {"server/discover", "tools/list", "tools/call", "initialize",
            "notifications/cancelled", "notifications/progress", "unknown"}
Line == [shape : {"empty", "deep", "malformed", "json"},
         first : {"own", "other", "garbled", "none"},
         rpc : BOOLEAN, id : BOOLEAN, method : Methods,
         version : {"none", "supported", "other"},
         tool : {"read", "write", "unknown"}, arguments : {"valid", "not an object", "no match"},
         apply : BOOLEAN, text : {"UTF-8", "garbled"}]

ASSUME LineAssumption == Templates \subseteq Line
ASSUME BoundAssumption == MaxLines \in Nat \ {0}

VARIABLES
    sent,     \* the lines written to the server's stdin
    eof,      \* the client has closed stdin
    next,     \* the number of the line being handled, or of the next one
    pc,       \* where the loop is
    reply,    \* the response about to be written
    outbox,   \* the responses on stdout
    written   \* the lines whose tool call replaced its output file

vars == <<sent, eof, next, pc, reply, outbox, written>>

Kinds == {"ParseError", "NestingTooDeep", "InvalidRequest", "VersionMismatch", "LegacyInitialize",
          "MethodNotFound", "InvalidParams", "UnknownTool", "result", "applied", "isError"}

\* A response, and the number of the line it answers.
Reply == [id : Ids \cup {Null}, kind : Kinds, line : Ids, sendable : BOOLEAN]

NoReply == [id |-> Null, kind |-> "result", line |-> 1, sendable |-> TRUE]

line == sent[next]

Init ==
    /\ sent = <<>>
    /\ eof = FALSE
    /\ next = 1
    /\ pc = "read"
    /\ reply = NoReply
    /\ outbox = <<>>
    /\ written = {}

--------------------------------------------------------------------------------
(* The client *)

Send(t) ==
    /\ ~eof
    /\ Len(sent) < MaxLines
    /\ sent' = Append(sent, t)
    /\ UNCHANGED <<eof, next, pc, reply, outbox, written>>

CloseInput ==
    /\ ~eof
    /\ eof' = TRUE
    /\ UNCHANGED <<sent, next, pc, reply, outbox, written>>

--------------------------------------------------------------------------------
(* runServer *)

\* The response goes to writeMessage next.
Respond(id, kind, sendable) ==
    /\ reply' = [id |-> id, kind |-> kind, line |-> next, sendable |-> sendable]
    /\ pc' = "reply"
    /\ UNCHANGED <<sent, eof, next, outbox>>

Answer(id, kind) == Respond(id, kind, TRUE) /\ UNCHANGED written

\* Mutant of Skip: the catch block reads a line as well.
SkipTwo ==
    /\ pc' = "read"
    /\ next' = next + 2
    /\ UNCHANGED <<sent, eof, reply, outbox, written>>

\* continue: on to the next line.
Skip ==
    /\ pc' = "read"
    /\ next' = next + 1
    /\ UNCHANGED <<sent, eof, reply, outbox, written>>

\* getline, the empty-line check, the depth guard and the JSON parse.
ReadLine ==
    /\ pc = "read"
    /\ next <= Len(sent)
    /\ \/ line.shape = "empty" /\ Skip
       \/ line.shape = "deep" /\ pc' = "too deep" /\ UNCHANGED <<sent, eof, next, reply, outbox, written>>
       \/ line.shape = "malformed" /\ pc' = "malformed" /\ UNCHANGED <<sent, eof, next, reply, outbox, written>>
       \/ line.shape = "json" /\ pc' = "envelope" /\ UNCHANGED <<sent, eof, next, reply, outbox, written>>

\* EOF is the normal shutdown.
EndOfInput ==
    /\ pc = "read"
    /\ eof /\ next > Len(sent)
    /\ pc' = "exited"
    /\ UNCHANGED <<sent, eof, next, reply, outbox, written>>

\* tryRecoverId: the leftmost textual id.  One that is not UTF-8 is found, but
\* the response that carries it cannot be serialised.
tryRecoverId ==
    CASE line.first = "own" -> {next}
      [] line.first = "other" -> Ids \ {next}
      [] line.first = "garbled" -> {Null}
      [] line.first = "none" -> {}

\* rejectOverDeepLine, and the catch block of the JSON parse.
RecoverLine ==
    /\ pc \in {"too deep", "malformed"}
    /\ \/ \E id \in tryRecoverId :
             /\ Respond(id, IF pc = "too deep" THEN "NestingTooDeep" ELSE "ParseError",
                        line.first # "garbled")
             /\ UNCHANGED written
       \/ tryRecoverId = {} /\ Skip

IsNotification == line.method \in {"notifications/cancelled", "notifications/progress"}

\* isValidEnvelope: a message without an id must be a notification.
isValidEnvelope == line.rpc /\ (line.id \/ IsNotification)

CheckEnvelope ==
    /\ pc = "envelope"
    /\ \/ ~isValidEnvelope /\ Answer(IF line.id THEN next ELSE Null, "InvalidRequest")
       \/ isValidEnvelope /\ pc' = "dispatch" /\ UNCHANGED <<sent, eof, next, reply, outbox, written>>

\* Mutant of Dispatch: an unsupported version ends the loop.
DispatchStops ==
    /\ pc = "dispatch"
    /\ \/ ~line.id /\ Skip
       \/ line.id /\ line.version = "other" /\ pc' = "exited"
          /\ UNCHANGED <<sent, eof, next, reply, outbox, written>>
       \/ line.id /\ line.version # "other" /\ pc' = "route"
          /\ UNCHANGED <<sent, eof, next, reply, outbox, written>>

\* dispatchMessage: a notification is dropped, whatever it announces; a request
\* must not name an unsupported protocol version.
Dispatch ==
    /\ pc = "dispatch"
    /\ \/ ~line.id /\ Skip
       \/ line.id /\ line.version = "other" /\ Answer(next, "VersionMismatch")
       \/ line.id /\ line.version # "other" /\ pc' = "route"
          /\ UNCHANGED <<sent, eof, next, reply, outbox, written>>

\* routeRequest; a notification's method with an id is no method of a request.
RouteRequest ==
    /\ pc = "route"
    /\ \/ line.method \in {"server/discover", "tools/list"} /\ Answer(next, "result")
       \/ line.method = "tools/call" /\ pc' = "call"
          /\ UNCHANGED <<sent, eof, next, reply, outbox, written>>
       \/ line.method = "initialize" /\ Answer(next, "LegacyInitialize")
       \/ (IsNotification \/ line.method = "unknown") /\ Answer(next, "MethodNotFound")

--------------------------------------------------------------------------------
(* dispatchToolsCall *)

\* The arguments' type is checked before the tool is looked up.
Rejected ==
    IF line.arguments # "not an object" /\ line.tool = "unknown" THEN "UnknownTool" ELSE "InvalidParams"

Accepted == line.tool # "unknown" /\ line.arguments = "valid"

RejectCall ==
    /\ pc = "call"
    /\ ~Accepted
    /\ Answer(next, Rejected)

\* Mutant of CallTool: the preview runs the engine's write() too.
CallToolApplies ==
    /\ pc = "call"
    /\ Accepted
    /\ Respond(next, IF line.tool = "write" /\ line.apply THEN "applied" ELSE "result",
               line.tool = "write" \/ line.text = "UTF-8")
    /\ written' = IF line.tool = "write" THEN written \cup {next} ELSE written

\* The handler returns: write_arxml with apply:true has replaced its output.
\* The result of write_arxml holds its arguments and nothing of the files.
CallTool ==
    /\ pc = "call"
    /\ Accepted
    /\ LET applies == line.tool = "write" /\ line.apply IN
          /\ Respond(next, IF applies THEN "applied" ELSE "result", line.tool = "write" \/ line.text = "UTF-8")
          /\ written' = IF applies THEN written \cup {next} ELSE written

\* The handler throws: the message of the exception is the tool's result, and
\* write() has left the output alone.
ToolFails ==
    /\ pc = "call"
    /\ Accepted
    /\ Respond(next, "isError", line.text = "UTF-8")
    /\ UNCHANGED written

\* Mutant of WriteMessage: the error paths forget their continue.
WriteAndFallThrough ==
    /\ pc = "reply"
    /\ reply.sendable
    /\ outbox' = Append(outbox, reply)
    /\ IF reply.kind = "InvalidRequest" /\ line.id
       THEN pc' = "dispatch" /\ UNCHANGED next
       ELSE pc' = "read" /\ next' = next + 1
    /\ UNCHANGED <<sent, eof, reply, written>>

\* Mutant of WriteMessage: the response carries the id of the last one sent.
WriteStaleId ==
    /\ pc = "reply"
    /\ reply.sendable
    /\ outbox' = Append(outbox, [reply EXCEPT !.id =
                    IF outbox = <<>> THEN @ ELSE outbox[Len(outbox)].id])
    /\ pc' = "read"
    /\ next' = next + 1
    /\ UNCHANGED <<sent, eof, reply, written>>

\* writeMessage: dump() and flush.
WriteMessage ==
    /\ pc = "reply"
    /\ reply.sendable
    /\ outbox' = Append(outbox, reply)
    /\ pc' = "read"
    /\ next' = next + 1
    /\ UNCHANGED <<sent, eof, reply, written>>

\* dump() throws on a string that is not UTF-8; the catch block around the call
\* of writeMessage logs and goes on: the line gets no response.
WriteMessageFails ==
    /\ pc = "reply"
    /\ ~reply.sendable
    /\ Skip

--------------------------------------------------------------------------------
Server ==
    \/ ReadLine \/ EndOfInput \/ RecoverLine \/ CheckEnvelope \/ Dispatch \/ RouteRequest
    \/ RejectCall \/ CallTool \/ ToolFails \/ WriteMessage \/ WriteMessageFails

Next ==
    \/ \E t \in Templates : Send(t)
    \/ CloseInput
    \/ Server

Spec == Init /\ [][Next]_vars

\* The server is one thread that always takes its next step when it has a line.
FairSpec == Spec /\ WF_vars(Server)

--------------------------------------------------------------------------------
(* Properties *)

\* Every variable has its type.
TypeOK ==
    /\ sent \in Seq(Line)
    /\ eof \in BOOLEAN
    /\ next \in 1..(MaxLines + 1)
    /\ pc \in {"read", "too deep", "malformed", "envelope", "dispatch", "route", "call", "reply", "exited"}
    /\ reply \in Reply
    /\ outbox \in Seq(Reply)
    /\ written \subseteq Ids

Notification(l) ==
    /\ l.shape = "json" /\ l.rpc /\ ~l.id
    /\ l.method \in {"notifications/cancelled", "notifications/progress"}

\* A line is answered at most once, and the responses come in the order of the
\* lines: what lets a client that pipelines match them (one request at a time
\* on a single thread, main.cpp:69-71).  A notification is never answered: "Never
\* responds on stdout (it is a notification, not a request)" (main.cpp:74-75).
AnsweredOnceInOrder ==
    /\ \A i, j \in DOMAIN outbox : i < j => outbox[i].line < outbox[j].line
    /\ \A i \in DOMAIN outbox : ~Notification(sent[outbox[i].line])

\* A response carries the id of the line it answers, or null when that has none;
\* only an id recovered from a line that was never parsed may be another's.
OwnId ==
    \A i \in DOMAIN outbox :
        LET l == sent[outbox[i].line] IN
            \/ outbox[i].id = outbox[i].line /\ (l.shape = "json" => l.id)
            \/ outbox[i].id = Null /\ l.shape = "json" /\ ~l.id
            \/ outbox[i].kind \in {"ParseError", "NestingTooDeep"} /\ l.shape \in {"deep", "malformed"}

\* The client learns what happened to its file: a line is answered with
\* "applied" exactly when its call replaced the output, and a preview, an error
\* result and a rejected call have written nothing (tools.hpp:194-206).
WriteAcknowledged ==
    /\ \A i \in DOMAIN outbox : outbox[i].kind = "applied" <=> outbox[i].line \in written
    /\ \A n \in written :
          /\ sent[n].tool = "write" /\ sent[n].apply
          /\ n < next => \E i \in DOMAIN outbox : outbox[i].line = n /\ outbox[i].id = n

\* Every JSON message but a notification is answered, under its own id or null
\* when it has none, whatever lines surround it and also after the client has
\* cancelled it or closed its end: "the loop survives any sequence of malformed
\* lines" (main.cpp:251-252).  The exception is a call whose result cannot be
\* serialised (main.cpp:175-177).
RequestsAnswered ==
    \A n \in Ids :
        (/\ n <= Len(sent)
         /\ sent[n].shape = "json" /\ ~Notification(sent[n])
         /\ sent[n].text = "UTF-8") ~>
            (\E i \in DOMAIN outbox :
                outbox[i].line = n /\ outbox[i].id = IF sent[n].id THEN n ELSE Null)

================================================================================
