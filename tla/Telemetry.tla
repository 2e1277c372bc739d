------------------------------- MODULE Telemetry -------------------------------
(***************************************************************************)
(* Telemetry: ScopedSpan (scoped_span.cpp) over the thread-local stack of  *)
(* open spans, the process-wide counter of ids and the process-wide trace. *)
(*                                                                         *)
(* A span is destroyed on its own thread, in any order and with telemetry  *)
(* switched on or off meanwhile; allocations fail; threads run in parallel.*)
(* finalize() has two steps, because the trace is shared: it leaves the    *)
(* stack of its thread, then it enters the trace without a lock.  A span's *)
(* name, times and attributes are payload and left out.                    *)
(***************************************************************************)
EXTENDS Integers, Sequences

CONSTANTS
    Threads,       \* threads that open spans
    NoSpan,        \* no parent: a root span
    Explicit,      \* the statuses callers set
    MaxSpans,      \* bound: spans constructed in a behaviour
    MaxUnwinding,  \* bound: exceptions in flight on one thread
    MaxFaults,     \* bound: failing allocations
    MaxSwitches    \* bound: calls of setEnabled and reset

Status == {"unset", "ok", "error"}

ASSUME SpanAssumption == MaxSpans \in Nat /\ NoSpan \notin 1..MaxSpans
ASSUME ThreadAssumption == Threads # {} /\ Explicit \subseteq Status
ASSUME BoundAssumption == MaxUnwinding \in Nat /\ MaxFaults \in Nat /\ MaxSwitches \in Nat

VARIABLES
    enabled,    \* TelemetryConfig's flag
    counter,    \* nextSpanId's counter
    span,       \* span[i]: the ScopedSpan object with id i
    stack,      \* stack[t]: activeSpanStack() of thread t
    unwinding,  \* unwinding[t]: std::uncaught_exceptions() of thread t
    trace,      \* currentTrace().spans
    faults,     \* failing allocations so far
    switches,   \* calls of setEnabled and reset so far
    whole       \* history: no reset() and no racing push_back has happened

vars == <<enabled, counter, span, stack, unwinding, trace, faults, switches, whole>>

Ids == 1..MaxSpans

\* The life of a span: not constructed, open, off the stack and about to enter
\* the trace, recorded, dropped before it left the stack, dropped or overwritten
\* on its way into the trace.
Life == {"none", "open", "leaving", "recorded", "leaked", "dropped"}

\* The members of ScopedSpan that finalize() reads, and history: "under" is the
\* set of spans that were open on the thread when this one was constructed.
Span == [thread : Threads, parent : Ids \cup {NoSpan}, uncaughtAtConstruct : 0..MaxUnwinding,
         status : Status, statusExplicit : BOOLEAN, life : Life,
         under : SUBSET Ids]

Record == [id : Ids, parent : Ids \cup {NoSpan}, status : Status]

Of(t, life) == {i \in Ids : span[i].life = life /\ span[i].thread = t}

\* finalize() is one call: its thread does nothing between the two steps.
Running(t) == Of(t, "leaving") = {}

Init ==
    /\ enabled = FALSE
    /\ counter = 1
    /\ span = [i \in Ids |->
                [thread |-> CHOOSE t \in Threads : TRUE, parent |-> NoSpan, uncaughtAtConstruct |-> 0,
                 status |-> "unset", statusExplicit |-> FALSE, life |-> "none",
                 under |-> {}]]
    /\ stack = [t \in Threads |-> <<>>]
    /\ unwinding = [t \in Threads |-> 0]
    /\ trace = <<>>
    /\ faults = 0
    /\ switches = 0
    /\ whole = TRUE

--------------------------------------------------------------------------------
(* TelemetryConfig and TelemetryContext *)

setEnabled(on) ==
    /\ switches < MaxSwitches
    /\ on # enabled
    /\ switches' = switches + 1
    /\ enabled' = on
    /\ UNCHANGED <<counter, span, stack, unwinding, trace, faults, whole>>

reset ==
    /\ switches < MaxSwitches
    /\ switches' = switches + 1
    /\ trace' = <<>>
    /\ whole' = FALSE
    /\ UNCHANGED <<enabled, counter, span, stack, unwinding, faults>>

--------------------------------------------------------------------------------
(* ScopedSpan: construction and the setters *)

\* Mutant of Top: a root span gets 0 for a parent instead of none.
TopOrZero(t) == IF stack[t] = <<>> THEN 0 ELSE stack[t][Len(stack[t])]

\* The parent of the next span: stack.back(), none when the stack is empty.
Top(t) == IF stack[t] = <<>> THEN NoSpan ELSE stack[t][Len(stack[t])]

\* Mutant of Construct: one stack for all threads, the parent taken from any.
ConstructUnderAny(t) ==
    /\ enabled /\ Running(t) /\ counter \in Ids
    /\ counter' = counter + 1
    /\ \E u \in Threads :
          span' = [span EXCEPT ![counter] =
                      [thread |-> t, parent |-> Top(u), uncaughtAtConstruct |-> unwinding[t],
                       status |-> "unset", statusExplicit |-> FALSE,
                       life |-> "open", under |-> Of(t, "open")]]
    /\ stack' = [stack EXCEPT ![t] = Append(@, counter)]
    /\ UNCHANGED <<enabled, unwinding, trace, faults, switches, whole>>

\* The constructor with telemetry on; with telemetry off it leaves active_ FALSE
\* and the object has no effect.
Construct(t) ==
    /\ enabled /\ Running(t) /\ counter \in Ids
    /\ counter' = counter + 1
    /\ span' = [span EXCEPT ![counter] =
                  [thread |-> t, parent |-> Top(t), uncaughtAtConstruct |-> unwinding[t],
                   status |-> "unset", statusExplicit |-> FALSE,
                   life |-> "open", under |-> Of(t, "open")]]
    /\ stack' = [stack EXCEPT ![t] = Append(@, counter)]
    /\ UNCHANGED <<enabled, unwinding, trace, faults, switches, whole>>

\* stack.push_back throws: the object never exists, its id is spent.
ConstructFails(t) ==
    /\ enabled /\ Running(t) /\ counter \in Ids
    /\ faults < MaxFaults
    /\ faults' = faults + 1
    /\ counter' = counter + 1
    /\ UNCHANGED <<enabled, span, stack, unwinding, trace, switches, whole>>

setStatus(i, status) ==
    /\ span[i].life = "open" /\ Running(span[i].thread)
    /\ span' = [span EXCEPT ![i].status = status, ![i].statusExplicit = TRUE]
    /\ UNCHANGED <<enabled, counter, stack, unwinding, trace, faults, switches, whole>>

\* The instrumented code throws, and an exception is caught.
Throw(t) ==
    /\ Running(t) /\ unwinding[t] < MaxUnwinding
    /\ unwinding' = [unwinding EXCEPT ![t] = @ + 1]
    /\ UNCHANGED <<enabled, counter, span, stack, trace, faults, switches, whole>>

Catch(t) ==
    /\ Running(t) /\ unwinding[t] > 0
    /\ unwinding' = [unwinding EXCEPT ![t] = @ - 1]
    /\ UNCHANGED <<enabled, counter, span, stack, trace, faults, switches, whole>>

--------------------------------------------------------------------------------
(* ~ScopedSpan and finalize *)

\* The status the span gets: the explicit one, or whether an exception is
\* unwinding through the scope.
FinalStatus(i) ==
    IF span[i].statusExplicit THEN span[i].status
    ELSE IF unwinding[span[i].thread] > span[i].uncaughtAtConstruct THEN "error" ELSE "ok"

\* Mutant of Popped: pop_back() whatever is on top.
PoppedTop(s, i) == IF s = <<>> THEN s ELSE SubSeq(s, 1, Len(s) - 1)

\* The stack without the id: the last place that holds it, which is the top when
\* spans are destroyed in order.
Popped(s, i) ==
    LET places == {k \in DOMAIN s : s[k] = i} IN
        IF places = {} THEN s
        ELSE LET at == CHOOSE k \in places : \A l \in places : l <= k IN
                [k \in 1..(Len(s) - 1) |-> IF k < at THEN s[k] ELSE s[k + 1]]

\* The status, the members and the pop.
Finalize(i) ==
    LET t == span[i].thread IN
    /\ span[i].life = "open" /\ Running(t)
    /\ span' = [span EXCEPT ![i].life = "leaving", ![i].status = FinalStatus(i)]
    /\ stack' = [stack EXCEPT ![t] = Popped(@, i)]
    /\ UNCHANGED <<enabled, counter, unwinding, trace, faults, switches, whole>>

\* Copying name_ throws before the pop: the destructor swallows it, the span is
\* dropped and its id stays on the stack.
FinalizeFails(i) ==
    /\ span[i].life = "open" /\ Running(span[i].thread)
    /\ faults < MaxFaults
    /\ faults' = faults + 1
    /\ span' = [span EXCEPT ![i].life = "leaked"]
    /\ UNCHANGED <<enabled, counter, stack, unwinding, trace, switches, whole>>

Recorded(i) ==
    [id |-> i, parent |-> span[i].parent, status |-> span[i].status]

\* currentTrace().spans.push_back(finished).
PushSpan(i) ==
    /\ span[i].life = "leaving"
    /\ span' = [span EXCEPT ![i].life = "recorded"]
    /\ trace' = Append(trace, Recorded(i))
    /\ UNCHANGED <<enabled, counter, stack, unwinding, faults, switches, whole>>

\* push_back throws: the span is dropped, off the stack.
PushFails(i) ==
    /\ span[i].life = "leaving"
    /\ faults < MaxFaults
    /\ faults' = faults + 1
    /\ span' = [span EXCEPT ![i].life = "dropped"]
    /\ UNCHANGED <<enabled, counter, stack, unwinding, trace, switches, whole>>

\* Two threads are in push_back on the one vector: a data race, one record is
\* overwritten.
PushRaces(i) ==
    /\ span[i].life = "leaving"
    /\ \E j \in Ids \ {i} : span[j].life = "leaving"
    /\ span' = [span EXCEPT ![i].life = "dropped"]
    /\ whole' = FALSE
    /\ UNCHANGED <<enabled, counter, stack, unwinding, trace, faults, switches>>

--------------------------------------------------------------------------------
OfThread(t) ==
    \/ Construct(t) \/ ConstructFails(t)
    \/ Throw(t) \/ Catch(t)

OfSpan(i) ==
    \/ \E status \in Explicit : setStatus(i, status)
    \/ Finalize(i) \/ FinalizeFails(i)
    \/ PushSpan(i) \/ PushFails(i) \/ PushRaces(i)

Next ==
    \/ \E on \in BOOLEAN : setEnabled(on)
    \/ reset
    \/ \E t \in Threads : OfThread(t)
    \/ \E i \in Ids : OfSpan(i)

Spec == Init /\ [][Next]_vars

--------------------------------------------------------------------------------
(* Properties *)

\* Every variable has its type.
TypeOK ==
    /\ enabled \in BOOLEAN
    /\ counter \in 1..(MaxSpans + 1)
    /\ span \in [Ids -> Span]
    /\ stack \in [Threads -> Seq(Ids)]
    /\ unwinding \in [Threads -> 0..MaxUnwinding]
    /\ trace \in Seq(Record)
    /\ faults \in 0..MaxFaults
    /\ switches \in 0..MaxSwitches
    /\ whole \in BOOLEAN

\* The stack of a thread is its open spans in the order they were opened, whatever
\* order they are destroyed in and however telemetry is switched, plus the spans
\* whose finalize() failed before the pop and nothing else.  So "a mis-scoped span
\* cannot leak a stale parent" (scoped_span.cpp:105-106), the search for the id
\* never fails (the assert at scoped_span.cpp:118), and only a failing allocation
\* leaves a dead span on the stack.
StackTracksOpenSpans ==
    \A t \in Threads :
        /\ {stack[t][k] : k \in DOMAIN stack[t]} = Of(t, "open") \cup Of(t, "leaked")
        /\ \A k, l \in DOMAIN stack[t] : k < l => stack[t][k] < stack[t][l]

Innermost(S) == IF S = {} THEN NoSpan ELSE CHOOSE i \in S : \A j \in S : j <= i

\* The trace tells who was inside whom: a recorded span names as its parent the
\* innermost span that was open on its own thread when it began ("spans on
\* different threads are never miscategorized as parent/child of each other",
\* scoped_span.cpp:28-29), and that parent is in the trace or will be, until an
\* allocation fails, the trace is reset or two threads race for it.
TraceKeepsFamilies ==
    \A k \in DOMAIN trace :
        LET i == trace[k].id
            parent == trace[k].parent IN
        /\ parent # NoSpan => parent \in Ids /\ span[parent].thread = span[i].thread
        /\ Of(span[i].thread, "leaked") = {} => parent = Innermost(span[i].under)
        /\ parent # NoSpan /\ faults = 0 /\ whole =>
              \/ span[parent].life \in {"open", "leaving"}
              \/ \E l \in DOMAIN trace : trace[l].id = parent

================================================================================
