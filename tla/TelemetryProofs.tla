---------------------------- MODULE TelemetryProofs ----------------------------
(***************************************************************************)
(* For any number of threads and spans: the stack of a thread tracks its   *)
(* open spans, and the trace tells who was inside whom.                    *)
(***************************************************************************)
EXTENDS Telemetry, TLAPS

Elements(s) == {s[k] : k \in DOMAIN s}
Increasing(s) == \A k, l \in DOMAIN s : k < l => s[k] < s[l]

\* Of in the state after a step.
OfNext(t, life) == {i \in Ids : span'[i].life = life /\ span'[i].thread = t}

\* A constructed span has an id below the counter, a constructed parent on its own
\* thread, and the innermost open span as parent unless a leak came between.
Constructed ==
    \A i \in Ids : span[i].life # "none" =>
        /\ i < counter
        /\ span[i].parent # NoSpan =>
              /\ span[i].parent \in Ids
              /\ span[span[i].parent].life # "none"
              /\ span[span[i].parent].thread = span[i].thread
        /\ Of(span[i].thread, "leaked") = {} => span[i].parent = Innermost(span[i].under)

\* A record of the trace is that of a recorded span.
TraceOfRecorded ==
    \A k \in DOMAIN trace :
        /\ span[trace[k].id].life = "recorded"
        /\ trace[k].parent = span[trace[k].id].parent

\* Without failing allocations, resets and races every recorded span is in the
\* trace and no other way out of the stack was taken.
NothingLost ==
    faults = 0 /\ whole =>
        \A i \in Ids :
            /\ span[i].life \notin {"leaked", "dropped"}
            /\ span[i].life = "recorded" => \E k \in DOMAIN trace : trace[k].id = i

\* The inductive invariant.
IInv == TypeOK /\ StackTracksOpenSpans /\ Constructed /\ TraceOfRecorded /\ NothingLost

\* Popping an id from an increasing stack that holds it leaves the other ids, in
\* their order (the search from the top and the erase in finalize).
LEMMA PoppedStack ==
    ASSUME NEW s \in Seq(Ids), Increasing(s), NEW i \in Elements(s)
    PROVE  /\ Popped(s, i) \in Seq(Ids)
           /\ Elements(Popped(s, i)) = Elements(s) \ {i}
           /\ Increasing(Popped(s, i))
<1> DEFINE places == {k \in DOMAIN s : s[k] = i}
           at == CHOOSE k \in places : \A l \in places : l <= k
           p == Popped(s, i)
<1>1. PICK k \in DOMAIN s : s[k] = i
  BY DEF Elements
<1>2. Ids \subseteq Int /\ DOMAIN s = 1..Len(s) /\ Len(s) \in Nat
  <2>1. Ids \subseteq Int
    BY SpanAssumption DEF Ids
  <2>2. DOMAIN s = 1..Len(s) /\ Len(s) \in Nat
    OBVIOUS
  <2> QED
    BY <2>1, <2>2
<1>3. \A l \in DOMAIN s : s[l] \in Int
  <2>1. \A l \in DOMAIN s : s[l] \in Ids
    OBVIOUS
  <2> QED
    BY <2>1, <1>2
<1>4. \A l \in DOMAIN s : s[l] = i => l = k
  BY <1>1, <1>2, <1>3 DEF Increasing
<1>5. places = {k}
  BY <1>1, <1>4
<1>6. at = k
  <2>1. k \in places /\ \A l \in places : l <= k
    BY <1>2, <1>5
  <2>2. at \in places
    BY <2>1
  <2> QED
    BY <1>5, <2>2
<1>7. p = [j \in 1..(Len(s) - 1) |-> IF j < k THEN s[j] ELSE s[j + 1]]
  <2>1. places # {}
    BY <1>5
  <2>2. p = [j \in 1..(Len(s) - 1) |-> IF j < at THEN s[j] ELSE s[j + 1]]
    BY <2>1 DEF Popped
  <2> QED
    BY <2>2, <1>6
<1> HIDE DEF places, at, p
<1>8. k \in 1..Len(s) /\ Len(s) - 1 \in Nat
  BY <1>1, <1>2
<1>9. \A j \in 1..(Len(s) - 1) : p[j] \in Ids
  BY <1>7, <1>8, <1>2
<1>10. p \in Seq(Ids) /\ DOMAIN p = 1..(Len(s) - 1)
  BY <1>7, <1>8, <1>9
<1>11. Elements(p) = Elements(s) \ {i}
  <2>1. ASSUME NEW x \in Elements(p) PROVE x \in Elements(s) \ {i}
    <3>1. PICK j \in 1..(Len(s) - 1) : p[j] = x
      BY <1>10, <2>1 DEF Elements
    <3>2. CASE j < k
      BY <3>1, <3>2, <1>2, <1>4, <1>7, <1>8 DEF Elements
    <3>3. CASE ~(j < k)
      <4>1. j + 1 \in DOMAIN s /\ j + 1 # k /\ p[j] = s[j + 1]
        BY <3>1, <3>3, <1>2, <1>7, <1>8
      <4> QED
        BY <4>1, <3>1, <1>4 DEF Elements
    <3> QED
      BY <3>2, <3>3
  <2>2. ASSUME NEW x \in Elements(s) \ {i} PROVE x \in Elements(p)
    <3>1. PICK j \in DOMAIN s : s[j] = x
      BY <2>2 DEF Elements
    <3>2. j # k /\ j \in 1..Len(s)
      BY <3>1, <2>2, <1>1, <1>2
    <3>3. CASE j < k
      <4>1. j \in 1..(Len(s) - 1) /\ p[j] = x
        BY <3>1, <3>2, <3>3, <1>2, <1>7, <1>8
      <4> QED
        BY <4>1, <1>10 DEF Elements
    <3>4. CASE ~(j < k)
      <4>1. j - 1 \in 1..(Len(s) - 1) /\ ~(j - 1 < k) /\ (j - 1) + 1 = j
        BY <3>2, <3>4, <1>2, <1>8
      <4>2. p[j - 1] = x
        BY <4>1, <1>7, <3>1
      <4> QED
        BY <4>1, <4>2, <1>10 DEF Elements
    <3> QED
      BY <3>3, <3>4
  <2> QED
    BY <2>1, <2>2
<1>12. Increasing(p)
  <2> SUFFICES ASSUME NEW j \in DOMAIN p, NEW l \in DOMAIN p, j < l PROVE p[j] < p[l]
    BY DEF Increasing
  <2> DEFINE Old(n) == IF n < k THEN n ELSE n + 1
  <2>1. j \in 1..(Len(s) - 1) /\ l \in 1..(Len(s) - 1)
    BY <1>10
  <2>2. p[j] = s[Old(j)] /\ p[l] = s[Old(l)]
    BY <2>1, <1>7
  <2>3. Old(j) \in DOMAIN s /\ Old(l) \in DOMAIN s /\ Old(j) < Old(l)
    BY <2>1, <1>2, <1>8
  <2> HIDE DEF Old
  <2> QED
    BY <2>2, <2>3 DEF Increasing
<1> QED
  BY <1>10, <1>11, <1>12 DEF p

\* Pushing an id above all others onto an increasing stack.
LEMMA PushedStack ==
    ASSUME NEW s \in Seq(Ids), Increasing(s), NEW i \in Ids, \A x \in Elements(s) : x < i
    PROVE  /\ Append(s, i) \in Seq(Ids)
           /\ Elements(Append(s, i)) = Elements(s) \cup {i}
           /\ Increasing(Append(s, i))
<1> DEFINE p == Append(s, i)
<1>1. /\ p \in Seq(Ids) /\ Len(p) = Len(s) + 1 /\ Len(s) \in Nat
      /\ \A j \in 1..Len(s) : p[j] = s[j]
      /\ p[Len(s) + 1] = i
      /\ DOMAIN p = 1..(Len(s) + 1) /\ DOMAIN s = 1..Len(s)
  OBVIOUS
<1> HIDE DEF p
<1>2. Elements(p) = Elements(s) \cup {i}
  <2>1. ASSUME NEW x \in Elements(p) PROVE x \in Elements(s) \cup {i}
    <3>1. PICK j \in 1..(Len(s) + 1) : p[j] = x
      BY <1>1, <2>1 DEF Elements
    <3>2. j \in 1..Len(s) \/ j = Len(s) + 1
      BY <1>1, <3>1
    <3> QED
      BY <1>1, <3>1, <3>2 DEF Elements
  <2>2. ASSUME NEW x \in Elements(s) PROVE x \in Elements(p)
    <3>1. PICK j \in 1..Len(s) : s[j] = x
      BY <1>1, <2>2 DEF Elements
    <3>2. j \in DOMAIN p /\ p[j] = x
      BY <1>1, <3>1
    <3> QED
      BY <3>2 DEF Elements
  <2>3. i \in Elements(p)
    <3>1. Len(s) + 1 \in DOMAIN p
      BY <1>1
    <3> QED
      BY <1>1, <3>1 DEF Elements
  <2> QED
    BY <2>1, <2>2, <2>3
<1>3. Increasing(p)
  <2> SUFFICES ASSUME NEW j \in DOMAIN p, NEW l \in DOMAIN p, j < l PROVE p[j] < p[l]
    BY DEF Increasing
  <2>1. j \in 1..Len(s) /\ p[j] = s[j] /\ s[j] \in Elements(s)
    <3>1. j \in 1..Len(s)
      BY <1>1
    <3> QED
      BY <3>1, <1>1 DEF Elements
  <2>2. CASE l \in 1..Len(s)
    BY <2>1, <2>2, <1>1 DEF Increasing
  <2>3. CASE l = Len(s) + 1
    BY <2>1, <2>3, <1>1
  <2> QED
    BY <1>1, <2>2, <2>3
<1> QED
  BY <1>1, <1>2, <1>3 DEF p

\* The innermost of a set of ids is its greatest element.
LEMMA InnermostIs ==
    ASSUME NEW S \in SUBSET Ids, NEW i \in S, \A j \in S : j <= i
    PROVE  Innermost(S) = i
<1> DEFINE Best(x) == x \in S /\ \A j \in S : j <= x
<1>1. S \subseteq Int
  BY SpanAssumption DEF Ids
<1>2. \A x : Best(x) => x = i
  BY <1>1
<1>3. Innermost(S) = CHOOSE x \in S : \A j \in S : j <= x
  BY DEF Innermost
<1>4. Best(CHOOSE x \in S : \A j \in S : j <= x)
  <2>1. \E x \in S : \A j \in S : j <= x
    OBVIOUS
  <2> QED
    BY <2>1
<1> QED
  BY <1>2, <1>3, <1>4

\* The records of the trace have ids.
LEMMA TraceIds ==
    ASSUME TypeOK
    PROVE  \A k \in DOMAIN trace : trace[k] \in Record /\ trace[k].id \in Ids
<1>1. trace \in Seq(Record)
  BY DEF TypeOK
<1>2. \A k \in DOMAIN trace : trace[k] \in Record
  BY <1>1
<1> QED
  BY <1>2 DEF Record

--------------------------------------------------------------------------------
(* What a step of a span leaves as it was *)

\* The family of every constructed span is fixed; lives only go forward.
Kept ==
    /\ counter' = counter
    /\ \A j \in Ids :
          /\ span'[j].thread = span[j].thread
          /\ span'[j].parent = span[j].parent
          /\ span'[j].under = span[j].under
          /\ span'[j].life = "none" <=> span[j].life = "none"
          /\ span[j].life = "leaked" => span'[j].life = "leaked"

\* Only the life of i changes, and perhaps its status.
Becomes(i, life) ==
    /\ counter' = counter
    /\ span'[i].life = life
    /\ \A j \in Ids \ {i} : span'[j].life = span[j].life
    /\ \A j \in Ids : /\ span'[j].thread = span[j].thread
                      /\ span'[j].parent = span[j].parent
                      /\ span'[j].under = span[j].under

LEMMA KeptConstructed ==
    ASSUME Kept, TypeOK, Constructed
    PROVE  Constructed'
<1> SUFFICES ASSUME NEW i \in Ids, span'[i].life # "none"
             PROVE  /\ i < counter'
                    /\ span'[i].parent # NoSpan =>
                          /\ span'[i].parent \in Ids
                          /\ span'[span'[i].parent].life # "none"
                          /\ span'[span'[i].parent].thread = span'[i].thread
                    /\ OfNext(span[i].thread, "leaked") = {} =>
                          span'[i].parent = Innermost(span'[i].under)
  BY DEF Constructed, Of, OfNext, Innermost, Kept
<1>1. /\ i < counter
      /\ span[i].parent # NoSpan =>
            /\ span[i].parent \in Ids
            /\ span[span[i].parent].life # "none"
            /\ span[span[i].parent].thread = span[i].thread
      /\ Of(span[i].thread, "leaked") = {} => span[i].parent = Innermost(span[i].under)
  BY DEF Constructed, Kept
<1>2. OfNext(span[i].thread, "leaked") = {} => Of(span[i].thread, "leaked") = {}
  BY DEF Of, OfNext, Kept
<1> QED
  BY <1>1, <1>2 DEF Kept

\* Steps that touch no span, no stack and no trace: throwing, catching, switching
\* telemetry on or off.
LEMMA OutsideSpans ==
    ASSUME IInv, UNCHANGED <<counter, span, stack, trace, faults, switches, whole>>,
           enabled' \in BOOLEAN, unwinding' \in [Threads -> 0..MaxUnwinding]
    PROVE  IInv'
<1>1. TypeOK'
  BY DEF IInv, TypeOK
<1>2. StackTracksOpenSpans'
  BY DEF IInv, StackTracksOpenSpans, Of
<1>3. Constructed'
  BY DEF IInv, Constructed, Of, Innermost
<1>4. TraceOfRecorded'
  BY DEF IInv, TraceOfRecorded
<1>5. NothingLost'
  BY DEF IInv, NothingLost
<1> QED
  BY <1>1, <1>2, <1>3, <1>4, <1>5 DEF IInv

\* The next span: constructed under the top of the stack and pushed on it.
LEMMA ConstructStep ==
    ASSUME IInv, NEW t \in Threads, Construct(t)
    PROVE  IInv'
<1> DEFINE c == counter
           new == [thread |-> t, parent |-> Top(t), uncaughtAtConstruct |-> unwinding[t],
                   status |-> "unset", statusExplicit |-> FALSE,
                   life |-> "open", under |-> Of(t, "open")]
<1>1. /\ c \in Ids
      /\ counter' = c + 1
      /\ span' = [span EXCEPT ![c] = new]
      /\ stack' = [stack EXCEPT ![t] = Append(@, c)]
      /\ UNCHANGED <<enabled, unwinding, trace, faults, switches, whole>>
  BY DEF Construct
<1>2. TypeOK
  BY DEF IInv
<1>3. c \in Nat /\ Ids \subseteq Int
  BY <1>1, SpanAssumption DEF Ids
<1>4. span'[c] = new /\ \A j \in Ids \ {c} : span'[j] = span[j]
  BY <1>1, <1>2 DEF TypeOK
<1>5. span[c].life = "none"
  BY <1>1, <1>3 DEF IInv, Constructed
<1>6. /\ \A u \in Threads \ {t} : stack'[u] = stack[u]
      /\ stack'[t] = Append(stack[t], c)
      /\ \A u \in Threads : stack[u] \in Seq(Ids)
  BY <1>1, <1>2 DEF TypeOK
<1>7. \A u \in Threads :
         /\ Elements(stack[u]) = Of(u, "open") \cup Of(u, "leaked")
         /\ Increasing(stack[u])
  BY DEF IInv, StackTracksOpenSpans, Elements, Increasing
<1>8. \A x \in Elements(stack[t]) :
         x \in Ids /\ span[x].life # "none" /\ span[x].thread = t /\ x < c
  <2> SUFFICES ASSUME NEW x \in Elements(stack[t])
               PROVE  x \in Ids /\ span[x].life # "none" /\ span[x].thread = t /\ x < c
    OBVIOUS
  <2>1. x \in Ids /\ span[x].life # "none" /\ span[x].thread = t
    BY <1>7 DEF Of
  <2> QED
    BY <2>1 DEF IInv, Constructed
<1>9. /\ Top(t) \in Ids \cup {NoSpan}
      /\ Top(t) # NoSpan => Top(t) \in Elements(stack[t])
      /\ Elements(stack[t]) # {} =>
            Top(t) \in Elements(stack[t]) /\ \A x \in Elements(stack[t]) : x <= Top(t)
      /\ Elements(stack[t]) = {} => Top(t) = NoSpan
  <2> DEFINE s == stack[t]
  <2>1. s \in Seq(Ids) /\ DOMAIN s = 1..Len(s) /\ Len(s) \in Nat
    <3>1. s \in Seq(Ids)
      BY <1>6
    <3> HIDE DEF s
    <3> QED
      BY <3>1
  <2>2. CASE s = <<>>
    <3>1. Top(t) = NoSpan
      BY <2>2 DEF Top
    <3>2. Elements(s) = {}
      <4> HIDE DEF s
      <4> QED
        BY <2>2 DEF Elements
    <3> QED
      BY <3>1, <3>2
  <2>3. CASE s # <<>>
    <3>1. Top(t) = s[Len(s)]
      BY <2>3 DEF Top
    <3>2. Len(s) \in DOMAIN s
      <4> HIDE DEF s
      <4> QED
        BY <2>1, <2>3
    <3>3. Top(t) \in Elements(s)
      BY <3>1, <3>2 DEF Elements
    <3>4. ASSUME NEW x \in Elements(s) PROVE x <= Top(t)
      <4>1. PICK k \in DOMAIN s : s[k] = x
        BY <3>4 DEF Elements
      <4>2. k = Len(s) \/ k < Len(s)
        BY <2>1, <4>1
      <4>3. CASE k < Len(s)
        <5>1. s[k] < s[Len(s)]
          BY <4>3, <3>2, <1>7 DEF Increasing
        <5>2. s[k] \in Int /\ s[Len(s)] \in Int
          BY <4>1, <3>1, <3>3, <1>8, <1>3
        <5> QED
          BY <5>1, <5>2, <4>1, <3>1
      <4>4. CASE k = Len(s)
        <5>1. x = Top(t) /\ x \in Int
          BY <4>1, <4>4, <3>1, <3>4, <1>8, <1>3
        <5> QED
          BY <5>1
      <4> QED
        BY <4>2, <4>3, <4>4
    <3> QED
      BY <3>3, <3>4, <1>8
  <2> QED
    BY <2>2, <2>3
<1>10. /\ Append(stack[t], c) \in Seq(Ids)
       /\ Elements(Append(stack[t], c)) = Elements(stack[t]) \cup {c}
       /\ Increasing(Append(stack[t], c))
  BY <1>1, <1>6, <1>7, <1>8, PushedStack
<1>11. /\ \A u \in Threads : OfNext(u, "leaked") = Of(u, "leaked")
       /\ \A u \in Threads \ {t} : OfNext(u, "open") = Of(u, "open")
       /\ OfNext(t, "open") = Of(t, "open") \cup {c}
  <2>1. \A u \in Threads : OfNext(u, "leaked") = Of(u, "leaked")
    BY <1>4, <1>5 DEF Of, OfNext
  <2>2. \A u \in Threads \ {t} : OfNext(u, "open") = Of(u, "open")
    BY <1>4, <1>5 DEF Of, OfNext
  <2>3. OfNext(t, "open") = Of(t, "open") \cup {c}
    BY <1>1, <1>4, <1>5 DEF Of, OfNext
  <2> QED
    BY <2>1, <2>2, <2>3
<1> HIDE DEF c
<1>12. TypeOK'
  <2>1. new \in Span
    <3>1. Of(t, "open") \in SUBSET Ids
      BY DEF Of
    <3>2. unwinding[t] \in 0..MaxUnwinding
      BY <1>2 DEF TypeOK
    <3> QED
      BY <3>1, <3>2, <1>9 DEF Span, Status, Life
  <2>2. span' \in [Ids -> Span]
    BY <2>1, <1>1, <1>2 DEF TypeOK
  <2>3. stack' \in [Threads -> Seq(Ids)]
    BY <1>1, <1>2, <1>10 DEF TypeOK
  <2>4. counter' \in 1..(MaxSpans + 1)
    BY <1>1, SpanAssumption DEF Ids
  <2> QED
    BY <2>2, <2>3, <2>4, <1>1, <1>2 DEF TypeOK
<1>13. StackTracksOpenSpans'
  <2> SUFFICES ASSUME NEW u \in Threads
               PROVE  /\ Elements(stack'[u]) = OfNext(u, "open") \cup OfNext(u, "leaked")
                      /\ Increasing(stack'[u])
    BY DEF StackTracksOpenSpans, Elements, Increasing, Of, OfNext
  <2>1. CASE u = t
    BY <2>1, <1>6, <1>7, <1>10, <1>11
  <2>2. CASE u # t
    BY <2>2, <1>6, <1>7, <1>11
  <2> QED
    BY <2>1, <2>2
<1>14. Constructed'
  <2> SUFFICES ASSUME NEW i \in Ids, span'[i].life # "none"
               PROVE  /\ i < counter'
                      /\ span'[i].parent # NoSpan =>
                            /\ span'[i].parent \in Ids
                            /\ span'[span'[i].parent].life # "none"
                            /\ span'[span'[i].parent].thread = span'[i].thread
                      /\ OfNext(span'[i].thread, "leaked") = {} =>
                            span'[i].parent = Innermost(span'[i].under)
    BY DEF Constructed, Of, OfNext, Innermost
  <2>1. CASE i = c
    <3>1. span'[i] = new /\ i < counter'
      BY <2>1, <1>1, <1>3, <1>4 DEF c
    <3>2. ASSUME Top(t) # NoSpan
          PROVE  /\ Top(t) \in Ids
                 /\ span'[Top(t)].life # "none"
                 /\ span'[Top(t)].thread = t
      <4>1. Top(t) \in Elements(stack[t])
        BY <3>2, <1>9
      <4>2. Top(t) \in Ids /\ span[Top(t)].life # "none" /\ span[Top(t)].thread = t
        BY <4>1, <1>8
      <4>3. Top(t) # c
        BY <4>2, <1>5
      <4> QED
        BY <4>2, <4>3, <1>4
    <3>3. ASSUME OfNext(t, "leaked") = {} PROVE Top(t) = Innermost(Of(t, "open"))
      <4>1. Elements(stack[t]) = Of(t, "open") /\ Of(t, "open") \in SUBSET Ids
        BY <3>3, <1>7, <1>11 DEF Of
      <4>2. CASE Of(t, "open") = {}
        BY <4>1, <4>2, <1>9 DEF Innermost
      <4>3. CASE Of(t, "open") # {}
        <5>1. Top(t) \in Of(t, "open") /\ \A x \in Of(t, "open") : x <= Top(t)
          BY <4>1, <4>3, <1>9
        <5> QED
          BY <5>1, <4>1, InnermostIs
      <4> QED
        BY <4>2, <4>3
    <3>4. new.parent = Top(t) /\ new.thread = t /\ new.under = Of(t, "open")
      OBVIOUS
    <3> HIDE DEF new
    <3> QED
      BY <3>1, <3>2, <3>3, <3>4
  <2>2. CASE i # c
    <3>1. span'[i] = span[i] /\ span[i].life # "none"
      BY <2>2, <1>4
    <3>2. /\ i < counter
          /\ span[i].parent # NoSpan =>
                /\ span[i].parent \in Ids
                /\ span[span[i].parent].life # "none"
                /\ span[span[i].parent].thread = span[i].thread
          /\ Of(span[i].thread, "leaked") = {} => span[i].parent = Innermost(span[i].under)
      BY <3>1 DEF IInv, Constructed
    <3>3. i < counter'
      BY <3>2, <1>1, <1>3 DEF c
    <3>4. span[i].parent # NoSpan => span'[span[i].parent] = span[span[i].parent]
      BY <3>2, <1>4, <1>5
    <3>5. span[i].thread \in Threads
      BY <1>2 DEF TypeOK, Span
    <3> QED
      BY <3>1, <3>2, <3>3, <3>4, <3>5, <1>11
  <2> QED
    BY <2>1, <2>2
<1>15. TraceOfRecorded'
  <2>1. \A k \in DOMAIN trace : trace[k].id \in Ids
    BY <1>2, TraceIds
  <2> QED
    BY <2>1, <1>1, <1>4, <1>5 DEF IInv, TraceOfRecorded
<1>16. NothingLost'
  BY <1>1, <1>4, <1>5 DEF IInv, NothingLost
<1> QED
  BY <1>12, <1>13, <1>14, <1>15, <1>16 DEF IInv

\* A span that neither was leaked nor becomes "none" keeps the families.
LEMMA BecomesKept ==
    ASSUME NEW i \in Ids, NEW life, Becomes(i, life), life # "none",
           span[i].life \notin {"none", "leaked"}
    PROVE  Kept
BY DEF Becomes, Kept

\* A step that leaves the stacks alone keeps them right when it takes no span in or
\* out of the open and the leaked ones.
LEMMA SameStacks ==
    ASSUME StackTracksOpenSpans, NEW i \in Ids, NEW life, Becomes(i, life), stack' = stack,
           span[i].life \in {"open", "leaked"} <=> life \in {"open", "leaked"}
    PROVE  StackTracksOpenSpans'
<1> SUFFICES ASSUME NEW t \in Threads
             PROVE  /\ Elements(stack'[t]) = OfNext(t, "open") \cup OfNext(t, "leaked")
                    /\ Increasing(stack'[t])
  BY DEF StackTracksOpenSpans, Elements, Increasing, Of, OfNext
<1>1. /\ Elements(stack[t]) = Of(t, "open") \cup Of(t, "leaked")
      /\ Increasing(stack[t])
  BY DEF StackTracksOpenSpans, Elements, Increasing
<1>2. OfNext(t, "open") \cup OfNext(t, "leaked") = Of(t, "open") \cup Of(t, "leaked")
  BY DEF Of, OfNext, Becomes
<1> QED
  BY <1>1, <1>2

\* The life of one span changes: the table of spans keeps its type.
LEMMA LifeTyped ==
    ASSUME TypeOK, NEW i \in Ids, NEW life \in Life,
           span' = [span EXCEPT ![i].life = life], counter' = counter
    PROVE  span' \in [Ids -> Span] /\ Becomes(i, life)
<1>1. span[i] \in Span
  BY DEF TypeOK
<1>2. [span[i] EXCEPT !.life = life] \in Span
  BY <1>1 DEF Span
<1>3. span' \in [Ids -> Span]
  BY <1>2 DEF TypeOK
<1>4. Becomes(i, life)
  BY DEF TypeOK, Becomes
<1> QED
  BY <1>3, <1>4

\* A span that is not in the trace yet and does not enter it disturbs no record.
LEMMA SameTrace ==
    ASSUME TypeOK, TraceOfRecorded, NEW i \in Ids, NEW life, Becomes(i, life),
           span[i].life # "recorded", trace' = trace
    PROVE  TraceOfRecorded'
<1> SUFFICES ASSUME NEW k \in DOMAIN trace
             PROVE  /\ span'[trace[k].id].life = "recorded"
                    /\ trace[k].parent = span'[trace[k].id].parent
  BY DEF TraceOfRecorded
<1>1. /\ trace[k].id \in Ids
      /\ span[trace[k].id].life = "recorded"
      /\ trace[k].parent = span[trace[k].id].parent
  BY TraceIds DEF TraceOfRecorded
<1> QED
  BY <1>1 DEF Becomes

\* An explicit status disturbs the type only.
LEMMA SetStatusStep ==
    ASSUME IInv, NEW i \in Ids, NEW status \in Explicit, setStatus(i, status)
    PROVE  IInv'
<1>1. /\ span[i].life = "open"
      /\ span' = [span EXCEPT ![i].status = status, ![i].statusExplicit = TRUE]
      /\ UNCHANGED <<enabled, counter, stack, unwinding, trace, faults, switches, whole>>
  BY DEF setStatus
<1>2. TypeOK
  BY DEF IInv
<1>3. Becomes(i, "open")
  BY <1>1, <1>2 DEF TypeOK, Becomes
<1>4. TypeOK'
  <2>1. status \in Status /\ span[i] \in Span
    BY <1>2, ThreadAssumption DEF TypeOK
  <2>2. [span[i] EXCEPT !.status = status, !.statusExplicit = TRUE] \in Span
    BY <2>1 DEF Span
  <2>3. span' \in [Ids -> Span]
    BY <1>1, <1>2, <2>2 DEF TypeOK
  <2> QED
    BY <1>1, <1>2, <2>3 DEF TypeOK
<1>5. StackTracksOpenSpans'
  BY <1>1, <1>3, SameStacks DEF IInv
<1>6. Constructed'
  BY <1>1, <1>2, <1>3, BecomesKept, KeptConstructed DEF IInv
<1>7. \A j \in Ids : span'[j].life = span[j].life /\ span'[j].parent = span[j].parent
  BY <1>1, <1>3 DEF Becomes
<1>8. TraceOfRecorded'
  BY <1>1, <1>2, <1>7, TraceIds DEF IInv, TraceOfRecorded
<1>9. NothingLost'
  BY <1>1, <1>7 DEF IInv, NothingLost
<1> QED
  BY <1>4, <1>5, <1>6, <1>8, <1>9 DEF IInv

\* The pop takes the id of an open span off its stack and keeps the rest, wherever
\* in the stack the id is.
LEMMA FinalizeStep ==
    ASSUME IInv, NEW i \in Ids, Finalize(i)
    PROVE  IInv'
<1> DEFINE t == span[i].thread
<1>1. /\ span[i].life = "open"
      /\ span' = [span EXCEPT ![i].life = "leaving", ![i].status = FinalStatus(i)]
      /\ stack' = [stack EXCEPT ![t] = Popped(@, i)]
      /\ UNCHANGED <<enabled, counter, unwinding, trace, faults, switches, whole>>
  BY DEF Finalize
<1>2. TypeOK /\ span[i] \in Span /\ t \in Threads
  BY DEF IInv, TypeOK, Span
<1>3. Becomes(i, "leaving")
  BY <1>1, <1>2 DEF TypeOK, Becomes
<1>4. /\ \A u \in Threads \ {t} : stack'[u] = stack[u]
      /\ stack'[t] = Popped(stack[t], i)
      /\ stack[t] \in Seq(Ids)
  BY <1>1, <1>2 DEF TypeOK
<1>5. \A u \in Threads :
         /\ Elements(stack[u]) = Of(u, "open") \cup Of(u, "leaked")
         /\ Increasing(stack[u])
  BY DEF IInv, StackTracksOpenSpans, Elements, Increasing
<1>6. i \in Elements(stack[t])
  BY <1>1, <1>2, <1>5 DEF Of
<1>7. /\ Popped(stack[t], i) \in Seq(Ids)
      /\ Elements(Popped(stack[t], i)) = Elements(stack[t]) \ {i}
      /\ Increasing(Popped(stack[t], i))
  BY <1>2, <1>4, <1>5, <1>6, PoppedStack
<1>8. TypeOK'
  <2>1. FinalStatus(i) \in Status
    BY <1>2 DEF FinalStatus, Span, Status
  <2>2. [span[i] EXCEPT !.life = "leaving", !.status = FinalStatus(i)] \in Span
    BY <1>2, <2>1 DEF Span, Life
  <2>3. span' \in [Ids -> Span]
    BY <1>1, <1>2, <2>2 DEF TypeOK
  <2>4. stack' \in [Threads -> Seq(Ids)]
    BY <1>1, <1>2, <1>7 DEF TypeOK
  <2> QED
    BY <1>1, <1>2, <2>3, <2>4 DEF TypeOK
<1>9. StackTracksOpenSpans'
  <2> SUFFICES ASSUME NEW u \in Threads
               PROVE  /\ Elements(stack'[u]) = OfNext(u, "open") \cup OfNext(u, "leaked")
                      /\ Increasing(stack'[u])
    BY DEF StackTracksOpenSpans, Elements, Increasing, Of, OfNext
  <2>1. CASE u = t
    <3>1. OfNext(t, "open") \cup OfNext(t, "leaked") = (Of(t, "open") \cup Of(t, "leaked")) \ {i}
      BY <1>1, <1>3 DEF Of, OfNext, Becomes
    <3>2. stack'[u] = Popped(stack[t], i)
      BY <2>1, <1>4
    <3>3. Elements(stack[t]) = Of(t, "open") \cup Of(t, "leaked")
      BY <1>2, <1>5
    <3> HIDE DEF t
    <3> QED
      BY <2>1, <3>1, <3>2, <3>3, <1>7
  <2>2. CASE u # t
    <3>1. OfNext(u, "open") \cup OfNext(u, "leaked") = Of(u, "open") \cup Of(u, "leaked")
      BY <2>2, <1>1, <1>3 DEF Of, OfNext, Becomes
    <3> QED
      BY <2>2, <3>1, <1>4, <1>5
  <2> QED
    BY <2>1, <2>2
<1>10. Constructed'
  BY <1>1, <1>2, <1>3, BecomesKept, KeptConstructed DEF IInv
<1>11. TraceOfRecorded'
  BY <1>1, <1>2, <1>3, SameTrace DEF IInv
<1>12. NothingLost'
  BY <1>1, <1>3 DEF IInv, NothingLost, Becomes
<1> QED
  BY <1>8, <1>9, <1>10, <1>11, <1>12 DEF IInv

\* A failure before the pop leaves the dead span on the stack, and is a fault.
LEMMA FinalizeFailsStep ==
    ASSUME IInv, NEW i \in Ids, FinalizeFails(i)
    PROVE  IInv'
<1>1. /\ span[i].life = "open"
      /\ faults < MaxFaults
      /\ faults' = faults + 1
      /\ span' = [span EXCEPT ![i].life = "leaked"]
      /\ UNCHANGED <<enabled, counter, stack, unwinding, trace, switches, whole>>
  BY DEF FinalizeFails
<1>2. TypeOK /\ faults \in Nat
  BY BoundAssumption DEF IInv, TypeOK
<1>3. span' \in [Ids -> Span] /\ Becomes(i, "leaked")
  BY <1>1, <1>2, LifeTyped DEF Life
<1>4. TypeOK'
  BY <1>1, <1>2, <1>3, BoundAssumption DEF TypeOK
<1>5. StackTracksOpenSpans'
  BY <1>1, <1>3, SameStacks DEF IInv
<1>6. Constructed'
  BY <1>1, <1>2, <1>3, BecomesKept, KeptConstructed DEF IInv
<1>7. TraceOfRecorded'
  BY <1>1, <1>2, <1>3, SameTrace DEF IInv
<1>8. NothingLost'
  BY <1>1, <1>2 DEF NothingLost
<1> QED
  BY <1>4, <1>5, <1>6, <1>7, <1>8 DEF IInv

\* The record enters the trace.
LEMMA PushSpanStep ==
    ASSUME IInv, NEW i \in Ids, PushSpan(i)
    PROVE  IInv'
<1>1. /\ span[i].life = "leaving"
      /\ span' = [span EXCEPT ![i].life = "recorded"]
      /\ trace' = Append(trace, Recorded(i))
      /\ UNCHANGED <<enabled, counter, stack, unwinding, faults, switches, whole>>
  BY DEF PushSpan
<1>2. TypeOK /\ span[i] \in Span
  BY DEF IInv, TypeOK
<1>3. span' \in [Ids -> Span] /\ Becomes(i, "recorded")
  BY <1>1, <1>2, LifeTyped DEF Life
<1>4. Recorded(i) \in Record /\ Recorded(i).id = i /\ Recorded(i).parent = span[i].parent
  BY <1>2 DEF Recorded, Record, Span
<1>5. trace \in Seq(Record)
  BY <1>2 DEF TypeOK
<1>6. /\ trace' \in Seq(Record)
      /\ DOMAIN trace' = DOMAIN trace \cup {Len(trace) + 1}
      /\ \A k \in DOMAIN trace : trace'[k] = trace[k]
      /\ trace'[Len(trace) + 1] = Recorded(i)
  BY <1>1, <1>4, <1>5
<1>7. TypeOK'
  BY <1>1, <1>2, <1>3, <1>6 DEF TypeOK
<1>8. StackTracksOpenSpans'
  BY <1>1, <1>3, SameStacks DEF IInv
<1>9. Constructed'
  BY <1>1, <1>2, <1>3, BecomesKept, KeptConstructed DEF IInv
<1>10. TraceOfRecorded'
  <2> SUFFICES ASSUME NEW k \in DOMAIN trace'
               PROVE  /\ span'[trace'[k].id].life = "recorded"
                      /\ trace'[k].parent = span'[trace'[k].id].parent
    BY DEF TraceOfRecorded
  <2>1. CASE k \in DOMAIN trace
    <3>1. trace'[k] = trace[k] /\ trace[k].id \in Ids
      BY <2>1, <1>2, <1>6, TraceIds
    <3>2. span[trace[k].id].life = "recorded" /\ trace[k].parent = span[trace[k].id].parent
      BY <2>1 DEF IInv, TraceOfRecorded
    <3>3. trace[k].id # i
      BY <3>2, <1>1
    <3> QED
      BY <3>1, <3>2, <3>3, <1>3 DEF Becomes
  <2>2. CASE k = Len(trace) + 1
    BY <2>2, <1>3, <1>4, <1>6 DEF Becomes
  <2> QED
    BY <2>1, <2>2, <1>6
<1>11. NothingLost'
  <2> SUFFICES ASSUME faults = 0, whole, NEW j \in Ids
               PROVE  /\ span'[j].life \notin {"leaked", "dropped"}
                      /\ span'[j].life = "recorded" => \E k \in DOMAIN trace' : trace'[k].id = j
    BY <1>1 DEF NothingLost
  <2>1. CASE j = i
    BY <2>1, <1>3, <1>4, <1>6 DEF Becomes
  <2>2. CASE j # i
    BY <2>2, <1>3, <1>6 DEF Becomes, IInv, NothingLost
  <2> QED
    BY <2>1, <2>2
<1> QED
  BY <1>7, <1>8, <1>9, <1>10, <1>11 DEF IInv

\* A span that is dropped on its way into the trace: a fault or a race.
LEMMA DropStep ==
    ASSUME IInv, NEW i \in Ids, PushFails(i) \/ PushRaces(i)
    PROVE  IInv'
<1>1. /\ span[i].life = "leaving"
      /\ span' = [span EXCEPT ![i].life = "dropped"]
      /\ UNCHANGED <<enabled, counter, stack, unwinding, trace, switches>>
      /\ \/ faults < MaxFaults /\ faults' = faults + 1 /\ whole' = whole
         \/ faults' = faults /\ whole' = FALSE
  BY DEF PushFails, PushRaces
<1>2. TypeOK /\ faults \in Nat
  BY BoundAssumption DEF IInv, TypeOK
<1>3. span' \in [Ids -> Span] /\ Becomes(i, "dropped")
  BY <1>1, <1>2, LifeTyped DEF Life
<1>4. TypeOK'
  <2>1. faults' \in 0..MaxFaults
    BY <1>1, <1>2, BoundAssumption DEF TypeOK
  <2>2. whole' \in BOOLEAN
    BY <1>1, <1>2 DEF TypeOK
  <2> QED
    BY <1>1, <1>2, <1>3, <2>1, <2>2 DEF TypeOK
<1>5. StackTracksOpenSpans'
  BY <1>1, <1>3, SameStacks DEF IInv
<1>6. Constructed'
  BY <1>1, <1>2, <1>3, BecomesKept, KeptConstructed DEF IInv
<1>7. TraceOfRecorded'
  BY <1>1, <1>2, <1>3, SameTrace DEF IInv
<1>8. NothingLost'
  BY <1>1, <1>2 DEF NothingLost
<1> QED
  BY <1>4, <1>5, <1>6, <1>7, <1>8 DEF IInv

--------------------------------------------------------------------------------
(* The theorems *)

LEMMA InvInit == Init => IInv
<1> SUFFICES ASSUME Init PROVE IInv
  OBVIOUS
<1> DEFINE t0 == CHOOSE t \in Threads : TRUE
<1>1. t0 \in Threads
  BY ThreadAssumption
<1> HIDE DEF t0
<1>2. span = [i \in Ids |->
                [thread |-> t0, parent |-> NoSpan, uncaughtAtConstruct |-> 0,
                 status |-> "unset", statusExplicit |-> FALSE, life |-> "none",
                 under |-> {}]]
  BY DEF Init, t0
<1>3. TypeOK
  <2>1. span \in [Ids -> Span]
    BY <1>1, <1>2, BoundAssumption DEF Span, Status, Life
  <2>2. stack \in [Threads -> Seq(Ids)] /\ trace \in Seq(Record)
    BY DEF Init
  <2>3. counter \in 1..(MaxSpans + 1)
    BY SpanAssumption DEF Init
  <2>4. /\ unwinding \in [Threads -> 0..MaxUnwinding]
        /\ faults \in 0..MaxFaults
        /\ switches \in 0..MaxSwitches
    BY BoundAssumption DEF Init
  <2>5. enabled \in BOOLEAN /\ whole \in BOOLEAN
    BY DEF Init
  <2> QED
    BY <2>1, <2>2, <2>3, <2>4, <2>5 DEF TypeOK
<1>4. \A i \in Ids : span[i].life = "none"
  BY <1>2
<1>5. StackTracksOpenSpans
  <2> SUFFICES ASSUME NEW t \in Threads
               PROVE  /\ Elements(stack[t]) = Of(t, "open") \cup Of(t, "leaked")
                      /\ Increasing(stack[t])
    BY DEF StackTracksOpenSpans, Elements, Increasing
  <2>1. stack[t] = <<>>
    BY DEF Init
  <2>2. Elements(stack[t]) = {} /\ Increasing(stack[t])
    BY <2>1 DEF Elements, Increasing
  <2> QED
    BY <1>4, <2>2 DEF Of
<1>6. Constructed
  BY <1>4 DEF Constructed
<1>7. TraceOfRecorded
  BY DEF Init, TraceOfRecorded
<1>8. NothingLost
  BY <1>4 DEF NothingLost
<1> QED
  BY <1>3, <1>5, <1>6, <1>7, <1>8 DEF IInv

LEMMA InvStep == IInv /\ [Next]_vars => IInv'
<1> SUFFICES ASSUME IInv, [Next]_vars PROVE IInv'
  OBVIOUS
<1> USE DEF OfThread, OfSpan
<1>1. TypeOK
  BY DEF IInv
<1>2. ASSUME NEW on \in BOOLEAN, setEnabled(on) PROVE IInv'
  <2>1. TypeOK'
    BY <1>1, <1>2, BoundAssumption DEF setEnabled, TypeOK
  <2>2. StackTracksOpenSpans' /\ Constructed'
    BY <1>2 DEF setEnabled, IInv, StackTracksOpenSpans, Of, Constructed, Innermost
  <2>3. TraceOfRecorded' /\ NothingLost'
    BY <1>2 DEF setEnabled, IInv, TraceOfRecorded, NothingLost
  <2> QED
    BY <2>1, <2>2, <2>3 DEF IInv
<1>3. CASE reset
  <2>1. TypeOK'
    <3>1. switches' \in 0..MaxSwitches
      BY <1>1, <1>3, BoundAssumption DEF reset, TypeOK
    <3>2. trace' \in Seq(Record)
      BY <1>3 DEF reset
    <3>3. whole' \in BOOLEAN
      BY <1>3 DEF reset
    <3>4. /\ enabled' \in BOOLEAN /\ counter' \in 1..(MaxSpans + 1)
          /\ span' \in [Ids -> Span] /\ stack' \in [Threads -> Seq(Ids)]
          /\ unwinding' \in [Threads -> 0..MaxUnwinding] /\ faults' \in 0..MaxFaults
      BY <1>1, <1>3 DEF reset, TypeOK
    <3> QED
      BY <3>1, <3>2, <3>3, <3>4 DEF TypeOK
  <2>2. StackTracksOpenSpans' /\ Constructed'
    BY <1>3 DEF reset, IInv, StackTracksOpenSpans, Of, Constructed, Innermost
  <2>3. TraceOfRecorded' /\ NothingLost'
    BY <1>3 DEF reset, TraceOfRecorded, NothingLost
  <2> QED
    BY <2>1, <2>2, <2>3 DEF IInv
<1>4. ASSUME NEW t \in Threads, ConstructFails(t) PROVE IInv'
  <2>1. /\ counter \in Ids /\ counter' = counter + 1
        /\ faults < MaxFaults /\ faults' = faults + 1
        /\ UNCHANGED <<enabled, span, stack, unwinding, trace, switches, whole>>
    BY <1>4 DEF ConstructFails
  <2>2. Ids \subseteq Nat /\ counter \in Nat /\ faults \in Nat
    BY <1>1, SpanAssumption, BoundAssumption DEF TypeOK, Ids
  <2>3. TypeOK'
    <3>1. counter' \in 1..(MaxSpans + 1) /\ faults' \in 0..MaxFaults
      BY <2>1, <2>2, SpanAssumption, BoundAssumption DEF Ids
    <3> QED
      BY <1>1, <2>1, <3>1 DEF TypeOK
  <2>4. Constructed'
    <3>1. \A i \in Ids : i < counter => i < counter'
      BY <2>1, <2>2
    <3> QED
      BY <2>1, <3>1 DEF IInv, Constructed, Of, Innermost
  <2>5. StackTracksOpenSpans' /\ TraceOfRecorded'
    BY <2>1 DEF IInv, StackTracksOpenSpans, TraceOfRecorded, Of
  <2>6. NothingLost'
    BY <2>1, <2>2 DEF NothingLost
  <2> QED
    BY <2>3, <2>4, <2>5, <2>6 DEF IInv
<1>5. ASSUME NEW t \in Threads, Throw(t) \/ Catch(t) PROVE IInv'
  <2>1. /\ unwinding[t] \in 0..MaxUnwinding
        /\ \/ unwinding[t] < MaxUnwinding /\ unwinding' = [unwinding EXCEPT ![t] = @ + 1]
           \/ unwinding[t] > 0 /\ unwinding' = [unwinding EXCEPT ![t] = @ - 1]
    BY <1>1, <1>5 DEF TypeOK, Throw, Catch
  <2>2. unwinding[t] + 1 \in 0..MaxUnwinding \/ ~(unwinding[t] < MaxUnwinding)
    BY <2>1, BoundAssumption
  <2>3. unwinding[t] - 1 \in 0..MaxUnwinding \/ ~(unwinding[t] > 0)
    BY <2>1, BoundAssumption
  <2>4. unwinding' \in [Threads -> 0..MaxUnwinding]
    BY <2>1, <2>2, <2>3, <1>1 DEF TypeOK
  <2>5. enabled' \in BOOLEAN
    BY <1>1, <1>5 DEF TypeOK, Throw, Catch
  <2> QED
    BY <1>5, <2>4, <2>5, OutsideSpans DEF Throw, Catch
<1>6. CASE UNCHANGED vars
  BY <1>1, <1>6, OutsideSpans DEF vars, TypeOK
<1>7. ASSUME NEW t \in Threads, Construct(t) PROVE IInv'
  BY <1>7, ConstructStep
<1>8. ASSUME NEW i \in Ids, OfSpan(i) PROVE IInv'
  BY <1>8, SetStatusStep, FinalizeStep, FinalizeFailsStep, PushSpanStep, DropStep
<1> QED
  BY <1>2, <1>3, <1>4, <1>5, <1>6, <1>7, <1>8 DEF Next

LEMMA InvAlways == Spec => []IInv
BY InvInit, InvStep, PTL DEF Spec

\* The types hold for any number of threads and spans.
THEOREM TypeCorrect == Spec => []TypeOK
<1>1. IInv => TypeOK
  BY DEF IInv
<1> QED
  BY <1>1, InvAlways, PTL

\* finalize() keeps the stack of a thread equal to its open spans, in order, but for
\* the spans whose finalize() failed before the pop (scoped_span.cpp:80-123).
THEOREM StackAlways == Spec => []StackTracksOpenSpans
<1>1. IInv => StackTracksOpenSpans
  BY DEF IInv
<1> QED
  BY <1>1, InvAlways, PTL

\* A record of the trace is that of a constructed span, whose parent has not been
\* lost.
LEMMA InvFamilies == IInv => TraceKeepsFamilies
<1> SUFFICES ASSUME IInv, NEW k \in DOMAIN trace
             PROVE  LET i == trace[k].id
                        parent == trace[k].parent IN
                    /\ parent # NoSpan => parent \in Ids /\ span[parent].thread = span[i].thread
                    /\ Of(span[i].thread, "leaked") = {} => parent = Innermost(span[i].under)
                    /\ parent # NoSpan /\ faults = 0 /\ whole =>
                          \/ span[parent].life \in {"open", "leaving"}
                          \/ \E l \in DOMAIN trace : trace[l].id = parent
  BY DEF TraceKeepsFamilies
<1> DEFINE i == trace[k].id
           parent == trace[k].parent
<1>1. i \in Ids /\ span[i].life = "recorded" /\ parent = span[i].parent
  BY TraceIds DEF IInv, TraceOfRecorded
<1>2. /\ parent # NoSpan =>
            parent \in Ids /\ span[parent].life # "none" /\ span[parent].thread = span[i].thread
      /\ Of(span[i].thread, "leaked") = {} => parent = Innermost(span[i].under)
  BY <1>1 DEF IInv, Constructed
<1>3. ASSUME parent # NoSpan, faults = 0, whole
      PROVE  \/ span[parent].life \in {"open", "leaving"}
             \/ \E l \in DOMAIN trace : trace[l].id = parent
  <2>1. parent \in Ids /\ span[parent].life \in Life /\ span[parent].life # "none"
    BY <1>2, <1>3 DEF IInv, TypeOK, Span
  <2>2. /\ span[parent].life \notin {"leaked", "dropped"}
        /\ span[parent].life = "recorded" => \E l \in DOMAIN trace : trace[l].id = parent
    BY <1>3, <2>1 DEF IInv, NothingLost
  <2> QED
    BY <2>1, <2>2 DEF Life
<1> QED
  BY <1>2, <1>3

\* The trace tells who was inside whom (scoped_span.cpp:25-32, 49-52).
THEOREM FamiliesAlways == Spec => []TraceKeepsFamilies
BY InvFamilies, InvAlways, PTL

================================================================================
