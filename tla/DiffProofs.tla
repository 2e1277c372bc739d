------------------------------- MODULE DiffProofs -------------------------------
(***************************************************************************)
(* For any two projects: the report of DiffEngine::diff tells every path   *)
(* once, in a determined order, guesses no move, and says the same of the  *)
(* comparison the other way round.                                         *)
(***************************************************************************)
EXTENDS Diff, WellFoundedInduction, FiniteSetTheorems, TLAPS

\* An index of a finite project: no nameless element.
Index(o) == IsFiniteSet(DOMAIN o) /\ DOMAIN o \subseteq Nat \ {0}

\* The paths that only o has.
Only(o, n) == DOMAIN o \ DOMAIN n

\* p and q are the only paths, gone and new, with their secondary key.
Clean(o, n, p, q) ==
    /\ p \in Only(o, n) /\ q \in Only(n, o)
    /\ secondaryKey(o[p]) = secondaryKey(n[q])
    /\ \A r \in Only(o, n) : secondaryKey(o[r]) = secondaryKey(o[p]) => r = p
    /\ \A r \in Only(n, o) : secondaryKey(n[r]) = secondaryKey(n[q]) => r = q

\* An entry with the fields that differ.
Full(kind, type, p, q, fields) ==
    [kind |-> kind, type |-> type, oldPath |-> p, newPath |-> q, fields |-> fields]

Removals(o, n) == {p \in Only(o, n) : \A q \in Only(n, o) : ~Clean(o, n, p, q)}
Additions(o, n) == {q \in Only(n, o) : \A p \in Only(o, n) : ~Clean(o, n, p, q)}
Pairs(o, n) == {c \in Only(o, n) \X Only(n, o) : Clean(o, n, c[1], c[2])}

\* What move detection leaves of one type.
MovesOf(o, n, type) ==
    {Entry("Removed", type, p, 0) : p \in Removals(o, n)}
        \cup {Entry("Added", type, 0, p) : p \in Additions(o, n)}
        \cup {Entry("Modified", type, p, p) : p \in DOMAIN o \cap DOMAIN n}
        \cup {Entry("Moved", type, c[1], c[2]) : c \in Pairs(o, n)}

--------------------------------------------------------------------------------
(* Numbers and recursive functions *)

\* A set of numbers has a least one.
LEMMA Least == ASSUME NEW S, S \subseteq Nat, S # {} PROVE \E x \in S : \A y \in S : x <= y
<1>1. IsWellFoundedOn(OpToRel(<, Nat), Nat)
  BY NatLessThanWellFounded
<1>2. PICK x \in S : \A y \in S : ~ (<<y, x>> \in OpToRel(<, Nat))
  BY <1>1, WFMin
<1>3. ASSUME NEW y \in S PROVE x <= y
  <2>1. ~ (<<y, x>> \in OpToRel(<, Nat))
    BY <1>2
  <2>2. y \in Nat /\ x \in Nat
    OBVIOUS
  <2>3. ~ (y < x)
    BY <2>1, <2>2 DEF OpToRel
  <2> QED
    BY <2>2, <2>3
<1> QED
  BY <1>2, <1>3

\* Induction up to n, on a set.
LEMMA Turns ==
    ASSUME NEW n \in Nat, NEW P, 0 \in P, \A i \in 1..n : i - 1 \in P => i \in P
    PROVE  0..n \subseteq P
<1> DEFINE Q == (0..n) \ P
<1> SUFFICES ASSUME Q # {} PROVE FALSE
  OBVIOUS
<1>0. Q \subseteq Nat /\ \A y \in Q : y \in 0..n /\ y \notin P
  OBVIOUS
<1>1. PICK x \in Q : \A y \in Q : x <= y
  <2> HIDE DEF Q
  <2> QED BY <1>0, Least
<1>2. x # 0 /\ x \in 1..n /\ x - 1 \in 0..n
  BY <1>0
<1>3. x - 1 \in P
  BY <1>1, <1>2
<1> QED
  BY <1>1, <1>2, <1>3

\* A function on 0..n whose values each follow from the one before.
Chain(g, n, b, G) == g[0] = b /\ \A k \in 1..n : g[k] = G[<<k, g[k - 1]>>]

\* There is such a function.
LEMMA ChainDefined ==
    ASSUME NEW n \in Nat, NEW V, NEW b \in V, NEW G \in [(1..n) \X V -> V]
    PROVE  \E g \in [0..n -> V] : Chain(g, n, b, G)
<1> DEFINE P == {i \in 0..n : \E g \in [0..i -> V] : Chain(g, i, b, G)}
<1>1. 0 \in P
  <2>1. [k \in 0..0 |-> b] \in [0..0 -> V] /\ Chain([k \in 0..0 |-> b], 0, b, G)
    BY DEF Chain
  <2> QED BY <2>1
<1>2. ASSUME NEW i \in 1..n, i - 1 \in P PROVE i \in P
  <2>1. PICK g \in [0..(i - 1) -> V] : Chain(g, i - 1, b, G)
    BY <1>2
  <2>2. i - 1 \in 0..(i - 1) /\ g[i - 1] \in V /\ i \in 0..n
    OBVIOUS
  <2>3. G[<<i, g[i - 1]>>] \in V
    BY <2>2
  <2> DEFINE h == [k \in 0..i |-> IF k = i THEN G[<<i, g[i - 1]>>] ELSE g[k]]
  <2>4. ASSUME NEW k \in 0..i PROVE (IF k = i THEN G[<<i, g[i - 1]>>] ELSE g[k]) \in V
    <3>1. k # i => k \in 0..(i - 1)
      OBVIOUS
    <3> QED BY <2>3, <3>1
  <2>5. h \in [0..i -> V]
    BY <2>4
  <2>6. h[i] = G[<<i, g[i - 1]>>] /\ \A k \in 0..(i - 1) : h[k] = g[k]
    OBVIOUS
  <2> HIDE DEF h
  <2>7. h[0] = b
    <3>1. 0 \in 0..(i - 1)
      OBVIOUS
    <3> QED BY <2>1, <2>6, <3>1 DEF Chain
  <2>8. ASSUME NEW k \in 1..i PROVE h[k] = G[<<k, h[k - 1]>>]
    <3>1. k - 1 \in 0..(i - 1) /\ (k = i \/ (k \in 1..(i - 1) /\ k \in 0..(i - 1)))
      OBVIOUS
    <3> QED BY <2>1, <2>6, <3>1 DEF Chain
  <2>9. Chain(h, i, b, G)
    BY <2>7, <2>8 DEF Chain
  <2> QED BY <2>2, <2>5, <2>9
<1>3. 0..n \subseteq P
  <2> HIDE DEF P
  <2> QED BY <1>1, <1>2, Turns
<1>4. n \in P
  <2> HIDE DEF P
  <2> QED BY <1>3
<1> QED
  BY <1>4

--------------------------------------------------------------------------------
(* Vectors *)

Vector(s) == s \in Seq(EntriesOf(s))
OneToOne(s) == \A i, j \in DOMAIN s : s[i] = s[j] => i = j

LEMMA Indices == ASSUME NEW s, Vector(s) PROVE Len(s) \in Nat /\ DOMAIN s = 1..Len(s)
BY DEF Vector

\* A function on 1..n is a vector.
LEMMA VectorOf == ASSUME NEW n \in Nat, NEW s, DOMAIN s = 1..n, s = [i \in 1..n |-> s[i]] PROVE Vector(s) /\ Len(s) = n
<1>1. \A i \in 1..n : s[i] \in EntriesOf(s)
  BY DEF EntriesOf
<1> QED
  BY <1>1 DEF Vector

\* How many of S are at most p.
Rank(S, p) == Cardinality({q \in S : q <= p})

LEMMA RankGrows ==
    ASSUME NEW S, S \subseteq Nat, IsFiniteSet(S), NEW p \in S
    PROVE  /\ Rank(S, p) \in 1..Cardinality(S)
           /\ \A r \in S : r < p => Rank(S, r) < Rank(S, p)
<1> DEFINE Low(x) == {q \in S : q <= x}
<1>0. \A x \in S : x \in Nat
  OBVIOUS
<1>1. \A x : Rank(S, x) = Cardinality(Low(x))
  BY DEF Rank
<1>2. ASSUME NEW x \in S
      PROVE  x \in Low(x) /\ IsFiniteSet(Low(x)) /\ Cardinality(Low(x)) \in 1..Cardinality(S)
  <2>1. x \in Low(x) /\ Low(x) \in SUBSET S
    BY <1>0
  <2>2. IsFiniteSet(Low(x)) /\ Cardinality(Low(x)) <= Cardinality(S)
    BY <2>1, FS_Subset
  <2>3. Cardinality(Low(x)) # 0
    BY <2>1, <2>2, FS_EmptySet
  <2> HIDE DEF Low
  <2> QED
    BY <2>1, <2>2, <2>3, FS_CardinalityType
<1>3. ASSUME NEW r \in S, r < p PROVE Rank(S, r) < Rank(S, p)
  <2>1. Low(r) \in SUBSET Low(p) /\ p \notin Low(r)
    <3>1. \A q \in S : q <= r => q <= p
      <4>1. r \in Nat /\ p \in Nat
        BY <1>0
      <4> QED
        BY <1>0, <1>3, <4>1
    <3>2. ~(p <= r)
      BY <1>0, <1>3
    <3> QED
      BY <3>1, <3>2
  <2>2. Low(r) # Low(p)
    BY <1>2, <2>1
  <2>3. Cardinality(Low(r)) <= Cardinality(Low(p)) /\ Cardinality(Low(r)) # Cardinality(Low(p))
    BY <1>2, <2>1, <2>2, FS_Subset
  <2>4. Cardinality(Low(r)) \in Nat /\ Cardinality(Low(p)) \in Nat
    BY <1>2, FS_CardinalityType
  <2> HIDE DEF Low
  <2> QED
    BY <1>1, <2>3, <2>4
<1> HIDE DEF Low
<1> QED
  BY <1>1, <1>2, <1>3

\* Ascending lists a finite set of numbers from the least.
LEMMA AscendingIs ==
    ASSUME NEW S, S \subseteq Nat, IsFiniteSet(S)
    PROVE  /\ Len(Ascending(S)) = Cardinality(S) /\ Cardinality(S) \in Nat
           /\ DOMAIN Ascending(S) = 1..Cardinality(S) /\ Vector(Ascending(S))
           /\ Ascending(S) \in [1..Cardinality(S) -> S]
           /\ EntriesOf(Ascending(S)) = S
           /\ \A i, j \in DOMAIN Ascending(S) : i < j => Ascending(S)[i] < Ascending(S)[j]
           /\ OneToOne(Ascending(S))
<1> DEFINE n == Cardinality(S)
           rank == [p \in S |-> Rank(S, p)]
           a == Ascending(S)
<1>0. n \in Nat
  BY FS_CardinalityType
<1>1. \A p \in S : p \in Nat
  OBVIOUS
<1>2. \A p, r \in S : Rank(S, p) \in 1..n /\ (r < p => Rank(S, r) < Rank(S, p))
  BY RankGrows
<1>3. \A p, r \in S : Rank(S, r) = Rank(S, p) => r = p
  <2> SUFFICES ASSUME NEW p \in S, NEW r \in S, Rank(S, r) = Rank(S, p), r # p PROVE FALSE
    OBVIOUS
  <2>1. r < p \/ p < r
    BY <1>1
  <2>2. Rank(S, r) \in Nat
    BY <1>2, <1>0
  <2> QED
    BY <1>2, <2>1, <2>2
<1>4. \A k \in 1..n : \E p \in S : Rank(S, p) = k
  <2>1. rank \in Injection(S, 1..n)
    BY <1>2, <1>3 DEF Injection, IsInjective
  <2>2. IsFiniteSet(1..n) /\ Cardinality(1..n) = n
    BY <1>0, FS_Interval
  <2>3. rank \in Surjection(S, 1..n)
    <3> HIDE DEF rank
    <3> QED
      BY <2>1, <2>2, FS_Injection
  <2> QED
    BY <2>3 DEF Surjection
<1>5. DOMAIN a = 1..n /\ \A k \in 1..n : a[k] = CHOOSE p \in S : Rank(S, p) = k
  BY DEF Ascending, Rank
<1>6. a = [k \in 1..n |-> a[k]]
  BY DEF Ascending
<1> HIDE DEF a, n
<1>7. \A k \in 1..n : a[k] \in S /\ Rank(S, a[k]) = k
  BY <1>4, <1>5
<1>8. \A p \in S : a[Rank(S, p)] = p
  BY <1>2, <1>3, <1>7
<1>9. EntriesOf(a) = S
  BY <1>2, <1>5, <1>7, <1>8 DEF EntriesOf
<1>10. ASSUME NEW i \in 1..n, NEW j \in 1..n, i < j PROVE a[i] < a[j]
  <2>1. a[i] \in Nat /\ a[j] \in Nat /\ Rank(S, a[i]) = i /\ Rank(S, a[j]) = j /\ a[i] \in S /\ a[j] \in S
    BY <1>1, <1>7
  <2>2. ~ (a[j] < a[i])
    BY <1>2, <1>0, <1>10, <2>1
  <2>3. a[i] # a[j]
    BY <1>0, <1>10, <2>1
  <2> QED
    BY <2>1, <2>2, <2>3
<1>11. OneToOne(a)
  BY <1>5, <1>7 DEF OneToOne
<1>12. Vector(a) /\ Len(a) = n
  BY <1>0, <1>5, <1>6, VectorOf
<1>13. a \in [1..n -> S]
  BY <1>6, <1>7
<1> QED
  BY <1>0, <1>5, <1>9, <1>10, <1>11, <1>12, <1>13 DEF a, n

\* AtPositions keeps the entries at some positions, in their order.
LEMMA AtPositionsIs ==
    ASSUME NEW s, NEW n \in Nat, NEW P, P \subseteq 1..n
    PROVE  /\ Vector(AtPositions(s, P))
           /\ \A e : e \in EntriesOf(AtPositions(s, P)) <=> \E i \in P : e = s[i]
           /\ (\A i, j \in P : s[i] = s[j] => i = j) => OneToOne(AtPositions(s, P))
<1> DEFINE a == Ascending(P)
           t == AtPositions(s, P)
<1>1. P \subseteq Nat /\ IsFiniteSet(P)
  <2>1. IsFiniteSet(1..n) /\ P \in SUBSET (1..n)
    BY FS_Interval
  <2>2. IsFiniteSet(P)
    BY <2>1, FS_Subset
  <2> QED
    BY <2>2
<1>2. DOMAIN a = 1..Cardinality(P) /\ Cardinality(P) \in Nat /\ EntriesOf(a) = P /\ OneToOne(a)
  BY <1>1, AscendingIs
<1>3. DOMAIN t = DOMAIN a /\ t = [k \in DOMAIN a |-> t[k]] /\ \A k \in DOMAIN a : t[k] = s[a[k]]
  BY DEF AtPositions
<1> HIDE DEF a, t
<1>4. Vector(t)
  BY <1>2, <1>3, VectorOf
<1>5. \A e : e \in EntriesOf(t) <=> \E i \in P : e = s[i]
  BY <1>2, <1>3 DEF EntriesOf
<1>6. (\A i, j \in P : s[i] = s[j] => i = j) => OneToOne(t)
  <2>1. \A k \in DOMAIN a : a[k] \in P
    BY <1>2 DEF EntriesOf
  <2> QED
    BY <1>2, <1>3, <2>1 DEF OneToOne
<1> QED
  BY <1>4, <1>5, <1>6 DEF t

\* One vector after another.
LEMMA Joined ==
    ASSUME NEW s, NEW t, Vector(s), Vector(t)
    PROVE  /\ Vector(s \o t)
           /\ \A e : e \in EntriesOf(s \o t) <=> e \in EntriesOf(s) \/ e \in EntriesOf(t)
           /\ OneToOne(s) /\ OneToOne(t) /\ (\A e \in EntriesOf(s) : e \notin EntriesOf(t)) => OneToOne(s \o t)
<1> DEFINE T == EntriesOf(s) \cup EntriesOf(t)
           m == Len(s)
           n == Len(t)
           u == s \o t
<1>0. s \in Seq(T) /\ t \in Seq(T)
  BY DEF Vector
<1>1. m \in Nat /\ n \in Nat /\ DOMAIN s = 1..m /\ DOMAIN t = 1..n
  BY Indices
<1>2. /\ DOMAIN u = 1..(m + n) /\ u = [i \in 1..(m + n) |-> u[i]]
      /\ \A i \in 1..(m + n) : u[i] = IF i <= m THEN s[i] ELSE t[i - m]
  <2> HIDE DEF T
  <2>1. u \in Seq(T) /\ Len(u) = m + n
    BY <1>0
  <2>2. DOMAIN u = 1..(m + n) /\ u = [i \in 1..(m + n) |-> u[i]]
    <3> HIDE DEF u, m, n
    <3>1. DOMAIN u = 1..Len(u) /\ u \in [1..Len(u) -> T]
      BY <2>1
    <3>2. u = [i \in DOMAIN u |-> u[i]]
      BY <3>1
    <3> QED
      BY <2>1, <3>1, <3>2, Zenon
  <2>3. \A i \in 1..(m + n) : u[i] = IF i <= m THEN s[i] ELSE t[i - m]
    BY <1>0
  <2> QED
    BY <2>2, <2>3
<1> HIDE DEF T, m, n, u
<1>3. Vector(u)
  BY <1>1, <1>2, VectorOf
<1>4. \A i \in 1..m : i \in 1..(m + n) /\ u[i] = s[i]
  BY <1>1, <1>2
<1>5. \A i \in 1..n : m + i \in 1..(m + n) /\ u[m + i] = t[i]
  <2>1. \A i \in 1..n : m + i \in 1..(m + n) /\ ~(m + i <= m) /\ (m + i) - m = i
    BY <1>1
  <2> QED
    BY <1>2, <2>1
<1>6. \A i \in 1..(m + n) : i \in 1..m \/ (i - m \in 1..n /\ i = m + (i - m))
  BY <1>1
<1>7. \A e : e \in EntriesOf(u) <=> e \in EntriesOf(s) \/ e \in EntriesOf(t)
  <2>1. \A e : e \in EntriesOf(s) => e \in EntriesOf(u)
    BY <1>1, <1>2, <1>4 DEF EntriesOf
  <2>2. \A e : e \in EntriesOf(t) => e \in EntriesOf(u)
    BY <1>1, <1>2, <1>5 DEF EntriesOf
  <2>3. ASSUME NEW i \in 1..(m + n) PROVE u[i] \in EntriesOf(s) \/ u[i] \in EntriesOf(t)
    BY <1>1, <1>4, <1>5, <1>6 DEF EntriesOf
  <2> QED
    BY <1>2, <2>1, <2>2, <2>3 DEF EntriesOf
<1>8. ASSUME OneToOne(s), OneToOne(t), \A e \in EntriesOf(s) : e \notin EntriesOf(t)
      PROVE  OneToOne(u)
  <2> SUFFICES ASSUME NEW i \in 1..(m + n), NEW j \in 1..(m + n), u[i] = u[j] PROVE i = j
    BY <1>2 DEF OneToOne
  <2>1. \A k \in 1..m : s[k] \in EntriesOf(s)
    BY <1>1 DEF EntriesOf
  <2>2. \A k \in 1..n : t[k] \in EntriesOf(t)
    BY <1>1 DEF EntriesOf
  <2>3. CASE i \in 1..m /\ j \in 1..m
    BY <1>1, <1>4, <1>8, <2>3 DEF OneToOne
  <2>4. CASE i - m \in 1..n /\ j - m \in 1..n
    <3>1. u[i] = t[i - m] /\ u[j] = t[j - m]
      BY <1>5, <1>6, <2>4, <1>1
    <3>2. i - m = j - m
      BY <1>1, <1>8, <2>4, <3>1 DEF OneToOne
    <3> QED
      BY <1>1, <3>2
  <2>5. CASE i \in 1..m /\ j - m \in 1..n
    <3>1. u[i] = s[i] /\ u[j] = t[j - m]
      BY <1>4, <1>5, <1>1, <2>5
    <3> QED
      BY <1>8, <2>1, <2>2, <2>5, <3>1
  <2>6. CASE j \in 1..m /\ i - m \in 1..n
    <3>1. u[j] = s[j] /\ u[i] = t[i - m]
      BY <1>4, <1>5, <1>1, <2>6
    <3> QED
      BY <1>8, <2>1, <2>2, <2>6, <3>1
  <2> QED
    BY <1>6, <2>3, <2>4, <2>5, <2>6
<1> QED
  BY <1>3, <1>7, <1>8 DEF u

--------------------------------------------------------------------------------
(* The passes *)

\* Entries are equal when all they say is.
LEMMA Entries ==
    /\ \A k, t, p, q, l, u, r, s :
          Entry(k, t, p, q) = Entry(l, u, r, s) <=> k = l /\ t = u /\ p = r /\ q = s
    /\ \A k, t, p, q :
          /\ Entry(k, t, p, q).kind = k /\ Entry(k, t, p, q).type = t
          /\ Entry(k, t, p, q).oldPath = p /\ Entry(k, t, p, q).newPath = q
    /\ \A k, t, p, q, f :
          /\ Full(k, t, p, q, f).kind = k /\ Full(k, t, p, q, f).type = t
          /\ Full(k, t, p, q, f).oldPath = p /\ Full(k, t, p, q, f).newPath = q
          /\ Full(k, t, p, q, f).fields = f
          /\ Entry(k, t, p, q) = Full(k, t, p, q, {})
BY DEF Entry, Full

\* populateFieldDiffs fills in the fields of an entry and nothing else.
LEMMA WithFields ==
    \A k, t, p, q, f : [Entry(k, t, p, q) EXCEPT !.fields = f] = Full(k, t, p, q, f)
BY DEF Entry, Full

\* indexByPath yields an index.
LEMMA Indexed ==
    ASSUME NEW s \in Seq(Element), NEW type
    PROVE  Index(indexByPath(s, type))
<1> DEFINE J == {j \in DOMAIN s : s[j].type = type}
           T == {s[i].name : i \in J}
           f == [i \in J |-> s[i].name]
<1>1. IsFiniteSet(J)
  <2>1. DOMAIN s = 1..Len(s) /\ Len(s) \in Nat
    OBVIOUS
  <2>2. IsFiniteSet(1..Len(s))
    BY <2>1, FS_Interval
  <2> QED
    BY <2>1, <2>2, FS_Subset
<1>2. f \in Surjection(J, T)
  BY DEF Surjection
<1>3. IsFiniteSet(T)
  BY <1>1, <1>2, FS_Surjection
<1>4. T \subseteq Nat
  <2>1. \A i \in DOMAIN s : s[i] \in Element
    OBVIOUS
  <2> QED
    BY <2>1 DEF Element
<1>5. DOMAIN indexByPath(s, type) = T \ {0}
  BY DEF indexByPath
<1>6. IsFiniteSet(T \ {0})
  BY <1>3, FS_Subset
<1> QED
  BY <1>4, <1>5, <1>6 DEF Index

--------------------------------------------------------------------------------
(* The erase loop *)

\* Where the loop stands before index i: the indices it has passed are the
\* smaller ones.
Passed(a, pos, i) ==
    /\ pos \in 1..(Len(a) + 1)
    /\ \A k \in 1..Len(a) : (k < pos => a[k] < i) /\ (pos <= k => i <= a[k])

\* One turn of the loop.
LEMMA Turn ==
    ASSUME NEW m \in Nat, NEW a \in [1..m -> Nat], Len(a) = m, \A k, l \in 1..m : k < l => a[k] < a[l],
           NEW i \in Nat, NEW pos, Passed(a, pos, i)
    PROVE  /\ Erases(a, pos, i) <=> \E k \in 1..m : a[k] = i
           /\ Passed(a, IF Erases(a, pos, i) THEN pos + 1 ELSE pos, i + 1)
<1>0. pos \in 1..(m + 1) /\ \A k \in 1..m : a[k] \in Nat /\ (k < pos => a[k] < i) /\ (pos <= k => i <= a[k])
  BY DEF Passed
<1>1. CASE Erases(a, pos, i)
  <2>1. pos \in 1..m /\ a[pos] = i
    BY <1>0, <1>1 DEF Erases
  <2>2. \A k \in 1..m : (k < pos + 1 => a[k] < i + 1) /\ (pos + 1 <= k => i + 1 <= a[k])
    <3>1. ASSUME NEW k \in 1..m, k < pos + 1 PROVE a[k] < i + 1
      <4>1. k < pos \/ k = pos
        BY <1>0, <3>1
      <4> QED
        BY <1>0, <2>1, <4>1
    <3>2. ASSUME NEW k \in 1..m, pos + 1 <= k PROVE i + 1 <= a[k]
      <4>1. pos < k
        BY <1>0, <3>2
      <4>2. a[pos] < a[k]
        BY <2>1, <4>1
      <4> QED
        BY <1>0, <2>1, <4>2
    <3> QED
      BY <3>1, <3>2
  <2>3. pos + 1 \in 1..(m + 1)
    BY <2>1
  <2> QED
    BY <1>1, <2>1, <2>2, <2>3 DEF Passed
<1>2. CASE ~Erases(a, pos, i)
  <2>1. \A k \in 1..m : a[k] # i
    <3> SUFFICES ASSUME NEW k \in 1..m, a[k] = i PROVE FALSE
      OBVIOUS
    <3>1. pos <= k /\ pos \in 1..m
      BY <1>0
    <3>2. a[pos] # i
      BY <1>2, <3>1 DEF Erases
    <3>3. i <= a[pos] /\ pos # k
      BY <1>0, <3>1, <3>2
    <3>4. a[pos] < a[k]
      BY <3>1, <3>3
    <3> QED
      BY <1>0, <3>1, <3>2, <3>3, <3>4
  <2>2. \A k \in 1..m : (k < pos => a[k] < i + 1) /\ (pos <= k => i + 1 <= a[k])
    BY <1>0, <2>1
  <2> QED
    BY <1>0, <1>2, <2>1, <2>2 DEF Passed
<1> QED
  BY <1>1, <1>2

\* The loop's counter, from one index to the next.
LEMMA ErasePositionsAre ==
    ASSUME NEW s, Vector(s), NEW a
    PROVE  LET pos == ErasePositions(s, a) IN
           \A i \in 1..Len(s) :
               pos[i] = IF i = 1 THEN 1 ELSE IF Erases(a, pos[i - 1], i - 1) THEN pos[i - 1] + 1 ELSE pos[i - 1]
<1> DEFINE n == Len(s)
           Next1(k, v) == IF Erases(a, v, k) THEN v + 1 ELSE v
           G == [x \in (1..n) \X Nat |-> Next1(x[1], x[2])]
           Eq(f) == f = [i \in DOMAIN s |-> IF i = 1 THEN 1
                           ELSE IF Erases(a, f[i - 1], i - 1) THEN f[i - 1] + 1 ELSE f[i - 1]]
<1>1. n \in Nat /\ DOMAIN s = 1..n
  BY Indices
<1>2. G \in [(1..n) \X Nat -> Nat]
  OBVIOUS
<1>3. PICK g \in [0..n -> Nat] : Chain(g, n, 1, G)
  <2> HIDE DEF n, G
  <2> QED
    BY <1>1, <1>2, ChainDefined
<1>4. g[0] = 1 /\ \A k \in 1..n : g[k] = Next1(k, g[k - 1])
  <2>1. g[0] = 1 /\ \A k \in 1..n : g[k] = G[<<k, g[k - 1]>>]
    BY <1>3 DEF Chain
  <2>2. ASSUME NEW k \in 1..n PROVE G[<<k, g[k - 1]>>] = Next1(k, g[k - 1])
    <3>1. k - 1 \in 0..n
      BY <1>1
    <3>2. <<k, g[k - 1]>> \in (1..n) \X Nat
      <4> HIDE DEF n
      <4> QED
        BY <3>1
    <3> HIDE DEF n
    <3> QED
      BY <3>2
  <2> HIDE DEF G, Next1
  <2> QED
    BY <2>1, <2>2
<1> DEFINE h == [i \in 1..n |-> g[i - 1]]
<1>5. Eq(h)
  <2>1. ASSUME NEW i \in 1..n
        PROVE  g[i - 1] = IF i = 1 THEN 1 ELSE IF Erases(a, h[i - 1], i - 1) THEN h[i - 1] + 1 ELSE h[i - 1]
    <3>1. CASE i = 1
      <4>1. i - 1 = 0
        BY <3>1
      <4> QED
        BY <1>4, <3>1, <4>1
    <3>2. CASE i # 1
      <4>1. i - 1 \in 1..n
        BY <1>1, <3>2
      <4>2. g[i - 1] = Next1(i - 1, g[(i - 1) - 1]) /\ h[i - 1] = g[(i - 1) - 1]
        BY <1>4, <4>1
      <4> HIDE DEF h
      <4> QED
        BY <3>2, <4>2
    <3> QED
      BY <3>1, <3>2
  <2> QED
    BY <1>1, <2>1, Zenon
<1> DEFINE pos == CHOOSE f : Eq(f)
<1>6. Eq(pos)
  <2> HIDE DEF Eq, h
  <2> QED
    BY <1>5
<1>7. ErasePositions(s, a) = pos
  BY DEF ErasePositions
<1> HIDE DEF pos
<1> QED
  BY <1>1, <1>6, <1>7

\* The erase loop keeps the entries whose index is not in the vector.
LEMMA KeptIdxIs ==
    ASSUME NEW s, Vector(s), NEW E, E \subseteq DOMAIN s
    PROVE  KeptIdx(s, Ascending(E)) = DOMAIN s \ E
<1> DEFINE n == Len(s)
           a == Ascending(E)
           m == Len(a)
           pos == ErasePositions(s, a)
<1>1. n \in Nat /\ DOMAIN s = 1..n
  BY Indices
<1>2. E \subseteq Nat /\ IsFiniteSet(E)
  <2>1. IsFiniteSet(1..n) /\ E \in SUBSET (1..n)
    BY <1>1, FS_Interval
  <2>2. IsFiniteSet(E)
    BY <2>1, FS_Subset
  <2> QED
    BY <1>1, <2>2
<1>3. /\ m \in Nat /\ DOMAIN a = 1..m /\ EntriesOf(a) = E
      /\ \A k, l \in 1..m : k < l => a[k] < a[l]
  BY <1>2, AscendingIs
<1>4. a \in [1..m -> Nat]
  <2>1. a \in [1..m -> E]
    BY <1>2, AscendingIs
  <2> QED
    BY <1>2, <2>1
<1>5. \A i \in 1..n :
          pos[i] = IF i = 1 THEN 1 ELSE IF Erases(a, pos[i - 1], i - 1) THEN pos[i - 1] + 1 ELSE pos[i - 1]
  BY ErasePositionsAre
<1> HIDE DEF a, n, pos
<1> DEFINE P == {i \in 0..n : i = 0 \/ Passed(a, pos[i], i)}
<1>6. 0..n \subseteq P
  <2>1. 0 \in P
    BY <1>1
  <2>2. ASSUME NEW i \in 1..n, i - 1 \in P PROVE i \in P
    <3>1. CASE i = 1
      <4>1. pos[i] = 1
        BY <1>5, <3>1
      <4>2. \A k \in 1..m : a[k] \in E /\ a[k] \in DOMAIN s
        BY <1>3 DEF EntriesOf
      <4>3. \A k \in 1..m : i <= a[k] /\ ~(k < 1)
        BY <1>1, <3>1, <4>2
      <4>4. Passed(a, pos[i], i)
        BY <1>3, <4>1, <4>3 DEF Passed
      <4> QED
        BY <1>1, <4>4
    <3>2. CASE i # 1
      <4>1. i - 1 \in Nat /\ i - 1 # 0 /\ (i - 1) + 1 = i /\ i \in 0..n
        BY <1>1, <3>2
      <4>2. Passed(a, pos[i - 1], i - 1)
        BY <2>2, <4>1
      <4>3. Passed(a, IF Erases(a, pos[i - 1], i - 1) THEN pos[i - 1] + 1 ELSE pos[i - 1], (i - 1) + 1)
        BY <1>3, <1>4, <4>1, <4>2, Turn
      <4>4. pos[i] = IF Erases(a, pos[i - 1], i - 1) THEN pos[i - 1] + 1 ELSE pos[i - 1]
        BY <1>5, <3>2
      <4>5. Passed(a, pos[i], i)
        BY <4>1, <4>3, <4>4, Zenon
      <4> QED
        BY <4>1, <4>5
    <3> QED
      BY <3>1, <3>2
  <2> HIDE DEF P
  <2> QED
    BY <1>1, <2>1, <2>2, Turns
<1>7. ASSUME NEW i \in 1..n PROVE Erases(a, pos[i], i) <=> i \in E
  <2>1. i \in 0..n /\ i # 0 /\ i \in Nat
    BY <1>1
  <2>2. Passed(a, pos[i], i)
    BY <1>6, <2>1
  <2>3. Erases(a, pos[i], i) <=> \E k \in 1..m : a[k] = i
    BY <1>3, <1>4, <2>1, <2>2, Turn
  <2> QED
    BY <1>3, <2>3 DEF EntriesOf
<1>8. KeptIdx(s, a) = {i \in DOMAIN s : ~Erases(a, pos[i], i)}
  BY DEF KeptIdx, pos
<1> QED
  BY <1>1, <1>7, <1>8 DEF a

\* What matchByPath reports of one type.
Told(e, o, n, type) ==
    \/ \E p \in Only(o, n) : e = Entry("Removed", type, p, 0)
    \/ \E p \in Only(n, o) : e = Entry("Added", type, 0, p)
    \/ \E p \in DOMAIN o \cap DOMAIN n : e = Entry("Modified", type, p, p)

\* The entries of one kind, path by path.
LEMMA Listed ==
    ASSUME NEW S, S \subseteq Nat, IsFiniteSet(S), NEW F, \A p, q \in S : F[p] = F[q] => p = q,
           NEW s, DOMAIN s = DOMAIN Ascending(S), s = [i \in DOMAIN s |-> s[i]],
           \A i \in DOMAIN s : s[i] = F[Ascending(S)[i]]
    PROVE  Vector(s) /\ OneToOne(s) /\ \A e : e \in EntriesOf(s) <=> \E p \in S : e = F[p]
<1> DEFINE a == Ascending(S)
<1>1. /\ Cardinality(S) \in Nat /\ DOMAIN a = 1..Cardinality(S) /\ EntriesOf(a) = S /\ OneToOne(a)
  BY AscendingIs
<1>2. DOMAIN s = 1..Cardinality(S) /\ s = [i \in 1..Cardinality(S) |-> s[i]] /\ \A i \in DOMAIN a : s[i] = F[a[i]]
  BY <1>1
<1> HIDE DEF a
<1>3. Vector(s)
  BY <1>1, <1>2, VectorOf
<1>4. \A i \in DOMAIN a : a[i] \in S
  BY <1>1 DEF EntriesOf
<1>5. OneToOne(s)
  BY <1>1, <1>2, <1>4 DEF OneToOne
<1>6. \A e : e \in EntriesOf(s) <=> \E p \in S : e = F[p]
  BY <1>1, <1>2 DEF EntriesOf
<1> QED
  BY <1>3, <1>5, <1>6

LEMMA MatchedType ==
    ASSUME NEW o, NEW n, NEW type, Index(o), Index(n)
    PROVE  LET s == matchByPath(o, n, type) IN
           Vector(s) /\ OneToOne(s) /\ \A e : e \in EntriesOf(s) <=> Told(e, o, n, type)
<1> DEFINE A == Only(o, n)
           B == Only(n, o)
           C == DOMAIN o \cap DOMAIN n
           a == Ascending(A)
           b == Ascending(B)
           c == Ascending(C)
           s == [i \in DOMAIN a |-> Entry("Removed", type, a[i], 0)]
           t == [i \in DOMAIN b |-> Entry("Added", type, 0, b[i])]
           u == [i \in DOMAIN c |-> Entry("Modified", type, c[i], c[i])]
<1>1. A \subseteq Nat /\ B \subseteq Nat /\ C \subseteq Nat
  BY DEF Index, Only
<1>2. IsFiniteSet(A) /\ IsFiniteSet(B) /\ IsFiniteSet(C)
  <2>1. A \in SUBSET DOMAIN o /\ B \in SUBSET DOMAIN n /\ C \in SUBSET DOMAIN o
    BY DEF Only
  <2> HIDE DEF A, B, C
  <2> QED
    BY <2>1, FS_Subset DEF Index
<1>3. Vector(s) /\ OneToOne(s) /\ \A e : e \in EntriesOf(s) <=> \E p \in A : e = Entry("Removed", type, p, 0)
  <2> DEFINE F == [p \in A |-> Entry("Removed", type, p, 0)]
  <2>1. \A p \in A : F[p] = Entry("Removed", type, p, 0)
    OBVIOUS
  <2>2. \A p, q \in A : F[p] = F[q] => p = q
    BY <2>1, Entries
  <2>3. \A i \in DOMAIN a : a[i] \in A
    BY <1>1, <1>2, AscendingIs DEF EntriesOf
  <2> HIDE DEF F, A
  <2>4. DOMAIN s = DOMAIN Ascending(A) /\ s = [i \in DOMAIN s |-> s[i]] /\ \A i \in DOMAIN s : s[i] = F[Ascending(A)[i]]
    BY <2>1, <2>3
  <2> HIDE DEF s
  <2>5. Vector(s) /\ OneToOne(s) /\ \A e : e \in EntriesOf(s) <=> \E p \in A : e = F[p]
    BY <1>1, <1>2, <2>2, <2>4, Listed
  <2> QED
    BY <2>1, <2>4, <2>5
<1>4. Vector(t) /\ OneToOne(t) /\ \A e : e \in EntriesOf(t) <=> \E p \in B : e = Entry("Added", type, 0, p)
  <2> DEFINE F == [p \in B |-> Entry("Added", type, 0, p)]
  <2>1. \A p \in B : F[p] = Entry("Added", type, 0, p)
    OBVIOUS
  <2>2. \A p, q \in B : F[p] = F[q] => p = q
    BY <2>1, Entries
  <2>3. \A i \in DOMAIN b : b[i] \in B
    BY <1>1, <1>2, AscendingIs DEF EntriesOf
  <2> HIDE DEF F, B
  <2>4. DOMAIN t = DOMAIN Ascending(B) /\ t = [i \in DOMAIN t |-> t[i]] /\ \A i \in DOMAIN t : t[i] = F[Ascending(B)[i]]
    BY <2>1, <2>3
  <2> HIDE DEF t
  <2>5. Vector(t) /\ OneToOne(t) /\ \A e : e \in EntriesOf(t) <=> \E p \in B : e = F[p]
    BY <1>1, <1>2, <2>2, <2>4, Listed
  <2> QED
    BY <2>1, <2>4, <2>5
<1>5. Vector(u) /\ OneToOne(u) /\ \A e : e \in EntriesOf(u) <=> \E p \in C : e = Entry("Modified", type, p, p)
  <2> DEFINE F == [p \in C |-> Entry("Modified", type, p, p)]
  <2>1. \A p \in C : F[p] = Entry("Modified", type, p, p)
    OBVIOUS
  <2>2. \A p, q \in C : F[p] = F[q] => p = q
    BY <2>1, Entries
  <2>3. \A i \in DOMAIN c : c[i] \in C
    BY <1>1, <1>2, AscendingIs DEF EntriesOf
  <2> HIDE DEF F, C
  <2>4. DOMAIN u = DOMAIN Ascending(C) /\ u = [i \in DOMAIN u |-> u[i]] /\ \A i \in DOMAIN u : u[i] = F[Ascending(C)[i]]
    BY <2>1, <2>3
  <2> HIDE DEF u
  <2>5. Vector(u) /\ OneToOne(u) /\ \A e : e \in EntriesOf(u) <=> \E p \in C : e = F[p]
    BY <1>1, <1>2, <2>2, <2>4, Listed
  <2> QED
    BY <2>1, <2>4, <2>5
<1>6. matchByPath(o, n, type) = s \o t \o u
  BY Zenon DEF matchByPath, Only
<1> HIDE DEF s, t, u, A, B, C
<1>7. /\ \A e \in EntriesOf(s) : e.kind = "Removed"
      /\ \A e \in EntriesOf(t) : e.kind = "Added"
      /\ \A e \in EntriesOf(u) : e.kind = "Modified"
  BY <1>3, <1>4, <1>5, Entries
<1>8. /\ Vector(s \o t) /\ OneToOne(s \o t)
      /\ \A e : e \in EntriesOf(s \o t) <=> e \in EntriesOf(s) \/ e \in EntriesOf(t)
  BY <1>3, <1>4, <1>7, Joined
<1>9. /\ Vector((s \o t) \o u) /\ OneToOne((s \o t) \o u)
      /\ \A e : e \in EntriesOf((s \o t) \o u) <=> e \in EntriesOf(s \o t) \/ e \in EntriesOf(u)
  BY <1>5, <1>7, <1>8, Joined
<1>10. \A e : e \in EntriesOf((s \o t) \o u) <=> Told(e, o, n, type)
  BY <1>3, <1>4, <1>5, <1>8, <1>9 DEF Told, A, B, C
<1> QED
  BY <1>6, <1>9, <1>10

\* What matchParsedProjects reports.
LEMMA Matched ==
    ASSUME NEW s \in Seq(Element), NEW u \in Seq(Element)
    PROVE  LET m == matchParsedProjects(s, u) IN
           /\ Vector(m) /\ OneToOne(m)
           /\ \A e : e \in EntriesOf(m) <=>
                 \E type \in Types : Told(e, indexByPath(s, type), indexByPath(u, type), type)
<1> DEFINE M(t) == matchByPath(indexByPath(s, t), indexByPath(u, t), t)
           T(e, t) == Told(e, indexByPath(s, t), indexByPath(u, t), t)
<1>1. \A t : Vector(M(t)) /\ OneToOne(M(t)) /\ \A e : e \in EntriesOf(M(t)) <=> T(e, t)
  BY Indexed, MatchedType
<1>2. \A e, t : T(e, t) => e.type = t
  BY Entries DEF Told
<1>3. matchParsedProjects(s, u) = M("Cluster") \o M("Pdu")
  BY DEF matchParsedProjects
<1> HIDE DEF M, T
<1>4. \A e \in EntriesOf(M("Cluster")) : e \notin EntriesOf(M("Pdu"))
  BY <1>1, <1>2
<1>5. LET m == M("Cluster") \o M("Pdu") IN
      /\ Vector(m) /\ OneToOne(m)
      /\ \A e : e \in EntriesOf(m) <=> e \in EntriesOf(M("Cluster")) \/ e \in EntriesOf(M("Pdu"))
  BY <1>1, <1>4, Joined
<1>6. \A e : (T(e, "Cluster") \/ T(e, "Pdu")) <=> \E t \in Types : T(e, t)
  BY DEF Types
<1>7. \A e : e \in EntriesOf(M("Cluster") \o M("Pdu")) <=> \E t \in Types : T(e, t)
  BY <1>1, <1>5, <1>6
<1> QED
  BY <1>3, <1>5, <1>7 DEF T

--------------------------------------------------------------------------------
(* Move detection for one type, over the whole report *)

\* s is a report that has of the type what matchByPath said.
Matching(s, o, n, type) ==
    /\ Vector(s) /\ OneToOne(s) /\ Index(o) /\ Index(n)
    /\ \A e : e \in EntriesOf(s) /\ e.type = type <=> Told(e, o, n, type)

\* Where an entry is.
LEMMA Placed ==
    ASSUME NEW s, NEW o, NEW n, NEW type, Matching(s, o, n, type)
    PROVE  /\ \A p \in Only(o, n) : \E i \in DOMAIN s : s[i] = Entry("Removed", type, p, 0)
           /\ \A p \in Only(n, o) : \E i \in DOMAIN s : s[i] = Entry("Added", type, 0, p)
           /\ \A i \in DOMAIN s : s[i].type = type => Told(s[i], o, n, type)
<1>1. \A e : Told(e, o, n, type) => e \in EntriesOf(s)
  BY DEF Matching
<1>2. \A p \in Only(o, n) : Entry("Removed", type, p, 0) \in EntriesOf(s)
  BY <1>1 DEF Told
<1>3. \A p \in Only(n, o) : Entry("Added", type, 0, p) \in EntriesOf(s)
  BY <1>1 DEF Told
<1>4. \A i \in DOMAIN s : s[i].type = type => Told(s[i], o, n, type)
  BY DEF Matching, EntriesOf
<1> QED
  BY <1>2, <1>3, <1>4 DEF EntriesOf

\* The candidates of a group of detectMovesForType.
LEMMA Candidates ==
    ASSUME NEW s, NEW o, NEW n, NEW type, Matching(s, o, n, type), NEW key
    PROVE  /\ \A i : i \in RemovedIdx(s, o, type, key) <=>
                 i \in DOMAIN s /\ \E p \in Only(o, n) : s[i] = Entry("Removed", type, p, 0) /\ secondaryKey(o[p]) = key
           /\ \A i : i \in AddedIdx(s, n, type, key) <=>
                 i \in DOMAIN s /\ \E p \in Only(n, o) : s[i] = Entry("Added", type, 0, p) /\ secondaryKey(n[p]) = key
           /\ IsFiniteSet(RemovedIdx(s, o, type, key)) /\ IsFiniteSet(AddedIdx(s, n, type, key))
<1> DEFINE R == RemovedIdx(s, o, type, key)
           A == AddedIdx(s, n, type, key)
<1>1. \A i \in DOMAIN s : s[i].type = type => Told(s[i], o, n, type)
  BY Placed
<1>2. \A i \in DOMAIN s : s[i].kind = "Removed" /\ s[i].type = type <=>
          \E p \in Only(o, n) : s[i] = Entry("Removed", type, p, 0)
  BY <1>1, Entries DEF Told
<1>3. \A i \in DOMAIN s : s[i].kind = "Added" /\ s[i].type = type <=>
          \E p \in Only(n, o) : s[i] = Entry("Added", type, 0, p)
  BY <1>1, Entries DEF Told
<1>4. \A i : i \in R <=>
          i \in DOMAIN s /\ \E p \in Only(o, n) : s[i] = Entry("Removed", type, p, 0) /\ secondaryKey(o[p]) = key
  BY <1>2, Entries DEF RemovedIdx
<1>5. \A i : i \in A <=>
          i \in DOMAIN s /\ \E p \in Only(n, o) : s[i] = Entry("Added", type, 0, p) /\ secondaryKey(n[p]) = key
  BY <1>3, Entries DEF AddedIdx
<1>6. IsFiniteSet(R) /\ IsFiniteSet(A)
  <2>1. R \in SUBSET DOMAIN s /\ A \in SUBSET DOMAIN s
    BY <1>4, <1>5
  <2>2. Len(s) \in Nat /\ DOMAIN s = 1..Len(s)
    BY Indices DEF Matching
  <2>3. IsFiniteSet(DOMAIN s)
    BY <2>2, FS_Interval
  <2> HIDE DEF R, A
  <2> QED
    BY <2>1, <2>3, FS_Subset
<1> QED
  BY <1>4, <1>5, <1>6

\* The group of a clean pair.
LEMMA PairGroup ==
    ASSUME NEW s, NEW o, NEW n, NEW type, Matching(s, o, n, type),
           NEW p \in Only(o, n), NEW q \in Only(n, o), Clean(o, n, p, q),
           NEW i \in DOMAIN s, s[i] = Entry("Removed", type, p, 0),
           NEW j \in DOMAIN s, s[j] = Entry("Added", type, 0, q)
    PROVE  /\ RemovedIdx(s, o, type, secondaryKey(o[p])) = {i}
           /\ AddedIdx(s, n, type, secondaryKey(o[p])) = {j}
<1> DEFINE key == secondaryKey(o[p])
           R == RemovedIdx(s, o, type, key)
           A == AddedIdx(s, n, type, key)
<1>1. \A k : k \in R <=>
          k \in DOMAIN s /\ \E r \in Only(o, n) : s[k] = Entry("Removed", type, r, 0) /\ secondaryKey(o[r]) = key
  BY Candidates
<1>2. \A k : k \in A <=>
          k \in DOMAIN s /\ \E r \in Only(n, o) : s[k] = Entry("Added", type, 0, r) /\ secondaryKey(n[r]) = key
  BY Candidates
<1>3. \A r \in Only(o, n) : secondaryKey(o[r]) = key <=> r = p
  BY DEF Clean
<1>4. \A r \in Only(n, o) : secondaryKey(n[r]) = key <=> r = q
  BY DEF Clean
<1>0. \A k, l \in DOMAIN s : s[k] = s[l] => k = l
  BY DEF Matching, OneToOne
<1> HIDE DEF R, A, key
<1>5. R = {i}
  BY <1>0, <1>1, <1>3
<1>6. A = {j}
  BY <1>0, <1>2, <1>4
<1> QED
  BY <1>5, <1>6 DEF R, A, key

\* A group has a clean pair when its removed path has one.
LEMMA Grouped ==
    ASSUME NEW s, NEW o, NEW n, NEW type, Matching(s, o, n, type), NEW p \in Only(o, n),
           NEW R, R = RemovedIdx(s, o, type, secondaryKey(o[p])),
           NEW A, A = AddedIdx(s, n, type, secondaryKey(o[p])),
           CleanPair(<<R, A>>)
    PROVE  \E q \in Only(n, o) : Clean(o, n, p, q)
<1> DEFINE key == secondaryKey(o[p])
<1>1. \A k : k \in R <=>
          k \in DOMAIN s /\ \E r \in Only(o, n) : s[k] = Entry("Removed", type, r, 0) /\ secondaryKey(o[r]) = key
  BY Candidates
<1>2. \A k : k \in A <=>
          k \in DOMAIN s /\ \E r \in Only(n, o) : s[k] = Entry("Added", type, 0, r) /\ secondaryKey(n[r]) = key
  BY Candidates
<1>3. IsFiniteSet(R) /\ IsFiniteSet(A)
  BY Candidates
<1>4. (\E x : R = {x}) /\ (\E x : A = {x})
  BY <1>3, FS_Singleton DEF CleanPair
<1>5. PICK x, y : R = {x} /\ A = {y}
  BY <1>4
<1>6. \A r \in Only(o, n) : secondaryKey(o[r]) = key => r = p
  <2>1. \A r \in Only(o, n) : secondaryKey(o[r]) = key => s[x] = Entry("Removed", type, r, 0)
    BY <1>1, <1>5, Placed
  <2> QED
    BY <2>1, Entries
<1>7. PICK q \in Only(n, o) : s[y] = Entry("Added", type, 0, q) /\ secondaryKey(n[q]) = key
  BY <1>2, <1>5
<1>8. \A r \in Only(n, o) : secondaryKey(n[r]) = key => r = q
  <2>1. \A r \in Only(n, o) : secondaryKey(n[r]) = key => s[y] = Entry("Added", type, 0, r)
    BY <1>2, <1>5, Placed
  <2> QED
    BY <2>1, <1>7, Entries
<1> QED
  BY <1>6, <1>7, <1>8 DEF Clean

\* Clean pairs share no path.
LEMMA PairsApart ==
    ASSUME NEW o, NEW n, NEW p, NEW q, NEW r, NEW t, Clean(o, n, p, q), Clean(o, n, r, t)
    PROVE  p = r <=> q = t
BY DEF Clean

\* The indices of a clean pair of paths.
At(s, o, n, type, i, j, p, q) ==
    /\ p \in Only(o, n) /\ q \in Only(n, o) /\ Clean(o, n, p, q)
    /\ i \in DOMAIN s /\ j \in DOMAIN s
    /\ s[i] = Entry("Removed", type, p, 0) /\ s[j] = Entry("Added", type, 0, q)

CleanGroups(s, o, n, type) == {g \in Groups(s, o, n, type) : CleanPair(g)}

\* The groups that move are the clean pairs of paths.
LEMMA PairsAre ==
    ASSUME NEW s, NEW o, NEW n, NEW type, Matching(s, o, n, type)
    PROVE  \A g : g \in CleanGroups(s, o, n, type) <=>
              \E i, j, p, q : At(s, o, n, type, i, j, p, q) /\ g = <<{i}, {j}>>
<1> DEFINE G(p) == <<RemovedIdx(s, o, type, secondaryKey(o[p])), AddedIdx(s, n, type, secondaryKey(o[p]))>>
<1>1. \A g : g \in Groups(s, o, n, type) <=> \E p \in Only(o, n) : g = G(p)
  <2>1. \A i \in DOMAIN s : s[i].kind = "Removed" /\ s[i].type = type <=>
               \E p \in Only(o, n) : s[i] = Entry("Removed", type, p, 0)
    BY Placed, Entries DEF Told
  <2>2. \A g : g \in Groups(s, o, n, type) <=>
               \E i \in DOMAIN s : /\ s[i].kind = "Removed" /\ s[i].type = type
                                   /\ g = G(s[i].oldPath)
    BY Zenon DEF Groups
  <2>3. \A p \in Only(o, n) : \E i \in DOMAIN s : s[i] = Entry("Removed", type, p, 0)
    BY Placed
  <2>4. \A p : Entry("Removed", type, p, 0).oldPath = p
    BY Entries
  <2> HIDE DEF G
  <2>5. ASSUME NEW p \in Only(o, n)
        PROVE  \E i \in DOMAIN s : s[i].kind = "Removed" /\ s[i].type = type /\ G(p) = G(s[i].oldPath)
    <3>1. PICK i \in DOMAIN s : s[i] = Entry("Removed", type, p, 0)
      BY <2>3
    <3>2. s[i].oldPath = p
      BY <2>4, <3>1
    <3> QED
      BY <2>1, <3>1, <3>2
  <2>6. ASSUME NEW i \in DOMAIN s, s[i].kind = "Removed", s[i].type = type
        PROVE  \E p \in Only(o, n) : G(s[i].oldPath) = G(p)
    <3>1. PICK p \in Only(o, n) : s[i] = Entry("Removed", type, p, 0)
      BY <2>1, <2>6
    <3>2. s[i].oldPath = p
      BY <2>4, <3>1
    <3> QED
      BY <3>1, <3>2
  <2> QED
    BY <2>2, <2>5, <2>6
<1>2. ASSUME NEW i, NEW j, NEW p, NEW q, At(s, o, n, type, i, j, p, q)
      PROVE  p \in Only(o, n) /\ G(p) = <<{i}, {j}>>
  BY <1>2, PairGroup DEF At
<1>3. ASSUME NEW i, NEW j PROVE CleanPair(<<{i}, {j}>>)
  BY FS_Singleton DEF CleanPair
<1>4. ASSUME NEW p \in Only(o, n), CleanPair(G(p))
      PROVE  \E i, j, q : At(s, o, n, type, i, j, p, q)
  <2>1. PICK q \in Only(n, o) : Clean(o, n, p, q)
    BY <1>4, Grouped
  <2>2. PICK i \in DOMAIN s : s[i] = Entry("Removed", type, p, 0)
    BY Placed
  <2>3. PICK j \in DOMAIN s : s[j] = Entry("Added", type, 0, q)
    BY Placed
  <2> QED
    BY <2>1, <2>2, <2>3 DEF At
<1>5. \A g : g \in CleanGroups(s, o, n, type) <=> \E p \in Only(o, n) : g = G(p) /\ CleanPair(g)
  <2> HIDE DEF G
  <2> QED
    BY <1>1 DEF CleanGroups
<1> HIDE DEF G
<1> QED
  BY <1>2, <1>3, <1>4, <1>5

\* A pair is its two paths.
LEMMA Paired ==
    ASSUME NEW o, NEW n
    PROVE  /\ \A c \in Pairs(o, n) : c[1] \in Only(o, n) /\ c[2] \in Only(n, o) /\ Clean(o, n, c[1], c[2])
           /\ \A p \in Only(o, n), q \in Only(n, o) :
                 Clean(o, n, p, q) => \E c \in Pairs(o, n) : c[1] = p /\ c[2] = q
<1>1. \A c \in Pairs(o, n) : c[1] \in Only(o, n) /\ c[2] \in Only(n, o) /\ Clean(o, n, c[1], c[2])
  BY DEF Pairs
<1>2. ASSUME NEW p \in Only(o, n), NEW q \in Only(n, o), Clean(o, n, p, q)
      PROVE  \E c \in Pairs(o, n) : c[1] = p /\ c[2] = q
  <2>1. <<p, q>> \in Pairs(o, n)
    BY <1>2 DEF Pairs
  <2> QED
    BY <2>1
<1> QED
  BY <1>1, <1>2

\* What move detection leaves of one type, entry by entry.
LEMMA MovesOfIs ==
    ASSUME NEW o, NEW n, NEW type
    PROVE  \A e : e \in MovesOf(o, n, type) <=>
              \/ \E p \in Removals(o, n) : e = Entry("Removed", type, p, 0)
              \/ \E p \in Additions(o, n) : e = Entry("Added", type, 0, p)
              \/ \E p \in DOMAIN o \cap DOMAIN n : e = Entry("Modified", type, p, p)
              \/ \E p \in Only(o, n), q \in Only(n, o) : Clean(o, n, p, q) /\ e = Entry("Moved", type, p, q)
<1>1. \A e : e \in MovesOf(o, n, type) <=>
          \/ \E p \in Removals(o, n) : e = Entry("Removed", type, p, 0)
          \/ \E p \in Additions(o, n) : e = Entry("Added", type, 0, p)
          \/ \E p \in DOMAIN o \cap DOMAIN n : e = Entry("Modified", type, p, p)
          \/ \E c \in Pairs(o, n) : e = Entry("Moved", type, c[1], c[2])
  BY Zenon DEF MovesOf
<1>2. \A e : (\E c \in Pairs(o, n) : e = Entry("Moved", type, c[1], c[2])) <=>
          \E p \in Only(o, n), q \in Only(n, o) : Clean(o, n, p, q) /\ e = Entry("Moved", type, p, q)
  BY Paired
<1> QED
  BY <1>1, <1>2

\* At most one pair holds an index.
LEMMA OnePair ==
    ASSUME NEW s, NEW o, NEW n, NEW type, Matching(s, o, n, type),
           NEW i, NEW j, NEW p, NEW q, At(s, o, n, type, i, j, p, q),
           NEW k, NEW l, NEW r, NEW t, At(s, o, n, type, k, l, r, t)
    PROVE  (i = k \/ j = l \/ p = r \/ q = t) => i = k /\ j = l /\ p = r /\ q = t
<1>1. p = r <=> q = t
  BY PairsApart DEF At
<1>2. p = r => i = k
  BY DEF At, Matching, OneToOne
<1>3. q = t => j = l
  BY DEF At, Matching, OneToOne
<1>4. (i = k => p = r) /\ (j = l => q = t)
  BY Entries DEF At
<1> QED
  BY <1>1, <1>2, <1>3, <1>4

\* What the rewrite makes of each entry.
LEMMA RewrittenIs ==
    ASSUME NEW s, NEW o, NEW n, NEW type, Matching(s, o, n, type), NEW i \in DOMAIN s
    PROVE  LET rw == Rewritten(s, CleanGroups(s, o, n, type)) IN
           /\ \A j, p, q : At(s, o, n, type, i, j, p, q) => rw[i] = Entry("Moved", type, p, q)
           /\ (\A j, p, q : ~At(s, o, n, type, i, j, p, q)) => rw[i] = s[i]
<1> DEFINE pairs == CleanGroups(s, o, n, type)
           rw == Rewritten(s, pairs)
           J == {j \in DOMAIN s : \E g \in pairs : g[1] = {i} /\ j \in g[2]}
<1>1. rw[i] = IF \E g \in pairs : g[1] = {i}
              THEN [s[i] EXCEPT !.kind = "Moved",
                     !.newPath = s[CHOOSE j \in DOMAIN s : \E g \in pairs : g[1] = {i} /\ j \in g[2]].newPath]
              ELSE s[i]
  BY DEF Rewritten
<1>2. \A g : g \in pairs <=> \E k, j, p, q : At(s, o, n, type, k, j, p, q) /\ g = <<{k}, {j}>>
  BY PairsAre
<1>3. \A k, j : <<{k}, {j}>>[1] = {k} /\ <<{k}, {j}>>[2] = {j}
  OBVIOUS
<1> HIDE DEF rw, pairs
<1>4. \A g \in pairs : g[1] = {i} => \E j, p, q : At(s, o, n, type, i, j, p, q) /\ g = <<{i}, {j}>>
  <2> SUFFICES ASSUME NEW g \in pairs, g[1] = {i} PROVE \E j, p, q : At(s, o, n, type, i, j, p, q) /\ g = <<{i}, {j}>>
    OBVIOUS
  <2>1. PICK k, j, p, q : At(s, o, n, type, k, j, p, q) /\ g = <<{k}, {j}>>
    BY <1>2
  <2>2. {k} = {i}
    BY <1>3, <2>1
  <2>3. k = i
    BY <2>2
  <2> QED
    BY <2>1, <2>3
<1>5. ASSUME NEW j, NEW p, NEW q, At(s, o, n, type, i, j, p, q)
      PROVE  rw[i] = Entry("Moved", type, p, q)
  <2>1. <<{i}, {j}>> \in pairs
    BY <1>2, <1>5
  <2>2. j \in DOMAIN s /\ \E g \in pairs : g[1] = {i} /\ j \in g[2]
    BY <1>3, <1>5, <2>1 DEF At
  <2>3. ASSUME NEW l \in DOMAIN s, NEW g \in pairs, g[1] = {i}, l \in g[2] PROVE l = j
    <3>1. PICK m, r, t : At(s, o, n, type, i, m, r, t) /\ g = <<{i}, {m}>>
      BY <1>4, <2>3
    <3>2. l = m
      BY <1>3, <2>3, <3>1
    <3> QED
      BY <1>5, <3>1, <3>2, OnePair
  <2>4. (CHOOSE l \in DOMAIN s : \E g \in pairs : g[1] = {i} /\ l \in g[2]) = j
    BY <2>2, <2>3
  <2>5. rw[i] = [s[i] EXCEPT !.kind = "Moved", !.newPath = s[j].newPath]
    BY <1>1, <2>2, <2>4, Zenon
  <2>6. s[i] = Entry("Removed", type, p, 0) /\ s[j].newPath = q
    BY <1>5, Entries DEF At
  <2>7. [Entry("Removed", type, p, 0) EXCEPT !.kind = "Moved", !.newPath = q] = Entry("Moved", type, p, q)
    <3>1. [Entry("Removed", type, p, 0) EXCEPT !.kind = "Moved"] = Entry("Moved", type, p, 0)
      BY DEF Entry
    <3>2. [Entry("Moved", type, p, 0) EXCEPT !.newPath = q] = Entry("Moved", type, p, q)
      BY DEF Entry
    <3> QED
      BY <3>1, <3>2
  <2> QED
    BY <2>5, <2>6, <2>7, Zenon
<1>6. ASSUME \A j, p, q : ~At(s, o, n, type, i, j, p, q) PROVE rw[i] = s[i]
  BY <1>1, <1>4, <1>6
<1> QED
  BY <1>5, <1>6 DEF rw, pairs

\* detectMovesForType rewrites exactly the clean pairs of its type, and says
\* nothing twice.
LEMMA Moves ==
    ASSUME NEW s, NEW o, NEW n, NEW type, Matching(s, o, n, type)
    PROVE  LET r == detectMovesForType(s, o, n, type) IN
           /\ Vector(r) /\ OneToOne(r)
           /\ \A e : e \in EntriesOf(r) <=> (e \in EntriesOf(s) /\ e.type # type) \/ e \in MovesOf(o, n, type)
<1> DEFINE pairs == CleanGroups(s, o, n, type)
           rw == Rewritten(s, pairs)
           gone == UNION {g[2] : g \in pairs}
           K == DOMAIN s \ gone
           In(i, j, p, q) == At(s, o, n, type, i, j, p, q)
           r == AtPositions(rw, K)
<1>0. Len(s) \in Nat /\ DOMAIN s = 1..Len(s) /\ \A i, j \in DOMAIN s : s[i] = s[j] => i = j
  BY Indices DEF Matching, OneToOne
<1>1. \A j : j \in gone <=> \E i, p, q : In(i, j, p, q)
  <2>1. \A g : g \in pairs <=> \E k, j, p, q : In(k, j, p, q) /\ g = <<{k}, {j}>>
    BY PairsAre
  <2>2. \A k, j : <<{k}, {j}>>[2] = {j}
    OBVIOUS
  <2>3. \A j : j \in gone <=> \E g \in pairs : j \in g[2]
    OBVIOUS
  <2> HIDE DEF pairs, gone, In
  <2>4. ASSUME NEW k, NEW j, NEW p, NEW q, In(k, j, p, q) PROVE j \in gone
    <3>1. <<{k}, {j}>> \in pairs
      BY <2>1, <2>4
    <3> QED
      BY <2>2, <2>3, <3>1
  <2>5. ASSUME NEW j \in gone PROVE \E k, p, q : In(k, j, p, q)
    <3>1. PICK g \in pairs : j \in g[2]
      BY <2>3
    <3>2. PICK k, l, p, q : In(k, l, p, q) /\ g = <<{k}, {l}>>
      BY <2>1
    <3>3. j = l
      BY <2>2, <3>1, <3>2
    <3> QED
      BY <3>2, <3>3
  <2> QED
    BY <2>4, <2>5
<1>2. gone \subseteq DOMAIN s
  BY <1>1 DEF At
<1>3. detectMovesForType(s, o, n, type) = r
  <2>1. KeptIdx(s, Ascending(gone)) = K
    <3> HIDE DEF gone
    <3> QED
      BY <1>2, KeptIdxIs DEF Matching
  <2>2. detectMovesForType(s, o, n, type) = AtPositions(rw, KeptIdx(s, Ascending(gone)))
    BY Zenon DEF detectMovesForType, ErasedIdx, CleanGroups
  <2> QED
    BY <2>1, <2>2, Zenon
<1>4. \A i \in DOMAIN s : /\ \A j, p, q : In(i, j, p, q) => rw[i] = Entry("Moved", type, p, q)
                          /\ (\A j, p, q : ~In(i, j, p, q)) => rw[i] = s[i]
  BY RewrittenIs
<1>5. \A i \in DOMAIN s : s[i].type = type => Told(s[i], o, n, type)
  BY Placed
<1>6. \A i, j, p, q : In(i, j, p, q) =>
          /\ p \in Only(o, n) /\ q \in Only(n, o) /\ Clean(o, n, p, q) /\ i \in DOMAIN s /\ j \in DOMAIN s
          /\ s[i] = Entry("Removed", type, p, 0) /\ s[j] = Entry("Added", type, 0, q)
  BY DEF At
<1>7. \A p \in Only(o, n), q \in Only(n, o) : Clean(o, n, p, q) => \E i, j : In(i, j, p, q)
  BY Placed DEF At
<1>8. \A i, j, p, q, k, l, t, u :
          In(i, j, p, q) /\ In(k, l, t, u) /\ (i = k \/ j = l \/ p = t \/ q = u) => i = k /\ j = l /\ p = t /\ q = u
  BY OnePair
<1> HIDE DEF pairs, rw, gone, In
<1>9. \A i, j \in DOMAIN s : rw[i] = rw[j] => i = j
  <2> SUFFICES ASSUME NEW i \in DOMAIN s, NEW j \in DOMAIN s, rw[i] = rw[j] PROVE i = j
    OBVIOUS
  <2>1. \A k \in DOMAIN s : s[k].type = type => s[k].kind # "Moved"
    BY <1>5, Entries DEF Told
  <2>2. CASE (\E l, p, q : In(i, l, p, q)) /\ (\E l, p, q : In(j, l, p, q))
    <3>1. PICK l, p, q : In(i, l, p, q)
      BY <2>2
    <3>2. PICK m, t, u : In(j, m, t, u)
      BY <2>2
    <3>3. Entry("Moved", type, p, q) = Entry("Moved", type, t, u)
      BY <1>4, <3>1, <3>2
    <3>4. p = t
      BY <3>3, Entries
    <3> QED
      BY <1>8, <3>1, <3>2, <3>4
  <2>3. CASE (\A l, p, q : ~In(i, l, p, q)) /\ (\A l, p, q : ~In(j, l, p, q))
    BY <1>0, <1>4, <2>3
  <2>4. ASSUME NEW k \in DOMAIN s, NEW l, NEW p, NEW q, In(k, l, p, q) PROVE rw[k].kind = "Moved" /\ rw[k].type = type
    BY <1>4, <2>4, Entries
  <2>5. CASE (\E l, p, q : In(i, l, p, q)) /\ (\A l, p, q : ~In(j, l, p, q))
    BY <1>4, <2>1, <2>4, <2>5
  <2>6. CASE (\A l, p, q : ~In(i, l, p, q)) /\ (\E l, p, q : In(j, l, p, q))
    BY <1>4, <2>1, <2>4, <2>6
  <2> QED
    BY <2>2, <2>3, <2>5, <2>6
<1>10. K \subseteq 1..Len(s)
  BY <1>0
<1>11. /\ Vector(r) /\ OneToOne(r)
       /\ \A e : e \in EntriesOf(r) <=> \E i \in K : e = rw[i]
  <2>1. \A i, j \in K : rw[i] = rw[j] => i = j
    BY <1>9
  <2> HIDE DEF K
  <2> QED
    BY <1>0, <1>10, <2>1, AtPositionsIs
<1>12. \A e : e \in MovesOf(o, n, type) <=>
          \/ \E p \in Removals(o, n) : e = Entry("Removed", type, p, 0)
          \/ \E p \in Additions(o, n) : e = Entry("Added", type, 0, p)
          \/ \E p \in DOMAIN o \cap DOMAIN n : e = Entry("Modified", type, p, p)
          \/ \E p \in Only(o, n), q \in Only(n, o) : Clean(o, n, p, q) /\ e = Entry("Moved", type, p, q)
  BY MovesOfIs
<1>13. ASSUME NEW i \in K PROVE (rw[i] \in EntriesOf(s) /\ rw[i].type # type) \/ rw[i] \in MovesOf(o, n, type)
  <2>1. CASE \E j, p, q : In(i, j, p, q)
    BY <1>4, <1>6, <1>12, <2>1
  <2>2. CASE \A j, p, q : ~In(i, j, p, q)
    <3>1. rw[i] = s[i] /\ s[i] \in EntriesOf(s)
      BY <1>4, <2>2 DEF EntriesOf
    <3>2. CASE s[i].type = type
      <4>1. Told(s[i], o, n, type)
        BY <1>5, <3>2
      <4>2. ASSUME NEW p \in Only(o, n), s[i] = Entry("Removed", type, p, 0) PROVE p \in Removals(o, n)
        <5>1. \A q \in Only(n, o) : ~Clean(o, n, p, q)
          <6> SUFFICES ASSUME NEW q \in Only(n, o), Clean(o, n, p, q) PROVE FALSE
            OBVIOUS
          <6>1. PICK k, j : In(k, j, p, q)
            BY <1>7
          <6>2. k = i
            BY <1>0, <1>6, <4>2, <6>1
          <6> QED
            BY <2>2, <6>1, <6>2
        <5> QED
          BY <5>1 DEF Removals
      <4>3. ASSUME NEW q \in Only(n, o), s[i] = Entry("Added", type, 0, q) PROVE q \in Additions(o, n)
        <5>1. \A p \in Only(o, n) : ~Clean(o, n, p, q)
          <6> SUFFICES ASSUME NEW p \in Only(o, n), Clean(o, n, p, q) PROVE FALSE
            OBVIOUS
          <6>1. PICK k, j : In(k, j, p, q)
            BY <1>7
          <6>2. j = i
            BY <1>0, <1>6, <4>3, <6>1
          <6> QED
            BY <1>1, <6>1, <6>2
        <5> QED
          BY <5>1 DEF Additions
      <4> QED
        BY <1>12, <3>1, <4>1, <4>2, <4>3 DEF Told
    <3> QED
      BY <3>1, <3>2
  <2> QED
    BY <2>1, <2>2
<1>14. ASSUME NEW i \in DOMAIN s, s[i].type # type PROVE i \in K /\ rw[i] = s[i]
  <2>1. \A j, p, q : ~In(i, j, p, q) /\ ~In(j, i, p, q)
    BY <1>6, <1>14, Entries
  <2> QED
    BY <1>1, <1>4, <2>1
<1>15. ASSUME NEW e \in MovesOf(o, n, type) PROVE \E i \in K : e = rw[i]
  <2>1. CASE \E p \in Removals(o, n) : e = Entry("Removed", type, p, 0)
    <3>1. PICK p \in Removals(o, n) : e = Entry("Removed", type, p, 0)
      BY <2>1
    <3>2. p \in Only(o, n) /\ \A q \in Only(n, o) : ~Clean(o, n, p, q)
      BY DEF Removals
    <3>3. PICK i \in DOMAIN s : s[i] = Entry("Removed", type, p, 0)
      BY <3>2, Placed
    <3>4. \A j, t, q : ~In(i, j, t, q) /\ ~In(j, i, t, q)
      BY <1>6, <3>2, <3>3, Entries
    <3> QED
      BY <1>1, <1>4, <3>1, <3>3, <3>4
  <2>2. CASE \E p \in Additions(o, n) : e = Entry("Added", type, 0, p)
    <3>1. PICK q \in Additions(o, n) : e = Entry("Added", type, 0, q)
      BY <2>2
    <3>2. q \in Only(n, o) /\ \A p \in Only(o, n) : ~Clean(o, n, p, q)
      BY DEF Additions
    <3>3. PICK i \in DOMAIN s : s[i] = Entry("Added", type, 0, q)
      BY <3>2, Placed
    <3>4. \A j, t, u : ~In(i, j, t, u) /\ ~In(j, i, t, u)
      BY <1>6, <3>2, <3>3, Entries
    <3> QED
      BY <1>1, <1>4, <3>1, <3>3, <3>4
  <2>3. CASE \E p \in DOMAIN o \cap DOMAIN n : e = Entry("Modified", type, p, p)
    <3>1. Told(e, o, n, type)
      BY <2>3 DEF Told
    <3>2. PICK i \in DOMAIN s : s[i] = e
      BY <3>1 DEF Matching, EntriesOf
    <3>3. \A j, t, u : ~In(i, j, t, u) /\ ~In(j, i, t, u)
      BY <1>6, <2>3, <3>2, Entries
    <3> QED
      BY <1>1, <1>4, <3>2, <3>3
  <2>4. CASE \E p \in Only(o, n), q \in Only(n, o) : Clean(o, n, p, q) /\ e = Entry("Moved", type, p, q)
    <3>1. PICK p \in Only(o, n), q \in Only(n, o) : Clean(o, n, p, q) /\ e = Entry("Moved", type, p, q)
      BY <2>4
    <3>2. PICK i, j : In(i, j, p, q)
      BY <1>7, <3>1
    <3>3. i \in DOMAIN s /\ \A k, t, u : ~In(k, i, t, u)
      BY <1>6, <3>2, Entries
    <3> QED
      BY <1>1, <1>4, <3>1, <3>2, <3>3
  <2> QED
    BY <1>12, <2>1, <2>2, <2>3, <2>4
<1>16. \A e : e \in EntriesOf(s) <=> \E i \in DOMAIN s : e = s[i]
  BY DEF EntriesOf
<1> HIDE DEF K
<1>17. \A e : e \in EntriesOf(r) <=> (e \in EntriesOf(s) /\ e.type # type) \/ e \in MovesOf(o, n, type)
  BY <1>11, <1>13, <1>14, <1>15, <1>16
<1> QED
  BY <1>3, <1>11, <1>17

--------------------------------------------------------------------------------
(* The whole report *)

\* The entries that move detection leaves, type by type.
LEMMA Detected ==
    ASSUME NEW s \in Seq(Element), NEW u \in Seq(Element)
    PROVE  LET m == applyMoveDetection(matchParsedProjects(s, u), s, u) IN
           /\ Vector(m) /\ OneToOne(m)
           /\ \A e : e \in EntriesOf(m) <=>
                 \E type \in Types : e \in MovesOf(indexByPath(s, type), indexByPath(u, type), type)
<1> DEFINE m == matchParsedProjects(s, u)
           O(t) == indexByPath(s, t)
           N(t) == indexByPath(u, t)
           c == detectMovesForType(m, O("Cluster"), N("Cluster"), "Cluster")
           d == detectMovesForType(c, O("Pdu"), N("Pdu"), "Pdu")
<1>1. Vector(m) /\ OneToOne(m) /\ \A e : e \in EntriesOf(m) <=> \E t \in Types : Told(e, O(t), N(t), t)
  BY Matched
<1>2. \A t : Index(O(t)) /\ Index(N(t))
  BY Indexed
<1>3. applyMoveDetection(m, s, u) = d
  BY DEF applyMoveDetection, clustersDetected
<1> HIDE DEF m, O, N
<1>4. \A e, t : Told(e, O(t), N(t), t) => e.type = t
  BY Entries DEF Told
<1>5. \A e, t : e \in MovesOf(O(t), N(t), t) => e.type = t
  BY MovesOfIs, Entries
<1>6. Matching(m, O("Cluster"), N("Cluster"), "Cluster")
  BY <1>1, <1>2, <1>4 DEF Matching, Types
<1>7. /\ Vector(c) /\ OneToOne(c)
      /\ \A e : e \in EntriesOf(c) <=>
            (e \in EntriesOf(m) /\ e.type # "Cluster") \/ e \in MovesOf(O("Cluster"), N("Cluster"), "Cluster")
  BY <1>6, Moves
<1> HIDE DEF c
<1>8. \A e : e \in EntriesOf(c) /\ e.type = "Pdu" <=> Told(e, O("Pdu"), N("Pdu"), "Pdu")
  BY <1>1, <1>4, <1>5, <1>7 DEF Types
<1>9. Matching(c, O("Pdu"), N("Pdu"), "Pdu")
  BY <1>2, <1>7, <1>8 DEF Matching
<1>10. /\ Vector(d) /\ OneToOne(d)
       /\ \A e : e \in EntriesOf(d) <=>
             (e \in EntriesOf(c) /\ e.type # "Pdu") \/ e \in MovesOf(O("Pdu"), N("Pdu"), "Pdu")
  BY <1>9, Moves
<1>11. \A e : e \in EntriesOf(c) /\ e.type # "Pdu" <=> e \in MovesOf(O("Cluster"), N("Cluster"), "Cluster")
  BY <1>1, <1>4, <1>5, <1>7 DEF Types
<1>12. \A e : e \in EntriesOf(d) <=> \E t \in Types : e \in MovesOf(O(t), N(t), t)
  BY <1>10, <1>11 DEF Types
<1> QED
  BY <1>3, <1>10, <1>12 DEF m, O, N

Removed(e, o, n, t) == \E p \in Removals(o, n) : e = Full("Removed", t, p, 0, {})
Added(e, o, n, t) == \E p \in Additions(o, n) : e = Full("Added", t, 0, p, {})
Modified(e, o, n, t) ==
    \E p \in DOMAIN o \cap DOMAIN n :
        diffPair(t, o[p], n[p]) # {} /\ e = Full("Modified", t, p, p, diffPair(t, o[p], n[p]))
Moved(e, o, n, t) ==
    \E p \in Only(o, n), q \in Only(n, o) :
        Clean(o, n, p, q) /\ e = Full("Moved", t, p, q, diffPair(t, o[p], n[q]))

\* What an entry of the finished report is.
Says(e, o, n, t) == Removed(e, o, n, t) \/ Added(e, o, n, t) \/ Modified(e, o, n, t) \/ Moved(e, o, n, t)

LEMMA Finished ==
    ASSUME NEW s \in Seq(Element), NEW u \in Seq(Element)
    PROVE  LET r == Populated(applyMoveDetection(matchParsedProjects(s, u), s, u), s, u) IN
           /\ Vector(r) /\ OneToOne(r)
           /\ \A e : e \in EntriesOf(r) <=>
                 \E type \in Types : Says(e, indexByPath(s, type), indexByPath(u, type), type)
<1> DEFINE A == applyMoveDetection(matchParsedProjects(s, u), s, u)
           M == EntriesOf(A)
           O(t) == indexByPath(s, t)
           N(t) == indexByPath(u, t)
           D(e) == diffPair(e.type, O(e.type)[e.oldPath], N(e.type)[e.newPath])
<1>1. \A e : e \in M <=> \E t \in Types :
          \/ \E p \in Removals(O(t), N(t)) : e = Entry("Removed", t, p, 0)
          \/ \E p \in Additions(O(t), N(t)) : e = Entry("Added", t, 0, p)
          \/ \E p \in DOMAIN O(t) \cap DOMAIN N(t) : e = Entry("Modified", t, p, p)
          \/ \E p \in Only(O(t), N(t)), q \in Only(N(t), O(t)) : Clean(O(t), N(t), p, q) /\ e = Entry("Moved", t, p, q)
  <2>1. \A e : e \in M <=> \E t \in Types : e \in MovesOf(O(t), N(t), t)
    BY Detected
  <2> HIDE DEF M, O, N
  <2> QED
    BY <2>1, MovesOfIs
<1>0. Vector(A) /\ OneToOne(A)
  BY Detected
<1> DEFINE R == Populated(A, s, u)
           filled == [i \in DOMAIN A |-> Filled(A[i], s, u)]
           P == {i \in DOMAIN filled : filled[i].kind # "Modified" \/ filled[i].fields # {}}
<1> HIDE DEF A, O, N
<1>20. \A e \in M : \E k, t, p, q : e = Entry(k, t, p, q) /\ k \in {"Added", "Removed", "Moved", "Modified"}
  <2> HIDE DEF M
  <2> QED
    BY <1>1
<1>21. \A e \in M : Filled(e, s, u) = IF e.kind \in {"Moved", "Modified"} THEN [e EXCEPT !.fields = D(e)] ELSE e
  BY Zenon DEF Filled, O, N
<1>22. \A e \in M : \E f : Filled(e, s, u) = Full(e.kind, e.type, e.oldPath, e.newPath, f)
  <2> SUFFICES ASSUME NEW e \in M PROVE \E f : Filled(e, s, u) = Full(e.kind, e.type, e.oldPath, e.newPath, f)
    OBVIOUS
  <2>1. e = Entry(e.kind, e.type, e.oldPath, e.newPath)
    BY <1>20, Entries
  <2>2. [e EXCEPT !.fields = D(e)] = Full(e.kind, e.type, e.oldPath, e.newPath, D(e))
    BY <2>1, WithFields, Zenon
  <2>3. e = Full(e.kind, e.type, e.oldPath, e.newPath, {})
    BY <2>1, Entries
  <2> HIDE DEF D, M
  <2> QED
    BY <1>21, <2>2, <2>3
<1>23. \A e, g \in M : Filled(e, s, u) = Filled(g, s, u) => e = g
  <2> SUFFICES ASSUME NEW e \in M, NEW g \in M, Filled(e, s, u) = Filled(g, s, u) PROVE e = g
    OBVIOUS
  <2>1. e = Entry(e.kind, e.type, e.oldPath, e.newPath) /\ g = Entry(g.kind, g.type, g.oldPath, g.newPath)
    BY <1>20, Entries
  <2>2. PICK f : Filled(e, s, u) = Full(e.kind, e.type, e.oldPath, e.newPath, f)
    BY <1>22
  <2>3. PICK h : Filled(g, s, u) = Full(g.kind, g.type, g.oldPath, g.newPath, h)
    BY <1>22
  <2>4. e.kind = g.kind /\ e.type = g.type /\ e.oldPath = g.oldPath /\ e.newPath = g.newPath
    <3>1. PICK k1, t1, p1, q1 : k1 = e.kind /\ t1 = e.type /\ p1 = e.oldPath /\ q1 = e.newPath
      OBVIOUS
    <3>2. PICK k2, t2, p2, q2 : k2 = g.kind /\ t2 = g.type /\ p2 = g.oldPath /\ q2 = g.newPath
      OBVIOUS
    <3>3. Full(k1, t1, p1, q1, f) = Full(k2, t2, p2, q2, h)
      BY <2>2, <2>3, <3>1, <3>2
    <3>4. k1 = k2 /\ t1 = t2 /\ p1 = p2 /\ q1 = q2
      BY <3>3 DEF Full
    <3> QED
      BY <3>1, <3>2, <3>4
  <2> QED
    BY <2>1, <2>4
<1>24. Len(A) \in Nat /\ DOMAIN A = 1..Len(A) /\ \A i \in DOMAIN A : A[i] \in M
  BY <1>0, Indices DEF EntriesOf
<1>25. DOMAIN filled = DOMAIN A /\ \A i \in DOMAIN A : filled[i] = Filled(A[i], s, u)
  OBVIOUS
<1>26. R = AtPositions(filled, P)
  BY Zenon DEF Populated
<1>27. /\ Vector(R) /\ OneToOne(R)
       /\ \A e : e \in EntriesOf(R) <=> \E i \in P : e = filled[i]
  <2>1. P \subseteq 1..Len(A)
    BY <1>24, <1>25
  <2>2. \A i, j \in P : filled[i] = filled[j] => i = j
    <3>1. \A i \in P : i \in DOMAIN A
      BY <1>25
    <3> HIDE DEF filled, M, P
    <3> QED
      BY <1>0, <1>23, <1>24, <1>25, <3>1 DEF OneToOne
  <2> HIDE DEF P, filled, R
  <2>3. LET x == AtPositions(filled, P) IN
        /\ Vector(x) /\ \A e : e \in EntriesOf(x) <=> \E i \in P : e = filled[i]
        /\ OneToOne(x)
    BY <1>24, <2>1, <2>2, AtPositionsIs
  <2> QED
    BY <1>26, <2>3
<1>28. \A e : e \in EntriesOf(R) <=>
          \E m \in M : e = Filled(m, s, u) /\ (e.kind # "Modified" \/ e.fields # {})
  <2>1. \A m \in M : \E i \in DOMAIN A : m = A[i]
    BY DEF EntriesOf
  <2>2. \A i : i \in P <=> i \in DOMAIN A /\ (filled[i].kind # "Modified" \/ filled[i].fields # {})
    BY <1>25
  <2> HIDE DEF M, filled, P, R
  <2> QED
    BY <1>24, <1>25, <1>27, <2>1, <2>2
<1> HIDE DEF M, O, N
<1> HIDE DEF R, filled, P
<1>2. \A e : e \in EntriesOf(R) <=>
          \/ e \in M /\ e.kind \in {"Added", "Removed"}
          \/ \E m \in M : /\ m.kind \in {"Moved", "Modified"} /\ e = [m EXCEPT !.fields = D(m)]
                          /\ e.kind = "Moved" \/ e.fields # {}
  <2>1. \A m \in M : Filled(m, s, u).kind = m.kind
    BY <1>22, Entries
  <2>2. \A m \in M : m.kind \in {"Added", "Removed", "Moved", "Modified"}
    BY <1>20, Entries
  <2> HIDE DEF D
  <2> QED
    BY <1>21, <1>28, <2>1, <2>2
<1>3. \A e : e \in M /\ e.kind \in {"Added", "Removed"} <=>
          \E t \in Types : Removed(e, O(t), N(t), t) \/ Added(e, O(t), N(t), t)
  BY <1>1, Entries DEF Removed, Added
<1>4. ASSUME NEW m \in M, m.kind \in {"Moved", "Modified"}, NEW e, e = [m EXCEPT !.fields = D(m)],
             e.kind = "Moved" \/ e.fields # {}
      PROVE  \E t \in Types : Modified(e, O(t), N(t), t) \/ Moved(e, O(t), N(t), t)
  <2>1. PICK t \in Types :
          \/ \E p \in DOMAIN O(t) \cap DOMAIN N(t) : m = Entry("Modified", t, p, p)
          \/ \E p \in Only(O(t), N(t)), q \in Only(N(t), O(t)) : Clean(O(t), N(t), p, q) /\ m = Entry("Moved", t, p, q)
    BY <1>1, <1>4, Entries
  <2>2. CASE \E p \in DOMAIN O(t) \cap DOMAIN N(t) : m = Entry("Modified", t, p, p)
    <3>1. PICK p \in DOMAIN O(t) \cap DOMAIN N(t) : m = Entry("Modified", t, p, p)
      BY <2>2
    <3>2. D(m) = diffPair(t, O(t)[p], N(t)[p])
      BY <3>1, Entries
    <3>3. e = Full("Modified", t, p, p, diffPair(t, O(t)[p], N(t)[p]))
      BY <1>4, <3>1, <3>2, WithFields, Zenon
    <3> QED
      <4>1. e.kind = "Modified" /\ e.fields = diffPair(t, O(t)[p], N(t)[p])
        BY <3>3, Entries
      <4> QED
        BY <1>4, <3>3, <4>1 DEF Modified
  <2>3. CASE \E p \in Only(O(t), N(t)), q \in Only(N(t), O(t)) :
                Clean(O(t), N(t), p, q) /\ m = Entry("Moved", t, p, q)
    <3>1. PICK p \in Only(O(t), N(t)), q \in Only(N(t), O(t)) :
              Clean(O(t), N(t), p, q) /\ m = Entry("Moved", t, p, q)
      BY <2>3
    <3>2. D(m) = diffPair(t, O(t)[p], N(t)[q])
      BY <3>1, Entries
    <3>3. e = Full("Moved", t, p, q, diffPair(t, O(t)[p], N(t)[q]))
      BY <1>4, <3>1, <3>2, WithFields, Zenon
    <3> QED
      BY <3>1, <3>3 DEF Moved
  <2> QED
    BY <2>1, <2>2, <2>3
<1>5. ASSUME NEW e, NEW t \in Types, Modified(e, O(t), N(t), t) \/ Moved(e, O(t), N(t), t)
      PROVE  \E m \in M : /\ m.kind \in {"Moved", "Modified"} /\ e = [m EXCEPT !.fields = D(m)]
                          /\ e.kind = "Moved" \/ e.fields # {}
  <2>1. CASE Modified(e, O(t), N(t), t)
    <3>1. PICK p \in DOMAIN O(t) \cap DOMAIN N(t) :
              diffPair(t, O(t)[p], N(t)[p]) # {} /\ e = Full("Modified", t, p, p, diffPair(t, O(t)[p], N(t)[p]))
      BY <2>1 DEF Modified
    <3> DEFINE m == Entry("Modified", t, p, p)
    <3>2. m \in M
      BY <1>1
    <3>3. m.kind = "Modified" /\ D(m) = diffPair(t, O(t)[p], N(t)[p])
      BY Entries
    <3>4. e = [m EXCEPT !.fields = D(m)]
      BY <3>1, <3>3, WithFields, Zenon
    <3>5. e.fields # {}
      BY <3>1, Entries
    <3> QED
      BY <3>2, <3>3, <3>4, <3>5, Zenon
  <2>2. CASE Moved(e, O(t), N(t), t)
    <3>1. PICK p \in Only(O(t), N(t)), q \in Only(N(t), O(t)) :
              Clean(O(t), N(t), p, q) /\ e = Full("Moved", t, p, q, diffPair(t, O(t)[p], N(t)[q]))
      BY <2>2 DEF Moved
    <3> DEFINE m == Entry("Moved", t, p, q)
    <3>2. m \in M
      BY <1>1, <3>1
    <3>3. m.kind = "Moved" /\ D(m) = diffPair(t, O(t)[p], N(t)[q])
      BY Entries
    <3>4. e = [m EXCEPT !.fields = D(m)]
      BY <3>1, <3>3, WithFields, Zenon
    <3>5. e.kind = "Moved"
      BY <3>1, Entries
    <3> QED
      BY <3>2, <3>3, <3>4, <3>5, Zenon
  <2> QED
    BY <1>5, <2>1, <2>2
<1> HIDE DEF D
<1>6. \A e : (\E m \in M : /\ m.kind \in {"Moved", "Modified"} /\ e = [m EXCEPT !.fields = D(m)]
                           /\ e.kind = "Moved" \/ e.fields # {})
             <=> \E t \in Types : Modified(e, O(t), N(t), t) \/ Moved(e, O(t), N(t), t)
  BY <1>4, <1>5, Zenon
<1>7. \A e : e \in EntriesOf(R) <=> \E t \in Types : Says(e, O(t), N(t), t)
  BY <1>2, <1>3, <1>6, Zenon DEF Says
<1> QED
  BY <1>7, <1>27 DEF A, R, O, N

--------------------------------------------------------------------------------
(* The report of one type *)

\* What an entry's kind tells.
LEMMA Kinds ==
    ASSUME NEW o, NEW n, NEW t, NEW e, Says(e, o, n, t)
    PROVE  /\ e.type = t
           /\ \/ e.kind = "Removed" /\ e.oldPath \in Removals(o, n) /\ e.newPath = 0
              \/ e.kind = "Added" /\ e.oldPath = 0 /\ e.newPath \in Additions(o, n)
              \/ e.kind = "Modified" /\ e.oldPath = e.newPath /\ e.newPath \in DOMAIN o \cap DOMAIN n
                 /\ diffPair(t, o[e.oldPath], n[e.newPath]) # {}
              \/ e.kind = "Moved" /\ Clean(o, n, e.oldPath, e.newPath)
           /\ e = Full(e.kind, t, e.oldPath, e.newPath, e.fields)
           /\ e.kind \in {"Removed", "Added"} => e.fields = {}
           /\ e.kind \in {"Modified", "Moved"} => e.fields = diffPair(t, o[e.oldPath], n[e.newPath])
<1>1. CASE Removed(e, o, n, t)
  BY <1>1, Entries DEF Removed
<1>2. CASE Added(e, o, n, t)
  BY <1>2, Entries DEF Added
<1>3. CASE Modified(e, o, n, t)
  BY <1>3, Entries DEF Modified
<1>4. CASE Moved(e, o, n, t)
  BY <1>4, Entries DEF Moved
<1> QED
  BY <1>1, <1>2, <1>3, <1>4 DEF Says

\* No path is told twice.
LEMMA Once ==
    ASSUME NEW o, NEW n, NEW t, Index(o), Index(n),
           NEW e, Says(e, o, n, t), NEW f, Says(f, o, n, t)
    PROVE  /\ e.oldPath = f.oldPath /\ e.oldPath # 0 => e = f
           /\ e.newPath = f.newPath /\ e.newPath # 0 => e = f
<1>1. ASSUME e.kind = f.kind, e.oldPath = f.oldPath, e.newPath = f.newPath
      PROVE  e = f
  <2>1. e.fields = f.fields
    BY <1>1, Kinds
  <2>2. e = Full(e.kind, t, e.oldPath, e.newPath, e.fields) /\ f = Full(f.kind, t, f.oldPath, f.newPath, f.fields)
    BY Kinds
  <2> QED
    BY <1>1, <2>1, <2>2
<1>2. /\ e.kind = "Removed" => e.oldPath \in Removals(o, n) /\ e.newPath = 0
      /\ e.kind = "Added" => e.oldPath = 0 /\ e.newPath \in Additions(o, n)
      /\ e.kind = "Modified" => e.oldPath = e.newPath /\ e.newPath \in DOMAIN o \cap DOMAIN n
      /\ e.kind = "Moved" => Clean(o, n, e.oldPath, e.newPath)
      /\ e.kind \in {"Removed", "Added", "Modified", "Moved"}
  BY Kinds
<1>3. /\ f.kind = "Removed" => f.oldPath \in Removals(o, n) /\ f.newPath = 0
      /\ f.kind = "Added" => f.oldPath = 0 /\ f.newPath \in Additions(o, n)
      /\ f.kind = "Modified" => f.oldPath = f.newPath /\ f.newPath \in DOMAIN o \cap DOMAIN n
      /\ f.kind = "Moved" => Clean(o, n, f.oldPath, f.newPath)
      /\ f.kind \in {"Removed", "Added", "Modified", "Moved"}
  BY Kinds
<1>4. \A p \in Removals(o, n) : p \in DOMAIN o /\ p \notin DOMAIN n /\ \A q : ~Clean(o, n, p, q)
  BY DEF Removals, Only, Clean
<1>5. \A q \in Additions(o, n) : q \in DOMAIN n /\ q \notin DOMAIN o /\ \A p : ~Clean(o, n, p, q)
  BY DEF Additions, Only, Clean
<1>6. \A p, q : Clean(o, n, p, q) => p \in DOMAIN o \ DOMAIN n /\ q \in DOMAIN n \ DOMAIN o
  BY DEF Clean, Only
<1>7. \A p, q, r, s : Clean(o, n, p, q) /\ Clean(o, n, r, s) => (p = r <=> q = s)
  BY PairsApart
<1>8. 0 \notin DOMAIN o /\ 0 \notin DOMAIN n
  BY DEF Index
<1>9. ASSUME e.oldPath = f.oldPath, e.oldPath # 0 PROVE e.kind = f.kind /\ e.newPath = f.newPath
  BY <1>2, <1>3, <1>4, <1>5, <1>6, <1>7, <1>8, <1>9
<1>10. ASSUME e.newPath = f.newPath, e.newPath # 0 PROVE e.kind = f.kind /\ e.oldPath = f.oldPath
  BY <1>2, <1>3, <1>4, <1>5, <1>6, <1>7, <1>8, <1>10
<1> QED
  BY <1>1, <1>9, <1>10

\* p is in both and does not differ.
Quiet(o, n, t, p) == p \in DOMAIN o \cap DOMAIN n /\ diffPair(t, o[p], n[p]) = {}

\* A path is told if it is in one project only, or differs.
LEMMA Covered ==
    ASSUME NEW o, NEW n, NEW t, Index(o), Index(n)
    PROVE  /\ \A p \in DOMAIN o :
                 (\E e : Says(e, o, n, t) /\ e.oldPath = p) <=> ~Quiet(o, n, t, p)
           /\ \A p \in DOMAIN n :
                 (\E e : Says(e, o, n, t) /\ e.newPath = p) <=> ~Quiet(o, n, t, p)
<1>1. ASSUME NEW e, Says(e, o, n, t)
      PROVE  /\ e.oldPath \in DOMAIN n \cap DOMAIN o => diffPair(t, o[e.oldPath], n[e.oldPath]) # {}
             /\ e.newPath \in DOMAIN n \cap DOMAIN o => diffPair(t, o[e.newPath], n[e.newPath]) # {}
  BY <1>1, Kinds DEF Removals, Additions, Only, Clean, Index
<1>2. ASSUME NEW p \in DOMAIN o \cap DOMAIN n, diffPair(t, o[p], n[p]) # {}
      PROVE  \E e : Says(e, o, n, t) /\ e.oldPath = p /\ e.newPath = p
  <2> DEFINE e == Full("Modified", t, p, p, diffPair(t, o[p], n[p]))
  <2>1. Modified(e, o, n, t) /\ e.oldPath = p /\ e.newPath = p
    BY <1>2, Entries DEF Modified
  <2> QED
    BY <2>1 DEF Says
<1>3. ASSUME NEW p \in Only(o, n)
      PROVE  \E e : Says(e, o, n, t) /\ e.oldPath = p
  <2>1. CASE p \in Removals(o, n)
    <3>1. Removed(Full("Removed", t, p, 0, {}), o, n, t)
      BY <2>1 DEF Removed
    <3> QED
      BY <3>1, Entries DEF Says
  <2>2. CASE p \notin Removals(o, n)
    <3>1. PICK q \in Only(n, o) : Clean(o, n, p, q)
      BY <2>2 DEF Removals
    <3>2. Moved(Full("Moved", t, p, q, diffPair(t, o[p], n[q])), o, n, t)
      BY <3>1 DEF Moved
    <3> QED
      BY <3>2, Entries DEF Says
  <2> QED
    BY <2>1, <2>2
<1>4. ASSUME NEW q \in Only(n, o)
      PROVE  \E e : Says(e, o, n, t) /\ e.newPath = q
  <2>1. CASE q \in Additions(o, n)
    <3>1. Added(Full("Added", t, 0, q, {}), o, n, t)
      BY <2>1 DEF Added
    <3> QED
      BY <3>1, Entries DEF Says
  <2>2. CASE q \notin Additions(o, n)
    <3>1. PICK p \in Only(o, n) : Clean(o, n, p, q)
      BY <2>2 DEF Additions
    <3>2. Moved(Full("Moved", t, p, q, diffPair(t, o[p], n[q])), o, n, t)
      BY <3>1 DEF Moved
    <3> QED
      BY <3>2, Entries DEF Says
  <2> QED
    BY <2>1, <2>2
<1> QED
  BY <1>1, <1>2, <1>3, <1>4 DEF Only, Quiet

\* The sort sees no two entries of one type as equal.
LEMMA KeysApart ==
    ASSUME NEW o, NEW n, NEW t, Index(o), Index(n),
           NEW e, Says(e, o, n, t), NEW f, Says(f, o, n, t), sortKeyFor(e) = sortKeyFor(f)
    PROVE  e = f
<1>1. /\ e.kind = "Removed" => e.oldPath \in DOMAIN o \ DOMAIN n
      /\ e.kind # "Removed" => e.newPath \in DOMAIN n
  BY Kinds DEF Removals, Additions, Only, Clean
<1>2. /\ f.kind = "Removed" => f.oldPath \in DOMAIN o \ DOMAIN n
      /\ f.kind # "Removed" => f.newPath \in DOMAIN n
  BY Kinds DEF Removals, Additions, Only, Clean
<1> QED
  BY <1>1, <1>2, Once DEF sortKeyFor, Index

--------------------------------------------------------------------------------
(* The report *)

\* The finished report of the comparison of s with u.
ReportFor(s, u) == Populated(applyMoveDetection(matchParsedProjects(s, u), s, u), s, u)

\* The report is what is said of each type.
LEMMA OfReport ==
    ASSUME NEW s \in Seq(Element), NEW u \in Seq(Element)
    PROVE  /\ \A t : Index(indexByPath(s, t)) /\ Index(indexByPath(u, t))
           /\ Vector(ReportFor(s, u)) /\ OneToOne(ReportFor(s, u))
           /\ \A e : e \in EntriesOf(ReportFor(s, u)) <=>
                 e.type \in Types /\ Says(e, indexByPath(s, e.type), indexByPath(u, e.type), e.type)
<1>1. \A t : Index(indexByPath(s, t)) /\ Index(indexByPath(u, t))
  BY Indexed
<1>2. /\ Vector(ReportFor(s, u)) /\ OneToOne(ReportFor(s, u))
      /\ \A e : e \in EntriesOf(ReportFor(s, u)) <=>
            \E t \in Types : Says(e, indexByPath(s, t), indexByPath(u, t), t)
  BY Finished DEF ReportFor
<1>3. \A e, t : Says(e, indexByPath(s, t), indexByPath(u, t), t) => e.type = t
  BY Kinds
<1> QED
  BY <1>1, <1>2, <1>3

\* The sort keeps every entry, as often as it was there, and puts none before a lesser one.
LEMMA SortKeeps ==
    ASSUME NEW s, Vector(s), OneToOne(s), NEW r \in Sorted(s)
    PROVE  /\ DOMAIN r = DOMAIN s /\ EntriesOf(r) = EntriesOf(s) /\ OneToOne(r)
           /\ \A i, j \in DOMAIN r : i < j => r[i] # r[j] /\ ~Before(r[j], r[i])
<1>1. PICK q \in [DOMAIN s -> DOMAIN s] :
          /\ r = [k \in DOMAIN s |-> s[q[k]]]
          /\ \A i, j \in DOMAIN s : i < j => q[i] # q[j] /\ ~Before(s[q[j]], s[q[i]])
  BY DEF Sorted
<1>2. Len(s) \in Nat /\ DOMAIN s = 1..Len(s)
  BY Indices
<1>3. DOMAIN r = DOMAIN s /\ \A k \in DOMAIN s : r[k] = s[q[k]] /\ q[k] \in DOMAIN s
  BY <1>1
<1>4. \A i, j \in DOMAIN s : q[i] = q[j] => i = j
  <2>1. \A i, j \in DOMAIN s : i < j \/ j < i \/ i = j
    BY <1>2
  <2> QED
    BY <1>1, <2>1
<1>5. q \in Surjection(DOMAIN s, DOMAIN s)
  <2>1. q \in Injection(DOMAIN s, DOMAIN s)
    BY <1>1, <1>4 DEF Injection, IsInjective
  <2>2. IsFiniteSet(DOMAIN s)
    BY <1>2, FS_Interval
  <2> QED
    BY <2>1, <2>2, FS_Injection
<1>6. \A k \in DOMAIN s : \E i \in DOMAIN s : q[i] = k
  BY <1>5 DEF Surjection
<1>7. EntriesOf(r) = EntriesOf(s)
  BY <1>3, <1>6 DEF EntriesOf
<1>8. OneToOne(r)
  BY <1>3, <1>4 DEF OneToOne
<1>9. \A i, j \in DOMAIN r : i < j => r[i] # r[j] /\ ~Before(r[j], r[i])
  <2>1. \A i, j \in DOMAIN s : i < j => q[i] # q[j] /\ s[q[i]] # s[q[j]]
    BY <1>1, <1>3 DEF OneToOne
  <2> QED
    BY <1>1, <1>3, <2>1
<1> QED
  BY <1>3, <1>7, <1>8, <1>9

\* The comparison is total on the entries of a report.
LEMMA Ordered ==
    ASSUME NEW s \in Seq(Element), NEW u \in Seq(Element),
           NEW e \in EntriesOf(ReportFor(s, u)), NEW f \in EntriesOf(ReportFor(s, u)), e # f, ~Before(f, e)
    PROVE  Before(e, f)
<1>1. /\ e.type \in Types /\ Says(e, indexByPath(s, e.type), indexByPath(u, e.type), e.type)
      /\ f.type \in Types /\ Says(f, indexByPath(s, f.type), indexByPath(u, f.type), f.type)
  BY OfReport
<1>2. \A t : Index(indexByPath(s, t)) /\ Index(indexByPath(u, t))
  BY OfReport
<1>3. ASSUME e.type = f.type PROVE sortKeyFor(e) # sortKeyFor(f)
  BY <1>1, <1>2, <1>3, KeysApart
<1>4. \A o, n, t, g : Index(o) /\ Index(n) /\ Says(g, o, n, t) => sortKeyFor(g) \in Nat
  BY Kinds DEF sortKeyFor, Removals, Additions, Only, Clean, Index
<1>5. sortKeyFor(e) \in Nat /\ sortKeyFor(f) \in Nat
  BY <1>1, <1>2, <1>4
<1> QED
  BY <1>1, <1>3, <1>5 DEF Before, Types

\* What differs does not depend on the side.
LEMMA SameFields ==
    ASSUME NEW t, NEW a, NEW b
    PROVE  diffPair(t, a, b) = diffPair(t, b, a)
<1>1. diffStruct(a, b) = diffStruct(b, a)
  BY DEF diffStruct
<1>2. ASSUME NEW x, NEW y PROVE diffNestedCollection(x, y) = diffNestedCollection(y, x)
  BY DEF diffNestedCollection
<1> QED
  BY <1>1, <1>2 DEF diffPair, diffElements

\* A clean pair is one in both directions.
LEMMA CleanMirrored ==
    ASSUME NEW o, NEW n, NEW p, NEW q
    PROVE  Clean(o, n, p, q) <=> Clean(n, o, q, p)
BY DEF Clean

\* Mirror exchanges the paths and the names of the two one-sided kinds.
LEMMA MirrorOf ==
    ASSUME NEW t, NEW p, NEW q, NEW f
    PROVE  /\ Mirror(Full("Removed", t, p, q, f)) = Full("Added", t, q, p, f)
           /\ Mirror(Full("Added", t, p, q, f)) = Full("Removed", t, q, p, f)
           /\ Mirror(Full("Modified", t, p, q, f)) = Full("Modified", t, q, p, f)
           /\ Mirror(Full("Moved", t, p, q, f)) = Full("Moved", t, q, p, f)
<1> DEFINE K(k) == CASE k = "Added" -> "Removed" [] k = "Removed" -> "Added" [] OTHER -> k
<1>1. \A k : /\ Full(k, t, p, q, f).kind = k
            /\ Full(k, t, p, q, f).oldPath = p /\ Full(k, t, p, q, f).newPath = q
  BY Entries
<1>2. ASSUME NEW k PROVE Mirror(Full(k, t, p, q, f)) = Full(K(k), t, q, p, f)
  <2> DEFINE e == Full(k, t, p, q, f)
  <2>1. Mirror(e) = [e EXCEPT !.oldPath = e.newPath, !.newPath = e.oldPath, !.kind = K(e.kind)]
    BY Zenon DEF Mirror
  <2>2. [e EXCEPT !.oldPath = q, !.newPath = p, !.kind = K(k)] = Full(K(k), t, q, p, f)
    <3> HIDE DEF K
    <3>1. [Full(k, t, p, q, f) EXCEPT !.oldPath = q] = Full(k, t, q, q, f)
      BY DEF Full
    <3>2. [Full(k, t, q, q, f) EXCEPT !.newPath = p] = Full(k, t, q, p, f)
      BY DEF Full
    <3>3. [Full(k, t, q, p, f) EXCEPT !.kind = K(k)] = Full(K(k), t, q, p, f)
      BY DEF Full
    <3> QED
      BY <3>1, <3>2, <3>3
  <2>3. e.kind = k /\ e.oldPath = p /\ e.newPath = q
    BY <1>1
  <2> HIDE DEF e, K
  <2>4. Mirror(e) = [e EXCEPT !.oldPath = q, !.newPath = p, !.kind = K(k)]
    BY <2>1, <2>3, Zenon
  <2>5. Mirror(e) = Full(K(k), t, q, p, f)
    BY <2>2, <2>4, Zenon
  <2> QED
    BY <2>5 DEF e
<1>3. K("Removed") = "Added" /\ K("Added") = "Removed" /\ K("Modified") = "Modified" /\ K("Moved") = "Moved"
  OBVIOUS
<1> HIDE DEF K
<1> QED
  BY <1>2, <1>3, Zenon

\* What the report says of one type, the other way round.
LEMMA Mirrored ==
    ASSUME NEW o, NEW n, NEW t, NEW e, Says(e, o, n, t)
    PROVE  Says(Mirror(e), n, o, t) /\ Mirror(Mirror(e)) = e
<1>1. CASE Removed(e, o, n, t)
  <2>1. PICK p \in Removals(o, n) : e = Full("Removed", t, p, 0, {})
    BY <1>1 DEF Removed
  <2>2. Mirror(e) = Full("Added", t, 0, p, {}) /\ Mirror(Full("Added", t, 0, p, {})) = e
    BY <2>1, MirrorOf
  <2>3. p \in Additions(n, o)
    BY CleanMirrored DEF Removals, Additions
  <2> QED
    BY <2>2, <2>3 DEF Says, Added
<1>2. CASE Added(e, o, n, t)
  <2>1. PICK p \in Additions(o, n) : e = Full("Added", t, 0, p, {})
    BY <1>2 DEF Added
  <2>2. Mirror(e) = Full("Removed", t, p, 0, {}) /\ Mirror(Full("Removed", t, p, 0, {})) = e
    BY <2>1, MirrorOf
  <2>3. p \in Removals(n, o)
    BY CleanMirrored DEF Removals, Additions
  <2> QED
    BY <2>2, <2>3 DEF Says, Removed
<1>3. CASE Modified(e, o, n, t)
  <2>1. PICK p \in DOMAIN o \cap DOMAIN n :
            diffPair(t, o[p], n[p]) # {} /\ e = Full("Modified", t, p, p, diffPair(t, o[p], n[p]))
    BY <1>3 DEF Modified
  <2>2. Mirror(e) = e
    BY <2>1, MirrorOf
  <2>3. diffPair(t, o[p], n[p]) = diffPair(t, n[p], o[p])
    BY SameFields
  <2> QED
    BY <2>1, <2>2, <2>3 DEF Says, Modified
<1>4. CASE Moved(e, o, n, t)
  <2>1. PICK p \in Only(o, n), q \in Only(n, o) :
            Clean(o, n, p, q) /\ e = Full("Moved", t, p, q, diffPair(t, o[p], n[q]))
    BY <1>4 DEF Moved
  <2>2. diffPair(t, o[p], n[q]) = diffPair(t, n[q], o[p])
    BY SameFields
  <2>3. Mirror(e) = Full("Moved", t, q, p, diffPair(t, n[q], o[p]))
    BY <2>1, <2>2, MirrorOf
  <2>4. Mirror(Mirror(e)) = e
    BY <2>1, <2>2, <2>3, MirrorOf
  <2>5. Clean(n, o, q, p)
    BY <2>1, CleanMirrored
  <2> QED
    BY <2>3, <2>4, <2>5 DEF Says, Moved
<1> QED
  BY <1>1, <1>2, <1>3, <1>4 DEF Says

--------------------------------------------------------------------------------
(* The invariant: each pass has left what its operator says *)

IInv ==
    /\ old \in Projects /\ new \in Projects
    /\ pc \in {"match", "moveDetection", "fieldDiff", "sort", "done"}
    /\ pc = "match" => entries = <<>>
    /\ pc = "moveDetection" => entries = matchParsedProjects(old, new)
    /\ pc = "fieldDiff" => entries = applyMoveDetection(matchParsedProjects(old, new), old, new)
    /\ pc \in {"sort", "done"} => entries = ReportFor(old, new)
    /\ IF pc = "done" THEN sorted \in Sorted(entries) ELSE sorted = <<>>

LEMMA Always == Spec => []IInv
<1>1. Init => IInv
  BY DEF Init, IInv
<1>2. IInv /\ [Next]_vars => IInv'
  <2> SUFFICES ASSUME IInv, [Next]_vars PROVE IInv'
    OBVIOUS
  <2>1. CASE Match
    BY <2>1 DEF Match, IInv
  <2>2. CASE MoveDetection
    BY <2>2 DEF MoveDetection, IInv
  <2>3. CASE FieldDiff
    BY <2>3 DEF FieldDiff, IInv, ReportFor
  <2>4. CASE Sort
    BY <2>4 DEF Sort, IInv
  <2>5. CASE UNCHANGED vars
    BY <2>5 DEF vars, IInv
  <2> QED
    BY <2>1, <2>2, <2>3, <2>4, <2>5 DEF Next
<1> QED
  BY <1>1, <1>2, PTL DEF Spec

LEMMA Projected ==
    ASSUME IInv
    PROVE  old \in Seq(Element) /\ new \in Seq(Element)
BY ProjectAssumption DEF IInv

LEMMA Reported ==
    ASSUME IInv
    PROVE  /\ pc = "done" => /\ Report = EntriesOf(ReportFor(old, new)) /\ OneToOne(sorted)
                             /\ \A i, j \in DOMAIN sorted : i < j => sorted[i] # sorted[j] /\ ~Before(sorted[j], sorted[i])
           /\ pc # "done" => Report = {}
<1>1. CASE pc = "done"
  <2>1. sorted \in Sorted(ReportFor(old, new))
    BY <1>1 DEF IInv
  <2>2. Vector(ReportFor(old, new)) /\ OneToOne(ReportFor(old, new))
    BY Projected, OfReport
  <2> QED
    BY <1>1, <2>1, <2>2, SortKeeps DEF Report
<1>2. CASE pc # "done"
  <2>1. sorted = <<>>
    BY <1>2 DEF IInv
  <2> QED
    BY <1>2, <2>1 DEF Report, EntriesOf
<1> QED
  BY <1>1, <1>2

\* Entries that no two positions share are counted by 0 or 1.
LEMMA Counted ==
    ASSUME NEW s, OneToOne(s), NEW P, P \subseteq DOMAIN s, \A i, j \in P : s[i] = s[j]
    PROVE  Cardinality(P) = IF P = {} THEN 0 ELSE 1
<1>1. CASE P = {}
  BY <1>1, FS_EmptySet
<1>2. CASE P # {}
  <2>1. PICK i : i \in P
    BY <1>2
  <2>2. P = {i}
    BY <2>1 DEF OneToOne
  <2>3. Cardinality({i}) = 1
    BY FS_Singleton
  <2> QED
    BY <1>2, <2>2, <2>3
<1> QED
  BY <1>1, <1>2

--------------------------------------------------------------------------------
(* The theorems *)

Typed(e) ==
    /\ e.kind \in {"Added", "Removed", "Moved", "Modified"} /\ e.type \in Types
    /\ e.oldPath \in Nat /\ e.newPath \in Nat
    /\ e.kind = "Added" <=> e.oldPath = 0
    /\ e.kind = "Removed" <=> e.newPath = 0

\* The variables of the comparison keep their types through the four passes of
\* DiffEngine::diff.
THEOREM TypeCorrect == Spec => []TypeOK
<1>1. ASSUME IInv PROVE TypeOK
  <2> DEFINE O(t) == indexByPath(old, t)
             N(t) == indexByPath(new, t)
  <2>1. old \in Seq(Element) /\ new \in Seq(Element)
    BY <1>1, Projected
  <2>2. \A t : Index(O(t)) /\ Index(N(t))
    BY <2>1, Indexed
  <2>3. \A e \in EntriesOf(matchParsedProjects(old, new)) : Typed(e)
    <3>1. \A e \in EntriesOf(matchParsedProjects(old, new)) : \E t \in Types : Told(e, O(t), N(t), t)
      BY <2>1, Matched
    <3> HIDE DEF O, N
    <3>2. ASSUME NEW t \in Types, NEW e, Told(e, O(t), N(t), t) PROVE Typed(e)
      <4>1. /\ \A p \in DOMAIN O(t) \cup DOMAIN N(t) : p \in Nat /\ p # 0
        BY <2>2 DEF Index
      <4> QED
        BY <3>2, <4>1, Entries DEF Typed, Only, Told
    <3> QED
      BY <3>1, <3>2
  <2>4. \A e \in EntriesOf(applyMoveDetection(matchParsedProjects(old, new), old, new)) : Typed(e)
    <3>1. \A e \in EntriesOf(applyMoveDetection(matchParsedProjects(old, new), old, new)) :
              \E t \in Types : e \in MovesOf(O(t), N(t), t)
      BY <2>1, Detected
    <3> HIDE DEF O, N
    <3>2. ASSUME NEW t \in Types, NEW e \in MovesOf(O(t), N(t), t) PROVE Typed(e)
      <4>1. \A p \in DOMAIN O(t) \cup DOMAIN N(t) : p \in Nat /\ p # 0
        BY <2>2 DEF Index
      <4>2. \/ \E p \in Removals(O(t), N(t)) : e = Entry("Removed", t, p, 0)
            \/ \E p \in Additions(O(t), N(t)) : e = Entry("Added", t, 0, p)
            \/ \E p \in DOMAIN O(t) \cap DOMAIN N(t) : e = Entry("Modified", t, p, p)
            \/ \E c \in Pairs(O(t), N(t)) : e = Entry("Moved", t, c[1], c[2])
        BY Zenon DEF MovesOf
      <4>3. \A c \in Pairs(O(t), N(t)) : c[1] \in DOMAIN O(t) /\ c[2] \in DOMAIN N(t)
        BY Paired DEF Only
      <4>4. \A p \in Removals(O(t), N(t)) \cup Additions(O(t), N(t)) : p \in DOMAIN O(t) \cup DOMAIN N(t)
        BY DEF Removals, Additions, Only
      <4> QED
        BY <4>1, <4>2, <4>3, <4>4, Entries DEF Typed
    <3> QED
      BY <3>1, <3>2
  <2>5. \A e \in EntriesOf(ReportFor(old, new)) : Typed(e)
    <3>1. \A e \in EntriesOf(ReportFor(old, new)) : e.type \in Types /\ Says(e, O(e.type), N(e.type), e.type)
      BY <2>1, OfReport
    <3> HIDE DEF O, N
    <3>2. ASSUME NEW t \in Types, NEW e, Says(e, O(t), N(t), t) PROVE Typed(e)
      <4>1. \A p \in DOMAIN O(t) \cup DOMAIN N(t) : p \in Nat /\ p # 0
        BY <2>2 DEF Index
      <4> QED
        BY <3>2, <4>1, Kinds DEF Typed, Removals, Additions, Only, Clean
    <3> QED
      BY <3>1, <3>2
  <2>6. \A e \in EntriesOf(entries) \cup Report : Typed(e)
    <3>1. EntriesOf(<<>>) = {}
      BY DEF EntriesOf
    <3>2. \A e \in Report : Typed(e)
      BY <1>1, <2>5, Reported
    <3> QED
      BY <1>1, <2>3, <2>4, <2>5, <3>1, <3>2 DEF IInv
  <2> QED
    BY <1>1, <2>1, <2>6 DEF TypeOK, Typed, IInv
<1> QED
  BY <1>1, Always, PTL

\* diff_moves.hpp:43-44: a move is never guessed, it joins the only gone path and
\* the only new path of one secondary key.
THEOREM MovesAlwaysCertain == Spec => []MovesAreCertain
<1>1. ASSUME IInv PROVE MovesAreCertain
  <2> SUFFICES ASSUME pc = "done", NEW e \in Report, e.kind = "Moved",
                      NEW o, o = indexByPath(old, e.type), NEW n, n = indexByPath(new, e.type)
               PROVE  /\ {p \in DOMAIN o \ DOMAIN n : secondaryKey(o[p]) = secondaryKey(o[e.oldPath])} = {e.oldPath}
                      /\ {p \in DOMAIN n \ DOMAIN o : secondaryKey(n[p]) = secondaryKey(o[e.oldPath])} = {e.newPath}
    BY DEF MovesAreCertain
  <2>1. Says(e, o, n, e.type)
    BY <1>1, Projected, Reported, OfReport
  <2>2. Clean(o, n, e.oldPath, e.newPath)
    BY <2>1, Kinds
  <2> QED
    BY <2>2 DEF Clean, Only
<1> QED
  BY <1>1, Always, PTL

\* DiffEngine::diff with the two projects exchanged says the same the other way
\* round: additions for removals, moves backwards, the same fields.
THEOREM AlwaysSymmetric == Spec => []Symmetric
<1>1. ASSUME IInv PROVE Symmetric
  <2> SUFFICES ASSUME pc = "done" PROVE EntriesOf(ReportFor(new, old)) = {Mirror(e) : e \in EntriesOf(ReportFor(old, new))}
    BY <1>1, Reported DEF Symmetric, ReportFor
  <2>1. old \in Seq(Element) /\ new \in Seq(Element)
    BY <1>1, Projected
  <2>2. ASSUME NEW s \in Seq(Element), NEW u \in Seq(Element), NEW e \in EntriesOf(ReportFor(s, u))
        PROVE  Mirror(e) \in EntriesOf(ReportFor(u, s)) /\ Mirror(Mirror(e)) = e
    <3>1. e.type \in Types /\ Says(e, indexByPath(s, e.type), indexByPath(u, e.type), e.type)
      BY OfReport
    <3>2. Says(Mirror(e), indexByPath(u, e.type), indexByPath(s, e.type), e.type) /\ Mirror(Mirror(e)) = e
      BY <3>1, Mirrored
    <3>3. Mirror(e).type = e.type
      BY <3>2, Kinds
    <3> QED
      BY <3>1, <3>2, <3>3, OfReport
  <2>3. \A e \in EntriesOf(ReportFor(old, new)) : Mirror(e) \in EntriesOf(ReportFor(new, old))
    BY <2>1, <2>2
  <2>4. \A e \in EntriesOf(ReportFor(new, old)) : Mirror(e) \in EntriesOf(ReportFor(old, new)) /\ Mirror(Mirror(e)) = e
    BY <2>1, <2>2
  <2> QED
    BY <2>3, <2>4
<1> QED
  BY <1>1, Always, PTL

\* Every path of either project is told at exactly one position of the report
\* unless it is in both without a difference, and the order of the report is
\* determined: detectMovesForType rewrites and erases by index over the whole
\* vector and hits the right entries (diff_moves.hpp:80-125,
\* diff_report.hpp:61-62).
THEOREM EveryPathAlwaysToldOnce == Spec => []EveryPathToldOnce
<1>1. ASSUME IInv PROVE EveryPathToldOnce
  <2> SUFFICES ASSUME pc = "done", NEW t \in Types
               PROVE  LET o == indexByPath(old, t)  n == indexByPath(new, t) IN
                      /\ \A i, j \in DOMAIN sorted : i < j => Before(sorted[i], sorted[j])
                      /\ \A p \in DOMAIN o :
                            Cardinality({i \in DOMAIN sorted : sorted[i].type = t /\ sorted[i].oldPath = p}) =
                                IF p \in DOMAIN n /\ diffPair(t, o[p], n[p]) = {} THEN 0 ELSE 1
                      /\ \A p \in DOMAIN n :
                            Cardinality({i \in DOMAIN sorted : sorted[i].type = t /\ sorted[i].newPath = p}) =
                                IF p \in DOMAIN o /\ diffPair(t, o[p], n[p]) = {} THEN 0 ELSE 1
    BY Zenon DEF EveryPathToldOnce
  <2> DEFINE o == indexByPath(old, t)
             n == indexByPath(new, t)
  <2>1. old \in Seq(Element) /\ new \in Seq(Element)
    BY <1>1, Projected
  <2>2. Index(o) /\ Index(n)
    BY <2>1, Indexed
  <2>3. Report = EntriesOf(ReportFor(old, new)) /\ OneToOne(sorted)
    BY <1>1, Reported
  <2>4. \A e : e \in Report /\ e.type = t <=> Says(e, o, n, t)
    BY <2>1, <2>3, OfReport, Kinds
  <2> HIDE DEF o, n
  <2>5. \A i, j \in DOMAIN sorted : i < j => Before(sorted[i], sorted[j])
    <3>1. \A i \in DOMAIN sorted : sorted[i] \in EntriesOf(ReportFor(old, new))
      BY <2>3 DEF Report, EntriesOf
    <3>2. \A i, j \in DOMAIN sorted : i < j => sorted[i] # sorted[j] /\ ~Before(sorted[j], sorted[i])
      BY <1>1, Reported
    <3> QED
      BY <2>1, <3>1, <3>2, Ordered
  <2>6. \A e : (\E i \in DOMAIN sorted : e = sorted[i]) <=> e \in Report
    BY DEF Report, EntriesOf
  <2>7. ASSUME NEW p \in DOMAIN o
        PROVE  Cardinality({i \in DOMAIN sorted : sorted[i].type = t /\ sorted[i].oldPath = p}) =
                   IF p \in DOMAIN n /\ diffPair(t, o[p], n[p]) = {} THEN 0 ELSE 1
    <3> DEFINE P == {i \in DOMAIN sorted : sorted[i].type = t /\ sorted[i].oldPath = p}
    <3>1. p # 0
      BY <2>2 DEF Index
    <3>2. \A i \in P : Says(sorted[i], o, n, t) /\ sorted[i].oldPath = p
      BY <2>4, <2>6
    <3>3. \A i, j \in P : sorted[i] = sorted[j]
      <4> HIDE DEF P
      <4> QED
        BY <2>2, <3>1, <3>2, Once
    <3>4. Cardinality(P) = IF P = {} THEN 0 ELSE 1
      <4>1. P \subseteq DOMAIN sorted
        OBVIOUS
      <4> HIDE DEF P
      <4> QED
        BY <2>3, <3>3, <4>1, Counted
    <3>5. P # {} <=> \E e : Says(e, o, n, t) /\ e.oldPath = p
      BY <2>4, <2>6
    <3>6. (\E e : Says(e, o, n, t) /\ e.oldPath = p) <=> ~Quiet(o, n, t, p)
      BY <2>2, Covered
    <3> HIDE DEF P
    <3>7. Cardinality(P) = IF p \in DOMAIN n /\ diffPair(t, o[p], n[p]) = {} THEN 0 ELSE 1
      BY <3>4, <3>5, <3>6 DEF Quiet
    <3> QED
      BY <3>7 DEF P
  <2>8. ASSUME NEW p \in DOMAIN n
        PROVE  Cardinality({i \in DOMAIN sorted : sorted[i].type = t /\ sorted[i].newPath = p}) =
                   IF p \in DOMAIN o /\ diffPair(t, o[p], n[p]) = {} THEN 0 ELSE 1
    <3> DEFINE P == {i \in DOMAIN sorted : sorted[i].type = t /\ sorted[i].newPath = p}
    <3>1. p # 0
      BY <2>2 DEF Index
    <3>2. \A i \in P : Says(sorted[i], o, n, t) /\ sorted[i].newPath = p
      BY <2>4, <2>6
    <3>3. \A i, j \in P : sorted[i] = sorted[j]
      <4> HIDE DEF P
      <4> QED
        BY <2>2, <3>1, <3>2, Once
    <3>4. Cardinality(P) = IF P = {} THEN 0 ELSE 1
      <4>1. P \subseteq DOMAIN sorted
        OBVIOUS
      <4> HIDE DEF P
      <4> QED
        BY <2>3, <3>3, <4>1, Counted
    <3>5. P # {} <=> \E e : Says(e, o, n, t) /\ e.newPath = p
      BY <2>4, <2>6
    <3>6. (\E e : Says(e, o, n, t) /\ e.newPath = p) <=> ~Quiet(o, n, t, p)
      BY <2>2, Covered
    <3> HIDE DEF P
    <3>7. Cardinality(P) = IF p \in DOMAIN o /\ diffPair(t, o[p], n[p]) = {} THEN 0 ELSE 1
      BY <3>4, <3>5, <3>6 DEF Quiet
    <3> QED
      BY <3>7 DEF P
  <2> QED
    BY <2>5, <2>7, <2>8 DEF o, n
<1> QED
  BY <1>1, Always, PTL

================================================================================
