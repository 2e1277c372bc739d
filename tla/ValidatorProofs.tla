------------------------------ MODULE ValidatorProofs ------------------------------
(***************************************************************************)
(* The loader reads a file exactly as its lexemes say, whatever stands     *)
(* between its tags, and what the validator says of the trees is true.     *)
(***************************************************************************)
EXTENDS Validator, WellFoundedInduction, FiniteSetTheorems, TLAPS

--------------------------------------------------------------------------------
(* Numbers *)

LEMMA Least == ASSUME NEW S, S \subseteq Nat, S # {} PROVE \E x \in S : \A y \in S : x <= y
<1>1. IsWellFoundedOn(OpToRel(<, Nat), Nat)
  BY NatLessThanWellFounded
<1>2. PICK x \in S : \A y \in S : ~ (<<y, x>> \in OpToRel(<, Nat))
  BY <1>1, WFMin
<1>3. ASSUME NEW y \in S PROVE x <= y
  <2>1. ~ (<<y, x>> \in OpToRel(<, Nat))
    BY <1>2
  <2>2. y \in Nat /\ x \in Nat
    OBVIOUS
  <2>3. ~ (y < x)
    BY <2>1, <2>2 DEF OpToRel
  <2> QED
    BY <2>2, <2>3
<1> QED
  BY <1>2, <1>3

\* Induction up to n, on a set.
LEMMA Turns ==
    ASSUME NEW n \in Nat, NEW P, 0 \in P, \A i \in 1..n : i - 1 \in P => i \in P
    PROVE  0..n \subseteq P
<1> DEFINE Q == (0..n) \ P
<1> SUFFICES ASSUME Q # {} PROVE FALSE
  OBVIOUS
<1>0. Q \subseteq Nat /\ \A y \in Q : y \in 0..n /\ y \notin P
  OBVIOUS
<1>1. PICK x \in Q : \A y \in Q : x <= y
  <2> HIDE DEF Q
  <2> QED BY <1>0, Least
<1>2. x # 0 /\ x \in 1..n /\ x - 1 \in 0..n
  BY <1>0
<1>3. x - 1 \in P
  BY <1>1, <1>2
<1> QED
  BY <1>1, <1>2, <1>3

\* Induction from n down to m, on a set.
LEMMA TurnsDown ==
    ASSUME NEW m \in Nat, NEW n \in Nat, m <= n, NEW P, n \in P,
           \A i \in m..(n - 1) : i + 1 \in P => i \in P
    PROVE  m..n \subseteq P
<1> DEFINE Q == {i \in 0..(n - m) : n - i \in P}
<1>1. 0 \in Q
  OBVIOUS
<1>2. ASSUME NEW i \in 1..(n - m), i - 1 \in Q PROVE i \in Q
  <2>1. n - i \in m..(n - 1) /\ (n - i) + 1 = n - (i - 1) /\ n - (i - 1) \in P
    BY <1>2
  <2> QED BY <2>1
<1>3. 0..(n - m) \subseteq Q
  <2> HIDE DEF Q
  <2>1. n - m \in Nat
    OBVIOUS
  <2> QED BY <1>1, <1>2, <2>1, Turns
<1>4. ASSUME NEW i \in m..n PROVE i \in P
  <2>1. n - i \in 0..(n - m) /\ n - (n - i) = i
    OBVIOUS
  <2> QED BY <1>3, <2>1
<1> QED
  BY <1>4

LEMMA LeastIs ==
    ASSUME NEW S, NEW x \in S, S \subseteq Int, \A y \in S : x <= y
    PROVE  Min(S) = x
<1>1. Min(S) \in S /\ \A y \in S : Min(S) <= y
  BY DEF Min
<1>2. Min(S) <= x /\ x <= Min(S) /\ Min(S) \in Int /\ x \in Int
  BY <1>1
<1> HIDE DEF Min
<1> QED
  BY <1>2

LEMMA FirstIs ==
    ASSUME NEW S, NEW x \in S, S \subseteq Int, \A y \in S : x <= y
    PROVE  First(S) = x
BY LeastIs DEF First

LEMMA FirstIn ==
    ASSUME NEW S, S \subseteq Nat
    PROVE  /\ S = {} => First(S) = Fail
           /\ S # {} => First(S) \in S /\ \A y \in S : First(S) <= y
<1>1. CASE S = {}
  BY <1>1 DEF First
<1>2. CASE S # {}
  <2>1. PICK x \in S : \A y \in S : x <= y
    BY <1>2, Least
  <2>2. S \subseteq Int
    OBVIOUS
  <2>3. First(S) = x
    BY <2>1, <2>2, FirstIs
  <2> QED BY <1>2, <2>1, <2>3
<1> QED
  BY <1>1, <1>2

--------------------------------------------------------------------------------
(* Recursive functions *)

\* A function on 1..m, or on 0..n, whose values each follow from the one before.
Chain(g, m, b, G) == g[1] = b /\ \A k \in 2..m : g[k] = G[<<k - 1, g[k - 1]>>]
Chain0(g, n, b, G) == g[0] = b /\ \A k \in 1..n : g[k] = G[<<k, g[k - 1]>>]

LEMMA ChainDefined ==
    ASSUME NEW m \in Nat, m >= 1, NEW V, NEW b \in V, NEW G \in [(1..(m - 1)) \X V -> V]
    PROVE  \E g \in [1..m -> V] : Chain(g, m, b, G)
<1> DEFINE Solves(g, i) == g[1] = b /\ \A k \in 2..i : g[k] = G[<<k - 1, g[k - 1]>>]
           Solved(i) == i = 0 \/ \E g \in [1..i -> V] : Solves(g, i)
           P == {i \in 0..m : Solved(i)}
<1>1. 0 \in P
  OBVIOUS
<1>2. ASSUME NEW i \in 1..m, Solved(i - 1) PROVE Solved(i)
  <2>1. CASE i = 1
    <3>1. [k \in 1..1 |-> b] \in [1..1 -> V] /\ Solves([k \in 1..1 |-> b], 1)
      OBVIOUS
    <3> QED BY <2>1, <3>1
  <2>2. CASE i # 1
    <3>1. PICK g \in [1..(i - 1) -> V] : Solves(g, i - 1)
      BY <1>2, <2>2
    <3> DEFINE h == [k \in 1..i |-> IF k = i THEN G[<<i - 1, g[i - 1]>>] ELSE g[k]]
    <3>2. i - 1 \in 1..(m - 1) /\ i - 1 \in 1..(i - 1) /\ g[i - 1] \in V
      BY <2>2
    <3>3. G[<<i - 1, g[i - 1]>>] \in V
      BY <3>2
    <3>4. h \in [1..i -> V]
      <4>1. ASSUME NEW k \in 1..i PROVE (IF k = i THEN G[<<i - 1, g[i - 1]>>] ELSE g[k]) \in V
        <5>1. k # i => k \in 1..(i - 1)
          OBVIOUS
        <5> QED BY <3>3, <5>1
      <4> QED BY <4>1
    <3>5. \A k \in 1..(i - 1) : h[k] = g[k]
      OBVIOUS
    <3>6. h[i] = G[<<i - 1, h[i - 1]>>]
      <4>1. i \in 1..i /\ h[i] = G[<<i - 1, g[i - 1]>>]
        OBVIOUS
      <4> HIDE DEF h
      <4> QED BY <3>2, <3>5, <4>1
    <3>7. ASSUME NEW k \in 2..i PROVE h[k] = G[<<k - 1, h[k - 1]>>]
      <4>1. k = i \/ (k \in 2..(i - 1) /\ k \in 1..(i - 1) /\ k - 1 \in 1..(i - 1))
        OBVIOUS
      <4> HIDE DEF h
      <4> QED BY <3>1, <3>5, <3>6, <4>1
    <3>8. h[1] = b
      <4>1. 1 \in 1..(i - 1)
        BY <2>2
      <4> HIDE DEF h
      <4> QED BY <3>1, <3>5, <4>1
    <3> HIDE DEF h
    <3>9. Solves(h, i)
      BY <3>7, <3>8
    <3> QED BY <3>4, <3>9
  <2> QED BY <2>1, <2>2
<1>3. Solved(m)
  <2> HIDE DEF Solved
  <2>1. \A i \in 1..m : i - 1 \in P => i \in P
    BY <1>2
  <2>2. 0..m \subseteq P
    <3> HIDE DEF P
    <3> QED BY <1>1, <2>1, Turns
  <2> QED BY <2>2
<1> QED
  BY <1>3 DEF Chain

LEMMA ChainFromZero ==
    ASSUME NEW n \in Nat, NEW V, NEW b \in V, NEW G \in [(1..n) \X V -> V]
    PROVE  \E g \in [0..n -> V] : Chain0(g, n, b, G)
<1>0. PICK m : m = n + 1
  OBVIOUS
<1>1. m \in Nat /\ m >= 1 /\ m - 1 = n
  BY <1>0
<1>a. PICK g \in [1..m -> V] : Chain(g, m, b, G)
  <2>1. G \in [(1..(m - 1)) \X V -> V]
    BY <1>1
  <2> QED BY <1>1, <2>1, ChainDefined
<1>2. g \in [1..(n + 1) -> V] /\ g[1] = b /\ \A k \in 2..(n + 1) : g[k] = G[<<k - 1, g[k - 1]>>]
  BY <1>0, <1>a DEF Chain
<1> DEFINE h == [k \in 0..n |-> g[k + 1]]
<1>3. \A k \in 0..n : k + 1 \in 1..(n + 1) /\ h[k] = g[k + 1]
  OBVIOUS
<1>4. h \in [0..n -> V]
  BY <1>2, <1>3
<1>5. h[0] = b
  BY <1>2, <1>3
<1>6. ASSUME NEW k \in 1..n PROVE h[k] = G[<<k, h[k - 1]>>]
  <2>1. k + 1 \in 2..(n + 1) /\ (k + 1) - 1 = k /\ k \in 0..n /\ k - 1 \in 0..n /\ (k - 1) + 1 = k
    OBVIOUS
  <2>2. h[k] = g[k + 1] /\ h[k - 1] = g[k]
    BY <1>3, <2>1
  <2>3. g[k + 1] = G[<<k, g[k]>>]
    BY <1>2, <2>1
  <2> QED BY <2>2, <2>3
<1> HIDE DEF h
<1> QED
  BY <1>4, <1>5, <1>6 DEF Chain0

\* FlattenSeq, from the front.
Flat(F, s) ==
    /\ F[0] = <<>> /\ \A k \in 1..Len(s) : F[k] = F[k - 1] \o s[k]
    /\ \A k \in 0..Len(s) : FlattenSeq(SubSeq(s, 1, k)) = F[k]
    /\ FlattenSeq(s) = F[Len(s)]

LEMMA Flattened ==
    ASSUME NEW T, NEW s \in Seq(Seq(T))
    PROVE  \E F \in [0..Len(s) -> Seq(T)] : Flat(F, s)
<1> DEFINE n == Len(s)
           G == [x \in (1..n) \X Seq(T) |-> x[2] \o s[x[1]]]
<1>1. n \in Nat /\ <<>> \in Seq(T) /\ \A k \in 1..n : s[k] \in Seq(T)
  OBVIOUS
<1>2. G \in [(1..n) \X Seq(T) -> Seq(T)]
  <2>1. ASSUME NEW x \in (1..n) \X Seq(T) PROVE x[2] \o s[x[1]] \in Seq(T)
    BY <1>1
  <2> QED BY <2>1
<1>3. PICK F \in [0..n -> Seq(T)] : Chain0(F, n, <<>>, G)
  <2> HIDE DEF n, G
  <2> QED BY <1>1, <1>2, ChainFromZero
<1>4. F[0] = <<>> /\ \A k \in 1..n : F[k] = F[k - 1] \o s[k]
  <2>1. ASSUME NEW k \in 1..n PROVE <<k, F[k - 1]>> \in (1..n) \X Seq(T) /\ G[<<k, F[k - 1]>>] = F[k - 1] \o s[k]
    <3>1. k - 1 \in 0..n
      OBVIOUS
    <3>2. F[k - 1] \in Seq(T)
      BY <3>1
    <3> HIDE DEF n
    <3> QED BY <3>2
  <2> HIDE DEF G
  <2> QED BY <1>3, <2>1 DEF Chain0
<1>5. ASSUME NEW k \in 1..n, NEW t \in Seq(Seq(T)), Len(t) = k, \A i \in 1..k : t[i] = s[i]
      PROVE  FlattenSeq(t) = F[k]
  <2> DEFINE Eq(fl) == fl = [i \in 1..k |-> IF i = 1 THEN t[i] ELSE fl[i - 1] \o t[i]]
             new == [i \in 1..k |-> F[i]]
  <2>1. FlattenSeq(t) = (CHOOSE fl : Eq(fl))[k]
    BY <1>5 DEF FlattenSeq
  <2>2. \A i \in 1..k : i \in 0..n /\ i \in 1..n /\ (i # 1 => i - 1 \in 1..k) /\ i - 1 \in 0..n
    OBVIOUS
  <2>3. \A i \in 1..k : F[i] = IF i = 1 THEN t[i] ELSE new[i - 1] \o t[i]
    <3>1. F[1] = t[1]
      <4>0. 1 \in 1..n /\ 1 \in 1..k /\ 1 - 1 = 0
        OBVIOUS
      <4>1. F[1] = F[0] \o s[1]
        BY <1>4, <4>0
      <4>2. s[1] \in Seq(T)
        BY <1>1, <4>0
      <4>3. <<>> \o s[1] = s[1]
        BY <4>2
      <4> QED BY <1>4, <1>5, <4>0, <4>1, <4>3
    <3>2. ASSUME NEW i \in 1..k, i # 1 PROVE F[i] = new[i - 1] \o t[i]
      <4>1. i - 1 \in 1..k /\ F[i] = F[i - 1] \o s[i]
        BY <1>4, <2>2, <3>2
      <4>2. new[i - 1] = F[i - 1]
        BY <4>1
      <4> HIDE DEF new
      <4> QED BY <1>5, <4>1, <4>2
    <3> HIDE DEF new
    <3> QED BY <3>1, <3>2
  <2>4. Eq(new)
    BY <2>3, Zenon
  <2> DEFINE fl == CHOOSE f : Eq(f)
  <2>5. Eq(fl)
    <3> HIDE DEF Eq, new
    <3> QED BY <2>4
  <2>6. \A i \in 1..k : fl[i] = IF i = 1 THEN t[i] ELSE fl[i - 1] \o t[i]
    <3> HIDE DEF fl
    <3> QED BY <2>5
  <2> DEFINE P == {i \in 0..k : i = 0 \/ fl[i] = F[i]}
  <2>7. ASSUME NEW i \in 1..k, i - 1 \in P PROVE i \in P
    <3> HIDE DEF fl
    <3>1. CASE i = 1
      <4> HIDE DEF new
      <4>1. F[i] = t[i]
        BY <2>3, <3>1
      <4>2. fl[i] = t[i]
        BY <2>6, <3>1
      <4> QED BY <4>1, <4>2
    <3>2. CASE i # 1
      <4>1. i - 1 \in 1..k /\ fl[i - 1] = F[i - 1] /\ new[i - 1] = F[i - 1]
        BY <2>7, <3>2
      <4> HIDE DEF new
      <4>2. fl[i] = F[i]
        BY <2>3, <2>6, <3>2, <4>1
      <4> QED BY <4>2
    <3> QED BY <3>1, <3>2
  <2>8. k \in P
    <3> HIDE DEF fl
    <3>a. 0 \in P /\ k \in Nat
      OBVIOUS
    <3> HIDE DEF P
    <3>1. \A i \in 1..k : i - 1 \in P => i \in P
      BY <2>7
    <3>2. 0..k \subseteq P
      BY <3>a, <3>1, Turns
    <3> QED BY <3>2
  <2>9. fl[k] = F[k]
    BY <2>8
  <2> QED BY <2>1, <2>9
<1>6. FlattenSeq(s) = F[n]
  <2>1. CASE n = 0
    <3>1. s = <<>> /\ FlattenSeq(s) = s
      BY <2>1 DEF FlattenSeq
    <3> QED BY <1>4, <2>1, <3>1
  <2>2. CASE n # 0
    <3>1. n \in 1..n
      BY <2>2
    <3> QED BY <1>5, <3>1
  <2> QED BY <2>1, <2>2
<1>7. ASSUME NEW k \in 0..n PROVE FlattenSeq(SubSeq(s, 1, k)) = F[k]
  <2> DEFINE t == SubSeq(s, 1, k)
  <2>1. t \in Seq(Seq(T)) /\ Len(t) = k /\ \A i \in 1..k : t[i] = s[i]
    OBVIOUS
  <2>2. CASE k = 0
    <3>1. t = <<>>
      BY <2>1, <2>2
    <3>2. FlattenSeq(t) = t
      BY <2>1, <2>2 DEF FlattenSeq
    <3> QED BY <1>4, <2>2, <3>1, <3>2
  <2>3. CASE k # 0
    <3>1. k \in 1..n
      BY <2>3
    <3> HIDE DEF t
    <3>2. FlattenSeq(t) = F[k]
      BY <1>5, <2>1, <3>1
    <3> QED BY <3>2 DEF t
  <2> QED BY <2>2, <2>3
<1> QED
  BY <1>4, <1>6, <1>7 DEF Flat

LEMMA ChainTyped ==
    ASSUME NEW m \in Nat, m >= 1, NEW V, NEW b \in V, NEW G \in [(1..(m - 1)) \X V -> V],
           NEW f, f = [k \in 1..m |-> f[k]], Chain(f, m, b, G)
    PROVE  f \in [1..m -> V]
<1> DEFINE P == {k \in 0..m : k = 0 \/ f[k] \in V}
<1>1. ASSUME NEW i \in 1..m, i - 1 \in P PROVE i \in P
  <2>1. CASE i = 1
    <3>1. f[i] = b
      BY <2>1 DEF Chain
    <3> QED BY <3>1
  <2>2. CASE i # 1
    <3>1. i \in 2..m /\ i - 1 \in 1..(m - 1) /\ f[i - 1] \in V
      BY <1>1, <2>2
    <3>2. f[i] = G[<<i - 1, f[i - 1]>>]
      BY <3>1 DEF Chain
    <3>3. <<i - 1, f[i - 1]>> \in (1..(m - 1)) \X V
      BY <3>1
    <3>4. f[i] \in V
      BY <3>2, <3>3
    <3> QED BY <3>4
  <2> QED BY <2>1, <2>2
<1>2. 0..m \subseteq P
  <2>1. 0 \in P
    OBVIOUS
  <2> HIDE DEF P
  <2> QED BY <1>1, <2>1, Turns
<1>3. ASSUME NEW k \in 1..m PROVE f[k] \in V
  <2>1. k \in 0..m /\ k # 0
    OBVIOUS
  <2>2. k \in P
    <3> HIDE DEF P
    <3> QED BY <1>2, <2>1
  <2> QED BY <2>1, <2>2
<1> QED
  BY <1>3

LEMMA Chain0Typed ==
    ASSUME NEW n \in Nat, NEW V, NEW b \in V, NEW G \in [(1..n) \X V -> V],
           NEW f, f = [k \in 0..n |-> f[k]], Chain0(f, n, b, G)
    PROVE  f \in [0..n -> V]
<1> DEFINE P == {k \in 0..n : f[k] \in V}
<1>1. ASSUME NEW i \in 1..n, i - 1 \in P PROVE i \in P
  <2>1. i - 1 \in 0..n /\ f[i - 1] \in V
    BY <1>1
  <2>2. f[i] = G[<<i, f[i - 1]>>]
    BY DEF Chain0
  <2>3. <<i, f[i - 1]>> \in (1..n) \X V
    BY <2>1
  <2>4. f[i] \in V
    BY <2>2, <2>3
  <2> QED BY <2>4
<1>2. 0..n \subseteq P
  <2>1. 0 \in P
    BY DEF Chain0
  <2> HIDE DEF P
  <2> QED BY <1>1, <2>1, Turns
<1>3. \A k \in 0..n : f[k] \in V
  BY <1>2
<1> QED
  BY <1>3

--------------------------------------------------------------------------------
(* Documents *)

LEMMA DocumentTyped ==
    ASSUME NEW d, IsDocument(d)
    PROVE  /\ d.form.width \in {"single", "le", "be"} /\ d.form.bom \in BOOLEAN
           /\ Len(d.lexemes) \in Nat /\ DOMAIN d.lexemes = 1..Len(d.lexemes)
           /\ \A k \in 1..Len(d.lexemes) :
                 /\ IsLexeme(d.lexemes[k])
                 /\ d.lexemes[k].kind \in Kinds /\ d.lexemes[k].units \in Seq(STRING)
                 /\ d.lexemes[k].tag \in Seq(STRING) /\ d.lexemes[k].dest \in Seq(STRING)
                 /\ d.lexemes[k].text \in Seq(STRING)
<1>1. d.form \in [width : {"single", "le", "be"}, bom : BOOLEAN]
      /\ d.lexemes \in Seq(Lexemes) /\ \A k \in DOMAIN d.lexemes : IsLexeme(d.lexemes[k])
  BY Zenon DEF IsDocument
<1>2. Len(d.lexemes) \in Nat /\ DOMAIN d.lexemes = 1..Len(d.lexemes)
      /\ \A k \in 1..Len(d.lexemes) : d.lexemes[k] \in Lexemes
  <2> DEFINE L == d.lexemes
  <2>1. L \in Seq(Lexemes)
    BY <1>1
  <2> HIDE DEF L
  <2>2. Len(L) \in Nat /\ DOMAIN L = 1..Len(L) /\ \A k \in 1..Len(L) : L[k] \in Lexemes
    BY <2>1
  <2> QED BY <2>2 DEF L
<1>3. \A l \in Lexemes : /\ l.kind \in Kinds /\ l.units \in Seq(STRING) /\ l.tag \in Seq(STRING)
                         /\ l.dest \in Seq(STRING) /\ l.text \in Seq(STRING)
  BY DEF Lexemes
<1>4. d.form.width \in {"single", "le", "be"} /\ d.form.bom \in BOOLEAN
  BY <1>1
<1> QED
  BY <1>1, <1>2, <1>3, <1>4, Zenon

LEMMA PlaceSteps ==
    ASSUME NEW d, IsDocument(d)
    PROVE  /\ Place(d) \in [1..(Len(d.lexemes) + 1) -> Nat] /\ Place(d)[1] = 0
           /\ \A k \in 1..Len(d.lexemes) : Place(d)[k + 1] = Place(d)[k] + Len(d.lexemes[k].units)
<1> DEFINE n == Len(d.lexemes)
           m == n + 1
           size == [k \in 1..n |-> Len(d.lexemes[k].units)]
           G == [x \in (1..(m - 1)) \X Nat |-> x[2] + size[x[1]]]
           Eq(f) == f = [k \in 1..m |-> IF k = 1 THEN 0 ELSE f[k - 1] + Len(d.lexemes[k - 1].units)]
<1>1. n \in Nat /\ m \in Nat /\ m >= 1 /\ m - 1 = n /\ 0 \in Nat
  BY DocumentTyped
<1>2. size \in [1..n -> Nat] /\ \A k \in 1..n : size[k] = Len(d.lexemes[k].units)
  <2>1. ASSUME NEW k \in 1..n PROVE Len(d.lexemes[k].units) \in Nat
    <3>1. d.lexemes[k].units \in Seq(STRING)
      BY DocumentTyped
    <3> QED BY <3>1
  <2> HIDE DEF n
  <2> QED BY <2>1
<1> HIDE DEF size
<1>3. G \in [(1..(m - 1)) \X Nat -> Nat]
  <2>1. ASSUME NEW x \in (1..(m - 1)) \X Nat PROVE x[2] + size[x[1]] \in Nat
    BY <1>1, <1>2
  <2> QED BY <2>1
<1>4. \A k \in 1..n, y \in Nat : G[<<k, y>>] = y + size[k]
  BY <1>1
<1>5. PICK g \in [1..m -> Nat] : Chain(g, m, 0, G)
  <2> HIDE DEF n, m, G
  <2> QED BY <1>1, <1>3, ChainDefined
<1> HIDE DEF G
<1>6. \A k \in 2..m : k - 1 \in 1..n /\ k - 1 \in 1..m /\ k \in 1..m
  BY <1>1
<1>7. \A k \in 1..m : k = 1 \/ k \in 2..m
  BY <1>1
<1>8. Eq(g)
  <2>1. \A k \in 1..m : g[k] = IF k = 1 THEN 0 ELSE g[k - 1] + Len(d.lexemes[k - 1].units)
    <3>1. g[1] = 0
      BY <1>5, Zenon DEF Chain
    <3>2. ASSUME NEW k \in 2..m PROVE g[k] = g[k - 1] + size[k - 1]
      <4>1. g[k] = G[<<k - 1, g[k - 1]>>]
        BY <1>5, Zenon DEF Chain
      <4>2. g[k - 1] \in Nat
        BY <1>5, <1>6
      <4> HIDE DEF m, n
      <4> QED BY <1>4, <1>6, <4>1, <4>2
    <3> HIDE DEF m, n
    <3> QED BY <1>2, <1>6, <1>7, <3>1, <3>2
  <2> HIDE DEF m, n
  <2> QED BY <1>5, <2>1
<1>9. Place(d) = CHOOSE f : Eq(f)
  BY DEF Place
<1>10. Eq(Place(d))
  <2> HIDE DEF Eq
  <2> QED BY <1>8, <1>9
<1> DEFINE P == {k \in 0..m : k = 0 \/ Place(d)[k] \in Nat}
<1>11. \A k \in 1..m : Place(d)[k] = IF k = 1 THEN 0 ELSE Place(d)[k - 1] + size[k - 1]
  <2> HIDE DEF m, n
  <2>1. \A k \in 1..m : Place(d)[k] = IF k = 1 THEN 0 ELSE Place(d)[k - 1] + Len(d.lexemes[k - 1].units)
    BY <1>10
  <2> QED BY <1>2, <1>6, <1>7, <2>1
<1>12. 0..m \subseteq P
  <2>1. 0 \in P
    BY <1>1
  <2>2. ASSUME NEW i \in 1..m, i - 1 \in P PROVE i \in P
    <3>1. CASE i = 1
      BY <1>11, <3>1
    <3>2. CASE i # 1
      <4>1. i \in 2..m /\ i - 1 \in 1..n /\ Place(d)[i - 1] \in Nat
        BY <1>1, <2>2, <3>2
      <4>2. size[i - 1] \in Nat
        BY <1>2, <4>1
      <4> HIDE DEF m, n
      <4>3. Place(d)[i] \in Nat
        BY <1>11, <3>2, <4>1, <4>2
      <4> QED BY <4>3
    <3> QED BY <3>1, <3>2
  <2> HIDE DEF P, m
  <2> QED BY <1>1, <2>1, <2>2, Turns
<1>13. \A k \in 1..m : Place(d)[k] \in Nat
  BY <1>12
<1>14. Place(d) \in [1..m -> Nat]
  <2> HIDE DEF m
  <2>1. Place(d) = [k \in 1..m |-> Place(d)[k]]
    BY <1>10
  <2> QED BY <1>13, <2>1
<1>15. ASSUME NEW k \in 1..n PROVE Place(d)[k + 1] = Place(d)[k] + Len(d.lexemes[k].units)
  <2>1. k + 1 \in 1..m /\ k + 1 # 1 /\ (k + 1) - 1 = k
    BY <1>1
  <2> HIDE DEF m, n
  <2> QED BY <1>2, <1>11, <2>1
<1>16. Place(d)[1] = 0
  <2>1. 1 \in 1..m
    BY <1>1
  <2> QED BY <1>11, <2>1
<1> QED
  BY <1>14, <1>15, <1>16

LEMMA OpenSteps ==
    ASSUME NEW d, IsDocument(d)
    PROVE  /\ Opened(d.lexemes) \in [1..(Len(d.lexemes) + 1) -> Seq(Nat)] /\ Opened(d.lexemes)[1] = <<>>
           /\ \A k \in 1..Len(d.lexemes) :
                 Opened(d.lexemes)[k + 1] = OpenAfter(d.lexemes, k, Opened(d.lexemes)[k])
<1> DEFINE L == d.lexemes
           n == Len(L)
           m == n + 1
           G == [x \in (1..(m - 1)) \X Seq(Nat) |-> OpenAfter(L, x[1], x[2])]
           Eq(f) == f = [k \in 1..m |-> IF k = 1 THEN <<>> ELSE OpenAfter(L, k - 1, f[k - 1])]
<1>1. n \in Nat /\ m \in Nat /\ m >= 1 /\ m - 1 = n /\ <<>> \in Seq(Nat)
  BY DocumentTyped
<1>2. ASSUME NEW k \in 1..n, NEW o \in Seq(Nat) PROVE OpenAfter(L, k, o) \in Seq(Nat)
  <2>1. Ill \in Seq(Nat) /\ Append(o, k) \in Seq(Nat) /\ Front(o) \in Seq(Nat)
    BY <1>1 DEF Ill, Front
  <2> QED BY <2>1, Zenon DEF OpenAfter
<1>3. G \in [(1..(m - 1)) \X Seq(Nat) -> Seq(Nat)]
  <2>1. ASSUME NEW x \in (1..(m - 1)) \X Seq(Nat) PROVE OpenAfter(L, x[1], x[2]) \in Seq(Nat)
    BY <1>1, <1>2
  <2> HIDE DEF m, L
  <2> QED BY <2>1
<1>4. \A k \in 1..n, y \in Seq(Nat) : G[<<k, y>>] = OpenAfter(L, k, y)
  BY <1>1
<1>5. PICK g \in [1..m -> Seq(Nat)] : Chain(g, m, <<>>, G)
  <2> HIDE DEF n, m, G
  <2> QED BY <1>1, <1>3, ChainDefined
<1> HIDE DEF G
<1>6. \A k \in 2..m : k - 1 \in 1..n /\ k - 1 \in 1..m /\ k \in 1..m
  BY <1>1
<1>7. \A k \in 1..m : k = 1 \/ k \in 2..m
  BY <1>1
<1>8. Eq(g)
  <2>1. g[1] = <<>>
    BY <1>5, Zenon DEF Chain
  <2>2. ASSUME NEW k \in 2..m PROVE g[k] = OpenAfter(L, k - 1, g[k - 1])
    <3>1. g[k] = G[<<k - 1, g[k - 1]>>]
      BY <1>5, Zenon DEF Chain
    <3>2. g[k - 1] \in Seq(Nat)
      BY <1>5, <1>6
    <3> HIDE DEF m, n, L
    <3> QED BY <1>4, <1>6, <3>1, <3>2
  <2>3. \A k \in 1..m : g[k] = IF k = 1 THEN <<>> ELSE OpenAfter(L, k - 1, g[k - 1])
    <3> HIDE DEF m, n, L
    <3> QED BY <1>7, <2>1, <2>2
  <2> HIDE DEF m, n, L
  <2> QED BY <1>5, <2>3
<1>9. Opened(L) = CHOOSE f : Eq(f)
  BY DEF Opened
<1>10. Eq(Opened(L))
  <2> HIDE DEF Eq
  <2> QED BY <1>8, <1>9
<1> DEFINE O == Opened(L)
<1>11. O = [k \in 1..m |-> O[k]] /\ O[1] = <<>> /\ \A k \in 2..m : O[k] = OpenAfter(L, k - 1, O[k - 1])
  <2>1. 1 \in 1..m /\ \A k \in 2..m : k \in 1..m /\ k # 1
    BY <1>1
  <2>2. O = [k \in 1..m |-> IF k = 1 THEN <<>> ELSE OpenAfter(L, k - 1, O[k - 1])]
    BY <1>10
  <2> HIDE DEF m, n, L, O
  <2> QED BY <2>1, <2>2
<1> HIDE DEF O
<1> DEFINE P == {k \in 0..m : k = 0 \/ O[k] \in Seq(Nat)}
<1>12. ASSUME NEW k \in 1..m PROVE O[k] \in Seq(Nat)
  <2>1. 0 \in P
    BY <1>1
  <2>2. ASSUME NEW i \in 1..m, i - 1 \in P PROVE i \in P
    <3>1. i = 1 \/ (i \in 2..m /\ i - 1 \in 1..n /\ O[i - 1] \in Seq(Nat))
      BY <1>1, <2>2
    <3> HIDE DEF n, m, L
    <3>2. O[i] \in Seq(Nat)
      BY <1>1, <1>2, <1>11, <3>1
    <3> QED BY <3>2
  <2>3. 0..m \subseteq P
    <3> HIDE DEF P, m
    <3> QED BY <1>1, <2>1, <2>2, Turns
  <2>4. k \in 0..m /\ k # 0
    BY <1>1
  <2>5. k \in P
    <3> HIDE DEF P, m
    <3> QED BY <2>3, <2>4
  <2> QED BY <2>4, <2>5
<1>13. O \in [1..m -> Seq(Nat)]
  <2> HIDE DEF m
  <2> QED BY <1>11, <1>12
<1>14. ASSUME NEW k \in 1..n PROVE O[k + 1] = OpenAfter(L, k, O[k])
  <2>1. k + 1 \in 2..m /\ (k + 1) - 1 = k
    BY <1>1
  <2> HIDE DEF m, n, L
  <2> QED BY <1>11, <2>1
<1> QED
  BY <1>11, <1>13, <1>14, Zenon DEF O

QuoteStates == Quotes \cup {Unquoted}

LEMMA QuoteSteps ==
    ASSUME NEW u \in Seq(STRING)
    PROVE  /\ QuoteAt(u) \in [0..Len(u) -> QuoteStates] /\ QuoteAt(u)[0] = Unquoted
           /\ \A k \in 1..Len(u) : QuoteAt(u)[k] = QuoteAfter(QuoteAt(u)[k - 1], u[k])
<1> DEFINE n == Len(u)
           G == [x \in (1..n) \X QuoteStates |-> QuoteAfter(x[2], u[x[1]])]
           Eq(f) == f = [k \in 0..n |-> IF k = 0 THEN Unquoted ELSE QuoteAfter(f[k - 1], u[k])]
<1>0. Unquoted \in QuoteStates
  BY DEF QuoteStates
<1>a. n \in Nat /\ \A k \in 1..n : u[k] \in STRING
  OBVIOUS
<1>1. n \in Nat /\ Unquoted \in QuoteStates /\ \A k \in 1..n : u[k] \in STRING
  BY <1>0, <1>a, Zenon
<1>2. ASSUME NEW k \in 1..n, NEW q \in QuoteStates PROVE QuoteAfter(q, u[k]) \in QuoteStates
  BY <1>1 DEF QuoteAfter, QuoteStates
<1>3. G \in [(1..n) \X QuoteStates -> QuoteStates]
  <2>1. ASSUME NEW x \in (1..n) \X QuoteStates PROVE QuoteAfter(x[2], u[x[1]]) \in QuoteStates
    BY <1>2
  <2> HIDE DEF n
  <2> QED BY <2>1
<1>4. \A k \in 1..n, y \in QuoteStates : G[<<k, y>>] = QuoteAfter(y, u[k])
  OBVIOUS
<1>5. PICK g \in [0..n -> QuoteStates] : Chain0(g, n, Unquoted, G)
  <2> HIDE DEF n, G
  <2> QED BY <1>1, <1>3, ChainFromZero
<1> HIDE DEF G
<1>6. \A k \in 1..n : k - 1 \in 0..n /\ k \in 0..n /\ k # 0
  OBVIOUS
<1>7. \A k \in 0..n : k = 0 \/ k \in 1..n
  OBVIOUS
<1>8. Eq(g)
  <2>1. g[0] = Unquoted
    BY <1>5, Zenon DEF Chain0
  <2>2. ASSUME NEW k \in 1..n PROVE g[k] = QuoteAfter(g[k - 1], u[k])
    <3>1. g[k] = G[<<k, g[k - 1]>>]
      BY <1>5, Zenon DEF Chain0
    <3>2. g[k - 1] \in QuoteStates
      BY <1>5, <1>6
    <3> HIDE DEF n
    <3> QED BY <1>4, <1>6, <3>1, <3>2
  <2>3. \A k \in 0..n : g[k] = IF k = 0 THEN Unquoted ELSE QuoteAfter(g[k - 1], u[k])
    <3> HIDE DEF n
    <3> QED BY <1>7, <2>1, <2>2
  <2> HIDE DEF n
  <2> QED BY <1>5, <2>3
<1>9. QuoteAt(u) = CHOOSE f : Eq(f)
  BY DEF QuoteAt
<1>10. Eq(QuoteAt(u))
  <2> HIDE DEF Eq
  <2> QED BY <1>8, <1>9
<1> DEFINE Q == QuoteAt(u)
<1>11. Q = [k \in 0..n |-> Q[k]] /\ Q[0] = Unquoted /\ \A k \in 1..n : Q[k] = QuoteAfter(Q[k - 1], u[k])
  <2>1. 0 \in 0..n
    <3> HIDE DEF n
    <3> QED BY <1>a
  <2>2. Q = [k \in 0..n |-> IF k = 0 THEN Unquoted ELSE QuoteAfter(Q[k - 1], u[k])]
    BY <1>10
  <2> HIDE DEF n, Q
  <2> QED BY <1>6, <2>1, <2>2
<1> HIDE DEF Q
<1>12. ASSUME NEW k \in 1..n PROVE Q[k] = QuoteAfter(Q[k - 1], u[k])
  BY <1>11
<1> DEFINE P == {k \in 0..n : Q[k] \in QuoteStates}
<1>13. ASSUME NEW k \in 0..n PROVE Q[k] \in QuoteStates
  <2>1. 0 \in P
    <3>1. Q[0] \in QuoteStates
      BY <1>0, <1>11, Zenon
    <3> HIDE DEF n
    <3> QED BY <1>a, <3>1
  <2>2. ASSUME NEW i \in 1..n, i - 1 \in P PROVE i \in P
    <3>1. Q[i - 1] \in QuoteStates /\ i \in 0..n
      BY <2>2
    <3> HIDE DEF n
    <3>2. Q[i] \in QuoteStates
      BY <1>2, <1>12, <3>1
    <3> QED BY <3>1, <3>2
  <2>3. 0..n \subseteq P
    <3> HIDE DEF P, n
    <3> QED BY <1>1, <2>1, <2>2, Turns
  <2>4. k \in P
    <3> HIDE DEF P, n
    <3> QED BY <2>3
  <2> QED BY <2>4
<1>14. Q \in [0..n -> QuoteStates]
  <2> HIDE DEF n
  <2> QED BY <1>11, <1>13
<1> QED
  BY <1>11, <1>12, <1>14, Zenon DEF Q

\* The depth after the k-th unit.
Deeper(u, k, depth) == IF QuoteAt(u)[k - 1] = Unquoted THEN DepthAfter(depth, u[k]) ELSE depth

LEMMA DepthSteps ==
    ASSUME NEW u \in Seq(STRING)
    PROVE  /\ DepthAt(u) \in [0..Len(u) -> Int] /\ DepthAt(u)[0] = 0
           /\ \A k \in 1..Len(u) : DepthAt(u)[k] = Deeper(u, k, DepthAt(u)[k - 1])
<1> DEFINE n == Len(u)
           G == [x \in (1..n) \X Int |-> Deeper(u, x[1], x[2])]
           Eq(f) == f = [k \in 0..n |-> IF k = 0 THEN 0 ELSE Deeper(u, k, f[k - 1])]
<1>1. n \in Nat /\ 0 \in Int
  OBVIOUS
<1>2. ASSUME NEW k \in 1..n, NEW y \in Int PROVE Deeper(u, k, y) \in Int
  BY DEF Deeper, DepthAfter
<1>3. G \in [(1..n) \X Int -> Int]
  <2>1. ASSUME NEW x \in (1..n) \X Int PROVE Deeper(u, x[1], x[2]) \in Int
    BY <1>2
  <2> HIDE DEF n
  <2> QED BY <2>1
<1>4. \A k \in 1..n, y \in Int : G[<<k, y>>] = Deeper(u, k, y)
  OBVIOUS
<1>5. PICK g \in [0..n -> Int] : Chain0(g, n, 0, G)
  <2> HIDE DEF n, G
  <2> QED BY <1>1, <1>3, ChainFromZero
<1> HIDE DEF G
<1>6. \A k \in 1..n : k - 1 \in 0..n /\ k \in 0..n /\ k # 0
  OBVIOUS
<1>7. \A k \in 0..n : k = 0 \/ k \in 1..n
  OBVIOUS
<1>8. Eq(g)
  <2>1. g[0] = 0
    BY <1>5, Zenon DEF Chain0
  <2>2. ASSUME NEW k \in 1..n PROVE g[k] = Deeper(u, k, g[k - 1])
    <3>1. g[k] = G[<<k, g[k - 1]>>]
      BY <1>5, Zenon DEF Chain0
    <3>2. g[k - 1] \in Int
      BY <1>5, <1>6
    <3> HIDE DEF n
    <3> QED BY <1>4, <1>6, <3>1, <3>2
  <2>3. \A k \in 0..n : g[k] = IF k = 0 THEN 0 ELSE Deeper(u, k, g[k - 1])
    <3> HIDE DEF n
    <3> QED BY <1>7, <2>1, <2>2
  <2> HIDE DEF n
  <2> QED BY <1>5, <2>3
<1>9. DepthAt(u) = CHOOSE f : Eq(f)
  BY DEF DepthAt, Deeper
<1>10. Eq(DepthAt(u))
  <2> HIDE DEF Eq
  <2> QED BY <1>8, <1>9
<1> DEFINE D == DepthAt(u)
<1>11. D = [k \in 0..n |-> D[k]] /\ D[0] = 0 /\ \A k \in 1..n : D[k] = Deeper(u, k, D[k - 1])
  <2>1. 0 \in 0..n
    <3> HIDE DEF n
    <3> QED BY <1>1
  <2>2. D = [k \in 0..n |-> IF k = 0 THEN 0 ELSE Deeper(u, k, D[k - 1])]
    BY <1>10
  <2> HIDE DEF n, D
  <2> QED BY <1>6, <2>1, <2>2
<1> HIDE DEF D
<1>12. ASSUME NEW k \in 1..n PROVE D[k] = Deeper(u, k, D[k - 1])
  BY <1>11
<1> DEFINE P == {k \in 0..n : D[k] \in Int}
<1>13. ASSUME NEW k \in 0..n PROVE D[k] \in Int
  <2>1. 0 \in P
    <3>1. D[0] \in Int
      BY <1>11
    <3> HIDE DEF n
    <3> QED BY <1>1, <3>1
  <2>2. ASSUME NEW i \in 1..n, i - 1 \in P PROVE i \in P
    <3>1. D[i - 1] \in Int /\ i \in 0..n
      BY <2>2
    <3> HIDE DEF n
    <3>2. D[i] \in Int
      BY <1>2, <1>12, <3>1
    <3> QED BY <3>1, <3>2
  <2>3. 0..n \subseteq P
    <3> HIDE DEF P, n
    <3> QED BY <1>1, <2>1, <2>2, Turns
  <2>4. k \in P
    <3> HIDE DEF P, n
    <3> QED BY <2>3
  <2> QED BY <2>4
<1>14. D \in [0..n -> Int]
  <2> HIDE DEF n
  <2> QED BY <1>11, <1>13
<1> QED
  BY <1>11, <1>12, <1>14, Zenon DEF D

--------------------------------------------------------------------------------
(* Loops over positions *)

\* Where the loop goes on it goes further, and only before the bound.
Onward(X, Stop, pos, next0, bound) ==
    \A x \in X : x \notin Stop => pos[x] < bound /\ pos[next0[x]] > pos[x]

Loop(g, X, Stop, val, next0) ==
    \A x \in X : g[x] = IF x \in Stop THEN val[x] ELSE g[next0[x]]

LEMMA LoopDefined ==
    ASSUME NEW X, NEW V, NEW Stop, NEW val \in [X -> V], NEW next0 \in [X -> X],
           NEW pos \in [X -> Nat], NEW bound \in Nat, Onward(X, Stop, pos, next0, bound)
    PROVE  \E g \in [X -> V] : Loop(g, X, Stop, val, next0)
<1> DEFINE Solves(g, i) == \A x \in X : pos[x] >= bound - i => g[x] = IF x \in Stop THEN val[x] ELSE g[next0[x]]
           Solved(i) == \E g \in [X -> V] : Solves(g, i)
           P == {i \in 0..bound : Solved(i)}
<1>0. \A x \in X : pos[x] \in Nat /\ next0[x] \in X /\ val[x] \in V /\ pos[next0[x]] \in Nat
  OBVIOUS
<1>1. Solved(0)
  <2>1. ASSUME NEW x \in X, pos[x] >= bound - 0 PROVE x \in Stop
    BY <1>0, <2>1 DEF Onward
  <2>2. Solves(val, 0)
    BY <2>1
  <2> QED BY <2>2
<1>2. ASSUME NEW i \in 1..bound, Solved(i - 1) PROVE Solved(i)
  <2>1. PICK g \in [X -> V] : Solves(g, i - 1)
    BY <1>2
  <2> DEFINE val1(x) == IF pos[x] = bound - i THEN (IF x \in Stop THEN val[x] ELSE g[next0[x]]) ELSE g[x]
             h == [x \in X |-> val1(x)]
  <2>2. h \in [X -> V]
    <3>1. \A x \in X : val1(x) \in V
      BY <1>0, <2>1
    <3> HIDE DEF val1
    <3> QED BY <3>1
  <2>3. \A x \in X : pos[x] # bound - i => h[x] = g[x]
    OBVIOUS
  <2>4. \A x \in X : pos[x] = bound - i => h[x] = IF x \in Stop THEN val[x] ELSE g[next0[x]]
    OBVIOUS
  <2> HIDE DEF h
  <2>5. ASSUME NEW x \in X, pos[x] >= bound - i PROVE h[x] = IF x \in Stop THEN val[x] ELSE h[next0[x]]
    <3>0. pos[x] \in Nat /\ next0[x] \in X /\ pos[next0[x]] \in Nat
      BY <1>0
    <3>1. x \notin Stop => pos[next0[x]] > pos[x]
      BY DEF Onward
    <3>2. x \notin Stop => h[next0[x]] = g[next0[x]]
      BY <2>3, <2>5, <3>0, <3>1
    <3>3. CASE pos[x] = bound - i
      BY <2>4, <3>2, <3>3
    <3>4. CASE pos[x] # bound - i
      <4>1. pos[x] >= bound - (i - 1)
        BY <2>5, <3>0, <3>4
      <4>2. g[x] = IF x \in Stop THEN val[x] ELSE g[next0[x]]
        BY <2>1, <4>1
      <4> QED BY <2>3, <3>2, <3>4, <4>2
    <3> QED BY <3>3, <3>4
  <2> QED BY <2>2, <2>5
<1>3. 0 \in P /\ \A i \in 1..bound : i - 1 \in P => i \in P
  <2> HIDE DEF Solved
  <2> QED BY <1>1, <1>2
<1>4. bound \in P
  <2> HIDE DEF P
  <2>1. 0..bound \subseteq P
    BY <1>3, Turns
  <2> QED BY <2>1
<1>5. PICK g \in [X -> V] : Solves(g, bound)
  BY <1>4
<1>6. Loop(g, X, Stop, val, next0)
  <2>1. \A x \in X : pos[x] >= bound - bound
    BY <1>0
  <2> QED BY <1>5, <2>1 DEF Loop
<1> QED
  BY <1>6

\* A loop ends with the value of some later stop.
Ended(g, X, Stop, val, pos) == \A x \in X : \E y \in X : y \in Stop /\ pos[y] >= pos[x] /\ g[x] = val[y]

LEMMA LoopEnds ==
    ASSUME NEW X, NEW V, NEW Stop, NEW val \in [X -> V], NEW next0 \in [X -> X],
           NEW pos \in [X -> Nat], NEW bound \in Nat, Onward(X, Stop, pos, next0, bound),
           NEW g, Loop(g, X, Stop, val, next0)
    PROVE  Ended(g, X, Stop, val, pos)
<1> DEFINE Ends(x) == \E y \in X : y \in Stop /\ pos[y] >= pos[x] /\ g[x] = val[y]
           P == {i \in 0..bound : \A x \in X : pos[x] >= i => Ends(x)}
<1>0. \A x \in X : pos[x] \in Nat /\ next0[x] \in X /\ pos[next0[x]] \in Nat
  OBVIOUS
<1>1. bound \in P
  <2>1. ASSUME NEW x \in X, pos[x] >= bound PROVE Ends(x)
    <3>1. x \in Stop
      BY <1>0, <2>1 DEF Onward
    <3> QED BY <1>0, <3>1 DEF Loop
  <2> QED BY <2>1
<1>2. ASSUME NEW i \in 0..(bound - 1), i + 1 \in P PROVE i \in P
  <2>1. ASSUME NEW x \in X, pos[x] >= i PROVE Ends(x)
    <3>1. CASE x \in Stop
      BY <1>0, <3>1 DEF Loop
    <3>2. CASE x \notin Stop
      <4>1. pos[next0[x]] > pos[x] /\ g[x] = g[next0[x]] /\ next0[x] \in X
        BY <1>0, <3>2 DEF Loop, Onward
      <4>2. pos[next0[x]] >= i + 1
        BY <1>0, <2>1, <4>1
      <4>3. PICK y \in X : y \in Stop /\ pos[y] >= pos[next0[x]] /\ g[next0[x]] = val[y]
        BY <1>2, <4>1, <4>2
      <4> QED BY <1>0, <4>1, <4>3
    <3> QED BY <3>1, <3>2
  <2> QED BY <2>1
<1>3. 0..bound \subseteq P
  <2>1. 0 \in Nat /\ 0 <= bound
    OBVIOUS
  <2> HIDE DEF P
  <2> QED BY <1>1, <1>2, <2>1, TurnsDown
<1>4. ASSUME NEW x \in X PROVE Ends(x)
  <2>1. 0 \in P
    <3> HIDE DEF P
    <3> QED BY <1>3
  <2>2. pos[x] >= 0
    BY <1>0
  <2> QED BY <2>1, <2>2
<1> QED
  BY <1>4 DEF Ended

--------------------------------------------------------------------------------
(* The scanner stays inside the file and moves on *)

Ready == encoding \in {"single", "le", "be"} /\ Len(bytes) \in Nat

LEMMA WidthIs == Width \in {1, 2}
BY DEF Width

LEMMA StopsRange ==
    ASSUME Ready, NEW p \in Nat
    PROVE  Stops(p) \subseteq Nat /\ \A q \in Stops(p) : p <= q /\ q < Len(bytes)
BY DEF Ready, Stops

LEMMA SeenInside ==
    ASSUME Ready, NEW p \in Nat, unitAscii(p) # "~"
    PROVE  p + Width <= Len(bytes)
BY WidthIs DEF Ready, unitAscii

\* Where the scan for a unit that satisfies something ends.
LEMMA FirstStop ==
    ASSUME Ready, NEW p \in Nat, NEW S, S \subseteq Stops(p)
    PROVE  First(S) = Fail \/ (First(S) \in S /\ First(S) \in Nat /\ First(S) >= p /\ First(S) < Len(bytes))
<1>1. Stops(p) \subseteq Nat /\ \A q \in Stops(p) : p <= q /\ q < Len(bytes)
  BY StopsRange
<1>2. S \subseteq Nat
  BY <1>1
<1>3. (S = {} => First(S) = Fail) /\ (S # {} => First(S) \in S)
  BY <1>2, FirstIn
<1> QED
  BY <1>1, <1>3

LEMMA QuotedPast ==
    ASSUME Ready, NEW q \in Nat, unitAscii(q) \in Quotes
    PROVE  skipQuoted(q) = Fail
           \/ (skipQuoted(q) \in Nat /\ skipQuoted(q) > q /\ skipQuoted(q) <= Len(bytes))
<1> DEFINE S == {r \in Stops(q + Width) : unitAscii(r) = unitAscii(q)}
<1>1. skipQuoted(q) = IF First(S) = Fail THEN Fail ELSE First(S) + Width
  BY DEF skipQuoted
<1>2. q + Width \in Nat /\ S \subseteq Stops(q + Width) /\ \A r \in S : unitAscii(r) = unitAscii(q)
  BY WidthIs
<1>3. First(S) = Fail \/ (First(S) \in S /\ First(S) \in Nat /\ First(S) >= q + Width /\ First(S) < Len(bytes))
  <2> HIDE DEF S
  <2> QED BY <1>2, FirstStop
<1>4. ASSUME First(S) # Fail PROVE First(S) + Width <= Len(bytes)
  <2>1. First(S) \in Nat /\ unitAscii(First(S)) = unitAscii(q)
    BY <1>2, <1>3, <1>4
  <2>2. unitAscii(First(S)) # "~"
    BY <2>1 DEF Quotes
  <2> HIDE DEF S
  <2> QED BY <2>1, <2>2, SeenInside
<1> HIDE DEF S
<1> QED
  BY <1>1, <1>3, <1>4, WidthIs DEF Fail

\* A literal the scanner looks for.
IsLiteral(t) == Len(t) \in Nat /\ Len(t) >= 1 /\ DOMAIN t = 1..Len(t) /\ \A i \in 1..Len(t) : t[i] # "~"

LEMMA DelimitedPast ==
    ASSUME Ready, NEW p \in Nat, NEW t, IsLiteral(t)
    PROVE  skipDelimited(p, t) = Fail
           \/ (skipDelimited(p, t) \in Nat /\ skipDelimited(p, t) > p /\ skipDelimited(p, t) <= Len(bytes))
<1> DEFINE S == {r \in Stops(p) : matchLiteral(r, t)}
<1>0. Len(t) \in Nat /\ Len(t) >= 1 /\ Len(t) \in DOMAIN t /\ t[Len(t)] # "~"
  BY DEF IsLiteral
<1>1. skipDelimited(p, t) = IF First(S) = Fail THEN Fail ELSE First(S) + Len(t) * Width
  BY DEF skipDelimited
<1>2. S \subseteq Stops(p) /\ \A r \in S : matchLiteral(r, t)
  OBVIOUS
<1>3. First(S) = Fail \/ (First(S) \in S /\ First(S) \in Nat /\ First(S) >= p /\ First(S) < Len(bytes))
  <2> HIDE DEF S
  <2> QED BY <1>2, FirstStop
<1>4. ASSUME First(S) # Fail PROVE First(S) + Len(t) * Width <= Len(bytes) /\ First(S) + Len(t) * Width > p
  <2> DEFINE r == First(S)
             last == r + (Len(t) - 1) * Width
  <2>1. r \in Nat /\ r >= p /\ matchLiteral(r, t)
    BY <1>2, <1>3, <1>4
  <2>2. unitAscii(last) = t[Len(t)]
    BY <1>0, <2>1 DEF matchLiteral
  <2> HIDE DEF S, r
  <2>3. last \in Nat /\ last + Width = r + Len(t) * Width /\ r + Len(t) * Width > p
        /\ last + Width = First(S) + Len(t) * Width
    BY <1>0, <2>1, WidthIs DEF r
  <2> HIDE DEF last
  <2>4. last + Width <= Len(bytes)
    BY <1>0, <2>2, <2>3, SeenInside
  <2> QED BY <2>3, <2>4 DEF r
<1>5. First(S) # Fail => First(S) + Len(t) * Width \in Nat
  <2> HIDE DEF S
  <2> QED BY <1>0, <1>3, WidthIs
<1> HIDE DEF S
<1> QED
  BY <1>1, <1>4, <1>5

\* Positions, for a loop: a failure is at the end.
Position(p) == IF p \in Nat THEN p ELSE Len(bytes)

LEMMA UnitPast ==
    ASSUME Ready, NEW p \in Int, Inside(p)
    PROVE  p \in Nat /\ p < Len(bytes)
           /\ (PastUnit(p) = Fail \/ (PastUnit(p) \in Nat /\ PastUnit(p) > p))
           /\ p + Width \in Nat /\ p + Width > p
<1>1. p \in Nat /\ p < Len(bytes)
  BY DEF Ready, Inside
<1>2. p + Width \in Nat /\ p + Width > p
  BY <1>1, WidthIs
<1>3. unitAscii(p) \in Quotes => skipQuoted(p) = Fail \/ (skipQuoted(p) \in Nat /\ skipQuoted(p) > p)
  BY <1>1, QuotedPast
<1> QED
  BY <1>1, <1>2, <1>3, Zenon DEF PastUnit

--------------------------------------------------------------------------------
(* The end of a start tag *)

SlashAt(p) == unitAscii(p) = "/" /\ unitAscii(p + Width) = ">"
TagStops == {p \in Int : ~Inside(p) \/ unitAscii(p) = ">" \/ SlashAt(p)}
TagValue(open, p) ==
    IF ~Inside(p) THEN NoTag
    ELSE IF unitAscii(p) = ">" THEN Bounds(open, p + Width, FALSE) ELSE Bounds(open, p + 2 * Width, TRUE)

\* What a tag scanned from p is: none, or one that ends further on, inside the file.
TagFrom(open, p, v) ==
    v = NoTag \/ \E e \in Nat : e > p /\ e <= Len(bytes) /\ (v = Bounds(open, e, TRUE) \/ v = Bounds(open, e, FALSE))

LEMMA TagValueIs ==
    ASSUME Ready, NEW open, NEW p \in Nat, p \in TagStops
    PROVE  TagFrom(open, p, TagValue(open, p))
<1> DEFINE v == TagValue(open, p)
<1>1. CASE unitAscii(p) = ">" /\ Inside(p)
  <2>1. p + Width <= Len(bytes)
    BY <1>1, SeenInside
  <2>2. v = Bounds(open, p + Width, FALSE)
    BY <1>1, Zenon DEF TagValue
  <2>3. p + Width \in Nat /\ p + Width > p
    BY WidthIs
  <2> QED BY <2>1, <2>2, <2>3, Zenon DEF TagFrom
<1>2. CASE unitAscii(p) # ">" /\ SlashAt(p) /\ Inside(p)
  <2>0. p + Width \in Nat /\ unitAscii(p + Width) # "~"
    BY <1>2, WidthIs DEF SlashAt
  <2>1. (p + Width) + Width <= Len(bytes)
    BY <2>0, SeenInside
  <2>2. v = Bounds(open, p + 2 * Width, TRUE)
    BY <1>2, Zenon DEF TagValue
  <2>3. p + 2 * Width \in Nat /\ p + 2 * Width > p /\ p + 2 * Width = (p + Width) + Width
    BY <1>2, WidthIs
  <2>4. p + 2 * Width <= Len(bytes)
    BY <2>1, <2>3
  <2> QED BY <2>2, <2>3, <2>4, Zenon DEF TagFrom
<1>3. CASE ~Inside(p)
  <2>1. v = NoTag
    BY <1>3, Zenon DEF TagValue
  <2> QED BY <2>1, Zenon DEF TagFrom
<1> QED
  BY <1>1, <1>2, <1>3, Zenon DEF TagStops

LEMMA TagEndLoop ==
    ASSUME Ready, NEW open, NEW p \in Int
    PROVE  /\ p \notin TagStops => TagEnd(open, p) = TagEnd(open, PastUnit(p))
           /\ p \in TagStops => TagEnd(open, p) = TagValue(open, p)
           /\ p \in Nat => TagFrom(open, p, TagEnd(open, p))
<1> DEFINE V == {TagValue(open, x) : x \in Int}
           val == [x \in Int |-> TagValue(open, x)]
           next0 == [x \in Int |-> IF Inside(x) THEN PastUnit(x) ELSE x]
           pos == [x \in Int |-> Position(x)]
           bound == Len(bytes)
           body(f, x) == IF ~Inside(x) THEN NoTag
                         ELSE IF unitAscii(x) = ">" THEN Bounds(open, x + Width, FALSE)
                         ELSE IF unitAscii(x) = "/" /\ unitAscii(x + Width) = ">" THEN Bounds(open, x + 2 * Width, TRUE)
                         ELSE f[PastUnit(x)]
           Eq(end) == end = [x \in Int |-> body(end, x)]
           E == CHOOSE end : Eq(end)
<1>1. bound \in Nat /\ pos \in [Int -> Nat] /\ \A x \in Int : pos[x] = Position(x)
  BY DEF Ready, Position
<1>2. val \in [Int -> V] /\ \A x \in Int : val[x] = TagValue(open, x)
  OBVIOUS
<1>3. next0 \in [Int -> Int] /\ \A x \in Int : Inside(x) => next0[x] = PastUnit(x)
  BY UnitPast DEF Fail
<1>4. \A x \in Int : x \notin TagStops => Inside(x) /\ next0[x] = PastUnit(x)
  BY <1>3 DEF TagStops
<1> HIDE DEF V, val, next0, pos
<1>5. Onward(Int, TagStops, pos, next0, bound)
  <2>1. ASSUME NEW x \in Int, x \notin TagStops PROVE pos[x] < bound /\ pos[next0[x]] > pos[x]
    <3>1. Inside(x) /\ next0[x] = PastUnit(x)
      BY <1>4, <2>1
    <3>2. x \in Nat /\ x < bound /\ (PastUnit(x) = Fail \/ (PastUnit(x) \in Nat /\ PastUnit(x) > x))
      BY <3>1, UnitPast
    <3>3. PastUnit(x) \in Int /\ Fail \notin Nat
      BY <3>2 DEF Fail
    <3>4. pos[x] = x /\ pos[next0[x]] = IF PastUnit(x) \in Nat THEN PastUnit(x) ELSE bound
      BY <1>1, <3>1, <3>2, <3>3 DEF Position
    <3> QED BY <3>2, <3>3, <3>4
  <2> QED BY <2>1 DEF Onward
<1>6. PICK g \in [Int -> V] : Loop(g, Int, TagStops, val, next0)
  <2> HIDE DEF bound
  <2> QED BY <1>1, <1>2, <1>3, <1>5, LoopDefined
<1>7. ASSUME NEW f PROVE Loop(f, Int, TagStops, val, next0) <=> \A x \in Int : f[x] = body(f, x)
  <2>1. ASSUME NEW x \in Int
        PROVE  body(f, x) = IF x \in TagStops THEN val[x] ELSE f[next0[x]]
    <3>1. CASE x \notin TagStops
      <4>1. body(f, x) = f[PastUnit(x)]
        BY <3>1, Zenon DEF TagStops, SlashAt
      <4> QED BY <1>4, <3>1, <4>1
    <3>2. CASE x \in TagStops
      <4>1. ~Inside(x) \/ unitAscii(x) = ">" \/ SlashAt(x)
        BY <3>2, Zenon DEF TagStops
      <4>2. body(f, x) = TagValue(open, x)
        BY <4>1, Zenon DEF TagValue, SlashAt
      <4> HIDE DEF body
      <4> QED BY <1>2, <3>2, <4>2
    <3> QED BY <3>1, <3>2
  <2> HIDE DEF body
  <2> QED BY <2>1, Zenon DEF Loop
<1>8. Eq(g)
  <2> HIDE DEF body
  <2> QED BY <1>6, <1>7
<1>9. Eq(E)
  <2> HIDE DEF Eq
  <2> QED BY <1>8
<1>10. \A from \in Int : TagEnd(open, from) = E[from]
  BY DEF TagEnd
<1> HIDE DEF E
<1>11. \A x \in Int : E[x] = body(E, x)
  <2> HIDE DEF body
  <2> QED BY <1>9
<1> HIDE DEF body
<1>12. Loop(E, Int, TagStops, val, next0)
  BY <1>7, <1>11
<1>13. Ended(E, Int, TagStops, val, pos)
  <2> HIDE DEF bound
  <2>1. val \in [Int -> V] /\ next0 \in [Int -> Int] /\ pos \in [Int -> Nat] /\ bound \in Nat
    BY <1>1, <1>2, <1>3
  <2> QED BY <1>5, <1>12, <2>1, LoopEnds, Zenon
<1>14. ASSUME p \in Nat PROVE TagFrom(open, p, E[p])
  <2>1. PICK y \in Int : y \in TagStops /\ pos[y] >= pos[p] /\ E[p] = val[y]
    BY <1>13, Zenon DEF Ended
  <2>2. CASE y \in Nat
    <3>1. TagFrom(open, y, TagValue(open, y)) /\ E[p] = TagValue(open, y)
      BY <1>2, <2>1, <2>2, TagValueIs
    <3>2. y >= p
      BY <1>1, <1>14, <2>1, <2>2 DEF Position
    <3>3. CASE TagValue(open, y) = NoTag
      BY <3>1, <3>3 DEF TagFrom
    <3>4. ASSUME NEW e \in Nat, e > y, e <= Len(bytes),
                 TagValue(open, y) = Bounds(open, e, TRUE) \/ TagValue(open, y) = Bounds(open, e, FALSE)
          PROVE  TagFrom(open, p, E[p])
      <4>1. e > p
        BY <1>14, <2>2, <3>2, <3>4
      <4> QED BY <3>1, <3>4, <4>1, Zenon DEF TagFrom
    <3> QED BY <3>1, <3>3, <3>4, Zenon DEF TagFrom
  <2>3. CASE y \notin Nat
    <3>1. ~Inside(y)
      BY <1>1, <2>3 DEF Inside
    <3>2. E[p] = NoTag
      BY <1>2, <2>1, <3>1 DEF TagValue
    <3> QED BY <3>2, Zenon DEF TagFrom
  <2> QED BY <2>2, <2>3
<1>15. /\ p \notin TagStops => E[p] = E[PastUnit(p)] /\ PastUnit(p) \in Int
       /\ p \in TagStops => E[p] = TagValue(open, p)
  <2>1. E[p] = IF p \in TagStops THEN val[p] ELSE E[next0[p]]
    BY <1>12 DEF Loop
  <2> QED BY <1>2, <1>3, <1>4, <2>1
<1> QED
  BY <1>10, <1>14, <1>15

--------------------------------------------------------------------------------
(* The end of a declaration *)

DeclStops == {x \in Int \X Int : ~Inside(x[1]) \/ (unitAscii(x[1]) = ">" /\ x[2] = 0)}
DeclValue(p) == IF ~Inside(p) THEN Fail ELSE p + Width
DeclNext(x) == <<PastUnit(x[1]), DepthAfter(x[2], unitAscii(x[1]))>>

\* A position the scanner may go to from p.
Further(p, v) == v = Fail \/ (v \in Nat /\ v > p /\ v <= Len(bytes))

LEMMA DeclValueIs ==
    ASSUME Ready, NEW x \in Int \X Int, x \in DeclStops, x[1] \in Nat
    PROVE  Further(x[1], DeclValue(x[1]))
<1>0. x[1] \in Nat
  OBVIOUS
<1>1. CASE Inside(x[1])
  <2>0. unitAscii(x[1]) = ">"
    BY <1>1 DEF DeclStops
  <2>1. x[1] + Width <= Len(bytes)
    BY <1>0, <2>0, SeenInside
  <2>2. DeclValue(x[1]) = x[1] + Width
    BY <1>1 DEF DeclValue
  <2> QED BY <1>0, <2>1, <2>2, WidthIs DEF Further
<1>2. CASE ~Inside(x[1])
  BY <1>2 DEF DeclValue, Further
<1> QED
  BY <1>1, <1>2

\* past is what the loop of skipDeclaration computes.
DeclBody(f, x) ==
    IF ~Inside(x[1]) THEN Fail
    ELSE IF unitAscii(x[1]) = ">" /\ x[2] = 0 THEN x[1] + Width
    ELSE f[DeclNext(x)]
DeclLoop(past) == \A x \in Int \X Int : past[x] = DeclBody(past, x)

LEMMA DeclarationLoop ==
    ASSUME Ready
    PROVE  \E past : /\ DeclLoop(past) /\ \A open \in Int : skipDeclaration(open) = past[<<open + Width, 0>>]
                     /\ \A x \in Int \X Int : x[1] \in Nat => Further(x[1], past[x])
<1> DEFINE X == Int \X Int
           V == {DeclValue(p) : p \in Int}
           val == [x \in X |-> DeclValue(x[1])]
           next0 == [x \in X |-> IF Inside(x[1]) THEN DeclNext(x) ELSE x]
           pos == [x \in X |-> Position(x[1])]
           bound == Len(bytes)
           Eq(past) == past = [x \in X |-> DeclBody(past, x)]
           E == CHOOSE past : Eq(past)
<1>0. \A x \in X : x[1] \in Int /\ x[2] \in Int /\ x = <<x[1], x[2]>>
  OBVIOUS
<1>1. bound \in Nat /\ pos \in [X -> Nat] /\ \A x \in X : pos[x] = Position(x[1])
  BY DEF Ready, Position
<1>2. val \in [X -> V] /\ \A x \in X : val[x] = DeclValue(x[1])
  BY <1>0
<1>a. \A x \in X : Inside(x[1]) => DeclNext(x) \in X
  <2>1. ASSUME NEW x \in X, Inside(x[1]) PROVE DeclNext(x) \in X
    <3>1. PastUnit(x[1]) \in Int
      BY <1>0, <2>1, UnitPast DEF Fail
    <3>2. DepthAfter(x[2], unitAscii(x[1])) \in Int
      BY <1>0 DEF DepthAfter
    <3> QED BY <3>1, <3>2 DEF DeclNext
  <2> QED BY <2>1
<1>3. next0 \in [X -> X] /\ \A x \in X : Inside(x[1]) => next0[x] = DeclNext(x)
  <2> HIDE DEF X
  <2> QED BY <1>a
<1>4. \A x \in X : x \notin DeclStops => Inside(x[1]) /\ next0[x] = DeclNext(x)
  BY <1>3 DEF DeclStops
<1> HIDE DEF V, val, next0, pos
<1>5. Onward(X, DeclStops, pos, next0, bound)
  <2>1. ASSUME NEW x \in X, x \notin DeclStops PROVE pos[x] < bound /\ pos[next0[x]] > pos[x]
    <3>1. Inside(x[1]) /\ next0[x] = DeclNext(x) /\ DeclNext(x) \in X
      BY <1>4, <1>a, <2>1
    <3> DEFINE p == x[1]
    <3>2. p \in Nat /\ p < bound /\ (PastUnit(p) = Fail \/ (PastUnit(p) \in Nat /\ PastUnit(p) > p))
      BY <1>0, <3>1, UnitPast
    <3>3. PastUnit(p) \in Int /\ Fail \notin Nat
      BY <3>2 DEF Fail
    <3>5. DeclNext(x)[1] = PastUnit(p)
      BY DEF DeclNext
    <3> HIDE DEF X
    <3>4. pos[x] = p /\ pos[next0[x]] = IF PastUnit(p) \in Nat THEN PastUnit(p) ELSE bound
      BY <1>1, <3>1, <3>2, <3>3, <3>5 DEF Position
    <3> QED BY <3>2, <3>3, <3>4
  <2> QED BY <2>1 DEF Onward
<1>6. PICK g \in [X -> V] : Loop(g, X, DeclStops, val, next0)
  <2> HIDE DEF X, bound
  <2> QED BY <1>1, <1>2, <1>3, <1>5, LoopDefined
<1>7. ASSUME NEW f PROVE Loop(f, X, DeclStops, val, next0) <=> DeclLoop(f)
  <2>1. ASSUME NEW x \in X
        PROVE  DeclBody(f, x) = IF x \in DeclStops THEN val[x] ELSE f[next0[x]]
    <3>1. CASE x \notin DeclStops
      <4>1. DeclBody(f, x) = f[DeclNext(x)]
        BY <3>1, Zenon DEF DeclStops, DeclBody
      <4> QED BY <1>4, <3>1, <4>1
    <3>2. CASE x \in DeclStops
      <4>1. ~Inside(x[1]) \/ (unitAscii(x[1]) = ">" /\ x[2] = 0)
        BY <3>2, Zenon DEF DeclStops
      <4>2. DeclBody(f, x) = DeclValue(x[1])
        BY <4>1, Zenon DEF DeclValue, DeclBody
      <4> QED BY <1>2, <3>2, <4>2
    <3> QED BY <3>1, <3>2
  <2> QED BY <2>1, Zenon DEF Loop, DeclLoop
<1>8. Eq(g)
  <2>1. DeclLoop(g)
    BY <1>6, <1>7
  <2> HIDE DEF V
  <2> QED BY <1>6, <2>1 DEF DeclLoop
<1>9. Eq(E)
  <2> HIDE DEF Eq
  <2> QED BY <1>8
<1>10. \A open \in Int : skipDeclaration(open) = E[<<open + Width, 0>>]
  BY DEF skipDeclaration, DeclBody, DeclNext
<1> HIDE DEF E
<1>11. DeclLoop(E)
  <2>1. ASSUME NEW x \in X PROVE E[x] = DeclBody(E, x)
    <3> HIDE DEF X
    <3> QED BY <1>9
  <2> QED BY <2>1 DEF DeclLoop
<1>12. Loop(E, X, DeclStops, val, next0)
  BY <1>7, <1>11
<1>13. Ended(E, X, DeclStops, val, pos)
  <2> HIDE DEF X, bound
  <2>1. val \in [X -> V] /\ next0 \in [X -> X] /\ pos \in [X -> Nat] /\ bound \in Nat
    BY <1>1, <1>2, <1>3
  <2> QED BY <1>5, <1>12, <2>1, LoopEnds, Zenon
<1>14. ASSUME NEW x \in X, x[1] \in Nat PROVE Further(x[1], E[x])
  <2>1. PICK y \in X : y \in DeclStops /\ pos[y] >= pos[x] /\ E[x] = val[y]
    BY <1>13, <1>14, Zenon DEF Ended
  <2>0. y[1] \in Int
    BY <1>0
  <2>a. E[x] = DeclValue(y[1]) /\ Position(y[1]) >= Position(x[1])
    BY <1>1, <1>2, <2>1
  <2>2. CASE y[1] \in Nat
    <3>1. Further(y[1], DeclValue(y[1]))
      BY <2>1, <2>2, DeclValueIs
    <3>2. y[1] >= x[1]
      BY <1>14, <2>a, <2>2 DEF Position
    <3> HIDE DEF X
    <3> QED BY <1>14, <2>2, <2>a, <3>1, <3>2 DEF Further
  <2>3. CASE y[1] \notin Nat
    <3>1. ~Inside(y[1])
      BY <1>1, <2>0, <2>3 DEF Inside
    <3> QED BY <2>a, <3>1 DEF DeclValue, Further
  <2> QED BY <2>2, <2>3
<1> QED
  BY <1>10, <1>11, <1>14

--------------------------------------------------------------------------------
(* The next element markup *)

LEMMA SpecialPast ==
    ASSUME Ready, NEW p \in Nat
    PROVE  Further(p, skipSpecialUnit(p))
<1>1. Further(p, skipDelimited(p, <<"?", ">">>)) /\ Further(p, skipDelimited(p, <<"-", "-", ">">>))
      /\ Further(p, skipDelimited(p, <<"]", "]", ">">>))
  <2>1. IsLiteral(<<"?", ">">>) /\ IsLiteral(<<"-", "-", ">">>) /\ IsLiteral(<<"]", "]", ">">>)
    BY DEF IsLiteral
  <2> QED BY <2>1, DelimitedPast DEF Further
<1>2. Further(p, skipDeclaration(p))
  <2>1. p + Width \in Nat /\ p + Width > p
    BY WidthIs
  <2>2. PICK past : /\ \A open \in Int : skipDeclaration(open) = past[<<open + Width, 0>>]
                    /\ \A x \in Int \X Int : x[1] \in Nat => Further(x[1], past[x])
    BY DeclarationLoop
  <2>3. <<p + Width, 0>> \in Int \X Int /\ <<p + Width, 0>>[1] = p + Width
    BY <2>1
  <2>4. Further(p + Width, skipDeclaration(p))
    BY <2>1, <2>2, <2>3
  <2> QED BY <2>1, <2>4 DEF Further
<1> QED
  BY <1>1, <1>2, Zenon DEF skipSpecialUnit

MarkupStops == {p \in Int : ~Inside(p) \/ (unitAscii(p) = "<" /\ ~IsSpecial(p))}
MarkupValue(p) == IF ~Inside(p) THEN Fail ELSE p
MarkupNext(p) == IF unitAscii(p) = "<" THEN skipSpecialUnit(p) ELSE p + Width

LEMMA MarkupOnward ==
    ASSUME Ready, NEW p \in Int, Inside(p)
    PROVE  p \in Nat /\ p < Len(bytes)
           /\ (MarkupNext(p) = Fail \/ (MarkupNext(p) \in Nat /\ MarkupNext(p) > p))
<1>1. p \in Nat /\ p < Len(bytes) /\ p + Width \in Nat /\ p + Width > p
  BY UnitPast
<1>2. Further(p, skipSpecialUnit(p))
  BY <1>1, SpecialPast
<1> QED
  BY <1>1, <1>2, Zenon DEF MarkupNext, Further

LEMMA MarkupLoop ==
    ASSUME Ready, NEW p \in Int
    PROVE  /\ p \notin MarkupStops => Markup(p) = Markup(MarkupNext(p))
           /\ p \in MarkupStops => Markup(p) = MarkupValue(p)
           /\ p \in Nat => Markup(p) = Fail
                           \/ /\ Markup(p) \in Nat /\ Markup(p) >= p /\ Inside(Markup(p))
                              /\ unitAscii(Markup(p)) = "<" /\ ~IsSpecial(Markup(p))
<1> DEFINE V == {MarkupValue(x) : x \in Int}
           val == [x \in Int |-> MarkupValue(x)]
           next0 == [x \in Int |-> IF Inside(x) THEN MarkupNext(x) ELSE x]
           pos == [x \in Int |-> Position(x)]
           bound == Len(bytes)
           body(f, x) == IF ~Inside(x) THEN Fail
                         ELSE IF unitAscii(x) = "<" /\ ~IsSpecial(x) THEN x
                         ELSE f[IF unitAscii(x) = "<" THEN skipSpecialUnit(x) ELSE x + Width]
           Eq(end) == end = [x \in Int |-> body(end, x)]
           E == CHOOSE end : Eq(end)
<1>1. bound \in Nat /\ pos \in [Int -> Nat] /\ \A x \in Int : pos[x] = Position(x)
  BY DEF Ready, Position
<1>2. val \in [Int -> V] /\ \A x \in Int : val[x] = MarkupValue(x)
  OBVIOUS
<1>3. next0 \in [Int -> Int] /\ \A x \in Int : Inside(x) => next0[x] = MarkupNext(x)
  BY MarkupOnward DEF Fail
<1>4. \A x \in Int : x \notin MarkupStops => Inside(x) /\ next0[x] = MarkupNext(x)
  BY <1>3 DEF MarkupStops
<1> HIDE DEF V, val, next0, pos
<1>5. Onward(Int, MarkupStops, pos, next0, bound)
  <2>1. ASSUME NEW x \in Int, x \notin MarkupStops PROVE pos[x] < bound /\ pos[next0[x]] > pos[x]
    <3>1. Inside(x) /\ next0[x] = MarkupNext(x)
      BY <1>4, <2>1
    <3>2. x \in Nat /\ x < bound /\ (MarkupNext(x) = Fail \/ (MarkupNext(x) \in Nat /\ MarkupNext(x) > x))
      BY <3>1, MarkupOnward
    <3>3. MarkupNext(x) \in Int /\ Fail \notin Nat
      BY <3>2 DEF Fail
    <3>4. pos[x] = x /\ pos[next0[x]] = IF MarkupNext(x) \in Nat THEN MarkupNext(x) ELSE bound
      BY <1>1, <3>1, <3>2, <3>3 DEF Position
    <3> QED BY <3>2, <3>3, <3>4
  <2> QED BY <2>1 DEF Onward
<1>6. PICK g \in [Int -> V] : Loop(g, Int, MarkupStops, val, next0)
  <2> HIDE DEF bound
  <2> QED BY <1>1, <1>2, <1>3, <1>5, LoopDefined
<1>7. ASSUME NEW f PROVE Loop(f, Int, MarkupStops, val, next0) <=> \A x \in Int : f[x] = body(f, x)
  <2>1. ASSUME NEW x \in Int
        PROVE  body(f, x) = IF x \in MarkupStops THEN val[x] ELSE f[next0[x]]
    <3>1. CASE x \notin MarkupStops
      <4>1. body(f, x) = f[MarkupNext(x)]
        BY <3>1, Zenon DEF MarkupStops, MarkupNext
      <4> QED BY <1>4, <3>1, <4>1
    <3>2. CASE x \in MarkupStops
      <4>1. ~Inside(x) \/ (unitAscii(x) = "<" /\ ~IsSpecial(x))
        BY <3>2, Zenon DEF MarkupStops
      <4>2. body(f, x) = MarkupValue(x)
        BY <4>1, Zenon DEF MarkupValue
      <4> HIDE DEF body
      <4> QED BY <1>2, <3>2, <4>2
    <3> QED BY <3>1, <3>2
  <2> HIDE DEF body
  <2> QED BY <2>1, Zenon DEF Loop
<1>8. Eq(g)
  <2> HIDE DEF body
  <2> QED BY <1>6, <1>7
<1>9. Eq(E)
  <2> HIDE DEF Eq
  <2> QED BY <1>8
<1>10. \A from \in Int : Markup(from) = E[from]
  BY DEF Markup
<1> HIDE DEF E
<1>11. \A x \in Int : E[x] = body(E, x)
  <2> HIDE DEF body
  <2> QED BY <1>9
<1> HIDE DEF body
<1>12. Loop(E, Int, MarkupStops, val, next0)
  BY <1>7, <1>11
<1>13. Ended(E, Int, MarkupStops, val, pos)
  <2> HIDE DEF bound
  <2>1. val \in [Int -> V] /\ next0 \in [Int -> Int] /\ pos \in [Int -> Nat] /\ bound \in Nat
    BY <1>1, <1>2, <1>3
  <2> QED BY <1>5, <1>12, <2>1, LoopEnds, Zenon
<1>14. ASSUME p \in Nat
       PROVE  E[p] = Fail \/ (E[p] \in Nat /\ E[p] >= p /\ Inside(E[p]) /\ unitAscii(E[p]) = "<" /\ ~IsSpecial(E[p]))
  <2>1. PICK y \in Int : y \in MarkupStops /\ pos[y] >= pos[p] /\ E[p] = val[y]
    BY <1>13, Zenon DEF Ended
  <2>2. CASE Inside(y)
    <3>1. y \in Nat
      BY <2>2, UnitPast
    <3>2. y >= p
      BY <1>1, <1>14, <2>1, <3>1 DEF Position
    <3>3. E[p] = y
      BY <1>2, <2>1, <2>2 DEF MarkupValue
    <3>4. unitAscii(y) = "<" /\ ~IsSpecial(y)
      BY <2>1, <2>2, Zenon DEF MarkupStops
    <3> QED BY <2>2, <3>1, <3>2, <3>3, <3>4
  <2>3. CASE ~Inside(y)
    BY <1>2, <2>1, <2>3 DEF MarkupValue
  <2> QED BY <2>2, <2>3
<1>15. /\ p \notin MarkupStops => E[p] = E[MarkupNext(p)] /\ MarkupNext(p) \in Int
       /\ p \in MarkupStops => E[p] = MarkupValue(p)
  <2>1. E[p] = IF p \in MarkupStops THEN val[p] ELSE E[next0[p]]
    BY <1>12 DEF Loop
  <2> QED BY <1>2, <1>3, <1>4, <2>1
<1> QED
  BY <1>10, <1>14, <1>15

--------------------------------------------------------------------------------
(* The scanner stays inside the file *)

LEMMA StartTagInside ==
    ASSUME Ready, NEW from \in Nat, NEW tag \in Seq(STRING)
    PROVE  LET b == scanStartTag(from, tag)
           IN b = NoTag \/ (b.open \in Nat /\ b.end \in 0..Len(bytes))
<1> DEFINE p == Markup(from)
           after == p + (Len(tag) + 1) * Width
           b == scanStartTag(from, tag)
<1>1. p = Fail \/ p \in Nat
  BY MarkupLoop
<1>2. b = NoTag \/ (p # Fail /\ b = TagEnd(p, after))
  BY Zenon DEF scanStartTag
<1>3. CASE p # Fail /\ b = TagEnd(p, after)
  <2>1. after \in Nat
    <3> HIDE DEF p
    <3> QED BY <1>1, <1>3, WidthIs
  <2> HIDE DEF after, p, b
  <2>2. TagFrom(p, after, b)
    BY <1>1, <1>3, <2>1, TagEndLoop
  <2>3. CASE b = NoTag
    BY <2>3 DEF b
  <2>4. ASSUME NEW e \in Nat, e <= Len(bytes), b = Bounds(p, e, TRUE) \/ b = Bounds(p, e, FALSE)
        PROVE  b.open \in Nat /\ b.end \in 0..Len(bytes)
    BY <1>1, <1>3, <2>4 DEF Bounds, Ready
  <2> QED BY <2>2, <2>3, <2>4, Zenon DEF TagFrom, b
<1> QED
  BY <1>2, <1>3, Zenon

LEMMA EndTagInside ==
    ASSUME Ready, NEW from \in Nat, NEW tag, Len(tag) \in Nat
    PROVE  scanEndTag(from, tag) = Fail \/ scanEndTag(from, tag) \in 0..Len(bytes)
<1> DEFINE p == Markup(from)
           after == p + (Len(tag) + 2) * Width
           S == {q \in Stops(after) : unitAscii(q) \notin Space}
           close == First(S)
<1>1. p = Fail \/ p \in Nat
  BY MarkupLoop
<1>2. scanEndTag(from, tag) = Fail
      \/ (p # Fail /\ close # Fail /\ unitAscii(close) = ">" /\ scanEndTag(from, tag) = close + Width)
  BY Zenon DEF scanEndTag
<1>3. CASE p # Fail /\ close # Fail /\ unitAscii(close) = ">" /\ scanEndTag(from, tag) = close + Width
  <2>1. after \in Nat
    <3> HIDE DEF p
    <3> QED BY <1>1, <1>3, WidthIs
  <2>2. S \subseteq Stops(after)
    OBVIOUS
  <2>3. close \in Nat
    <3> HIDE DEF S, after
    <3> QED BY <1>3, <2>1, <2>2, FirstStop
  <2>4. close + Width <= Len(bytes)
    <3> HIDE DEF close
    <3> QED BY <1>3, <2>3, SeenInside
  <2> HIDE DEF close
  <2> QED BY <1>3, <2>3, <2>4, WidthIs DEF Ready
<1> QED
  BY <1>2, <1>3

--------------------------------------------------------------------------------
(* The units of a document *)

LEMMA UnitsTyped ==
    ASSUME NEW d, IsDocument(d), NEW k \in 1..Len(d.lexemes)
    PROVE  /\ d.lexemes[k].units \in Seq(STRING) /\ Len(d.lexemes[k].units) \in Nat
           /\ \A j \in 1..Len(d.lexemes[k].units) : d.lexemes[k].units[j] \notin Reserved
<1>1. d.lexemes[k].units \in Seq(STRING) /\ IsLexeme(d.lexemes[k])
  BY DocumentTyped
<1> DEFINE u == d.lexemes[k].units
<1>2. ToSet(u) \cap Reserved = {}
  BY <1>1, Zenon DEF IsLexeme
<1>3. u \in Seq(STRING)
  BY <1>1
<1> HIDE DEF u
<1>4. Len(u) \in Nat /\ \A j \in 1..Len(u) : u[j] \in ToSet(u)
  BY <1>3 DEF ToSet
<1>5. \A j \in 1..Len(u) : u[j] \notin Reserved
  BY <1>2, <1>4
<1> QED
  BY <1>3, <1>4, <1>5 DEF u

\* A sequence that begins with the units of the lexemes before the k-th.
Begun(d, s, k) ==
    /\ s \in Seq(STRING) /\ Len(s) = Place(d)[k]
    /\ \A i \in 1..(k - 1) : \A j \in 1..Len(d.lexemes[i].units) :
          Place(d)[i] + j \in 1..Len(s) /\ s[Place(d)[i] + j] = d.lexemes[i].units[j]
    /\ \A v \in 1..Len(s) : s[v] \notin Reserved

LEMMA BegunOn ==
    ASSUME NEW d, IsDocument(d), NEW k \in 1..Len(d.lexemes), NEW s, Begun(d, s, k)
    PROVE  Begun(d, s \o d.lexemes[k].units, k + 1)
<1> DEFINE u == d.lexemes[k].units
           n == Len(d.lexemes)
           t == s \o u
           P == Place(d)
<1>1. u \in Seq(STRING) /\ Len(u) \in Nat /\ \A j \in 1..Len(u) : u[j] \notin Reserved
  BY UnitsTyped
<1>2. s \in Seq(STRING) /\ Len(s) = P[k] /\ \A v \in 1..Len(s) : s[v] \notin Reserved
  BY DEF Begun
<1>3. P[k + 1] = P[k] + Len(u) /\ P[k] \in Nat
  <2>1. P[k + 1] = P[k] + Len(u)
    BY PlaceSteps
  <2>2. n \in Nat /\ P \in [1..(n + 1) -> Nat] /\ k \in 1..(n + 1)
    BY PlaceSteps, DocumentTyped
  <2> HIDE DEF P, n, u
  <2> QED BY <2>1, <2>2
<1>4. \A i \in 1..(k - 1) : \A j \in 1..Len(d.lexemes[i].units) :
          P[i] + j \in 1..Len(s) /\ s[P[i] + j] = d.lexemes[i].units[j]
  BY DEF Begun
<1> HIDE DEF u, P
<1>5. t \in Seq(STRING) /\ Len(t) = P[k + 1]
  BY <1>1, <1>2, <1>3
<1>6. (\A v \in 1..Len(s) : v \in 1..Len(t) /\ t[v] = s[v])
      /\ \A j \in 1..Len(u) : P[k] + j \in 1..Len(t) /\ t[P[k] + j] = u[j]
  BY <1>1, <1>2, <1>3
<1>7. ASSUME NEW v \in 1..Len(t) PROVE t[v] \notin Reserved
  <2>1. CASE v \in 1..Len(s)
    BY <1>2, <1>6, <2>1
  <2>2. CASE v \notin 1..Len(s)
    <3>1. v - P[k] \in 1..Len(u) /\ P[k] + (v - P[k]) = v
      BY <1>1, <1>2, <1>3, <2>2
    <3>2. t[v] = u[v - P[k]]
      BY <1>6, <3>1
    <3> QED BY <1>1, <3>1, <3>2
  <2> QED BY <2>1, <2>2
<1> HIDE DEF t
<1>8. ASSUME NEW i \in 1..((k + 1) - 1), NEW j \in 1..Len(d.lexemes[i].units)
      PROVE  P[i] + j \in 1..Len(t) /\ t[P[i] + j] = d.lexemes[i].units[j]
  <2>1. CASE i = k
    BY <1>6, <2>1 DEF u
  <2>2. CASE i # k
    <3>1. i \in 1..(k - 1)
      BY <2>2
    <3> QED BY <1>4, <1>6, <3>1
  <2> QED BY <2>1, <2>2
<1> QED
  BY <1>5, <1>7, <1>8, Zenon DEF Begun, P, t, u

LEMMA UnitsBegun ==
    ASSUME NEW d, IsDocument(d)
    PROVE  Begun(d, Units(d), Len(d.lexemes) + 1)
<1> DEFINE n == Len(d.lexemes)
           s == [k \in DOMAIN d.lexemes |-> d.lexemes[k].units]
<1>1. n \in Nat /\ DOMAIN d.lexemes = 1..n
  BY DocumentTyped
<1>2. s \in Seq(Seq(STRING)) /\ Len(s) = n /\ \A k \in 1..n : s[k] = d.lexemes[k].units
  <2>1. \A k \in 1..n : d.lexemes[k].units \in Seq(STRING)
    BY UnitsTyped
  <2>2. s = [k \in 1..n |-> d.lexemes[k].units]
    BY <1>1
  <2> HIDE DEF n
  <2> QED BY <1>1, <2>1, <2>2
<1> HIDE DEF s
<1>3. PICK F \in [0..Len(s) -> Seq(STRING)] : Flat(F, s)
  BY <1>2, Flattened
<1>4. F[0] = <<>> /\ FlattenSeq(s) = F[n] /\ \A k \in 1..n : F[k] = F[k - 1] \o d.lexemes[k].units
  BY <1>2, <1>3 DEF Flat
<1> DEFINE Q == {k \in 0..n : Begun(d, F[k], k + 1)}
<1>5. 0 \in Q
  <2>1. Place(d)[1] = 0
    BY PlaceSteps
  <2>2. Begun(d, <<>>, 0 + 1)
    BY <2>1 DEF Begun
  <2> QED BY <1>1, <1>4, <2>2
<1>6. ASSUME NEW i \in 1..n, i - 1 \in Q PROVE i \in Q
  <2>1. Begun(d, F[i - 1], i) /\ i \in 0..n
    BY <1>6
  <2>2. Begun(d, F[i], i + 1)
    BY <1>4, <2>1, BegunOn
  <2> QED BY <2>1, <2>2
<1>7. n \in Q
  <2> HIDE DEF Q
  <2>1. 0..n \subseteq Q
    BY <1>1, <1>5, <1>6, Turns
  <2> QED BY <1>1, <2>1
<1>8. Units(d) = F[n]
  BY <1>4 DEF Units, s
<1> QED
  BY <1>7, <1>8

LEMMA PlaceGrows ==
    ASSUME NEW d, IsDocument(d), NEW j \in 1..(Len(d.lexemes) + 1), NEW k \in 1..j
    PROVE  Place(d)[k] \in Nat /\ Place(d)[j] \in Nat /\ Place(d)[k] <= Place(d)[j]
<1> DEFINE n == Len(d.lexemes)
           P == Place(d)
           Q == {i \in k..j : P[i] <= P[j]}
<1>1. n \in Nat /\ P \in [1..(n + 1) -> Nat]
  BY PlaceSteps, DocumentTyped
<1>2. \A i \in 1..n : P[i + 1] = P[i] + Len(d.lexemes[i].units) /\ Len(d.lexemes[i].units) \in Nat
  BY PlaceSteps, UnitsTyped
<1> HIDE DEF P, n
<1>3. j \in Q /\ k \in Nat /\ j \in Nat /\ k <= j
  BY <1>1 DEF n
<1>4. ASSUME NEW i \in k..(j - 1), i + 1 \in Q PROVE i \in Q
  <2>1. i \in 1..n /\ i + 1 \in 1..(n + 1) /\ i \in 1..(n + 1) /\ j \in 1..(n + 1)
    BY <1>1 DEF n
  <2>a. P[i] \in Nat /\ P[i + 1] \in Nat /\ P[j] \in Nat
    BY <1>1, <2>1
  <2>b. P[i + 1] = P[i] + Len(d.lexemes[i].units) /\ Len(d.lexemes[i].units) \in Nat
    BY <1>2, <2>1
  <2>2. P[i] <= P[i + 1] /\ P[i] \in Nat /\ P[i + 1] \in Nat /\ P[j] \in Nat
    BY <2>a, <2>b
  <2>3. P[i + 1] <= P[j]
    BY <1>4
  <2> QED BY <2>2, <2>3
<1>5. k..j \subseteq Q
  <2> HIDE DEF Q
  <2> QED BY <1>3, <1>4, TurnsDown
<1>6. k \in Q
  BY <1>3, <1>5
<1>7. k \in 1..(n + 1) /\ j \in 1..(n + 1)
  BY <1>1 DEF n
<1> QED
  BY <1>1, <1>6, <1>7 DEF P

--------------------------------------------------------------------------------
(* How the scanner sees the units of a document *)

Bytes == STRING \cup Reserved \cup {"~", "<"}

LEMMA EncodedIs ==
    ASSUME NEW form, form.width \in {"le", "be"}, NEW units \in Seq(STRING)
    PROVE  /\ Encoded(form, units) \in Seq(Bytes) /\ Len(Encoded(form, units)) = 2 * Len(units)
           /\ \A v \in 1..Len(units) :
                 /\ Encoded(form, units)[2 * v - 1] = Encode(form.width, units[v])[1]
                 /\ Encoded(form, units)[2 * v] = Encode(form.width, units[v])[2]
<1> DEFINE n == Len(units)
           w == form.width
           val(p) == Encode(w, units[(p + 1) \div 2])[2 - (p % 2)]
           e == [p \in 1..(2 * n) |-> val(p)]
<1>1. Encoded(form, units) = e /\ n \in Nat
  BY DEF Encoded
<1>2. ASSUME NEW v \in 1..n
      PROVE  Encode(w, units[v])[1] \in Bytes /\ Encode(w, units[v])[2] \in Bytes
  <2>0. PICK u : u = units[v]
    OBVIOUS
  <2>1. u \in STRING
    BY <2>0
  <2>2. CASE w = "le"
    <3>1. Encode(w, u) = IF u = "~" THEN <<"<", "~">> ELSE <<u, "0">>
      BY <2>2, Zenon DEF Encode
    <3>2. "<" \in Bytes /\ "~" \in Bytes /\ "0" \in Bytes /\ u \in Bytes
      BY <2>1 DEF Bytes, Reserved
    <3>3. CASE u = "~"
      <4>1. Encode(w, u) = <<"<", "~">>
        BY <3>1, <3>3
      <4> QED BY <2>0, <3>2, <4>1
    <3>4. CASE u # "~"
      <4>1. Encode(w, u) = <<u, "0">>
        BY <3>1, <3>4
      <4> QED BY <2>0, <3>2, <4>1
    <3> QED BY <3>3, <3>4
  <2>3. CASE w = "be"
    <3>1. Encode(w, u) = IF u = "~" THEN <<"~", "<">> ELSE <<"0", u>>
      BY <2>3 DEF Encode
    <3>2. "<" \in Bytes /\ "~" \in Bytes /\ "0" \in Bytes /\ u \in Bytes
      BY <2>1 DEF Bytes, Reserved
    <3>3. CASE u = "~"
      <4>1. Encode(w, u) = <<"~", "<">>
        BY <3>1, <3>3
      <4> QED BY <2>0, <3>2, <4>1
    <3>4. CASE u # "~"
      <4>1. Encode(w, u) = <<"0", u>>
        BY <3>1, <3>4
      <4> QED BY <2>0, <3>2, <4>1
    <3> QED BY <3>3, <3>4
  <2> QED BY <2>2, <2>3
<1>3. ASSUME NEW p \in 1..(2 * n)
      PROVE  (p + 1) \div 2 \in 1..n /\ 2 - (p % 2) \in {1, 2}
  BY <1>1, <1>3
<1>4. \A p \in 1..(2 * n) : val(p) \in Bytes
  <2> HIDE DEF w, n
  <2> QED BY <1>2, <1>3
<1>5. e \in Seq(Bytes) /\ Len(e) = 2 * n
  <2> HIDE DEF val, n
  <2> QED BY <1>1, <1>4
<1>6. ASSUME NEW v \in 1..n PROVE e[2 * v - 1] = Encode(w, units[v])[1] /\ e[2 * v] = Encode(w, units[v])[2]
  <2>1. 2 * v - 1 \in 1..(2 * n) /\ 2 * v \in 1..(2 * n)
    BY <1>1
  <2>2. ((2 * v - 1) + 1) \div 2 = v /\ (2 * v + 1) \div 2 = v /\ (2 * v - 1) % 2 = 1 /\ (2 * v) % 2 = 0
    BY <1>1
  <2>3. e[2 * v - 1] = val(2 * v - 1) /\ e[2 * v] = val(2 * v)
    <3> HIDE DEF val, n
    <3> QED BY <2>1
  <2>4. val(2 * v - 1) = Encode(w, units[v])[2 - 1] /\ val(2 * v) = Encode(w, units[v])[2 - 0]
    BY <2>2
  <2> HIDE DEF e, val, n, w
  <2> QED BY <2>3, <2>4
<1> HIDE DEF e
<1> QED
  BY <1>1, <1>5, <1>6

Begins(s, x, y) == Len(s) >= 2 /\ s[1] = x /\ s[2] = y

LEMMA PrefixIs ==
    ASSUME NEW s \in Seq(Bytes), NEW x \in Bytes, NEW y \in Bytes
    PROVE  IsPrefix(<<x, y>>, s) <=> Begins(s, x, y)
<1>1. IsPrefix(<<x, y>>, s) <=> 2 <= Len(s) /\ <<x, y>> = SubSeq(s, 1, 2)
  BY DEF IsPrefix
<1>2. CASE Len(s) >= 2
  <2> DEFINE t == SubSeq(s, 1, 2)
  <2>1. t \in Seq(Bytes) /\ Len(t) = 2 /\ t[1] = s[1] /\ t[2] = s[2]
    BY <1>2
  <2> HIDE DEF t
  <2>2. t = [i \in 1..2 |-> t[i]] /\ <<x, y>> = [i \in 1..2 |-> <<x, y>>[i]]
    BY <2>1
  <2>3. <<x, y>> = t <=> s[1] = x /\ s[2] = y
    BY <2>1, <2>2
  <2> QED BY <1>1, <1>2, <2>3 DEF t, Begins
<1> QED
  BY <1>1, <1>2 DEF Begins

Joined(s, b, e) ==
    /\ s \in Seq(Bytes) /\ Len(s) = Len(b) + Len(e)
    /\ \A p \in 1..Len(b) : s[p] = b[p]
    /\ \A p \in 1..Len(e) : s[Len(b) + p] = e[p]

LEMMA JoinIs ==
    ASSUME NEW b \in Seq(Bytes), NEW e \in Seq(Bytes)
    PROVE  Joined(b \o e, b, e)
BY DEF Joined

\* The position after v units.
Spot(d, v) == Len(Bom(d.form)) + Width * v

\* The scanner sees the units of the document after its byte order mark.
Viewed(d) ==
    /\ Ready /\ encoding = d.form.width /\ Len(Bom(d.form)) \in Nat
    /\ Len(bytes) = Spot(d, Len(Units(d)))
    /\ \A v \in 1..Len(Units(d)) : unitAscii(Spot(d, v - 1)) = Units(d)[v]
    /\ Len(Bom(d.form)) % Width = 0
    /\ \A p \in Stops(0) : p < Len(Bom(d.form)) => unitAscii(p) \notin {"<", "\n"}

Unmarked(raw) == Len(raw) >= 1 => raw[1] # "FF" /\ raw[1] # "FE"

\* Without a byte order mark the declaration decides.
LEMMA NotMarked ==
    ASSUME NEW raw \in Seq(Bytes), Unmarked(raw)
    PROVE  detectEncodingClass(raw) = declarationEncodingClass(raw)
<1>1. "FF" \in Bytes /\ "FE" \in Bytes
  BY DEF Bytes, Reserved
<1>2. IsPrefix(<<"FF", "FE">>, raw) <=> Begins(raw, "FF", "FE")
  BY <1>1, PrefixIs, Zenon
<1>3. IsPrefix(<<"FE", "FF">>, raw) <=> Begins(raw, "FE", "FF")
  BY <1>1, PrefixIs, Zenon
<1>4. ~Begins(raw, "FF", "FE") /\ ~Begins(raw, "FE", "FF")
  BY DEF Begins, Unmarked
<1> QED
  BY <1>2, <1>3, <1>4 DEF detectEncodingClass

\* In bytes without NUL the sniff finds no UTF-16.
LEMMA SniffsSingle ==
    ASSUME NEW raw \in Seq(Bytes), \A m \in 1..Len(raw) : raw[m] # "0"
    PROVE  sniffLessThanEndianness(raw) = "single"
<1> DEFINE S == {m \in DOMAIN raw : raw[m] \notin Space}
           x == First(S)
<1>1. DOMAIN raw = 1..Len(raw) /\ Len(raw) \in Nat
  OBVIOUS
<1>2. x = Fail \/ x \in 1..Len(raw)
  <2>1. S \subseteq Nat /\ S \subseteq 1..Len(raw)
    BY <1>1
  <2> HIDE DEF S
  <2> QED BY <2>1, FirstIn
<1> HIDE DEF S, x
<1>3. ASSUME x # Fail PROVE ~Stands(raw, x, <<"<", "0">>) /\ ~Stands(raw, x, <<"0", "<">>)
  <2>1. x \in 1..Len(raw) /\ raw[x] # "0"
    BY <1>2, <1>3
  <2>2. ASSUME NEW t, t = <<"<", "0">>, Stands(raw, x, t) PROVE FALSE
    <3>1. Len(t) = 2 /\ 2 \in DOMAIN t /\ t[2] = "0"
      BY <2>2
    <3>2. x + 2 - 1 <= Len(raw) /\ raw[x + 2 - 1] = "0"
      BY <2>2, <3>1 DEF Stands
    <3>3. x + 2 - 1 \in 1..Len(raw)
      BY <1>1, <2>1, <3>2
    <3> QED BY <3>2, <3>3
  <2>3. ASSUME NEW t, t = <<"0", "<">>, Stands(raw, x, t) PROVE FALSE
    <3>1. 1 \in DOMAIN t /\ t[1] = "0"
      BY <2>3
    <3>2. raw[x + 1 - 1] = "0" /\ x + 1 - 1 = x
      BY <2>1, <2>3, <3>1 DEF Stands
    <3> QED BY <2>1, <3>2
  <2> QED BY <2>2, <2>3
<1> QED
  BY <1>3 DEF sniffLessThanEndianness, S, x

\* The bytes of a document of single bytes, and what is made of them.
Single(d, b, U, raw) ==
    /\ U \in Seq(Bytes) /\ b \in Seq(Bytes) /\ Len(b) \in {0, 3}
    /\ Len(b) = 3 => b[1] = "EF" /\ b[2] = "BB" /\ b[3] = "BF"
    /\ Joined(raw, b, U)
    /\ \A p \in 1..Len(raw) : raw[p] # "0"
    /\ detectEncodingClass(raw) \in {"single", "le", "be"}
    /\ Misleads(d) <=> detectEncodingClass(raw) # "single"

LEMMA SingleBytes ==
    ASSUME NEW d, IsDocument(d), d.form.width = "single"
    PROVE  Single(d, Bom(d.form), Units(d), Bom(d.form) \o Encoded(d.form, Units(d)))
<1> DEFINE b == Bom(d.form)
           U == Units(d)
           raw == b \o Encoded(d.form, U)
<1>1. U \in Seq(STRING) /\ \A v \in 1..Len(U) : U[v] \notin Reserved
  BY UnitsBegun DEF Begun
<1>2. d.form.bom \in BOOLEAN
  BY DocumentTyped
<1>3. b = IF ~d.form.bom THEN <<>> ELSE <<"EF", "BB", "BF">>
  BY <1>2 DEF Bom
<1>4. raw = b \o U
  BY DEF Encoded
<1>12. Misleads(d) <=> Claims(raw, Utf16) /\ (Claims(raw, <<"L", "E">>) \/ Claims(raw, <<"B", "E">>))
  BY Zenon DEF Misleads
<1> HIDE DEF b, U, raw
<1>5. U \in Seq(Bytes)
  BY <1>1 DEF Bytes
<1>6. b \in Seq(Bytes) /\ Len(b) \in {0, 3} /\ (Len(b) = 3 => b[1] = "EF" /\ b[2] = "BB" /\ b[3] = "BF")
  <2>1. CASE ~d.form.bom
    BY <1>3, <2>1
  <2>2. CASE d.form.bom
    <3>1. b = <<"EF", "BB", "BF">>
      BY <1>3, <2>2
    <3> QED BY <3>1 DEF Bytes, Reserved
  <2> QED BY <2>1, <2>2
<1>7. Joined(raw, b, U)
  BY <1>4, <1>5, <1>6, JoinIs
<1>8. Len(b) \in Nat /\ Len(U) \in Nat /\ Len(raw) \in Nat /\ Len(raw) = Len(b) + Len(U)
  BY <1>5, <1>6, <1>7 DEF Joined
<1>9. ASSUME NEW p \in 1..Len(raw) PROVE raw[p] \notin {"0", "FF", "FE"}
  <2>1. CASE p <= Len(b)
    <3>3. p \in Nat /\ p >= 1 /\ Len(b) \in {0, 3}
      BY <1>6, <1>8
    <3>4. Len(b) = 3
      BY <2>1, <3>3
    <3>1. p \in {1, 2, 3} /\ p \in 1..3
      BY <2>1, <3>3, <3>4
    <3>2. raw[p] = b[p]
      BY <1>7, <3>1, <3>4 DEF Joined
    <3> QED BY <1>6, <3>1, <3>2, <3>4
  <2>2. CASE p > Len(b)
    <3>1. PICK q : q = p - Len(b)
      OBVIOUS
    <3>2. q \in 1..Len(U) /\ Len(b) + q = p
      BY <1>8, <2>2, <3>1
    <3>3. raw[p] = U[q] /\ U[q] \notin Reserved
      BY <1>1, <1>7, <3>2 DEF Joined
    <3> QED BY <3>3 DEF Reserved
  <2> QED BY <1>8, <2>1, <2>2
<1>10. detectEncodingClass(raw) = declarationEncodingClass(raw)
  <2>1. raw \in Seq(Bytes)
    BY <1>7 DEF Joined
  <2>2. Unmarked(raw)
    <3>1. Len(raw) >= 1 => 1 \in 1..Len(raw)
      BY <1>8
    <3> QED BY <1>9, <3>1 DEF Unmarked
  <2> QED BY <2>1, <2>2, NotMarked
<1>11. sniffLessThanEndianness(raw) = "single"
  BY <1>7, <1>9, SniffsSingle DEF Joined
<1>13. /\ declarationEncodingClass(raw) \in {"single", "le", "be"}
       /\ Misleads(d) <=> declarationEncodingClass(raw) # "single"
  BY <1>11, <1>12 DEF declarationEncodingClass
<1> QED
  BY <1>5, <1>6, <1>7, <1>9, <1>10, <1>13 DEF Single, b, U, raw

LEMMA SingleViewed ==
    ASSUME NEW d, IsDocument(d), d.form.width = "single", ~Misleads(d),
           bytes = Bom(d.form) \o Encoded(d.form, Units(d)), encoding = detectEncodingClass(bytes)
    PROVE  Viewed(d)
<1> DEFINE U == Units(d)
           b == Bom(d.form)
<1>0. Single(d, b, U, bytes)
  BY SingleBytes
<1> HIDE DEF U, b
<1>5. U \in Seq(Bytes)
  BY <1>0 DEF Single
<1>6. b \in Seq(Bytes) /\ Len(b) \in {0, 3} /\ (Len(b) = 3 => b[1] = "EF" /\ b[2] = "BB" /\ b[3] = "BF")
  BY <1>0 DEF Single
<1>7. bytes \in Seq(Bytes) /\ Len(bytes) = Len(b) + Len(U)
      /\ (\A p \in 1..Len(b) : bytes[p] = b[p]) /\ (\A p \in 1..Len(U) : bytes[Len(b) + p] = U[p])
  BY <1>0 DEF Single, Joined
<1>a. Len(b) \in Nat /\ Len(U) \in Nat /\ Len(bytes) \in Nat
  BY <1>5, <1>6, <1>7
<1>8. encoding = "single"
  BY <1>0 DEF Single
<1>9. Width = 1 /\ Ready
  BY <1>7, <1>8 DEF Width, Ready
<1>10. \A p \in Nat : unitAscii(p) = IF p + 1 > Len(bytes) THEN "~" ELSE bytes[p + 1]
  BY <1>8, <1>9 DEF unitAscii
<1>11. \A v \in Nat : Spot(d, v) = Len(b) + v
  BY <1>6, <1>9 DEF Spot, b
<1>12. ASSUME NEW v \in 1..Len(U) PROVE unitAscii(Spot(d, v - 1)) = U[v]
  <2>1. Spot(d, v - 1) = Len(b) + (v - 1) /\ Len(b) + (v - 1) \in Nat /\ (Len(b) + (v - 1)) + 1 = Len(b) + v
        /\ Len(b) + v <= Len(bytes)
    <3>1. v - 1 \in Nat
      OBVIOUS
    <3>2. Spot(d, v - 1) = Len(b) + (v - 1)
      BY <1>11, <3>1
    <3> QED BY <1>a, <1>7, <3>2
  <2>2. unitAscii(Len(b) + (v - 1)) = bytes[Len(b) + v]
    <3>1. PICK q : q = Len(b) + (v - 1)
      OBVIOUS
    <3>2. q \in Nat /\ q + 1 = Len(b) + v /\ ~(q + 1 > Len(bytes))
      BY <2>1, <3>1, <1>a
    <3>3. unitAscii(q) = bytes[q + 1]
      BY <1>10, <3>2
    <3> QED BY <3>1, <3>2, <3>3
  <2>3. bytes[Len(b) + v] = U[v]
    BY <1>7
  <2> QED BY <2>1, <2>2, <2>3
<1>13. ASSUME NEW p \in Stops(0), p < Len(b) PROVE unitAscii(p) \notin {"<", "\n"}
  <2>0. p \in Nat
    BY <1>9, <1>a, <1>13 DEF Stops
  <2>1. p \in {0, 1, 2} /\ Len(b) = 3 /\ p + 1 <= Len(bytes)
    <3>1. Len(b) \in {0, 3} /\ Len(bytes) = Len(b) + Len(U)
      BY <1>6, <1>7
    <3>2. Len(b) = 3
      BY <3>1, <1>13, <2>0
    <3> QED BY <3>1, <3>2, <1>a, <1>13, <2>0
  <2>2. unitAscii(p) = b[p + 1]
    <3>0. ~(p + 1 > Len(bytes))
      BY <1>a, <2>0, <2>1
    <3>1. unitAscii(p) = bytes[p + 1]
      BY <1>10, <2>0, <3>0
    <3>2. p + 1 \in 1..Len(b)
      BY <2>1
    <3> QED BY <1>7, <3>1, <3>2
  <2> QED BY <1>6, <2>1, <2>2
<1>14. Len(b) % Width = 0 /\ Len(b) \in Nat
  BY <1>6, <1>9
<1>15. Len(bytes) = Spot(d, Len(U))
  BY <1>7, <1>11, <1>a
<1> QED
  BY <1>8, <1>9, <1>12, <1>13, <1>14, <1>15 DEF Viewed, U, b

\* The two bytes of each unit.
Pairs(e, w, units) ==
    /\ e \in Seq(Bytes) /\ Len(e) = 2 * Len(units)
    /\ \A v \in 1..Len(units) :
          IF w = "le" THEN IF units[v] = "~" THEN e[2 * v - 1] = "<" /\ e[2 * v] = "~"
                                             ELSE e[2 * v - 1] = units[v] /\ e[2 * v] = "0"
          ELSE IF units[v] = "~" THEN e[2 * v - 1] = "~" /\ e[2 * v] = "<"
                                 ELSE e[2 * v - 1] = "0" /\ e[2 * v] = units[v]

LEMMA EncodedPairs ==
    ASSUME NEW form, form.width \in {"le", "be"}, NEW units \in Seq(STRING)
    PROVE  Pairs(Encoded(form, units), form.width, units)
<1> DEFINE e == Encoded(form, units)
           w == form.width
<1>1. e \in Seq(Bytes) /\ Len(e) = 2 * Len(units)
      /\ \A v \in 1..Len(units) : e[2 * v - 1] = Encode(w, units[v])[1] /\ e[2 * v] = Encode(w, units[v])[2]
  BY EncodedIs
<1>2. ASSUME NEW u
      PROVE  IF w = "le" THEN IF u = "~" THEN Encode(w, u)[1] = "<" /\ Encode(w, u)[2] = "~"
                                         ELSE Encode(w, u)[1] = u /\ Encode(w, u)[2] = "0"
             ELSE IF u = "~" THEN Encode(w, u)[1] = "~" /\ Encode(w, u)[2] = "<"
                             ELSE Encode(w, u)[1] = "0" /\ Encode(w, u)[2] = u
  <2>1. CASE w = "le"
    <3>1. CASE u = "~"
      <4>1. Encode(w, u) = <<"<", "~">>
        BY <2>1, <3>1 DEF Encode
      <4> QED BY <2>1, <3>1, <4>1
    <3>2. CASE u # "~"
      <4>1. Encode(w, u) = <<u, "0">>
        BY <2>1, <3>2 DEF Encode
      <4> QED BY <2>1, <3>2, <4>1
    <3> QED BY <3>1, <3>2
  <2>2. CASE w = "be"
    <3>1. CASE u = "~"
      <4>1. Encode(w, u) = <<"~", "<">>
        BY <2>2, <3>1 DEF Encode
      <4> QED BY <2>2, <3>1, <4>1
    <3>2. CASE u # "~"
      <4>1. Encode(w, u) = <<"0", u>>
        BY <2>2, <3>2 DEF Encode
      <4> QED BY <2>2, <3>2, <4>1
    <3> QED BY <3>1, <3>2
  <2> QED BY <2>1, <2>2
<1> HIDE DEF e, w
<1>3. ASSUME NEW v \in 1..Len(units)
      PROVE  IF w = "le" THEN IF units[v] = "~" THEN e[2 * v - 1] = "<" /\ e[2 * v] = "~"
                                                ELSE e[2 * v - 1] = units[v] /\ e[2 * v] = "0"
             ELSE IF units[v] = "~" THEN e[2 * v - 1] = "~" /\ e[2 * v] = "<"
                                    ELSE e[2 * v - 1] = "0" /\ e[2 * v] = units[v]
  <2>1. PICK u : u = units[v]
    OBVIOUS
  <2>2. e[2 * v - 1] = Encode(w, u)[1] /\ e[2 * v] = Encode(w, u)[2]
    BY <1>1, <2>1
  <2> QED BY <1>2, <2>1, <2>2
<1>4. Pairs(e, w, units)
  BY <1>1, <1>3, Zenon DEF Pairs
<1> QED
  BY <1>4 DEF e, w

LEMMA WideViewed ==
    ASSUME NEW d, IsDocument(d), d.form.width \in {"le", "be"}, d.form.bom,
           bytes = Bom(d.form) \o Encoded(d.form, Units(d)), encoding = detectEncodingClass(bytes)
    PROVE  Viewed(d)
<1> DEFINE U == Units(d)
           b == Bom(d.form)
           e == Encoded(d.form, U)
           w == d.form.width
           x == IF w = "le" THEN "FF" ELSE "FE"
           y == IF w = "le" THEN "FE" ELSE "FF"
<1>1. U \in Seq(STRING)
  BY UnitsBegun DEF Begun
<1>2. Pairs(e, w, U)
  BY <1>1, EncodedPairs
<1>3. b = <<x, y>>
  BY DEF Bom
<1>4. x \in Bytes /\ y \in Bytes
  BY DEF Bytes, Reserved
<1>5. bytes = b \o e /\ w \in {"le", "be"}
  OBVIOUS
<1> HIDE DEF U, b, e, w
<1>6. b \in Seq(Bytes) /\ Len(b) = 2 /\ b[1] = x /\ b[2] = y
  <2> HIDE DEF x, y
  <2> QED BY <1>3, <1>4
<1>7. bytes \in Seq(Bytes) /\ Len(bytes) = Len(b) + Len(e)
      /\ (\A p \in 1..Len(b) : bytes[p] = b[p]) /\ (\A p \in 1..Len(e) : bytes[Len(b) + p] = e[p])
  <2>1. e \in Seq(Bytes)
    BY <1>2 DEF Pairs
  <2>2. b \in Seq(Bytes) /\ bytes = b \o e
    BY <1>5, <1>6
  <2>3. Joined(bytes, b, e)
    BY <2>1, <2>2, JoinIs, Zenon
  <2> QED BY <2>3 DEF Joined
<1>8. Len(U) \in Nat /\ Len(bytes) = 2 + 2 * Len(U) /\ bytes[1] = x /\ bytes[2] = y
      /\ \A p \in 1..(2 * Len(U)) : bytes[2 + p] = e[p]
  <2> HIDE DEF x, y
  <2>1. Len(U) \in Nat /\ Len(e) = 2 * Len(U)
    BY <1>1, <1>2 DEF Pairs
  <2>2. Len(b) = 2 /\ b[1] = x /\ b[2] = y
    BY <1>6
  <2>3. Len(bytes) = Len(b) + Len(e) /\ (\A p \in 1..Len(b) : bytes[p] = b[p])
        /\ \A p \in 1..Len(e) : bytes[Len(b) + p] = e[p]
    BY <1>7
  <2>4. 1 \in 1..2 /\ 2 \in 1..2
    OBVIOUS
  <2> QED BY <2>1, <2>2, <2>3, <2>4
<1>9. encoding = w
  <2>1. "FF" \in Bytes /\ "FE" \in Bytes
    BY DEF Bytes, Reserved
  <2>0. bytes \in Seq(Bytes)
    BY <1>7
  <2>2. IsPrefix(<<"FF", "FE">>, bytes) <=> Begins(bytes, "FF", "FE")
    BY <2>0, <2>1, PrefixIs, Zenon
  <2>3. IsPrefix(<<"FE", "FF">>, bytes) <=> Begins(bytes, "FE", "FF")
    BY <2>0, <2>1, PrefixIs, Zenon
  <2>4. CASE w = "le"
    <3>1. Begins(bytes, "FF", "FE") /\ ~Begins(bytes, "FE", "FF")
      BY <1>8, <2>4 DEF Begins
    <3> QED BY <2>2, <2>3, <2>4, <3>1 DEF detectEncodingClass
  <2>5. CASE w = "be"
    <3>1. Begins(bytes, "FE", "FF") /\ ~Begins(bytes, "FF", "FE")
      BY <1>8, <2>5 DEF Begins
    <3> QED BY <2>2, <2>3, <2>5, <3>1 DEF detectEncodingClass
  <2> QED BY <1>5, <2>4, <2>5
<1>10. Width = 2 /\ Ready
  BY <1>5, <1>8, <1>9 DEF Width, Ready
<1>11. \A p \in Nat : ~(p + 2 > Len(bytes)) =>
          unitAscii(p) = IF w = "le" THEN (IF bytes[p + 2] = "0" THEN bytes[p + 1] ELSE "~")
                                     ELSE (IF bytes[p + 1] = "0" THEN bytes[p + 2] ELSE "~")
  BY <1>5, <1>9, <1>10 DEF unitAscii
<1>12. \A v \in Nat : Spot(d, v) = 2 + 2 * v
  BY <1>6, <1>10 DEF Spot, b
<1>13. ASSUME NEW v \in 1..Len(U) PROVE unitAscii(Spot(d, v - 1)) = U[v]
  <2>1. PICK q : q = 2 * v
    OBVIOUS
  <2>2. q \in Nat /\ ~(q + 2 > Len(bytes)) /\ 2 + 2 * (v - 1) = q /\ v - 1 \in Nat
    BY <1>8, <2>1
  <2>3. Spot(d, v - 1) = q
    BY <1>12, <2>2
  <2>4. bytes[q + 1] = e[2 * v - 1] /\ bytes[q + 2] = e[2 * v]
    <3>1. 2 * v - 1 \in 1..(2 * Len(U)) /\ 2 * v \in 1..(2 * Len(U)) /\ 2 + (2 * v - 1) = q + 1 /\ 2 + 2 * v = q + 2
      BY <1>8, <2>1
    <3> QED BY <1>8, <3>1
  <2>5. unitAscii(q) = IF w = "le" THEN (IF e[2 * v] = "0" THEN e[2 * v - 1] ELSE "~")
                                   ELSE (IF e[2 * v - 1] = "0" THEN e[2 * v] ELSE "~")
    BY <1>11, <2>2, <2>4
  <2>6. IF w = "le" THEN IF U[v] = "~" THEN e[2 * v - 1] = "<" /\ e[2 * v] = "~"
                                             ELSE e[2 * v - 1] = U[v] /\ e[2 * v] = "0"
          ELSE IF U[v] = "~" THEN e[2 * v - 1] = "~" /\ e[2 * v] = "<"
                                 ELSE e[2 * v - 1] = "0" /\ e[2 * v] = U[v]
    BY <1>2 DEF Pairs
  <2> QED BY <2>3, <2>5, <2>6
<1>14. ASSUME NEW p \in Stops(0), p < 2 PROVE unitAscii(p) \notin {"<", "\n"}
  <2>1. p \in Nat /\ p % 2 = 0
    BY <1>8, <1>10, <1>14 DEF Stops
  <2>2. p = 0
    BY <1>14, <2>1
  <2>3. unitAscii(0) = IF w = "le" THEN (IF bytes[0 + 2] = "0" THEN bytes[0 + 1] ELSE "~")
                                     ELSE (IF bytes[0 + 1] = "0" THEN bytes[0 + 2] ELSE "~")
    <3>1. ~(0 + 2 > Len(bytes))
      BY <1>8
    <3> QED BY <1>11, <3>1
  <2>4. unitAscii(0) = "~"
    BY <1>8, <2>3
  <2> QED BY <2>2, <2>4
<1>15. Len(b) % Width = 0 /\ Len(b) \in Nat
  BY <1>6, <1>10
<1>16. Len(bytes) = Spot(d, Len(U))
  BY <1>8, <1>12
<1> QED
  BY <1>6, <1>9, <1>10, <1>13, <1>14, <1>15, <1>16 DEF Viewed, U, b, w

LEMMA PlainViewed ==
    ASSUME NEW d, IsDocument(d), Plain(d),
           bytes = Bom(d.form) \o Encoded(d.form, Units(d)), encoding = detectEncodingClass(bytes)
    PROVE  Viewed(d)
<1>1. d.form.width \in {"single", "le", "be"}
  BY DocumentTyped
<1>2. IF d.form.width = "single" THEN ~Misleads(d) ELSE d.form.bom
  BY DEF Plain
<1> QED
  BY <1>1, <1>2, SingleViewed, WideViewed

\* Where two letters are never neighbours, nothing is declared.
LEMMA NoKey ==
    ASSUME NEW raw \in Seq(Bytes), \A m \in 1..Len(raw) : m < Len(raw) => {raw[m], raw[m + 1]} \cap {"0", "~"} # {}
    PROVE  declarationEncodingClass(raw) = "single"
<1> DEFINE last == Min({Len(raw), HeadBytes})
           head == SubSeq(raw, 1, last)
<1>1. last \in 0..Len(raw)
  <2>1. Len(raw) \in Nat /\ HeadBytes = 300
    BY DEF HeadBytes
  <2>2. last = Len(raw) \/ (last = HeadBytes /\ HeadBytes <= Len(raw))
    <3> DEFINE S == {Len(raw), HeadBytes}
    <3>1. S \subseteq Int
      BY <2>1
    <3>2. CASE Len(raw) <= HeadBytes
      <4>1. Len(raw) \in S /\ \A y \in S : Len(raw) <= y
        BY <2>1, <3>2
      <4> HIDE DEF S
      <4>2. Min(S) = Len(raw)
        BY <3>1, <4>1, LeastIs
      <4> QED BY <4>2 DEF S
    <3>3. CASE HeadBytes <= Len(raw)
      <4>1. HeadBytes \in S /\ \A y \in S : HeadBytes <= y
        BY <2>1, <3>3
      <4> HIDE DEF S
      <4>2. Min(S) = HeadBytes
        BY <3>1, <4>1, LeastIs
      <4> QED BY <3>3, <4>2 DEF S
    <3> QED BY <2>1, <3>2, <3>3
  <2> HIDE DEF last
  <2> QED BY <2>1, <2>2
<1> HIDE DEF last
<1>2. head \in Seq(Bytes) /\ Len(head) = last /\ \A m \in 1..last : head[m] = raw[m]
  BY <1>1
<1> HIDE DEF head
<1>3. Occurrences(head, EncodingKey) = {}
  <2>1. SUFFICES ASSUME NEW m \in DOMAIN head, Stands(head, m, EncodingKey) PROVE FALSE
    BY DEF Occurrences
  <2>2. Len(EncodingKey) = 8 /\ 1 \in DOMAIN EncodingKey /\ 2 \in DOMAIN EncodingKey
        /\ EncodingKey[1] = "e" /\ EncodingKey[2] = "n"
    BY DEF EncodingKey
  <2>3. m + 8 - 1 <= Len(head) /\ head[m + 1 - 1] = "e" /\ head[m + 2 - 1] = "n"
    BY <2>1, <2>2 DEF Stands
  <2>4. m \in 1..Len(raw) /\ m < Len(raw) /\ m \in 1..last /\ m + 1 \in 1..last /\ m + 1 - 1 = m /\ m + 2 - 1 = m + 1
    BY <1>1, <1>2, <2>3
  <2>5. raw[m] = "e" /\ raw[m + 1] = "n"
    BY <1>2, <2>3, <2>4
  <2> QED BY <2>4, <2>5
<1>4. Declared(raw) = <<>>
  <2>1. First(Occurrences(head, EncodingKey)) = Fail
    BY <1>3 DEF First
  <2> QED BY <2>1, Zenon DEF Declared, head, last
<1>5. ~Claims(raw, Utf16)
  BY <1>4 DEF Claims, Occurrences
<1> QED
  BY <1>5 DEF declarationEncodingClass

\* Two bytes a character without a byte order mark: what follows a '<' is no name.
LEMMA BareSeen ==
    ASSUME NEW d, IsDocument(d), d.form.width # "single", ~d.form.bom,
           bytes = Bom(d.form) \o Encoded(d.form, Units(d)), encoding = detectEncodingClass(bytes)
    PROVE  /\ Ready
           /\ \A p \in Nat : unitAscii(p) = "<" => unitAscii(p + Width) \in {"0", "~"}
<1> DEFINE U == Units(d)
           e == Encoded(d.form, U)
           w == d.form.width
<1>0. w \in {"le", "be"} /\ ~d.form.bom
  BY DocumentTyped
<1>1. U \in Seq(STRING) /\ \A v \in 1..Len(U) : U[v] \notin Reserved
  BY UnitsBegun DEF Begun
<1>2. Pairs(e, w, U)
  BY <1>0, <1>1, EncodedPairs
<1>3. bytes = e
  <2>1. Bom(d.form) = <<>>
    BY <1>0 DEF Bom
  <2>2. e \in Seq(Bytes)
    BY <1>2 DEF Pairs
  <2> HIDE DEF e
  <2> QED BY <2>1, <2>2 DEF e
<1> HIDE DEF U, w
<1>4. bytes \in Seq(Bytes) /\ Len(U) \in Nat /\ Len(bytes) = 2 * Len(U)
  <2> HIDE DEF e
  <2> QED BY <1>1, <1>2, <1>3 DEF Pairs
<1>5. ASSUME NEW v \in 1..Len(U)
      PROVE  IF w = "le" THEN IF U[v] = "~" THEN bytes[2 * v - 1] = "<" /\ bytes[2 * v] = "~"
                                             ELSE bytes[2 * v - 1] = U[v] /\ bytes[2 * v] = "0"
          ELSE IF U[v] = "~" THEN bytes[2 * v - 1] = "~" /\ bytes[2 * v] = "<"
                                 ELSE bytes[2 * v - 1] = "0" /\ bytes[2 * v] = U[v]
  <2> HIDE DEF e
  <2> QED BY <1>2, <1>3 DEF Pairs
<1> HIDE DEF e
<1>6. encoding = "single"
  <2>1. Len(bytes) >= 1 => bytes[1] # "FF" /\ bytes[1] # "FE"
    <3>1. SUFFICES ASSUME Len(bytes) >= 1 PROVE bytes[1] # "FF" /\ bytes[1] # "FE"
      OBVIOUS
    <3>2. 1 \in 1..Len(U) /\ 2 * 1 - 1 = 1
      BY <1>4, <3>1
    <3>3. bytes[1] \in {"<", U[1], "~", "0"}
      BY <1>5, <3>2
    <3>4. U[1] \notin Reserved
      BY <1>1, <3>2
    <3> QED BY <3>3, <3>4 DEF Reserved
  <2>2. bytes \in Seq(Bytes) /\ Unmarked(bytes)
    BY <1>4, <2>1 DEF Unmarked
  <2>3. ASSUME NEW m \in 1..Len(bytes), m < Len(bytes) PROVE {bytes[m], bytes[m + 1]} \cap {"0", "~"} # {}
    <3>1. PICK v \in 1..Len(U) : m = 2 * v - 1 \/ m = 2 * v
      <4>0. m - 1 \in Nat /\ (m - 1) + 1 = m /\ (m - 1) + 1 <= 2 * Len(U)
        BY <1>4
      <4>1. PICK p, n : p + 1 = m /\ p \in Nat /\ n = Len(U) /\ n \in Nat /\ p + 1 <= 2 * n
        BY <1>4, <4>0
      <4>2. (p + 2) \div 2 \in 1..n /\ (p + 1 = 2 * ((p + 2) \div 2) - 1 \/ p + 1 = 2 * ((p + 2) \div 2))
        BY <4>1
      <4> QED BY <4>1, <4>2
    <3>2. CASE m = 2 * v - 1
      <4>1. m + 1 = 2 * v
        BY <3>2
      <4>2. {bytes[2 * v - 1], bytes[2 * v]} \cap {"0", "~"} # {}
        BY <1>5
      <4> QED BY <3>2, <4>1, <4>2
    <3>3. CASE m = 2 * v
      <4>1. v + 1 \in 1..Len(U) /\ m + 1 = 2 * (v + 1) - 1
        BY <1>4, <2>3, <3>3
      <4>2. CASE w = "le"
        <5>1. bytes[m] \in {"0", "~"}
          BY <1>5, <3>3, <4>2
        <5> QED BY <5>1
      <4>3. CASE w = "be"
        <5>1. bytes[2 * (v + 1) - 1] \in {"0", "~"}
          BY <1>5, <4>1, <4>3
        <5> QED BY <4>1, <5>1
      <4> QED BY <1>0, <4>2, <4>3 DEF w
    <3> QED BY <3>1, <3>2, <3>3
  <2> QED BY <2>2, <2>3, NoKey, NotMarked
<1>7. Width = 1 /\ Ready
  BY <1>4, <1>6 DEF Width, Ready
<1>8. \A p \in Nat : unitAscii(p) = IF p + 1 > Len(bytes) THEN "~" ELSE bytes[p + 1]
  BY <1>6, <1>7 DEF unitAscii
<1>9. ASSUME NEW p \in Nat, unitAscii(p) = "<" PROVE unitAscii(p + 1) \in {"0", "~"}
  <2>1. p + 1 <= Len(bytes) /\ bytes[p + 1] = "<"
    <3>1. unitAscii(p) = IF p + 1 > Len(bytes) THEN "~" ELSE bytes[p + 1]
      BY <1>8
    <3>2. Len(bytes) \in Nat
      BY <1>4
    <3>3. ~(p + 1 > Len(bytes))
      BY <1>9, <3>1
    <3> QED BY <1>9, <3>1, <3>2, <3>3
  <2>2. PICK v \in 1..Len(U) : p + 1 = 2 * v - 1 \/ p + 1 = 2 * v
    <3>1. (p + 2) \div 2 \in 1..Len(U) /\ (p + 1 = 2 * ((p + 2) \div 2) - 1 \/ p + 1 = 2 * ((p + 2) \div 2))
      BY <1>4, <2>1
    <3> QED BY <3>1
  <2>3. U[v] # "0"
    BY <1>1 DEF Reserved
  <2>4. unitAscii(p + 1) = IF (p + 1) + 1 > Len(bytes) THEN "~" ELSE bytes[(p + 1) + 1]
    <3>1. p + 1 \in Nat
      OBVIOUS
    <3> QED BY <1>8, <3>1
  <2>5. CASE p + 1 = 2 * v - 1
    <3>1. (p + 1) + 1 = 2 * v /\ ~((p + 1) + 1 > Len(bytes))
      BY <1>4, <2>5
    <3>2. unitAscii(p + 1) = bytes[2 * v]
      BY <2>4, <3>1
    <3>3. bytes[2 * v - 1] = "<"
      BY <2>1, <2>5
    <3> QED BY <1>5, <3>2, <3>3
  <2>6. CASE p + 1 = 2 * v
    <3>0. bytes[2 * v] = "<"
      BY <2>1, <2>6
    <3>1. w = "be"
      BY <1>0, <1>5, <3>0 DEF w
    <3>2. CASE v = Len(U)
      <4>1. (p + 1) + 1 > Len(bytes)
        BY <1>4, <2>6, <3>2
      <4> QED BY <2>4, <4>1
    <3>3. CASE v # Len(U)
      <4>1. v + 1 \in 1..Len(U) /\ 2 * (v + 1) - 1 = (p + 1) + 1 /\ ~((p + 1) + 1 > Len(bytes))
        BY <1>4, <2>6, <3>3
      <4>2. bytes[2 * (v + 1) - 1] \in {"0", "~"}
        BY <1>5, <3>1, <4>1
      <4> QED BY <2>4, <4>1, <4>2
    <3> QED BY <3>2, <3>3
  <2> QED BY <2>2, <2>5, <2>6
<1> QED
  BY <1>6, <1>7, <1>9

\* Single bytes taken for two a character: none of them is NUL.
LEMMA MisledSeen ==
    ASSUME NEW d, IsDocument(d), d.form.width = "single", Misleads(d),
           bytes = Bom(d.form) \o Encoded(d.form, Units(d)), encoding = detectEncodingClass(bytes)
    PROVE  Ready /\ \A p \in Nat : unitAscii(p) # "<"
<1> DEFINE U == Units(d)
           b == Bom(d.form)
<1>1. Single(d, b, U, bytes)
  BY SingleBytes
<1> HIDE DEF U, b
<1>2. bytes \in Seq(Bytes) /\ encoding \in {"le", "be"} /\ \A m \in 1..Len(bytes) : bytes[m] # "0"
  BY <1>1 DEF Single, Joined
<1>3. Width = 2 /\ Ready
  BY <1>2 DEF Width, Ready
<1>4. ASSUME NEW p \in Nat PROVE unitAscii(p) = "~"
  <2>1. ~(p + Width > Len(bytes)) => p + 1 \in 1..Len(bytes) /\ p + 2 \in 1..Len(bytes)
    BY <1>2, <1>3
  <2> QED BY <1>2, <2>1 DEF unitAscii
<1> QED
  BY <1>3, <1>4

LEMMA NotPlainSeen ==
    ASSUME NEW d, IsDocument(d), ~Plain(d),
           bytes = Bom(d.form) \o Encoded(d.form, Units(d)), encoding = detectEncodingClass(bytes)
    PROVE  /\ Ready
           /\ \A p \in Nat : unitAscii(p) = "<" => unitAscii(p + Width) \in {"0", "~"}
<1>1. CASE d.form.width = "single"
  <2>1. Misleads(d)
    BY <1>1 DEF Plain
  <2> QED BY <1>1, <2>1, MisledSeen
<1>2. CASE d.form.width # "single"
  <2>1. ~d.form.bom
    BY <1>2 DEF Plain
  <2> QED BY <1>2, <2>1, BareSeen
<1> QED
  BY <1>1, <1>2

--------------------------------------------------------------------------------
(* Scanning units that are known *)

\* The position j units on.
Step(p, j) == p + Width * j

LEMMA StepIs ==
    ASSUME NEW p \in Nat, NEW i \in Nat
    PROVE  /\ Step(p, i) \in Nat /\ Step(p, 0) = p /\ Step(p, i + 1) = Step(p, i) + Width /\ Step(p, i) >= p
           /\ Step(p, 1) = p + Width
           /\ \A j \in Nat : /\ Step(Step(p, i), j) = Step(p, i + j)
                             /\ i < j => Step(p, i) < Step(p, j)
                             /\ Step(p, i) < Step(p, j) => i < j
<1>1. CASE Width = 1
  BY <1>1 DEF Step
<1>2. CASE Width = 2
  BY <1>2 DEF Step
<1> QED
  BY <1>1, <1>2, WidthIs

LEMMA StopsAre ==
    ASSUME Ready, NEW p \in Nat
    PROVE  /\ \A q \in Stops(p) : \E i \in Nat : q = Step(p, i)
           /\ \A i \in Nat : Step(p, i) < Len(bytes) => Step(p, i) \in Stops(p)
<1>1. CASE Width = 1
  <2>1. ASSUME NEW q \in Stops(p) PROVE q - p \in Nat /\ q = Step(p, q - p)
    BY <1>1, <2>1 DEF Ready, Stops, Step
  <2>2. ASSUME NEW i \in Nat, Step(p, i) < Len(bytes) PROVE Step(p, i) \in Stops(p)
    BY <1>1, <2>2 DEF Ready, Stops, Step
  <2> QED BY <2>1, <2>2
<1>2. CASE Width = 2
  <2>1. ASSUME NEW q \in Stops(p) PROVE (q - p) \div 2 \in Nat /\ q = Step(p, (q - p) \div 2)
    <3>1. q \in p..(Len(bytes) - 1) /\ (q - p) % 2 = 0
      BY <1>2, <2>1 DEF Stops
    <3> QED BY <1>2, <3>1 DEF Ready, Step
  <2>2. ASSUME NEW i \in Nat, Step(p, i) < Len(bytes) PROVE Step(p, i) \in Stops(p)
    <3>1. Step(p, i) = p + 2 * i /\ ((p + 2 * i) - p) % 2 = 0
      BY <1>2 DEF Step
    <3> QED BY <1>2, <2>2, <3>1 DEF Ready, Stops
  <2> QED BY <2>1, <2>2
<1> QED
  BY <1>1, <1>2, WidthIs

\* The units stand in the file from p on.
Shown(p, u) ==
    /\ p \in Nat /\ Len(u) \in Nat /\ Step(p, Len(u)) <= Len(bytes)
    /\ \A j \in 1..Len(u) : unitAscii(Step(p, j - 1)) = u[j]

LEMMA ShownAt ==
    ASSUME Ready, NEW u, NEW p, Shown(p, u), NEW j \in 0..(Len(u) - 1)
    PROVE  unitAscii(Step(p, j)) = u[j + 1] /\ Step(p, j) \in Nat /\ Inside(Step(p, j))
<1>1. p \in Nat /\ Len(u) \in Nat /\ Step(p, Len(u)) <= Len(bytes) /\ j \in Nat /\ j < Len(u)
  BY DEF Shown
<1>2. Step(p, j) \in Nat /\ Step(p, j) < Step(p, Len(u)) /\ Step(p, Len(u)) \in Nat
  BY <1>1, StepIs
<1>3. PICK i : i = j + 1
  OBVIOUS
<1>4. i \in 1..Len(u) /\ i - 1 = j
  BY <1>1, <1>3
<1>5. unitAscii(Step(p, i - 1)) = u[i]
  BY <1>4 DEF Shown
<1> QED
  BY <1>1, <1>2, <1>3, <1>4, <1>5 DEF Inside, Ready

\* A literal stands where the scanner matches it.
LEMMA MatchIs ==
    ASSUME Ready, NEW u, NEW p, Shown(p, u), NEW t, IsLiteral(t),
           NEW m \in Nat, m >= 1, m + Len(t) - 1 <= Len(u)
    PROVE  matchLiteral(Step(p, m - 1), t) <=> Stands(u, m, t)
<1>1. p \in Nat /\ Len(u) \in Nat /\ Len(t) \in Nat /\ DOMAIN t = 1..Len(t)
  BY DEF Shown, IsLiteral
<1>2. ASSUME NEW k \in 1..Len(t) PROVE unitAscii(Step(p, m - 1) + (k - 1) * Width) = u[m + k - 1]
  <2>1. Step(p, m - 1) + (k - 1) * Width = Step(p, (m - 1) + (k - 1))
    <3>1. CASE Width = 1
      BY <1>1, <3>1 DEF Step
    <3>2. CASE Width = 2
      BY <1>1, <3>2 DEF Step
    <3> QED BY <3>1, <3>2, WidthIs
  <2>2. PICK j : j = (m - 1) + (k - 1)
    OBVIOUS
  <2>3. j \in 0..(Len(u) - 1) /\ j + 1 = m + k - 1
    BY <1>1, <2>2
  <2> QED BY <2>1, <2>2, <2>3, ShownAt
<1> QED
  BY <1>1, <1>2 DEF matchLiteral, Stands

LEMMA DelimitedExact ==
    ASSUME Ready, NEW u, NEW p, Shown(p, u), NEW t, IsLiteral(t), EndsAtFirst(u, 1, t)
    PROVE  skipDelimited(p, t) = Step(p, Len(u))
<1> DEFINE n == Len(u)
           z == Len(t)
           last == n - z + 1
           S == {q \in Stops(p) : matchLiteral(q, t)}
           x == Step(p, last - 1)
<1>1. p \in Nat /\ n \in Nat /\ z \in Nat /\ z >= 1 /\ Len(bytes) \in Nat
  BY DEF Shown, IsLiteral, Ready
<1>2. last \in Nat /\ last >= 1 /\ last <= n /\ last + z - 1 = n /\ \A m \in 1..last : Stands(u, m, t) <=> m = last
  BY <1>1 DEF EndsAtFirst
<1> HIDE DEF n, z, last
<1>3. x \in S /\ x \in Nat
  <2>1. last - 1 \in 0..(n - 1) /\ last - 1 \in Nat
    BY <1>1, <1>2
  <2>2. x \in Nat /\ Inside(x)
    BY <2>1, ShownAt DEF n
  <2>3. x \in Stops(p)
    BY <1>1, <2>1, <2>2, StopsAre DEF Inside
  <2>4. matchLiteral(x, t)
    <3>1. Stands(u, last, t)
      BY <1>2
    <3>2. last + Len(t) - 1 <= Len(u)
      BY <1>1, <1>2 DEF n, z
    <3> QED BY <1>2, <3>1, <3>2, MatchIs
  <2> QED BY <2>2, <2>3, <2>4
<1>4. ASSUME NEW q \in S PROVE x <= q
  <2>1. PICK i \in Nat : q = Step(p, i)
    BY <1>1, StopsAre
  <2>2. CASE i < last - 1
    <3>1. i + 1 \in 1..last /\ i + 1 # last /\ i + 1 \in Nat /\ (i + 1) + z - 1 <= n /\ (i + 1) - 1 = i
      BY <1>1, <1>2, <2>2
    <3>2. ~Stands(u, i + 1, t)
      BY <1>2, <3>1
    <3>3. PICK m : m = i + 1
      OBVIOUS
    <3>4. matchLiteral(Step(p, m - 1), t) <=> Stands(u, m, t)
      BY <3>1, <3>3, MatchIs DEF n, z
    <3>5. Step(p, m - 1) = q
      BY <2>1, <3>1, <3>3
    <3> QED BY <3>2, <3>3, <3>4, <3>5
  <2>3. CASE ~(i < last - 1)
    <3>1. last - 1 \in Nat /\ (i = last - 1 \/ last - 1 < i)
      BY <1>2, <2>3
    <3>2. x \in Nat /\ Step(p, i) \in Nat /\ (last - 1 < i => x < Step(p, i))
      BY <1>1, <3>1, StepIs
    <3> QED BY <2>1, <3>1, <3>2
  <2> QED BY <2>2, <2>3
<1>5. S \subseteq Int
  BY <1>1, StopsRange
<1>6. First(S) = x
  <2> HIDE DEF S, x
  <2> QED BY <1>3, <1>4, <1>5, FirstIs
<1>7. skipDelimited(p, t) = x + z * Width
  BY <1>3, <1>6 DEF skipDelimited, Fail, z
<1>8. x + z * Width = Step(p, n)
  <2>1. CASE Width = 1
    BY <1>1, <1>2, <2>1 DEF Step
  <2>2. CASE Width = 2
    BY <1>1, <1>2, <2>2 DEF Step
  <2> QED BY <2>1, <2>2, WidthIs
<1> QED
  BY <1>7, <1>8 DEF n

\* Past a quoted value: its closing quote is the first one like it.
LEMMA QuotedExact ==
    ASSUME Ready, NEW u, NEW p, Shown(p, u), NEW j \in 1..Len(u), NEW k \in (j + 1)..Len(u),
           u[k] = u[j], \A i \in (j + 1)..(k - 1) : u[i] # u[j]
    PROVE  skipQuoted(Step(p, j - 1)) = Step(p, k)
<1> DEFINE n == Len(u)
           q == Step(p, j - 1)
           S == {r \in Stops(q + Width) : unitAscii(r) = unitAscii(q)}
           x == Step(p, k - 1)
<1>1. p \in Nat /\ n \in Nat /\ Len(bytes) \in Nat /\ j \in Nat /\ k \in Nat /\ j >= 1 /\ j < k /\ k <= n
  BY DEF Shown, Ready
<1> HIDE DEF n
<1>2. q \in Nat /\ unitAscii(q) = u[j] /\ q + Width = Step(p, j)
  <2>1. PICK i : i = j - 1
    OBVIOUS
  <2>2. i \in 0..(Len(u) - 1) /\ i + 1 = j /\ i \in Nat
    BY <1>1, <2>1 DEF n
  <2>3. unitAscii(Step(p, i)) = u[i + 1] /\ Step(p, i) \in Nat
    BY <2>2, ShownAt
  <2>4. Step(p, i + 1) = Step(p, i) + Width
    BY <1>1, <2>2, StepIs
  <2> QED BY <2>1, <2>2, <2>3, <2>4
<1>a. \A i \in Nat : Step(Step(p, j), i) = Step(p, j + i) /\ Step(p, j) \in Nat
  BY <1>1, StepIs
<1>3. x \in Nat /\ x \in S
  <2>1. PICK i : i = k - 1
    OBVIOUS
  <2>2. i \in 0..(Len(u) - 1) /\ i + 1 = k /\ i \in Nat /\ i - j \in Nat /\ j + (i - j) = i
    BY <1>1, <2>1 DEF n
  <2>3. unitAscii(x) = u[k] /\ x \in Nat /\ Inside(x)
    BY <2>1, <2>2, ShownAt
  <2>4. x = Step(Step(p, j), i - j)
    BY <1>a, <2>1, <2>2
  <2>5. x \in Stops(Step(p, j))
    <3>1. PICK o \in Nat : o = Step(p, j)
      BY <1>a
    <3>2. Step(o, i - j) = x /\ x < Len(bytes)
      BY <1>1, <2>3, <2>4, <3>1 DEF Inside
    <3>3. Step(o, i - j) \in Stops(o)
      BY <2>2, <3>2, StopsAre
    <3> QED BY <3>1, <3>2, <3>3
  <2> QED BY <1>2, <2>3, <2>5
<1>4. ASSUME NEW r \in S PROVE x <= r
  <2>0. PICK o \in Nat : o = Step(p, j)
    BY <1>a
  <2>a. r \in Stops(o)
    BY <1>2, <2>0
  <2>b. PICK i \in Nat : r = Step(o, i)
    BY <2>a, StopsAre
  <2>1. r = Step(p, j + i)
    BY <1>a, <2>0, <2>b
  <2>2. CASE j + i < k - 1
    <3>1. PICK m : m = j + i
      OBVIOUS
    <3>2. m \in 0..(Len(u) - 1) /\ m + 1 \in (j + 1)..(k - 1)
      BY <1>1, <2>2, <3>1 DEF n
    <3>3. unitAscii(r) = u[m + 1]
      BY <2>1, <3>1, <3>2, ShownAt
    <3>4. unitAscii(r) = u[j]
      BY <1>2
    <3> QED BY <3>2, <3>3, <3>4
  <2>3. CASE ~(j + i < k - 1)
    <3>1. k - 1 \in Nat /\ j + i \in Nat /\ (j + i = k - 1 \/ k - 1 < j + i)
      BY <1>1, <2>3
    <3>2. x \in Nat /\ Step(p, j + i) \in Nat /\ (k - 1 < j + i => x < Step(p, j + i))
      BY <1>1, <3>1, StepIs
    <3> QED BY <2>1, <3>1, <3>2
  <2> QED BY <2>2, <2>3
<1>5. S \subseteq Int
  <2>1. Step(p, j) \in Nat
    BY <1>a
  <2> QED BY <1>2, <2>1, StopsRange
<1>6. First(S) = x
  <2> HIDE DEF S, x
  <2> QED BY <1>3, <1>4, <1>5, FirstIs
<1>7. skipQuoted(q) = x + Width
  BY <1>3, <1>6 DEF skipQuoted, Fail
<1>8. x + Width = Step(p, k)
  <2>1. k - 1 \in Nat /\ (k - 1) + 1 = k
    BY <1>1
  <2>2. Step(p, (k - 1) + 1) = Step(p, k - 1) + Width
    BY <1>1, <2>1, StepIs
  <2> QED BY <2>1, <2>2
<1> QED
  BY <1>7, <1>8

\* Where a quote that is open at j and not at m closes.
Closes(u, j, m, k) ==
    /\ k \in (j + 1)..m /\ u[k] = u[j] /\ QuoteAt(u)[k] = Unquoted
    /\ \A i \in (j + 1)..(k - 1) : u[i] # u[j]
    /\ \A i \in j..(k - 1) : QuoteAt(u)[i] = u[j]

LEMMA QuoteCloses ==
    ASSUME NEW u \in Seq(STRING), NEW j \in 1..Len(u), NEW m \in j..Len(u),
           u[j] \in Quotes, QuoteAt(u)[j - 1] = Unquoted, QuoteAt(u)[m] = Unquoted
    PROVE  \E k \in Nat : Closes(u, j, m, k)
<1> DEFINE Q == QuoteAt(u)
           n == Len(u)
           c == u[j]
           S == {i \in (j + 1)..m : u[i] = c}
<1>1. n \in Nat /\ j \in Nat /\ m \in Nat /\ j <= m /\ m <= n /\ j >= 1
  OBVIOUS
<1>2. \A k \in 1..n : Q[k] = QuoteAfter(Q[k - 1], u[k])
  BY QuoteSteps
<1>3. c \in Quotes /\ c # Unquoted
  BY DEF Quotes, Unquoted
<1> HIDE DEF Q, n, c
<1>4. Q[j] = c
  <2>1. Q[j] = QuoteAfter(Q[j - 1], u[j])
    BY <1>1, <1>2
  <2>2. Q[j - 1] = Unquoted /\ u[j] = c
    BY DEF Q, c
  <2> QED BY <1>3, <2>1, <2>2 DEF QuoteAfter
<1>5. ASSUME NEW i \in (j + 1)..n, Q[i - 1] = c
      PROVE  (u[i] # c => Q[i] = c) /\ (u[i] = c => Q[i] = Unquoted)
  <2>1. Q[i] = QuoteAfter(c, u[i])
    BY <1>1, <1>2, <1>5
  <2> QED BY <1>3, <2>1 DEF QuoteAfter
<1>6. ASSUME NEW x \in j..m, \A i \in (j + 1)..x : u[i] # c
      PROVE  \A i \in j..x : Q[i] = c
  <2> DEFINE P == {e \in 0..(x - j) : Q[j + e] = c}
  <2>1. 0 \in P
    BY <1>1, <1>4
  <2>2. ASSUME NEW e \in 1..(x - j), e - 1 \in P PROVE e \in P
    <3>1. j + e \in (j + 1)..n /\ (j + e) - 1 = j + (e - 1) /\ j + e \in (j + 1)..x
      BY <1>1
    <3>2. Q[(j + e) - 1] = c
      BY <2>2, <3>1
    <3>3. Q[j + e] = c
      BY <1>5, <1>6, <3>1, <3>2
    <3> QED BY <3>3
  <2>3. 0..(x - j) \subseteq P
    <3>1. x - j \in Nat
      BY <1>1
    <3> HIDE DEF P
    <3> QED BY <2>1, <2>2, <3>1, Turns
  <2>4. ASSUME NEW i \in j..x PROVE Q[i] = c
    <3>1. i - j \in 0..(x - j) /\ j + (i - j) = i
      BY <1>1
    <3>2. i - j \in P
      <4> HIDE DEF P
      <4> QED BY <2>3, <3>1
    <3> QED BY <3>1, <3>2
  <2> QED BY <2>4
<1>7. S # {}
  <2>1. ASSUME S = {} PROVE FALSE
    <3>1. \A i \in (j + 1)..m : u[i] # c
      BY <2>1
    <3>2. m \in j..m /\ m \in Nat
      BY <1>1
    <3>3. Q[m] = c
      BY <1>6, <3>1, <3>2
    <3> QED BY <1>3, <3>3 DEF Q
  <2> QED BY <2>1
<1>8. S \subseteq Nat /\ \A i \in S : i \in (j + 1)..m /\ u[i] = c
  BY <1>1
<1>a. \A i \in (j + 1)..m : u[i] = c => i \in S
  OBVIOUS
<1> HIDE DEF S
<1>9. PICK k \in S : \A y \in S : k <= y
  BY <1>7, <1>8, Least
<1>10. k \in (j + 1)..m /\ u[k] = c /\ k - 1 \in j..m /\ k \in (j + 1)..n
  BY <1>1, <1>8
<1>11. \A i \in (j + 1)..(k - 1) : u[i] # c
  <2>1. ASSUME NEW i \in (j + 1)..(k - 1), u[i] = c PROVE FALSE
    <3>1. i \in (j + 1)..m /\ ~(k <= i)
      BY <1>1, <1>10
    <3> QED BY <1>9, <1>a, <2>1, <3>1
  <2> QED BY <2>1
<1>12. \A i \in j..(k - 1) : Q[i] = c
  BY <1>6, <1>10, <1>11
<1>13. Q[k] = Unquoted
  <2>1. k - 1 \in j..(k - 1)
    BY <1>1, <1>10
  <2> QED BY <1>5, <1>10, <1>12, <2>1
<1>14. Closes(u, j, m, k)
  BY <1>10, <1>11, <1>12, <1>13 DEF Closes, Q, c
<1> QED
  BY <1>8, <1>9, <1>14

LEMMA PlainUnit ==
    ASSUME NEW u \in Seq(STRING), NEW j \in 1..Len(u), u[j] \notin Quotes, QuoteAt(u)[j - 1] = Unquoted
    PROVE  QuoteAt(u)[j] = Unquoted
<1>1. QuoteAt(u)[j] = QuoteAfter(QuoteAt(u)[j - 1], u[j])
  BY QuoteSteps
<1> QED
  BY <1>1 DEF QuoteAfter

\* The attributes of a tag, and what closes it.
Attributes(attrs) ==
    /\ attrs \in Seq(STRING) /\ QuoteAt(attrs)[Len(attrs)] = Unquoted
    /\ \A k \in 1..Len(attrs) : QuoteAt(attrs)[k - 1] = Unquoted => attrs[k] \notin {"<", ">", "/"}
Closed(u, attrs, selfClosed) ==
    /\ \A j \in 1..Len(attrs) : u[j] = attrs[j]
    /\ IF selfClosed THEN Len(u) = Len(attrs) + 2 /\ u[Len(attrs) + 1] = "/" /\ u[Len(attrs) + 2] = ">"
                     ELSE Len(u) = Len(attrs) + 1 /\ u[Len(attrs) + 1] = ">"

LEMMA TagEndExact ==
    ASSUME Ready, NEW open, NEW u, NEW p, Shown(p, u), NEW attrs, Attributes(attrs),
           NEW selfClosed \in BOOLEAN, Closed(u, attrs, selfClosed)
    PROVE  TagEnd(open, p) = Bounds(open, Step(p, Len(u)), selfClosed)
<1> DEFINE m == Len(attrs)
           n == Len(u)
           Q == QuoteAt(attrs)
           result == Bounds(open, Step(p, n), selfClosed)
           P == {k \in 0..m : \A i \in k..m : Q[i] = Unquoted => TagEnd(open, Step(p, i)) = result}
<1>1. p \in Nat /\ n \in Nat /\ m \in Nat /\ m < n /\ attrs \in Seq(STRING)
  BY DEF Shown, Attributes, Closed
<1>2. Q[m] = Unquoted /\ Q[0] = Unquoted /\ \A k \in 1..m : Q[k - 1] = Unquoted => attrs[k] \notin {"<", ">", "/"}
  BY <1>1, QuoteSteps DEF Attributes
<1>3. \A j \in 1..m : u[j] = attrs[j]
  BY DEF Closed
<1>4. \A i \in 0..m : Step(p, i) \in Nat /\ Inside(Step(p, i)) /\ unitAscii(Step(p, i)) = u[i + 1]
                      /\ Step(p, i + 1) = Step(p, i) + Width
  <2>1. ASSUME NEW i \in 0..m
        PROVE  Step(p, i) \in Nat /\ Inside(Step(p, i)) /\ unitAscii(Step(p, i)) = u[i + 1]
               /\ Step(p, i + 1) = Step(p, i) + Width
    <3>1. i \in 0..(Len(u) - 1) /\ i \in Nat
      BY <1>1
    <3>2. Step(p, i) \in Nat /\ Inside(Step(p, i)) /\ unitAscii(Step(p, i)) = u[i + 1]
      BY <3>1, ShownAt
    <3>3. Step(p, i + 1) = Step(p, i) + Width
      BY <1>1, <3>1, StepIs
    <3> QED BY <3>2, <3>3
  <2> QED BY <2>1
<1>5. TagEnd(open, Step(p, m)) = result
  <2>0. m \in 0..m
    BY <1>1
  <2>1. Step(p, m) \in Int /\ Inside(Step(p, m)) /\ unitAscii(Step(p, m)) = u[m + 1] /\ Step(p, m + 1) = Step(p, m) + Width
    BY <1>4, <2>0
  <2>2. CASE selfClosed = TRUE
    <3>1. n = m + 2 /\ u[m + 1] = "/" /\ u[m + 2] = ">"
      BY <2>2 DEF Closed
    <3>2. unitAscii(Step(p, m + 1)) = u[m + 2] /\ Step(p, m + 2) = Step(p, m + 1) + Width
      <4>1. PICK i : i = m + 1
        OBVIOUS
      <4>2. i \in 0..(Len(u) - 1) /\ i \in Nat /\ i + 1 = m + 2
        BY <1>1, <3>1, <4>1
      <4>3. unitAscii(Step(p, i)) = u[i + 1]
        BY <4>2, ShownAt
      <4>4. Step(p, i + 1) = Step(p, i) + Width
        BY <1>1, <4>2, StepIs
      <4> QED BY <4>1, <4>2, <4>3, <4>4
    <3>3. SlashAt(Step(p, m)) /\ unitAscii(Step(p, m)) # ">"
      BY <2>1, <3>1, <3>2 DEF SlashAt
    <3>4. Step(p, m) \in TagStops
      BY <2>1, <3>3, Zenon DEF TagStops
    <3>5. TagEnd(open, Step(p, m)) = TagValue(open, Step(p, m))
      BY <2>1, <3>4, TagEndLoop
    <3>6. TagValue(open, Step(p, m)) = Bounds(open, Step(p, m) + 2 * Width, TRUE)
      BY <2>1, <3>3, Zenon DEF TagValue
    <3>7. Step(p, m) + 2 * Width = Step(p, n)
      <4>1. Step(p, m) \in Nat /\ (Step(p, m) + Width) + Width = Step(p, m) + 2 * Width
        BY <1>4, <2>0, WidthIs
      <4> QED BY <2>1, <3>1, <3>2, <4>1
    <3> HIDE DEF n
    <3> QED BY <2>2, <3>5, <3>6, <3>7, Zenon
  <2>3. CASE selfClosed = FALSE
    <3>1. n = m + 1 /\ u[m + 1] = ">"
      BY <2>3 DEF Closed
    <3>2. Step(p, m) \in TagStops
      BY <2>1, <3>1, Zenon DEF TagStops
    <3>3. TagEnd(open, Step(p, m)) = TagValue(open, Step(p, m))
      BY <2>1, <3>2, TagEndLoop
    <3>4. TagValue(open, Step(p, m)) = Bounds(open, Step(p, m) + Width, FALSE)
      BY <2>1, <3>1, Zenon DEF TagValue
    <3> HIDE DEF n
    <3> QED BY <2>1, <2>3, <3>1, <3>3, <3>4, Zenon
  <2> QED BY <2>2, <2>3
<1> HIDE DEF Q, result, m, n
<1>6. m \in P
  <2>1. \A i \in m..m : i = m
    BY <1>1
  <2> QED BY <1>1, <1>5, <2>1
<1>7. ASSUME NEW k \in 0..(m - 1), k + 1 \in P PROVE k \in P
  <2>0. k \in 0..m /\ k + 1 \in 1..m /\ k + 1 \in (k + 1)..m /\ (k + 1) - 1 = k /\ k \in Nat
    BY <1>1
  <2>1. SUFFICES ASSUME Q[k] = Unquoted PROVE TagEnd(open, Step(p, k)) = result
    <3>1. \A i \in k..m : i = k \/ i \in (k + 1)..m
      BY <1>1
    <3> QED BY <1>7, <2>0, <3>1
  <2> DEFINE x == Step(p, k)
             c == attrs[k + 1]
  <2>2. x \in Nat /\ Inside(x) /\ unitAscii(x) = c /\ Step(p, k + 1) = x + Width
    BY <1>3, <1>4, <2>0
  <2>3. c \notin {"<", ">", "/"}
    BY <1>2, <2>0, <2>1
  <2>4. x \notin TagStops
    <3> HIDE DEF x, c
    <3> QED BY <2>2, <2>3 DEF TagStops, SlashAt
  <2>5. TagEnd(open, x) = TagEnd(open, PastUnit(x))
    BY <2>2, <2>4, TagEndLoop
  <2>6. CASE c \in Quotes
    <3>1. PICK k2 \in Nat : Closes(attrs, k + 1, m, k2)
      <4>1. k + 1 \in 1..Len(attrs) /\ m \in (k + 1)..Len(attrs) /\ attrs[k + 1] \in Quotes
            /\ QuoteAt(attrs)[(k + 1) - 1] = Unquoted /\ QuoteAt(attrs)[m] = Unquoted
        BY <1>1, <1>2, <2>0, <2>1, <2>6 DEF m, Q
      <4> QED BY <1>1, <4>1, QuoteCloses
    <3>2. k2 \in ((k + 1) + 1)..m /\ attrs[k2] = c /\ Q[k2] = Unquoted /\ \A i \in ((k + 1) + 1)..(k2 - 1) : attrs[i] # c
      BY <3>1 DEF Closes, Q
    <3>3. skipQuoted(x) = Step(p, k2)
      <4>1. PICK j : j = k + 1
        OBVIOUS
      <4>2. j \in 1..Len(u) /\ k2 \in (j + 1)..Len(u) /\ j - 1 = k
        BY <1>1, <2>0, <3>2, <4>1 DEF n
      <4>3. u[k2] = u[j] /\ \A i \in (j + 1)..(k2 - 1) : u[i] # u[j]
        <5>1. k2 \in 1..m /\ j \in 1..m /\ \A i \in (j + 1)..(k2 - 1) : i \in 1..m
          BY <1>1, <2>0, <3>2, <4>1
        <5> QED BY <1>3, <3>2, <4>1, <5>1
      <4>4. skipQuoted(Step(p, j - 1)) = Step(p, k2)
        BY <4>2, <4>3, QuotedExact
      <4> QED BY <4>2, <4>4
    <3>4. PastUnit(x) = Step(p, k2)
      BY <2>2, <2>6, <3>3 DEF PastUnit
    <3>5. k2 \in (k + 1)..m
      BY <1>1, <2>0, <3>2
    <3> HIDE DEF x
    <3> QED BY <1>7, <2>5, <3>2, <3>4, <3>5 DEF x
  <2>7. CASE c \notin Quotes
    <3>1. PastUnit(x) = Step(p, k + 1)
      BY <2>2, <2>7 DEF PastUnit
    <3>2. Q[k + 1] = Unquoted
      <4>1. PICK j : j = k + 1
        OBVIOUS
      <4>2. j \in 1..Len(attrs) /\ attrs[j] \notin Quotes /\ QuoteAt(attrs)[j - 1] = Unquoted
        BY <2>0, <2>1, <2>7, <4>1 DEF m, Q
      <4> QED BY <1>1, <4>1, <4>2, PlainUnit DEF Q
    <3> HIDE DEF x
    <3> QED BY <1>7, <2>0, <2>5, <3>1, <3>2 DEF x
  <2> QED BY <2>6, <2>7
<1>8. 0 \in P
  <2>1. 0..m \subseteq P
    <3> HIDE DEF P
    <3>1. 0 \in Nat /\ 0 <= m
      BY <1>1
    <3> QED BY <1>1, <1>6, <1>7, <3>1, TurnsDown
  <2> HIDE DEF P
  <2>2. 0 \in 0..m
    BY <1>1
  <2> QED BY <2>1, <2>2
<1>9. TagEnd(open, Step(p, 0)) = result
  <2>1. 0 \in 0..m
    BY <1>1
  <2> QED BY <1>2, <1>8, <2>1
<1>10. Step(p, 0) = p
  BY <1>1, StepIs
<1> QED
  BY <1>9, <1>10 DEF result, n

\* Inside a quoted value the depth does not change.
LEMMA DepthKept ==
    ASSUME NEW u \in Seq(STRING), NEW j \in 1..Len(u), NEW m \in j..Len(u), NEW k \in Nat,
           u[j] \in Quotes, Closes(u, j, m, k)
    PROVE  DepthAt(u)[k] = DepthAt(u)[j - 1]
<1> DEFINE D == DepthAt(u)
           Q == QuoteAt(u)
           c == u[j]
           n == Len(u)
           P == {e \in 0..(k - j) : D[j + e] = D[j - 1]}
<1>1. n \in Nat /\ j \in Nat /\ j >= 1 /\ k \in (j + 1)..m /\ k <= n /\ m <= n
  BY DEF Closes
<1>2. \A i \in 1..n : D[i] = Deeper(u, i, D[i - 1])
  BY DepthSteps
<1>3. c # Unquoted /\ c # "[" /\ c # "]"
  BY DEF Quotes, Unquoted
<1>4. \A i \in j..(k - 1) : Q[i] = c
  BY DEF Closes
<1>5. D[j] = D[j - 1]
  <2>1. D[j] = Deeper(u, j, D[j - 1])
    BY <1>1, <1>2
  <2> HIDE DEF D
  <2> QED BY <1>3, <2>1 DEF Deeper, DepthAfter
<1>6. ASSUME NEW i \in (j + 1)..k PROVE D[i] = D[i - 1]
  <2>1. i \in 1..n /\ i - 1 \in j..(k - 1)
    BY <1>1
  <2>2. Q[i - 1] = c
    BY <1>4, <2>1
  <2>3. D[i] = Deeper(u, i, D[i - 1])
    BY <1>2, <2>1
  <2> HIDE DEF D
  <2> QED BY <1>3, <2>2, <2>3 DEF Deeper
<1> HIDE DEF D, Q, c, n
<1>7. 0 \in P
  BY <1>1, <1>5
<1>8. ASSUME NEW e \in 1..(k - j), e - 1 \in P PROVE e \in P
  <2>1. j + e \in (j + 1)..k /\ (j + e) - 1 = j + (e - 1)
    BY <1>1
  <2>2. PICK i : i = j + e
    OBVIOUS
  <2>3. D[i] = D[i - 1]
    BY <1>6, <2>1, <2>2
  <2> QED BY <1>1, <1>8, <2>1, <2>2, <2>3
<1>9. 0..(k - j) \subseteq P
  <2>1. k - j \in Nat
    BY <1>1
  <2> HIDE DEF P
  <2> QED BY <1>7, <1>8, <2>1, Turns
<1>10. k - j \in P
  <2>1. k - j \in 0..(k - j)
    BY <1>1
  <2> HIDE DEF P
  <2> QED BY <1>9, <2>1
<1>11. j + (k - j) = k
  BY <1>1
<1> QED
  BY <1>10, <1>11 DEF D

\* A declaration without its '<': it ends at its last unit and at no other.
Whole(inner) ==
    /\ Len(inner) \in Nat /\ Len(inner) >= 1
    /\ \A k \in 1..Len(inner) :
          (inner[k] = ">" /\ QuoteAt(inner)[k - 1] = Unquoted /\ DepthAt(inner)[k - 1] = 0) <=> k = Len(inner)

LEMMA DeclarationExact ==
    ASSUME Ready, NEW u, NEW p, Shown(p, u), NEW inner \in Seq(STRING), Whole(inner),
           Len(u) = Len(inner) + 1, \A k \in 1..Len(inner) : u[k + 1] = inner[k]
    PROVE  skipDeclaration(p) = Step(p, Len(u))
<1> DEFINE n == Len(inner)
           Q == QuoteAt(inner)
           D == DepthAt(inner)
           result == Step(p, n + 1)
<1>1. p \in Nat /\ n \in Nat /\ n >= 1 /\ Len(u) = n + 1 /\ inner \in Seq(STRING)
  BY DEF Shown, Whole
<1>2. PICK past : /\ DeclLoop(past) /\ \A open \in Int : skipDeclaration(open) = past[<<open + Width, 0>>]
                  /\ \A x \in Int \X Int : x[1] \in Nat => Further(x[1], past[x])
  BY DeclarationLoop
<1>3. \A k \in 1..n : (inner[k] = ">" /\ Q[k - 1] = Unquoted /\ D[k - 1] = 0) <=> k = n
  BY DEF Whole
<1>4. Q[0] = Unquoted /\ D[0] = 0 /\ D \in [0..n -> Int] /\ \A k \in 1..n : D[k] = Deeper(inner, k, D[k - 1])
  BY QuoteSteps, DepthSteps
<1> DEFINE P == {k \in 1..n : \A i \in k..n : Q[i - 1] = Unquoted => past[<<Step(p, i), D[i - 1]>>] = result}
<1> HIDE DEF n, Q, D, result
<1>5. ASSUME NEW k \in 1..n
      PROVE  /\ Step(p, k) \in Nat /\ Inside(Step(p, k)) /\ unitAscii(Step(p, k)) = inner[k]
             /\ Step(p, k + 1) = Step(p, k) + Width /\ D[k - 1] \in Int
  <2>1. k \in 0..(Len(u) - 1) /\ k \in Nat /\ k - 1 \in 0..n
    BY <1>1
  <2>2. unitAscii(Step(p, k)) = u[k + 1] /\ Step(p, k) \in Nat /\ Inside(Step(p, k))
    BY <2>1, ShownAt
  <2>3. Step(p, k + 1) = Step(p, k) + Width
    BY <1>1, <2>1, StepIs
  <2>4. u[k + 1] = inner[k]
    BY DEF n
  <2> QED BY <1>4, <2>1, <2>2, <2>3, <2>4
<1>6. ASSUME NEW k \in 1..n, Q[k - 1] = Unquoted
      PROVE  /\ k = n => past[<<Step(p, k), D[k - 1]>>] = Step(p, k + 1)
             /\ k # n => past[<<Step(p, k), D[k - 1]>>] = past[<<PastUnit(Step(p, k)), DepthAfter(D[k - 1], inner[k])>>]
  <2> DEFINE x == <<Step(p, k), D[k - 1]>>
  <2>0. Step(p, k) \in Int /\ D[k - 1] \in Int
    BY <1>5
  <2>1. x \in Int \X Int /\ x[1] = Step(p, k) /\ x[2] = D[k - 1]
    BY <2>0
  <2>2. past[x] = DeclBody(past, x)
    BY <1>2, <2>1 DEF DeclLoop
  <2>3. Inside(x[1]) /\ unitAscii(x[1]) = inner[k] /\ ((unitAscii(x[1]) = ">" /\ x[2] = 0) <=> k = n)
    BY <1>3, <1>5, <1>6, <2>1
  <2>4. DeclBody(past, x) = IF k = n THEN x[1] + Width ELSE past[DeclNext(x)]
    <3> HIDE DEF x
    <3> QED BY <2>3, Zenon DEF DeclBody
  <2>5. x[1] + Width = Step(p, k + 1)
    BY <1>5, <2>1
  <2>6. DeclNext(x) = <<PastUnit(Step(p, k)), DepthAfter(D[k - 1], inner[k])>>
    <3> HIDE DEF x
    <3> QED BY <1>5, <2>1, <2>3, Zenon DEF DeclNext
  <2> QED BY <2>2, <2>4, <2>5, <2>6
<1>7. n \in P
  <2>1. \A i \in n..n : i = n
    BY <1>1
  <2>2. n \in 1..n /\ Q[n - 1] = Unquoted
    BY <1>1, <1>3
  <2>3. past[<<Step(p, n), D[n - 1]>>] = result
    BY <1>6, <2>2 DEF result
  <2> QED BY <2>1, <2>2, <2>3
<1>8. ASSUME NEW k \in 1..(n - 1), k + 1 \in P PROVE k \in P
  <2>0. k \in 1..n /\ k \in Nat /\ k # n /\ k + 1 \in (k + 1)..n /\ (k + 1) - 1 = k /\ n - 1 \in k..n
    BY <1>1
  <2>1. SUFFICES ASSUME Q[k - 1] = Unquoted PROVE past[<<Step(p, k), D[k - 1]>>] = result
    <3>1. \A i \in k..n : i = k \/ i \in (k + 1)..n
      BY <1>1
    <3> QED BY <1>8, <2>0, <3>1
  <2> DEFINE x == Step(p, k)
             c == inner[k]
  <2>2. past[<<x, D[k - 1]>>] = past[<<PastUnit(x), DepthAfter(D[k - 1], c)>>]
    BY <1>6, <2>0, <2>1
  <2>3. x \in Nat /\ unitAscii(x) = c /\ Step(p, k + 1) = x + Width
    BY <1>5, <2>0
  <2>4. CASE c \in Quotes
    <3>1. PICK k2 \in Nat : Closes(inner, k, n - 1, k2)
      <4>0. PICK m : m = n - 1
        OBVIOUS
      <4>1. k \in 1..Len(inner) /\ m \in k..Len(inner) /\ inner[k] \in Quotes
            /\ QuoteAt(inner)[k - 1] = Unquoted /\ QuoteAt(inner)[m] = Unquoted
        <5>1. n \in 1..n
          BY <1>1
        <5> QED BY <1>3, <2>0, <2>1, <2>4, <4>0, <5>1 DEF n, Q
      <4> QED BY <1>1, <4>0, <4>1, QuoteCloses
    <3>2. k2 \in (k + 1)..(n - 1) /\ inner[k2] = c /\ Q[k2] = Unquoted /\ \A i \in (k + 1)..(k2 - 1) : inner[i] # c
      BY <3>1 DEF Closes, Q
    <3>3. D[k2] = D[k - 1]
      <4>1. PICK m : m = n - 1
        OBVIOUS
      <4>2. k \in 1..Len(inner) /\ m \in k..Len(inner) /\ inner[k] \in Quotes /\ Closes(inner, k, m, k2)
        BY <2>0, <2>4, <3>1, <4>1 DEF n
      <4> QED BY <1>1, <4>2, DepthKept DEF D
    <3>4. skipQuoted(x) = Step(p, k2 + 1)
      <4>1. PICK j, l : j = k + 1 /\ l = k2 + 1
        OBVIOUS
      <4>2. j \in 1..Len(u) /\ l \in (j + 1)..Len(u) /\ j - 1 = k
        BY <1>1, <2>0, <3>2, <4>1
      <4>3. u[l] = u[j]
        <5>1. k2 \in 1..n
          BY <1>1, <2>0, <3>2
        <5> QED BY <2>0, <3>2, <4>1, <5>1 DEF n
      <4>4. ASSUME NEW i \in (j + 1)..(l - 1) PROVE u[i] # u[j]
        <5>1. PICK h : h = i - 1
          OBVIOUS
        <5>2. h \in (k + 1)..(k2 - 1) /\ h + 1 = i /\ h \in 1..n
          BY <1>1, <2>0, <3>2, <4>1, <5>1
        <5>3. u[h + 1] = inner[h] /\ u[k + 1] = c
          BY <2>0, <5>2 DEF n
        <5> QED BY <3>2, <4>1, <5>2, <5>3
      <4>5. skipQuoted(Step(p, j - 1)) = Step(p, l)
        BY <4>2, <4>3, <4>4, QuotedExact
      <4> QED BY <4>1, <4>2, <4>5
    <3>5. PastUnit(x) = Step(p, k2 + 1)
      BY <2>3, <2>4, <3>4 DEF PastUnit
    <3>6. DepthAfter(D[k - 1], c) = D[k2]
      <4>1. c # "[" /\ c # "]"
        BY <2>4 DEF Quotes
      <4> QED BY <3>3, <4>1 DEF DepthAfter
    <3>7. k2 + 1 \in (k + 1)..n /\ (k2 + 1) - 1 = k2
      BY <1>1, <2>0, <3>2
    <3>8. past[<<Step(p, k2 + 1), D[(k2 + 1) - 1]>>] = result
      BY <1>8, <3>2, <3>7
    <3> QED BY <2>2, <3>5, <3>6, <3>7, <3>8
  <2>5. CASE c \notin Quotes
    <3>1. PastUnit(x) = Step(p, k + 1)
      BY <2>3, <2>5 DEF PastUnit
    <3>2. Q[k] = Unquoted
      BY <1>1, <2>0, <2>1, <2>5, PlainUnit DEF n, Q
    <3>3. DepthAfter(D[k - 1], c) = D[k]
      <4>1. D[k] = Deeper(inner, k, D[k - 1])
        BY <1>4, <2>0
      <4>2. QuoteAt(inner)[k - 1] = Unquoted
        BY <2>1 DEF Q
      <4> QED BY <4>1, <4>2 DEF Deeper
    <3>4. past[<<Step(p, k + 1), D[(k + 1) - 1]>>] = result
      BY <1>8, <2>0, <3>2
    <3> QED BY <2>0, <2>2, <3>1, <3>3, <3>4
  <2> QED BY <2>4, <2>5
<1>9. 1 \in P
  <2>1. 1..n \subseteq P
    <3> HIDE DEF P
    <3> QED BY <1>1, <1>7, <1>8, TurnsDown
  <2>2. 1 \in 1..n
    BY <1>1
  <2> HIDE DEF P
  <2> QED BY <2>1, <2>2
<1>10. past[<<Step(p, 1), 0>>] = result
  <2>1. 1 \in 1..n /\ 1 - 1 = 0
    BY <1>1
  <2> QED BY <1>4, <1>9, <2>1
<1>11. Step(p, 1) = p + Width /\ p \in Int
  BY <1>1, StepIs
<1>12. skipDeclaration(p) = past[<<p + Width, 0>>]
  BY <1>2, <1>11
<1> QED
  BY <1>1, <1>10, <1>11, <1>12 DEF result

--------------------------------------------------------------------------------
(* The scanner over a lexeme that is not a tag *)

LEMMA NoMatch ==
    ASSUME Ready, NEW u, NEW p, Shown(p, u), NEW t, IsLiteral(t),
           NEW i \in 1..Len(t), i <= Len(u), u[i] # t[i]
    PROVE  ~matchLiteral(p, t)
<1>1. p \in Nat /\ Len(u) \in Nat /\ DOMAIN t = 1..Len(t) /\ Len(t) \in Nat
  BY DEF Shown, IsLiteral
<1>2. PICK j : j = i - 1
  OBVIOUS
<1>3. j \in 0..(Len(u) - 1) /\ j + 1 = i
  BY <1>1, <1>2
<1>4. unitAscii(Step(p, j)) = u[i]
  BY <1>3, ShownAt
<1>5. Step(p, j) = p + (i - 1) * Width
  <2>1. CASE Width = 1
    BY <1>1, <1>2, <2>1 DEF Step
  <2>2. CASE Width = 2
    BY <1>1, <1>2, <2>2 DEF Step
  <2> QED BY <2>1, <2>2, WidthIs
<1> QED
  BY <1>1, <1>4, <1>5 DEF matchLiteral

LEMMA MatchFirst ==
    ASSUME Ready, NEW u, NEW p, Shown(p, u), NEW t, IsLiteral(t), Stands(u, 1, t)
    PROVE  matchLiteral(p, t)
<1>1. p \in Nat /\ Len(u) \in Nat /\ Len(t) \in Nat
  BY DEF Shown, IsLiteral
<1>2. PICK m : m = 1
  OBVIOUS
<1>3. m \in Nat /\ m >= 1 /\ m + Len(t) - 1 <= Len(u) /\ Stands(u, m, t) /\ m - 1 = 0
  BY <1>1, <1>2 DEF Stands
<1>4. matchLiteral(Step(p, m - 1), t)
  BY <1>3, MatchIs
<1>5. Step(p, 0) = p
  BY <1>1, StepIs
<1> QED
  BY <1>3, <1>4, <1>5

LEMMA Literals ==
    /\ IsLiteral(<<"<", "?">>) /\ IsLiteral(<<"<", "!", "-", "-">>) /\ IsLiteral(<<"<", "!", "[", "C", "[">>)
    /\ IsLiteral(<<"?", ">">>) /\ IsLiteral(<<"-", "-", ">">>) /\ IsLiteral(<<"]", "]", ">">>)
<1>1. IsLiteral(<<"<", "?">>)
  BY DEF IsLiteral
<1>2. IsLiteral(<<"<", "!", "-", "-">>)
  BY DEF IsLiteral
<1>3. IsLiteral(<<"<", "!", "[", "C", "[">>)
  BY DEF IsLiteral
<1>4. IsLiteral(<<"?", ">">>) /\ IsLiteral(<<"-", "-", ">">>) /\ IsLiteral(<<"]", "]", ">">>)
  BY DEF IsLiteral
<1> QED
  BY <1>1, <1>2, <1>3, <1>4

\* An instruction does not end with its second unit.
LEMMA InstructionExact ==
    ASSUME Ready, NEW u, NEW p, Shown(p, u), Stands(u, 1, <<"<", "?">>), u[3] # ">",
           EndsAtFirst(u, 3, <<"?", ">">>)
    PROVE  skipSpecialUnit(p) = Step(p, Len(u)) /\ u[1] = "<" /\ u[2] = "?" /\ Len(u) >= 2
<1> DEFINE t == <<"?", ">">>
           n == Len(u)
           last == n - 2 + 1
<1>1. n \in Nat /\ u[1] = "<" /\ u[2] = "?"
  BY DEF Shown, Stands
<1>2. last >= 3 /\ last \in Nat /\ \A m \in 3..last : Stands(u, m, t) <=> m = last
  BY <1>1 DEF EndsAtFirst
<1>3. ~Stands(u, 1, t) /\ ~Stands(u, 2, t)
  BY <1>1 DEF Stands
<1>4. EndsAtFirst(u, 1, t)
  <2>1. \A m \in 1..last : m = 1 \/ m = 2 \/ m \in 3..last
    BY <1>2
  <2>2. ASSUME NEW m \in 1..last PROVE Stands(u, m, t) <=> m = last
    <3> HIDE DEF t
    <3> QED BY <1>2, <1>3, <2>1
  <2>3. Len(u) - Len(t) + 1 = last /\ last >= 1
    BY <1>2
  <2> QED BY <2>2, <2>3 DEF EndsAtFirst
<1>5. IsLiteral(t) /\ IsLiteral(<<"<", "?">>) /\ IsLiteral(<<"<", "!", "-", "-">>)
      /\ IsLiteral(<<"<", "!", "[", "C", "[">>)
  BY Literals
<1>6. skipDelimited(p, t) = Step(p, n)
  BY <1>4, <1>5, DelimitedExact
<1>7. matchLiteral(p, <<"<", "?">>)
  BY <1>5, MatchFirst
<1>8. n >= 2
  BY <1>1, <1>2
<1>9. ~matchLiteral(p, <<"<", "!", "-", "-">>)
  <2>1. 2 \in 1..Len(<<"<", "!", "-", "-">>) /\ u[2] # <<"<", "!", "-", "-">>[2]
    BY <1>1
  <2> QED BY <1>5, <1>8, <2>1, NoMatch
<1>10. ~matchLiteral(p, <<"<", "!", "[", "C", "[">>)
  <2>1. 2 \in 1..Len(<<"<", "!", "[", "C", "[">>) /\ u[2] # <<"<", "!", "[", "C", "[">>[2]
    BY <1>1
  <2> QED BY <1>5, <1>8, <2>1, NoMatch
<1>11. skipSpecialUnit(p) = skipDelimited(p, t)
  BY <1>7, <1>9, <1>10 DEF skipSpecialUnit
<1> QED
  BY <1>1, <1>6, <1>8, <1>11

LEMMA CommentExact ==
    ASSUME Ready, NEW u, NEW p, Shown(p, u), Stands(u, 1, <<"<", "!", "-", "-">>),
           EndsAtFirst(u, 1, <<"-", "-", ">">>)
    PROVE  skipSpecialUnit(p) = Step(p, Len(u)) /\ u[1] = "<" /\ u[2] = "!" /\ Len(u) >= 2
<1> DEFINE t == <<"-", "-", ">">>
           n == Len(u)
<1>1. n \in Nat /\ n >= 4 /\ u[1] = "<" /\ u[2] = "!" /\ u[3] = "-"
  BY DEF Shown, Stands
<1>5. IsLiteral(t) /\ IsLiteral(<<"<", "?">>) /\ IsLiteral(<<"<", "!", "-", "-">>)
      /\ IsLiteral(<<"<", "!", "[", "C", "[">>)
  BY Literals
<1>6. skipDelimited(p, t) = Step(p, n)
  BY <1>5, DelimitedExact
<1>7. matchLiteral(p, <<"<", "!", "-", "-">>)
  BY <1>5, MatchFirst
<1>9. ~matchLiteral(p, <<"<", "?">>)
  <2>1. 2 \in 1..Len(<<"<", "?">>) /\ u[2] # <<"<", "?">>[2] /\ 2 <= n
    BY <1>1
  <2> QED BY <1>5, <2>1, NoMatch
<1>10. ~matchLiteral(p, <<"<", "!", "[", "C", "[">>)
  <2>1. 3 \in 1..Len(<<"<", "!", "[", "C", "[">>) /\ u[3] # <<"<", "!", "[", "C", "[">>[3] /\ 3 <= n
    BY <1>1
  <2> QED BY <1>5, <2>1, NoMatch
<1>11. skipSpecialUnit(p) = skipDelimited(p, t)
  BY <1>7, <1>9, <1>10 DEF skipSpecialUnit
<1> QED
  BY <1>1, <1>6, <1>11

\* A CDATA section does not end in its head.
LEMMA CDataExact ==
    ASSUME Ready, NEW u, NEW p, Shown(p, u), Stands(u, 1, <<"<", "!", "[", "C", "[">>),
           EndsAtFirst(u, 6, <<"]", "]", ">">>)
    PROVE  skipSpecialUnit(p) = Step(p, Len(u)) /\ u[1] = "<" /\ u[2] = "!" /\ Len(u) >= 2
<1> DEFINE t == <<"]", "]", ">">>
           n == Len(u)
           last == n - 3 + 1
<1>1. n \in Nat /\ n >= 5 /\ u[1] = "<" /\ u[2] = "!" /\ u[3] = "[" /\ u[4] = "C" /\ u[5] = "["
  BY DEF Shown, Stands
<1>2. last >= 6 /\ last \in Nat /\ \A m \in 6..last : Stands(u, m, t) <=> m = last
  BY <1>1 DEF EndsAtFirst
<1>3. \A m \in 1..5 : ~Stands(u, m, t)
  <2>1. ASSUME NEW m \in 1..5, Stands(u, m, t) PROVE FALSE
    <3>1. u[m] = "]"
      BY <2>1 DEF Stands
    <3>2. m = 1 \/ m = 2 \/ m = 3 \/ m = 4 \/ m = 5
      OBVIOUS
    <3> QED BY <1>1, <3>1, <3>2
  <2> QED BY <2>1
<1>4. EndsAtFirst(u, 1, t)
  <2>1. \A m \in 1..last : m \in 1..5 \/ m \in 6..last
    BY <1>2
  <2>a. \A m \in 1..5 : m # last
    BY <1>2
  <2>2. ASSUME NEW m \in 1..last PROVE Stands(u, m, t) <=> m = last
    <3> HIDE DEF t, last
    <3> QED BY <1>2, <1>3, <2>1, <2>a
  <2>3. Len(u) - Len(t) + 1 = last /\ last >= 1
    BY <1>2
  <2> QED BY <2>2, <2>3 DEF EndsAtFirst
<1>5. IsLiteral(t) /\ IsLiteral(<<"<", "?">>) /\ IsLiteral(<<"<", "!", "-", "-">>)
      /\ IsLiteral(<<"<", "!", "[", "C", "[">>)
  BY Literals
<1>6. skipDelimited(p, t) = Step(p, n)
  BY <1>4, <1>5, DelimitedExact
<1>7. matchLiteral(p, <<"<", "!", "[", "C", "[">>)
  BY <1>5, MatchFirst
<1>9. ~matchLiteral(p, <<"<", "?">>)
  <2>1. 2 \in 1..Len(<<"<", "?">>) /\ u[2] # <<"<", "?">>[2] /\ 2 <= n
    BY <1>1
  <2> QED BY <1>5, <2>1, NoMatch
<1>10. ~matchLiteral(p, <<"<", "!", "-", "-">>)
  <2>1. 3 \in 1..Len(<<"<", "!", "-", "-">>) /\ u[3] # <<"<", "!", "-", "-">>[3] /\ 3 <= n
    BY <1>1
  <2> QED BY <1>5, <2>1, NoMatch
<1>11. skipSpecialUnit(p) = skipDelimited(p, t)
  BY <1>7, <1>9, <1>10 DEF skipSpecialUnit
<1> QED
  BY <1>1, <1>6, <1>11

LEMMA DoctypeExact ==
    ASSUME Ready, NEW u \in Seq(STRING), NEW p, Shown(p, u), Len(u) > 3, Stands(u, 1, <<"<", "!">>),
           u[3] \notin {"-", "["}, Balanced(u)
    PROVE  skipSpecialUnit(p) = Step(p, Len(u)) /\ u[1] = "<" /\ u[2] = "!" /\ Len(u) >= 2
<1> DEFINE inner == Tail(u)
           n == Len(u)
<1>1. n \in Nat /\ n >= 4 /\ u[1] = "<" /\ u[2] = "!" /\ u[3] \notin {"-", "["}
  BY DEF Stands
<1>2. inner \in Seq(STRING) /\ Len(u) = Len(inner) + 1 /\ \A k \in 1..Len(inner) : u[k + 1] = inner[k]
  BY <1>1
<1>3. DOMAIN inner = 1..Len(inner)
  BY <1>2
<1>4. Whole(inner)
  <2> HIDE DEF inner
  <2>1. Len(inner) \in Nat /\ Len(inner) >= 1
    BY <1>1, <1>2
  <2>2. \A k \in DOMAIN inner :
          (inner[k] = ">" /\ QuoteAt(inner)[k - 1] = Unquoted /\ DepthAt(inner)[k - 1] = 0) <=> k = Len(inner)
    BY Zenon DEF Balanced, inner
  <2> QED BY <1>3, <2>1, <2>2 DEF Whole
<1>5. skipDeclaration(p) = Step(p, n)
  <2> HIDE DEF inner
  <2> QED BY <1>2, <1>4, DeclarationExact
<1>6. IsLiteral(<<"<", "?">>) /\ IsLiteral(<<"<", "!", "-", "-">>) /\ IsLiteral(<<"<", "!", "[", "C", "[">>)
  BY Literals
<1>7. ~matchLiteral(p, <<"<", "?">>)
  <2>1. 2 \in 1..Len(<<"<", "?">>) /\ u[2] # <<"<", "?">>[2] /\ 2 <= n
    BY <1>1
  <2> QED BY <1>6, <2>1, NoMatch
<1>8. ~matchLiteral(p, <<"<", "!", "-", "-">>)
  <2>1. 3 \in 1..Len(<<"<", "!", "-", "-">>) /\ u[3] # <<"<", "!", "-", "-">>[3] /\ 3 <= n
    BY <1>1
  <2> QED BY <1>6, <2>1, NoMatch
<1>9. ~matchLiteral(p, <<"<", "!", "[", "C", "[">>)
  <2>1. 3 \in 1..Len(<<"<", "!", "[", "C", "[">>) /\ u[3] # <<"<", "!", "[", "C", "[">>[3] /\ 3 <= n
    BY <1>1
  <2> QED BY <1>6, <2>1, NoMatch
<1>10. skipSpecialUnit(p) = skipDeclaration(p)
  BY <1>7, <1>8, <1>9 DEF skipSpecialUnit
<1> QED
  BY <1>1, <1>5, <1>10

\* Past what is not markup of an element.
LEMMA SpecialMarkup ==
    ASSUME Ready, NEW u, NEW p, Shown(p, u), Len(u) >= 2, u[1] = "<", u[2] \in {"?", "!"},
           skipSpecialUnit(p) = Step(p, Len(u))
    PROVE  Markup(p) = Markup(Step(p, Len(u)))
<1>1. p \in Nat /\ Len(u) \in Nat
  BY DEF Shown
<1>2. 0 \in 0..(Len(u) - 1) /\ 1 \in 0..(Len(u) - 1) /\ 0 + 1 = 1 /\ 1 + 1 = 2
  BY <1>1
<1>3. unitAscii(Step(p, 0)) = u[1] /\ Inside(Step(p, 0)) /\ unitAscii(Step(p, 1)) = u[2]
  BY <1>2, ShownAt
<1>4. Step(p, 0) = p /\ Step(p, 1) = p + Width
  BY <1>1, StepIs
<1>5. p \notin MarkupStops /\ MarkupNext(p) = skipSpecialUnit(p)
  BY <1>3, <1>4 DEF MarkupStops, MarkupNext, IsSpecial
<1> QED
  BY <1>1, <1>5, MarkupLoop

LEMMA TextMarkup ==
    ASSUME Ready, NEW u, NEW p, Shown(p, u), \A j \in 1..Len(u) : u[j] # "<"
    PROVE  Markup(p) = Markup(Step(p, Len(u)))
<1> DEFINE n == Len(u)
           P == {j \in 0..n : Markup(p) = Markup(Step(p, j))}
<1>1. p \in Nat /\ n \in Nat /\ Step(p, 0) = p
  BY StepIs DEF Shown
<1>2. 0 \in P
  BY <1>1
<1>3. ASSUME NEW j \in 1..n, j - 1 \in P PROVE j \in P
  <2>1. PICK i : i = j - 1
    OBVIOUS
  <2>2. i \in 0..(Len(u) - 1) /\ i + 1 = j /\ i \in Nat
    BY <1>1, <2>1
  <2>3. unitAscii(Step(p, i)) = u[i + 1] /\ Inside(Step(p, i)) /\ Step(p, i) \in Nat
    BY <2>2, ShownAt
  <2>4. Step(p, i + 1) = Step(p, i) + Width
    BY <1>1, <2>2, StepIs
  <2>5. unitAscii(Step(p, i)) # "<"
    BY <2>2, <2>3
  <2>6. Step(p, i) \notin MarkupStops /\ MarkupNext(Step(p, i)) = Step(p, j) /\ Step(p, i) \in Int
    BY <2>2, <2>3, <2>4, <2>5 DEF MarkupStops, MarkupNext
  <2>7. Markup(Step(p, i)) = Markup(Step(p, j))
    BY <2>6, MarkupLoop
  <2> QED BY <1>3, <2>1, <2>7
<1>4. n \in P
  <2>1. 0..n \subseteq P
    <3> HIDE DEF P
    <3> QED BY <1>1, <1>2, <1>3, Turns
  <2>2. n \in 0..n
    BY <1>1
  <2> HIDE DEF P
  <2> QED BY <2>1, <2>2
<1> QED
  BY <1>4

\* A lexeme with no callback, whose end the scanner finds.
Passed(l) ==
    /\ l.kind \in {"skip", "doctype", "text"}
    /\ l.kind = "skip" /\ IsComment(l) => EndsAtFirst(l.units, 1, <<"-", "-", ">">>)
    /\ l.kind = "doctype" => Balanced(l.units)

LEMMA PassedMarkup ==
    ASSUME Ready, NEW l, IsLexeme(l), NEW p, Shown(p, l.units), Passed(l)
    PROVE  Markup(p) = Markup(Step(p, Len(l.units)))
<1> DEFINE u == l.units
<1>1. u \in Seq(STRING)
  BY DEF IsLexeme, Lexemes
<1> DEFINE special == /\ Len(u) >= 2 /\ u[1] = "<" /\ u[2] \in {"?", "!"}
                      /\ skipSpecialUnit(p) = Step(p, Len(u))
<1>2. special => Markup(p) = Markup(Step(p, Len(u)))
  <2> HIDE DEF u
  <2> QED BY SpecialMarkup DEF u
<1>3. CASE l.kind = "skip"
  <2>1. IsSkip(l)
    BY <1>3 DEF IsLexeme
  <2>2. CASE IsComment(l)
    <3>1. Stands(u, 1, <<"<", "!", "-", "-">>) /\ EndsAtFirst(u, 1, <<"-", "-", ">">>)
      BY <1>3, <2>2 DEF IsComment, Passed
    <3>2. Shown(p, u)
      OBVIOUS
    <3> HIDE DEF u
    <3>3. Markup(p) = Markup(Step(p, Len(u)))
      BY <1>2, <3>1, <3>2, CommentExact
    <3> QED BY <3>3 DEF u
  <2>3. CASE Stands(u, 1, <<"<", "?">>) /\ u[3] # ">" /\ EndsAtFirst(u, 3, <<"?", ">">>)
    <3>1. Stands(u, 1, <<"<", "?">>) /\ u[3] # ">" /\ EndsAtFirst(u, 3, <<"?", ">">>)
      BY <2>3
    <3>2. Shown(p, u)
      OBVIOUS
    <3> HIDE DEF u
    <3>3. Markup(p) = Markup(Step(p, Len(u)))
      BY <1>2, <3>1, <3>2, InstructionExact
    <3> QED BY <3>3 DEF u
  <2> QED BY <2>1, <2>2, <2>3 DEF IsSkip
<1>4. CASE l.kind = "doctype"
  <2>1. IsDoctype(l)
    BY <1>4 DEF IsLexeme
  <2>2. Len(u) > 3 /\ Stands(u, 1, <<"<", "!">>) /\ u[3] \notin {"-", "["} /\ Balanced(u) /\ Shown(p, u)
    BY <1>4, <2>1 DEF IsDoctype, Passed
  <2> HIDE DEF u
  <2>3. Markup(p) = Markup(Step(p, Len(u)))
    BY <1>1, <1>2, <2>2, DoctypeExact
  <2> QED BY <2>3 DEF u
<1>5. CASE l.kind = "text"
  <2>1. IsText(l)
    BY <1>5 DEF IsLexeme
  <2>2. CASE "<" \notin ToSet(u)
    <3>1. \A j \in 1..Len(u) : u[j] # "<"
      <4>1. ASSUME NEW j \in 1..Len(u), u[j] = "<" PROVE FALSE
        <5>1. u[j] \in ToSet(u)
          BY <1>1 DEF ToSet
        <5> QED BY <2>2, <4>1, <5>1
      <4> QED BY <4>1
    <3>2. Shown(p, u)
      OBVIOUS
    <3> HIDE DEF u
    <3>3. Markup(p) = Markup(Step(p, Len(u)))
      BY <3>1, <3>2, TextMarkup
    <3> QED BY <3>3 DEF u
  <2>3. CASE Stands(u, 1, <<"<", "!", "[", "C", "[">>) /\ EndsAtFirst(u, 6, <<"]", "]", ">">>)
    <3>1. Stands(u, 1, <<"<", "!", "[", "C", "[">>) /\ EndsAtFirst(u, 6, <<"]", "]", ">">>)
      BY <2>3
    <3>2. Shown(p, u)
      OBVIOUS
    <3> HIDE DEF u
    <3>3. Markup(p) = Markup(Step(p, Len(u)))
      BY <1>2, <3>1, <3>2, CDataExact
    <3> QED BY <3>3 DEF u
  <2> QED BY <2>1, <2>2, <2>3 DEF IsText
<1> QED
  BY <1>3, <1>4, <1>5 DEF Passed

--------------------------------------------------------------------------------
(* The scanner at a tag *)

\* The parts of a tag, each at its place: what opens it, the name, the rest.
Tagged(u, head, tag, rest) ==
    /\ Len(head) \in Nat /\ Len(tag) \in Nat /\ Len(rest) \in Nat
    /\ Len(u) = Len(head) + Len(tag) + Len(rest)
    /\ \A i \in 1..Len(head) : u[i] = head[i]
    /\ \A i \in 1..Len(tag) : u[Len(head) + i] = tag[i]
    /\ \A i \in 1..Len(rest) : u[Len(head) + Len(tag) + i] = rest[i]

\* Units and the signs of markup.
Signs == STRING \cup {"<", ">", "/"}

LEMMA Unsigned ==
    ASSUME NEW s \in Seq(STRING)
    PROVE  s \in Seq(Signs)
BY DEF Signs

LEMMA TaggedIs ==
    ASSUME NEW head \in Seq(Signs), NEW tag \in Seq(Signs), NEW rest \in Seq(Signs),
           NEW u, u = head \o tag \o rest
    PROVE  Tagged(u, head, tag, rest)
BY DEF Tagged

LEMMA NameUnits ==
    ASSUME NEW tag \in Seq(STRING), IsName(tag)
    PROVE  Len(tag) \in Nat /\ Len(tag) >= 1 /\ \A i \in 1..Len(tag) : tag[i] \notin {"<", ">", "/", "?", "!", "~"}
<1>1. Len(tag) \in Nat /\ Len(tag) >= 1
  BY DEF IsName
<1>2. ASSUME NEW i \in 1..Len(tag) PROVE tag[i] \notin {"<", ">", "/", "?", "!", "~"}
  <2>1. tag[i] \in ToSet(tag)
    BY DEF ToSet
  <2> QED BY <2>1 DEF IsName
<1> QED
  BY <1>1, <1>2

LEMMA TagMarkup ==
    ASSUME Ready, NEW u, NEW p, Shown(p, u), Len(u) >= 2, u[1] = "<", u[2] \notin {"?", "!"}
    PROVE  Markup(p) = p
<1>1. p \in Nat /\ Len(u) \in Nat
  BY DEF Shown
<1>2. 0 \in 0..(Len(u) - 1) /\ 1 \in 0..(Len(u) - 1) /\ 0 + 1 = 1 /\ 1 + 1 = 2
  BY <1>1
<1>3. unitAscii(Step(p, 0)) = u[1] /\ Inside(Step(p, 0)) /\ unitAscii(Step(p, 1)) = u[2]
  BY <1>2, ShownAt
<1>4. Step(p, 0) = p /\ Step(p, 1) = p + Width
  BY <1>1, StepIs
<1>5. p \in MarkupStops /\ MarkupValue(p) = p
  BY <1>1, <1>3, <1>4 DEF MarkupStops, MarkupValue, IsSpecial
<1> QED
  BY <1>1, <1>5, MarkupLoop

\* The name of a tag is matched where it stands.
LEMMA NameMatch ==
    ASSUME Ready, NEW u, NEW p, Shown(p, u), NEW name, Len(name) \in Nat, DOMAIN name = 1..Len(name),
           Len(name) + 1 <= Len(u), \A i \in 1..Len(name) : u[1 + i] = name[i]
    PROVE  matchLiteral(p + Width, name)
<1>1. p \in Nat /\ Len(u) \in Nat
  BY DEF Shown
<1>2. ASSUME NEW k \in 1..Len(name) PROVE unitAscii(p + Width + (k - 1) * Width) = name[k]
  <2>1. p + Width + (k - 1) * Width = Step(p, k)
    <3>1. CASE Width = 1
      BY <1>1, <3>1 DEF Step
    <3>2. CASE Width = 2
      BY <1>1, <3>2 DEF Step
    <3> QED BY <3>1, <3>2, WidthIs
  <2>2. k \in 0..(Len(u) - 1) /\ u[k + 1] = name[k]
    <3>1. k + 1 = 1 + k
      OBVIOUS
    <3> QED BY <1>1, <3>1
  <2> QED BY <2>1, <2>2, ShownAt
<1> QED
  BY <1>2 DEF matchLiteral

\* The rest of what stands in the file stands there too.
\* The rest is what the units hold after the j-th.
Remains(u, j, rest) ==
    /\ j \in Nat /\ Len(rest) \in Nat /\ Len(u) = j + Len(rest)
    /\ \A i \in 1..Len(rest) : u[j + i] = rest[i]

LEMMA ShownRest ==
    ASSUME Ready, NEW u, NEW p, Shown(p, u), NEW j, NEW rest, Remains(u, j, rest)
    PROVE  Shown(Step(p, j), rest) /\ Step(Step(p, j), Len(rest)) = Step(p, Len(u))
<1> USE DEF Remains
<1>1. p \in Nat /\ Len(u) \in Nat /\ Step(p, Len(u)) <= Len(bytes)
  BY DEF Shown
<1>a. Step(p, j) \in Nat /\ \A i \in Nat : Step(Step(p, j), i) = Step(p, j + i)
  <2>1. Step(p, j) \in Nat
    BY <1>1, StepIs
  <2>2. ASSUME NEW i \in Nat PROVE Step(Step(p, j), i) = Step(p, j + i)
    BY <1>1, StepIs
  <2> QED BY <2>1, <2>2
<1>2. Step(p, j) \in Nat /\ Step(Step(p, j), Len(rest)) = Step(p, Len(u))
  BY <1>1, <1>a
<1>3. ASSUME NEW i \in 1..Len(rest) PROVE unitAscii(Step(Step(p, j), i - 1)) = rest[i]
  <2>1. PICK h : h = j + (i - 1)
    OBVIOUS
  <2>2. h \in 0..(Len(u) - 1) /\ h + 1 = j + i /\ i - 1 \in Nat
    BY <1>1, <2>1
  <2>3. Step(Step(p, j), i - 1) = Step(p, h)
    BY <1>a, <2>1, <2>2
  <2>4. unitAscii(Step(p, h)) = u[h + 1]
    BY <2>2, ShownAt
  <2> QED BY <2>2, <2>3, <2>4
<1> QED
  BY <1>1, <1>2, <1>3 DEF Shown

LEMMA PartsIs ==
    ASSUME NEW head \in Seq(Signs), NEW tag \in Seq(Signs), NEW attrs \in Seq(Signs), NEW close \in Seq(Signs),
           NEW u, u = head \o tag \o attrs \o close
    PROVE  Tagged(u, head, tag, attrs \o close)
<1>1. u = head \o tag \o (attrs \o close)
  OBVIOUS
<1>2. attrs \o close \in Seq(Signs)
  OBVIOUS
<1>3. ASSUME NEW y, y = head \o tag \o (attrs \o close) PROVE Tagged(y, head, tag, attrs \o close)
  BY <1>2, <1>3, TaggedIs
<1> QED
  BY <1>1, <1>3

\* What is found of the start tag whose markup stands at p.
StartFound(b, p, l) ==
    /\ b # NoTag /\ b.open = p /\ b.end = Step(p, Len(l.units))
    /\ b.selfClosed <=> l.kind = "empty"

Close(l) == IF l.kind = "empty" THEN <<"/", ">">> ELSE <<">">>

LEMMA CloseIs ==
    ASSUME NEW l
    PROVE  Close(l) \in Seq(Signs) /\ Len(Close(l)) \in {1, 2} /\ Close(l)[1] \in {"/", ">"}
<1>1. "/" \in Signs /\ ">" \in Signs
  BY DEF Signs
<1>2. CASE l.kind = "empty"
  <2>1. Close(l) = <<"/", ">">>
    BY <1>2 DEF Close
  <2>2. <<"/", ">">> \in Seq(Signs) /\ Len(<<"/", ">">>) = 2 /\ <<"/", ">">>[1] = "/"
    BY <1>1
  <2> QED BY <2>1, <2>2
<1>3. CASE l.kind # "empty"
  <2>1. Close(l) = <<">">>
    BY <1>3 DEF Close
  <2>2. <<">">> \in Seq(Signs) /\ Len(<<">">>) = 1 /\ <<">">>[1] = ">"
    BY <1>1
  <2> QED BY <2>1, <2>2
<1> QED
  BY <1>2, <1>3

LEMMA StartTagShape ==
    ASSUME NEW l, IsLexeme(l), IsTag(l)
    PROVE  \E attrs \in Seq(STRING) :
              /\ IsName(l.tag) /\ Attributes(attrs) /\ (attrs # <<>> => attrs[1] \in Space)
              /\ Tagged(l.units, <<"<">>, l.tag, attrs \o Close(l))
<1> DEFINE close == Close(l)
           attrs == SubSeq(l.units, Len(l.tag) + 2, Len(l.units) - Len(close))
<1>1. l.units \in Seq(STRING) /\ l.tag \in Seq(STRING)
  BY DEF IsLexeme, Lexemes
<1>2. close \in Seq(Signs) /\ Len(close) \in {1, 2}
  BY CloseIs
<1>3. IsStartTag(l, close)
  <2>1. CASE l.kind = "start"
    BY <2>1 DEF IsLexeme, Close
  <2>2. CASE l.kind = "empty"
    BY <2>2 DEF IsLexeme, Close
  <2> QED BY <2>1, <2>2 DEF IsTag
<1> HIDE DEF close
<1>4. attrs \in Seq(STRING)
  <2>1. Len(l.tag) + 2 \in Nat /\ Len(l.units) - Len(close) \in Int /\ Len(l.tag) + 2 >= 1 /\ Len(l.units) - Len(close) <= Len(l.units)
    BY <1>1, <1>2
  <2> QED BY <1>1, <2>1
<1> HIDE DEF attrs
<1>5. /\ IsName(l.tag) /\ l.units = <<"<">> \o l.tag \o attrs \o close
      /\ attrs # <<>> => attrs[1] \in Space
      /\ QuoteAt(attrs)[Len(attrs)] = Unquoted
      /\ \A k \in DOMAIN attrs : QuoteAt(attrs)[k - 1] = Unquoted => attrs[k] \notin {"<", ">", "/"}
  BY <1>3, Zenon DEF IsStartTag, attrs
<1>6. Attributes(attrs)
  <2>1. DOMAIN attrs = 1..Len(attrs)
    BY <1>4
  <2> QED BY <1>4, <1>5, <2>1, Zenon DEF Attributes
<1>7. Tagged(l.units, <<"<">>, l.tag, attrs \o close)
  <2>1. <<"<">> \in Seq(Signs)
    BY DEF Signs
  <2>2. attrs \in Seq(Signs) /\ l.tag \in Seq(Signs)
    BY <1>1, <1>4, Unsigned
  <2> QED BY <1>2, <1>5, <2>1, <2>2, PartsIs
<1> QED
  BY <1>4, <1>5, <1>6, <1>7 DEF close

LEMMA ClosedIs ==
    ASSUME NEW l, IsTag(l), NEW attrs \in Seq(STRING), NEW selfClosed \in BOOLEAN, selfClosed <=> l.kind = "empty"
    PROVE  Closed(attrs \o Close(l), attrs, selfClosed)
<1>1. CASE selfClosed
  <2>1. Close(l) = <<"/", ">">>
    BY <1>1 DEF Close
  <2>2. Closed(attrs \o <<"/", ">">>, attrs, selfClosed)
    BY <1>1 DEF Closed
  <2> QED BY <2>1, <2>2
<1>2. CASE ~selfClosed
  <2>1. Close(l) = <<">">>
    BY <1>2 DEF Close
  <2>2. Closed(attrs \o <<">">>, attrs, selfClosed)
    BY <1>2 DEF Closed
  <2> QED BY <2>1, <2>2
<1> QED
  BY <1>1, <1>2

LEMMA StartTagExact ==
    ASSUME Ready, NEW l, IsLexeme(l), IsTag(l), NEW p, Shown(p, l.units)
    PROVE  Markup(p) = p /\ \A from \in Nat : Markup(from) = p => StartFound(scanStartTag(from, l.tag), p, l)
<1>1. PICK attrs \in Seq(STRING) :
              /\ IsName(l.tag) /\ Attributes(attrs) /\ (attrs # <<>> => attrs[1] \in Space)
              /\ Tagged(l.units, <<"<">>, l.tag, attrs \o Close(l))
  BY StartTagShape
<1> DEFINE u == l.units
           t == Len(l.tag)
           rest == attrs \o Close(l)
           after == Step(p, t + 1)
<1>2. l.tag \in Seq(STRING)
  BY DEF IsLexeme, Lexemes
<1>3. t \in Nat /\ t >= 1 /\ \A i \in 1..t : l.tag[i] \notin {"<", ">", "/", "?", "!", "~"}
  BY <1>1, <1>2, NameUnits
<1>4. /\ u[1] = "<" /\ Len(u) = 1 + t + Len(rest)
      /\ \A i \in 1..t : u[1 + i] = l.tag[i]
      /\ \A i \in 1..Len(rest) : u[1 + t + i] = rest[i]
  BY <1>1 DEF Tagged
<1>5. p \in Nat /\ Len(u) \in Nat /\ Shown(p, u)
  BY DEF Shown
<1>6. Close(l) \in Seq(Signs) /\ Len(Close(l)) \in {1, 2} /\ Close(l)[1] \in {"/", ">"}
  BY CloseIs
<1>a. attrs \in Seq(Signs)
  BY Unsigned
<1>7. Len(rest) \in Nat /\ Len(rest) >= 1 /\ rest[1] \in Space \cup {"/", ">"}
  <2>1. CASE attrs = <<>>
    <3>1. rest = Close(l)
      BY <1>6, <2>1
    <3> QED BY <1>6, <3>1
  <2>2. CASE attrs # <<>>
    <3>1. rest[1] = attrs[1] /\ Len(rest) = Len(attrs) + Len(Close(l))
      BY <1>6, <1>a, <2>2
    <3> QED BY <1>1, <1>6, <2>2, <3>1
  <2> QED BY <2>1, <2>2
<1> HIDE DEF u, t, rest
<1>8. Markup(p) = p
  <2>1. Len(u) >= 2 /\ 1 \in 1..t /\ u[1 + 1] = l.tag[1]
    BY <1>3, <1>4, <1>7
  <2>2. u[2] \notin {"?", "!"}
    BY <1>3, <2>1
  <2> QED BY <1>4, <1>5, <2>1, <2>2, TagMarkup
<1>9. matchLiteral(p + Width, l.tag)
  <2>1. DOMAIN l.tag = 1..Len(l.tag)
    BY <1>2
  <2>2. Len(l.tag) \in Nat /\ Len(l.tag) + 1 <= Len(u) /\ \A i \in 1..Len(l.tag) : u[1 + i] = l.tag[i]
    BY <1>3, <1>4, <1>7 DEF t
  <2> QED BY <1>5, <2>1, <2>2, NameMatch
<1>10. Shown(after, rest) /\ Step(after, Len(rest)) = Step(p, Len(u)) /\ after = p + (t + 1) * Width
  <2>1. PICK j \in Nat : j = t + 1
    BY <1>3
  <2>2. Len(u) = j + Len(rest) /\ \A i \in 1..Len(rest) : u[j + i] = rest[i]
    <3>1. j = 1 + t
      BY <1>3, <2>1
    <3> QED BY <1>4, <3>1
  <2>a. Len(rest) \in Nat
    BY <1>7
  <2>b. Shown(p, u)
    BY <1>5
  <2>c. Remains(u, j, rest)
    BY <2>2, <2>a DEF Remains
  <2>3. Shown(Step(p, j), rest) /\ Step(Step(p, j), Len(rest)) = Step(p, Len(u))
    BY <2>b, <2>c, ShownRest
  <2>4. Step(p, t + 1) = p + (t + 1) * Width
    <3>1. CASE Width = 1
      BY <1>3, <1>5, <3>1 DEF Step
    <3>2. CASE Width = 2
      BY <1>3, <1>5, <3>2 DEF Step
    <3> QED BY <3>1, <3>2, WidthIs
  <2> QED BY <2>1, <2>3, <2>4
<1>11. unitAscii(after) \in Space \cup {"/", ">"}
  <2>1. 0 \in 0..(Len(rest) - 1) /\ 0 + 1 = 1 /\ after \in Nat
    BY <1>7, <1>10 DEF Shown
  <2>2. unitAscii(Step(after, 0)) = rest[0 + 1]
    <3> HIDE DEF after
    <3> QED BY <1>10, <2>1, ShownAt
  <2>3. Step(after, 0) = after
    BY <2>1, StepIs
  <2> QED BY <1>7, <2>1, <2>2, <2>3
<1>12. PICK b \in BOOLEAN : b <=> l.kind = "empty"
  <2>1. (l.kind = "empty") \in BOOLEAN
    OBVIOUS
  <2> QED BY <2>1, Zenon
<1>13. Closed(rest, attrs, b)
  BY <1>12, ClosedIs DEF rest
<1>14. TagEnd(p, after) = Bounds(p, Step(p, Len(u)), b)
  <2> HIDE DEF after
  <2>1. TagEnd(p, after) = Bounds(p, Step(after, Len(rest)), b)
    BY <1>1, <1>10, <1>13, TagEndExact
  <2> QED BY <1>10, <2>1
<1>15. ASSUME NEW from \in Nat, Markup(from) = p PROVE StartFound(scanStartTag(from, l.tag), p, l)
  <2>1. scanStartTag(from, l.tag) = TagEnd(p, after)
    <3>1. p # Fail
      BY <1>5 DEF Fail
    <3> HIDE DEF after
    <3> QED BY <1>9, <1>10, <1>11, <1>15, <3>1, Zenon DEF scanStartTag, t
  <2>2. p # Fail /\ NoTag.open = Fail
    BY <1>5 DEF NoTag, Bounds, Fail
  <2> DEFINE x == scanStartTag(from, l.tag)
  <2>3. x = [open |-> p, end |-> Step(p, Len(u)), selfClosed |-> b]
    BY <1>14, <2>1 DEF Bounds
  <2> HIDE DEF x
  <2>4. x.open = p /\ x.end = Step(p, Len(u)) /\ x.selfClosed = b
    BY <2>3
  <2>5. x # NoTag
    BY <2>2, <2>4
  <2> QED BY <1>12, <2>4, <2>5, Zenon DEF StartFound, x, u
<1> QED
  BY <1>8, <1>15

LEMMA EndTagExact ==
    ASSUME Ready, NEW l, IsLexeme(l), l.kind = "end", NEW p, Shown(p, l.units)
    PROVE  Markup(p) = p /\ \A from \in Nat : Markup(from) = p => scanEndTag(from, l.tag) = Step(p, Len(l.units))
<1> DEFINE space == SubSeq(l.units, Len(l.tag) + 3, Len(l.units) - 1)
           u == l.units
           t == Len(l.tag)
           s == Len(space)
           n == t + s + 3
           after == Step(p, t + 2)
<1>1. u \in Seq(STRING) /\ l.tag \in Seq(STRING)
  BY DEF IsLexeme, Lexemes
<1>2. IsName(l.tag) /\ u = <<"<", "/">> \o l.tag \o space \o <<">">> /\ IsBlank(space)
  BY DEF IsLexeme, IsEndTag
<1>3. space \in Seq(STRING) /\ t \in Nat /\ s \in Nat
  <2>1. Len(l.tag) + 3 \in Nat /\ Len(l.units) - 1 \in Int /\ Len(l.tag) + 3 >= 1 /\ Len(l.units) - 1 <= Len(l.units)
    BY <1>1
  <2> QED BY <1>1, <2>1
<1> HIDE DEF space, u
<1>4. Tagged(u, <<"<", "/">>, l.tag, space \o <<">">>)
  <2>1. <<"<", "/">> \in Seq(Signs) /\ <<">">> \in Seq(Signs)
    BY DEF Signs
  <2>2. space \in Seq(Signs) /\ l.tag \in Seq(Signs)
    BY <1>1, <1>3, Unsigned
  <2> QED BY <1>2, <2>1, <2>2, PartsIs
<1> DEFINE rest == space \o <<">">>
<1>5. Len(rest) = s + 1 /\ rest[s + 1] = ">" /\ \A i \in 1..s : rest[i] = space[i]
  BY <1>3
<1>6. \A i \in 1..s : space[i] \in Space
  <2>1. ASSUME NEW i \in 1..s PROVE space[i] \in Space
    <3>1. space[i] \in ToSet(space)
      BY <1>3 DEF ToSet
    <3> QED BY <1>2, <3>1 DEF IsBlank
  <2> QED BY <2>1
<1> HIDE DEF rest
<1>7. /\ u[1] = "<" /\ u[2] = "/" /\ Len(u) = 2 + t + Len(rest)
      /\ \A i \in 1..t : u[2 + i] = l.tag[i]
      /\ \A i \in 1..Len(rest) : u[2 + t + i] = rest[i]
  <2>1. Tagged(u, <<"<", "/">>, l.tag, rest)
    BY <1>4 DEF rest
  <2> QED BY <2>1 DEF Tagged
<1>8. p \in Nat /\ Len(u) = n /\ Shown(p, u) /\ n \in Nat /\ Len(bytes) \in Nat
  <2>1. Shown(p, u) /\ p \in Nat /\ Len(bytes) \in Nat
    BY DEF Shown, u, Ready
  <2> HIDE DEF t, s
  <2>2. t \in Nat /\ s \in Nat
    BY <1>3
  <2>3. Len(u) = 2 + t + Len(rest) /\ Len(rest) = s + 1
    BY <1>5, <1>7
  <2>4. Len(u) = n /\ n \in Nat
    BY <2>2, <2>3
  <2> QED BY <2>1, <2>4
<1> HIDE DEF t, s, after
<1>9. Markup(p) = p
  <2>1. Len(u) >= 2 /\ u[2] \notin {"?", "!"}
    BY <1>3, <1>7, <1>8
  <2> QED BY <1>7, <1>8, <2>1, TagMarkup
<1>10. matchLiteral(p + Width, <<"/">> \o l.tag)
  <2> DEFINE name == <<"/">> \o l.tag
  <2>1. Len(name) = t + 1 /\ DOMAIN name = 1..Len(name) /\ name[1] = "/" /\ \A i \in 1..t : name[i + 1] = l.tag[i]
    BY <1>1, <1>3 DEF t
  <2> HIDE DEF name
  <2>2. ASSUME NEW i \in 1..Len(name) PROVE u[1 + i] = name[i]
    <3>1. CASE i = 1
      BY <1>7, <2>1, <3>1
    <3>2. CASE i # 1
      <4>1. PICK h : h = i - 1
        OBVIOUS
      <4>2. h \in 1..t /\ i = h + 1 /\ 1 + i = 2 + h
        BY <1>3, <2>1, <3>2, <4>1
      <4> QED BY <1>7, <2>1, <4>2
    <3> QED BY <3>1, <3>2
  <2>3. Len(name) \in Nat /\ Len(name) + 1 <= Len(u)
    BY <1>3, <1>8, <2>1
  <2>4. matchLiteral(p + Width, name)
    BY <1>8, <2>1, <2>2, <2>3, NameMatch
  <2> QED BY <2>4 DEF name
<1>11. Shown(after, rest) /\ Step(after, Len(rest)) = Step(p, Len(u)) /\ after = p + (t + 2) * Width
  <2>1. PICK j \in Nat : j = t + 2
    BY <1>3
  <2>2. Len(u) = j + Len(rest) /\ \A i \in 1..Len(rest) : u[j + i] = rest[i]
    <3>1. j = 2 + t
      BY <1>3, <2>1
    <3> QED BY <1>7, <3>1
  <2>a. Len(rest) \in Nat
    BY <1>3, <1>5
  <2>b. Remains(u, j, rest)
    BY <2>2, <2>a DEF Remains
  <2>3. Shown(Step(p, j), rest) /\ Step(Step(p, j), Len(rest)) = Step(p, Len(u))
    BY <1>8, <2>b, ShownRest
  <2>4. Step(p, t + 2) = p + (t + 2) * Width
    <3>1. CASE Width = 1
      BY <1>3, <1>8, <3>1 DEF Step
    <3>2. CASE Width = 2
      BY <1>3, <1>8, <3>2 DEF Step
    <3> QED BY <3>1, <3>2, WidthIs
  <2> QED BY <2>1, <2>3, <2>4 DEF after
<1> DEFINE S == {q \in Stops(after) : unitAscii(q) \notin Space}
           x == Step(after, s)
<1>12. after \in Nat
  BY <1>11 DEF Shown
<1>13. x \in S /\ x \in Nat /\ unitAscii(x) = ">" /\ x + Width = Step(p, n)
  <2>1. s \in 0..(Len(rest) - 1)
    BY <1>3, <1>5
  <2>2. unitAscii(x) = rest[s + 1] /\ x \in Nat /\ Inside(x)
    BY <1>11, <2>1, ShownAt
  <2>3. x \in Stops(after)
    BY <1>3, <1>8, <1>12, <2>2, StopsAre DEF Inside
  <2>4. ">" \notin Space
    BY DEF Space
  <2>5. x + Width = Step(after, s + 1)
    BY <1>3, <1>12, StepIs
  <2> QED BY <1>5, <1>8, <1>11, <2>2, <2>3, <2>4, <2>5
<1>14. ASSUME NEW q \in S PROVE x <= q
  <2>1. PICK i \in Nat : q = Step(after, i)
    BY <1>12, StopsAre
  <2>2. CASE i < s
    <3>1. i \in 0..(Len(rest) - 1) /\ i + 1 \in 1..s
      BY <1>3, <1>5, <2>2
    <3>2. unitAscii(q) = rest[i + 1]
      BY <1>11, <2>1, <3>1, ShownAt
    <3>3. rest[i + 1] \in Space
      BY <1>5, <1>6, <3>1
    <3> QED BY <3>2, <3>3
  <2>3. CASE ~(i < s)
    <3>1. i = s \/ s < i
      BY <1>3, <2>3
    <3>2. s < i => x < Step(after, i)
      BY <1>3, <1>12, StepIs
    <3>3. x \in Nat /\ Step(after, i) \in Nat
      BY <1>12, <1>13, StepIs
    <3> QED BY <2>1, <3>1, <3>2, <3>3
  <2> QED BY <2>2, <2>3
<1>15. First(S) = x
  <2>1. S \subseteq Int
    BY <1>12, StopsRange
  <2> HIDE DEF S, x
  <2> QED BY <1>13, <1>14, <2>1, FirstIs
<1>16. ASSUME NEW from \in Nat, Markup(from) = p PROVE scanEndTag(from, l.tag) = Step(p, Len(l.units))
  <2>1. p # Fail /\ x # Fail
    BY <1>8, <1>13 DEF Fail
  <2>2. scanEndTag(from, l.tag) = x + Width
    <3> HIDE DEF x
    <3> QED BY <1>10, <1>11, <1>13, <1>15, <1>16, <2>1, Zenon DEF scanEndTag, t
  <2> QED BY <1>8, <1>13, <2>2 DEF u
<1> QED
  BY <1>9, <1>16

--------------------------------------------------------------------------------
(* The scanner over the lexemes of a document *)

LEMMA OffsetIs ==
    ASSUME NEW d, IsDocument(d), Viewed(d), NEW k \in 1..(Len(d.lexemes) + 1)
    PROVE  Offset(d, k) = Spot(d, Place(d)[k]) /\ Offset(d, k) \in Nat
<1>1. Place(d)[k] \in Nat
  BY PlaceSteps
<1>2. (IF d.form.width = "single" THEN 1 ELSE 2) = Width
  BY DEF Viewed, Width
<1>3. Len(Bom(d.form)) \in Nat
  BY DEF Viewed
<1>4. Width * Place(d)[k] \in Nat
  <2>1. CASE Width = 1
    BY <1>1, <2>1
  <2>2. CASE Width = 2
    BY <1>1, <2>2
  <2> QED BY <2>1, <2>2, WidthIs
<1> QED
  BY <1>2, <1>3, <1>4 DEF Offset, Spot

\* The bytes from one place to a later one.
LEMMA SpotStep ==
    ASSUME NEW d, Len(Bom(d.form)) \in Nat, NEW v \in Nat, NEW j \in Nat
    PROVE  Spot(d, v) \in Nat /\ Step(Spot(d, v), j) = Spot(d, v + j) /\ (j >= 1 => Spot(d, v) < Spot(d, v + j))
<1>1. CASE Width = 1
  BY <1>1 DEF Spot, Step
<1>2. CASE Width = 2
  BY <1>2 DEF Spot, Step
<1> QED
  BY <1>1, <1>2, WidthIs

LEMMA SpotOrder ==
    ASSUME NEW d, Len(Bom(d.form)) \in Nat, NEW v \in Nat, NEW w \in Nat
    PROVE  /\ v <= w => Spot(d, v) <= Spot(d, w)
           /\ v < w => Spot(d, v) < Spot(d, w)
<1>1. CASE Width = 1
  BY <1>1 DEF Spot
<1>2. CASE Width = 2
  BY <1>2 DEF Spot
<1> QED
  BY <1>1, <1>2, WidthIs

LEMMA LexemeShown ==
    ASSUME NEW d, IsDocument(d), Viewed(d), NEW k \in 1..Len(d.lexemes)
    PROVE  /\ Shown(Offset(d, k), d.lexemes[k].units)
           /\ Step(Offset(d, k), Len(d.lexemes[k].units)) = Offset(d, k + 1)
           /\ Offset(d, k) <= Offset(d, k + 1)
           /\ Len(d.lexemes[k].units) >= 1 => Offset(d, k) < Offset(d, k + 1)
<1> DEFINE u == d.lexemes[k].units
           v == Place(d)[k]
           m == Len(d.lexemes)
<1>1. u \in Seq(STRING) /\ Len(u) \in Nat
  BY UnitsTyped
<1>2. v \in Nat /\ Place(d)[k + 1] = v + Len(u) /\ m \in Nat
  <2>1. m \in Nat
    BY DocumentTyped
  <2>2. Place(d) \in [1..(m + 1) -> Nat] /\ Place(d)[k + 1] = Place(d)[k] + Len(d.lexemes[k].units)
    BY PlaceSteps
  <2> QED BY <2>1, <2>2
<1>3. Begun(d, Units(d), m + 1)
  BY UnitsBegun
<1>4. Len(Units(d)) = Place(d)[m + 1] /\ \A j \in 1..Len(u) : v + j \in 1..Len(Units(d)) /\ Units(d)[v + j] = u[j]
  <2>1. k \in 1..((m + 1) - 1)
    BY <1>2
  <2> QED BY <1>3, <2>1 DEF Begun
<1> HIDE DEF u, v, m
<1>5. Len(Bom(d.form)) \in Nat /\ Len(bytes) = Spot(d, Len(Units(d)))
      /\ \A w \in 1..Len(Units(d)) : unitAscii(Spot(d, w - 1)) = Units(d)[w]
  BY DEF Viewed
<1>6. Offset(d, k) = Spot(d, v) /\ Offset(d, k + 1) = Spot(d, v + Len(u))
  <2>1. k \in 1..(Len(d.lexemes) + 1) /\ k + 1 \in 1..(Len(d.lexemes) + 1)
    BY <1>2 DEF m
  <2>2. Offset(d, k) = Spot(d, Place(d)[k]) /\ Offset(d, k + 1) = Spot(d, Place(d)[k + 1])
    BY <2>1, OffsetIs
  <2> QED BY <1>2, <2>2 DEF v
<1>7. Spot(d, v) \in Nat /\ Step(Spot(d, v), Len(u)) = Spot(d, v + Len(u))
  BY <1>1, <1>2, <1>5, SpotStep
<1>8. Spot(d, v + Len(u)) <= Len(bytes)
  <2>1. k + 1 \in 1..(m + 1) /\ m + 1 \in 1..(m + 1)
    BY <1>2 DEF m
  <2>2. Place(d)[k + 1] <= Place(d)[m + 1] /\ Place(d)[k + 1] \in Nat /\ Place(d)[m + 1] \in Nat
    BY <2>1, PlaceGrows DEF m
  <2>3. Spot(d, Place(d)[k + 1]) <= Spot(d, Place(d)[m + 1])
    BY <1>5, <2>2, SpotOrder
  <2> QED BY <1>2, <1>4, <1>5, <2>3
<1>9. ASSUME NEW j \in 1..Len(u) PROVE unitAscii(Step(Spot(d, v), j - 1)) = u[j]
  <2>1. PICK w : w = v + j
    OBVIOUS
  <2>2. w \in 1..Len(Units(d)) /\ Units(d)[w] = u[j] /\ w - 1 = v + (j - 1) /\ j - 1 \in Nat
    BY <1>1, <1>2, <1>4, <2>1
  <2>3. Step(Spot(d, v), j - 1) = Spot(d, v + (j - 1))
    BY <1>2, <1>5, <2>2, SpotStep
  <2>4. unitAscii(Spot(d, w - 1)) = u[j]
    BY <1>5, <2>2
  <2> QED BY <2>2, <2>3, <2>4
<1>10. Spot(d, v) <= Spot(d, v + Len(u)) /\ (Len(u) >= 1 => Spot(d, v) < Spot(d, v + Len(u)))
  BY <1>1, <1>2, <1>5, SpotOrder
<1>11. Shown(Spot(d, v), u)
  BY <1>1, <1>7, <1>8, <1>9 DEF Shown
<1> QED
  BY <1>6, <1>7, <1>10, <1>11 DEF u

\* From one lexeme on to a later one, past those that are not tags.
LEMMA MarkupOn ==
    ASSUME NEW d, IsDocument(d), Viewed(d), NEW i \in 1..(Len(d.lexemes) + 1), NEW k \in i..(Len(d.lexemes) + 1),
           \A j \in i..(k - 1) : Passed(d.lexemes[j])
    PROVE  Markup(Offset(d, i)) = Markup(Offset(d, k))
<1> DEFINE m == Len(d.lexemes)
           P == {j \in i..k : Markup(Offset(d, j)) = Markup(Offset(d, k))}
<1>1. m \in Nat /\ Ready /\ i \in Nat /\ k \in Nat /\ i >= 1 /\ i <= k /\ k <= m + 1
  BY DocumentTyped DEF Viewed
<1> HIDE DEF m
<1>2. k \in P
  BY <1>1
<1>3. ASSUME NEW j \in i..(k - 1), j + 1 \in P PROVE j \in P
  <2>1. j \in 1..m /\ j \in i..k
    BY <1>1
  <2>2. IsLexeme(d.lexemes[j]) /\ Passed(d.lexemes[j])
    BY <2>1, DocumentTyped DEF m
  <2>3. Shown(Offset(d, j), d.lexemes[j].units) /\ Step(Offset(d, j), Len(d.lexemes[j].units)) = Offset(d, j + 1)
    BY <2>1, LexemeShown DEF m
  <2>4. Markup(Offset(d, j)) = Markup(Offset(d, j + 1))
    BY <1>1, <2>2, <2>3, PassedMarkup
  <2> QED BY <1>3, <2>1, <2>4
<1>4. i..k \subseteq P
  <2> HIDE DEF P
  <2> QED BY <1>1, <1>2, <1>3, TurnsDown
<1>5. i \in P
  <2>1. i \in i..k
    BY <1>1
  <2> HIDE DEF P
  <2> QED BY <1>4, <2>1
<1> QED
  BY <1>5

\* Past the byte order mark.
LEMMA BomMarkup ==
    ASSUME NEW d, IsDocument(d), Viewed(d)
    PROVE  Markup(0) = Markup(Offset(d, 1)) /\ Offset(d, 1) = Len(Bom(d.form))
<1> DEFINE b == Len(Bom(d.form))
<1>1. b \in Nat /\ b % Width = 0 /\ Ready /\ \A p \in Stops(0) : p < b => unitAscii(p) # "<"
  BY DEF Viewed
<1>2. Offset(d, 1) = b
  <2>1. Offset(d, 1) = Spot(d, Place(d)[1]) /\ Place(d)[1] = 0
    <3>1. 1 \in 1..(Len(d.lexemes) + 1)
      BY DocumentTyped
    <3> QED BY <3>1, OffsetIs, PlaceSteps
  <2>2. Width * 0 = 0
    BY WidthIs
  <2> QED BY <1>1, <2>1, <2>2 DEF Spot
<1>3. b <= Len(bytes) /\ Len(bytes) \in Nat
  <2>1. Len(Units(d)) \in Nat
    <3>1. Begun(d, Units(d), Len(d.lexemes) + 1)
      BY UnitsBegun
    <3>2. Units(d) \in Seq(STRING)
      BY <3>1 DEF Begun
    <3> QED BY <3>2
  <2>2. Len(bytes) = Spot(d, Len(Units(d))) /\ Len(bytes) \in Nat
    BY DEF Viewed, Ready
  <2>3. CASE Width = 1
    BY <1>1, <2>1, <2>2, <2>3 DEF Spot
  <2>4. CASE Width = 2
    BY <1>1, <2>1, <2>2, <2>4 DEF Spot
  <2> QED BY <2>3, <2>4, WidthIs
<1>4. PICK n \in Nat : b = Step(0, n)
  <2>1. CASE Width = 1
    BY <1>1, <2>1 DEF Step
  <2>2. CASE Width = 2
    <3>1. b % 2 = 0
      BY <1>1, <2>2
    <3>2. b \div 2 \in Nat /\ b = 2 * (b \div 2)
      BY <1>1, <3>1
    <3> QED BY <2>2, <3>2 DEF Step
  <2> QED BY <2>1, <2>2, WidthIs
<1> HIDE DEF b
<1> DEFINE P == {j \in 0..n : Markup(0) = Markup(Step(0, j))}
<1>5. 0 \in P
  <2>1. Step(0, 0) = 0
    BY StepIs
  <2> QED BY <2>1
<1>6. ASSUME NEW j \in 1..n, j - 1 \in P PROVE j \in P
  <2>1. PICK i : i = j - 1
    OBVIOUS
  <2>2. i \in Nat /\ i + 1 = j /\ i < n
    BY <2>1
  <2>3. Step(0, i) \in Nat /\ Step(0, i) < Step(0, n) /\ Step(0, i + 1) = Step(0, i) + Width
    BY <2>2, StepIs
  <2>4. Step(0, i) < b /\ Step(0, i) \in Stops(0) /\ Inside(Step(0, i))
    <3>1. Step(0, i) < b
      BY <1>4, <2>3
    <3>2. Step(0, i) < Len(bytes)
      BY <1>1, <1>3, <2>3, <3>1
    <3>3. Step(0, i) \in Stops(0)
      BY <1>1, <2>2, <3>2, StopsAre
    <3> QED BY <1>3, <2>3, <3>1, <3>2, <3>3 DEF Inside
  <2>5. unitAscii(Step(0, i)) # "<"
    BY <1>1, <2>4
  <2>6. Step(0, i) \notin MarkupStops /\ MarkupNext(Step(0, i)) = Step(0, j) /\ Step(0, i) \in Int
    BY <2>2, <2>3, <2>4, <2>5 DEF MarkupStops, MarkupNext
  <2>7. Markup(Step(0, i)) = Markup(Step(0, j))
    BY <1>1, <2>6, MarkupLoop
  <2> QED BY <1>6, <2>1, <2>7
<1>7. n \in P
  <2>1. 0..n \subseteq P
    <3> HIDE DEF P
    <3> QED BY <1>5, <1>6, Turns
  <2>2. n \in 0..n
    OBVIOUS
  <2> HIDE DEF P
  <2> QED BY <2>1, <2>2
<1>8. Markup(0) = Markup(b)
  BY <1>4, <1>7
<1> QED
  BY <1>2, <1>8 DEF b

LEMMA SameCount ==
    ASSUME NEW S, NEW T, IsFiniteSet(S), NEW f \in [S -> T],
           \A x \in S : \A y \in S : f[x] = f[y] => x = y, \A t \in T : \E x \in S : f[x] = t
    PROVE  IsFiniteSet(T) /\ Cardinality(T) = Cardinality(S)
<1>1. f \in Bijection(S, T)
  <2>1. f \in Injection(S, T)
    BY DEF Injection, IsInjective
  <2>2. f \in Surjection(S, T)
    BY DEF Surjection
  <2> QED BY <2>1, <2>2 DEF Bijection
<1>2. ExistsBijection(S, T)
  BY <1>1 DEF ExistsBijection
<1> QED
  BY <1>2, FS_Bijection

\* The byte order mark is some units long; the units of the document come after it.
LEMMA BomSteps ==
    ASSUME NEW d, IsDocument(d), Viewed(d)
    PROVE  \E n \in Nat : Len(Bom(d.form)) = Step(0, n) /\ \A v \in Nat : Spot(d, v) = Step(0, n + v)
<1> DEFINE b == Len(Bom(d.form))
<1>1. b \in Nat /\ b % Width = 0
  BY DEF Viewed
<1>2. CASE Width = 1
  <2>1. b = Step(0, b) /\ \A v \in Nat : Spot(d, v) = Step(0, b + v)
    BY <1>1, <1>2 DEF Step, Spot
  <2> QED BY <1>1, <2>1
<1>3. CASE Width = 2
  <2>1. b % 2 = 0
    BY <1>1, <1>3
  <2>2. PICK n \in Nat : b = 2 * n
    <3>1. b \div 2 \in Nat /\ b = 2 * (b \div 2)
      BY <1>1, <2>1
    <3> QED BY <3>1
  <2>3. b = Step(0, n)
    BY <1>3, <2>2 DEF Step
  <2>4. ASSUME NEW v \in Nat PROVE Spot(d, v) = Step(0, n + v)
    BY <1>3, <2>2 DEF Step, Spot
  <2> QED BY <2>3, <2>4
<1> QED
  BY <1>2, <1>3, WidthIs

LEMMA LineIs ==
    ASSUME NEW d, IsDocument(d), Viewed(d), NEW k \in 1..(Len(d.lexemes) + 1)
    PROVE  lineNumberAt(Offset(d, k)) = LineOf(d, k) /\ LineOf(d, k) \in Nat
<1> DEFINE c == Place(d)[k]
           b == Len(Bom(d.form))
           S == {w \in 1..c : Units(d)[w] = "\n"}
           T == {p \in Stops(0) : p < Offset(d, k) /\ unitAscii(p) = "\n"}
           f == [w \in S |-> Spot(d, w - 1)]
<1>1. /\ c \in Nat /\ Offset(d, k) = Spot(d, c) /\ b \in Nat /\ Len(bytes) = Spot(d, Len(Units(d))) /\ Ready
      /\ \A w \in 1..Len(Units(d)) : unitAscii(Spot(d, w - 1)) = Units(d)[w]
      /\ \A p \in Stops(0) : p < b => unitAscii(p) # "\n"
  BY PlaceSteps, OffsetIs DEF Viewed
<1>2. c <= Len(Units(d)) /\ Len(Units(d)) \in Nat
  <2> DEFINE m == Len(d.lexemes)
  <2>1. Begun(d, Units(d), m + 1) /\ m \in Nat
    BY UnitsBegun, DocumentTyped
  <2>2. Len(Units(d)) = Place(d)[m + 1] /\ Units(d) \in Seq(STRING)
    BY <2>1 DEF Begun
  <2>3. m + 1 \in 1..(m + 1) /\ k \in 1..(m + 1)
    BY <2>1
  <2>4. c <= Place(d)[m + 1]
    BY <2>1, <2>3, PlaceGrows
  <2> QED BY <2>2, <2>4
<1>3. PICK n \in Nat : b = Step(0, n) /\ \A v \in Nat : Spot(d, v) = Step(0, n + v)
  BY BomSteps
<1> HIDE DEF c, b
<1>4. ASSUME NEW w \in S PROVE Spot(d, w - 1) \in T
  <2>1. PICK v : v = w - 1
    OBVIOUS
  <2>2. v \in Nat /\ v < c /\ w \in 1..Len(Units(d)) /\ w = v + 1 /\ Units(d)[w] = "\n"
    BY <1>1, <1>2, <2>1
  <2>3. Spot(d, v) < Spot(d, c) /\ Spot(d, v) < Spot(d, Len(Units(d)))
    <3>1. v < Len(Units(d))
      BY <1>1, <1>2, <2>2
    <3> QED BY <1>1, <1>2, <2>2, <3>1, SpotOrder DEF b
  <2>4. Spot(d, v) \in Stops(0)
    <3>1. Step(0, n + v) < Len(bytes) /\ n + v \in Nat
      BY <1>1, <1>3, <2>2, <2>3
    <3>2. Step(0, n + v) \in Stops(0)
      BY <1>1, <3>1, StopsAre
    <3> QED BY <1>3, <2>2, <3>2
  <2>5. unitAscii(Spot(d, w - 1)) = "\n"
    BY <1>1, <2>2
  <2> QED BY <1>1, <2>1, <2>3, <2>4, <2>5
<1>5. ASSUME NEW p \in T PROVE \E w \in S : p = Spot(d, w - 1)
  <2>1. p \in Stops(0) /\ p < Spot(d, c) /\ unitAscii(p) = "\n" /\ ~(p < b)
    BY <1>1
  <2>2. PICK i \in Nat : p = Step(0, i)
    BY <1>1, <2>1, StopsAre
  <2>3. i >= n
    <3>1. Step(0, i) \in Nat /\ (i < n => Step(0, i) < Step(0, n))
      BY StepIs
    <3>2. ~(Step(0, i) < Step(0, n))
      BY <1>3, <2>1, <2>2
    <3> QED BY <3>1, <3>2
  <2>4. PICK v : v = i - n
    OBVIOUS
  <2>5. v \in Nat /\ i = n + v /\ p = Spot(d, v)
    BY <1>3, <2>2, <2>3, <2>4
  <2>6. v < c
    <3>1. c <= v => Spot(d, c) <= Spot(d, v)
      BY <1>1, <2>5, SpotOrder DEF b
    <3>2. Spot(d, c) \in Nat /\ Spot(d, v) \in Nat
      BY <1>1, <2>5, SpotStep DEF b
    <3> QED BY <1>1, <2>1, <2>5, <3>1, <3>2
  <2>7. PICK w : w = v + 1
    OBVIOUS
  <2>8. w \in 1..c /\ w \in 1..Len(Units(d)) /\ w - 1 = v
    BY <1>1, <1>2, <2>5, <2>6, <2>7
  <2>9. Units(d)[w] = "\n"
    BY <1>1, <2>1, <2>5, <2>8
  <2> QED BY <2>5, <2>8, <2>9
<1>6. ASSUME NEW v \in S, NEW w \in S, Spot(d, v - 1) = Spot(d, w - 1) PROVE v = w
  <2>1. PICK x, y : x = v - 1 /\ y = w - 1
    OBVIOUS
  <2>2. x \in Nat /\ y \in Nat
    BY <1>1, <2>1
  <2>3. Spot(d, x) \in Nat /\ Spot(d, y) \in Nat /\ (x < y => Spot(d, x) < Spot(d, y)) /\ (y < x => Spot(d, y) < Spot(d, x))
    BY <1>1, <2>2, SpotOrder, SpotStep DEF b
  <2>4. x = y
    BY <1>6, <2>1, <2>2, <2>3
  <2> QED BY <1>1, <2>1, <2>4
<1>7. IsFiniteSet(S) /\ Cardinality(S) \in Nat
  <2>1. IsFiniteSet(1..c)
    BY <1>1, FS_Interval
  <2>2. IsFiniteSet(S)
    BY <2>1, FS_Subset
  <2> QED BY <2>2, FS_CardinalityType
<1>8. Cardinality(T) = Cardinality(S)
  <2>1. f \in [S -> T]
    BY <1>4
  <2>2. \A x \in S : \A y \in S : f[x] = f[y] => x = y
    BY <1>6
  <2>3. \A t \in T : \E x \in S : f[x] = t
    BY <1>5
  <2> HIDE DEF S, T, f
  <2> QED BY <1>7, <2>1, <2>2, <2>3, SameCount
<1>9. lineNumberAt(Offset(d, k)) = 1 + Cardinality(T) /\ LineOf(d, k) = 1 + Cardinality(S)
  BY DEF lineNumberAt, LineOf, c
<1> QED
  <2> HIDE DEF S, T
  <2> QED BY <1>7, <1>8, <1>9

--------------------------------------------------------------------------------
(* The open elements before each lexeme *)

OpenAt(d, n) == Opened(d.lexemes)[n]

\* The lexeme is legal, and what it opens or closes.
LEMMA OpenOn ==
    ASSUME NEW d, IsDocument(d), NEW n \in 1..Len(d.lexemes), OpenAt(d, n + 1) # Ill
    PROVE  /\ OpenAt(d, n) # Ill /\ Legal(d.lexemes, n, OpenAt(d, n))
           /\ d.lexemes[n].kind = "start" => OpenAt(d, n + 1) = Append(OpenAt(d, n), n)
           /\ d.lexemes[n].kind = "end" => OpenAt(d, n + 1) = Front(OpenAt(d, n))
           /\ d.lexemes[n].kind \notin {"start", "end"} => OpenAt(d, n + 1) = OpenAt(d, n)
<1> DEFINE x == OpenAt(d, n)
           y == OpenAt(d, n + 1)
           kind == d.lexemes[n].kind
<1>1. y = OpenAfter(d.lexemes, n, x)
  BY OpenSteps DEF OpenAt
<1>2. y # Ill
  OBVIOUS
<1> HIDE DEF x, y
<1>3. x # Ill /\ Legal(d.lexemes, n, x)
  BY <1>1, <1>2, Zenon DEF OpenAfter
<1>4. y = CASE d.lexemes[n].kind = "start" -> Append(x, n)
             [] d.lexemes[n].kind = "end" -> Front(x)
             [] OTHER -> x
  BY <1>1, <1>3, Zenon DEF OpenAfter
<1>5. kind = "start" => y = Append(x, n)
  <2>1. "start" # "end"
    OBVIOUS
  <2> QED BY <1>4
<1>6. kind = "end" => y = Front(x)
  BY <1>4
<1>7. kind \notin {"start", "end"} => y = x
  BY <1>4
<1> QED
  BY <1>3, <1>5, <1>6, <1>7 DEF x, y

LEMMA OpenTyped ==
    ASSUME NEW d, IsDocument(d), NEW n \in 1..(Len(d.lexemes) + 1)
    PROVE  OpenAt(d, n) \in Seq(Nat) /\ Len(OpenAt(d, n)) \in Nat /\ OpenAt(d, 1) = <<>>
<1>1. OpenAt(d, n) \in Seq(Nat)
  BY OpenSteps DEF OpenAt
<1> QED
  BY <1>1, OpenSteps DEF OpenAt

\* Start tags before the lexeme, each inside the one before.
Nest(d, n) ==
    LET s == OpenAt(d, n) IN
    /\ \A i \in 1..Len(s) : s[i] \in 1..(n - 1) /\ d.lexemes[s[i]].kind = "start"
    /\ \A i \in 1..Len(s) : \A j \in 1..Len(s) : i < j => s[i] < s[j]

LEMMA OpenNest ==
    ASSUME NEW d, IsDocument(d), NEW n \in 1..(Len(d.lexemes) + 1), OpenAt(d, n) # Ill
    PROVE  Nest(d, n)
<1> DEFINE m == Len(d.lexemes)
           P == {k \in 0..m : OpenAt(d, k + 1) # Ill => Nest(d, k + 1)}
<1>1. m \in Nat
  BY DocumentTyped
<1> HIDE DEF m
<1>2. 0 \in P
  <2>1. OpenAt(d, 0 + 1) = <<>>
    <3>1. 1 \in 1..(Len(d.lexemes) + 1) /\ 0 + 1 = 1
      BY <1>1 DEF m
    <3> QED BY <3>1, OpenTyped
  <2>2. Nest(d, 0 + 1)
    BY <2>1 DEF Nest
  <2> QED BY <1>1, <2>2
<1>3. ASSUME NEW k \in 1..m, k - 1 \in P PROVE k \in P
  <2>1. SUFFICES ASSUME OpenAt(d, k + 1) # Ill PROVE Nest(d, k + 1)
    BY <1>1
  <2> DEFINE s == OpenAt(d, k)
             t == OpenAt(d, k + 1)
  <2>2. k \in 1..Len(d.lexemes) /\ (k - 1) + 1 = k /\ k \in 1..(Len(d.lexemes) + 1) /\ k \in Nat
    BY <1>1 DEF m
  <2>3. /\ s # Ill /\ (d.lexemes[k].kind = "start" => t = Append(s, k))
        /\ (d.lexemes[k].kind = "end" => t = Front(s))
        /\ (d.lexemes[k].kind \notin {"start", "end"} => t = s)
    BY <2>1, <2>2, OpenOn
  <2>4. Nest(d, k)
    BY <1>3, <2>2, <2>3
  <2>5. s \in Seq(Nat) /\ Len(s) \in Nat
    BY <2>2, OpenTyped
  <2>6. /\ \A i \in 1..Len(s) : s[i] \in 1..(k - 1) /\ d.lexemes[s[i]].kind = "start"
        /\ \A i \in 1..Len(s) : \A j \in 1..Len(s) : i < j => s[i] < s[j]
    BY <2>4 DEF Nest
  <2> HIDE DEF s, t
  <2>7. /\ \A i \in 1..Len(t) : t[i] \in 1..k /\ d.lexemes[t[i]].kind = "start"
        /\ \A i \in 1..Len(t) : \A j \in 1..Len(t) : i < j => t[i] < t[j]
    <3>1. CASE d.lexemes[k].kind = "start"
      <4>1. t = Append(s, k)
        BY <2>3, <3>1
      <4>2. Len(t) = Len(s) + 1 /\ t[Len(s) + 1] = k /\ \A i \in 1..Len(s) : t[i] = s[i]
        BY <2>5, <4>1
      <4>3. ASSUME NEW i \in 1..Len(t) PROVE t[i] \in 1..k /\ d.lexemes[t[i]].kind = "start"
        <5>1. CASE i = Len(s) + 1
          <6>1. t[i] = k /\ k \in 1..k
            BY <2>2, <4>2, <5>1
          <6> QED BY <3>1, <6>1
        <5>2. CASE i # Len(s) + 1
          <6>1. i \in 1..Len(s) /\ t[i] = s[i]
            BY <2>5, <4>2, <5>2
          <6>2. s[i] \in 1..(k - 1) /\ d.lexemes[s[i]].kind = "start"
            BY <2>6, <6>1
          <6> QED BY <2>2, <6>1, <6>2
        <5> QED BY <5>1, <5>2
      <4>4. ASSUME NEW i \in 1..Len(t), NEW j \in 1..Len(t), i < j PROVE t[i] < t[j]
        <5>1. i \in 1..Len(s) /\ t[i] = s[i] /\ s[i] \in 1..(k - 1)
          BY <2>5, <2>6, <4>2, <4>4
        <5>2. CASE j = Len(s) + 1
          BY <2>2, <4>2, <5>1, <5>2
        <5>3. CASE j # Len(s) + 1
          <6>1. j \in 1..Len(s) /\ t[j] = s[j]
            BY <2>5, <4>2, <5>3
          <6> QED BY <2>6, <4>4, <5>1, <6>1
        <5> QED BY <5>2, <5>3
      <4> QED BY <4>3, <4>4
    <3>2. CASE d.lexemes[k].kind = "end"
      <4>1. t = SubSeq(s, 1, Len(s) - 1)
        BY <2>3, <3>2 DEF Front
      <4>2. \A i \in 1..Len(t) : i \in 1..Len(s) /\ t[i] = s[i]
        BY <2>5, <4>1
      <4>3. ASSUME NEW i \in 1..Len(t) PROVE t[i] \in 1..k /\ d.lexemes[t[i]].kind = "start"
        BY <2>2, <2>6, <4>2
      <4>4. ASSUME NEW i \in 1..Len(t), NEW j \in 1..Len(t), i < j PROVE t[i] < t[j]
        BY <2>6, <4>2, <4>4
      <4> QED BY <4>3, <4>4
    <3>3. CASE d.lexemes[k].kind \notin {"start", "end"}
      <4>1. t = s
        BY <2>3, <3>3
      <4> QED BY <2>2, <2>6, <4>1
    <3> QED BY <3>1, <3>2, <3>3
  <2>8. (k + 1) - 1 = k
    BY <2>2
  <2> QED BY <2>7, <2>8 DEF Nest, t
<1>4. n - 1 \in P
  <2>1. 0..m \subseteq P
    <3> HIDE DEF P
    <3> QED BY <1>1, <1>2, <1>3, Turns
  <2>2. n - 1 \in 0..m
    BY <1>1 DEF m
  <2> HIDE DEF P
  <2> QED BY <2>1, <2>2
<1>5. (n - 1) + 1 = n
  OBVIOUS
<1> QED
  BY <1>4, <1>5

\* What is open is not the parent of an end tag before.
Unclosed(d, n) ==
    \A i \in 1..Len(OpenAt(d, n)) : \A j \in 1..(n - 1) :
        d.lexemes[j].kind = "end" => ParentOf(Opened(d.lexemes), j) # OpenAt(d, n)[i]

LEMMA ParentIs ==
    ASSUME NEW d, IsDocument(d), NEW n \in 1..(Len(d.lexemes) + 1)
    PROVE  /\ OpenAt(d, n) = <<>> => ParentOf(Opened(d.lexemes), n) = 0
           /\ OpenAt(d, n) # <<>> => /\ Len(OpenAt(d, n)) \in 1..Len(OpenAt(d, n))
                                     /\ ParentOf(Opened(d.lexemes), n) = OpenAt(d, n)[Len(OpenAt(d, n))]
<1>1. OpenAt(d, n) \in Seq(Nat)
  BY OpenTyped
<1>2. OpenAt(d, n) # <<>> => Len(OpenAt(d, n)) \in 1..Len(OpenAt(d, n))
  BY <1>1
<1> QED
  BY <1>2 DEF ParentOf, Last, OpenAt

LEMMA OpenBefore ==
    ASSUME NEW d, IsDocument(d), NEW n \in 1..(Len(d.lexemes) + 1), OpenAt(d, n) # Ill, NEW j \in 1..n
    PROVE  OpenAt(d, j) # Ill
<1> DEFINE P == {k \in j..n : OpenAt(d, k) # Ill}
<1>1. n \in Nat /\ j \in Nat /\ j >= 1 /\ j <= n /\ Len(d.lexemes) \in Nat /\ n <= Len(d.lexemes) + 1
  BY DocumentTyped
<1>2. n \in P
  BY <1>1
<1>3. ASSUME NEW k \in j..(n - 1), k + 1 \in P PROVE k \in P
  <2>1. k \in 1..Len(d.lexemes) /\ k \in j..n
    BY <1>1
  <2>2. OpenAt(d, k + 1) # Ill
    BY <1>3
  <2> QED BY <2>1, <2>2, OpenOn
<1>4. j..n \subseteq P
  <2> HIDE DEF P
  <2> QED BY <1>1, <1>2, <1>3, TurnsDown
<1>5. j \in j..n
  BY <1>1
<1> QED
  BY <1>4, <1>5

LEMMA OpenUnclosed ==
    ASSUME NEW d, IsDocument(d), NEW n \in 1..(Len(d.lexemes) + 1), OpenAt(d, n) # Ill
    PROVE  Unclosed(d, n)
<1> DEFINE m == Len(d.lexemes)
           o == Opened(d.lexemes)
           P == {k \in 0..(n - 1) : Unclosed(d, k + 1)}
<1>1. m \in Nat /\ n \in Nat /\ n >= 1 /\ n <= m + 1
  BY DocumentTyped
<1> HIDE DEF m
<1>2. 0 \in P
  <2>1. Unclosed(d, 0 + 1)
    BY DEF Unclosed
  <2> QED BY <1>1, <2>1
<1>3. ASSUME NEW k \in 1..(n - 1), k - 1 \in P PROVE k \in P
  <2> DEFINE s == OpenAt(d, k)
             t == OpenAt(d, k + 1)
  <2>1. k \in 1..Len(d.lexemes) /\ (k - 1) + 1 = k /\ k \in 1..(Len(d.lexemes) + 1) /\ k \in Nat
        /\ k + 1 \in 1..(Len(d.lexemes) + 1) /\ k + 1 \in 1..n /\ (k + 1) - 1 = k
    BY <1>1 DEF m
  <2>2. t # Ill /\ s # Ill
    BY <1>1, <2>1, OpenBefore, OpenOn
  <2>3. /\ (d.lexemes[k].kind = "start" => t = Append(s, k))
        /\ (d.lexemes[k].kind = "end" => t = Front(s))
        /\ (d.lexemes[k].kind \notin {"start", "end"} => t = s)
    BY <2>1, <2>2, OpenOn
  <2>4. s \in Seq(Nat) /\ Len(s) \in Nat
    BY <2>1, OpenTyped
  <2>5. Unclosed(d, k)
    BY <1>3, <2>1
  <2>6. Nest(d, k)
    BY <2>1, <2>2, OpenNest
  <2>7. ASSUME NEW i \in 1..Len(t), NEW j \in 1..k, d.lexemes[j].kind = "end" PROVE ParentOf(o, j) # t[i]
    <3>1. CASE \E h \in 1..Len(s) : t[i] = s[h] /\ (d.lexemes[k].kind = "end" => h < Len(s))
      <4>1. PICK h \in 1..Len(s) : t[i] = s[h] /\ (d.lexemes[k].kind = "end" => h < Len(s))
        BY <3>1
      <4>2. CASE j = k
        <5>1. s # <<>> /\ Len(s) \in 1..Len(s) /\ h < Len(s)
          BY <2>4, <2>7, <4>1, <4>2
        <5>2. ParentOf(o, k) = s[Len(s)]
          BY <2>1, <5>1, ParentIs
        <5>3. s[h] < s[Len(s)] /\ s[h] \in Nat /\ s[Len(s)] \in Nat
          BY <2>4, <2>6, <5>1 DEF Nest
        <5> QED BY <4>1, <4>2, <5>2, <5>3
      <4>3. CASE j # k
        <5>1. j \in 1..(k - 1)
          BY <2>1, <4>3
        <5>2. ParentOf(o, j) # s[h]
          BY <2>5, <2>7, <5>1 DEF Unclosed
        <5> QED BY <4>1, <5>2
      <4> QED BY <4>2, <4>3
    <3>2. CASE d.lexemes[k].kind = "start" /\ t[i] = k
      <4>1. j # k /\ j \in 1..(Len(d.lexemes) + 1) /\ j \in Nat /\ j <= k
        BY <2>1, <2>7, <3>2
      <4>2. OpenAt(d, j) # Ill
        BY <2>1, <2>2, OpenBefore
      <4>3. Nest(d, j)
        BY <4>1, <4>2, OpenNest
      <4>4. CASE OpenAt(d, j) = <<>>
        <5>1. ParentOf(o, j) = 0
          BY <4>1, <4>4, ParentIs
        <5> QED BY <2>1, <3>2, <5>1
      <4>5. CASE OpenAt(d, j) # <<>>
        <5>1. ParentOf(o, j) = OpenAt(d, j)[Len(OpenAt(d, j))] /\ Len(OpenAt(d, j)) \in 1..Len(OpenAt(d, j))
          BY <4>1, <4>5, ParentIs
        <5>2. ParentOf(o, j) \in 1..(j - 1)
          BY <4>3, <5>1 DEF Nest
        <5> QED BY <2>1, <3>2, <4>1, <5>2
      <4> QED BY <4>4, <4>5
    <3>3. CASE d.lexemes[k].kind = "start"
      <4>1. t = Append(s, k)
        BY <2>3, <3>3
      <4>2. i = Len(s) + 1 \/ i \in 1..Len(s)
        BY <2>4, <4>1
      <4>3. i = Len(s) + 1 => t[i] = k
        BY <2>4, <4>1
      <4>a. \A h \in 1..Len(s) : t[h] = s[h]
        BY <2>4, <4>1
      <4>4. i \in 1..Len(s) => t[i] = s[i]
        BY <4>a
      <4> QED BY <3>1, <3>2, <3>3, <4>2, <4>3, <4>4
    <3>4. CASE d.lexemes[k].kind = "end"
      <4>1. t = SubSeq(s, 1, Len(s) - 1)
        BY <2>3, <3>4 DEF Front
      <4>2. i \in 1..Len(s) /\ i < Len(s) /\ t[i] = s[i]
        BY <2>4, <4>1
      <4> QED BY <3>1, <4>2
    <3>5. CASE d.lexemes[k].kind \notin {"start", "end"}
      <4>1. t = s
        BY <2>3, <3>5
      <4> QED BY <3>1, <3>5, <4>1
    <3> QED BY <3>3, <3>4, <3>5
  <2>8. Unclosed(d, k + 1)
    BY <2>1, <2>7 DEF Unclosed
  <2> QED BY <1>1, <2>8
<1>4. n - 1 \in P
  <2>1. 0..(n - 1) \subseteq P
    <3>1. n - 1 \in Nat
      BY <1>1
    <3> HIDE DEF P
    <3> QED BY <1>2, <1>3, <3>1, Turns
  <2>2. n - 1 \in 0..(n - 1)
    BY <1>1
  <2> HIDE DEF P
  <2> QED BY <2>1, <2>2
<1>5. (n - 1) + 1 = n
  BY <1>1
<1> QED
  BY <1>4, <1>5

LEMMA LegalIs ==
    ASSUME NEW ls, NEW n, NEW open, Legal(ls, n, open)
    PROVE  /\ ls[n].kind = "end" => open # <<>> /\ ls[open[Len(open)]].tag = ls[n].tag
           /\ ls[n].kind = "text" /\ open = <<>> => ls[n].units = ls[n].text /\ IsBlank(ls[n].text)
           /\ IsTag(ls[n]) => open # <<>> \/ ~\E j \in 1..(n - 1) : IsTag(ls[j])
<1> DEFINE kind == ls[n].kind
<1>1. CASE kind = "end"
  BY <1>1 DEF Legal, IsTag
<1>2. CASE kind = "text"
  BY <1>2 DEF Legal, IsTag
<1>3. CASE IsTag(ls[n])
  BY <1>3 DEF Legal, IsTag
<1> QED
  BY <1>1, <1>2, <1>3

\* An end tag closes the innermost open element, and nothing has closed it before.
LEMMA LastIs ==
    ASSUME NEW d, IsDocument(d), NEW n \in 1..Len(d.lexemes), OpenAt(d, n + 1) # Ill, d.lexemes[n].kind = "end"
    PROVE  LET s == OpenAt(d, n)
               k == s[Len(s)] IN
           /\ Len(s) \in 1..Len(s) /\ k \in Tags(d) /\ k < n /\ d.lexemes[k].kind = "start"
           /\ d.lexemes[k].tag = d.lexemes[n].tag /\ LastOf(d, Opened(d.lexemes), k) = n
           /\ ParentOf(Opened(d.lexemes), n) = k
<1> DEFINE s == OpenAt(d, n)
           k == s[Len(s)]
           o == Opened(d.lexemes)
           S == {j \in DOMAIN d.lexemes : d.lexemes[j].kind = "end" /\ ParentOf(o, j) = k}
<1>1. n \in 1..(Len(d.lexemes) + 1) /\ n \in Nat /\ DOMAIN d.lexemes = 1..Len(d.lexemes) /\ Len(d.lexemes) \in Nat
  BY DocumentTyped
<1>2. s # Ill /\ Legal(d.lexemes, n, s)
  BY OpenOn
<1>3. s # <<>> /\ d.lexemes[s[Len(s)]].tag = d.lexemes[n].tag
  BY <1>2, LegalIs
<1>4. Len(s) \in 1..Len(s) /\ ParentOf(o, n) = k
  BY <1>1, <1>3, ParentIs
<1>5. Nest(d, n) /\ Unclosed(d, n)
  BY <1>1, <1>2, OpenNest, OpenUnclosed
<1>6. k \in 1..(n - 1) /\ d.lexemes[k].kind = "start"
  BY <1>4, <1>5 DEF Nest
<1>7. \A j \in 1..(n - 1) : d.lexemes[j].kind = "end" => ParentOf(o, j) # k
  BY <1>4, <1>5 DEF Unclosed
<1> HIDE DEF s, k, o
<1>8. k \in Tags(d) /\ k < n
  BY <1>1, <1>6 DEF Tags, IsTag
<1>9. n \in S /\ S \subseteq Int /\ \A y \in S : n <= y
  <2>1. n \in S
    BY <1>1, <1>4
  <2>2. ASSUME NEW y \in S PROVE n <= y /\ y \in Int
    <3>1. y \in 1..Len(d.lexemes) /\ y \notin 1..(n - 1)
      BY <1>1, <1>7
    <3> QED BY <1>1, <3>1
  <2> QED BY <2>1, <2>2
<1>10. Min(S) = n
  <2> HIDE DEF S
  <2> QED BY <1>9, LeastIs
<1>11. LastOf(d, o, k) = Min(S)
  BY <1>6 DEF LastOf
<1> QED
  BY <1>3, <1>4, <1>6, <1>8, <1>10, <1>11 DEF s, k, o

--------------------------------------------------------------------------------
(* The nodes of the tags *)

LEMMA NodeSteps ==
    ASSUME NEW d, IsDocument(d), NEW n \in 0..Len(d.lexemes)
    PROVE  /\ NodeOf(d, n) \in Nat /\ NodeOf(d, 0) = 0
           /\ n # 0 /\ IsTag(d.lexemes[n]) => NodeOf(d, n) = NodeOf(d, n - 1) + 1
           /\ n # 0 /\ ~IsTag(d.lexemes[n]) => NodeOf(d, n) = NodeOf(d, n - 1)
<1> DEFINE S(i) == {j \in Tags(d) : j <= i}
<1>1. DOMAIN d.lexemes = 1..Len(d.lexemes) /\ Len(d.lexemes) \in Nat /\ n \in Nat
  BY DocumentTyped
<1>2. Tags(d) \subseteq 1..Len(d.lexemes)
  BY <1>1 DEF Tags
<1>3. ASSUME NEW i \in Int PROVE IsFiniteSet(S(i)) /\ Cardinality(S(i)) \in Nat
  <2>1. IsFiniteSet(1..Len(d.lexemes))
    BY <1>1, FS_Interval
  <2>2. IsFiniteSet(S(i))
    BY <1>2, <2>1, FS_Subset
  <2> QED BY <2>2, FS_CardinalityType
<1>4. NodeOf(d, 0) = 0
  <2>1. S(0) = {}
    BY <1>1, <1>2
  <2> QED BY <2>1, FS_EmptySet DEF NodeOf
<1>5. ASSUME n # 0, IsTag(d.lexemes[n]) PROVE NodeOf(d, n) = NodeOf(d, n - 1) + 1
  <2>1. n \in Tags(d)
    BY <1>1, <1>5 DEF Tags
  <2>2. S(n) = S(n - 1) \cup {n} /\ n \notin S(n - 1)
    BY <1>1, <1>2, <2>1
  <2>a. PICK i \in Int : i = n - 1
    BY <1>1
  <2>3. IsFiniteSet(S(n - 1)) /\ Cardinality(S(n - 1)) \in Nat
    <3>1. IsFiniteSet(S(i)) /\ Cardinality(S(i)) \in Nat
      BY <1>3
    <3> QED BY <2>a, <3>1
  <2>4. Cardinality(S(n)) = Cardinality(S(n - 1)) + 1
    <3> HIDE DEF S
    <3> QED BY <2>2, <2>3, FS_AddElement
  <2> QED BY <2>4 DEF NodeOf
<1>6. ASSUME n # 0, ~IsTag(d.lexemes[n]) PROVE NodeOf(d, n) = NodeOf(d, n - 1)
  <2>1. n \notin Tags(d)
    BY <1>6 DEF Tags
  <2>2. S(n) = S(n - 1)
    BY <1>1, <1>2, <2>1
  <2> QED BY <2>2 DEF NodeOf
<1>7. NodeOf(d, n) \in Nat
  <2>1. n \in Int
    BY <1>1
  <2>2. Cardinality(S(n)) \in Nat
    BY <1>3, <2>1
  <2> QED BY <2>2 DEF NodeOf
<1> QED
  BY <1>4, <1>5, <1>6, <1>7

LEMMA NodeOrder ==
    ASSUME NEW d, IsDocument(d), NEW i \in 0..Len(d.lexemes), NEW j \in i..Len(d.lexemes)
    PROVE  /\ NodeOf(d, i) \in Nat /\ NodeOf(d, j) \in Nat /\ NodeOf(d, i) <= NodeOf(d, j)
           /\ i < j /\ IsTag(d.lexemes[j]) => NodeOf(d, i) < NodeOf(d, j)
<1> DEFINE P == {k \in i..j : NodeOf(d, k) <= NodeOf(d, j)}
<1>1. i \in Nat /\ j \in Nat /\ i <= j /\ Len(d.lexemes) \in Nat /\ j <= Len(d.lexemes)
  BY DocumentTyped
<1>2. \A k \in 0..Len(d.lexemes) : NodeOf(d, k) \in Nat
  BY NodeSteps
<1>3. j \in P
  BY <1>1, <1>2
<1>4. ASSUME NEW k \in i..(j - 1), k + 1 \in P PROVE k \in P
  <2>1. k + 1 \in 0..Len(d.lexemes) /\ k + 1 # 0 /\ (k + 1) - 1 = k /\ k \in 0..Len(d.lexemes) /\ k \in i..j
    BY <1>1
  <2>2. NodeOf(d, k + 1) = NodeOf(d, k) + 1 \/ NodeOf(d, k + 1) = NodeOf(d, k)
    BY <2>1, NodeSteps
  <2>3. NodeOf(d, k) \in Nat /\ NodeOf(d, k + 1) \in Nat /\ NodeOf(d, j) \in Nat
    BY <1>1, <1>2, <2>1
  <2> QED BY <1>4, <2>1, <2>2, <2>3
<1>5. i..j \subseteq P
  <2> HIDE DEF P
  <2> QED BY <1>1, <1>3, <1>4, TurnsDown
<1>6. i \in i..j /\ i \in 0..Len(d.lexemes) /\ j \in 0..Len(d.lexemes)
  BY <1>1
<1>7. NodeOf(d, i) \in Nat /\ NodeOf(d, j) \in Nat /\ NodeOf(d, i) <= NodeOf(d, j)
  BY <1>2, <1>5, <1>6
<1>8. ASSUME i < j, IsTag(d.lexemes[j]) PROVE NodeOf(d, i) < NodeOf(d, j)
  <2>1. j # 0 /\ j - 1 \in i..j /\ j - 1 \in 0..Len(d.lexemes)
    BY <1>1, <1>8
  <2>2. NodeOf(d, j) = NodeOf(d, j - 1) + 1
    BY <1>6, <1>8, <2>1, NodeSteps
  <2> DEFINE R == {k \in i..(j - 1) : NodeOf(d, k) <= NodeOf(d, j - 1)}
  <2>3. j - 1 \in R
    BY <1>1, <1>2, <2>1
  <2>4. ASSUME NEW k \in i..((j - 1) - 1), k + 1 \in R PROVE k \in R
    <3>1. k + 1 \in 0..Len(d.lexemes) /\ k + 1 # 0 /\ (k + 1) - 1 = k /\ k \in 0..Len(d.lexemes) /\ k \in i..(j - 1)
      BY <1>1
    <3>2. NodeOf(d, k + 1) = NodeOf(d, k) + 1 \/ NodeOf(d, k + 1) = NodeOf(d, k)
      BY <3>1, NodeSteps
    <3>3. NodeOf(d, k) \in Nat /\ NodeOf(d, k + 1) \in Nat /\ NodeOf(d, j - 1) \in Nat
      BY <1>1, <1>2, <2>1, <3>1
    <3> QED BY <2>4, <3>1, <3>2, <3>3
  <2>5. i..(j - 1) \subseteq R
    <3>1. j - 1 \in Nat /\ i <= j - 1
      BY <1>1, <1>8
    <3> HIDE DEF R
    <3> QED BY <1>1, <2>3, <2>4, <3>1, TurnsDown
  <2>6. i \in i..(j - 1)
    BY <1>1, <1>8
  <2>7. NodeOf(d, i) <= NodeOf(d, j - 1)
    BY <2>5, <2>6
  <2> QED BY <1>2, <1>6, <2>1, <2>2, <2>7
<1> QED
  BY <1>7, <1>8

\* Every node of the tags up to a lexeme is the node of one of them.
LEMMA NodeHas ==
    ASSUME NEW d, IsDocument(d), NEW m \in 0..Len(d.lexemes)
    PROVE  \A n \in 1..NodeOf(d, m) : \E k \in Tags(d) : k <= m /\ NodeOf(d, k) = n
<1> DEFINE T(e) == \A n \in 1..NodeOf(d, e) : \E k \in Tags(d) : k <= e /\ NodeOf(d, k) = n
           P == {e \in 0..m : T(e)}
<1>1. m \in Nat /\ Len(d.lexemes) \in Nat /\ DOMAIN d.lexemes = 1..Len(d.lexemes) /\ m <= Len(d.lexemes)
  BY DocumentTyped
<1>2. 0 \in P
  <2>1. NodeOf(d, 0) = 0
    BY NodeSteps
  <2> QED BY <1>1, <2>1
<1>3. ASSUME NEW e \in 1..m, e - 1 \in P PROVE e \in P
  <2>1. e \in 0..Len(d.lexemes) /\ e # 0 /\ e - 1 \in 0..Len(d.lexemes) /\ e \in DOMAIN d.lexemes
    BY <1>1
  <2>2. NodeOf(d, e) \in Nat /\ NodeOf(d, e - 1) \in Nat
    BY <2>1, NodeSteps
  <2>3. T(e - 1)
    BY <1>3
  <2>4. ASSUME NEW n \in 1..NodeOf(d, e) PROVE \E k \in Tags(d) : k <= e /\ NodeOf(d, k) = n
    <3>1. CASE n \in 1..NodeOf(d, e - 1)
      <4>1. PICK k \in Tags(d) : k <= e - 1 /\ NodeOf(d, k) = n
        BY <2>3, <3>1
      <4>2. k \in Nat
        BY <1>1 DEF Tags
      <4>3. k <= e
        BY <2>1, <4>1, <4>2
      <4> QED BY <4>1, <4>3
    <3>2. CASE n \notin 1..NodeOf(d, e - 1)
      <4>1. IsTag(d.lexemes[e]) /\ NodeOf(d, e) = NodeOf(d, e - 1) + 1
        <5>1. IsTag(d.lexemes[e]) \/ NodeOf(d, e) = NodeOf(d, e - 1)
          BY <2>1, NodeSteps
        <5>2. IsTag(d.lexemes[e])
          BY <3>2, <5>1
        <5> QED BY <2>1, <5>2, NodeSteps
      <4>2. e \in Tags(d) /\ e <= e
        BY <2>1, <4>1 DEF Tags
      <4>3. n = NodeOf(d, e)
        BY <2>2, <3>2, <4>1
      <4> QED BY <4>2, <4>3
    <3> QED BY <3>1, <3>2
  <2> QED BY <2>4
<1>4. m \in P
  <2>1. 0..m \subseteq P
    <3> HIDE DEF P
    <3> QED BY <1>1, <1>2, <1>3, Turns
  <2>2. m \in 0..m
    BY <1>1
  <2> HIDE DEF P
  <2> QED BY <2>1, <2>2
<1> QED
  BY <1>4

LEMMA NodeOnly ==
    ASSUME NEW d, IsDocument(d), NEW i \in Tags(d), NEW j \in Tags(d), NodeOf(d, i) = NodeOf(d, j)
    PROVE  i = j
<1>1. /\ i \in 0..Len(d.lexemes) /\ j \in 0..Len(d.lexemes) /\ i \in Nat /\ j \in Nat
      /\ IsTag(d.lexemes[i]) /\ IsTag(d.lexemes[j])
  BY DocumentTyped DEF Tags
<1>2. CASE i < j
  <2>1. j \in i..Len(d.lexemes)
    BY <1>1, <1>2
  <2>2. NodeOf(d, i) < NodeOf(d, j) /\ NodeOf(d, i) \in Nat
    BY <1>1, <1>2, <2>1, NodeOrder
  <2> QED BY <2>2
<1>3. CASE j < i
  <2>1. i \in j..Len(d.lexemes)
    BY <1>1, <1>3
  <2>2. NodeOf(d, j) < NodeOf(d, i) /\ NodeOf(d, i) \in Nat
    BY <1>1, <1>3, <2>1, NodeOrder
  <2> QED BY <2>2
<1> QED
  BY <1>1, <1>2, <1>3

LEMMA NodeTag ==
    ASSUME NEW d, IsDocument(d), NEW k \in Tags(d)
    PROVE  /\ k \in 1..Len(d.lexemes) /\ IsTag(d.lexemes[k])
           /\ NodeOf(d, k) = NodeOf(d, k - 1) + 1 /\ NodeOf(d, k - 1) \in Nat
           /\ NodeOf(d, k) \in 1..NodeOf(d, Len(d.lexemes)) /\ NodeOf(d, Len(d.lexemes)) \in Nat
<1>1. k \in 1..Len(d.lexemes) /\ IsTag(d.lexemes[k]) /\ Len(d.lexemes) \in Nat
  BY DocumentTyped DEF Tags
<1>2. k \in 0..Len(d.lexemes) /\ k # 0 /\ k - 1 \in 0..Len(d.lexemes) /\ Len(d.lexemes) \in k..Len(d.lexemes)
  BY <1>1
<1>3. NodeOf(d, k) = NodeOf(d, k - 1) + 1 /\ NodeOf(d, k - 1) \in Nat
  BY <1>1, <1>2, NodeSteps
<1>4. NodeOf(d, k) <= NodeOf(d, Len(d.lexemes)) /\ NodeOf(d, Len(d.lexemes)) \in Nat
  BY <1>2, NodeOrder
<1> QED
  BY <1>1, <1>3, <1>4

LEMMA TagCount == ASSUME NEW d, IsDocument(d) PROVE Cardinality(Tags(d)) = NodeOf(d, Len(d.lexemes))
<1>1. \A j \in Tags(d) : j <= Len(d.lexemes)
  BY DocumentTyped DEF Tags
<1>2. {j \in Tags(d) : j <= Len(d.lexemes)} = Tags(d)
  BY <1>1
<1> QED
  BY <1>2 DEF NodeOf

--------------------------------------------------------------------------------
(* The text of an element *)

Piece(d, k, n) ==
    IF d.lexemes[n].kind = "text" /\ ParentOf(Opened(d.lexemes), n) = k THEN d.lexemes[n].text ELSE <<>>

\* The text of the element of tag k in the lexemes before the n-th.
TextBefore(d, k, n) == FlattenSeq(SubSeq(Pieces(d, Opened(d.lexemes), k), 1, n - 1))

LEMMA TextSteps ==
    ASSUME NEW d, IsDocument(d), NEW k
    PROVE  /\ \A n \in 1..(Len(d.lexemes) + 1) : TextBefore(d, k, n) \in Seq(STRING)
           /\ TextBefore(d, k, 1) = <<>>
           /\ \A n \in 1..Len(d.lexemes) : TextBefore(d, k, n + 1) = TextBefore(d, k, n) \o Piece(d, k, n)
           /\ TextOf(d, Opened(d.lexemes), k) = TextBefore(d, k, Len(d.lexemes) + 1)
<1> DEFINE s == Pieces(d, Opened(d.lexemes), k)
           m == Len(d.lexemes)
<1>1. m \in Nat /\ DOMAIN d.lexemes = 1..m /\ \A n \in 1..m : d.lexemes[n].text \in Seq(STRING)
  BY DocumentTyped
<1>2. \A n \in 1..m : Piece(d, k, n) \in Seq(STRING)
  <2>1. ASSUME NEW n \in 1..m PROVE Piece(d, k, n) \in Seq(STRING)
    <3>1. d.lexemes[n].text \in Seq(STRING) /\ <<>> \in Seq(STRING)
      BY <1>1
    <3> QED BY <3>1, Zenon DEF Piece
  <2> QED BY <2>1
<1>3. s = [n \in 1..m |-> Piece(d, k, n)]
  BY <1>1 DEF Pieces, Piece
<1> HIDE DEF s, m
<1>4. s \in Seq(Seq(STRING)) /\ Len(s) = m /\ \A n \in 1..m : s[n] = Piece(d, k, n)
  BY <1>1, <1>2, <1>3
<1>5. PICK F \in [0..m -> Seq(STRING)] : Flat(F, s)
  BY <1>4, Flattened
<1>6. /\ F[0] = <<>> /\ \A i \in 1..m : F[i] = F[i - 1] \o s[i]
      /\ \A i \in 0..m : FlattenSeq(SubSeq(s, 1, i)) = F[i]
      /\ FlattenSeq(s) = F[m]
  BY <1>4, <1>5 DEF Flat
<1>7. ASSUME NEW n \in 1..(m + 1) PROVE TextBefore(d, k, n) = F[n - 1] /\ n - 1 \in 0..m
  BY <1>1, <1>6 DEF TextBefore, s
<1>8. \A n \in 1..(m + 1) : TextBefore(d, k, n) \in Seq(STRING)
  BY <1>5, <1>7
<1>9. TextBefore(d, k, 1) = <<>>
  <2>1. 1 \in 1..(m + 1) /\ 1 - 1 = 0
    BY <1>1
  <2> QED BY <1>6, <1>7, <2>1
<1>10. ASSUME NEW n \in 1..m PROVE TextBefore(d, k, n + 1) = TextBefore(d, k, n) \o Piece(d, k, n)
  <2>1. n + 1 \in 1..(m + 1) /\ (n + 1) - 1 = n /\ n \in 1..(m + 1)
    BY <1>1
  <2>2. TextBefore(d, k, n + 1) = F[n] /\ TextBefore(d, k, n) = F[n - 1]
    BY <1>7, <2>1
  <2> QED BY <1>4, <1>6, <2>2
<1>11. TextOf(d, Opened(d.lexemes), k) = TextBefore(d, k, m + 1)
  <2>1. m + 1 \in 1..(m + 1) /\ (m + 1) - 1 = m
    BY <1>1
  <2>2. TextBefore(d, k, m + 1) = F[m]
    BY <1>7, <2>1
  <2> QED BY <1>6, <2>2 DEF TextOf, s
<1> QED
  BY <1>8, <1>9, <1>10, <1>11 DEF m

\* No text comes before the tag.
LEMMA TextNone ==
    ASSUME NEW d, IsDocument(d), NEW k \in 1..Len(d.lexemes), OpenAt(d, k) # Ill
    PROVE  TextBefore(d, k, k) = <<>>
<1> DEFINE P == {i \in 0..(k - 1) : TextBefore(d, k, i + 1) = <<>>}
<1>1. k \in Nat /\ k >= 1 /\ Len(d.lexemes) \in Nat /\ k <= Len(d.lexemes)
  BY DocumentTyped
<1>2. 0 \in P
  <2>1. TextBefore(d, k, 0 + 1) = <<>>
    BY TextSteps
  <2> QED BY <1>1, <2>1
<1>3. ASSUME NEW i \in 1..(k - 1), i - 1 \in P PROVE i \in P
  <2>1. i \in 1..Len(d.lexemes) /\ (i - 1) + 1 = i /\ i \in 1..(Len(d.lexemes) + 1) /\ i \in 1..k /\ i < k
        /\ k \in 1..(Len(d.lexemes) + 1) /\ i \in Nat
    BY <1>1
  <2>2. TextBefore(d, k, i) = <<>>
    BY <1>3, <2>1
  <2>3. OpenAt(d, i) # Ill
    BY <2>1, OpenBefore
  <2>4. ParentOf(Opened(d.lexemes), i) # k
    <3>1. CASE OpenAt(d, i) = <<>>
      BY <1>1, <2>1, <3>1, ParentIs
    <3>2. CASE OpenAt(d, i) # <<>>
      <4>1. Nest(d, i)
        BY <2>1, <2>3, OpenNest
      <4>2. ParentOf(Opened(d.lexemes), i) \in 1..(i - 1)
        BY <2>1, <3>2, <4>1, ParentIs DEF Nest
      <4> QED BY <1>1, <2>1, <4>2
    <3> QED BY <3>1, <3>2
  <2>5. Piece(d, k, i) = <<>>
    BY <2>4 DEF Piece
  <2>6. TextBefore(d, k, i + 1) = <<>> \o <<>>
    <3>1. TextBefore(d, k, i + 1) = TextBefore(d, k, i) \o Piece(d, k, i)
      BY <2>1, TextSteps
    <3> QED BY <2>2, <2>5, <3>1
  <2>7. <<>> \o <<>> = <<>>
    OBVIOUS
  <2> QED BY <2>6, <2>7
<1>4. k - 1 \in P
  <2>1. 0..(k - 1) \subseteq P
    <3>1. k - 1 \in Nat
      BY <1>1
    <3> HIDE DEF P
    <3> QED BY <1>2, <1>3, <3>1, Turns
  <2>2. k - 1 \in 0..(k - 1)
    BY <1>1
  <2> HIDE DEF P
  <2> QED BY <2>1, <2>2
<1>5. (k - 1) + 1 = k
  BY <1>1
<1> QED
  BY <1>4, <1>5

\* The text so far, when s units of the lexeme have been delivered.
TextSo(d, k, n, s) ==
    TextBefore(d, k, n) \o
        (IF s > 0 /\ n <= Len(d.lexemes) /\ d.lexemes[n].kind = "text" /\ ParentOf(Opened(d.lexemes), n) = k
         THEN SubSeq(d.lexemes[n].text, 1, s) ELSE <<>>)

LEMMA TextStart ==
    ASSUME NEW d, IsDocument(d), NEW k, NEW n \in 1..(Len(d.lexemes) + 1)
    PROVE  TextSo(d, k, n, 0) = TextBefore(d, k, n) /\ TextBefore(d, k, n) \in Seq(STRING)
<1>1. TextBefore(d, k, n) \in Seq(STRING)
  BY TextSteps
<1>2. TextSo(d, k, n, 0) = TextBefore(d, k, n) \o <<>>
  BY DEF TextSo
<1> QED
  BY <1>1, <1>2

\* The text does not change where the lexeme adds none.
LEMMA TextKept ==
    ASSUME NEW d, IsDocument(d), NEW k, NEW n \in 1..Len(d.lexemes), NEW s,
           d.lexemes[n].kind # "text" \/ ParentOf(Opened(d.lexemes), n) # k
    PROVE  TextSo(d, k, n, s) = TextBefore(d, k, n) /\ TextBefore(d, k, n + 1) = TextBefore(d, k, n)
<1>1. n \in 1..(Len(d.lexemes) + 1)
  BY DocumentTyped
<1>2. TextBefore(d, k, n) \in Seq(STRING)
  BY <1>1, TextSteps
<1>3. Piece(d, k, n) = <<>> /\ TextSo(d, k, n, s) = TextBefore(d, k, n) \o <<>>
  BY DEF Piece, TextSo
<1>4. TextBefore(d, k, n + 1) = TextBefore(d, k, n) \o Piece(d, k, n)
  BY TextSteps
<1> QED
  BY <1>2, <1>3, <1>4

LEMMA TextMore ==
    ASSUME NEW d, IsDocument(d), NEW k, NEW n \in 1..Len(d.lexemes),
           d.lexemes[n].kind = "text", ParentOf(Opened(d.lexemes), n) = k,
           NEW s \in Nat, NEW t \in (s + 1)..Len(d.lexemes[n].text)
    PROVE  TextSo(d, k, n, t) = TextSo(d, k, n, s) \o SubSeq(d.lexemes[n].text, s + 1, t)
<1> DEFINE b == TextBefore(d, k, n)
           x == d.lexemes[n].text
<1>1. n \in 1..(Len(d.lexemes) + 1) /\ n <= Len(d.lexemes) /\ x \in Seq(STRING)
  BY DocumentTyped
<1>2. b \in Seq(STRING)
  BY <1>1, TextSteps
<1>3. t \in Nat /\ t > 0 /\ t <= Len(x) /\ Len(x) \in Nat
  BY <1>1
<1>4. TextSo(d, k, n, t) = b \o SubSeq(x, 1, t)
  BY <1>1, <1>3 DEF TextSo
<1> HIDE DEF b, x
<1>5. CASE s = 0
  <2>1. TextSo(d, k, n, 0) = b
    BY <1>1, TextStart DEF b
  <2> QED BY <1>4, <1>5, <2>1 DEF x
<1>6. CASE s > 0
  <2>1. TextSo(d, k, n, s) = b \o SubSeq(x, 1, s)
    BY <1>1, <1>6 DEF TextSo, b, x
  <2>2. SubSeq(x, 1, t) = SubSeq(x, 1, s) \o SubSeq(x, s + 1, t)
    <3>1. s \in Nat /\ s <= t /\ s >= 1 /\ s <= Len(x)
      BY <1>3, <1>6
    <3> QED BY <1>1, <1>3, <3>1
  <2>3. SubSeq(x, 1, s) \in Seq(STRING) /\ SubSeq(x, s + 1, t) \in Seq(STRING)
    BY <1>1, <1>3, <1>6
  <2>4. b \o (SubSeq(x, 1, s) \o SubSeq(x, s + 1, t)) = (b \o SubSeq(x, 1, s)) \o SubSeq(x, s + 1, t)
    <3> DEFINE y == SubSeq(x, 1, s)
               z == SubSeq(x, s + 1, t)
    <3>1. y \in Seq(STRING) /\ z \in Seq(STRING)
      BY <2>3
    <3> HIDE DEF y, z
    <3>2. b \o (y \o z) = (b \o y) \o z
      BY <1>2, <3>1
    <3> QED BY <3>2 DEF y, z
  <2> QED BY <1>4, <2>1, <2>2, <2>4 DEF x
<1>7. s = 0 \/ s > 0
  OBVIOUS
<1> QED
  BY <1>5, <1>6, <1>7

\* A run of text that has been delivered is part of the text before the next lexeme.
LEMMA TextDone ==
    ASSUME NEW d, IsDocument(d), NEW k, NEW n \in 1..Len(d.lexemes),
           d.lexemes[n].kind = "text", ParentOf(Opened(d.lexemes), n) = k
    PROVE  TextBefore(d, k, n + 1) = TextSo(d, k, n, Len(d.lexemes[n].text))
<1> DEFINE b == TextBefore(d, k, n)
           x == d.lexemes[n].text
<1>1. n \in 1..(Len(d.lexemes) + 1) /\ n <= Len(d.lexemes) /\ x \in Seq(STRING) /\ Len(x) \in Nat
  BY DocumentTyped
<1>2. b \in Seq(STRING)
  BY <1>1, TextSteps
<1>3. TextBefore(d, k, n + 1) = b \o x
  BY TextSteps DEF Piece
<1> HIDE DEF b, x
<1>4. CASE Len(x) = 0
  <2>1. x = <<>>
    BY <1>1, <1>4
  <2>2. TextSo(d, k, n, 0) = b
    BY <1>1, TextStart DEF b
  <2>3. b \o <<>> = b
    BY <1>2
  <2> QED BY <1>3, <1>4, <2>1, <2>2, <2>3 DEF x
<1>5. CASE Len(x) # 0
  <2>1. TextSo(d, k, n, Len(x)) = b \o SubSeq(x, 1, Len(x))
    BY <1>1, <1>5 DEF TextSo, b, x
  <2>2. SubSeq(x, 1, Len(x)) = x
    BY <1>1
  <2> QED BY <1>3, <2>1, <2>2 DEF x
<1> QED
  BY <1>4, <1>5

--------------------------------------------------------------------------------
(* What has been built of a tree when libxml2 is at lexeme n and s of it has been  *)
(* delivered                                                                      *)

Nodes == [tag : Seq(STRING), dest : Seq(STRING), text : Seq(STRING), parent : Nat, start : Nat, end : Nat, line : Nat]

\* An empty element has been entered and not left.
Half(d, n, s) == n <= Len(d.lexemes) /\ d.lexemes[n].kind = "empty" /\ s = 1

SentOK(d, n, s) ==
    /\ s \in Nat
    /\ s # 0 => /\ n <= Len(d.lexemes) /\ OpenAt(d, n + 1) # Ill
                /\ \/ d.lexemes[n].kind = "empty" /\ s = 1
                   \/ d.lexemes[n].kind = "text" /\ s <= Len(d.lexemes[n].text)

Row(d, r, k, x) ==
    /\ r.tag = d.lexemes[k].tag /\ r.dest = d.lexemes[k].dest /\ r.text = x
    /\ r.parent = NodeOf(d, ParentOf(Opened(d.lexemes), k))
Rows(d, n, s, t) == \A k \in Tags(d) : NodeOf(d, k) <= Len(t) => Row(d, t[NodeOf(d, k)], k, TextSo(d, k, n, s))

Stacked(d, n, s, st) ==
    /\ st \in Seq(Nat)
    /\ Half(d, n, s) => Len(st) = Len(OpenAt(d, n)) + 1 /\ st[Len(st)] = NodeOf(d, n)
    /\ ~Half(d, n, s) => Len(st) = Len(OpenAt(d, n))
    /\ \A i \in 1..Len(OpenAt(d, n)) : st[i] = NodeOf(d, OpenAt(d, n)[i])

At0(d, n, s) == n \in 1..(Len(d.lexemes) + 1) /\ OpenAt(d, n) # Ill /\ SentOK(d, n, s)

Had(d, n, s, t) ==
    /\ t \in Seq(Nodes)
    /\ Half(d, n, s) => Len(t) = NodeOf(d, n - 1) + 1
    /\ ~Half(d, n, s) => Len(t) = NodeOf(d, n - 1)

Shape(d, n, s, t, st) == At0(d, n, s) /\ Had(d, n, s, t) /\ Rows(d, n, s, t) /\ Stacked(d, n, s, st)

LEMMA RowSeq ==
    ASSUME NEW S, NEW n \in Nat, NEW f \in [1..n -> S] PROVE f \in Seq(S) /\ Len(f) = n
OBVIOUS

LEMMA ShapeBegins == ASSUME NEW d, IsDocument(d) PROVE Shape(d, 1, 0, <<>>, <<>>)
<1>1. Len(d.lexemes) \in Nat /\ 1 \in 1..(Len(d.lexemes) + 1) /\ 0 \in 0..Len(d.lexemes)
  BY DocumentTyped
<1>2. OpenAt(d, 1) = <<>>
  BY <1>1, OpenTyped
<1>3. ~Half(d, 1, 0) /\ At0(d, 1, 0)
  <2>1. ~Half(d, 1, 0)
    BY DEF Half
  <2>2. SentOK(d, 1, 0)
    BY DEF SentOK
  <2>3. Len(<<>>) = 0 /\ Len(<<0>>) = 1
    OBVIOUS
  <2>4. OpenAt(d, 1) # Ill
    BY <1>2, <2>3 DEF Ill
  <2> QED BY <1>1, <2>1, <2>2, <2>4 DEF At0
<1>4. NodeOf(d, 0) = 0
  BY <1>1, NodeSteps
<1>5. Had(d, 1, 0, <<>>)
  BY <1>3, <1>4 DEF Had
<1>6. Stacked(d, 1, 0, <<>>)
  BY <1>2, <1>3 DEF Stacked
<1>7. Rows(d, 1, 0, <<>>)
  <2>1. ASSUME NEW k \in Tags(d), NodeOf(d, k) <= Len(<<>>) PROVE FALSE
    <3>1. NodeOf(d, k) = NodeOf(d, k - 1) + 1 /\ NodeOf(d, k - 1) \in Nat
      BY NodeTag
    <3> QED BY <2>1, <3>1
  <2> QED BY <2>1 DEF Rows
<1> QED
  BY <1>3, <1>5, <1>6, <1>7 DEF Shape

LEMMA NodesCount ==
    ASSUME NEW d, IsDocument(d), NEW n \in 1..Len(d.lexemes), NEW s, SentOK(d, n, s)
    PROVE  /\ NodeOf(d, n - 1) \in Nat /\ NodeOf(d, n) \in Nat
           /\ IsTag(d.lexemes[n]) => NodeOf(d, n) = NodeOf(d, n - 1) + 1
           /\ ~IsTag(d.lexemes[n]) => NodeOf(d, n) = NodeOf(d, n - 1) /\ ~Half(d, n, s)
<1>1. n \in 0..Len(d.lexemes) /\ n - 1 \in 0..Len(d.lexemes) /\ n # 0
  BY DocumentTyped
<1> QED
  BY <1>1, NodeSteps DEF Half, IsTag

\* To the next lexeme, when this one is not a tag and its text has been delivered.
LEMMA ShapeQuiet ==
    ASSUME NEW d, IsDocument(d), NEW n \in 1..Len(d.lexemes), NEW s, NEW t, NEW st, Shape(d, n, s, t, st),
           OpenAt(d, n + 1) # Ill, d.lexemes[n].kind \in {"skip", "doctype", "text"},
           d.lexemes[n].kind = "text" => st = <<>> \/ s = Len(d.lexemes[n].text)
    PROVE  Shape(d, n + 1, 0, t, st)
<1>1. At0(d, n, s) /\ Had(d, n, s, t) /\ Rows(d, n, s, t) /\ Stacked(d, n, s, st) /\ SentOK(d, n, s)
  BY DEF Shape, At0
<1>2. Len(d.lexemes) \in Nat /\ n \in Nat /\ n + 1 \in 1..(Len(d.lexemes) + 1) /\ n \in 1..(Len(d.lexemes) + 1)
      /\ (n + 1) - 1 = n
  BY DocumentTyped
<1>3. OpenAt(d, n + 1) = OpenAt(d, n)
  BY OpenOn
<1>4. ~IsTag(d.lexemes[n]) /\ NodeOf(d, n) = NodeOf(d, n - 1) /\ ~Half(d, n, s)
  BY <1>1, NodesCount DEF IsTag
<1>5. ~Half(d, n + 1, 0)
  BY DEF Half
<1>6. At0(d, n + 1, 0)
  BY <1>2 DEF At0, SentOK
<1>7. Had(d, n + 1, 0, t)
  BY <1>1, <1>2, <1>4, <1>5 DEF Had
<1>8. Stacked(d, n + 1, 0, st)
  BY <1>1, <1>3, <1>4, <1>5 DEF Stacked
<1>9. ASSUME NEW k \in Tags(d) PROVE TextSo(d, k, n + 1, 0) = TextSo(d, k, n, s)
  <2>1. TextSo(d, k, n + 1, 0) = TextBefore(d, k, n + 1)
    BY <1>2, TextStart
  <2>2. CASE d.lexemes[n].kind # "text" \/ ParentOf(Opened(d.lexemes), n) # k
    <3>1. TextSo(d, k, n, s) = TextBefore(d, k, n) /\ TextBefore(d, k, n + 1) = TextBefore(d, k, n)
      BY <2>2, TextKept
    <3> QED BY <2>1, <3>1
  <2>3. CASE d.lexemes[n].kind = "text" /\ ParentOf(Opened(d.lexemes), n) = k
    <3>1. k # 0
      BY NodeTag
    <3>2. OpenAt(d, n) # <<>>
      BY <1>2, <2>3, <3>1, ParentIs
    <3>3. st # <<>>
      <4>1. Len(st) = Len(OpenAt(d, n)) /\ Len(OpenAt(d, n)) \in 1..Len(OpenAt(d, n))
        BY <1>1, <1>2, <1>4, <3>2, ParentIs DEF Stacked
      <4> QED BY <4>1
    <3>4. s = Len(d.lexemes[n].text)
      BY <2>3, <3>3
    <3> QED BY <2>1, <2>3, <3>4, TextDone
  <2> QED BY <2>2, <2>3
<1>10. Rows(d, n + 1, 0, t)
  BY <1>1, <1>9 DEF Rows
<1> QED
  BY <1>6, <1>7, <1>8, <1>10 DEF Shape

Told(t, st, x, s, m) == [t EXCEPT ![st[Len(st)]].text = @ \o SubSeq(x, s + 1, m)]

\* A run of text goes to the innermost open element.
LEMMA ShapeText ==
    ASSUME NEW d, IsDocument(d), NEW n \in 1..Len(d.lexemes), NEW s, NEW t, NEW st, Shape(d, n, s, t, st),
           OpenAt(d, n + 1) # Ill, d.lexemes[n].kind = "text", st # <<>>,
           NEW m \in (s + 1)..Len(d.lexemes[n].text),
           NEW u, u = Told(t, st, d.lexemes[n].text, s, m)
    PROVE  Shape(d, n, m, u, st) /\ Len(u) = Len(t) /\ st[Len(st)] \in 1..Len(t)
           /\ \A i \in 1..Len(t) : u[i].start = t[i].start /\ u[i].end = t[i].end /\ u[i].line = t[i].line
<1> DEFINE x == d.lexemes[n].text
           k0 == ParentOf(Opened(d.lexemes), n)
           w == st[Len(st)]
           y == SubSeq(x, s + 1, m)
<1>1. At0(d, n, s) /\ Had(d, n, s, t) /\ Rows(d, n, s, t) /\ Stacked(d, n, s, st) /\ SentOK(d, n, s)
  BY DEF Shape, At0
<1>2. Len(d.lexemes) \in Nat /\ n \in Nat /\ n \in 1..(Len(d.lexemes) + 1) /\ n <= Len(d.lexemes)
      /\ s \in Nat /\ x \in Seq(STRING)
  BY <1>1, DocumentTyped DEF SentOK
<1>3. ~IsTag(d.lexemes[n]) /\ ~Half(d, n, s) /\ ~Half(d, n, m)
  BY <1>1, NodesCount DEF IsTag, Half
<1>4. At0(d, n, m)
  <2>1. m \in Nat /\ m <= Len(x) /\ m # 0
    BY <1>2
  <2> QED BY <1>1, <1>2, <2>1 DEF At0, SentOK
<1>5. Stacked(d, n, m, st)
  BY <1>1, <1>3 DEF Stacked
<1>6. k0 \in Tags(d) /\ w = NodeOf(d, k0) /\ w \in 1..Len(t)
  <2>1. Len(st) = Len(OpenAt(d, n)) /\ st \in Seq(Nat) /\ \A i \in 1..Len(OpenAt(d, n)) : st[i] = NodeOf(d, OpenAt(d, n)[i])
    BY <1>1, <1>3 DEF Stacked
  <2>2. OpenAt(d, n) # <<>>
    BY <2>1
  <2>3. Len(OpenAt(d, n)) \in 1..Len(OpenAt(d, n)) /\ k0 = OpenAt(d, n)[Len(OpenAt(d, n))]
    BY <1>2, <2>2, ParentIs
  <2>4. OpenAt(d, n) # Ill /\ Nest(d, n)
    BY <1>1, <1>2, OpenNest DEF At0
  <2>5. k0 \in 1..(n - 1) /\ d.lexemes[k0].kind = "start"
    BY <2>3, <2>4 DEF Nest
  <2>6. k0 \in Tags(d)
    <3>1. k0 \in 1..Len(d.lexemes) /\ DOMAIN d.lexemes = 1..Len(d.lexemes)
      BY <1>2, <2>5, DocumentTyped
    <3>2. IsTag(d.lexemes[k0])
      BY <2>5 DEF IsTag
    <3> QED BY <3>1, <3>2 DEF Tags
  <2>7. w = NodeOf(d, k0)
    BY <2>1, <2>3
  <2>8. Len(t) = NodeOf(d, n - 1)
    BY <1>1, <1>3 DEF Had
  <2>9. NodeOf(d, k0) <= NodeOf(d, n - 1)
    <3>1. k0 \in 0..Len(d.lexemes) /\ n - 1 \in k0..Len(d.lexemes)
      BY <1>2, <2>5
    <3> QED BY <3>1, NodeOrder
  <2>10. NodeOf(d, k0) \in Nat /\ NodeOf(d, k0) >= 1
    BY <2>6, NodeTag
  <2> QED BY <2>6, <2>7, <2>8, <2>9, <2>10
<1>7. y \in Seq(STRING)
  <2>1. s + 1 \in Nat /\ s + 1 >= 1 /\ m \in Nat /\ m <= Len(x)
    BY <1>2
  <2> QED BY <1>2, <2>1
<1> HIDE DEF w, x, k0, y
<1>8. t \in Seq(Nodes)
  BY <1>1 DEF Had
<1>9. u = [t EXCEPT ![w].text = @ \o y]
  BY DEF w, y, x, Told
<1>10. /\ Len(u) = Len(t) /\ u \in Seq(Nodes)
       /\ \A i \in 1..Len(t) : /\ u[i].tag = t[i].tag /\ u[i].dest = t[i].dest /\ u[i].parent = t[i].parent
                               /\ u[i].start = t[i].start /\ u[i].end = t[i].end /\ u[i].line = t[i].line
                               /\ i = w => u[i].text = t[i].text \o y
                               /\ i # w => u[i].text = t[i].text
  <2>1. t[w] \in Nodes /\ \A i \in 1..Len(t) : t[i] \in Nodes
    BY <1>6, <1>8
  <2> DEFINE r == [t[w] EXCEPT !.text = t[w].text \o y]
  <2>2. t[w].text \in Seq(STRING)
    BY <2>1 DEF Nodes
  <2>3. t[w].text \o y \in Seq(STRING)
    BY <1>7, <2>2
  <2>4. r \in Nodes /\ r.tag = t[w].tag /\ r.dest = t[w].dest /\ r.parent = t[w].parent /\ r.text = t[w].text \o y
        /\ r.start = t[w].start /\ r.end = t[w].end /\ r.line = t[w].line
    BY <2>1, <2>3 DEF Nodes
  <2>5. u = [t EXCEPT ![w] = r]
    BY <1>9
  <2> HIDE DEF r
  <2>6. DOMAIN t = 1..Len(t) /\ Len(t) \in Nat
    BY <1>8
  <2>7. Len(u) = Len(t) /\ u \in Seq(Nodes)
    <3>1. w \in DOMAIN t
      BY <1>6, <2>6
    <3>2. DOMAIN u = 1..Len(t) /\ u = [i \in 1..Len(t) |-> u[i]]
      BY <2>5, <2>6
    <3>3. \A i \in 1..Len(t) : u[i] \in Nodes
      BY <2>1, <2>4, <2>5, <2>6, <3>1
    <3>4. u \in [1..Len(t) -> Nodes]
      BY <3>2, <3>3
    <3>5. PICK h : h = Len(t)
      OBVIOUS
    <3>6. h \in Nat /\ u \in [1..h -> Nodes]
      BY <2>6, <3>4, <3>5
    <3>7. u \in Seq(Nodes) /\ Len(u) = h
      BY <3>6, RowSeq
    <3> QED BY <3>5, <3>7
  <2>8. /\ \A i \in 1..Len(t) : i # w => u[i] = t[i]
        /\ u[w] = r
    BY <1>6, <2>5, <2>6
  <2>9. ASSUME NEW i \in 1..Len(t)
        PROVE  /\ u[i].tag = t[i].tag /\ u[i].dest = t[i].dest /\ u[i].parent = t[i].parent
               /\ u[i].start = t[i].start /\ u[i].end = t[i].end /\ u[i].line = t[i].line
               /\ i = w => u[i].text = t[i].text \o y
               /\ i # w => u[i].text = t[i].text
    <3>1. CASE i = w
      <4>1. u[i] = r
        BY <2>8, <3>1
      <4> QED BY <2>4, <3>1, <4>1
    <3>2. CASE i # w
      <4>1. u[i] = t[i]
        BY <2>8, <3>2
      <4> QED BY <3>2, <4>1
    <3> QED BY <3>1, <3>2
  <2> QED BY <2>7, <2>9
<1>11. Had(d, n, m, u)
  BY <1>1, <1>3, <1>10 DEF Had
<1>12. ASSUME NEW k \in Tags(d), NodeOf(d, k) <= Len(u) PROVE Row(d, u[NodeOf(d, k)], k, TextSo(d, k, n, m))
  <2>1. NodeOf(d, k) \in 1..Len(t)
    <3>1. NodeOf(d, k) \in Nat /\ NodeOf(d, k) >= 1
      BY NodeTag
    <3>2. Len(t) \in Nat
      BY <1>8
    <3> QED BY <1>10, <1>12, <3>1, <3>2
  <2>2. Row(d, t[NodeOf(d, k)], k, TextSo(d, k, n, s))
    BY <1>1, <1>10, <1>12 DEF Rows
  <2>3. CASE k = k0
    <3>1. u[NodeOf(d, k)].text = t[NodeOf(d, k)].text \o y
      BY <1>6, <1>10, <2>1, <2>3
    <3>2. TextSo(d, k, n, m) = TextSo(d, k, n, s) \o y
      <4>1. s \in Nat /\ ParentOf(Opened(d.lexemes), n) = k
        BY <1>2, <2>3 DEF k0
      <4> QED BY <4>1, TextMore DEF y, x
    <3> QED BY <1>10, <2>1, <2>2, <3>1, <3>2 DEF Row
  <2>4. CASE k # k0
    <3>1. NodeOf(d, k) # w
      BY <1>6, <2>4, NodeOnly
    <3>2. u[NodeOf(d, k)].text = t[NodeOf(d, k)].text
      BY <1>10, <2>1, <3>1
    <3>3. TextSo(d, k, n, m) = TextSo(d, k, n, s)
      <4>1. ParentOf(Opened(d.lexemes), n) # k
        BY <2>4 DEF k0
      <4>2. TextSo(d, k, n, m) = TextBefore(d, k, n) /\ TextSo(d, k, n, s) = TextBefore(d, k, n)
        BY <4>1, TextKept
      <4> QED BY <4>2
    <3> QED BY <1>10, <2>1, <2>2, <3>2, <3>3 DEF Row
  <2> QED BY <2>3, <2>4
<1>13. Rows(d, n, m, u)
  BY <1>12 DEF Rows
<1> QED
  BY <1>4, <1>5, <1>6, <1>10, <1>11, <1>13 DEF Shape, w

LEMMA AppendIs ==
    ASSUME NEW S, NEW t \in Seq(S), NEW r \in S, NEW u, u = Append(t, r)
    PROVE  u \in Seq(S) /\ Len(u) = Len(t) + 1 /\ u[Len(t) + 1] = r /\ \A i \in 1..Len(t) : u[i] = t[i]
OBVIOUS

Added(t, r, u) == u = Append(t, r)

\* The innermost open element, 0 for none.
TopOf(st) == IF st = <<>> THEN 0 ELSE st[Len(st)]

\* Its node is the next one.
LEMMA StartAdds ==
    ASSUME NEW d, IsDocument(d), NEW n \in 1..Len(d.lexemes), NEW t, NEW st, Shape(d, n, 0, t, st),
           d.lexemes[n].kind \in {"start", "empty"}, NEW r \in Nodes, NEW u, Added(t, r, u)
    PROVE  /\ t \in Seq(Nodes) /\ Len(t) \in Nat /\ Len(t) = NodeOf(d, n - 1)
           /\ n \in Tags(d) /\ NodeOf(d, n) = Len(t) + 1
           /\ u \in Seq(Nodes) /\ Len(u) = Len(t) + 1 /\ u[Len(t) + 1] = r /\ \A i \in 1..Len(t) : u[i] = t[i]
<1>1. Had(d, n, 0, t)
  BY DEF Shape
<1>3. ~Half(d, n, 0)
  BY DEF Half
<1>4. t \in Seq(Nodes) /\ Len(t) = NodeOf(d, n - 1) /\ Len(t) \in Nat
  <2>1. t \in Seq(Nodes)
    BY <1>1 DEF Had
  <2> QED BY <1>1, <1>3, <2>1 DEF Had
<1>6. n \in Tags(d) /\ NodeOf(d, n) = Len(t) + 1
  <2>1. DOMAIN d.lexemes = 1..Len(d.lexemes)
    BY DocumentTyped
  <2>2. IsTag(d.lexemes[n])
    BY DEF IsTag
  <2>3. n \in Tags(d)
    BY <2>1, <2>2 DEF Tags
  <2> QED BY <1>4, <2>3, NodeTag
<1>7. u \in Seq(Nodes) /\ Len(u) = Len(t) + 1 /\ u[Len(t) + 1] = r /\ \A i \in 1..Len(t) : u[i] = t[i]
  BY <1>4, AppendIs DEF Added
<1> QED
  BY <1>4, <1>6, <1>7

\* A tag adds the node of its element, open until it ends.
LEMMA ShapeStart ==
    ASSUME NEW d, IsDocument(d), NEW n \in 1..Len(d.lexemes), NEW t, NEW st, Shape(d, n, 0, t, st),
           OpenAt(d, n + 1) # Ill, d.lexemes[n].kind \in {"start", "empty"},
           NEW r \in Nodes, r.tag = d.lexemes[n].tag, r.dest = d.lexemes[n].dest, r.text = <<>>,
           r.parent = TopOf(st),
           NEW u, Added(t, r, u), NEW v, Added(st, Len(t) + 1, v)
    PROVE  /\ d.lexemes[n].kind = "start" => Shape(d, n + 1, 0, u, v)
           /\ d.lexemes[n].kind = "empty" => Shape(d, n, 1, u, v)
<1>1. At0(d, n, 0) /\ Had(d, n, 0, t) /\ Rows(d, n, 0, t) /\ Stacked(d, n, 0, st) /\ SentOK(d, n, 0)
  BY DEF Shape, At0
<1>2. /\ Len(d.lexemes) \in Nat /\ n \in Nat /\ n \in 1..(Len(d.lexemes) + 1) /\ n <= Len(d.lexemes)
      /\ n + 1 \in 1..(Len(d.lexemes) + 1) /\ (n + 1) - 1 = n
  BY DocumentTyped
<1>3. ~Half(d, n, 0) /\ ~Half(d, n + 1, 0)
  BY DEF Half
<1>4. t \in Seq(Nodes) /\ Len(t) = NodeOf(d, n - 1) /\ Len(t) \in Nat
  BY StartAdds
<1>5. st \in Seq(Nat) /\ Len(st) = Len(OpenAt(d, n)) /\ \A i \in 1..Len(OpenAt(d, n)) : st[i] = NodeOf(d, OpenAt(d, n)[i])
  BY <1>1, <1>3 DEF Stacked
<1>6. n \in Tags(d) /\ NodeOf(d, n) = Len(t) + 1
  BY StartAdds
<1>7. u \in Seq(Nodes) /\ Len(u) = Len(t) + 1 /\ u[Len(t) + 1] = r /\ \A i \in 1..Len(t) : u[i] = t[i]
  BY StartAdds
<1>8. v \in Seq(Nat) /\ Len(v) = Len(st) + 1 /\ v[Len(st) + 1] = Len(t) + 1 /\ \A i \in 1..Len(st) : v[i] = st[i]
  <2>1. Len(t) + 1 \in Nat
    BY <1>4
  <2> QED BY <1>5, <2>1, AppendIs DEF Added
<1>9. r.parent = NodeOf(d, ParentOf(Opened(d.lexemes), n))
  <2>1. CASE st = <<>>
    <3>1. Len(st) = 0
      BY <2>1
    <3>2. OpenAt(d, n) = <<>>
      <4>1. OpenAt(d, n) # <<>> => Len(OpenAt(d, n)) \in 1..Len(OpenAt(d, n))
        BY <1>2, ParentIs
      <4> QED BY <1>5, <3>1, <4>1
    <3>3. ParentOf(Opened(d.lexemes), n) = 0
      BY <1>2, <3>2, ParentIs
    <3>4. NodeOf(d, 0) = 0
      <4>1. 0 \in 0..Len(d.lexemes)
        BY <1>2
      <4> QED BY <4>1, NodeSteps
    <3> QED BY <2>1, <3>3, <3>4 DEF TopOf
  <2>2. CASE st # <<>>
    <3>1. OpenAt(d, n) # <<>>
      BY <1>5, <2>2
    <3>2. Len(OpenAt(d, n)) \in 1..Len(OpenAt(d, n)) /\ ParentOf(Opened(d.lexemes), n) = OpenAt(d, n)[Len(OpenAt(d, n))]
      BY <1>2, <3>1, ParentIs
    <3> QED BY <1>5, <2>2, <3>2 DEF TopOf
  <2> QED BY <2>1, <2>2
<1>10. TextBefore(d, n, n) = <<>>
  BY <1>1, TextNone DEF At0
<1>11. ASSUME NEW k, NEW x
       PROVE  TextSo(d, k, n, x) = TextBefore(d, k, n) /\ TextBefore(d, k, n + 1) = TextBefore(d, k, n)
              /\ TextSo(d, k, n + 1, 0) = TextBefore(d, k, n)
  <2>1. d.lexemes[n].kind # "text"
    OBVIOUS
  <2>2. TextSo(d, k, n, x) = TextBefore(d, k, n) /\ TextBefore(d, k, n + 1) = TextBefore(d, k, n)
    BY <2>1, TextKept
  <2>3. TextSo(d, k, n + 1, 0) = TextBefore(d, k, n + 1)
    BY <1>2, TextStart
  <2> QED BY <2>2, <2>3
<1>12. ASSUME NEW k \in Tags(d), NodeOf(d, k) <= Len(u) PROVE Row(d, u[NodeOf(d, k)], k, TextBefore(d, k, n))
  <2>1. NodeOf(d, k) \in Nat /\ NodeOf(d, k) >= 1
    BY NodeTag
  <2>2. CASE NodeOf(d, k) <= Len(t)
    <3>1. Row(d, t[NodeOf(d, k)], k, TextSo(d, k, n, 0))
      BY <1>1, <2>2 DEF Rows
    <3>2. u[NodeOf(d, k)] = t[NodeOf(d, k)]
      BY <1>4, <1>7, <2>1, <2>2
    <3> QED BY <1>11, <3>1, <3>2
  <2>3. CASE NodeOf(d, k) > Len(t)
    <3>1. NodeOf(d, k) = Len(t) + 1
      BY <1>4, <1>7, <1>12, <2>1, <2>3
    <3>2. k = n
      BY <1>6, <3>1, NodeOnly
    <3>3. u[NodeOf(d, k)] = r
      BY <1>7, <3>1
    <3> QED BY <1>9, <1>10, <3>2, <3>3 DEF Row
  <2>4. NodeOf(d, k) <= Len(t) \/ NodeOf(d, k) > Len(t)
    BY <1>4, <2>1
  <2> QED BY <2>2, <2>3, <2>4
<1>13. CASE d.lexemes[n].kind = "start"
  <2>1. OpenAt(d, n + 1) = Append(OpenAt(d, n), n)
    BY <1>13, OpenOn
  <2>2. At0(d, n + 1, 0)
    BY <1>2 DEF At0, SentOK
  <2>3. Had(d, n + 1, 0, u)
    BY <1>2, <1>3, <1>6, <1>7 DEF Had
  <2>4. Rows(d, n + 1, 0, u)
    <3>1. ASSUME NEW k \in Tags(d), NodeOf(d, k) <= Len(u) PROVE Row(d, u[NodeOf(d, k)], k, TextSo(d, k, n + 1, 0))
      BY <1>11, <1>12, <3>1
    <3> QED BY <3>1 DEF Rows
  <2>5. OpenAt(d, n) \in Seq(Nat)
    BY <1>2, OpenTyped
  <2>6. /\ Len(OpenAt(d, n + 1)) = Len(OpenAt(d, n)) + 1 /\ OpenAt(d, n + 1)[Len(OpenAt(d, n)) + 1] = n
        /\ \A i \in 1..Len(OpenAt(d, n)) : OpenAt(d, n + 1)[i] = OpenAt(d, n)[i]
    <3>1. PICK o : o = OpenAt(d, n)
      OBVIOUS
    <3>2. PICK p : p = OpenAt(d, n + 1)
      OBVIOUS
    <3>3. o \in Seq(Nat) /\ n \in Nat /\ p = Append(o, n)
      BY <1>2, <2>1, <2>5, <3>1, <3>2
    <3>4. Len(p) = Len(o) + 1 /\ p[Len(o) + 1] = n /\ \A i \in 1..Len(o) : p[i] = o[i]
      BY <3>3, AppendIs
    <3> QED BY <3>1, <3>2, <3>4
  <2>7. ASSUME NEW i \in 1..Len(OpenAt(d, n + 1)) PROVE v[i] = NodeOf(d, OpenAt(d, n + 1)[i])
    <3>1. Len(OpenAt(d, n)) \in Nat
      BY <2>5
    <3>2. CASE i \in 1..Len(OpenAt(d, n))
      BY <1>5, <1>8, <2>6, <3>2
    <3>3. CASE i = Len(OpenAt(d, n)) + 1
      BY <1>5, <1>6, <1>8, <2>6, <3>3
    <3>4. i \in 1..Len(OpenAt(d, n)) \/ i = Len(OpenAt(d, n)) + 1
      BY <2>6, <3>1
    <3> QED BY <3>2, <3>3, <3>4
  <2>8. Stacked(d, n + 1, 0, v)
    BY <1>3, <1>5, <1>8, <2>6, <2>7 DEF Stacked
  <2>9. Shape(d, n + 1, 0, u, v)
    BY <2>2, <2>3, <2>4, <2>8 DEF Shape
  <2> QED BY <1>13, <2>9
<1>14. CASE d.lexemes[n].kind = "empty"
  <2>1. Half(d, n, 1)
    BY <1>2, <1>14 DEF Half
  <2>2. At0(d, n, 1)
    <3>1. SentOK(d, n, 1)
      BY <1>2, <1>14 DEF SentOK
    <3> QED BY <1>1, <3>1 DEF At0
  <2>3. Had(d, n, 1, u)
    BY <1>4, <1>7, <2>1 DEF Had
  <2>4. Rows(d, n, 1, u)
    <3>1. ASSUME NEW k \in Tags(d), NodeOf(d, k) <= Len(u) PROVE Row(d, u[NodeOf(d, k)], k, TextSo(d, k, n, 1))
      BY <1>11, <1>12, <3>1
    <3> QED BY <3>1 DEF Rows
  <2>5. Len(v) = Len(OpenAt(d, n)) + 1 /\ v[Len(v)] = NodeOf(d, n)
    BY <1>5, <1>6, <1>8
  <2>6. \A i \in 1..Len(OpenAt(d, n)) : v[i] = NodeOf(d, OpenAt(d, n)[i])
    BY <1>5, <1>8
  <2>7. Stacked(d, n, 1, v)
    BY <1>8, <2>1, <2>5, <2>6 DEF Stacked
  <2>8. Shape(d, n, 1, u, v)
    BY <2>2, <2>3, <2>4, <2>7 DEF Shape
  <2> QED BY <1>14, <2>8
<1> QED
  BY <1>13, <1>14

\* The end of an element leaves it, and only the span of its node may change.
LEMMA ShapeEnd ==
    ASSUME NEW d, IsDocument(d), NEW n \in 1..Len(d.lexemes), NEW s, NEW t, NEW st, Shape(d, n, s, t, st),
           OpenAt(d, n + 1) # Ill, d.lexemes[n].kind \in {"end", "empty"}, d.lexemes[n].kind = "empty" => s = 1,
           NEW u \in Seq(Nodes), Len(u) = Len(t),
           \A i \in 1..Len(t) : u[i].tag = t[i].tag /\ u[i].dest = t[i].dest /\ u[i].text = t[i].text /\ u[i].parent = t[i].parent
    PROVE  Shape(d, n + 1, 0, u, Front(st)) /\ st # <<>>
<1>1. At0(d, n, s) /\ Had(d, n, s, t) /\ Rows(d, n, s, t) /\ Stacked(d, n, s, st) /\ SentOK(d, n, s)
  BY DEF Shape, At0
<1>2. /\ Len(d.lexemes) \in Nat /\ n \in Nat /\ n \in 1..(Len(d.lexemes) + 1) /\ n <= Len(d.lexemes)
      /\ n + 1 \in 1..(Len(d.lexemes) + 1) /\ (n + 1) - 1 = n
  BY DocumentTyped
<1>3. ~Half(d, n + 1, 0)
  BY DEF Half
<1>4. At0(d, n + 1, 0)
  BY <1>2 DEF At0, SentOK
<1>5. st \in Seq(Nat) /\ \A i \in 1..Len(OpenAt(d, n)) : st[i] = NodeOf(d, OpenAt(d, n)[i])
  BY <1>1 DEF Stacked
<1>6. OpenAt(d, n) \in Seq(Nat) /\ Len(OpenAt(d, n)) \in Nat /\ OpenAt(d, n + 1) \in Seq(Nat)
  BY <1>2, OpenTyped
<1>7. /\ NodeOf(d, n) = Len(t) /\ Len(st) = Len(OpenAt(d, n + 1)) + 1
      /\ \A i \in 1..Len(OpenAt(d, n + 1)) : OpenAt(d, n + 1)[i] = OpenAt(d, n)[i] /\ i \in 1..Len(OpenAt(d, n))
  <2>1. NodeOf(d, n - 1) \in Nat
    BY <1>1, NodesCount
  <2>2. CASE d.lexemes[n].kind = "end"
    <3>1. ~Half(d, n, s) /\ NodeOf(d, n) = NodeOf(d, n - 1)
      <4>1. ~IsTag(d.lexemes[n])
        BY <2>2 DEF IsTag
      <4> QED BY <1>1, <4>1, NodesCount
    <3>2. OpenAt(d, n) # <<>>
      <4>1. Legal(d.lexemes, n, OpenAt(d, n))
        BY OpenOn
      <4> QED BY <2>2, <4>1, LegalIs
    <3>3. OpenAt(d, n + 1) = Front(OpenAt(d, n))
      BY <2>2, OpenOn
    <3>4. Len(OpenAt(d, n)) \in Nat \ {0}
      BY <1>6, <3>2
    <3>5. Len(OpenAt(d, n + 1)) = Len(OpenAt(d, n)) - 1 /\ \A i \in 1..(Len(OpenAt(d, n)) - 1) : OpenAt(d, n + 1)[i] = OpenAt(d, n)[i]
      BY <1>6, <3>3, <3>4 DEF Front
    <3>6. Len(t) = NodeOf(d, n - 1)
      BY <1>1, <3>1 DEF Had
    <3>7. Len(st) = Len(OpenAt(d, n))
      BY <1>1, <3>1 DEF Stacked
    <3> QED BY <3>1, <3>4, <3>5, <3>6, <3>7
  <2>3. CASE d.lexemes[n].kind = "empty"
    <3>1. Half(d, n, s)
      BY <1>2, <2>3 DEF Half
    <3>2. NodeOf(d, n) = NodeOf(d, n - 1) + 1
      <4>1. IsTag(d.lexemes[n])
        BY <2>3 DEF IsTag
      <4> QED BY <1>1, <4>1, NodesCount
    <3>3. OpenAt(d, n + 1) = OpenAt(d, n)
      BY <2>3, OpenOn
    <3>4. Len(t) = NodeOf(d, n - 1) + 1
      BY <1>1, <3>1 DEF Had
    <3>5. Len(st) = Len(OpenAt(d, n)) + 1
      BY <1>1, <3>1 DEF Stacked
    <3> QED BY <3>2, <3>3, <3>4, <3>5
  <2> QED BY <2>2, <2>3
<1>8. Len(st) \in Nat \ {0} /\ st # <<>> /\ Front(st) \in Seq(Nat) /\ Len(Front(st)) = Len(st) - 1
      /\ \A i \in 1..(Len(st) - 1) : Front(st)[i] = st[i]
  <2>1. Len(st) \in Nat \ {0}
    BY <1>6, <1>7
  <2>2. st # <<>>
    BY <2>1
  <2>3. Front(st) = [i \in 1..(Len(st) - 1) |-> st[i]]
    BY <1>5, <2>1, <2>2 DEF Front
  <2>4. Len(st) - 1 \in Nat /\ \A i \in 1..(Len(st) - 1) : st[i] \in Nat
    BY <1>5, <2>1
  <2>5. Front(st) \in [1..(Len(st) - 1) -> Nat] /\ \A i \in 1..(Len(st) - 1) : Front(st)[i] = st[i]
    BY <2>3, <2>4
  <2>6. Front(st) \in Seq(Nat) /\ Len(Front(st)) = Len(st) - 1
    <3>1. PICK h : h = Len(st) - 1
      OBVIOUS
    <3>2. h \in Nat /\ Front(st) \in [1..h -> Nat]
      BY <2>4, <2>5, <3>1
    <3>3. Front(st) \in Seq(Nat) /\ Len(Front(st)) = h
      BY <3>2, RowSeq
    <3> QED BY <3>1, <3>3
  <2> QED BY <2>1, <2>2, <2>5, <2>6
<1>9. Stacked(d, n + 1, 0, Front(st))
  <2>1. Len(OpenAt(d, n + 1)) \in Nat /\ Len(Front(st)) = Len(OpenAt(d, n + 1))
    BY <1>6, <1>7, <1>8
  <2>2. \A i \in 1..Len(OpenAt(d, n + 1)) : Front(st)[i] = NodeOf(d, OpenAt(d, n + 1)[i])
    BY <1>5, <1>7, <1>8, <2>1
  <2> QED BY <1>3, <1>8, <2>1, <2>2 DEF Stacked
<1>10. Had(d, n + 1, 0, u)
  BY <1>2, <1>3, <1>7 DEF Had
<1>11. ASSUME NEW k \in Tags(d), NodeOf(d, k) <= Len(u) PROVE Row(d, u[NodeOf(d, k)], k, TextSo(d, k, n + 1, 0))
  <2>1. NodeOf(d, k) \in Nat /\ NodeOf(d, k) >= 1
    BY NodeTag
  <2>2. Row(d, t[NodeOf(d, k)], k, TextSo(d, k, n, s))
    BY <1>1, <1>11 DEF Rows
  <2>3. NodeOf(d, k) \in 1..Len(t)
    <3>1. Len(t) \in Nat
      BY <1>1 DEF Had
    <3> QED BY <1>11, <2>1, <3>1
  <2>4. d.lexemes[n].kind # "text"
    OBVIOUS
  <2>5. TextSo(d, k, n, s) = TextBefore(d, k, n) /\ TextBefore(d, k, n + 1) = TextBefore(d, k, n)
    BY <2>4, TextKept
  <2>6. TextSo(d, k, n + 1, 0) = TextBefore(d, k, n + 1)
    BY <1>2, TextStart
  <2> QED BY <2>2, <2>3, <2>5, <2>6 DEF Row
<1>12. Rows(d, n + 1, 0, u)
  BY <1>11 DEF Rows
<1> QED
  BY <1>4, <1>8, <1>9, <1>10, <1>12 DEF Shape

\* A name does not follow '<' where the scanner takes the width of a character wrongly.
LEMMA NoTagThere ==
    ASSUME NEW d, IsDocument(d), ~Plain(d),
           bytes = Bom(d.form) \o Encoded(d.form, Units(d)), encoding = detectEncodingClass(bytes),
           NEW l, IsLexeme(l), IsTag(l), NEW from \in Nat
    PROVE  scanStartTag(from, l.tag) = NoTag
<1> DEFINE p == Markup(from)
<1>1. Ready /\ \A q \in Nat : unitAscii(q) = "<" => unitAscii(q + Width) \in {"0", "~"}
  BY NotPlainSeen
<1>2. p = Fail \/ (p \in Nat /\ unitAscii(p) = "<")
  BY <1>1, MarkupLoop
<1> HIDE DEF p
<1>3. \E rest : IsName(l.tag) /\ Tagged(l.units, <<"<">>, l.tag, rest)
  BY StartTagShape
<1>9. PICK rest : IsName(l.tag) /\ Tagged(l.units, <<"<">>, l.tag, rest)
  BY <1>3
<1>4. l.tag \in Seq(STRING) /\ l.units \in Seq(STRING) /\ ToSet(l.units) \cap Reserved = {}
  BY DEF IsLexeme, Lexemes
<1>5. Len(l.tag) \in Nat /\ Len(l.tag) >= 1 /\ l.tag[1] # "~"
  BY <1>9, <1>4, NameUnits
<1>6. l.units[2] = l.tag[1] /\ Len(l.units) >= 2
  <2>1. Len(<<"<">>) = 1
    OBVIOUS
  <2>2. Len(l.units) >= 2
    <3>1. Len(rest) \in Nat /\ Len(l.units) = Len(<<"<">>) + Len(l.tag) + Len(rest)
      BY <1>9 DEF Tagged
    <3> QED BY <1>5, <2>1, <3>1
  <2>3. l.units[1 + 1] = l.tag[1]
    BY <1>9, <1>5, <2>1 DEF Tagged
  <2> QED BY <2>2, <2>3
<1>7. l.tag[1] # "0"
  <2>1. 2 \in DOMAIN l.units
    BY <1>4, <1>6
  <2>2. l.units[2] \in ToSet(l.units)
    BY <2>1 DEF ToSet
  <2> QED BY <1>4, <1>6, <2>2 DEF Reserved
<1>8. ~(p # Fail /\ matchLiteral(p + Width, l.tag))
  <2> SUFFICES ASSUME p # Fail, matchLiteral(p + Width, l.tag) PROVE FALSE
    OBVIOUS
  <2>1. 1 \in DOMAIN l.tag
    BY <1>4, <1>5
  <2>2. unitAscii(p + Width + (1 - 1) * Width) = l.tag[1]
    BY <2>1 DEF matchLiteral
  <2>3. p + Width + (1 - 1) * Width = p + Width
    BY <1>2, WidthIs
  <2> QED BY <1>1, <1>2, <1>5, <1>7, <2>2, <2>3
<1> QED
  BY <1>8, Zenon DEF scanStartTag, p

LEMMA LineTyped == ASSUME Ready, NEW offset PROVE lineNumberAt(offset) \in Nat
<1> DEFINE S == {p \in Stops(0) : p < offset /\ unitAscii(p) = "\n"}
<1>1. Stops(0) \subseteq 0..(Len(bytes) - 1)
  BY DEF Ready, Stops
<1>2. IsFiniteSet(0..(Len(bytes) - 1))
  BY FS_Interval DEF Ready
<1>3. IsFiniteSet(S)
  BY <1>1, <1>2, FS_Subset
<1> HIDE DEF S
<1>4. Cardinality(S) \in Nat
  BY <1>3, FS_CardinalityType
<1> QED
  BY <1>4 DEF lineNumberAt, S

--------------------------------------------------------------------------------
(* Where the scanner is, and the spans so far *)

\* The scanner is at the beginning, or at the end of some lexeme, and what follows up to the
\* m-th has no element markup.
Reached(d, c, m) ==
    \E i \in 1..m : (c = Offset(d, i) \/ (c = 0 /\ i = 1)) /\ \A j \in i..(m - 1) : Passed(d.lexemes[j])
Follows(d, n, s, c) == (~Half(d, n, s) => Reached(d, c, n)) /\ (Half(d, n, s) => Reached(d, c, n + 1))

IsOpen(d, n, k) == \E i \in 1..Len(OpenAt(d, n)) : OpenAt(d, n)[i] = k

Span(d, n, r, k) ==
    /\ r.start = Offset(d, k) /\ r.line = LineOf(d, k)
    /\ IsOpen(d, n, k) => r.end = Offset(d, k)
    /\ ~IsOpen(d, n, k) => r.end = Offset(d, LastOf(d, Opened(d.lexemes), k) + 1)
Spans(d, n, t) == \A k \in Tags(d) : NodeOf(d, k) <= Len(t) => Span(d, n, t[NodeOf(d, k)], k)

LEMMA ReachedMarkup ==
    ASSUME NEW d, IsDocument(d), Viewed(d), NEW m \in 1..(Len(d.lexemes) + 1), NEW c, Reached(d, c, m)
    PROVE  c \in Nat /\ Markup(c) = Markup(Offset(d, m))
<1>1. PICK i \in 1..m : (c = Offset(d, i) \/ (c = 0 /\ i = 1)) /\ \A j \in i..(m - 1) : Passed(d.lexemes[j])
  BY DEF Reached
<1>2. Len(d.lexemes) \in Nat /\ i \in 1..(Len(d.lexemes) + 1) /\ m \in i..(Len(d.lexemes) + 1)
  BY DocumentTyped
<1>3. Markup(Offset(d, i)) = Markup(Offset(d, m))
  BY <1>1, <1>2, MarkupOn
<1>4. Offset(d, i) \in Nat
  BY <1>2, OffsetIs
<1>5. Markup(0) = Markup(Offset(d, 1))
  BY BomMarkup
<1> QED
  BY <1>1, <1>3, <1>4, <1>5

LEMMA ReachedOn ==
    ASSUME NEW d, IsDocument(d), Scannable(d), NEW m \in 1..Len(d.lexemes), NEW c, Reached(d, c, m),
           d.lexemes[m].kind \in {"skip", "doctype", "text"}
    PROVE  Reached(d, c, m + 1)
<1>1. PICK i \in 1..m : (c = Offset(d, i) \/ (c = 0 /\ i = 1)) /\ \A j \in i..(m - 1) : Passed(d.lexemes[j])
  BY DEF Reached
<1>2. Len(d.lexemes) \in Nat /\ DOMAIN d.lexemes = 1..Len(d.lexemes)
  BY DocumentTyped
<1>3. Passed(d.lexemes[m])
  <2>1. /\ d.lexemes[m].kind = "skip" /\ IsComment(d.lexemes[m]) => EndsAtFirst(d.lexemes[m].units, 1, <<"-", "-", ">">>)
        /\ d.lexemes[m].kind = "doctype" => Balanced(d.lexemes[m].units)
    BY <1>2, Zenon DEF Scannable
  <2> QED BY <2>1 DEF Passed
<1>4. i \in 1..(m + 1) /\ \A j \in i..((m + 1) - 1) : Passed(d.lexemes[j])
  <2>1. ASSUME NEW j \in i..((m + 1) - 1) PROVE j \in i..(m - 1) \/ j = m
    BY <1>2
  <2>2. i \in 1..(m + 1)
    BY <1>2
  <2> QED BY <1>1, <1>3, <2>1, <2>2
<1> QED
  BY <1>1, <1>4 DEF Reached

LEMMA ReachedAt ==
    ASSUME NEW d, IsDocument(d), NEW m \in 1..(Len(d.lexemes) + 1)
    PROVE  Reached(d, Offset(d, m), m) /\ Reached(d, 0, 1)
<1>1. Len(d.lexemes) \in Nat
  BY DocumentTyped
<1>2. m \in 1..m /\ 1 \in 1..1 /\ \A j \in m..(m - 1) : FALSE
  BY <1>1
<1>3. \A j \in 1..(1 - 1) : FALSE
  OBVIOUS
<1>4. Reached(d, Offset(d, m), m)
  BY <1>2 DEF Reached
<1>5. Reached(d, 0, 1)
  BY <1>2, <1>3 DEF Reached
<1> QED
  BY <1>4, <1>5

LEMMA StartScanned ==
    ASSUME NEW d, IsDocument(d), Viewed(d), NEW n \in 1..Len(d.lexemes), IsTag(d.lexemes[n]),
           NEW c, Reached(d, c, n), NEW b, b = scanStartTag(c, d.lexemes[n].tag)
    PROVE  /\ b # NoTag /\ b.open = Offset(d, n) /\ b.end = Offset(d, n + 1)
           /\ b.selfClosed <=> d.lexemes[n].kind = "empty"
<1>1. Ready /\ IsLexeme(d.lexemes[n]) /\ n \in 1..(Len(d.lexemes) + 1)
  BY DocumentTyped DEF Viewed
<1>2. c \in Nat /\ Markup(c) = Markup(Offset(d, n))
  BY <1>1, ReachedMarkup
<1>3. Shown(Offset(d, n), d.lexemes[n].units) /\ Step(Offset(d, n), Len(d.lexemes[n].units)) = Offset(d, n + 1)
  BY LexemeShown
<1>4. Markup(Offset(d, n)) = Offset(d, n)
  BY <1>1, <1>3, StartTagExact
<1>5. StartFound(b, Offset(d, n), d.lexemes[n])
  <2>1. \A from \in Nat : Markup(from) = Offset(d, n) => StartFound(scanStartTag(from, d.lexemes[n].tag), Offset(d, n), d.lexemes[n])
    BY <1>1, <1>3, StartTagExact
  <2> QED BY <1>2, <1>4, <2>1
<1> QED
  BY <1>3, <1>5 DEF StartFound

LEMMA EndScanned ==
    ASSUME NEW d, IsDocument(d), Viewed(d), NEW n \in 1..Len(d.lexemes), d.lexemes[n].kind = "end",
           NEW c, Reached(d, c, n)
    PROVE  scanEndTag(c, d.lexemes[n].tag) = Offset(d, n + 1) /\ Offset(d, n + 1) \in Nat
<1>1. Ready /\ IsLexeme(d.lexemes[n]) /\ n \in 1..(Len(d.lexemes) + 1) /\ n + 1 \in 1..(Len(d.lexemes) + 1)
  BY DocumentTyped DEF Viewed
<1>2. c \in Nat /\ Markup(c) = Markup(Offset(d, n))
  BY <1>1, ReachedMarkup
<1>3. Shown(Offset(d, n), d.lexemes[n].units) /\ Step(Offset(d, n), Len(d.lexemes[n].units)) = Offset(d, n + 1)
  BY LexemeShown
<1>4. Markup(Offset(d, n)) = Offset(d, n)
  BY <1>1, <1>3, EndTagExact
<1>5. \A from \in Nat : Markup(from) = Offset(d, n) =>
          scanEndTag(from, d.lexemes[n].tag) = Step(Offset(d, n), Len(d.lexemes[n].units))
  BY <1>1, <1>3, EndTagExact
<1>6. Offset(d, n + 1) \in Nat
  BY <1>1, OffsetIs
<1> QED
  BY <1>2, <1>3, <1>4, <1>5, <1>6

LEMMA FrontIs ==
    ASSUME NEW S, NEW t \in Seq(S), Len(t) \in Nat \ {0}, NEW u, u = Front(t)
    PROVE  Len(u) = Len(t) - 1 /\ \A i \in 1..(Len(t) - 1) : u[i] = t[i]
<1>1. u = [i \in 1..(Len(t) - 1) |-> t[i]]
  BY DEF Front
<1>2. Len(t) - 1 \in Nat /\ \A i \in 1..(Len(t) - 1) : t[i] \in S
  OBVIOUS
<1>3. u \in [1..(Len(t) - 1) -> S] /\ \A i \in 1..(Len(t) - 1) : u[i] = t[i]
  BY <1>1, <1>2
<1>4. PICK h : h = Len(t) - 1
  OBVIOUS
<1>5. h \in Nat /\ u \in [1..h -> S]
  BY <1>2, <1>3, <1>4
<1>6. Len(u) = h
  BY <1>5, RowSeq
<1> QED
  BY <1>3, <1>4, <1>6

LEMMA NodeNumber ==
    ASSUME NEW d, IsDocument(d), NEW k \in Tags(d)
    PROVE  NodeOf(d, k) \in Nat /\ NodeOf(d, k) >= 1
BY NodeTag

\* What a lexeme does to the open elements.
LEMMA OpenIs ==
    ASSUME NEW d, IsDocument(d), NEW n \in 1..Len(d.lexemes), OpenAt(d, n + 1) # Ill, NEW k
    PROVE  /\ d.lexemes[n].kind = "start" => (IsOpen(d, n + 1, k) <=> (IsOpen(d, n, k) \/ k = n))
           /\ d.lexemes[n].kind = "end" =>
                 (IsOpen(d, n + 1, k) <=> (IsOpen(d, n, k) /\ k # OpenAt(d, n)[Len(OpenAt(d, n))]))
           /\ d.lexemes[n].kind \notin {"start", "end"} => (IsOpen(d, n + 1, k) <=> IsOpen(d, n, k))
           /\ IsOpen(d, n, k) => k \in 1..(n - 1)
<1>1. /\ Len(d.lexemes) \in Nat /\ n \in Nat /\ n \in 1..(Len(d.lexemes) + 1) /\ n <= Len(d.lexemes)
      /\ n + 1 \in 1..(Len(d.lexemes) + 1)
  BY DocumentTyped
<1>2. OpenAt(d, n) # Ill /\ Legal(d.lexemes, n, OpenAt(d, n)) /\ Nest(d, n)
  <2>1. OpenAt(d, n) # Ill /\ Legal(d.lexemes, n, OpenAt(d, n))
    BY OpenOn
  <2> QED BY <1>1, <2>1, OpenNest
<1>3. PICK o : o = OpenAt(d, n)
  OBVIOUS
<1>4. PICK p : p = OpenAt(d, n + 1)
  OBVIOUS
<1>5. o \in Seq(Nat) /\ Len(o) \in Nat /\ p \in Seq(Nat)
  BY <1>1, <1>3, <1>4, OpenTyped
<1>6. /\ \A i \in 1..Len(o) : o[i] \in 1..(n - 1)
      /\ \A i \in 1..Len(o) : \A j \in 1..Len(o) : i < j => o[i] < o[j]
  BY <1>2, <1>3, Zenon DEF Nest
<1>7. /\ IsOpen(d, n, k) <=> \E i \in 1..Len(o) : o[i] = k
      /\ IsOpen(d, n + 1, k) <=> \E i \in 1..Len(p) : p[i] = k
  BY <1>3, <1>4 DEF IsOpen
<1>8. IsOpen(d, n, k) => k \in 1..(n - 1)
  BY <1>6, <1>7
<1>9. CASE d.lexemes[n].kind = "start"
  <2>1. p = Append(o, n)
    BY <1>3, <1>4, <1>9, OpenOn
  <2>2. Len(p) = Len(o) + 1 /\ p[Len(o) + 1] = n /\ \A i \in 1..Len(o) : p[i] = o[i]
    BY <1>1, <1>5, <2>1, AppendIs
  <2>3. ASSUME NEW i \in 1..Len(p) PROVE i \in 1..Len(o) \/ i = Len(o) + 1
    BY <1>5, <2>2
  <2>4. Len(o) + 1 \in 1..Len(p) /\ \A i \in 1..Len(o) : i \in 1..Len(p)
    BY <1>5, <2>2
  <2>5. (\E i \in 1..Len(p) : p[i] = k) => (\E i \in 1..Len(o) : o[i] = k) \/ k = n
    BY <2>2, <2>3
  <2>6. (\E i \in 1..Len(o) : o[i] = k) \/ k = n => \E i \in 1..Len(p) : p[i] = k
    BY <2>2, <2>4
  <2> QED BY <1>7, <1>8, <1>9, <2>5, <2>6
<1>10. CASE d.lexemes[n].kind = "end"
  <2>1. p = Front(o)
    BY <1>3, <1>4, <1>10, OpenOn
  <2>2. o # <<>>
    BY <1>2, <1>3, <1>10, LegalIs
  <2>3. Len(o) \in Nat \ {0}
    BY <1>5, <2>2
  <2>4. Len(p) = Len(o) - 1 /\ \A i \in 1..(Len(o) - 1) : p[i] = o[i]
    BY <1>5, <2>1, <2>3, FrontIs
  <2>5. ASSUME NEW i \in 1..Len(p), p[i] = k PROVE i \in 1..Len(o) /\ o[i] = k /\ k # o[Len(o)]
    <3>1. i \in 1..Len(o) /\ i < Len(o) /\ Len(o) \in 1..Len(o) /\ i \in 1..(Len(o) - 1)
      BY <2>3, <2>4
    <3>2. o[i] < o[Len(o)] /\ o[i] \in Nat /\ o[Len(o)] \in Nat
      BY <1>6, <3>1
    <3> QED BY <2>4, <2>5, <3>1, <3>2
  <2>6. ASSUME NEW i \in 1..Len(o), o[i] = k, k # o[Len(o)] PROVE i \in 1..Len(p) /\ p[i] = k
    <3>1. i # Len(o)
      BY <2>6
    <3>2. i \in 1..(Len(o) - 1)
      BY <2>3, <3>1
    <3> QED BY <2>4, <2>6, <3>2
  <2>7. (\E i \in 1..Len(p) : p[i] = k) <=> ((\E i \in 1..Len(o) : o[i] = k) /\ k # o[Len(o)])
    BY <2>5, <2>6
  <2> QED BY <1>3, <1>7, <1>8, <1>10, <2>7
<1>11. CASE d.lexemes[n].kind \notin {"start", "end"}
  <2>1. p = o
    BY <1>3, <1>4, <1>11, OpenOn
  <2> QED BY <1>7, <1>8, <1>11, <2>1
<1> QED
  BY <1>9, <1>10, <1>11

SameOpen(d, n, m) == \A k : IsOpen(d, m, k) <=> IsOpen(d, n, k)

\* The spans stay when neither the nodes' bytes nor the open elements change.
LEMMA SpansKept ==
    ASSUME NEW d, IsDocument(d), NEW n, NEW m, NEW t, NEW u, Len(t) \in Nat, Spans(d, n, t), Len(u) = Len(t),
           SameOpen(d, n, m),
           \A i \in 1..Len(t) : u[i].start = t[i].start /\ u[i].end = t[i].end /\ u[i].line = t[i].line
    PROVE  Spans(d, m, u)
<1>1. ASSUME NEW k \in Tags(d), NodeOf(d, k) <= Len(u) PROVE Span(d, m, u[NodeOf(d, k)], k)
  <2>1. NodeOf(d, k) \in Nat /\ NodeOf(d, k) >= 1
    BY NodeNumber, Zenon
  <2>2. NodeOf(d, k) \in 1..Len(t)
    BY <1>1, <2>1
  <2>3. Span(d, n, t[NodeOf(d, k)], k)
    BY <1>1 DEF Spans
  <2> QED BY <2>2, <2>3 DEF Span, SameOpen
<1> QED
  BY <1>1 DEF Spans

LEMMA SpansStart ==
    ASSUME NEW d, IsDocument(d), NEW n \in 1..Len(d.lexemes), OpenAt(d, n + 1) # Ill, n \in Tags(d),
           NEW t, Len(t) \in Nat, Spans(d, n, t), NodeOf(d, n) = Len(t) + 1,
           NEW r, r.start = Offset(d, n), r.line = LineOf(d, n),
           d.lexemes[n].kind = "empty" => r.end = Offset(d, n + 1),
           d.lexemes[n].kind # "empty" => r.end = Offset(d, n),
           NEW u, Len(u) = Len(t) + 1, u[Len(t) + 1] = r, \A i \in 1..Len(t) : u[i] = t[i]
    PROVE  /\ d.lexemes[n].kind = "start" => Spans(d, n + 1, u)
           /\ d.lexemes[n].kind = "empty" => Spans(d, n, u)
<1>1. ASSUME NEW k \in Tags(d), NodeOf(d, k) <= Len(u)
      PROVE  \/ k = n /\ u[NodeOf(d, k)] = r
             \/ k # n /\ Span(d, n, u[NodeOf(d, k)], k)
  <2>1. NodeOf(d, k) \in Nat /\ NodeOf(d, k) >= 1
    BY NodeNumber, Zenon
  <2>2. CASE k = n
    BY <2>2
  <2>3. CASE k # n
    <3>1. NodeOf(d, k) # NodeOf(d, n)
      BY <2>3, NodeOnly
    <3>2. NodeOf(d, k) \in 1..Len(t) /\ NodeOf(d, k) <= Len(t)
      BY <1>1, <2>1, <3>1
    <3>3. Span(d, n, t[NodeOf(d, k)], k)
      BY <3>2 DEF Spans
    <3>4. u[NodeOf(d, k)] = t[NodeOf(d, k)]
      BY <3>2
    <3> QED BY <2>3, <3>3, <3>4
  <2> QED BY <2>2, <2>3
<1>2. CASE d.lexemes[n].kind = "start"
  <2>1. ASSUME NEW k \in Tags(d), NodeOf(d, k) <= Len(u) PROVE Span(d, n + 1, u[NodeOf(d, k)], k)
    <3>1. IsOpen(d, n + 1, k) <=> (IsOpen(d, n, k) \/ k = n)
      BY <1>2, OpenIs
    <3>2. CASE k = n /\ u[NodeOf(d, k)] = r
      <4>1. IsOpen(d, n + 1, n)
        BY <3>1, <3>2
      <4>2. r.end = Offset(d, n)
        BY <1>2
      <4> QED BY <3>2, <4>1, <4>2 DEF Span
    <3>3. CASE k # n /\ Span(d, n, u[NodeOf(d, k)], k)
      BY <3>1, <3>3 DEF Span
    <3> QED BY <1>1, <2>1, <3>2, <3>3
  <2>2. Spans(d, n + 1, u)
    BY <2>1 DEF Spans
  <2> QED BY <1>2, <2>2
<1>3. CASE d.lexemes[n].kind = "empty"
  <2>1. ASSUME NEW k \in Tags(d), NodeOf(d, k) <= Len(u) PROVE Span(d, n, u[NodeOf(d, k)], k)
    <3>2. CASE k = n /\ u[NodeOf(d, k)] = r
      <4>1. ~IsOpen(d, n, n)
        <5>1. IsOpen(d, n, n) => n \in 1..(n - 1)
          BY OpenIs
        <5> QED BY <5>1
      <4>2. r.end = Offset(d, n + 1)
        BY <1>3
      <4>3. LastOf(d, Opened(d.lexemes), n) = n
        BY <1>3 DEF LastOf
      <4> QED BY <3>2, <4>1, <4>2, <4>3 DEF Span
    <3> QED BY <1>1, <2>1, <3>2
  <2>2. Spans(d, n, u)
    BY <2>1 DEF Spans
  <2> QED BY <1>3, <2>2
<1> QED
  BY <1>2, <1>3

\* The nodes t with e for the end of the w-th.
Completed(t, w, e, u) ==
    /\ Len(u) = Len(t)
    /\ \A i \in 1..Len(t) : /\ u[i].start = t[i].start /\ u[i].line = t[i].line
                            /\ i # w => u[i].end = t[i].end
                            /\ i = w => u[i].end = e

LEMMA SpansEnd ==
    ASSUME NEW d, IsDocument(d), NEW n \in 1..Len(d.lexemes), OpenAt(d, n + 1) # Ill, d.lexemes[n].kind = "end",
           NEW t, Len(t) \in Nat, Spans(d, n, t),
           NEW w, w = NodeOf(d, OpenAt(d, n)[Len(OpenAt(d, n))]), NEW u, Completed(t, w, Offset(d, n + 1), u)
    PROVE  Spans(d, n + 1, u)
<1> USE DEF Completed
<1>1. PICK top : top = OpenAt(d, n)[Len(OpenAt(d, n))]
  OBVIOUS
<1>2. top \in Tags(d) /\ LastOf(d, Opened(d.lexemes), top) = n
  BY <1>1, LastIs
<1>3. ASSUME NEW k \in Tags(d), NodeOf(d, k) <= Len(u) PROVE Span(d, n + 1, u[NodeOf(d, k)], k)
  <2>1. NodeOf(d, k) \in Nat /\ NodeOf(d, k) >= 1
    BY NodeNumber, Zenon
  <2>2. NodeOf(d, k) \in 1..Len(t)
    BY <1>3, <2>1
  <2>3. Span(d, n, t[NodeOf(d, k)], k)
    BY <1>3 DEF Spans
  <2>4. IsOpen(d, n + 1, k) <=> (IsOpen(d, n, k) /\ k # top)
    BY <1>1, OpenIs
  <2>5. CASE k = top
    <3>1. u[NodeOf(d, k)].end = Offset(d, n + 1)
      BY <1>1, <2>2, <2>5
    <3> QED BY <1>2, <2>2, <2>3, <2>4, <2>5, <3>1 DEF Span
  <2>6. CASE k # top
    <3>1. NodeOf(d, k) # w
      BY <1>1, <1>2, <2>6, NodeOnly
    <3>2. u[NodeOf(d, k)].end = t[NodeOf(d, k)].end
      BY <2>2, <3>1
    <3> QED BY <2>2, <2>3, <2>4, <2>6, <3>2 DEF Span
  <2> QED BY <2>5, <2>6
<1> QED
  BY <1>3 DEF Spans

--------------------------------------------------------------------------------
(* What holds of a document while it is read *)

Built(d, n, s, t, st, c) ==
    /\ Shape(d, n, s, t, st)
    /\ Plain(d) /\ Scannable(d) => Spans(d, n, t) /\ Follows(d, n, s, c)
    /\ ~Plain(d) => Len(t) = 0

\* The bytes in memory are those of the document.
Seen(d) ==
    /\ IsDocument(d) /\ bytes = Bom(d.form) \o Encoded(d.form, Units(d))
    /\ encoding = detectEncodingClass(bytes)

LEMMA SeenReady == ASSUME NEW d, Seen(d) PROVE Ready /\ (Plain(d) => Viewed(d))
<1>1. CASE Plain(d)
  <2>1. Viewed(d)
    BY <1>1, PlainViewed DEF Seen
  <2> QED BY <2>1 DEF Viewed
<1>2. CASE ~Plain(d)
  BY <1>2, NotPlainSeen DEF Seen
<1> QED
  BY <1>1, <1>2

LEMMA StackIn ==
    ASSUME NEW d, IsDocument(d), NEW n, NEW s, NEW t, NEW st, Shape(d, n, s, t, st)
    PROVE  t \in Seq(Nodes) /\ st \in Seq(Nat) /\ \A i \in 1..Len(st) : st[i] \in 1..Len(t)
<1>1. At0(d, n, s) /\ Had(d, n, s, t) /\ Stacked(d, n, s, st) /\ SentOK(d, n, s)
  BY DEF Shape, At0
<1>2. Len(d.lexemes) \in Nat /\ n \in 1..(Len(d.lexemes) + 1) /\ n \in Nat /\ n - 1 \in 0..Len(d.lexemes)
      /\ OpenAt(d, n) # Ill
  BY <1>1, DocumentTyped DEF At0
<1>3. t \in Seq(Nodes) /\ st \in Seq(Nat) /\ Len(st) \in Nat /\ Len(t) \in Nat
  <2>1. t \in Seq(Nodes) /\ st \in Seq(Nat)
    BY <1>1 DEF Had, Stacked
  <2> QED BY <2>1
<1>4. Nest(d, n) /\ Len(OpenAt(d, n)) \in Nat
  BY <1>2, OpenNest, OpenTyped
<1>5. NodeOf(d, n - 1) \in Nat /\ NodeOf(d, n - 1) <= Len(t)
  <2>1. NodeOf(d, n - 1) \in Nat
    BY <1>2, NodeSteps
  <2> QED BY <1>1, <1>3, <2>1 DEF Had
<1>6. ASSUME NEW i \in 1..Len(OpenAt(d, n)) PROVE st[i] \in 1..Len(t)
  <2>1. PICK k : k = OpenAt(d, n)[i]
    OBVIOUS
  <2>2. k \in 1..(n - 1) /\ d.lexemes[k].kind = "start"
    BY <1>4, <2>1 DEF Nest
  <2>3. k \in Tags(d)
    <3>1. k \in 1..Len(d.lexemes) /\ DOMAIN d.lexemes = 1..Len(d.lexemes)
      BY <1>2, <2>2, DocumentTyped
    <3>2. IsTag(d.lexemes[k])
      BY <2>2 DEF IsTag
    <3> QED BY <3>1, <3>2 DEF Tags
  <2>4. NodeOf(d, k) \in Nat /\ NodeOf(d, k) >= 1
    BY <2>3, NodeNumber
  <2>5. NodeOf(d, k) <= NodeOf(d, n - 1)
    <3>1. k \in 0..Len(d.lexemes) /\ n - 1 \in k..Len(d.lexemes)
      BY <1>2, <2>2
    <3> QED BY <3>1, NodeOrder
  <2>6. st[i] = NodeOf(d, k)
    BY <1>1, <2>1 DEF Stacked
  <2> QED BY <1>3, <1>5, <2>4, <2>5, <2>6
<1>7. CASE ~Half(d, n, s)
  <2>1. Len(st) = Len(OpenAt(d, n))
    BY <1>1, <1>7 DEF Stacked
  <2> QED BY <1>3, <1>6, <2>1
<1>8. CASE Half(d, n, s)
  <2>1. Len(st) = Len(OpenAt(d, n)) + 1 /\ st[Len(st)] = NodeOf(d, n) /\ Len(t) = NodeOf(d, n - 1) + 1
    BY <1>1, <1>8 DEF Stacked, Had
  <2>2. NodeOf(d, n) = NodeOf(d, n - 1) + 1
    <3>1. n \in 1..Len(d.lexemes) /\ IsTag(d.lexemes[n])
      BY <1>2, <1>8 DEF Half, IsTag
    <3> QED BY <1>1, <3>1, NodesCount
  <2>3. ASSUME NEW i \in 1..Len(st) PROVE st[i] \in 1..Len(t)
    <3>1. i \in 1..Len(OpenAt(d, n)) \/ i = Len(st)
      BY <1>4, <2>1
    <3>2. Len(t) \in 1..Len(t)
      BY <1>5, <2>1
    <3> QED BY <1>6, <2>1, <2>2, <3>1, <3>2
  <2> QED BY <1>3, <2>3
<1> QED
  BY <1>7, <1>8

LEMMA BuiltQuiet ==
    ASSUME NEW d, IsDocument(d), NEW n \in 1..Len(d.lexemes), NEW s, NEW t, NEW st, NEW c, Built(d, n, s, t, st, c),
           OpenAt(d, n + 1) # Ill, d.lexemes[n].kind \in {"skip", "doctype", "text"},
           d.lexemes[n].kind = "text" => st = <<>> \/ s = Len(d.lexemes[n].text)
    PROVE  Built(d, n + 1, 0, t, st, c)
<1>1. Shape(d, n, s, t, st) /\ Shape(d, n + 1, 0, t, st)
  BY ShapeQuiet DEF Built
<1>2. ASSUME Plain(d), Scannable(d) PROVE Spans(d, n + 1, t) /\ Follows(d, n + 1, 0, c)
  <2>1. Spans(d, n, t) /\ Follows(d, n, s, c)
    BY <1>2 DEF Built
  <2>2. ~Half(d, n, s) /\ ~Half(d, n + 1, 0)
    BY DEF Half
  <2>3. Reached(d, c, n + 1)
    BY <1>2, <2>1, <2>2, ReachedOn DEF Follows
  <2>4. Len(t) \in Nat
    <3>1. t \in Seq(Nodes)
      BY <1>1, StackIn
    <3> QED BY <3>1
  <2>5. SameOpen(d, n, n + 1)
    BY OpenIs DEF SameOpen
  <2>6. Spans(d, n + 1, t)
    BY <2>1, <2>4, <2>5, SpansKept
  <2> QED BY <2>2, <2>3, <2>6 DEF Follows
<1> QED
  BY <1>1, <1>2 DEF Built

LEMMA BuiltText ==
    ASSUME NEW d, IsDocument(d), NEW n \in 1..Len(d.lexemes), NEW s, NEW t, NEW st, NEW c, Built(d, n, s, t, st, c),
           OpenAt(d, n + 1) # Ill, d.lexemes[n].kind = "text", st # <<>>,
           NEW m \in (s + 1)..Len(d.lexemes[n].text),
           NEW u, u = Told(t, st, d.lexemes[n].text, s, m)
    PROVE  Built(d, n, m, u, st, c)
<1>1. Shape(d, n, s, t, st)
  BY DEF Built
<1>2. /\ Shape(d, n, m, u, st) /\ Len(u) = Len(t)
      /\ \A i \in 1..Len(t) : u[i].start = t[i].start /\ u[i].end = t[i].end /\ u[i].line = t[i].line
  BY <1>1, ShapeText
<1>3. Len(t) \in Nat
  <2>1. t \in Seq(Nodes)
    BY <1>1, StackIn
  <2> QED BY <2>1
<1>4. ASSUME Plain(d), Scannable(d) PROVE Spans(d, n, u) /\ Follows(d, n, m, c)
  <2>1. Spans(d, n, t) /\ Follows(d, n, s, c)
    BY <1>4 DEF Built
  <2>2. ~Half(d, n, s) /\ ~Half(d, n, m)
    BY DEF Half
  <2>3. Spans(d, n, u)
    <3>1. SameOpen(d, n, n)
      BY DEF SameOpen
    <3>2. Spans(d, n, t) /\ Len(u) = Len(t)
      BY <1>2, <2>1
    <3> QED BY <1>2, <1>3, <3>1, <3>2, SpansKept
  <2> QED BY <2>1, <2>2, <2>3 DEF Follows
<1> QED
  BY <1>2, <1>4 DEF Built

\* The node onStartElement makes.
Entered(l, st, b) ==
    [tag |-> l.tag, dest |-> l.dest, text |-> <<>>,
     parent |-> TopOf(st),
     start |-> b.open, end |-> IF b.selfClosed THEN b.end ELSE b.open, line |-> lineNumberAt(b.open)]

LEMMA EnteredIs ==
    ASSUME Ready, NEW l, l.tag \in Seq(STRING), l.dest \in Seq(STRING), NEW st \in Seq(Nat),
           NEW b, b.open \in Nat, b.end \in Nat, NEW r, r = Entered(l, st, b)
    PROVE  /\ r \in Nodes /\ r.tag = l.tag /\ r.dest = l.dest /\ r.text = <<>>
           /\ r.parent = TopOf(st)
           /\ r.start = b.open /\ r.line = lineNumberAt(b.open)
           /\ b.selfClosed => r.end = b.end
           /\ ~b.selfClosed => r.end = b.open
<1>1. /\ r.tag = l.tag /\ r.dest = l.dest /\ r.text = <<>>
      /\ r.parent = TopOf(st)
      /\ r.start = b.open /\ r.line = lineNumberAt(b.open)
      /\ r.end = (IF b.selfClosed THEN b.end ELSE b.open)
  BY DEF Entered
<1>2. lineNumberAt(b.open) \in Nat
  BY LineTyped
<1>3. r.parent \in Nat
  <2>1. CASE st = <<>>
    BY <1>1, <2>1 DEF TopOf
  <2>2. CASE st # <<>>
    <3>1. Len(st) \in 1..Len(st)
      BY <2>2
    <3> QED BY <1>1, <2>2, <3>1 DEF TopOf
  <2> QED BY <2>1, <2>2
<1>4. /\ b.selfClosed => r.end = b.end
      /\ ~b.selfClosed => r.end = b.open
  BY <1>1
<1>5. r.end \in Nat
  BY <1>4
<1>6. <<>> \in Seq(STRING)
  OBVIOUS
<1>7. r = [tag |-> r.tag, dest |-> r.dest, text |-> r.text, parent |-> r.parent,
           start |-> r.start, end |-> r.end, line |-> r.line]
  BY <1>1 DEF Entered
<1>8. r \in Nodes
  BY <1>1, <1>2, <1>3, <1>5, <1>6, <1>7 DEF Nodes
<1> QED
  BY <1>1, <1>4, <1>8

LEMMA BuiltStart ==
    ASSUME NEW d, Seen(d), NEW n \in 1..Len(d.lexemes), NEW t, NEW st, NEW c \in 0..Len(bytes),
           Built(d, n, 0, t, st, c), OpenAt(d, n + 1) # Ill, d.lexemes[n].kind \in {"start", "empty"},
           NEW b, b = scanStartTag(c, d.lexemes[n].tag),
           NEW u, u = Append(t, Entered(d.lexemes[n], st, b)), NEW v, v = Append(st, Len(t) + 1)
    PROVE  /\ b = NoTag => ~Plain(d) \/ ~Scannable(d)
           /\ b # NoTag => /\ d.lexemes[n].kind = "start" => Built(d, n + 1, 0, u, v, b.end)
                           /\ d.lexemes[n].kind = "empty" => Built(d, n, 1, u, v, b.end)
                           /\ b.end \in 0..Len(bytes)
<1>1. IsDocument(d) /\ Ready /\ c \in Nat /\ Shape(d, n, 0, t, st) /\ IsTag(d.lexemes[n])
  <2>1. IsDocument(d) /\ Ready
    BY SeenReady DEF Seen
  <2>2. Shape(d, n, 0, t, st) /\ IsTag(d.lexemes[n])
    BY DEF Built, IsTag
  <2> QED BY <2>1, <2>2 DEF Ready
<1>2. t \in Seq(Nodes) /\ st \in Seq(Nat) /\ Len(t) \in Nat
  <2>1. t \in Seq(Nodes) /\ st \in Seq(Nat)
    BY <1>1, StackIn
  <2> QED BY <2>1
<1>3. d.lexemes[n].tag \in Seq(STRING) /\ d.lexemes[n].dest \in Seq(STRING) /\ IsLexeme(d.lexemes[n])
      /\ n \in 1..(Len(d.lexemes) + 1) /\ n + 1 \in 1..(Len(d.lexemes) + 1) /\ n <= Len(d.lexemes)
  BY <1>1, DocumentTyped
<1>4. b = NoTag \/ (b.open \in Nat /\ b.end \in 0..Len(bytes) /\ b.end \in Nat)
  <2>1. b = NoTag \/ (b.open \in Nat /\ b.end \in 0..Len(bytes))
    BY <1>1, <1>3, StartTagInside
  <2> QED BY <1>1, <2>1 DEF Ready
<1>5. ASSUME ~Plain(d) PROVE b = NoTag
  BY <1>1, <1>3, <1>5, NoTagThere DEF Seen
<1>6. ~Half(d, n, 0) /\ ~Half(d, n + 1, 0) /\ (d.lexemes[n].kind = "empty" => Half(d, n, 1))
  BY <1>3 DEF Half
<1>7. ASSUME Plain(d), Scannable(d)
      PROVE  /\ b # NoTag /\ b.open = Offset(d, n) /\ b.end = Offset(d, n + 1)
             /\ b.selfClosed <=> d.lexemes[n].kind = "empty"
             /\ lineNumberAt(b.open) = LineOf(d, n) /\ Spans(d, n, t)
  <2>1. Viewed(d)
    BY <1>7, SeenReady
  <2>2. Reached(d, c, n) /\ Spans(d, n, t)
    BY <1>6, <1>7 DEF Built, Follows
  <2>3. /\ b # NoTag /\ b.open = Offset(d, n) /\ b.end = Offset(d, n + 1)
        /\ b.selfClosed <=> d.lexemes[n].kind = "empty"
    BY <1>1, <2>1, <2>2, StartScanned
  <2>4. lineNumberAt(Offset(d, n)) = LineOf(d, n)
    BY <1>1, <1>3, <2>1, LineIs
  <2> QED BY <2>2, <2>3, <2>4
<1>8. ASSUME b # NoTag
      PROVE  /\ d.lexemes[n].kind = "start" => Built(d, n + 1, 0, u, v, b.end)
             /\ d.lexemes[n].kind = "empty" => Built(d, n, 1, u, v, b.end)
  <2>9. PICK r : r = Entered(d.lexemes[n], st, b)
    OBVIOUS
  <2>1. /\ r \in Nodes /\ r.tag = d.lexemes[n].tag /\ r.dest = d.lexemes[n].dest /\ r.text = <<>>
        /\ r.parent = TopOf(st)
        /\ r.start = b.open /\ r.line = lineNumberAt(b.open)
        /\ b.selfClosed => r.end = b.end
        /\ ~b.selfClosed => r.end = b.open
    <3>1. b.open \in Nat /\ b.end \in Nat
      BY <1>4, <1>8
    <3>2. PICK l : l = d.lexemes[n]
      OBVIOUS
    <3>3. l.tag \in Seq(STRING) /\ l.dest \in Seq(STRING) /\ r = Entered(l, st, b) /\ st \in Seq(Nat) /\ Ready
      BY <1>1, <1>2, <1>3, <2>9, <3>2
    <3>4. r \in Nodes /\ r.tag = l.tag /\ r.dest = l.dest /\ r.text = <<>>
      BY <3>1, <3>3, EnteredIs
    <3>5. r.parent = TopOf(st) /\ r.start = b.open /\ r.line = lineNumberAt(b.open)
      BY <3>1, <3>3, EnteredIs
    <3>6. (b.selfClosed => r.end = b.end) /\ (~b.selfClosed => r.end = b.open)
      BY <3>1, <3>3, EnteredIs
    <3> QED BY <3>2, <3>4, <3>5, <3>6
  <2>2. /\ d.lexemes[n].kind = "start" => Shape(d, n + 1, 0, u, v)
        /\ d.lexemes[n].kind = "empty" => Shape(d, n, 1, u, v)
        /\ n \in Tags(d) /\ NodeOf(d, n) = Len(t) + 1
        /\ Len(u) = Len(t) + 1 /\ u[Len(t) + 1] = r /\ \A i \in 1..Len(t) : u[i] = t[i]
    <3>1. Added(t, r, u) /\ Added(st, Len(t) + 1, v)
      BY <2>9 DEF Added
    <3>2. r \in Nodes /\ r.tag = d.lexemes[n].tag /\ r.dest = d.lexemes[n].dest /\ r.text = <<>> /\ r.parent = TopOf(st)
      BY <2>1
    <3>3. /\ d.lexemes[n].kind = "start" => Shape(d, n + 1, 0, u, v)
          /\ d.lexemes[n].kind = "empty" => Shape(d, n, 1, u, v)
      BY <1>1, <3>1, <3>2, ShapeStart
    <3>4. n \in Tags(d) /\ NodeOf(d, n) = Len(t) + 1
      BY <1>1, <3>1, <3>2, StartAdds
    <3>5. Len(u) = Len(t) + 1 /\ u[Len(t) + 1] = r /\ \A i \in 1..Len(t) : u[i] = t[i]
      BY <1>2, <3>1, <3>2, AppendIs DEF Added
    <3> QED BY <3>3, <3>4, <3>5
  <2>3. Plain(d)
    BY <1>5, <1>8
  <2>4. CASE ~Scannable(d)
    BY <2>2, <2>3, <2>4 DEF Built
  <2>5. CASE Scannable(d)
    <3>1. b.open = Offset(d, n) /\ b.end = Offset(d, n + 1) /\ (b.selfClosed <=> d.lexemes[n].kind = "empty")
          /\ lineNumberAt(b.open) = LineOf(d, n) /\ Spans(d, n, t)
      BY <1>7, <2>3, <2>5
    <3>2. /\ d.lexemes[n].kind = "start" => Spans(d, n + 1, u)
          /\ d.lexemes[n].kind = "empty" => Spans(d, n, u)
      <4>1. /\ r.start = Offset(d, n) /\ r.line = LineOf(d, n)
            /\ d.lexemes[n].kind = "empty" => r.end = Offset(d, n + 1)
            /\ d.lexemes[n].kind # "empty" => r.end = Offset(d, n)
        BY <2>1, <3>1
      <4>2. Len(u) = Len(t) + 1 /\ u[Len(t) + 1] = r /\ \A i \in 1..Len(t) : u[i] = t[i]
        BY <2>2
      <4>3. n \in Tags(d) /\ NodeOf(d, n) = Len(t) + 1 /\ Spans(d, n, t)
        BY <2>2, <3>1
      <4> QED BY <1>1, <1>2, <4>1, <4>2, <4>3, SpansStart
    <3>3. Reached(d, b.end, n + 1)
      BY <1>1, <1>3, <3>1, ReachedAt
    <3> QED BY <1>6, <2>2, <2>3, <3>2, <3>3 DEF Built, Follows
  <2> QED BY <2>4, <2>5
<1> QED
  BY <1>4, <1>7, <1>8

LEMMA EndSet ==
    ASSUME NEW t \in Seq(Nodes), NEW w \in 1..Len(t), NEW e \in Nat, NEW u, u = [t EXCEPT ![w].end = e]
    PROVE  /\ u \in Seq(Nodes) /\ Len(u) = Len(t)
           /\ \A i \in 1..Len(t) : /\ u[i].tag = t[i].tag /\ u[i].dest = t[i].dest /\ u[i].text = t[i].text
                                   /\ u[i].parent = t[i].parent /\ u[i].start = t[i].start /\ u[i].line = t[i].line
                                   /\ i # w => u[i].end = t[i].end
                                   /\ i = w => u[i].end = e
<1>1. t[w] \in Nodes /\ \A i \in 1..Len(t) : t[i] \in Nodes
  OBVIOUS
<1> DEFINE r == [t[w] EXCEPT !.end = e]
<1>2. r \in Nodes /\ r.tag = t[w].tag /\ r.dest = t[w].dest /\ r.parent = t[w].parent /\ r.text = t[w].text
      /\ r.start = t[w].start /\ r.end = e /\ r.line = t[w].line
  BY <1>1 DEF Nodes
<1>3. u = [t EXCEPT ![w] = r]
  OBVIOUS
<1> HIDE DEF r
<1>4. DOMAIN t = 1..Len(t) /\ Len(t) \in Nat
  OBVIOUS
<1>5. Len(u) = Len(t) /\ u \in Seq(Nodes)
  <2>1. w \in DOMAIN t
    BY <1>4
  <2>2. DOMAIN u = 1..Len(t) /\ u = [i \in 1..Len(t) |-> u[i]]
    BY <1>3, <1>4
  <2>3. \A i \in 1..Len(t) : u[i] \in Nodes
    BY <1>1, <1>2, <1>3, <1>4, <2>1
  <2>4. u \in [1..Len(t) -> Nodes]
    BY <2>2, <2>3
  <2>5. PICK h : h = Len(t)
    OBVIOUS
  <2>6. h \in Nat /\ u \in [1..h -> Nodes]
    BY <1>4, <2>4, <2>5
  <2>7. u \in Seq(Nodes) /\ Len(u) = h
    BY <2>6, RowSeq
  <2> QED BY <2>5, <2>7
<1>6. (\A i \in 1..Len(t) : i # w => u[i] = t[i]) /\ u[w] = r
  BY <1>3, <1>4
<1>7. ASSUME NEW i \in 1..Len(t)
      PROVE  /\ u[i].tag = t[i].tag /\ u[i].dest = t[i].dest /\ u[i].text = t[i].text
             /\ u[i].parent = t[i].parent /\ u[i].start = t[i].start /\ u[i].line = t[i].line
             /\ i # w => u[i].end = t[i].end
             /\ i = w => u[i].end = e
  <2>1. CASE i = w
    <3>1. u[i] = r
      BY <1>6, <2>1
    <3> QED BY <1>2, <2>1, <3>1
  <2>2. CASE i # w
    <3>1. u[i] = t[i]
      BY <1>6, <2>2
    <3> QED BY <2>2, <3>1
  <2> QED BY <2>1, <2>2
<1> QED
  BY <1>5, <1>7

\* The element that ends: its node, whether its span is known, and what the scanner finds.
LEMMA EndFound ==
    ASSUME NEW d, Seen(d), NEW n \in 1..Len(d.lexemes), NEW s, NEW t, NEW st, NEW c,
           Built(d, n, s, t, st, c), OpenAt(d, n + 1) # Ill, d.lexemes[n].kind \in {"end", "empty"},
           d.lexemes[n].kind = "empty" => s = 1, Plain(d), Scannable(d), NEW w, w = st[Len(st)]
    PROVE  /\ d.lexemes[n].kind = "empty" => t[w].end # t[w].start
           /\ d.lexemes[n].kind = "end" =>
                 /\ t[w].end = t[w].start /\ w = NodeOf(d, OpenAt(d, n)[Len(OpenAt(d, n))])
                 /\ scanEndTag(c, t[w].tag) = Offset(d, n + 1) /\ Offset(d, n + 1) \in Nat
<1>1. IsDocument(d) /\ Viewed(d) /\ Shape(d, n, s, t, st) /\ Spans(d, n, t) /\ Follows(d, n, s, c)
  <2>1. IsDocument(d) /\ Viewed(d)
    BY SeenReady DEF Seen
  <2> QED BY <2>1 DEF Built
<1>2. At0(d, n, s) /\ Had(d, n, s, t) /\ Rows(d, n, s, t) /\ Stacked(d, n, s, st) /\ SentOK(d, n, s)
  BY <1>1 DEF Shape, At0
<1>3. n \in 1..(Len(d.lexemes) + 1) /\ n + 1 \in 1..(Len(d.lexemes) + 1) /\ n <= Len(d.lexemes)
      /\ DOMAIN d.lexemes = 1..Len(d.lexemes) /\ IsLexeme(d.lexemes[n])
  BY <1>1, DocumentTyped
<1>4. CASE d.lexemes[n].kind = "empty"
  <2>1. Half(d, n, s) /\ IsTag(d.lexemes[n]) /\ n \in Tags(d)
    BY <1>3, <1>4 DEF Half, IsTag, Tags
  <2>2. w = NodeOf(d, n)
    BY <1>2, <2>1 DEF Stacked
  <2>3. NodeOf(d, n) <= Len(t)
    <3>1. Len(t) = NodeOf(d, n - 1) + 1
      BY <1>2, <2>1 DEF Had
    <3>2. NodeOf(d, n) = NodeOf(d, n - 1) + 1 /\ NodeOf(d, n - 1) \in Nat
      BY <1>1, <2>1, NodeTag
    <3> QED BY <3>1, <3>2
  <2>4. Span(d, n, t[w], n)
    BY <1>1, <2>1, <2>2, <2>3 DEF Spans
  <2>5. ~IsOpen(d, n, n)
    <3>1. IsOpen(d, n, n) => n \in 1..(n - 1)
      BY <1>1, OpenIs
    <3> QED BY <3>1
  <2>6. LastOf(d, Opened(d.lexemes), n) = n
    BY <1>4 DEF LastOf
  <2>7. t[w].start = Offset(d, n) /\ t[w].end = Offset(d, n + 1)
    BY <2>4, <2>5, <2>6 DEF Span
  <2>8. Len(d.lexemes[n].units) >= 1
    <3>1. PICK rest : Tagged(d.lexemes[n].units, <<"<">>, d.lexemes[n].tag, rest)
      BY <1>3, <2>1, StartTagShape
    <3>2. Len(<<"<">>) = 1
      OBVIOUS
    <3> QED BY <3>1, <3>2 DEF Tagged
  <2>9. Offset(d, n) < Offset(d, n + 1)
    BY <1>1, <2>8, LexemeShown
  <2>10. Offset(d, n) \in Nat /\ Offset(d, n + 1) \in Nat
    BY <1>1, <1>3, OffsetIs
  <2> QED BY <1>4, <2>7, <2>9, <2>10
<1>5. CASE d.lexemes[n].kind = "end"
  <2>1. ~Half(d, n, s)
    BY <1>5 DEF Half
  <2>2. PICK o : o = OpenAt(d, n)
    OBVIOUS
  <2>3. PICK top : top = o[Len(o)]
    OBVIOUS
  <2>4. Len(o) \in 1..Len(o) /\ top \in Tags(d) /\ d.lexemes[top].tag = d.lexemes[n].tag
    BY <1>1, <1>5, <2>2, <2>3, LastIs
  <2>5. Len(st) = Len(o) /\ w = NodeOf(d, top)
    <3>1. Len(st) = Len(o) /\ \A i \in 1..Len(o) : st[i] = NodeOf(d, o[i])
      BY <1>2, <2>1, <2>2 DEF Stacked
    <3> QED BY <2>3, <2>4, <3>1
  <2>6. w \in 1..Len(t)
    <3>1. st \in Seq(Nat) /\ \A i \in 1..Len(st) : st[i] \in 1..Len(t)
      BY <1>1, StackIn
    <3>2. Len(st) \in 1..Len(st)
      BY <2>4, <2>5
    <3> QED BY <3>1, <3>2
  <2>7. Row(d, t[w], top, TextSo(d, top, n, s)) /\ Span(d, n, t[w], top)
    <3>1. NodeOf(d, top) <= Len(t)
      BY <2>5, <2>6
    <3>2. Row(d, t[NodeOf(d, top)], top, TextSo(d, top, n, s))
      BY <1>2, <2>4, <3>1 DEF Rows
    <3>3. Span(d, n, t[NodeOf(d, top)], top)
      BY <1>1, <2>4, <3>1 DEF Spans
    <3> QED BY <2>5, <3>2, <3>3
  <2>8. IsOpen(d, n, top)
    BY <2>2, <2>3, <2>4 DEF IsOpen
  <2>9. t[w].end = t[w].start /\ t[w].tag = d.lexemes[n].tag
    BY <2>4, <2>7, <2>8 DEF Span, Row
  <2>10. Reached(d, c, n)
    BY <1>1, <2>1 DEF Follows
  <2>11. scanEndTag(c, d.lexemes[n].tag) = Offset(d, n + 1) /\ Offset(d, n + 1) \in Nat
    BY <1>1, <1>5, <2>10, EndScanned
  <2> QED BY <1>5, <2>2, <2>3, <2>5, <2>9, <2>11
<1> QED
  BY <1>4, <1>5

LEMMA BuiltEnd ==
    ASSUME NEW d, Seen(d), NEW n \in 1..Len(d.lexemes), NEW s, NEW t, NEW st, NEW c \in 0..Len(bytes),
           Built(d, n, s, t, st, c), OpenAt(d, n + 1) # Ill, d.lexemes[n].kind \in {"end", "empty"},
           d.lexemes[n].kind = "empty" => s = 1,
           NEW w, w = st[Len(st)], NEW e, e = scanEndTag(c, t[w].tag), NEW u, NEW v,
           t[w].end # t[w].start => u = t /\ v = c,
           t[w].end = t[w].start => u = [t EXCEPT ![w].end = e] /\ v = e
    PROVE  /\ t[w].end = t[w].start /\ e = Fail => ~Plain(d) \/ ~Scannable(d)
           /\ t[w].end # t[w].start \/ e # Fail => Built(d, n + 1, 0, u, Front(st), v) /\ v \in 0..Len(bytes)
<1>1. IsDocument(d) /\ Ready /\ Shape(d, n, s, t, st) /\ c \in Nat
  <2>1. IsDocument(d) /\ Ready
    BY SeenReady DEF Seen
  <2> QED BY <2>1 DEF Built, Ready
<1>2. t \in Seq(Nodes) /\ st \in Seq(Nat) /\ \A i \in 1..Len(st) : st[i] \in 1..Len(t)
  BY <1>1, StackIn
<1>3. t \in Seq(Nodes) /\ Len(t) \in Nat
  BY <1>2
<1>4. Shape(d, n + 1, 0, t, Front(st)) /\ st # <<>>
  <2>1. \A i \in 1..Len(t) : t[i].tag = t[i].tag /\ t[i].dest = t[i].dest /\ t[i].text = t[i].text /\ t[i].parent = t[i].parent
    OBVIOUS
  <2> QED BY <1>1, <1>3, <2>1, ShapeEnd
<1>5. w \in 1..Len(t)
  <2>1. Len(st) \in 1..Len(st)
    BY <1>2, <1>4
  <2> QED BY <1>2, <2>1
<1>6. ~(~Plain(d))
  BY <1>5 DEF Built
<1>7. e = Fail \/ e \in 0..Len(bytes)
  <2>1. Len(t[w].tag) \in Nat
    <3>1. t[w] \in Nodes
      BY <1>3, <1>5
    <3>2. t[w].tag \in Seq(STRING)
      BY <3>1 DEF Nodes
    <3> QED BY <3>2
  <2> QED BY <1>1, <2>1, EndTagInside
<1>8. ASSUME t[w].end # t[w].start \/ e # Fail
      PROVE  Shape(d, n + 1, 0, u, Front(st)) /\ v \in 0..Len(bytes)
  <2>1. CASE t[w].end # t[w].start
    BY <1>4, <2>1
  <2>2. CASE t[w].end = t[w].start
    <3>1. e \in 0..Len(bytes) /\ e \in Nat /\ u = [t EXCEPT ![w].end = e]
      BY <1>1, <1>7, <1>8, <2>2 DEF Ready
    <3>2. /\ u \in Seq(Nodes) /\ Len(u) = Len(t)
          /\ \A i \in 1..Len(t) : u[i].tag = t[i].tag /\ u[i].dest = t[i].dest /\ u[i].text = t[i].text /\ u[i].parent = t[i].parent
      <4>1. u \in Seq(Nodes)
        BY <1>3, <1>5, <3>1, EndSet
      <4>2. Len(u) = Len(t)
        BY <1>3, <1>5, <3>1, EndSet
      <4>3. ASSUME NEW i \in 1..Len(t)
            PROVE u[i].tag = t[i].tag /\ u[i].dest = t[i].dest /\ u[i].text = t[i].text /\ u[i].parent = t[i].parent
        BY <1>3, <1>5, <3>1, EndSet
      <4> QED BY <4>1, <4>2, <4>3
    <3>3. Shape(d, n + 1, 0, u, Front(st))
      BY <1>1, <3>2, ShapeEnd
    <3> QED BY <2>2, <3>1, <3>3
  <2> QED BY <2>1, <2>2
<1>9. ASSUME Scannable(d) PROVE t[w].end # t[w].start \/ e # Fail
  <2>1. /\ d.lexemes[n].kind = "empty" => t[w].end # t[w].start
        /\ d.lexemes[n].kind = "end" => e \in Nat
    BY <1>6, <1>9, EndFound
  <2> QED BY <2>1 DEF Fail
<1>10. ASSUME Scannable(d) PROVE Spans(d, n + 1, u) /\ Follows(d, n + 1, 0, v)
  <2>1. Spans(d, n, t) /\ Follows(d, n, s, c)
    BY <1>6, <1>10 DEF Built
  <2>2. ~Half(d, n + 1, 0)
    BY DEF Half
  <2>3. CASE d.lexemes[n].kind = "empty"
    <3>1. t[w].end # t[w].start
      BY <1>6, <1>10, <2>3, EndFound
    <3>2. Half(d, n, s)
      <4>1. n <= Len(d.lexemes)
        BY <1>1, DocumentTyped
      <4> QED BY <2>3, <4>1 DEF Half
    <3>3. Reached(d, c, n + 1)
      BY <2>1, <3>2 DEF Follows
    <3>4. SameOpen(d, n, n + 1)
      BY <1>1, <2>3, OpenIs DEF SameOpen
    <3>5. \A i \in 1..Len(t) : t[i].start = t[i].start /\ t[i].end = t[i].end /\ t[i].line = t[i].line
      OBVIOUS
    <3>6. Spans(d, n + 1, t)
      BY <1>1, <1>3, <2>1, <3>4, <3>5, SpansKept
    <3> QED BY <2>2, <3>1, <3>3, <3>6 DEF Follows
  <2>4. CASE d.lexemes[n].kind = "end"
    <3>1. t[w].end = t[w].start /\ w = NodeOf(d, OpenAt(d, n)[Len(OpenAt(d, n))])
          /\ e = Offset(d, n + 1) /\ e \in Nat
      BY <1>6, <1>10, <2>4, EndFound
    <3>2. u = [t EXCEPT ![w].end = e] /\ v = e
      BY <3>1
    <3>3. /\ Len(u) = Len(t)
          /\ \A i \in 1..Len(t) : /\ u[i].start = t[i].start /\ u[i].line = t[i].line
                                  /\ i # w => u[i].end = t[i].end
                                  /\ i = w => u[i].end = e
      BY <1>3, <1>5, <3>1, <3>2, EndSet
    <3>4. \A i \in 1..Len(t) : /\ u[i].start = t[i].start /\ u[i].line = t[i].line
                               /\ i # w => u[i].end = t[i].end
                               /\ i = w => u[i].end = Offset(d, n + 1)
      BY <3>1, <3>3
    <3>a. Completed(t, w, Offset(d, n + 1), u)
      BY <3>3, <3>4 DEF Completed
    <3>5. Spans(d, n + 1, u)
      BY <1>1, <1>3, <2>1, <2>4, <3>1, <3>a, SpansEnd
    <3>6. Reached(d, Offset(d, n + 1), n + 1)
      <4>1. n + 1 \in 1..(Len(d.lexemes) + 1)
        BY <1>1, DocumentTyped
      <4> QED BY <1>1, <4>1, ReachedAt
    <3> QED BY <2>2, <3>1, <3>2, <3>5, <3>6 DEF Follows
  <2> QED BY <2>3, <2>4
<1> QED
  BY <1>6, <1>8, <1>9, <1>10 DEF Built

Exactly(d, t) == Scannable(d) => t = Tree(d)

\* At the end of a well-formed document the nodes are its tree.
LEMMA BuiltTree ==
    ASSUME NEW d, IsDocument(d), WellFormed(d), NEW n, n = Len(d.lexemes) + 1, NEW s, NEW t, NEW st, NEW c,
           Built(d, n, s, t, st, c)
    PROVE  Plain(d) /\ Exactly(d, t)
<1>1. At0(d, n, s) /\ Had(d, n, s, t) /\ Rows(d, n, s, t) /\ Shape(d, n, s, t, st)
  BY DEF Shape, Built
<1>2. Len(d.lexemes) \in Nat /\ n \in 1..(Len(d.lexemes) + 1) /\ n - 1 = Len(d.lexemes) /\ ~(n <= Len(d.lexemes))
      /\ DOMAIN d.lexemes = 1..Len(d.lexemes) /\ Len(d.lexemes) \in 0..Len(d.lexemes)
  BY DocumentTyped
<1>3. s = 0 /\ ~Half(d, n, s)
  <2>1. ~Half(d, n, s)
    BY <1>2 DEF Half
  <2>2. s = 0
    BY <1>1, <1>2 DEF At0, SentOK
  <2> QED BY <2>1, <2>2
<1>4. Len(t) = NodeOf(d, Len(d.lexemes)) /\ t \in Seq(Nodes) /\ Len(t) \in Nat
  <2>1. t \in Seq(Nodes) /\ Len(t) = NodeOf(d, n - 1)
    BY <1>1, <1>3 DEF Had
  <2> QED BY <1>2, <2>1
<1>5. Cardinality(Tags(d)) = Len(t)
  BY <1>4, TagCount
<1>6. Plain(d)
  <2>1. PICK k \in DOMAIN d.lexemes : IsTag(d.lexemes[k])
    BY DEF WellFormed
  <2>2. k \in Tags(d)
    BY <2>1 DEF Tags
  <2>3. Len(t) # 0
    <3>1. NodeOf(d, k) \in 1..NodeOf(d, Len(d.lexemes))
      BY <2>2, NodeTag
    <3> QED BY <1>4, <3>1
  <2> QED BY <2>3 DEF Built
<1>7. OpenAt(d, n) = <<>>
  BY DEF WellFormed, OpenAt
<1>8. ASSUME Scannable(d) PROVE t = Tree(d)
  <2> DEFINE rec(k) == [tag |-> d.lexemes[k].tag, dest |-> d.lexemes[k].dest, text |-> TextOf(d, Opened(d.lexemes), k),
                        parent |-> NodeOf(d, ParentOf(Opened(d.lexemes), k)), start |-> Offset(d, k),
                        end |-> Offset(d, LastOf(d, Opened(d.lexemes), k) + 1), line |-> LineOf(d, k)]
             at(i) == CHOOSE k \in Tags(d) : NodeOf(d, k) = i
  <2>1. Spans(d, n, t)
    BY <1>6, <1>8 DEF Built
  <2>2. ASSUME NEW k \in Tags(d), NodeOf(d, k) <= Len(t) PROVE t[NodeOf(d, k)] = rec(k)
    <3>1. PICK r : r = t[NodeOf(d, k)]
      OBVIOUS
    <3>2. Row(d, r, k, TextSo(d, k, n, s)) /\ Span(d, n, r, k)
      BY <1>1, <2>1, <2>2, <3>1 DEF Rows, Spans
    <3>3. r \in Nodes
      <4>1. NodeOf(d, k) \in Nat /\ NodeOf(d, k) >= 1
        BY NodeNumber
      <4> QED BY <1>4, <2>2, <3>1, <4>1
    <3>4. TextSo(d, k, n, s) = TextOf(d, Opened(d.lexemes), k)
      <4>1. TextSo(d, k, n, 0) = TextBefore(d, k, n)
        BY <1>2, TextStart
      <4>2. TextOf(d, Opened(d.lexemes), k) = TextBefore(d, k, Len(d.lexemes) + 1)
        BY TextSteps
      <4> QED BY <1>3, <4>1, <4>2
    <3>5. ~IsOpen(d, n, k)
      <4>1. Len(<<>>) = 0
        OBVIOUS
      <4> QED BY <1>7, <4>1 DEF IsOpen
    <3>6. r = [tag |-> r.tag, dest |-> r.dest, text |-> r.text, parent |-> r.parent,
               start |-> r.start, end |-> r.end, line |-> r.line]
      BY <3>3 DEF Nodes
    <3>7. /\ r.tag = d.lexemes[k].tag /\ r.dest = d.lexemes[k].dest /\ r.text = TextOf(d, Opened(d.lexemes), k)
          /\ r.parent = NodeOf(d, ParentOf(Opened(d.lexemes), k))
      BY <3>2, <3>4 DEF Row
    <3>8. r.start = Offset(d, k) /\ r.line = LineOf(d, k) /\ r.end = Offset(d, LastOf(d, Opened(d.lexemes), k) + 1)
      BY <3>2, <3>5 DEF Span
    <3> QED BY <3>1, <3>6, <3>7, <3>8
  <2>3. ASSUME NEW i \in 1..Len(t) PROVE at(i) \in Tags(d) /\ NodeOf(d, at(i)) = i
    <3>1. \E k \in Tags(d) : NodeOf(d, k) = i
      BY <1>2, <1>4, NodeHas
    <3> QED BY <3>1
  <2>4. Tree(d) = [i \in 1..Len(t) |-> rec(at(i))]
    BY <1>5, Zenon DEF Tree
  <2> HIDE DEF rec, at
  <2>5. \A i \in 1..Len(t) : t[i] = rec(at(i))
    <3>1. ASSUME NEW i \in 1..Len(t) PROVE t[i] = rec(at(i))
      <4>1. PICK k : k = at(i)
        OBVIOUS
      <4>2. k \in Tags(d) /\ NodeOf(d, k) = i
        BY <2>3, <4>1
      <4>3. NodeOf(d, k) <= Len(t)
        BY <1>4, <4>2
      <4>4. t[NodeOf(d, k)] = rec(k)
        BY <2>2, <4>2, <4>3
      <4> QED BY <4>1, <4>2, <4>4
    <3> QED BY <3>1
  <2>6. t = [i \in 1..Len(t) |-> t[i]]
    BY <1>4
  <2> QED BY <2>4, <2>5, <2>6
<1> QED
  BY <1>6, <1>8 DEF Exactly

--------------------------------------------------------------------------------
(* The invariant of the loader *)

Inputs == DOMAIN Documents \cup {Missing, Utf32}
Doc(f) == Documents[input[f]]

Parsed(d, t) ==
    WellFormed(d) /\ Plain(d) /\ Shape(d, Len(d.lexemes) + 1, 0, t, <<>>) /\ Exactly(d, t)

Files ==
    /\ disk \in Seq(Inputs) /\ input \in [1..Len(disk) -> Inputs] /\ outcome \in [1..Len(disk) -> Outcomes]
    /\ trees \in [1..Len(disk) -> Seq(Nodes)] /\ file \in 1..(Len(disk) + 1)
    /\ encoding \in {"single", "le", "be"}

Past == \A f \in 1..Len(disk) : f < file => outcome[f] = "loaded" /\ input[f] \in DOMAIN Documents /\ Parsed(Doc(f), trees[f])
Future == \A f \in 1..Len(disk) : f > file => outcome[f] = "unread"

Unreadable(i) == i = Utf32 \/ (i \in DOMAIN Documents /\ ~(Plain(Documents[i]) /\ Scannable(Documents[i])))

Present ==
    file <= Len(disk) =>
        /\ outcome[file] # "loaded"
        /\ outcome[file] \in {"reading", "syntax"} => input[file] \in DOMAIN Documents
        /\ outcome[file] = "reading" => /\ Seen(Doc(file)) /\ cursor \in 0..Len(bytes)
                                        /\ Built(Doc(file), next, sent, nodes, stack, cursor)
        /\ outcome[file] = "syntax" => ~WellFormed(Doc(file))
        /\ outcome[file] = "refused" => Unreadable(input[file])

LoadInv == Files /\ Past /\ Future /\ Present

LEMMA DocumentIs == ASSUME NEW i \in DOMAIN Documents PROVE IsDocument(Documents[i])
BY DocumentAssumption

LEMMA ReadIs ==
    ASSUME NEW i \in DOMAIN Documents
    PROVE  /\ Read[i].bytes = Bom(Documents[i].form) \o Encoded(Documents[i].form, Units(Documents[i]))
           /\ Read[i].open = Opened(Documents[i].lexemes) /\ Read[i].wellFormed = WellFormed(Documents[i])
BY Zenon DEF Read

LEMMA ExpectedIs ==
    ASSUME NEW i \in DOMAIN Documents
    PROVE  /\ i \in Scannables <=> Scannable(Documents[i])
           /\ WellFormed(Documents[i]) => Expected[i] = Tree(Documents[i])
<1>1. i \in Scannables <=> Scannable(Documents[i])
  BY Zenon DEF Scannables
<1>2. Expected[i] = IF WellFormed(Documents[i]) THEN Tree(Documents[i]) ELSE <<>>
  BY Zenon DEF Expected
<1> QED
  BY <1>1, <1>2

\* What the invariant says: the run's property.
LEMMA LoadExact == ASSUME LoadInv PROVE LoadsExactly
<1> SUFFICES ASSUME NEW f \in DOMAIN outcome
             PROVE  /\ outcome[f] = "loaded" =>
                          Read[input[f]].wellFormed /\ (input[f] \in Scannables => trees[f] = Expected[input[f]])
                    /\ outcome[f] = "syntax" => ~Read[input[f]].wellFormed
                    /\ outcome[f] = "refused" =>
                          input[f] = Utf32 \/ ~Plain(Documents[input[f]]) \/ input[f] \notin Scannables
  BY DEF LoadsExactly
<1>1. f \in 1..Len(disk) /\ Len(disk) \in Nat /\ file \in 1..(Len(disk) + 1)
  BY DEF LoadInv, Files
<1>2. f < file \/ f = file \/ f > file
  BY <1>1
<1>3. CASE f < file
  <2>1. outcome[f] = "loaded" /\ input[f] \in DOMAIN Documents /\ Parsed(Doc(f), trees[f])
    BY <1>1, <1>3 DEF LoadInv, Past
  <2>2. Read[input[f]].wellFormed = WellFormed(Documents[input[f]])
    BY <2>1, ReadIs
  <2>3. WellFormed(Documents[input[f]]) /\ (Scannable(Documents[input[f]]) => trees[f] = Tree(Documents[input[f]]))
    BY <2>1 DEF Parsed, Doc, Exactly
  <2>4. input[f] \in Scannables => trees[f] = Expected[input[f]]
    BY <2>1, <2>3, ExpectedIs
  <2> QED BY <2>1, <2>2, <2>3, <2>4
<1>4. CASE f = file
  <2>1. file <= Len(disk) /\ Present
    BY <1>1, <1>4 DEF LoadInv
  <2>2. outcome[file] # "loaded"
    BY <2>1 DEF Present
  <2>3. CASE outcome[file] = "syntax"
    <3>1. input[file] \in DOMAIN Documents /\ ~WellFormed(Documents[input[file]])
      BY <2>1, <2>3 DEF Present, Doc
    <3>2. Read[input[file]].wellFormed = WellFormed(Documents[input[file]])
      BY <3>1, ReadIs
    <3> QED BY <1>4, <2>3, <3>1, <3>2
  <2>4. CASE outcome[file] = "refused"
    <3>1. Unreadable(input[file])
      BY <2>1, <2>4 DEF Present
    <3>2. input[file] \in DOMAIN Documents => (input[file] \in Scannables <=> Scannable(Documents[input[file]]))
      BY ExpectedIs
    <3> QED BY <1>4, <2>4, <3>1, <3>2 DEF Unreadable
  <2> QED BY <1>4, <2>2, <2>3, <2>4
<1>5. CASE f > file
  <2>1. outcome[f] = "unread"
    BY <1>1, <1>5 DEF LoadInv, Future
  <2> QED BY <2>1
<1> QED
  BY <1>2, <1>3, <1>4, <1>5

LEMMA LoadBegins == LoaderInit => LoadInv
<1> SUFFICES ASSUME LoaderInit PROVE LoadInv
  OBVIOUS
<1> USE DEF LoaderInit
<1>1. disk # <<>> /\ disk \in Seq(Inputs) /\ Len(disk) \in Nat /\ DOMAIN disk = 1..Len(disk)
  <2>1. disk # <<>> /\ disk \in Seq(Inputs)
    BY DiskAssumption DEF Inputs
  <2> QED BY <2>1
<1>2. Len(disk) >= 1
  BY <1>1
<1>3. Missing \in Inputs /\ "unread" \in Outcomes /\ <<>> \in Seq(Nodes)
  BY DEF Inputs, Outcomes
<1>4. input \in [1..Len(disk) -> Inputs] /\ outcome \in [1..Len(disk) -> Outcomes]
  BY <1>1, <1>3
<1>5. trees \in [1..Len(disk) -> Seq(Nodes)]
  BY <1>1, <1>3
<1>6. Files
  BY <1>1, <1>2, <1>4, <1>5 DEF Files
<1>7. \A f \in 1..Len(disk) : outcome[f] = "unread"
  BY <1>1
<1>8. Past
  BY DEF Past
<1>9. Future
  BY <1>7 DEF Future
<1>10. outcome[file] = "unread"
  BY <1>2, <1>7
<1>11. Present
  BY <1>10 DEF Present
<1> QED
  BY <1>6, <1>8, <1>9, <1>11 DEF LoadInv

LEMMA ReadingIs ==
    ASSUME LoadInv, Reading
    PROVE  /\ file \in 1..Len(disk) /\ file <= Len(disk) /\ outcome[file] = "reading" /\ input[file] \in DOMAIN Documents
           /\ Seen(Doc(file)) /\ cursor \in 0..Len(bytes)
           /\ Built(Doc(file), next, sent, nodes, stack, cursor) /\ IsDocument(Doc(file))
<1>1. file <= Len(disk) /\ outcome[file] = "reading" /\ Len(disk) \in Nat /\ file \in 1..(Len(disk) + 1)
  BY DEF LoadInv, Files, Reading
<1>2. Seen(Doc(file)) /\ cursor \in 0..Len(bytes) /\ Built(Doc(file), next, sent, nodes, stack, cursor)
      /\ input[file] \in DOMAIN Documents
  BY <1>1 DEF LoadInv, Present
<1> QED
  BY <1>1, <1>2 DEF Seen

LEMMA AtIs ==
    ASSUME LoadInv, NEW kinds, At(kinds)
    PROVE  /\ Reading /\ next \in 1..Len(Doc(file).lexemes) /\ OpenAt(Doc(file), next + 1) # Ill
           /\ Doc(file).lexemes[next].kind \in kinds /\ lexeme = Doc(file).lexemes[next]
<1>1. Reading
  BY DEF At
<1>2. input[file] \in DOMAIN Documents /\ Built(Doc(file), next, sent, nodes, stack, cursor) /\ IsDocument(Doc(file))
  BY <1>1, ReadingIs
<1>3. lexemes = Doc(file).lexemes
  BY DEF lexemes, Doc
<1>4. next <= Len(Doc(file).lexemes) /\ Read[input[file]].open[next + 1] # Ill /\ lexeme.kind \in kinds
  BY <1>3 DEF At
<1>5. lexeme = Doc(file).lexemes[next]
  BY <1>3 DEF lexeme
<1>6. Read[input[file]].open[next + 1] = OpenAt(Doc(file), next + 1)
  BY <1>2, ReadIs DEF OpenAt, Doc
<1>7. next \in 1..(Len(Doc(file).lexemes) + 1) /\ Len(Doc(file).lexemes) \in Nat
  <2>1. At0(Doc(file), next, sent)
    BY <1>2 DEF Built, Shape
  <2> QED BY <1>2, <2>1, DocumentTyped DEF At0
<1> QED
  BY <1>1, <1>4, <1>5, <1>6, <1>7

\* The load of the file goes on.
LEMMA Advance ==
    ASSUME LoadInv, Reading, UNCHANGED <<disk, file, input, bytes, encoding, trees, outcome>>,
           Built(Doc(file), next', sent', nodes', stack', cursor'), cursor' \in 0..Len(bytes)
    PROVE  LoadInv'
<1>1. file <= Len(disk) /\ outcome[file] = "reading" /\ Seen(Doc(file)) /\ input[file] \in DOMAIN Documents
  BY ReadingIs
<1>2. Files'
  BY DEF LoadInv, Files
<1>3. Past'
  BY DEF LoadInv, Past, Doc
<1>4. Future'
  BY DEF LoadInv, Future
<1>5. Seen(Doc(file))'
  BY <1>1 DEF Seen, Doc
<1>6. Built(Doc(file), next, sent, nodes, stack, cursor)'
  BY DEF Doc
<1>7. Present'
  BY <1>1, <1>5, <1>6 DEF Present
<1> QED
  BY <1>2, <1>3, <1>4, <1>7 DEF LoadInv

\* The load of the file fails.
LEMMA StopAt ==
    ASSUME LoadInv, file <= Len(disk), disk' = disk, NEW what \in {"io", "syntax", "refused"},
           outcome' = [outcome EXCEPT ![file] = what],
           UNCHANGED <<file, bytes, encoding, next, sent, cursor, stack, nodes, trees>>,
           input' \in [1..Len(disk) -> Inputs], \A f \in 1..Len(disk) : f # file => input'[f] = input[f],
           what = "syntax" => input'[file] \in DOMAIN Documents /\ ~WellFormed(Documents[input'[file]]),
           what = "refused" => Unreadable(input'[file])
    PROVE  LoadInv'
<1>1. /\ outcome' = [outcome EXCEPT ![file] = what]
      /\ UNCHANGED <<file, bytes, encoding, next, sent, cursor, stack, nodes, trees>>
  OBVIOUS
<1>2. outcome \in [1..Len(disk) -> Outcomes] /\ file \in 1..Len(disk) /\ Len(disk) \in Nat
  BY DEF LoadInv, Files
<1>3. outcome' \in [1..Len(disk) -> Outcomes] /\ outcome'[file] = what
      /\ \A f \in 1..Len(disk) : f # file => outcome'[f] = outcome[f]
  BY <1>1, <1>2 DEF Outcomes
<1>4. Files'
  BY <1>1, <1>3 DEF LoadInv, Files
<1>5. Past'
  <2>1. ASSUME NEW f \in 1..Len(disk), f < file
        PROVE  outcome'[f] = "loaded" /\ input'[f] \in DOMAIN Documents /\ Parsed(Documents[input'[f]], trees[f])
    <3>1. outcome[f] = "loaded" /\ input[f] \in DOMAIN Documents /\ Parsed(Documents[input[f]], trees[f])
      BY <2>1 DEF LoadInv, Past, Doc
    <3>2. f # file
      BY <1>2, <2>1
    <3> QED BY <1>3, <3>1, <3>2
  <2> QED BY <1>1, <2>1 DEF Past, Doc
<1>6. Future'
  <2>1. ASSUME NEW f \in 1..Len(disk), f > file PROVE outcome'[f] = "unread"
    <3>1. outcome[f] = "unread"
      BY <2>1 DEF LoadInv, Future
    <3>2. f # file
      BY <1>2, <2>1
    <3> QED BY <1>3, <3>1, <3>2
  <2> QED BY <1>1, <2>1 DEF Future
<1>7. Present'
  <2>1. outcome'[file] # "loaded" /\ outcome'[file] # "reading"
    BY <1>3
  <2> QED BY <1>1, <1>3, <2>1 DEF Present, Doc
<1> QED
  BY <1>4, <1>5, <1>6, <1>7 DEF LoadInv

LEMMA Stop ==
    ASSUME LoadInv, file <= Len(disk), disk' = disk, NEW what \in {"io", "syntax", "refused"}, Throw(what),
           what # "io" => input[file] \in DOMAIN Documents,
           what = "syntax" => ~WellFormed(Doc(file)),
           what = "refused" => ~(Plain(Doc(file)) /\ Scannable(Doc(file)))
    PROVE  LoadInv'
<1>1. input' = input /\ input \in [1..Len(disk) -> Inputs]
  BY DEF Throw, LoadInv, Files
<1> QED
  BY <1>1, StopAt DEF Throw, Doc, Unreadable

LEMMA RawStep == ASSUME LoadInv, loadRawDocument, disk' = disk PROVE LoadInv'
<1>1. file <= Len(disk) /\ outcome[file] = "unread"
  BY DEF loadRawDocument
<1>2. /\ outcome \in [1..Len(disk) -> Outcomes] /\ input \in [1..Len(disk) -> Inputs]
      /\ file \in 1..Len(disk) /\ Len(disk) \in Nat /\ disk[file] \in Inputs
  BY <1>1 DEF LoadInv, Files
<1>3. CASE disk[file] = Missing
  <2>1. Throw("io")
    BY <1>3 DEF loadRawDocument
  <2> QED BY <1>1, <2>1, Stop
<1>4. CASE disk[file] \notin {Missing, Utf32}
  <2>1. /\ outcome' = [outcome EXCEPT ![file] = "reading"] /\ input' = [input EXCEPT ![file] = disk[file]]
        /\ bytes' = Read[disk[file]].bytes /\ encoding' = detectEncodingClass(bytes')
        /\ next' = 1 /\ sent' = 0 /\ cursor' = 0 /\ stack' = <<>> /\ nodes' = <<>>
        /\ UNCHANGED <<file, trees>>
    BY <1>4 DEF loadRawDocument
  <2>2. disk[file] \in DOMAIN Documents
    BY <1>2, <1>4 DEF Inputs
  <2>3. PICK d : d = Documents[disk[file]]
    OBVIOUS
  <2>4. IsDocument(d) /\ bytes' = Bom(d.form) \o Encoded(d.form, Units(d))
    BY <2>1, <2>2, <2>3, DocumentIs, ReadIs
  <2>5. outcome' \in [1..Len(disk) -> Outcomes] /\ outcome'[file] = "reading"
        /\ \A f \in 1..Len(disk) : f # file => outcome'[f] = outcome[f]
    BY <1>2, <2>1 DEF Outcomes
  <2>6. input' \in [1..Len(disk) -> Inputs] /\ input'[file] = disk[file]
        /\ \A f \in 1..Len(disk) : f # file => input'[f] = input[f]
    BY <1>2, <2>1
  <2>7. Doc(file)' = d
    BY <2>1, <2>3, <2>6 DEF Doc
  <2>8. Seen(d)'
    BY <2>1, <2>4 DEF Seen
  <2>9. encoding' \in {"single", "le", "be"} /\ Len(bytes') \in Nat
    <3>1. Ready'
      BY <2>8, SeenReady, PTL
    <3> QED BY <3>1 DEF Ready
  <2>10. Built(d, 1, 0, <<>>, <<>>, 0)
    <3>1. Shape(d, 1, 0, <<>>, <<>>)
      BY <2>4, ShapeBegins
    <3>2. ~Half(d, 1, 0)
      BY DEF Half
    <3>3. Reached(d, 0, 1)
      <4>1. 1 \in 1..(Len(d.lexemes) + 1)
        BY <2>4, DocumentTyped
      <4> QED BY <2>4, <4>1, ReachedAt
    <3>4. Len(<<>>) = 0
      OBVIOUS
    <3>5. Spans(d, 1, <<>>)
      <4>1. ASSUME NEW k \in Tags(d) PROVE ~(NodeOf(d, k) <= Len(<<>>))
        <5>1. NodeOf(d, k) \in Nat /\ NodeOf(d, k) >= 1
          BY <2>4, NodeNumber
        <5> QED BY <3>4, <5>1
      <4> QED BY <4>1 DEF Spans
    <3> QED BY <3>1, <3>2, <3>3, <3>4, <3>5 DEF Built, Follows
  <2>11. Files'
    BY <2>1, <2>5, <2>6, <2>9 DEF LoadInv, Files
  <2>12. Past'
    <3>1. ASSUME NEW f \in 1..Len(disk), f < file
          PROVE  outcome'[f] = "loaded" /\ input'[f] \in DOMAIN Documents /\ Parsed(Documents[input'[f]], trees[f])
      <4>1. outcome[f] = "loaded" /\ input[f] \in DOMAIN Documents /\ Parsed(Documents[input[f]], trees[f])
        BY <3>1 DEF LoadInv, Past, Doc
      <4>2. f # file
        BY <1>2, <3>1
      <4>3. outcome'[f] = outcome[f] /\ input'[f] = input[f]
        BY <2>5, <2>6, <4>2
      <4> QED BY <4>1, <4>3
    <3> QED BY <2>1, <3>1 DEF Past, Doc
  <2>13. Future'
    <3>1. ASSUME NEW f \in 1..Len(disk), f > file PROVE outcome'[f] = "unread"
      <4>1. outcome[f] = "unread"
        BY <3>1 DEF LoadInv, Future
      <4>2. f # file
        BY <1>2, <3>1
      <4> QED BY <2>5, <4>1, <4>2
    <3> QED BY <2>1, <3>1 DEF Future
  <2>14. Present'
    <3>1. outcome'[file'] = "reading" /\ input'[file'] \in DOMAIN Documents
      BY <2>1, <2>2, <2>5, <2>6
    <3>2. Seen(Doc(file))'
      BY <2>7, <2>8 DEF Seen
    <3>3. Built(Doc(file), next, sent, nodes, stack, cursor)'
      BY <2>1, <2>7, <2>10
    <3>4. (cursor \in 0..Len(bytes))'
      BY <2>1, <2>9
    <3> QED BY <3>1, <3>2, <3>3, <3>4 DEF Present
  <2> QED BY <2>11, <2>12, <2>13, <2>14 DEF LoadInv
<1>5. CASE disk[file] = Utf32
  <2>1. /\ outcome' = [outcome EXCEPT ![file] = "refused"] /\ input' = [input EXCEPT ![file] = disk[file]]
        /\ UNCHANGED <<file, bytes, encoding, next, sent, cursor, stack, nodes, trees>>
    BY <1>5 DEF loadRawDocument, Missing, Utf32
  <2>2. input' \in [1..Len(disk) -> Inputs] /\ input'[file] = disk[file]
        /\ \A f \in 1..Len(disk) : f # file => input'[f] = input[f]
    BY <1>2, <2>1
  <2> QED BY <1>1, <1>5, <2>1, <2>2, StopAt DEF Unreadable
<1> QED
  BY <1>3, <1>4, <1>5

LEMMA QuietStep == ASSUME LoadInv, Quiet, disk' = disk PROVE LoadInv'
<1>1. At({"skip", "doctype", "text"}) /\ (lexeme.kind = "text" => stack = <<>> \/ sent = Len(lexeme.text))
      /\ next' = next + 1 /\ sent' = 0
      /\ UNCHANGED <<file, input, bytes, encoding, cursor, stack, nodes, trees, outcome>>
  BY DEF Quiet
<1>2. /\ Reading /\ next \in 1..Len(Doc(file).lexemes) /\ OpenAt(Doc(file), next + 1) # Ill
      /\ Doc(file).lexemes[next].kind \in {"skip", "doctype", "text"} /\ lexeme = Doc(file).lexemes[next]
  BY <1>1, AtIs
<1>3. /\ cursor \in 0..Len(bytes) /\ IsDocument(Doc(file))
      /\ Built(Doc(file), next, sent, nodes, stack, cursor)
  BY <1>2, ReadingIs
<1>4. Doc(file).lexemes[next].kind = "text" => stack = <<>> \/ sent = Len(Doc(file).lexemes[next].text)
  BY <1>1, <1>2
<1>5. Built(Doc(file), next + 1, 0, nodes, stack, cursor)
  BY <1>2, <1>3, <1>4, BuiltQuiet
<1>6. Built(Doc(file), next', sent', nodes', stack', cursor') /\ cursor' \in 0..Len(bytes)
  BY <1>1, <1>3, <1>5
<1>7. UNCHANGED <<disk, file, input, bytes, encoding, trees, outcome>>
  BY <1>1
<1> QED
  BY <1>2, <1>6, <1>7, Advance

LEMMA TextStep == ASSUME LoadInv, onCharacters, disk' = disk PROVE LoadInv'
<1>1. At({"text"}) /\ stack # <<>>
      /\ UNCHANGED <<file, input, bytes, encoding, next, cursor, stack, trees, outcome>>
  BY DEF onCharacters
<1>2. /\ Reading /\ next \in 1..Len(Doc(file).lexemes) /\ OpenAt(Doc(file), next + 1) # Ill
      /\ Doc(file).lexemes[next].kind \in {"text"} /\ lexeme = Doc(file).lexemes[next]
  BY <1>1, AtIs
<1>3. /\ cursor \in 0..Len(bytes) /\ IsDocument(Doc(file))
      /\ Built(Doc(file), next, sent, nodes, stack, cursor)
  BY <1>2, ReadingIs
<1>4. PICK n \in (sent + 1)..Len(lexeme.text) :
         /\ nodes' = [nodes EXCEPT ![stack[Len(stack)]].text = @ \o SubSeq(lexeme.text, sent + 1, n)]
         /\ sent' = n
  BY DEF onCharacters
<1>5. n \in (sent + 1)..Len(Doc(file).lexemes[next].text) /\ nodes' = Told(nodes, stack, Doc(file).lexemes[next].text, sent, n)
  BY <1>2, <1>4 DEF Told
<1>6. Built(Doc(file), next, n, nodes', stack, cursor)
  BY <1>1, <1>2, <1>3, <1>5, BuiltText
<1>7. Built(Doc(file), next', sent', nodes', stack', cursor') /\ cursor' \in 0..Len(bytes)
  BY <1>1, <1>3, <1>4, <1>6
<1>8. UNCHANGED <<disk, file, input, bytes, encoding, trees, outcome>>
  BY <1>1
<1> QED
  BY <1>2, <1>7, <1>8, Advance

LEMMA StartStep == ASSUME LoadInv, onStartElement, disk' = disk PROVE LoadInv'
<1> DEFINE bounds == scanStartTag(cursor, lexeme.tag)
<1>1. At({"start", "empty"}) /\ sent = 0
  BY DEF onStartElement
<1>2. PICK b : b = bounds
  OBVIOUS
<1>3. /\ b = NoTag => Throw("refused")
      /\ b # NoTag => /\ cursor' = b.end
                      /\ nodes' = Append(nodes, Entered(lexeme, stack, b))
                      /\ stack' = Append(stack, Len(nodes) + 1)
                      /\ (lexeme.kind = "empty" => sent' = 1 /\ next' = next)
                      /\ (lexeme.kind # "empty" => sent' = 0 /\ next' = next + 1)
                      /\ UNCHANGED <<file, input, bytes, encoding, trees, outcome>>
  BY <1>2 DEF onStartElement, Entered, TopOf
<1> HIDE DEF bounds
<1>4. /\ Reading /\ next \in 1..Len(Doc(file).lexemes) /\ OpenAt(Doc(file), next + 1) # Ill
      /\ Doc(file).lexemes[next].kind \in {"start", "empty"} /\ lexeme = Doc(file).lexemes[next]
  BY <1>1, AtIs
<1>5. /\ cursor \in 0..Len(bytes) /\ Seen(Doc(file)) /\ input[file] \in DOMAIN Documents /\ file <= Len(disk)
      /\ Built(Doc(file), next, 0, nodes, stack, cursor)
  BY <1>1, <1>4, ReadingIs
<1>6. b = scanStartTag(cursor, Doc(file).lexemes[next].tag)
  BY <1>2, <1>4 DEF bounds
<1>7. CASE b = NoTag
  <2>1. ~(Plain(Doc(file)) /\ Scannable(Doc(file)))
    <3>1. PICK u : u = Append(nodes, Entered(Doc(file).lexemes[next], stack, b))
      OBVIOUS
    <3>2. PICK v : v = Append(stack, Len(nodes) + 1)
      OBVIOUS
    <3> QED BY <1>4, <1>5, <1>6, <1>7, <3>1, <3>2, BuiltStart
  <2> QED BY <1>3, <1>5, <1>7, <2>1, Stop
<1>8. CASE b # NoTag
  <2>1. nodes' = Append(nodes, Entered(Doc(file).lexemes[next], stack, b)) /\ stack' = Append(stack, Len(nodes) + 1)
    BY <1>3, <1>4, <1>8
  <2>2. /\ Doc(file).lexemes[next].kind = "start" => Built(Doc(file), next + 1, 0, nodes', stack', b.end)
        /\ Doc(file).lexemes[next].kind = "empty" => Built(Doc(file), next, 1, nodes', stack', b.end)
        /\ b.end \in 0..Len(bytes)
    BY <1>4, <1>5, <1>6, <1>8, <2>1, BuiltStart
  <2>3. Built(Doc(file), next', sent', nodes', stack', cursor') /\ cursor' \in 0..Len(bytes)
    <3>1. CASE lexeme.kind = "empty"
      BY <1>3, <1>4, <1>8, <2>2, <3>1
    <3>2. CASE lexeme.kind # "empty"
      <4>1. Doc(file).lexemes[next].kind = "start"
        BY <1>4, <3>2
      <4> QED BY <1>3, <1>4, <1>8, <2>2, <3>2, <4>1
    <3> QED BY <3>1, <3>2
  <2>4. UNCHANGED <<disk, file, input, bytes, encoding, trees, outcome>>
    BY <1>3, <1>8
  <2> QED BY <1>4, <2>3, <2>4, Advance
<1> QED
  BY <1>7, <1>8

LEMMA EndStep == ASSUME LoadInv, onEndElement, disk' = disk PROVE LoadInv'
<1>1. PICK w : w = stack[Len(stack)]
  OBVIOUS
<1>2. PICK e : e = scanEndTag(cursor, nodes[w].tag)
  OBVIOUS
<1>3. /\ At({"end", "empty"}) /\ (lexeme.kind = "empty" => sent = 1)
      /\ nodes[w].end = nodes[w].start /\ e = Fail => Throw("refused")
      /\ ~(nodes[w].end = nodes[w].start /\ e = Fail) =>
            /\ nodes[w].end # nodes[w].start => nodes' = nodes /\ cursor' = cursor
            /\ nodes[w].end = nodes[w].start => nodes' = [nodes EXCEPT ![w].end = e] /\ cursor' = e
            /\ stack' = Front(stack) /\ next' = next + 1 /\ sent' = 0
            /\ UNCHANGED <<file, input, bytes, encoding, trees, outcome>>
  BY <1>1, <1>2 DEF onEndElement
<1>4. /\ Reading /\ next \in 1..Len(Doc(file).lexemes) /\ OpenAt(Doc(file), next + 1) # Ill
      /\ Doc(file).lexemes[next].kind \in {"end", "empty"} /\ lexeme = Doc(file).lexemes[next]
  BY <1>3, AtIs
<1>5. /\ cursor \in 0..Len(bytes) /\ Seen(Doc(file)) /\ input[file] \in DOMAIN Documents /\ file <= Len(disk)
      /\ Built(Doc(file), next, sent, nodes, stack, cursor)
  BY <1>4, ReadingIs
<1>6. Doc(file).lexemes[next].kind = "empty" => sent = 1
  BY <1>3, <1>4
<1>7. CASE nodes[w].end = nodes[w].start /\ e = Fail
  <2>1. ~(Plain(Doc(file)) /\ Scannable(Doc(file)))
    <3>1. PICK u : u = [nodes EXCEPT ![w].end = e]
      OBVIOUS
    <3> QED BY <1>1, <1>2, <1>4, <1>5, <1>6, <1>7, <3>1, BuiltEnd
  <2> QED BY <1>3, <1>5, <1>7, <2>1, Stop
<1>8. CASE ~(nodes[w].end = nodes[w].start /\ e = Fail)
  <2>1. /\ nodes[w].end # nodes[w].start => nodes' = nodes /\ cursor' = cursor
        /\ nodes[w].end = nodes[w].start => nodes' = [nodes EXCEPT ![w].end = e] /\ cursor' = e
    BY <1>3, <1>8
  <2>2. nodes[w].end # nodes[w].start \/ e # Fail
    BY <1>8
  <2>3. Built(Doc(file), next + 1, 0, nodes', Front(stack), cursor') /\ cursor' \in 0..Len(bytes)
    BY <1>1, <1>2, <1>4, <1>5, <1>6, <2>1, <2>2, BuiltEnd
  <2>4. Built(Doc(file), next', sent', nodes', stack', cursor') /\ cursor' \in 0..Len(bytes)
    BY <1>3, <1>8, <2>3
  <2>5. UNCHANGED <<disk, file, input, bytes, encoding, trees, outcome>>
    BY <1>3, <1>8
  <2> QED BY <1>4, <2>4, <2>5, Advance
<1> QED
  BY <1>7, <1>8

LEMMA IllStep == ASSUME LoadInv, IllFormed, disk' = disk PROVE LoadInv'
<1>1. Reading /\ Throw("syntax")
      /\ (\/ next <= Len(lexemes) /\ Read[input[file]].open[next + 1] = Ill
          \/ next > Len(lexemes) /\ ~Read[input[file]].wellFormed)
  BY DEF IllFormed
<1>2. /\ file <= Len(disk) /\ input[file] \in DOMAIN Documents /\ IsDocument(Doc(file))
      /\ Built(Doc(file), next, sent, nodes, stack, cursor)
  BY <1>1, ReadingIs
<1>3. lexemes = Doc(file).lexemes /\ Read[input[file]].open = Opened(Doc(file).lexemes)
      /\ Read[input[file]].wellFormed = WellFormed(Doc(file))
  BY <1>2, ReadIs DEF lexemes, Doc
<1>4. ~WellFormed(Doc(file))
  <2>1. CASE next <= Len(lexemes) /\ Read[input[file]].open[next + 1] = Ill
    <3>1. PICK d : d = Doc(file)
      OBVIOUS
    <3>2. next \in 1..(Len(d.lexemes) + 1) /\ Len(d.lexemes) \in Nat
      <4>1. At0(d, next, sent)
        BY <1>2, <3>1 DEF Built, Shape
      <4> QED BY <1>2, <3>1, <4>1, DocumentTyped DEF At0
    <3>3. next + 1 \in 1..(Len(d.lexemes) + 1) /\ OpenAt(d, next + 1) = Ill
      BY <1>3, <2>1, <3>1, <3>2 DEF OpenAt
    <3> SUFFICES ASSUME WellFormed(d) PROVE FALSE
      BY <3>1
    <3>4. OpenAt(d, Len(d.lexemes) + 1) = <<>>
      BY DEF WellFormed, OpenAt
    <3>5. OpenAt(d, Len(d.lexemes) + 1) # Ill
      <4>1. <<>> # Ill
        <5>1. Len(<<>>) = 0 /\ Len(<<0>>) = 1
          OBVIOUS
        <5> QED BY <5>1 DEF Ill
      <4> QED BY <3>4, <4>1
    <3>6. Len(d.lexemes) + 1 \in 1..(Len(d.lexemes) + 1) /\ next + 1 \in 1..(Len(d.lexemes) + 1)
      BY <3>2, <3>3
    <3>7. OpenAt(d, next + 1) # Ill
      BY <1>2, <3>1, <3>5, <3>6, OpenBefore
    <3> QED BY <3>3, <3>7
  <2>2. CASE next > Len(lexemes) /\ ~Read[input[file]].wellFormed
    BY <1>3, <2>2
  <2> QED BY <1>1, <2>1, <2>2
<1> QED
  BY <1>1, <1>2, <1>4, Stop

LEMMA LoadedStep == ASSUME LoadInv, Loaded, disk' = disk PROVE LoadInv'
<1>1. Reading /\ next > Len(lexemes) /\ Read[input[file]].wellFormed
      /\ outcome' = [outcome EXCEPT ![file] = "loaded"] /\ trees' = [trees EXCEPT ![file] = nodes]
      /\ file' = file + 1 /\ UNCHANGED <<input, bytes, encoding, next, sent, cursor, stack, nodes>>
  BY DEF Loaded
<1>2. /\ file <= Len(disk) /\ file \in 1..Len(disk) /\ input[file] \in DOMAIN Documents /\ IsDocument(Doc(file))
      /\ Built(Doc(file), next, sent, nodes, stack, cursor)
  BY <1>1, ReadingIs
<1>3. PICK d : d = Doc(file)
  OBVIOUS
<1>4. WellFormed(d) /\ next > Len(d.lexemes) /\ IsDocument(d) /\ Shape(d, next, sent, nodes, stack)
  <2>1. lexemes = d.lexemes /\ Read[input[file]].wellFormed = WellFormed(d)
    BY <1>2, <1>3, ReadIs DEF lexemes, Doc
  <2>2. Shape(d, next, sent, nodes, stack)
    BY <1>2, <1>3 DEF Built
  <2> QED BY <1>1, <1>2, <1>3, <2>1, <2>2
<1>5. next = Len(d.lexemes) + 1 /\ next \in 1..(Len(d.lexemes) + 1) /\ ~(next <= Len(d.lexemes)) /\ sent = 0
  <2>1. At0(d, next, sent) /\ Len(d.lexemes) \in Nat
    BY <1>4, DocumentTyped DEF Shape
  <2>2. next = Len(d.lexemes) + 1 /\ next \in 1..(Len(d.lexemes) + 1) /\ ~(next <= Len(d.lexemes))
    BY <1>4, <2>1 DEF At0
  <2>3. sent = 0
    BY <2>1, <2>2 DEF At0, SentOK
  <2> QED BY <2>2, <2>3
<1>6. stack = <<>> /\ nodes \in Seq(Nodes)
  <2>1. stack \in Seq(Nat) /\ nodes \in Seq(Nodes)
    BY <1>4, StackIn
  <2>2. ~Half(d, next, sent)
    BY <1>5 DEF Half
  <2>3. Len(stack) = Len(OpenAt(d, next))
    BY <1>4, <2>2 DEF Shape, Stacked
  <2>4. OpenAt(d, next) = <<>>
    BY <1>4, <1>5 DEF WellFormed, OpenAt
  <2>5. Len(<<>>) = 0
    OBVIOUS
  <2>6. Len(stack) = 0
    BY <2>3, <2>4, <2>5
  <2> QED BY <2>1, <2>6
<1>7. Parsed(d, nodes)
  <2>1. Built(d, next, sent, nodes, stack, cursor)
    BY <1>2, <1>3
  <2>2. Plain(d) /\ Exactly(d, nodes)
    <3>1. PICK n : n = next
      OBVIOUS
    <3>2. IsDocument(d) /\ WellFormed(d) /\ n = Len(d.lexemes) + 1 /\ Built(d, n, sent, nodes, stack, cursor)
      BY <1>4, <1>5, <2>1, <3>1
    <3> QED BY <3>2, BuiltTree
  <2> QED BY <1>4, <1>5, <1>6, <2>2 DEF Parsed
<1>8. /\ outcome \in [1..Len(disk) -> Outcomes] /\ trees \in [1..Len(disk) -> Seq(Nodes)] /\ Len(disk) \in Nat
      /\ file \in Nat
  BY DEF LoadInv, Files
<1>9. outcome' \in [1..Len(disk) -> Outcomes] /\ outcome'[file] = "loaded"
      /\ \A f \in 1..Len(disk) : f # file => outcome'[f] = outcome[f]
  BY <1>1, <1>2, <1>8 DEF Outcomes
<1>10. trees' \in [1..Len(disk) -> Seq(Nodes)] /\ trees'[file] = nodes
       /\ \A f \in 1..Len(disk) : f # file => trees'[f] = trees[f]
  BY <1>1, <1>2, <1>6, <1>8
<1>11. Files'
  <2>1. file' \in 1..(Len(disk) + 1)
    BY <1>1, <1>2, <1>8
  <2> QED BY <1>1, <1>9, <1>10, <2>1 DEF LoadInv, Files
<1>12. Past'
  <2>1. ASSUME NEW f \in 1..Len(disk), f < file + 1
        PROVE  outcome'[f] = "loaded" /\ input[f] \in DOMAIN Documents /\ Parsed(Documents[input[f]], trees'[f])
    <3>1. CASE f = file
      <4>1. d = Documents[input[f]]
        BY <1>3, <3>1 DEF Doc
      <4> QED BY <1>2, <1>7, <1>9, <1>10, <3>1, <4>1
    <3>2. CASE f # file
      <4>1. f < file
        BY <1>8, <2>1, <3>2
      <4>2. outcome[f] = "loaded" /\ input[f] \in DOMAIN Documents /\ Parsed(Documents[input[f]], trees[f])
        BY <4>1 DEF LoadInv, Past, Doc
      <4>3. outcome'[f] = outcome[f] /\ trees'[f] = trees[f]
        BY <1>9, <1>10, <3>2
      <4> QED BY <4>2, <4>3
    <3> QED BY <3>1, <3>2
  <2> QED BY <1>1, <2>1 DEF Past, Doc
<1>13. \A f \in 1..Len(disk) : f > file => outcome'[f] = "unread"
  <2>1. ASSUME NEW f \in 1..Len(disk), f > file PROVE outcome'[f] = "unread"
    <3>1. outcome[f] = "unread"
      BY <2>1 DEF LoadInv, Future
    <3>2. f # file
      BY <1>8, <2>1
    <3> QED BY <1>9, <3>1, <3>2
  <2> QED BY <2>1
<1>14. Future'
  <2>1. ASSUME NEW f \in 1..Len(disk), f > file + 1 PROVE outcome'[f] = "unread"
    BY <1>8, <1>13, <2>1
  <2> QED BY <1>1, <2>1 DEF Future
<1>15. Present'
  <2>1. file' <= Len(disk) => outcome'[file'] = "unread"
    <3>1. file + 1 <= Len(disk) => file + 1 \in 1..Len(disk) /\ file + 1 > file
      BY <1>8
    <3> QED BY <1>1, <1>13, <3>1
  <2> QED BY <1>1, <2>1 DEF Present
<1> QED
  BY <1>11, <1>12, <1>14, <1>15 DEF LoadInv

LEMMA LoadStep == ASSUME LoadInv, Load, disk' = disk PROVE LoadInv'
BY RawStep, QuietStep, StartStep, TextStep, EndStep, IllStep, LoadedStep DEF Load

\* Nothing but the disk changes.
LEMMA LoadKept == ASSUME LoadInv, UNCHANGED loaderVars, disk' \in Seq(Inputs), Len(disk') = Len(disk) PROVE LoadInv'
<1> USE DEF loaderVars
<1>1. Files'
  BY DEF LoadInv, Files
<1>2. Past'
  BY DEF LoadInv, Past, Doc
<1>3. Future'
  BY DEF LoadInv, Future
<1>4. Present'
  <2>1. Doc(file)' = Doc(file) /\ (Seen(Doc(file)))' = Seen(Doc(file))
    BY DEF Doc, Seen
  <2> QED BY <2>1 DEF LoadInv, Present
<1> QED
  BY <1>1, <1>2, <1>3, <1>4 DEF LoadInv

--------------------------------------------------------------------------------
(* A set in increasing order *)

LEMMA OrderSteps ==
    ASSUME NEW S, NEW n \in Nat
    PROVE  \E U \in [0..n -> Seq(Nat)] :
              /\ U[0] = <<>> /\ InOrder(S, n) = U[n]
              /\ \A k \in 1..n : (k \in S => U[k] = Append(U[k - 1], k)) /\ (k \notin S => U[k] = U[k - 1])
<1> DEFINE V == Seq(Nat)
           After(y, k) == IF k \in S THEN Append(y, k) ELSE y
           G == [x \in (1..n) \X V |-> After(x[2], x[1])]
           Eq(f) == f = [k \in 0..n |-> IF k = 0 THEN <<>> ELSE IF k \in S THEN Append(f[k - 1], k) ELSE f[k - 1]]
<1>1. <<>> \in V
  OBVIOUS
<1>2. ASSUME NEW k \in 1..n, NEW y \in V PROVE After(y, k) \in V
  <2>1. k \in Nat
    OBVIOUS
  <2>2. Append(y, k) \in V
    BY <2>1
  <2> QED BY <2>2
<1>3. G \in [(1..n) \X V -> V]
  <2>1. ASSUME NEW x \in (1..n) \X V PROVE After(x[2], x[1]) \in V
    <3> HIDE DEF After, V
    <3> QED BY <1>2
  <2> HIDE DEF After, V
  <2> QED BY <2>1
<1>4. \A k \in 1..n, y \in V : G[<<k, y>>] = After(y, k)
  <2> HIDE DEF After, V
  <2> QED OBVIOUS
<1>5. PICK g \in [0..n -> V] : Chain0(g, n, <<>>, G)
  <2> HIDE DEF G, V
  <2> QED BY <1>1, <1>3, ChainFromZero
<1> HIDE DEF G
<1>6. \A k \in 1..n : k - 1 \in 0..n /\ k \in 0..n /\ k # 0
  OBVIOUS
<1>7. \A k \in 0..n : k = 0 \/ k \in 1..n
  OBVIOUS
<1>8. Eq(g)
  <2>1. g[0] = <<>>
    BY <1>5, Zenon DEF Chain0
  <2>2. ASSUME NEW k \in 1..n PROVE g[k] = After(g[k - 1], k)
    <3>1. g[k] = G[<<k, g[k - 1]>>]
      BY <1>5, Zenon DEF Chain0
    <3>2. g[k - 1] \in V
      <4> HIDE DEF V
      <4> QED BY <1>5, <1>6
    <3> HIDE DEF V, After
    <3> QED BY <1>4, <3>1, <3>2
  <2>3. \A k \in 0..n : g[k] = IF k = 0 THEN <<>> ELSE After(g[k - 1], k)
    <3> HIDE DEF After
    <3> QED BY <1>7, <2>1, <2>2
  <2> HIDE DEF V
  <2> QED BY <1>5, <2>3
<1>9. InOrder(S, n) = (CHOOSE f : Eq(f))[n]
  BY DEF InOrder
<1>10. PICK U : U = CHOOSE f : Eq(f)
  OBVIOUS
<1>11. Eq(U)
  <2> HIDE DEF Eq
  <2> QED BY <1>8, <1>10
<1>12. U = [k \in 0..n |-> U[k]] /\ U[0] = <<>> /\ \A k \in 1..n : U[k] = After(U[k - 1], k)
  <2>1. 0 \in 0..n
    OBVIOUS
  <2>2. U[0] = <<>>
    BY <1>11, <2>1
  <2>3. \A k \in 1..n : U[k] = After(U[k - 1], k)
    BY <1>6, <1>11
  <2>4. U = [k \in 0..n |-> U[k]]
    BY <1>11
  <2> QED BY <2>2, <2>3, <2>4
<1> HIDE DEF Eq
<1>13. Chain0(U, n, <<>>, G) /\ U \in [0..n -> V]
  <2>1. U[0] = <<>> /\ U = [k \in 0..n |-> U[k]]
    BY <1>12
  <2>3. ASSUME NEW k \in 1..n, U[k - 1] \in V PROVE U[k] = G[<<k, U[k - 1]>>] /\ U[k] \in V
    <3> HIDE DEF V, After
    <3>1. G[<<k, U[k - 1]>>] = After(U[k - 1], k)
      BY <1>4, <2>3
    <3>2. After(U[k - 1], k) \in V
      BY <1>2, <2>3
    <3> QED BY <1>12, <3>1, <3>2
  <2> DEFINE P == {k \in 0..n : U[k] \in V}
  <2>4. 0..n \subseteq P
    <3> HIDE DEF V
    <3>1. 0 \in P
      BY <1>1, <2>1
    <3>2. \A i \in 1..n : i - 1 \in P => i \in P
      BY <1>6, <2>3
    <3> HIDE DEF P
    <3> QED BY <3>1, <3>2, Turns
  <2>5. \A k \in 0..n : U[k] \in V
    BY <2>4
  <2> HIDE DEF V, P
  <2>6. U \in [0..n -> V]
    BY <2>1, <2>5
  <2>7. \A k \in 1..n : U[k] = G[<<k, U[k - 1]>>]
    BY <1>6, <2>3, <2>5
  <2> QED BY <2>1, <2>6, <2>7, Zenon DEF Chain0
<1>14. InOrder(S, n) = U[n]
  BY <1>9, <1>10
<1>15. \A k \in 1..n : (k \in S => U[k] = Append(U[k - 1], k)) /\ (k \notin S => U[k] = U[k - 1])
  BY <1>12
<1> QED
  BY <1>12, <1>13, <1>14, <1>15

\* The sequence is the set up to n, increasing.
Sorted(S, n, s) ==
    /\ s \in Seq(Nat) /\ Len(s) \in Nat
    /\ \A i \in 1..Len(s) : s[i] \in S /\ s[i] \in 1..n
    /\ \A i \in 1..Len(s), j \in 1..Len(s) : i < j => s[i] < s[j]
    /\ \A x \in 1..n : x \in S => \E i \in 1..Len(s) : s[i] = x

LEMMA InOrderIs == ASSUME NEW S, NEW n \in Nat PROVE Sorted(S, n, InOrder(S, n))
<1>1. PICK U \in [0..n -> Seq(Nat)] :
         /\ U[0] = <<>> /\ InOrder(S, n) = U[n]
         /\ \A k \in 1..n : (k \in S => U[k] = Append(U[k - 1], k)) /\ (k \notin S => U[k] = U[k - 1])
  BY OrderSteps
<1> DEFINE P == {k \in 0..n : Sorted(S, k, U[k])}
<1>2. 0 \in P
  <2>1. Len(<<>>) = 0 /\ <<>> \in Seq(Nat)
    OBVIOUS
  <2>2. Sorted(S, 0, <<>>)
    BY <2>1 DEF Sorted
  <2> QED BY <1>1, <2>2
<1>3. ASSUME NEW k \in 1..n, k - 1 \in P PROVE k \in P
  <2>1. PICK s : s = U[k - 1]
    OBVIOUS
  <2>2. PICK t : t = U[k]
    OBVIOUS
  <2>3. Sorted(S, k - 1, s)
    BY <1>3, <2>1
  <2>4. s \in Seq(Nat) /\ Len(s) \in Nat
    BY <2>3 DEF Sorted
  <2>5. CASE k \notin S
    <3>1. t = s
      BY <1>1, <2>1, <2>2, <2>5
    <3>2. \A x \in 1..k : x \in S => x \in 1..(k - 1)
      BY <2>5
    <3>3. \A i \in 1..Len(s) : s[i] \in 1..k
      BY <2>3 DEF Sorted
    <3>4. Sorted(S, k, t)
      BY <2>3, <3>1, <3>2, <3>3 DEF Sorted
    <3> QED BY <2>2, <3>4
  <2>6. CASE k \in S
    <3>1. t = Append(s, k)
      BY <1>1, <2>1, <2>2, <2>6
    <3>2. t \in Seq(Nat) /\ Len(t) = Len(s) + 1 /\ t[Len(s) + 1] = k /\ \A i \in 1..Len(s) : t[i] = s[i]
      BY <2>4, <3>1, AppendIs
    <3>3. \A i \in 1..Len(t) : i \in 1..Len(s) \/ i = Len(t)
      BY <2>4, <3>2
    <3>4. \A i \in 1..Len(s) : s[i] \in S /\ s[i] \in 1..(k - 1) /\ s[i] \in 1..k /\ s[i] < k
      BY <2>3 DEF Sorted
    <3>5. ASSUME NEW i \in 1..Len(t) PROVE t[i] \in S /\ t[i] \in 1..k
      <4>1. CASE i \in 1..Len(s)
        BY <3>2, <3>4, <4>1
      <4>2. CASE i = Len(t)
        <5>1. t[i] = k /\ k \in 1..k
          BY <3>2, <4>2
        <5> QED BY <2>6, <5>1
      <4> QED BY <3>3, <4>1, <4>2
    <3>6. ASSUME NEW i \in 1..Len(t), NEW j \in 1..Len(t), i < j PROVE t[i] < t[j]
      <4>1. i \in 1..Len(s)
        BY <2>4, <3>2, <3>6
      <4>2. CASE j \in 1..Len(s)
        <5>1. s[i] < s[j]
          BY <2>3, <3>6, <4>1, <4>2 DEF Sorted
        <5> QED BY <3>2, <4>1, <4>2, <5>1
      <4>3. CASE j = Len(t)
        BY <2>4, <3>2, <3>4, <4>1, <4>3
      <4> QED BY <3>3, <4>2, <4>3
    <3>7. ASSUME NEW x \in 1..k, x \in S PROVE \E i \in 1..Len(t) : t[i] = x
      <4>1. CASE x = k
        <5>1. Len(s) + 1 \in 1..Len(t)
          BY <2>4, <3>2
        <5> QED BY <3>2, <4>1, <5>1
      <4>2. CASE x # k
        <5>1. x \in 1..(k - 1)
          BY <4>2
        <5>2. PICK i \in 1..Len(s) : s[i] = x
          BY <2>3, <3>7, <5>1 DEF Sorted
        <5>3. i \in 1..Len(t) /\ t[i] = x
          BY <2>4, <3>2, <5>2
        <5> QED BY <5>3
      <4> QED BY <4>1, <4>2
    <3>8. Len(t) \in Nat
      BY <2>4, <3>2
    <3>9. Sorted(S, k, t)
      BY <3>2, <3>5, <3>6, <3>7, <3>8 DEF Sorted
    <3> QED BY <2>2, <3>9
  <2> QED BY <2>5, <2>6
<1>4. 0..n \subseteq P
  <2> HIDE DEF P
  <2> QED BY <1>2, <1>3, Turns
<1> QED
  BY <1>1, <1>4

--------------------------------------------------------------------------------
(* The invariant of the validator *)

LEMMA MinIn == ASSUME NEW S, S \subseteq Nat, S # {} PROVE Min(S) \in S /\ \A y \in S : Min(S) <= y
<1>1. PICK x \in S : \A y \in S : x <= y
  BY Least
<1>2. S \subseteq Int
  OBVIOUS
<1>3. Min(S) = x
  BY <1>1, <1>2, LeastIs
<1> QED
  BY <1>1, <1>3

LEMMA SpanForLineIn ==
    ASSUME NEW tree \in Seq(Nodes), NEW line
    PROVE  spanForLine(tree, line) \in 0..Len(tree)
<1> DEFINE higher == {i \in DOMAIN tree : tree[i].line >= line}
           i == Min(higher)
<1>1. DOMAIN tree = 1..Len(tree) /\ Len(tree) \in Nat
  OBVIOUS
<1>2. CASE higher = {}
  BY <1>1, <1>2 DEF spanForLine
<1>3. CASE higher # {}
  <2>1. higher \subseteq Nat /\ higher \subseteq 1..Len(tree)
    BY <1>1
  <2>2. i \in 1..Len(tree)
    <3> HIDE DEF higher
    <3> QED BY <1>3, <2>1, MinIn
  <2>3. spanForLine(tree, line) = i \/ (i # 1 /\ spanForLine(tree, line) = i - 1)
    BY <1>3, Zenon DEF spanForLine
  <2> HIDE DEF i
  <2> QED BY <1>1, <2>2, <2>3
<1> QED
  BY <1>2, <1>3

LEMMA SchemaLocated ==
    ASSUME LoadInv, NEW f \in 1..Len(disk), NEW x \in validateSchema(f)
    PROVE  x.file = f /\ x.location \in 0..Len(trees[f]) /\ x.code \in {"schema.unreadable", "schema.invalid"} /\ x.path = <<>>
<1>1. trees[f] \in Seq(Nodes) /\ Len(trees[f]) \in Nat
  <2>1. trees[f] \in Seq(Nodes)
    BY DEF LoadInv, Files
  <2> QED BY <2>1
<1>2. \/ x = Finding("schema.unreadable", f, 0, <<>>, 0)
      \/ \E k \in Rejected(disk[f]) :
            x = Finding("schema.invalid", f, spanForLine(trees[f], XmlLine(disk[f], k)), <<>>, k)
  BY Zenon DEF validateSchema
<1>3. CASE x = Finding("schema.unreadable", f, 0, <<>>, 0)
  BY <1>1, <1>3 DEF Finding
<1>4. ASSUME NEW k, x = Finding("schema.invalid", f, spanForLine(trees[f], XmlLine(disk[f], k)), <<>>, k)
      PROVE  x.file = f /\ x.location \in 0..Len(trees[f]) /\ x.code \in {"schema.unreadable", "schema.invalid"} /\ x.path = <<>>
  <2>1. spanForLine(trees[f], XmlLine(disk[f], k)) \in 0..Len(trees[f])
    BY <1>1, SpanForLineIn
  <2> QED BY <1>4, <2>1 DEF Finding
<1> QED
  BY <1>2, <1>3, <1>4

LEMMA MembersAre ==
    ASSUME LoadInv, NEW f \in 1..Len(disk), NEW i, NEW name
    PROVE  Sorted({j \in Children(f, i) : trees[f][j].tag # ShortName /\ NameOf(f, j) = name}, Len(trees[f]), Members(f, i, name))
<1>1. Len(trees[f]) \in Nat
  <2>1. trees[f] \in Seq(Nodes)
    BY DEF LoadInv, Files
  <2> QED BY <2>1
<1> QED
  BY <1>1, InOrderIs DEF Members

LEMMA TreeLocated ==
    ASSUME LoadInv, NEW x \in validateReferences \cup validateUniqueness
    PROVE  x.file \in 1..Len(disk) /\ x.location \in 0..Len(trees[x.file])
           /\ x.code \notin {"schema.unreadable", "schema.invalid"}
<1>1. DOMAIN trees = 1..Len(disk) /\ \A f \in 1..Len(disk) : DOMAIN trees[f] = 1..Len(trees[f]) /\ Len(trees[f]) \in Nat
  <2>1. trees \in [1..Len(disk) -> Seq(Nodes)]
    BY DEF LoadInv, Files
  <2> QED BY <2>1
<1>2. CASE x \in validateReferences
  <2>1. PICK f \in DOMAIN trees : x \in UNION {Judge(f, i) : i \in RefSites(f)}
    BY <1>2, Zenon DEF validateReferences
  <2>2. PICK i \in RefSites(f) : x \in Judge(f, i)
    BY <2>1, Zenon
  <2>3. i \in DOMAIN trees[f]
    BY <2>2 DEF RefSites
  <2>4. PICK path : path = trimText(trees[f][i].text)
    OBVIOUS
  <2>5. PICK code \in {"ref.dangling", "ref.dest_unrecognized", "ref.type_mismatch"} : x = Finding(code, f, i, path, 0)
    BY <2>2, <2>4, Zenon DEF Judge
  <2>6. x.file = f /\ x.location = i /\ x.code = code
    BY <2>5 DEF Finding
  <2> QED BY <1>1, <2>1, <2>3, <2>5, <2>6
<1>3. CASE x \in validateUniqueness
  <2>1. PICK f \in DOMAIN trees : x \in UNION {checkNode(f, i) : i \in Visited(f)}
    BY <1>3, Zenon DEF validateUniqueness
  <2>2. PICK i \in Visited(f) : x \in checkNode(f, i)
    BY <2>1, Zenon
  <2>3. PICK name : Len(Members(f, i, name)) > 1 /\ x = Finding("shortname.duplicate", f, Members(f, i, name)[2], nodePath(f)[i], 0)
    BY <2>2, Zenon DEF checkNode
  <2>4. f \in 1..Len(disk)
    BY <1>1, <2>1
  <2>5. PICK s : s = Members(f, i, name)
    OBVIOUS
  <2>6. PICK S : Sorted(S, Len(trees[f]), s)
    BY <2>4, <2>5, MembersAre
  <2>7. 2 \in 1..Len(s)
    BY <2>3, <2>5, <2>6 DEF Sorted
  <2>8. s[2] \in 1..Len(trees[f])
    BY <2>6, <2>7 DEF Sorted
  <2>9. x.file = f /\ x.location = s[2] /\ x.code = "shortname.duplicate"
    BY <2>3, <2>5 DEF Finding
  <2> QED BY <1>1, <2>4, <2>8, <2>9
<1> QED
  BY <1>2, <1>3

Stages ==
    /\ stage \in {"load", "schema", "done"} /\ judged \in 1..(Len(disk) + 1) /\ edits \in 0..MaxEdits
    /\ stage # "load" => file = Len(disk) + 1

Located ==
    /\ stage = "load" => findings = {}
    /\ \A x \in findings : x.file \in 1..Len(disk) /\ x.location \in 0..Len(trees[x.file])

ValidInv == LoadInv /\ Stages /\ Located

LEMMA ValidBegins == Init => ValidInv
<1> SUFFICES ASSUME Init PROVE ValidInv
  OBVIOUS
<1> USE DEF Init
<1>1. LoadInv
  BY LoadBegins
<1>2. Len(disk) \in Nat
  BY <1>1 DEF LoadInv, Files
<1>3. Stages
  BY <1>2, EditAssumption DEF Stages
<1>4. Located
  BY DEF Located
<1> QED
  BY <1>1, <1>3, <1>4 DEF ValidInv

\* While the disk keeps its length and the trees stay, so do the places.
LEMMA LoadedOnly == ASSUME LoadInv, Load PROVE file \in 1..Len(disk) /\ file \in Nat /\ Len(disk) \in Nat
<1>1. file \in 1..(Len(disk) + 1) /\ Len(disk) \in Nat
  BY DEF LoadInv, Files
<1>2. file <= Len(disk)
  <2>1. Reading => file <= Len(disk)
    BY DEF Reading
  <2>2. loadRawDocument => file <= Len(disk)
    BY DEF loadRawDocument
  <2> QED
    BY <2>1, <2>2, Zenon DEF Load, Quiet, onStartElement, onCharacters, onEndElement, IllFormed, Loaded, At
<1> QED
  BY <1>1, <1>2

LEMMA ValidKept == ASSUME ValidInv, [Next]_vars PROVE ValidInv'
<1>1. LoadInv /\ Stages /\ Located /\ disk \in Seq(Inputs) /\ Len(disk) \in Nat /\ DOMAIN disk = 1..Len(disk)
      /\ file \in 1..(Len(disk) + 1)
  <2>1. LoadInv /\ Stages /\ Located
    BY DEF ValidInv
  <2>2. disk \in Seq(Inputs) /\ file \in 1..(Len(disk) + 1)
    BY <2>1 DEF LoadInv, Files
  <2> QED BY <2>1, <2>2
<1>2. CASE Load /\ UNCHANGED <<disk, stage, judged, findings, edits>>
  <2>1. LoadInv'
    BY <1>1, <1>2, LoadStep
  <2>2. file \in 1..Len(disk)
    BY <1>1, <1>2, LoadedOnly
  <2>3. stage = "load" /\ findings = {}
    BY <1>1, <2>2 DEF Stages, Located
  <2>4. Stages'
    BY <1>1, <1>2, <2>3 DEF Stages
  <2>5. Located'
    BY <1>2, <2>3 DEF Located
  <2> QED BY <2>1, <2>4, <2>5 DEF ValidInv
<1>3. CASE Begin
  <2>1. UNCHANGED loaderVars /\ UNCHANGED <<disk, judged, findings, edits>> /\ stage = "load" /\ stage' = "schema" /\ file > Len(disk)
    BY <1>3 DEF Begin
  <2>2. LoadInv'
    <3>1. disk' \in Seq(Inputs) /\ Len(disk') = Len(disk)
      BY <1>1, <2>1
    <3> QED BY <1>1, <2>1, <3>1, LoadKept
  <2>3. file' = file
    BY <2>1 DEF loaderVars
  <2>4. Stages'
    BY <1>1, <2>1, <2>3 DEF Stages
  <2>5. Located'
    BY <1>1, <2>1 DEF Located
  <2> QED BY <2>2, <2>4, <2>5 DEF ValidInv
<1>4. CASE SchemaStep
  <2>1. UNCHANGED loaderVars /\ UNCHANGED <<disk, stage, edits>> /\ judged <= Len(disk) /\ judged' = judged + 1
        /\ findings' = findings \cup validateSchema(judged) /\ stage = "schema"
    BY <1>4 DEF SchemaStep
  <2>2. LoadInv'
    <3>1. disk' \in Seq(Inputs) /\ Len(disk') = Len(disk)
      BY <1>1, <2>1
    <3> QED BY <1>1, <2>1, <3>1, LoadKept
  <2>3. file' = file /\ trees' = trees
    BY <2>1 DEF loaderVars
  <2>4. judged \in 1..Len(disk)
    BY <1>1, <2>1 DEF Stages
  <2>5. Stages'
    BY <1>1, <2>1, <2>3, <2>4 DEF Stages
  <2>6. \A x \in validateSchema(judged) : x.file = judged /\ x.location \in 0..Len(trees[judged])
    BY <1>1, <2>4, SchemaLocated
  <2>7. \A x \in findings' : x.file \in 1..Len(disk) /\ x.location \in 0..Len(trees[x.file])
    BY <1>1, <2>1, <2>4, <2>6 DEF Located
  <2>8. Located'
    BY <2>1, <2>3, <2>7 DEF Located
  <2> QED BY <2>2, <2>5, <2>8 DEF ValidInv
<1>5. CASE TreeStep
  <2>1. UNCHANGED loaderVars /\ UNCHANGED <<disk, judged, edits>> /\ stage' = "done" /\ stage = "schema"
        /\ findings' = findings \cup validateReferences \cup validateUniqueness
    BY <1>5 DEF TreeStep
  <2>2. LoadInv'
    <3>1. disk' \in Seq(Inputs) /\ Len(disk') = Len(disk)
      BY <1>1, <2>1
    <3> QED BY <1>1, <2>1, <3>1, LoadKept
  <2>3. file' = file /\ trees' = trees
    BY <2>1 DEF loaderVars
  <2>4. Stages'
    BY <1>1, <2>1, <2>3 DEF Stages
  <2>5. \A x \in validateReferences \cup validateUniqueness : x.file \in 1..Len(disk) /\ x.location \in 0..Len(trees[x.file])
    BY <1>1, TreeLocated
  <2>6. \A x \in findings' : x.file \in 1..Len(disk) /\ x.location \in 0..Len(trees[x.file])
    BY <1>1, <2>1, <2>5 DEF Located
  <2>7. Located'
    BY <2>1, <2>3, <2>6 DEF Located
  <2> QED BY <2>2, <2>4, <2>7 DEF ValidInv
<1>6. CASE Edit
  <2>1. edits < MaxEdits /\ edits' = edits + 1 /\ UNCHANGED loaderVars /\ UNCHANGED <<stage, judged, findings>>
        /\ \E e \in Edits : e[1] \in DOMAIN disk /\ disk' = [disk EXCEPT ![e[1]] = e[2]]
    BY <1>6 DEF Edit
  <2>2. PICK e \in Edits : e[1] \in DOMAIN disk /\ disk' = [disk EXCEPT ![e[1]] = e[2]]
    BY <2>1
  <2>3. e[2] \in Inputs
    BY EditAssumption DEF Inputs
  <2>4. disk' \in Seq(Inputs) /\ Len(disk') = Len(disk)
    BY <1>1, <2>2, <2>3
  <2>5. LoadInv'
    BY <1>1, <2>1, <2>4, LoadKept
  <2>6. file' = file /\ trees' = trees
    BY <2>1 DEF loaderVars
  <2>7. Stages'
    BY <1>1, <2>1, <2>4, <2>6, EditAssumption DEF Stages
  <2>8. Located'
    BY <1>1, <2>1, <2>4, <2>6 DEF Located
  <2> QED BY <2>5, <2>7, <2>8 DEF ValidInv
<1>7. CASE UNCHANGED vars
  <2>1. UNCHANGED loaderVars /\ UNCHANGED <<disk, stage, judged, findings, edits>>
    BY <1>7 DEF vars
  <2>2. LoadInv'
    <3>1. disk' \in Seq(Inputs) /\ Len(disk') = Len(disk)
      BY <1>1, <2>1
    <3> QED BY <1>1, <2>1, <3>1, LoadKept
  <2>3. file' = file /\ trees' = trees
    BY <2>1 DEF loaderVars
  <2>4. Stages' /\ Located'
    BY <1>1, <2>1, <2>3 DEF Stages, Located
  <2> QED BY <2>2, <2>4 DEF ValidInv
<1> QED
  BY <1>2, <1>3, <1>4, <1>5, <1>6, <1>7 DEF Next

\* What the invariant says of types.
LEMMA ValidTyped == ASSUME ValidInv PROVE DocumentTypeOK
<1>1. LoadInv /\ Stages /\ Located /\ disk \in Seq(Inputs) /\ Len(disk) \in Nat /\ DOMAIN disk = 1..Len(disk)
  <2>1. LoadInv /\ Stages /\ Located
    BY DEF ValidInv
  <2>2. disk \in Seq(Inputs)
    BY <2>1 DEF LoadInv, Files
  <2> QED BY <2>1, <2>2
<1>2. disk \in [DOMAIN disk -> DOMAIN Documents \cup {Missing, Utf32}]
  BY <1>1 DEF Inputs
<1>3. /\ input \in [DOMAIN disk -> DOMAIN Documents \cup {Missing, Utf32}] /\ outcome \in [DOMAIN disk -> Outcomes]
      /\ file \in 1..(Len(disk) + 1) /\ encoding \in {"single", "le", "be"}
  BY <1>1 DEF LoadInv, Files, Inputs
<1>4. ASSUME Reading
      PROVE  next \in 1..(Len(lexemes) + 1) /\ sent \in Nat /\ cursor \in 0..Len(bytes) /\ ToSet(stack) \subseteq DOMAIN nodes
  <2>1. /\ Seen(Doc(file)) /\ cursor \in 0..Len(bytes) /\ Built(Doc(file), next, sent, nodes, stack, cursor)
        /\ input[file] \in DOMAIN Documents /\ IsDocument(Doc(file))
    BY <1>1, <1>4, ReadingIs
  <2>2. PICK d : d = Doc(file)
    OBVIOUS
  <2>3. lexemes = d.lexemes /\ IsDocument(d) /\ Shape(d, next, sent, nodes, stack)
    BY <2>1, <2>2 DEF lexemes, Doc, Built
  <2>4. At0(d, next, sent)
    BY <2>3 DEF Shape
  <2>5. next \in 1..(Len(d.lexemes) + 1)
    BY <2>4 DEF At0
  <2>6. sent \in Nat
    BY <2>4 DEF At0, SentOK
  <2>7. nodes \in Seq(Nodes) /\ stack \in Seq(Nat) /\ \A i \in 1..Len(stack) : stack[i] \in 1..Len(nodes)
    BY <2>3, StackIn
  <2>8. ToSet(stack) \subseteq DOMAIN nodes
    BY <2>7 DEF ToSet
  <2> QED BY <2>1, <2>3, <2>5, <2>6, <2>8
<1>5. stage \in {"load", "schema", "done"} /\ judged \in 1..(Len(disk) + 1) /\ edits \in 0..MaxEdits
  BY <1>1 DEF Stages
<1>6. \A x \in findings : x.location \in 0..Len(trees[x.file])
  BY <1>1 DEF Located
<1> QED
  BY <1>2, <1>3, <1>4, <1>5, <1>6 DEF DocumentTypeOK

\* Every variable of the loader and the validator has its type: the scanner stays inside
\* the file, the stack holds nodes, and a finding lies at a node of the tree or nowhere
\* (loader.cpp, validator_schema.cpp:36-77).
THEOREM DocumentTyping == Spec => []DocumentTypeOK
BY ValidBegins, ValidKept, ValidTyped, PTL DEF Spec

\* The two readers of a file, libxml2 for the elements and the scanner for their bytes, stay
\* in step to its end: what is loaded is the tree its lexemes say, or the load has thrown
\* (loader.cpp:248-251, loader.hpp:28-31 and 39-44), whatever the document and its encoding.
THEOREM LoadedTreesExact == Spec => []LoadsExactly
<1>1. ValidInv => LoadsExactly
  BY LoadExact DEF ValidInv
<1> QED
  BY <1>1, ValidBegins, ValidKept, PTL DEF Spec

--------------------------------------------------------------------------------
(* Where the findings come from *)

\* While nobody has written, what was read is what is there.
Unwritten ==
    edits = 0 => \A f \in 1..Len(disk) : f < file \/ outcome[f] = "reading" => input[f] = disk[f]

SchemaFinding(x) ==
    /\ x.origin \in Rejected(disk[x.file])
    /\ x.location = spanForLine(trees[x.file], XmlLine(disk[x.file], x.origin))

SchemaCodes == {"schema.unreadable", "schema.invalid"}
TreeFindings == validateReferences \cup validateUniqueness

Accounted ==
    /\ edits = 0 => \A x \in findings : x.code = "schema.invalid" => SchemaFinding(x)
    /\ \A x \in findings : x.code \in SchemaCodes => x.path = <<>>
    /\ stage # "done" => \A x \in findings : x.code \in SchemaCodes
    /\ stage = "done" => TreeFindings \subseteq findings /\ \A x \in findings : x.code \in SchemaCodes \/ x \in TreeFindings

JustInv == ValidInv /\ Unwritten /\ Accounted

LEMMA JustBegins == Init => JustInv
<1> SUFFICES ASSUME Init PROVE JustInv
  OBVIOUS
<1>1. ValidInv
  BY ValidBegins
<1>2. Unwritten
  <2>1. file = 1 /\ outcome = [f \in DOMAIN disk |-> "unread"] /\ DOMAIN disk = 1..Len(disk) /\ Len(disk) \in Nat
    <3>1. disk \in Seq(Inputs)
      BY <1>1 DEF ValidInv, LoadInv, Files
    <3> QED BY <3>1 DEF Init, LoaderInit
  <2> QED BY <2>1 DEF Unwritten
<1>3. Accounted
  BY DEF Init, Accounted
<1> QED
  BY <1>1, <1>2, <1>3 DEF JustInv

LEMMA SameTreeFindings == ASSUME trees' = trees PROVE TreeFindings' = TreeFindings
<1>1. validateReferences' = validateReferences
  <2>1. \A path : Claimant(path)' = Claimant(path)
    BY DEF Claimant, Entries, Visited, nodePath, NameOf, Children
  <2>2. \A f : RefSites(f)' = RefSites(f)
    BY DEF RefSites
  <2>3. \A f, i : Judge(f, i)' = Judge(f, i)
    BY <2>1 DEF Judge
  <2> QED BY <2>2, <2>3 DEF validateReferences
<1>2. validateUniqueness' = validateUniqueness
  BY DEF validateUniqueness, checkNode, Members, Visited, nodePath, NameOf, Children
<1> QED
  BY <1>1, <1>2 DEF TreeFindings

\* A step of the loader keeps the inputs of the files it has read.
LEMMA LoadUnwritten == ASSUME ValidInv, Unwritten, Load, UNCHANGED <<disk, edits>> PROVE Unwritten'
<1>1. file \in 1..Len(disk) /\ file \in Nat /\ Len(disk) \in Nat /\ input \in [1..Len(disk) -> Inputs]
      /\ outcome \in [1..Len(disk) -> Outcomes]
  <2>1. LoadInv
    BY DEF ValidInv
  <2>2. file \in 1..Len(disk) /\ file \in Nat /\ Len(disk) \in Nat
    BY <2>1, LoadedOnly
  <2> QED BY <2>1, <2>2 DEF LoadInv, Files
<1>2. CASE edits # 0
  BY <1>2 DEF Unwritten
<1>3. CASE edits = 0
  <2>1. \A f \in 1..Len(disk) : f < file \/ outcome[f] = "reading" => input[f] = disk[f]
    BY <1>3 DEF Unwritten
  <2>2. CASE file' = file /\ input' = input /\ (outcome' = outcome \/ \E what \in {"io", "syntax", "refused"} : outcome' = [outcome EXCEPT ![file] = what])
    <3>1. ASSUME NEW f \in 1..Len(disk), outcome'[f] = "reading" PROVE outcome[f] = "reading"
      BY <1>1, <2>2, <3>1
    <3> QED BY <2>1, <2>2, <3>1 DEF Unwritten
  <2>3. CASE loadRawDocument
    <3>1. CASE disk[file] = Missing
      <4>1. Throw("io")
        BY <2>3, <3>1 DEF loadRawDocument
      <4>2. file' = file /\ input' = input /\ outcome' = [outcome EXCEPT ![file] = "io"]
        BY <4>1 DEF Throw
      <4> QED BY <2>2, <4>2
    <3>2. CASE disk[file] # Missing
      <4>1. /\ file' = file /\ input' = [input EXCEPT ![file] = disk[file]]
            /\ \E what \in {"refused", "reading"} : outcome' = [outcome EXCEPT ![file] = what]
        BY <2>3, <3>2 DEF loadRawDocument
      <4>2. ASSUME NEW f \in 1..Len(disk), f < file \/ outcome'[f] = "reading" PROVE input'[f] = disk[f]
        <5>1. CASE f = file
          BY <1>1, <4>1, <5>1
        <5>2. CASE f # file
          <6>1. outcome'[f] = outcome[f] /\ input'[f] = input[f]
            BY <1>1, <4>1, <5>2
          <6> QED BY <2>1, <4>2, <6>1
        <5> QED BY <5>1, <5>2
      <4> QED BY <4>1, <4>2 DEF Unwritten
    <3> QED BY <3>1, <3>2
  <2>4. CASE Loaded
    <3>1. outcome[file] = "reading" /\ outcome' = [outcome EXCEPT ![file] = "loaded"] /\ file' = file + 1 /\ input' = input
      BY <2>4 DEF Loaded, Reading
    <3>2. ASSUME NEW f \in 1..Len(disk), f < file + 1 \/ outcome'[f] = "reading" PROVE input[f] = disk[f]
      <4>1. CASE f = file
        BY <2>1, <3>1, <4>1
      <4>2. CASE f # file
        <5>1. outcome'[f] = outcome[f]
          BY <1>1, <3>1, <4>2
        <5>2. f < file \/ outcome[f] = "reading"
          BY <1>1, <3>2, <4>2, <5>1
        <5> QED BY <2>1, <5>2
      <4> QED BY <4>1, <4>2
    <3> QED BY <3>1, <3>2 DEF Unwritten
  <2>5. CASE IllFormed
    <3>1. file' = file /\ input' = input /\ outcome' = [outcome EXCEPT ![file] = "syntax"]
      BY <2>5 DEF IllFormed, Throw
    <3> QED BY <2>2, <3>1
  <2>6. CASE Quiet \/ onCharacters
    <3>1. file' = file /\ input' = input /\ outcome' = outcome
      BY <2>6 DEF Quiet, onCharacters
    <3> QED BY <2>2, <3>1
  <2>7. CASE onStartElement
    <3>1. file' = file /\ input' = input /\ (outcome' = outcome \/ outcome' = [outcome EXCEPT ![file] = "refused"])
      BY <2>7, Zenon DEF onStartElement, Throw
    <3> QED BY <2>2, <3>1
  <2>8. CASE onEndElement
    <3>1. file' = file /\ input' = input /\ (outcome' = outcome \/ outcome' = [outcome EXCEPT ![file] = "refused"])
      BY <2>8, Zenon DEF onEndElement, Throw
    <3> QED BY <2>2, <3>1
  <2> QED BY <2>3, <2>4, <2>5, <2>6, <2>7, <2>8 DEF Load
<1> QED
  BY <1>2, <1>3

LEMMA JustKept == ASSUME JustInv, [Next]_vars PROVE JustInv'
<1>1. ValidInv /\ Unwritten /\ Accounted /\ ValidInv'
  BY ValidKept DEF JustInv
<1>2. LoadInv /\ Stages /\ Located /\ Len(disk) \in Nat /\ DOMAIN disk = 1..Len(disk) /\ file \in 1..(Len(disk) + 1)
  <2>1. LoadInv /\ Stages /\ Located
    BY <1>1 DEF ValidInv
  <2>2. disk \in Seq(Inputs) /\ file \in 1..(Len(disk) + 1)
    BY <2>1 DEF LoadInv, Files
  <2> QED BY <2>1, <2>2
<1>3. CASE Load /\ UNCHANGED <<disk, stage, judged, findings, edits>>
  <2>1. file \in 1..Len(disk)
    BY <1>2, <1>3, LoadedOnly
  <2>2. stage = "load" /\ findings = {}
    BY <1>2, <2>1 DEF Stages, Located
  <2>3. Unwritten'
    BY <1>1, <1>3, LoadUnwritten
  <2>4. Accounted'
    BY <1>3, <2>2 DEF Accounted
  <2> QED BY <1>1, <2>3, <2>4 DEF JustInv
<1>4. ASSUME UNCHANGED loaderVars, UNCHANGED <<disk, edits>> PROVE Unwritten'
  BY <1>1, <1>4 DEF Unwritten, loaderVars
<1>5. ASSUME trees' = trees, disk' = disk, NEW x, SchemaFinding(x) PROVE SchemaFinding(x)'
  <2>1. /\ x.origin \in Rejected(disk[x.file])
        /\ x.location = spanForLine(trees[x.file], XmlLine(disk[x.file], x.origin))
    BY <1>5 DEF SchemaFinding
  <2> QED BY <1>5, <2>1 DEF SchemaFinding
<1>6. CASE Begin
  <2>1. UNCHANGED loaderVars /\ UNCHANGED <<disk, judged, findings, edits>> /\ stage = "load" /\ stage' = "schema"
    BY <1>6 DEF Begin
  <2>2. findings = {}
    BY <1>2, <2>1 DEF Located
  <2>3. Accounted'
    BY <2>1, <2>2 DEF Accounted
  <2> QED BY <1>1, <1>4, <2>1, <2>3 DEF JustInv
<1>7. CASE SchemaStep
  <2>1. UNCHANGED loaderVars /\ UNCHANGED <<disk, stage, edits>> /\ stage = "schema" /\ judged <= Len(disk)
        /\ findings' = findings \cup validateSchema(judged)
    BY <1>7 DEF SchemaStep
  <2>2. trees' = trees /\ judged \in 1..Len(disk)
    BY <1>2, <2>1 DEF loaderVars, Stages
  <2>3. \A x \in validateSchema(judged) : x.code \in SchemaCodes
    BY <1>2, <2>2, SchemaLocated DEF SchemaCodes
  <2>4. \A x \in findings' : x.code \in SchemaCodes
    BY <1>1, <2>1, <2>3 DEF Accounted
  <2>5. ASSUME NEW x \in validateSchema(judged), x.code = "schema.invalid" PROVE SchemaFinding(x)
    <3>1. \/ x = Finding("schema.unreadable", judged, 0, <<>>, 0)
          \/ \E k \in Rejected(disk[judged]) :
                x = Finding("schema.invalid", judged, spanForLine(trees[judged], XmlLine(disk[judged], k)), <<>>, k)
      BY <2>5, Zenon DEF validateSchema
    <3>2. CASE x = Finding("schema.unreadable", judged, 0, <<>>, 0)
      BY <2>5, <3>2 DEF Finding
    <3>3. ASSUME NEW k \in Rejected(disk[judged]),
                 x = Finding("schema.invalid", judged, spanForLine(trees[judged], XmlLine(disk[judged], k)), <<>>, k)
          PROVE  SchemaFinding(x)
      <4>1. x.file = judged /\ x.origin = k /\ x.location = spanForLine(trees[judged], XmlLine(disk[judged], k))
        BY <3>3 DEF Finding
      <4> QED BY <3>3, <4>1 DEF SchemaFinding
    <3> QED BY <3>1, <3>2, <3>3
  <2>6. ASSUME edits = 0, NEW x \in findings', x.code = "schema.invalid" PROVE SchemaFinding(x)'
    <3>1. SchemaFinding(x)
      <4>1. CASE x \in findings
        BY <1>1, <2>6, <4>1 DEF Accounted
      <4>2. CASE x \in validateSchema(judged)
        BY <2>5, <2>6, <4>2
      <4> QED BY <2>1, <2>6, <4>1, <4>2
    <3> QED BY <1>5, <2>1, <2>2, <3>1
  <2>7. \A x \in findings' : x.path = <<>>
    <3>1. \A x \in validateSchema(judged) : x.path = <<>>
      BY <1>2, <2>2, SchemaLocated
    <3>2. \A x \in findings : x.path = <<>>
      BY <1>1, <2>1 DEF Accounted
    <3> QED BY <2>1, <3>1, <3>2
  <2>8. Accounted'
    BY <2>1, <2>4, <2>6, <2>7 DEF Accounted, SchemaCodes
  <2> QED BY <1>1, <1>4, <2>1, <2>8 DEF JustInv
<1>8. CASE TreeStep
  <2>1. UNCHANGED loaderVars /\ UNCHANGED <<disk, judged, edits>> /\ stage' = "done" /\ stage = "schema"
        /\ findings' = findings \cup validateReferences \cup validateUniqueness
    BY <1>8 DEF TreeStep
  <2>2. trees' = trees
    BY <2>1 DEF loaderVars
  <2>3. TreeFindings' = TreeFindings
    BY <2>2, SameTreeFindings
  <2>4. findings' = findings \cup TreeFindings
    BY <2>1 DEF TreeFindings
  <2>5. \A x \in TreeFindings : x.code \notin SchemaCodes
    BY <1>2, TreeLocated DEF TreeFindings, SchemaCodes
  <2>6. ASSUME edits = 0, NEW x \in findings', x.code = "schema.invalid" PROVE SchemaFinding(x)'
    <3>1. x \in findings
      BY <2>4, <2>5, <2>6 DEF SchemaCodes
    <3>2. SchemaFinding(x)
      BY <1>1, <2>6, <3>1 DEF Accounted
    <3> QED BY <1>5, <2>1, <2>2, <3>2
  <2>7. \A x \in findings' : x.code \in SchemaCodes \/ x \in TreeFindings
    BY <1>1, <2>1, <2>4 DEF Accounted
  <2>8. ASSUME NEW x \in findings', x.code \in SchemaCodes PROVE x.path = <<>>
    BY <1>1, <2>4, <2>5, <2>8 DEF Accounted
  <2>9. Accounted'
    BY <2>1, <2>3, <2>4, <2>6, <2>7, <2>8 DEF Accounted, SchemaCodes
  <2> QED BY <1>1, <1>4, <2>1, <2>9 DEF JustInv
<1>9. CASE Edit
  <2>1. edits' = edits + 1 /\ UNCHANGED loaderVars /\ UNCHANGED <<stage, judged, findings>> /\ stage # "done"
    BY <1>9 DEF Edit
  <2>2. edits \in Nat /\ edits' # 0
    BY <1>2, <2>1, EditAssumption DEF Stages
  <2>3. Unwritten'
    BY <2>2 DEF Unwritten
  <2>4. Accounted'
    BY <1>1, <2>1, <2>2 DEF Accounted, SchemaCodes
  <2> QED BY <1>1, <2>3, <2>4 DEF JustInv
<1>10. CASE UNCHANGED vars
  <2>1. UNCHANGED loaderVars /\ UNCHANGED <<disk, stage, judged, findings, edits>>
    BY <1>10 DEF vars
  <2>2. trees' = trees
    BY <2>1 DEF loaderVars
  <2>3. TreeFindings' = TreeFindings
    BY <2>2, SameTreeFindings
  <2>4. ASSUME edits = 0, NEW x \in findings', x.code = "schema.invalid" PROVE SchemaFinding(x)'
    <3>1. SchemaFinding(x)
      BY <1>1, <2>1, <2>4 DEF Accounted
    <3> QED BY <1>5, <2>1, <2>2, <3>1
  <2>5. Accounted'
    BY <1>1, <2>1, <2>3, <2>4 DEF Accounted, SchemaCodes
  <2> QED BY <1>1, <1>4, <2>1, <2>5 DEF JustInv
<1> QED
  BY <1>3, <1>6, <1>7, <1>8, <1>9, <1>10 DEF Next

--------------------------------------------------------------------------------
(* The rows of the tree that the lexemes define *)

LEMMA TreeRow ==
    ASSUME NEW d, IsDocument(d), NEW k \in Tags(d)
    PROVE  /\ Len(Tree(d)) = NodeOf(d, Len(d.lexemes)) /\ DOMAIN Tree(d) = 1..NodeOf(d, Len(d.lexemes))
           /\ NodeOf(d, k) \in 1..Len(Tree(d))
           /\ Tree(d)[NodeOf(d, k)].start = Offset(d, k)
           /\ Tree(d)[NodeOf(d, k)].end = Offset(d, LastOf(d, Opened(d.lexemes), k) + 1)
           /\ Tree(d)[NodeOf(d, k)].line = LineOf(d, k)
           /\ Tree(d)[NodeOf(d, k)].parent = NodeOf(d, ParentOf(Opened(d.lexemes), k))
<1> DEFINE rec(j) == [tag |-> d.lexemes[j].tag, dest |-> d.lexemes[j].dest, text |-> TextOf(d, Opened(d.lexemes), j),
                      parent |-> NodeOf(d, ParentOf(Opened(d.lexemes), j)), start |-> Offset(d, j),
                      end |-> Offset(d, LastOf(d, Opened(d.lexemes), j) + 1), line |-> LineOf(d, j)]
           at(i) == CHOOSE j \in Tags(d) : NodeOf(d, j) = i
           m == NodeOf(d, Len(d.lexemes))
<1>1. Len(d.lexemes) \in 0..Len(d.lexemes) /\ m \in Nat /\ NodeOf(d, k) \in 1..m
  BY DocumentTyped, NodeTag
<1>2. Cardinality(Tags(d)) = m
  BY TagCount
<1>3. Tree(d) = [i \in 1..m |-> rec(at(i))]
  BY <1>2, Zenon DEF Tree
<1>4. at(NodeOf(d, k)) = k
  <2>1. at(NodeOf(d, k)) \in Tags(d) /\ NodeOf(d, at(NodeOf(d, k))) = NodeOf(d, k)
    OBVIOUS
  <2> QED BY <2>1, NodeOnly
<1> HIDE DEF m, at
<1>5. Tree(d)[NodeOf(d, k)] = rec(k)
  <2>1. Tree(d)[NodeOf(d, k)] = rec(at(NodeOf(d, k)))
    <3> HIDE DEF rec
    <3> QED BY <1>1, <1>3
  <2> QED BY <1>4, <2>1
<1>6. Len(Tree(d)) = m /\ DOMAIN Tree(d) = 1..m
  <2> HIDE DEF rec
  <2> QED BY <1>1, <1>3
<1>7. PICK r : r = rec(k)
  OBVIOUS
<1>8. /\ r.start = Offset(d, k) /\ r.end = Offset(d, LastOf(d, Opened(d.lexemes), k) + 1)
      /\ r.line = LineOf(d, k) /\ r.parent = NodeOf(d, ParentOf(Opened(d.lexemes), k))
  BY <1>7
<1> HIDE DEF rec
<1> QED
  BY <1>1, <1>5, <1>6, <1>7, <1>8 DEF m

LEMMA LineOrder ==
    ASSUME NEW d, IsDocument(d), NEW j \in 1..(Len(d.lexemes) + 1), NEW k \in 1..j
    PROVE  LineOf(d, k) \in Nat /\ LineOf(d, j) \in Nat /\ LineOf(d, k) <= LineOf(d, j)
<1> DEFINE S(i) == {u \in 1..Place(d)[i] : Units(d)[u] = "\n"}
<1>1. Place(d)[k] \in Nat /\ Place(d)[j] \in Nat /\ Place(d)[k] <= Place(d)[j]
  BY PlaceGrows
<1>2. IsFiniteSet(1..Place(d)[j]) /\ S(j) \subseteq 1..Place(d)[j] /\ S(k) \subseteq S(j)
  <2>1. IsFiniteSet(1..Place(d)[j])
    <3>1. PICK c \in Nat : c = Place(d)[j]
      BY <1>1
    <3>2. IsFiniteSet(1..c)
      BY FS_Interval
    <3> QED BY <3>1, <3>2
  <2>2. 1..Place(d)[k] \subseteq 1..Place(d)[j]
    BY <1>1
  <2> QED BY <2>1, <2>2
<1>3. IsFiniteSet(S(j))
  <2> HIDE DEF S
  <2> QED BY <1>2, FS_Subset
<1>4. IsFiniteSet(S(k)) /\ Cardinality(S(k)) <= Cardinality(S(j))
  <2> HIDE DEF S
  <2> QED BY <1>2, <1>3, FS_Subset
<1>5. Cardinality(S(j)) \in Nat /\ Cardinality(S(k)) \in Nat
  <2> HIDE DEF S
  <2> QED BY <1>3, <1>4, FS_CardinalityType
<1>6. LineOf(d, k) = 1 + Cardinality(S(k)) /\ LineOf(d, j) = 1 + Cardinality(S(j))
  BY DEF LineOf
<1> HIDE DEF S
<1> QED
  BY <1>4, <1>5, <1>6

\* A line of the tree leads to its first node there.
LEMMA SpanFound ==
    ASSUME NEW d, IsDocument(d), NEW k \in Tags(d)
    PROVE  LET i == spanForLine(Tree(d), LineOf(d, k)) IN Tree(d)[i].line = LineOf(d, k) /\ i <= NodeOf(d, k)
<1> DEFINE t == Tree(d)
           n == NodeOf(d, k)
           y == LineOf(d, k)
           higher == {i \in DOMAIN t : t[i].line >= y}
           i == Min(higher)
<1>1. DOMAIN t = 1..Len(t) /\ n \in 1..Len(t) /\ t[n].line = y /\ Len(t) \in Nat
  <2>1. NodeOf(d, Len(d.lexemes)) \in Nat
    BY NodeTag
  <2> QED BY <2>1, TreeRow
<1>2. k \in 1..Len(d.lexemes) /\ Len(d.lexemes) \in Nat /\ y \in Nat
  <2>1. k \in 1..Len(d.lexemes) /\ Len(d.lexemes) \in Nat
    BY NodeTag, DocumentTyped
  <2>2. k \in 1..(Len(d.lexemes) + 1) /\ k \in 1..k
    BY <2>1
  <2> QED BY <2>1, <2>2, LineOrder
<1>3. n \in higher /\ higher \subseteq Nat
  BY <1>1, <1>2
<1>4. i \in higher /\ i <= n
  <2> HIDE DEF higher
  <2> QED BY <1>3, MinIn
<1>5. t[i].line = y
  <2>1. i \in 1..Len(t) /\ t[i].line >= y
    BY <1>1, <1>4
  <2>2. PICK j \in Tags(d) : NodeOf(d, j) = i
    <3>1. i \in 1..NodeOf(d, Len(d.lexemes))
      BY <2>1, TreeRow
    <3>2. Len(d.lexemes) \in 0..Len(d.lexemes)
      BY <1>2
    <3> QED BY <3>1, <3>2, NodeHas
  <2>3. t[i].line = LineOf(d, j) /\ j \in 1..Len(d.lexemes)
    BY <2>2, TreeRow, NodeTag
  <2>4. j <= k
    <3> SUFFICES ASSUME j > k PROVE FALSE
      BY <1>2, <2>3
    <3>1. k \in 0..Len(d.lexemes) /\ j \in k..Len(d.lexemes) /\ k < j /\ IsTag(d.lexemes[j])
      BY <1>2, <2>2, <2>3 DEF Tags
    <3>2. NodeOf(d, k) < NodeOf(d, j)
      BY <3>1, NodeOrder
    <3> QED BY <1>1, <1>4, <2>1, <2>2, <3>2
  <2>5. LineOf(d, j) <= LineOf(d, k) /\ LineOf(d, j) \in Nat
    <3>1. j \in 1..k /\ k \in 1..(Len(d.lexemes) + 1)
      BY <1>2, <2>3, <2>4
    <3> QED BY <3>1, LineOrder
  <2> QED BY <1>2, <2>1, <2>3, <2>5
<1>6. spanForLine(t, y) = i
  <2>1. higher # {}
    BY <1>3
  <2> QED BY <1>5, <2>1, Zenon DEF spanForLine
<1> HIDE DEF t, n, y, i
<1>7. Tree(d) = t /\ NodeOf(d, k) = n /\ LineOf(d, k) = y
  BY DEF t, n, y
<1> QED
  BY <1>4, <1>5, <1>6, <1>7

LEMMA SchemaJust == ASSUME JustInv PROVE SchemaOnItsLine
<1> SUFFICES ASSUME NEW x \in findings, x.code = "schema.invalid", edits = 0, input[x.file] \in Scannables,
                    XmlLine(input[x.file], x.origin) = LineOf(Documents[input[x.file]], x.origin)
             PROVE  /\ trees[x.file][x.location].line = LineOf(Documents[input[x.file]], x.origin)
                    /\ x.location <= NodeOf(Documents[input[x.file]], x.origin)
  BY DEF SchemaOnItsLine
<1>1. PICK f : f = x.file
  OBVIOUS
<1>2. PICK k : k = x.origin
  OBVIOUS
<1>3. LoadInv /\ Stages /\ Located /\ Unwritten /\ Accounted
  BY DEF JustInv, ValidInv
<1>4. f \in 1..Len(disk) /\ f < file /\ Len(disk) \in Nat
  <2>1. f \in 1..Len(disk) /\ stage # "load"
    BY <1>1, <1>3 DEF Located
  <2>2. file = Len(disk) + 1
    BY <1>3, <2>1 DEF Stages
  <2>3. disk \in Seq(Inputs)
    BY <1>3 DEF LoadInv, Files
  <2>4. Len(disk) \in Nat
    BY <2>3
  <2> QED BY <2>1, <2>2, <2>4
<1>5. input[f] = disk[f] /\ input[f] \in DOMAIN Documents /\ Parsed(Doc(f), trees[f])
  BY <1>3, <1>4 DEF Unwritten, LoadInv, Past
<1>6. PICK d : d = Documents[input[f]]
  OBVIOUS
<1>7. IsDocument(d) /\ Scannable(d) /\ trees[f] = Tree(d)
  <2>1. IsDocument(d)
    BY <1>5, <1>6, DocumentIs
  <2>2. Scannable(d)
    BY <1>1, <1>5, <1>6, ExpectedIs
  <2> QED BY <1>5, <1>6, <2>1, <2>2 DEF Parsed, Exactly, Doc
<1>8. SchemaFinding(x)
  BY <1>3 DEF Accounted
<1>9. k \in Tags(d) /\ x.location = spanForLine(Tree(d), LineOf(d, k))
  <2>1. k \in Rejected(input[f]) /\ x.location = spanForLine(trees[f], XmlLine(input[f], k))
    BY <1>1, <1>2, <1>5, <1>8 DEF SchemaFinding
  <2>2. k \in Tags(d)
    BY <1>6, <2>1 DEF Rejected
  <2> QED BY <1>1, <1>2, <1>6, <1>7, <2>1, <2>2
<1>10. Tree(d)[x.location].line = LineOf(d, k) /\ x.location <= NodeOf(d, k)
  BY <1>7, <1>9, SpanFound
<1> QED
  BY <1>1, <1>2, <1>6, <1>7, <1>10

--------------------------------------------------------------------------------
(* Parents *)

\* The lexeme around a tag.
LEMMA Enclosing ==
    ASSUME NEW d, IsDocument(d), NEW k \in Tags(d), OpenAt(d, k + 1) # Ill
    PROVE  /\ OpenAt(d, k) = <<>> => ParentOf(Opened(d.lexemes), k) = 0 /\ NodeOf(d, k) = 1
           /\ OpenAt(d, k) # <<>> => LET p == ParentOf(Opened(d.lexemes), k) IN
                 /\ p = OpenAt(d, k)[Len(OpenAt(d, k))] /\ Len(OpenAt(d, k)) >= 1
                 /\ p \in Tags(d) /\ p < k /\ d.lexemes[p].kind = "start" /\ NodeOf(d, p) < NodeOf(d, k)
<1>1. k \in 1..Len(d.lexemes) /\ Len(d.lexemes) \in Nat /\ IsTag(d.lexemes[k]) /\ DOMAIN d.lexemes = 1..Len(d.lexemes)
      /\ k \in 1..(Len(d.lexemes) + 1)
  BY NodeTag, DocumentTyped
<1>2. OpenAt(d, k) # Ill /\ Legal(d.lexemes, k, OpenAt(d, k))
  BY <1>1, OpenOn
<1>3. PICK s : s = OpenAt(d, k)
  OBVIOUS
<1>4. s \in Seq(Nat) /\ Len(s) \in Nat
  BY <1>1, <1>3, OpenTyped
<1>5. CASE s = <<>>
  <2>1. ParentOf(Opened(d.lexemes), k) = 0
    BY <1>3, <1>5 DEF ParentOf, OpenAt
  <2>2. \A j \in 1..(k - 1) : ~IsTag(d.lexemes[j])
    <3> DEFINE rooted == \E j \in 1..(k - 1) : IsTag(d.lexemes[j])
    <3>1. Legal(d.lexemes, k, s)
      BY <1>2, <1>3
    <3>2. d.lexemes[k].kind # "end" /\ d.lexemes[k].kind # "text" /\ d.lexemes[k].kind # "skip" /\ d.lexemes[k].kind # "doctype"
      BY <1>1 DEF IsTag
    <3>3. Legal(d.lexemes, k, s) = (s # <<>> \/ ~rooted)
      BY <1>1, <3>2, Zenon DEF Legal
    <3>4. ~rooted
      BY <1>5, <3>1, <3>3
    <3> QED BY <3>4
  <2>3. NodeOf(d, k - 1) = 0
    <3> SUFFICES ASSUME NodeOf(d, k - 1) # 0 PROVE FALSE
      OBVIOUS
    <3>1. k - 1 \in 0..Len(d.lexemes)
      BY <1>1
    <3>2. 1 \in 1..NodeOf(d, k - 1)
      BY NodeTag
    <3>3. PICK j \in Tags(d) : j <= k - 1 /\ NodeOf(d, j) = 1
      BY <3>1, <3>2, NodeHas
    <3>4. j \in 1..(k - 1) /\ IsTag(d.lexemes[j])
      BY <1>1, <3>3, NodeTag
    <3> QED BY <2>2, <3>4
  <2>4. NodeOf(d, k) = 1
    BY <2>3, NodeTag
  <2> QED BY <1>3, <1>5, <2>1, <2>4
<1>6. CASE s # <<>>
  <2>1. Len(s) >= 1
    BY <1>4, <1>6
  <2>2. PICK p : p = s[Len(s)]
    OBVIOUS
  <2>3. ParentOf(Opened(d.lexemes), k) = p
    BY <1>3, <1>6, <2>2 DEF ParentOf, OpenAt, Last
  <2>4. Nest(d, k)
    BY <1>1, <1>2, OpenNest
  <2>5. p \in 1..(k - 1) /\ d.lexemes[p].kind = "start"
    BY <1>3, <1>4, <2>1, <2>2, <2>4 DEF Nest
  <2>6. p \in Tags(d) /\ p < k
    BY <1>1, <2>5 DEF Tags, IsTag
  <2>7. NodeOf(d, p) < NodeOf(d, k)
    <3>1. p \in 0..Len(d.lexemes) /\ k \in p..Len(d.lexemes) /\ p < k
      BY <1>1, <2>5
    <3> QED BY <1>1, <3>1, NodeOrder
  <2> QED BY <1>3, <1>6, <2>1, <2>2, <2>3, <2>5, <2>6, <2>7
<1> QED
  BY <1>5, <1>6

\* The parent of a node comes before it, and the root alone has none.
Parents(t) ==
    /\ t \in Seq(Nodes) /\ Len(t) \in Nat /\ DOMAIN t = 1..Len(t)
    /\ \A n \in 1..Len(t) : t[n].parent \in 0..(n - 1) /\ (t[n].parent = 0 <=> n = 1)

\* In a well-formed document nothing is ill.
LEMMA NeverIll ==
    ASSUME NEW d, IsDocument(d), WellFormed(d), NEW k \in 1..(Len(d.lexemes) + 1)
    PROVE  OpenAt(d, k) # Ill
<1>1. Len(d.lexemes) + 1 \in 1..(Len(d.lexemes) + 1) /\ k \in 1..(Len(d.lexemes) + 1)
  BY DocumentTyped
<1>2. OpenAt(d, Len(d.lexemes) + 1) # Ill
  <2>1. OpenAt(d, Len(d.lexemes) + 1) = <<>>
    BY DEF WellFormed, OpenAt
  <2>2. Len(<<>>) = 0 /\ Len(<<0>>) = 1
    OBVIOUS
  <2> QED BY <2>1, <2>2 DEF Ill
<1> QED
  BY <1>1, <1>2, OpenBefore

LEMMA ParsedParents == ASSUME NEW d, IsDocument(d), NEW t, Parsed(d, t) PROVE Parents(t)
<1>1. WellFormed(d) /\ At0(d, Len(d.lexemes) + 1, 0) /\ Had(d, Len(d.lexemes) + 1, 0, t)
      /\ Rows(d, Len(d.lexemes) + 1, 0, t)
  BY DEF Parsed, Shape
<1>2. Len(d.lexemes) \in Nat /\ Len(d.lexemes) \in 0..Len(d.lexemes) /\ Len(d.lexemes) + 1 - 1 = Len(d.lexemes)
  BY DocumentTyped
<1>3. t \in Seq(Nodes) /\ Len(t) = NodeOf(d, Len(d.lexemes))
  <2>1. ~Half(d, Len(d.lexemes) + 1, 0)
    BY <1>2 DEF Half
  <2> QED BY <1>1, <1>2, <2>1 DEF Had
<1>4. Len(t) \in Nat /\ DOMAIN t = 1..Len(t)
  BY <1>3
<1>5. ASSUME NEW n \in 1..Len(t) PROVE t[n].parent \in 0..(n - 1) /\ (t[n].parent = 0 <=> n = 1)
  <2>1. PICK k \in Tags(d) : NodeOf(d, k) = n
    BY <1>2, <1>3, NodeHas
  <2>2. PICK r : r = t[NodeOf(d, k)]
    OBVIOUS
  <2>3. NodeOf(d, k) <= Len(t)
    BY <1>4, <2>1
  <2>4. Row(d, r, k, TextSo(d, k, Len(d.lexemes) + 1, 0))
    BY <1>1, <2>2, <2>3 DEF Rows
  <2>5. t[n].parent = NodeOf(d, ParentOf(Opened(d.lexemes), k))
    BY <2>1, <2>2, <2>4 DEF Row
  <2>6. OpenAt(d, k + 1) # Ill
    <3>1. k + 1 \in 1..(Len(d.lexemes) + 1)
      BY <1>2, NodeTag
    <3> QED BY <1>1, <3>1, NeverIll
  <2>7. CASE OpenAt(d, k) = <<>>
    <3>1. ParentOf(Opened(d.lexemes), k) = 0 /\ n = 1
      BY <2>1, <2>6, <2>7, Enclosing
    <3>2. NodeOf(d, 0) = 0
      <4>1. 0 \in 0..Len(d.lexemes)
        BY <1>2
      <4> QED BY <4>1, NodeSteps
    <3> QED BY <2>5, <3>1, <3>2
  <2>8. CASE OpenAt(d, k) # <<>>
    <3>1. PICK p : p = ParentOf(Opened(d.lexemes), k)
      OBVIOUS
    <3>2. p \in Tags(d) /\ NodeOf(d, p) < NodeOf(d, k)
      BY <2>6, <2>8, <3>1, Enclosing
    <3>3. NodeOf(d, p) \in Nat /\ NodeOf(d, p) >= 1
      BY <3>2, NodeNumber
    <3> QED BY <2>1, <2>5, <3>1, <3>2, <3>3
  <2> QED BY <2>7, <2>8
<1> QED
  BY <1>3, <1>4, <1>5 DEF Parents

\* What is known of a file once all are loaded.
LEMMA DoneFiles ==
    ASSUME JustInv, stage # "load", NEW f \in DOMAIN trees
    PROVE  /\ f \in 1..Len(disk) /\ input[f] \in DOMAIN Documents /\ IsDocument(Doc(f))
           /\ Parsed(Doc(f), trees[f]) /\ Parents(trees[f])
<1>1. LoadInv /\ Stages
  BY DEF JustInv, ValidInv
<1>2. file = Len(disk) + 1 /\ disk \in Seq(Inputs) /\ trees \in [1..Len(disk) -> Seq(Nodes)]
  BY <1>1 DEF Stages, LoadInv, Files
<1>3. f \in 1..Len(disk) /\ f < file
  BY <1>2
<1>4. input[f] \in DOMAIN Documents /\ Parsed(Doc(f), trees[f])
  BY <1>1, <1>3 DEF LoadInv, Past
<1>5. IsDocument(Doc(f))
  BY <1>4, DocumentIs DEF Doc
<1>6. Parents(trees[f])
  <2>1. PICK d : d = Doc(f)
    OBVIOUS
  <2> QED BY <1>4, <1>5, <2>1, ParsedParents
<1> QED
  BY <1>3, <1>4, <1>5, <1>6

--------------------------------------------------------------------------------
(* Down the tree *)

\* A function on the nodes of a tree, each value from that of the parent.
Descends(g, n, up, b, G) == g[0] = b /\ \A i \in 1..n : g[i] = G[<<i, g[up[i]]>>]

LEMMA Descent ==
    ASSUME NEW n \in Nat, NEW up, \A i \in 1..n : up[i] \in 0..(i - 1),
           NEW V, NEW b \in V, NEW G \in [(1..n) \X V -> V]
    PROVE  \E g \in [0..n -> V] : Descends(g, n, up, b, G)
<1> DEFINE Solved(i) == \E g \in [0..i -> V] : Descends(g, i, up, b, G)
           P == {i \in 0..n : Solved(i)}
<1>1. 0 \in P
  <2>1. [k \in 0..0 |-> b] \in [0..0 -> V] /\ Descends([k \in 0..0 |-> b], 0, up, b, G)
    BY DEF Descends
  <2> QED BY <2>1
<1>2. ASSUME NEW i \in 1..n, Solved(i - 1) PROVE Solved(i)
  <2>1. PICK g \in [0..(i - 1) -> V] : Descends(g, i - 1, up, b, G)
    BY <1>2
  <2>2. g[0] = b /\ \A k \in 1..(i - 1) : g[k] = G[<<k, g[up[k]]>>]
    BY <2>1 DEF Descends
  <2> DEFINE h == [k \in 0..i |-> IF k = i THEN G[<<i, g[up[i]]>>] ELSE g[k]]
  <2>3. up[i] \in 0..(i - 1) /\ g[up[i]] \in V /\ G[<<i, g[up[i]]>>] \in V
    OBVIOUS
  <2>4. h \in [0..i -> V]
    <3>1. ASSUME NEW k \in 0..i PROVE (IF k = i THEN G[<<i, g[up[i]]>>] ELSE g[k]) \in V
      <4>1. k # i => k \in 0..(i - 1)
        OBVIOUS
      <4> QED BY <2>3, <4>1
    <3> QED BY <3>1
  <2>5. \A k \in 0..(i - 1) : h[k] = g[k]
    OBVIOUS
  <2>6. i \in 0..i /\ h[i] = G[<<i, g[up[i]]>>]
    OBVIOUS
  <2> HIDE DEF h
  <2>7. h[0] = b
    <3>1. 0 \in 0..(i - 1)
      OBVIOUS
    <3> QED BY <2>2, <2>5, <3>1
  <2>8. ASSUME NEW k \in 1..i PROVE h[k] = G[<<k, h[up[k]]>>]
    <3>1. CASE k = i
      BY <2>3, <2>5, <2>6, <3>1
    <3>2. CASE k # i
      <4>1. k \in 1..(i - 1) /\ k \in 0..(i - 1) /\ k \in 1..n
        BY <3>2
      <4>2. up[k] \in 0..(i - 1)
        BY <4>1
      <4> QED BY <2>2, <2>5, <4>1, <4>2
    <3> QED BY <3>1, <3>2
  <2>9. Descends(h, i, up, b, G)
    BY <2>7, <2>8 DEF Descends
  <2> QED BY <2>4, <2>9
<1>3. Solved(n)
  <2> HIDE DEF Solved
  <2>1. \A i \in 1..n : i - 1 \in P => i \in P
    BY <1>2
  <2>2. 0..n \subseteq P
    <3> HIDE DEF P
    <3> QED BY <1>1, <2>1, Turns
  <2> QED BY <2>2
<1> QED
  BY <1>3

\* What both walks visit.
LEMMA VisitedIs ==
    ASSUME NEW f, Parents(trees[f])
    PROVE  /\ Visited(f) \subseteq 1..Len(trees[f])
           /\ \A i \in 1..Len(trees[f]) :
                 i \in Visited(f) <=> i = 1 \/ (trees[f][i].tag # ShortName /\ trees[f][i].parent \in Visited(f))
<1>0. PICK t : t = trees[f]
  OBVIOUS
<1>1. t \in Seq(Nodes) /\ Len(t) \in Nat /\ DOMAIN t = 1..Len(t)
      /\ \A i \in 1..Len(t) : t[i].parent \in 0..(i - 1) /\ (t[i].parent = 0 <=> i = 1)
  BY <1>0 DEF Parents
<1>2. PICK n : n = Len(t)
  OBVIOUS
<1> DEFINE up == [i \in 1..n |-> t[i].parent]
           G == [x \in (1..n) \X {0, 1} |-> IF x[1] = 1 \/ (t[x[1]].tag # ShortName /\ x[2] = 1) THEN 1 ELSE 0]
           Eq(v) == v = [i \in 1..n |-> i = 1 \/ (t[i].tag # ShortName /\ v[t[i].parent])]
<1>3. G \in [(1..n) \X {0, 1} -> {0, 1}] /\ \A i \in 1..n : up[i] \in 0..(i - 1) /\ up[i] = t[i].parent
  BY <1>1, <1>2
<1>4. PICK g \in [0..n -> {0, 1}] : Descends(g, n, up, 0, G)
  <2>1. n \in Nat /\ 0 \in {0, 1}
    BY <1>1, <1>2
  <2> HIDE DEF up, G
  <2> QED BY <1>3, <2>1, Descent
<1> DEFINE h == [i \in 1..n |-> g[i] = 1]
<1>5. ASSUME NEW i \in 1..n
      PROVE  (g[i] = 1) = (i = 1 \/ (t[i].tag # ShortName /\ h[t[i].parent]))
  <2>1. g[i] = G[<<i, g[up[i]]>>] /\ g[up[i]] \in {0, 1} /\ up[i] = t[i].parent
    <3> HIDE DEF G, h
    <3>1. up[i] \in 0..(i - 1) /\ up[i] = t[i].parent /\ n \in Nat
      BY <1>1, <1>2, <1>3
    <3> HIDE DEF up
    <3>2. up[i] \in 0..n
      BY <3>1
    <3> QED BY <1>4, <3>1, <3>2 DEF Descends
  <2>2. g[i] = IF i = 1 \/ (t[i].tag # ShortName /\ g[t[i].parent] = 1) THEN 1 ELSE 0
    <3> HIDE DEF up
    <3> QED BY <2>1
  <2>3. i # 1 => h[t[i].parent] = (g[t[i].parent] = 1)
    <3>1. i # 1 => t[i].parent \in 1..n
      BY <1>1, <1>2
    <3> QED BY <3>1
  <2> HIDE DEF h
  <2>4. (g[i] = 1) = (i = 1 \/ (t[i].tag # ShortName /\ g[t[i].parent] = 1))
    BY <2>2
  <2>5. CASE i = 1
    BY <2>4, <2>5, Zenon
  <2>6. CASE i # 1
    BY <2>3, <2>4, <2>6, Zenon
  <2> QED BY <2>5, <2>6
<1>6. Eq(h)
  <2>1. \A i \in 1..n : h[i] = (i = 1 \/ (t[i].tag # ShortName /\ h[t[i].parent]))
    <3>1. \A i \in 1..n : h[i] = (g[i] = 1)
      OBVIOUS
    <3> HIDE DEF h
    <3> QED BY <1>5, <3>1
  <2>2. h = [i \in 1..n |-> h[i]]
    OBVIOUS
  <2> HIDE DEF h
  <2> QED BY <2>1, <2>2
<1> DEFINE w == CHOOSE v : Eq(v)
<1>7. Eq(w)
  <2> HIDE DEF Eq, h
  <2> QED BY <1>6
<1>8. Visited(f) = {i \in 1..n : w[i]}
  <2> DEFINE u == trees[f]
             m == Len(u)
             z == CHOOSE v : v = [i \in 1..m |-> i = 1 \/ (u[i].tag # ShortName /\ v[u[i].parent])]
  <2>a. Visited(f) = {i \in DOMAIN u : z[i]}
    BY Zenon DEF Visited
  <2>b. u = t /\ m = n
    BY <1>0, <1>2
  <2> HIDE DEF u, m
  <2>c. z = w
    BY <2>b
  <2> HIDE DEF z
  <2>1. Visited(f) = {i \in DOMAIN t : w[i]}
    <3> HIDE DEF w
    <3> QED BY <2>a, <2>b, <2>c
  <2> HIDE DEF w
  <2> QED BY <1>1, <1>2, <2>1
<1>9. \A i \in 1..n : w[i] = (i = 1 \/ (t[i].tag # ShortName /\ w[t[i].parent]))
  <2> HIDE DEF w
  <2> QED BY <1>7
<1> HIDE DEF w
<1>10. ASSUME NEW i \in 1..n
       PROVE i \in Visited(f) <=> i = 1 \/ (t[i].tag # ShortName /\ t[i].parent \in Visited(f))
  <2>1. i # 1 => t[i].parent \in 1..n
    BY <1>1, <1>2
  <2>2. i \in Visited(f) <=> w[i]
    BY <1>8
  <2>3. i # 1 => (t[i].parent \in Visited(f) <=> w[t[i].parent])
    BY <1>8, <2>1
  <2> QED BY <1>9, <2>2, <2>3, Zenon
<1> QED
  BY <1>0, <1>2, <1>8, <1>10

\* The units of a path.
Signals == STRING \cup {"/"}

LEMMA SignalsOf == Seq(STRING) \subseteq Seq(Signals) /\ <<"/">> \in Seq(Signals)
<1>1. STRING \subseteq Signals /\ "/" \in Signals
  BY DEF Signals
<1>2. PICK c : c = "/"
  OBVIOUS
<1>3. c \in Signals
  BY <1>1, <1>2
<1>4. <<c>> \in Seq(Signals)
  <2> HIDE DEF Signals
  <2> QED BY <1>3
<1>5. ASSUME NEW s \in Seq(STRING) PROVE s \in Seq(Signals)
  <2>1. Len(s) \in Nat /\ s \in [1..Len(s) -> STRING]
    OBVIOUS
  <2>2. s \in [1..Len(s) -> Signals]
    BY <1>1, <2>1
  <2> HIDE DEF Signals
  <2> QED BY <2>1, <2>2
<1> QED
  BY <1>2, <1>4, <1>5

\* The path of a node.
LEMMA PathIs ==
    ASSUME NEW f, Parents(trees[f]), \A i \in 1..Len(trees[f]) : NameOf(f, i) \in Seq(Signals)
    PROVE  /\ nodePath(f) \in [0..Len(trees[f]) -> Seq(Signals)]
           /\ nodePath(f)[0] = <<>>
           /\ \A i \in 1..Len(trees[f]) : nodePath(f)[i] =
                 IF NameOf(f, i) = <<>> THEN nodePath(f)[trees[f][i].parent]
                 ELSE nodePath(f)[trees[f][i].parent] \o <<"/">> \o NameOf(f, i)
<1>0. PICK t : t = trees[f]
  OBVIOUS
<1>1. t \in Seq(Nodes) /\ Len(t) \in Nat /\ \A i \in 1..Len(t) : t[i].parent \in 0..(i - 1)
  BY <1>0 DEF Parents
<1>2. PICK n : n = Len(t)
  OBVIOUS
<1>a. PICK name : name = [i \in 1..n |-> NameOf(f, i)]
  OBVIOUS
<1>b. \A i \in 1..n : name[i] = NameOf(f, i) /\ name[i] \in Seq(Signals)
  BY <1>0, <1>2, <1>a
<1> DEFINE up == [i \in 1..n |-> t[i].parent]
           G == [x \in (1..n) \X Seq(Signals) |-> IF name[x[1]] = <<>> THEN x[2] ELSE x[2] \o <<"/">> \o name[x[1]]]
           Eq(p) == p = [i \in 0..n |->
                IF i = 0 THEN <<>>
                ELSE IF NameOf(f, i) = <<>> THEN p[t[i].parent] ELSE p[t[i].parent] \o <<"/">> \o NameOf(f, i)]
<1>3. G \in [(1..n) \X Seq(Signals) -> Seq(Signals)] /\ \A i \in 1..n : up[i] \in 0..(i - 1) /\ up[i] = t[i].parent
  <2>1. ASSUME NEW i \in 1..n, NEW y \in Seq(Signals)
        PROVE  (IF name[i] = <<>> THEN y ELSE y \o <<"/">> \o name[i]) \in Seq(Signals)
    <3>1. name[i] \in Seq(Signals) /\ <<"/">> \in Seq(Signals)
      BY <1>b, SignalsOf
    <3>2. y \o <<"/">> \in Seq(Signals)
      BY <3>1
    <3> QED BY <3>1, <3>2
  <2> QED BY <1>1, <1>2, <2>1
<1>4. PICK g \in [0..n -> Seq(Signals)] : Descends(g, n, up, <<>>, G)
  <2>1. n \in Nat /\ <<>> \in Seq(Signals)
    BY <1>1, <1>2
  <2> HIDE DEF up, G
  <2> QED BY <1>3, <2>1, Descent
<1>5. \A i \in 1..n : t[i].parent \in 0..n /\ i # 0
  BY <1>1, <1>2
<1>6. ASSUME NEW i \in 1..n
      PROVE  g[i] = IF NameOf(f, i) = <<>> THEN g[t[i].parent] ELSE g[t[i].parent] \o <<"/">> \o NameOf(f, i)
  <2>1. g[i] = G[<<i, g[up[i]]>>] /\ g[up[i]] \in Seq(Signals) /\ up[i] = t[i].parent
    <3> HIDE DEF G
    <3>1. up[i] = t[i].parent /\ up[i] \in 0..n
      BY <1>3, <1>5
    <3> HIDE DEF up
    <3> QED BY <1>4, <3>1 DEF Descends
  <2>2. G[<<i, g[up[i]]>>] = IF name[i] = <<>> THEN g[up[i]] ELSE g[up[i]] \o <<"/">> \o name[i]
    <3> HIDE DEF up
    <3> QED BY <2>1
  <2> HIDE DEF G, up
  <2> QED BY <1>b, <2>1, <2>2
<1>7. Eq(g)
  <2>1. g = [i \in 0..n |-> g[i]] /\ g[0] = <<>>
    BY <1>4 DEF Descends
  <2>2. ASSUME NEW i \in 0..n PROVE g[i] = IF i = 0 THEN <<>>
                ELSE IF NameOf(f, i) = <<>> THEN g[t[i].parent] ELSE g[t[i].parent] \o <<"/">> \o NameOf(f, i)
    <3>1. i = 0 \/ (i # 0 /\ i \in 1..n)
      BY <1>1, <1>2
    <3> QED BY <1>6, <2>1, <3>1
  <2> QED BY <2>1, <2>2, Zenon
<1> DEFINE w == CHOOSE p : Eq(p)
<1>8. nodePath(f) = w
  BY <1>0, <1>2, Zenon DEF nodePath
<1>9. Eq(w)
  <2> HIDE DEF Eq
  <2> QED BY <1>7
<1>10. w = [i \in 0..n |->
                IF i = 0 THEN <<>>
                ELSE IF NameOf(f, i) = <<>> THEN w[t[i].parent] ELSE w[t[i].parent] \o <<"/">> \o NameOf(f, i)]
  BY <1>9
<1> HIDE DEF w
<1>11. w[0] = <<>> /\ DOMAIN w = 0..n
  <2>1. 0 \in 0..n
    BY <1>1, <1>2
  <2> QED BY <1>10, <2>1
<1>12. \A i \in 1..n : w[i] = IF NameOf(f, i) = <<>> THEN w[t[i].parent] ELSE w[t[i].parent] \o <<"/">> \o NameOf(f, i)
  <2>1. \A i \in 1..n : i \in 0..n /\ i # 0
    OBVIOUS
  <2> QED BY <1>10, <2>1
<1> DEFINE P == {i \in 0..n : \A j \in 0..i : w[j] \in Seq(Signals)}
<1>13. 0 \in P
  <2>1. n \in Nat /\ \A j \in 0..0 : j = 0
    BY <1>1, <1>2
  <2>2. <<>> \in Seq(Signals)
    OBVIOUS
  <2>3. \A j \in 0..0 : w[j] \in Seq(Signals)
    BY <1>11, <2>1, <2>2
  <2>4. 0 \in 0..n
    BY <2>1
  <2> QED BY <2>3, <2>4
<1>14. ASSUME NEW i \in 1..n, i - 1 \in P PROVE i \in P
  <2>1. t[i].parent \in 0..(i - 1) /\ w[t[i].parent] \in Seq(Signals)
    BY <1>1, <1>2, <1>14
  <2>2. w[i] \in Seq(Signals)
    <3>1. NameOf(f, i) \in Seq(Signals) /\ <<"/">> \in Seq(Signals)
      BY <1>b, SignalsOf
    <3>2. PICK y : y = w[t[i].parent]
      OBVIOUS
    <3>3. y \o <<"/">> \in Seq(Signals)
      BY <2>1, <3>1, <3>2
    <3>4. w[i] = IF NameOf(f, i) = <<>> THEN y ELSE y \o <<"/">> \o NameOf(f, i)
      BY <1>12, <3>2
    <3> QED BY <2>1, <3>1, <3>2, <3>3, <3>4
  <2>3. \A j \in 0..i : j \in 0..(i - 1) \/ j = i
    OBVIOUS
  <2> QED BY <1>14, <2>2, <2>3
<1>15. n \in P
  <2>1. n \in Nat
    BY <1>1, <1>2
  <2> HIDE DEF P
  <2>2. 0..n \subseteq P
    BY <1>13, <1>14, <2>1, Turns
  <2> QED BY <2>1, <2>2
<1>16. w \in [0..n -> Seq(Signals)]
  BY <1>10, <1>15
<1> QED
  BY <1>0, <1>2, <1>8, <1>11, <1>12, <1>16

--------------------------------------------------------------------------------
(* Duplicate siblings *)

LEMMA PairCount == ASSUME NEW S, IsFiniteSet(S), NEW a \in S, NEW b \in S, a # b PROVE Cardinality(S) > 1
<1>1. Cardinality(S) \in Nat
  BY FS_CardinalityType
<1>2. Cardinality(S) # 0
  BY FS_EmptySet
<1>3. Cardinality(S) # 1
  <2> SUFFICES ASSUME Cardinality(S) = 1 PROVE FALSE
    OBVIOUS
  <2>1. \E x : S = {x}
    BY FS_Singleton
  <2> QED BY <2>1
<1> QED
  BY <1>1, <1>2, <1>3

\* The second of a set in order, when there is one.
LEMMA SecondIs ==
    ASSUME NEW S, NEW n \in Nat, S \subseteq 1..n, S # {}, NEW s, Sorted(S, n, s)
    PROVE  /\ Len(s) \in Nat /\ (Len(s) > 1 <=> Cardinality(S) > 1)
           /\ Len(s) > 1 => s[2] \in S /\ Cardinality({j \in S : j < s[2]}) = 1
<1>1. /\ Len(s) \in Nat
      /\ \A i \in 1..Len(s) : s[i] \in S /\ s[i] \in 1..n
      /\ \A i \in 1..Len(s), j \in 1..Len(s) : i < j => s[i] < s[j]
      /\ \A x \in 1..n : x \in S => \E i \in 1..Len(s) : s[i] = x
  BY DEF Sorted
<1>2. IsFiniteSet(S)
  <2>1. 1 \in Int /\ n \in Int
    OBVIOUS
  <2>2. IsFiniteSet(1..n)
    BY <2>1, FS_Interval
  <2> QED BY <2>2, FS_Subset
<1>3. Len(s) >= 1
  <2>1. PICK x \in 1..n : x \in S
    OBVIOUS
  <2> QED BY <1>1, <2>1
<1>4. CASE Len(s) = 1
  <2>1. S = {s[1]}
    <3>1. 1 \in 1..Len(s) /\ \A i \in 1..Len(s) : i = 1
      BY <1>4
    <3>2. ASSUME NEW x \in S PROVE x = s[1]
      <4>1. x \in 1..n
        OBVIOUS
      <4>2. PICK i \in 1..Len(s) : s[i] = x
        BY <1>1, <4>1
      <4> QED BY <3>1, <4>2
    <3>3. s[1] \in S
      BY <1>1, <3>1
    <3> QED BY <3>2, <3>3
  <2>2. Cardinality(S) = 1
    BY <2>1, FS_Singleton
  <2> QED BY <1>4, <2>2
<1>5. CASE Len(s) > 1
  <2>1. 1 \in 1..Len(s) /\ 2 \in 1..Len(s)
    BY <1>1, <1>5
  <2>2. s[1] \in S /\ s[2] \in S /\ s[1] < s[2] /\ s[1] # s[2] /\ s[1] \in Nat /\ s[2] \in Nat
    <3>1. s[1] \in S /\ s[2] \in S /\ s[1] \in 1..n /\ s[2] \in 1..n
      BY <1>1, <2>1
    <3>2. s[1] < s[2]
      BY <1>1, <2>1
    <3> QED BY <3>1, <3>2
  <2>3. Cardinality(S) > 1
    BY <1>2, <2>2, PairCount
  <2>4. {j \in S : j < s[2]} = {s[1]}
    <3>1. ASSUME NEW x \in S, x < s[2] PROVE x = s[1]
      <4>1. x \in 1..n
        OBVIOUS
      <4>2. PICK i \in 1..Len(s) : s[i] = x
        BY <1>1, <4>1
      <4>3. ~(2 < i) /\ i # 2
        <5>1. 2 < i => s[2] < s[i]
          BY <1>1, <2>1
        <5> QED BY <2>2, <3>1, <4>1, <4>2, <5>1
      <4>4. i = 1
        BY <1>1, <4>3
      <4> QED BY <4>2, <4>4
    <3> QED BY <2>2, <3>1
  <2>5. Cardinality({j \in S : j < s[2]}) = 1
    BY <2>4, FS_Singleton
  <2> QED BY <1>1, <1>5, <2>2, <2>3, <2>5
<1>6. Len(s) = 1 \/ Len(s) > 1
  <2>1. PICK m : m = Len(s)
    OBVIOUS
  <2>2. m \in Nat /\ m >= 1
    BY <1>1, <1>3, <2>1
  <2>3. m = 1 \/ m > 1
    BY <2>2
  <2> QED BY <2>1, <2>3
<1> QED
  BY <1>1, <1>4, <1>5, <1>6

Twin(f, p, name) == {j \in Children(f, p) : trees[f][j].tag # ShortName /\ NameOf(f, j) = name}
Duplicate(f, p, name) == Finding("shortname.duplicate", f, Members(f, p, name)[2], nodePath(f)[p], 0)

\* Where a finding about a duplicate comes from.
LEMMA DuplicateFrom ==
    ASSUME NEW x \in TreeFindings, x.code = "shortname.duplicate"
    PROVE  \E f \in DOMAIN trees : \E p \in Visited(f) : \E name :
              Len(Members(f, p, name)) > 1 /\ x = Duplicate(f, p, name)
<1>1. x \notin validateReferences
  <2> SUFFICES ASSUME x \in validateReferences PROVE FALSE
    OBVIOUS
  <2>1. PICK f \in DOMAIN trees : x \in UNION {Judge(f, i) : i \in RefSites(f)}
    BY Zenon DEF validateReferences
  <2>2. PICK i \in RefSites(f) : x \in Judge(f, i)
    BY <2>1, Zenon
  <2>4. PICK path : path = trimText(trees[f][i].text)
    OBVIOUS
  <2>5. PICK code \in {"ref.dangling", "ref.dest_unrecognized", "ref.type_mismatch"} : x = Finding(code, f, i, path, 0)
    BY <2>2, <2>4, Zenon DEF Judge
  <2>6. x.code = code
    BY <2>5 DEF Finding
  <2> QED BY <2>5, <2>6
<1>2. x \in validateUniqueness
  BY <1>1 DEF TreeFindings
<1>3. PICK f \in DOMAIN trees : x \in UNION {checkNode(f, i) : i \in Visited(f)}
  BY <1>2, Zenon DEF validateUniqueness
<1>4. PICK p \in Visited(f) : x \in checkNode(f, p)
  BY <1>3, Zenon
<1>5. PICK name : Len(Members(f, p, name)) > 1 /\ x = Duplicate(f, p, name)
  BY <1>4, Zenon DEF checkNode, Duplicate
<1> QED
  BY <1>3, <1>4, <1>5

LEMMA DuplicateThere ==
    ASSUME NEW f \in DOMAIN trees, NEW p \in Visited(f), NEW i \in Children(f, p), NameOf(f, i) # <<>>,
           Len(Members(f, p, NameOf(f, i))) > 1
    PROVE  Duplicate(f, p, NameOf(f, i)) \in TreeFindings
<1>1. NameOf(f, i) \in {NameOf(f, j) : j \in Children(f, p)} \ {<<>>}
  OBVIOUS
<1>2. Duplicate(f, p, NameOf(f, i)) \in checkNode(f, p)
  BY <1>1, Zenon DEF checkNode, Duplicate
<1>a. PICK y : y = Duplicate(f, p, NameOf(f, i))
  OBVIOUS
<1>b. y \in UNION {checkNode(f, q) : q \in Visited(f)}
  BY <1>2, <1>a
<1>3. y \in validateUniqueness
  BY <1>b DEF validateUniqueness
<1> QED
  BY <1>3, <1>a DEF TreeFindings

LEMMA DuplicateJust == ASSUME JustInv PROVE DuplicatesTold
<1> SUFFICES ASSUME stage = "done", NEW f \in DOMAIN trees, NEW i \in Entries(f)
             PROVE  LET twins == {j \in Entries(f) : trees[f][j].parent = trees[f][i].parent
                                                     /\ NameOf(f, j) = NameOf(f, i)}
                        told == {x \in findings : x.code = "shortname.duplicate" /\ x.file = f /\ x.location \in twins}
                    IN IF Cardinality(twins) > 1
                       THEN \E x \in told : told = {x} /\ Cardinality({j \in twins : j < x.location}) = 1
                       ELSE told = {}
  BY Zenon DEF DuplicatesTold
<1> DEFINE t == trees[f]
           p == t[i].parent
           name == NameOf(f, i)
           twins == {j \in Entries(f) : t[j].parent = p /\ NameOf(f, j) = name}
           told == {x \in findings : x.code = "shortname.duplicate" /\ x.file = f /\ x.location \in twins}
<1>1. LoadInv /\ stage # "load" /\ TreeFindings \subseteq findings
      /\ \A x \in findings : x.code \in SchemaCodes \/ x \in TreeFindings
  BY DEF JustInv, ValidInv, Accounted
<1>2. f \in 1..Len(disk) /\ Parents(t)
  BY <1>1, DoneFiles
<1>3. Len(t) \in Nat /\ DOMAIN t = 1..Len(t) /\ \A k \in 1..Len(t) : t[k].parent \in 0..(k - 1) /\ (t[k].parent = 0 <=> k = 1)
  BY <1>2 DEF Parents
<1>4. /\ Visited(f) \subseteq 1..Len(t)
      /\ \A k \in 1..Len(t) : k \in Visited(f) <=> k = 1 \/ (t[k].tag # ShortName /\ t[k].parent \in Visited(f))
  BY <1>2, VisitedIs
<1>5. i \in Visited(f) /\ name # <<>> /\ i \in 1..Len(t)
  BY <1>4 DEF Entries
<1>6. ASSUME NEW x \in told PROVE p \in Visited(f) /\ Len(Members(f, p, name)) > 1 /\ x = Duplicate(f, p, name)
  <2>1. x \in TreeFindings /\ x.code = "shortname.duplicate" /\ x.file = f /\ x.location \in twins
    BY <1>1 DEF SchemaCodes
  <2>2. PICK g \in DOMAIN trees : \E q \in Visited(g) : \E n : Len(Members(g, q, n)) > 1 /\ x = Duplicate(g, q, n)
    BY <2>1, DuplicateFrom
  <2>3. PICK q \in Visited(g) : \E n : Len(Members(g, q, n)) > 1 /\ x = Duplicate(g, q, n)
    BY <2>2
  <2>4. PICK n : Len(Members(g, q, n)) > 1 /\ x = Duplicate(g, q, n)
    BY <2>3
  <2>5. g = f /\ x.location = Members(g, q, n)[2]
    BY <2>1, <2>4 DEF Duplicate, Finding
  <2>6. PICK s : s = Members(f, q, n)
    OBVIOUS
  <2>7. Sorted(Twin(f, q, n), Len(t), s)
    BY <1>2, <2>6, <1>1, MembersAre DEF Twin
  <2>8. 2 \in 1..Len(s)
    BY <2>4, <2>5, <2>6, <2>7 DEF Sorted
  <2>9. s[2] \in Twin(f, q, n)
    BY <2>7, <2>8 DEF Sorted
  <2>10. t[s[2]].parent = q /\ NameOf(f, s[2]) = n
    BY <2>9 DEF Twin, Children
  <2>11. q = p /\ n = name
    BY <2>1, <2>5, <2>6, <2>10
  <2> QED BY <2>3, <2>4, <2>5, <2>11
<1>7. CASE i = 1
  <2>1. p = 0 /\ p \notin Visited(f)
    BY <1>3, <1>4, <1>5, <1>7
  <2>2. told = {}
    <3> HIDE DEF told, p, name
    <3> QED BY <1>6, <2>1
  <2>3. twins = {i}
    <3>1. \A j \in Entries(f) : j \in 1..Len(t)
      BY <1>4 DEF Entries
    <3>2. \A j \in Entries(f) : t[j].parent = p => j = i
      BY <1>3, <1>7, <2>1, <3>1
    <3> HIDE DEF t
    <3> QED BY <3>2
  <2>4. ~(Cardinality(twins) > 1)
    <3>1. Cardinality({i}) = 1
      BY FS_Singleton
    <3>2. Cardinality(twins) = 1
      <4> HIDE DEF twins
      <4> QED BY <2>3, <3>1
    <3> HIDE DEF twins
    <3> QED BY <3>2
  <2> HIDE DEF told, twins
  <2> QED BY <2>2, <2>4 DEF twins, told
<1>8. CASE i # 1
  <2>1. p \in Visited(f) /\ p \in 1..Len(t) /\ t[i].tag # ShortName
    BY <1>4, <1>5, <1>8
  <2>2. twins = Twin(f, p, name)
    <3>1. ASSUME NEW j \in twins PROVE j \in Twin(f, p, name)
      <4>1. j \in Visited(f) /\ j \in 1..Len(t) /\ t[j].parent = p /\ NameOf(f, j) = name
        BY <1>4 DEF Entries
      <4>2. j # 1
        BY <1>3, <2>1, <4>1
      <4>3. t[j].tag # ShortName
        BY <1>4, <4>1, <4>2
      <4> HIDE DEF p, name
      <4> QED BY <1>3, <4>1, <4>3 DEF Twin, Children
    <3>2. ASSUME NEW j \in Twin(f, p, name) PROVE j \in twins
      <4>1. j \in 1..Len(t) /\ t[j].parent = p /\ t[j].tag # ShortName /\ NameOf(f, j) = name
        BY <1>3 DEF Twin, Children
      <4>2. j \in Visited(f)
        BY <1>4, <2>1, <4>1
      <4>3. j \in Entries(f)
        BY <1>5, <4>1, <4>2 DEF Entries
      <4> QED BY <4>1, <4>3
    <3> HIDE DEF twins, p, name
    <3> QED BY <3>1, <3>2
  <2>3. PICK s : s = Members(f, p, name)
    OBVIOUS
  <2>4. Sorted(twins, Len(t), s)
    <3>1. Sorted(Twin(f, p, name), Len(t), s)
      BY <1>1, <1>2, <2>3, MembersAre DEF Twin
    <3> HIDE DEF twins, t, p, name
    <3> QED BY <2>2, <3>1
  <2>5. i \in twins /\ twins # {} /\ twins \subseteq 1..Len(t)
    BY <1>4 DEF Entries
  <2>6. /\ Len(s) \in Nat /\ (Len(s) > 1 <=> Cardinality(twins) > 1)
        /\ Len(s) > 1 => s[2] \in twins /\ Cardinality({j \in twins : j < s[2]}) = 1
    <3> HIDE DEF twins, t
    <3> QED BY <1>3, <2>4, <2>5, SecondIs
  <2>7. CASE Len(s) > 1
    <3>1. PICK y : y = Duplicate(f, p, name)
      OBVIOUS
    <3>2. y \in findings
      <4>1. i \in Children(f, p)
        BY <1>3, <1>5 DEF Children
      <4>2. Duplicate(f, p, name) \in TreeFindings
        BY <1>5, <2>1, <2>3, <2>7, <4>1, DuplicateThere
      <4> QED BY <1>1, <3>1, <4>2
    <3>3. y.code = "shortname.duplicate" /\ y.file = f /\ y.location = s[2]
      BY <2>3, <3>1 DEF Duplicate, Finding
    <3>4. y \in told
      <4> HIDE DEF twins
      <4> QED BY <2>6, <2>7, <3>2, <3>3
    <3>5. told = {y}
      <4> HIDE DEF told, p, name
      <4> QED BY <1>6, <3>1, <3>4
    <3> HIDE DEF told, twins
    <3> QED BY <2>6, <2>7, <3>3, <3>4, <3>5 DEF told, twins
  <2>8. CASE ~(Len(s) > 1)
    <3>1. told = {}
      <4> HIDE DEF told, p, name
      <4> QED BY <1>6, <2>3, <2>8
    <3> HIDE DEF told, twins
    <3> QED BY <2>6, <2>8, <3>1 DEF told, twins
  <2> QED BY <2>7, <2>8
<1> QED
  BY <1>7, <1>8

--------------------------------------------------------------------------------
(* What an element encloses *)

LEMMA MarkupLength ==
    ASSUME NEW l, IsLexeme(l), l.kind \in {"start", "empty", "end"}
    PROVE  Len(l.units) \in Nat /\ Len(l.units) >= 1
<1>1. l.units \in Seq(STRING) /\ l.tag \in Seq(STRING)
  BY DEF IsLexeme, Lexemes
<1>2. CASE IsTag(l)
  <2>1. PICK attrs \in Seq(STRING) : Tagged(l.units, <<"<">>, l.tag, attrs \o Close(l))
    BY <1>2, StartTagShape
  <2>2. PICK h, r : h = <<"<">> /\ r = attrs \o Close(l)
    OBVIOUS
  <2>3. Len(h) = 1 /\ Tagged(l.units, h, l.tag, r)
    BY <2>1, <2>2
  <2> QED BY <1>1, <2>3 DEF Tagged
<1>3. CASE l.kind = "end"
  <2> DEFINE space == SubSeq(l.units, Len(l.tag) + 3, Len(l.units) - 1)
  <2>1. l.units = <<"<", "/">> \o l.tag \o space \o <<">">>
    BY <1>3 DEF IsLexeme, IsEndTag
  <2>2. space \in Seq(STRING)
    <3>1. Len(l.tag) + 3 \in Nat /\ Len(l.units) - 1 \in Int /\ Len(l.tag) + 3 >= 1 /\ Len(l.units) - 1 <= Len(l.units)
      BY <1>1
    <3> QED BY <1>1, <3>1
  <2> HIDE DEF space
  <2>3. Tagged(l.units, <<"<", "/">>, l.tag, space \o <<">">>)
    <3>1. <<"<", "/">> \in Seq(Signs) /\ <<">">> \in Seq(Signs)
      BY DEF Signs
    <3>2. space \in Seq(Signs) /\ l.tag \in Seq(Signs)
      BY <1>1, <2>2, Unsigned
    <3> QED BY <2>1, <3>1, <3>2, PartsIs
  <2>4. PICK h, r : h = <<"<", "/">> /\ r = space \o <<">">>
    OBVIOUS
  <2>5. Len(h) = 2 /\ Tagged(l.units, h, l.tag, r)
    BY <2>3, <2>4
  <2> QED BY <1>1, <2>5 DEF Tagged
<1> QED
  BY <1>2, <1>3 DEF IsTag

LEMMA OffsetOrder ==
    ASSUME NEW d, IsDocument(d), NEW j \in 1..(Len(d.lexemes) + 1), NEW k \in 1..j
    PROVE  /\ Offset(d, k) \in Nat /\ Offset(d, j) \in Nat /\ Offset(d, k) <= Offset(d, j)
           /\ k < j /\ d.lexemes[k].kind \in {"start", "empty", "end"} => Offset(d, k) < Offset(d, j)
<1>1. Place(d)[k] \in Nat /\ Place(d)[j] \in Nat /\ Place(d)[k] <= Place(d)[j]
  BY PlaceGrows
<1>2. PICK b : b = Len(Bom(d.form))
  OBVIOUS
<1>3. b \in Nat
  <2>1. d.form.width \in {"single", "le", "be"} /\ d.form.bom \in BOOLEAN
    BY DocumentTyped
  <2>2. Bom(d.form) = <<>> \/ Bom(d.form) = <<"EF", "BB", "BF">> \/ Bom(d.form) = <<"FF", "FE">> \/ Bom(d.form) = <<"FE", "FF">>
    BY <2>1, Zenon DEF Bom
  <2> QED BY <1>2, <2>2
<1>4. PICK w : w = IF d.form.width = "single" THEN 1 ELSE 2
  OBVIOUS
<1>5. w = 1 \/ w = 2
  BY <1>4
<1>6. Offset(d, k) = b + w * Place(d)[k] /\ Offset(d, j) = b + w * Place(d)[j]
  BY <1>2, <1>4 DEF Offset
<1>7. ASSUME k < j, d.lexemes[k].kind \in {"start", "empty", "end"} PROVE Place(d)[k] < Place(d)[j]
  <2>1. k \in 1..Len(d.lexemes) /\ k + 1 \in 1..j
    BY <1>7, DocumentTyped
  <2>2. Place(d)[k + 1] = Place(d)[k] + Len(d.lexemes[k].units)
    BY <2>1, PlaceSteps
  <2>3. Len(d.lexemes[k].units) \in Nat /\ Len(d.lexemes[k].units) >= 1
    <3>1. IsLexeme(d.lexemes[k])
      BY <2>1, DocumentTyped
    <3> QED BY <1>7, <3>1, MarkupLength
  <2>4. Place(d)[k + 1] <= Place(d)[j] /\ Place(d)[k + 1] \in Nat
    BY <2>1, PlaceGrows
  <2> QED BY <1>1, <2>2, <2>3, <2>4
<1>8. CASE w = 1
  BY <1>1, <1>3, <1>6, <1>7, <1>8
<1>9. CASE w = 2
  BY <1>1, <1>3, <1>6, <1>7, <1>9
<1> QED
  BY <1>5, <1>8, <1>9

\* An element is open from its start tag up to its end tag.
LEMMA Opening ==
    ASSUME NEW d, IsDocument(d), WellFormed(d), NEW k \in Tags(d), d.lexemes[k].kind = "start"
    PROVE  LET l == LastOf(d, Opened(d.lexemes), k) IN
           /\ l \in (k + 1)..Len(d.lexemes) /\ d.lexemes[l].kind = "end" /\ OpenAt(d, l)[Len(OpenAt(d, l))] = k
           /\ \A n \in (k + 1)..(Len(d.lexemes) + 1) : IsOpen(d, n, k) <=> n <= l
<1>1. k \in 1..Len(d.lexemes) /\ k \in Nat /\ Len(d.lexemes) \in Nat
  BY NodeTag, DocumentTyped
<1>2. PICK m : m = Len(d.lexemes)
  OBVIOUS
<1>3. PICK l : l = LastOf(d, Opened(d.lexemes), k)
  OBVIOUS
<1>4. \A n \in 1..(m + 1) : OpenAt(d, n) # Ill
  BY <1>2, NeverIll
<1> DEFINE Shut(n) == \E j \in (k + 1)..(n - 1) : d.lexemes[j].kind = "end" /\ ParentOf(Opened(d.lexemes), j) = k
           P == {i \in 0..(m - k) : IsOpen(d, k + 1 + i, k) \/ Shut(k + 1 + i)}
<1>5. 0 \in P
  <2>1. IsOpen(d, k + 1, k)
    <3>1. OpenAt(d, k + 1) # Ill
      BY <1>1, <1>2, <1>4
    <3> QED BY <1>1, <3>1, OpenIs
  <2>2. 0 \in 0..(m - k) /\ k + 1 + 0 = k + 1
    BY <1>1, <1>2
  <2> QED BY <2>1, <2>2
<1>6. ASSUME NEW i \in 1..(m - k), i - 1 \in P PROVE i \in P
  <2>1. PICK n : n = k + i
    OBVIOUS
  <2>2. /\ n \in (k + 1)..m /\ n \in 1..Len(d.lexemes) /\ n + 1 \in 1..(m + 1) /\ k + 1 + (i - 1) = n
        /\ k + 1 + i = n + 1 /\ n \in (k + 1)..((n + 1) - 1) /\ n \in Nat
    BY <1>1, <1>2, <2>1
  <2>3. OpenAt(d, n + 1) # Ill
    BY <1>4, <2>2
  <2>4. IsOpen(d, n, k) \/ Shut(n)
    BY <1>6, <2>2
  <2>5. CASE Shut(n)
    <3>1. Shut(n + 1)
      BY <1>1, <2>2, <2>5
    <3> QED BY <2>2, <3>1
  <2>6. CASE IsOpen(d, n, k) /\ ~(d.lexemes[n].kind = "end" /\ k = OpenAt(d, n)[Len(OpenAt(d, n))])
    <3>1. IsOpen(d, n + 1, k)
      BY <2>2, <2>3, <2>6, OpenIs
    <3> QED BY <2>2, <3>1
  <2>7. CASE d.lexemes[n].kind = "end" /\ k = OpenAt(d, n)[Len(OpenAt(d, n))]
    <3>1. ParentOf(Opened(d.lexemes), n) = k
      BY <2>2, <2>3, <2>7, LastIs
    <3>2. Shut(n + 1)
      BY <2>2, <2>7, <3>1
    <3> QED BY <2>2, <3>2
  <2> QED BY <2>4, <2>5, <2>6, <2>7
<1>7. ASSUME NEW n \in (k + 1)..(m + 1) PROVE IsOpen(d, n, k) \/ Shut(n)
  <2>1. n - (k + 1) \in 0..(m - k) /\ k + 1 + (n - (k + 1)) = n /\ m - k \in Nat
    BY <1>1, <1>2
  <2>2. 0..(m - k) \subseteq P
    <3> HIDE DEF P
    <3> QED BY <1>5, <1>6, <2>1, Turns
  <2>3. n - (k + 1) \in P
    BY <2>1, <2>2
  <2> HIDE DEF Shut
  <2> QED BY <2>1, <2>3
<1>8. ASSUME NEW j \in 1..m, d.lexemes[j].kind = "end", ParentOf(Opened(d.lexemes), j) = k
      PROVE  j = l /\ OpenAt(d, j)[Len(OpenAt(d, j))] = k
  <2>1. j \in 1..Len(d.lexemes) /\ j + 1 \in 1..(m + 1)
    BY <1>1, <1>2
  <2>2. OpenAt(d, j + 1) # Ill
    BY <1>4, <2>1
  <2>3. PICK x : x = OpenAt(d, j)[Len(OpenAt(d, j))]
    OBVIOUS
  <2>4. LastOf(d, Opened(d.lexemes), x) = j /\ ParentOf(Opened(d.lexemes), j) = x
    BY <1>8, <2>1, <2>2, <2>3, LastIs
  <2> QED BY <1>3, <1>8, <2>3, <2>4
<1>9. l \in (k + 1)..m /\ d.lexemes[l].kind = "end" /\ ParentOf(Opened(d.lexemes), l) = k
      /\ OpenAt(d, l)[Len(OpenAt(d, l))] = k
  <2>1. OpenAt(d, m + 1) = <<>>
    BY <1>2 DEF WellFormed, OpenAt
  <2>2. ~IsOpen(d, m + 1, k)
    <3>1. Len(<<>>) = 0
      OBVIOUS
    <3> QED BY <2>1, <3>1 DEF IsOpen
  <2>3. m + 1 \in (k + 1)..(m + 1)
    BY <1>1, <1>2
  <2>4. Shut(m + 1)
    BY <1>7, <2>2, <2>3
  <2>5. PICK j \in (k + 1)..m : d.lexemes[j].kind = "end" /\ ParentOf(Opened(d.lexemes), j) = k
    BY <1>1, <1>2, <2>4
  <2>6. j \in 1..m
    BY <1>1, <1>2
  <2>7. j = l /\ OpenAt(d, j)[Len(OpenAt(d, j))] = k
    BY <1>8, <2>5, <2>6
  <2> QED BY <2>5, <2>7
<1>10. ASSUME NEW n \in (k + 1)..(m + 1) PROVE IsOpen(d, n, k) <=> n <= l
  <2>1. ASSUME IsOpen(d, n, k) PROVE n <= l
    <3>1. n \in 1..(Len(d.lexemes) + 1) /\ OpenAt(d, n) # Ill
      BY <1>1, <1>2, <1>4
    <3>2. Unclosed(d, n)
      BY <3>1, OpenUnclosed
    <3>3. ~(l \in 1..(n - 1))
      BY <1>9, <2>1, <3>2 DEF Unclosed, IsOpen
    <3> QED BY <1>1, <1>2, <1>9, <3>3
  <2>2. ASSUME n <= l PROVE IsOpen(d, n, k)
    <3>1. ~Shut(n)
      <4> SUFFICES ASSUME NEW j \in (k + 1)..(n - 1), d.lexemes[j].kind = "end", ParentOf(Opened(d.lexemes), j) = k
                   PROVE  FALSE
        OBVIOUS
      <4>1. j \in 1..m /\ j < n
        BY <1>1, <1>2
      <4>2. j = l
        BY <1>8, <4>1
      <4> QED BY <2>2, <4>1, <4>2
    <3> QED BY <1>7, <3>1
  <2> QED BY <2>1, <2>2
<1> QED
  BY <1>2, <1>3, <1>9, <1>10

EndOf(d, k) == LastOf(d, Opened(d.lexemes), k)

LEMMA EndOfIs ==
    ASSUME NEW d, IsDocument(d), WellFormed(d), NEW k \in Tags(d)
    PROVE  /\ k \in 1..Len(d.lexemes) /\ Len(d.lexemes) \in Nat /\ k \in Nat
           /\ EndOf(d, k) \in k..Len(d.lexemes) /\ d.lexemes[EndOf(d, k)].kind \in {"empty", "end"}
           /\ d.lexemes[k].kind \in {"start", "empty"} /\ (d.lexemes[k].kind = "empty" => EndOf(d, k) = k)
           /\ d.lexemes[k].kind = "start" =>
                 /\ EndOf(d, k) \in (k + 1)..Len(d.lexemes) /\ d.lexemes[EndOf(d, k)].kind = "end"
                 /\ OpenAt(d, EndOf(d, k))[Len(OpenAt(d, EndOf(d, k)))] = k
                 /\ \A n \in (k + 1)..(Len(d.lexemes) + 1) : IsOpen(d, n, k) <=> n <= EndOf(d, k)
<1>1. k \in 1..Len(d.lexemes) /\ Len(d.lexemes) \in Nat /\ k \in Nat /\ d.lexemes[k].kind \in {"start", "empty"}
  BY NodeTag, DocumentTyped DEF IsTag
<1>2. CASE d.lexemes[k].kind = "empty"
  <2>1. EndOf(d, k) = k
    BY <1>2 DEF EndOf, LastOf
  <2> QED BY <1>1, <1>2, <2>1
<1>3. CASE d.lexemes[k].kind = "start"
  <2>1. PICK l : l = EndOf(d, k)
    OBVIOUS
  <2>2. /\ l \in (k + 1)..Len(d.lexemes) /\ d.lexemes[l].kind = "end" /\ OpenAt(d, l)[Len(OpenAt(d, l))] = k
        /\ \A n \in (k + 1)..(Len(d.lexemes) + 1) : IsOpen(d, n, k) <=> n <= l
    BY <1>3, <2>1, Opening DEF EndOf
  <2>3. l \in k..Len(d.lexemes)
    BY <1>1, <2>2
  <2> QED BY <1>1, <1>3, <2>1, <2>2, <2>3
<1> QED
  BY <1>1, <1>2, <1>3

\* The element of tag k holds that of tag l.
Encloses(d, k, l) == k <= l /\ EndOf(d, l) <= EndOf(d, k)

\* The innermost open element comes last.
LEMMA Innermost ==
    ASSUME NEW d, IsDocument(d), WellFormed(d), NEW n \in 1..(Len(d.lexemes) + 1), NEW k, IsOpen(d, n, k)
    PROVE  /\ k \in Tags(d) /\ d.lexemes[k].kind = "start" /\ k < n
           /\ OpenAt(d, n) # <<>> /\ k <= OpenAt(d, n)[Len(OpenAt(d, n))]
<1>1. PICK s : s = OpenAt(d, n)
  OBVIOUS
<1>2. s \in Seq(Nat) /\ Len(s) \in Nat
  BY <1>1, OpenTyped
<1>3. Nest(d, n)
  BY NeverIll, OpenNest
<1>4. PICK i \in 1..Len(s) : s[i] = k
  BY <1>1 DEF IsOpen
<1>5. k \in 1..(n - 1) /\ d.lexemes[k].kind = "start"
  BY <1>1, <1>3, <1>4 DEF Nest
<1>6. k \in Tags(d) /\ k < n
  BY <1>5, DocumentTyped DEF Tags, IsTag
<1>7. Len(s) \in 1..Len(s) /\ s # <<>>
  BY <1>2, <1>4
<1>8. k <= s[Len(s)]
  <2>1. i = Len(s) \/ i < Len(s)
    BY <1>2, <1>4
  <2>2. i < Len(s) => s[i] < s[Len(s)]
    BY <1>1, <1>3, <1>7 DEF Nest
  <2>3. s[i] \in Nat /\ s[Len(s)] \in Nat
    BY <1>2, <1>4, <1>7
  <2> QED BY <1>4, <2>1, <2>2, <2>3
<1> QED
  BY <1>1, <1>5, <1>6, <1>7, <1>8

LEMMA EnclosesOpen ==
    ASSUME NEW d, IsDocument(d), WellFormed(d), NEW k \in Tags(d), NEW l \in Tags(d), k # l
    PROVE  Encloses(d, k, l) <=> IsOpen(d, l, k)
<1>1. PICK m, e, g : m = Len(d.lexemes) /\ e = EndOf(d, k) /\ g = EndOf(d, l)
  OBVIOUS
<1>2. /\ k \in 1..m /\ m \in Nat /\ k \in Nat /\ e \in k..m /\ d.lexemes[e].kind \in {"empty", "end"}
      /\ d.lexemes[k].kind \in {"start", "empty"} /\ (d.lexemes[k].kind = "empty" => e = k)
      /\ d.lexemes[k].kind = "start" =>
            /\ e \in (k + 1)..m /\ d.lexemes[e].kind = "end" /\ OpenAt(d, e)[Len(OpenAt(d, e))] = k
            /\ \A n \in (k + 1)..(m + 1) : IsOpen(d, n, k) <=> n <= e
  BY <1>1, EndOfIs
<1>3. /\ l \in 1..m /\ l \in Nat /\ g \in l..m /\ d.lexemes[g].kind \in {"empty", "end"}
      /\ d.lexemes[l].kind \in {"start", "empty"} /\ (d.lexemes[l].kind = "empty" => g = l)
      /\ d.lexemes[l].kind = "start" =>
            /\ g \in (l + 1)..m
            /\ \A n \in (l + 1)..(m + 1) : IsOpen(d, n, l) <=> n <= g
  BY <1>1, EndOfIs
<1>4. ASSUME Encloses(d, k, l) PROVE IsOpen(d, l, k)
  <2>1. k < l /\ g <= e /\ l <= e
    BY <1>1, <1>2, <1>3, <1>4 DEF Encloses
  <2>2. d.lexemes[k].kind = "start" /\ l \in (k + 1)..(m + 1)
    BY <1>2, <1>3, <2>1
  <2> QED BY <1>2, <2>1, <2>2
<1>5. ASSUME IsOpen(d, l, k) PROVE Encloses(d, k, l)
  <2>1. d.lexemes[k].kind = "start" /\ k < l
    <3>1. l \in 1..(Len(d.lexemes) + 1)
      BY <1>1, <1>2, <1>3
    <3> QED BY <1>5, <3>1, Innermost
  <2>2. l \in (k + 1)..(m + 1) /\ l <= e
    BY <1>2, <1>3, <1>5, <2>1
  <2>3. l # e
    BY <1>2, <1>3, <2>1
  <2>4. CASE d.lexemes[l].kind = "empty"
    BY <1>1, <1>2, <1>3, <2>1, <2>2, <2>4 DEF Encloses
  <2>5. CASE d.lexemes[l].kind = "start"
    <3>1. ~IsOpen(d, e, l)
      <4> SUFFICES ASSUME IsOpen(d, e, l) PROVE FALSE
        OBVIOUS
      <4>1. e \in 1..(Len(d.lexemes) + 1)
        BY <1>1, <1>2
      <4>2. l <= OpenAt(d, e)[Len(OpenAt(d, e))]
        BY <4>1, Innermost
      <4> QED BY <1>2, <1>3, <2>1, <4>2
    <3>2. e \in (l + 1)..(m + 1)
      BY <1>2, <1>3, <2>2, <2>3
    <3>3. ~(e <= g)
      BY <1>3, <2>5, <3>1, <3>2
    <3> QED BY <1>1, <1>2, <1>3, <2>1, <3>3 DEF Encloses
  <2> QED BY <1>3, <2>4, <2>5
<1> QED
  BY <1>4, <1>5

\* What holds an element holds its parent, and the root is held by nothing.
LEMMA EnclosesUp ==
    ASSUME NEW d, IsDocument(d), WellFormed(d), NEW k \in Tags(d), NEW l \in Tags(d)
    PROVE  /\ OpenAt(d, l) = <<>> => (Encloses(d, k, l) <=> k = l)
           /\ OpenAt(d, l) # <<>> => (Encloses(d, k, l) <=> k = l \/ Encloses(d, k, ParentOf(Opened(d.lexemes), l)))
<1>1. PICK m, e, g : m = Len(d.lexemes) /\ e = EndOf(d, k) /\ g = EndOf(d, l)
  OBVIOUS
<1>2. /\ k \in 1..m /\ m \in Nat /\ k \in Nat /\ e \in k..m /\ d.lexemes[e].kind \in {"empty", "end"}
      /\ d.lexemes[k].kind \in {"start", "empty"} /\ (d.lexemes[k].kind = "empty" => e = k)
      /\ d.lexemes[k].kind = "start" =>
            /\ e \in (k + 1)..m /\ d.lexemes[e].kind = "end" /\ OpenAt(d, e)[Len(OpenAt(d, e))] = k
            /\ \A n \in (k + 1)..(m + 1) : IsOpen(d, n, k) <=> n <= e
  BY <1>1, EndOfIs
<1>3. l \in 1..m /\ l \in Nat /\ g \in l..m /\ l \in 1..(Len(d.lexemes) + 1) /\ l + 1 \in 1..(Len(d.lexemes) + 1)
  <2>1. l \in 1..m /\ l \in Nat /\ g \in l..m
    BY <1>1, EndOfIs
  <2> QED BY <1>1, <1>2, <2>1
<1>4. Encloses(d, k, k) /\ Encloses(d, l, l)
  BY <1>1, <1>2, <1>3 DEF Encloses
<1>5. CASE OpenAt(d, l) = <<>>
  <2>1. ~IsOpen(d, l, k)
    <3>1. Len(<<>>) = 0
      OBVIOUS
    <3> QED BY <1>5, <3>1 DEF IsOpen
  <2>2. k # l => ~Encloses(d, k, l)
    BY <2>1, EnclosesOpen
  <2> QED BY <1>4, <1>5, <2>2
<1>6. CASE OpenAt(d, l) # <<>>
  <2>1. PICK p : p = ParentOf(Opened(d.lexemes), l)
    OBVIOUS
  <2>2. p = OpenAt(d, l)[Len(OpenAt(d, l))] /\ Len(OpenAt(d, l)) \in 1..Len(OpenAt(d, l))
        /\ p \in Tags(d) /\ p < l /\ d.lexemes[p].kind = "start"
    <3>1. OpenAt(d, l + 1) # Ill
      BY <1>3, NeverIll
    <3>2. p = OpenAt(d, l)[Len(OpenAt(d, l))] /\ Len(OpenAt(d, l)) >= 1
          /\ p \in Tags(d) /\ p < l /\ d.lexemes[p].kind = "start"
      BY <1>6, <2>1, <3>1, Enclosing
    <3>3. Len(OpenAt(d, l)) \in Nat
      BY <1>3, OpenTyped
    <3> QED BY <3>2, <3>3
  <2>3. IsOpen(d, l, p)
    BY <2>2 DEF IsOpen
  <2>4. PICK h : h = EndOf(d, p)
    OBVIOUS
  <2>5. /\ p \in 1..m /\ p \in Nat /\ h \in (p + 1)..m
        /\ \A n \in (p + 1)..(m + 1) : IsOpen(d, n, p) <=> n <= h
    BY <1>1, <2>2, <2>4, EndOfIs
  <2>6. l <= h
    BY <1>2, <1>3, <2>2, <2>3, <2>5
  <2>7. Encloses(d, p, l)
    <3>1. p # l
      BY <1>3, <2>2, <2>5
    <3> QED BY <2>2, <2>3, <3>1, EnclosesOpen
  <2>8. ASSUME Encloses(d, k, l), k # l, k # p PROVE Encloses(d, k, p)
    <3>1. IsOpen(d, l, k)
      BY <2>8, EnclosesOpen
    <3>2. k <= p /\ d.lexemes[k].kind = "start" /\ k < l
      BY <1>3, <2>2, <3>1, Innermost
    <3>3. k < p /\ l <= e
      BY <1>2, <1>3, <2>5, <2>8, <3>1, <3>2
    <3>4. p \in (k + 1)..(m + 1) /\ p <= e
      BY <1>2, <1>3, <2>2, <2>5, <3>3
    <3>5. IsOpen(d, p, k)
      BY <1>2, <3>2, <3>4
    <3> QED BY <2>2, <2>8, <3>5, EnclosesOpen
  <2>9. ASSUME Encloses(d, k, p), k # p PROVE Encloses(d, k, l)
    <3>1. IsOpen(d, p, k)
      BY <2>2, <2>9, EnclosesOpen
    <3>2. k < p /\ d.lexemes[k].kind = "start"
      <4>1. p \in 1..(Len(d.lexemes) + 1)
        BY <1>1, <1>2, <2>5
      <4> QED BY <3>1, <4>1, Innermost
    <3>3. p <= e
      <4>1. p \in (k + 1)..(m + 1)
        BY <1>2, <2>5, <3>2
      <4> QED BY <1>2, <3>1, <3>2, <4>1
    <3>4. p # e
      BY <1>2, <2>2, <3>2
    <3>5. ~(e < l)
      <4> SUFFICES ASSUME e < l PROVE FALSE
        OBVIOUS
      <4>1. e \in (p + 1)..(m + 1) /\ e <= h /\ e \in 1..(Len(d.lexemes) + 1)
        BY <1>1, <1>2, <1>3, <2>5, <2>6, <3>3, <3>4
      <4>2. IsOpen(d, e, p)
        BY <2>5, <4>1
      <4>3. p <= OpenAt(d, e)[Len(OpenAt(d, e))]
        BY <4>1, <4>2, Innermost
      <4> QED BY <1>2, <2>5, <3>2, <4>3
    <3>6. l \in (k + 1)..(m + 1) /\ l <= e /\ k # l
      BY <1>2, <1>3, <2>2, <2>5, <3>2, <3>5
    <3>7. IsOpen(d, l, k)
      BY <1>2, <3>2, <3>6
    <3> QED BY <3>6, <3>7, EnclosesOpen
  <2>10. Encloses(d, p, p)
    BY <2>4, <2>5 DEF Encloses
  <2>11. Encloses(d, k, l) <=> k = l \/ Encloses(d, k, p)
    BY <1>4, <2>7, <2>8, <2>9, <2>10
  <2> QED BY <1>6, <2>1, <2>11
<1> QED
  BY <1>5, <1>6

\* The bytes say which element holds which.
LEMMA BytesEnclose ==
    ASSUME NEW d, IsDocument(d), WellFormed(d), NEW k \in Tags(d), NEW l \in Tags(d)
    PROVE  Offset(d, k) <= Offset(d, l) /\ Offset(d, EndOf(d, l) + 1) <= Offset(d, EndOf(d, k) + 1) <=> Encloses(d, k, l)
<1>1. PICK m, e, g : m = Len(d.lexemes) /\ e = EndOf(d, k) /\ g = EndOf(d, l)
  OBVIOUS
<1>2. /\ k \in 1..m /\ m \in Nat /\ k \in Nat /\ e \in k..m /\ d.lexemes[e].kind \in {"empty", "end"}
      /\ d.lexemes[k].kind \in {"start", "empty"}
  BY <1>1, EndOfIs
<1>3. /\ l \in 1..m /\ l \in Nat /\ g \in l..m /\ d.lexemes[g].kind \in {"empty", "end"}
      /\ d.lexemes[l].kind \in {"start", "empty"}
  BY <1>1, EndOfIs
<1>4. ASSUME NEW i \in 1..(m + 1), NEW j \in i..(m + 1)
      PROVE  /\ Offset(d, i) \in Nat /\ Offset(d, j) \in Nat /\ Offset(d, i) <= Offset(d, j)
             /\ i < j /\ d.lexemes[i].kind \in {"start", "empty", "end"} => Offset(d, i) < Offset(d, j)
  <2>1. j \in 1..(Len(d.lexemes) + 1) /\ i \in 1..j
    BY <1>1, <1>2
  <2> QED BY <2>1, OffsetOrder
<1>5. Offset(d, k) <= Offset(d, l) <=> k <= l
  <2>1. CASE k <= l
    <3>1. k \in 1..(m + 1) /\ l \in k..(m + 1)
      BY <1>2, <1>3, <2>1
    <3> QED BY <1>4, <2>1, <3>1
  <2>2. CASE l < k
    <3>1. l \in 1..(m + 1) /\ k \in l..(m + 1)
      BY <1>2, <1>3, <2>2
    <3>2. Offset(d, l) < Offset(d, k) /\ Offset(d, l) \in Nat /\ Offset(d, k) \in Nat
      BY <1>3, <1>4, <2>2, <3>1
    <3> QED BY <1>2, <1>3, <2>2, <3>2
  <2> QED BY <1>2, <1>3, <2>1, <2>2
<1>6. Offset(d, g + 1) <= Offset(d, e + 1) <=> g <= e
  <2>1. CASE g <= e
    <3>1. g + 1 \in 1..(m + 1) /\ e + 1 \in (g + 1)..(m + 1)
      BY <1>2, <1>3, <2>1
    <3>2. Offset(d, g + 1) <= Offset(d, e + 1)
      BY <1>4, <3>1
    <3> QED BY <2>1, <3>2
  <2>2. CASE e < g
    <3>1. e + 1 \in 1..(m + 1) /\ g \in (e + 1)..(m + 1) /\ g \in 1..(m + 1) /\ g + 1 \in g..(m + 1) /\ g < g + 1
      BY <1>2, <1>3, <2>2
    <3>2. Offset(d, e + 1) <= Offset(d, g) /\ Offset(d, e + 1) \in Nat /\ Offset(d, g) \in Nat
      BY <1>4, <3>1
    <3>3. Offset(d, g) < Offset(d, g + 1) /\ Offset(d, g + 1) \in Nat
      BY <1>3, <1>4, <3>1
    <3>4. ~(Offset(d, g + 1) <= Offset(d, e + 1))
      BY <3>2, <3>3
    <3> QED BY <1>2, <1>3, <2>2, <3>4
  <2> QED BY <1>2, <1>3, <2>1, <2>2
<1> QED
  BY <1>1, <1>5, <1>6 DEF Encloses

\* The tree of a file that has been read, and the tag each node stands for.
LEMMA FileTree ==
    ASSUME JustInv, stage # "load", ScannedWell, NEW f \in DOMAIN trees
    PROVE  /\ f \in 1..Len(disk) /\ IsDocument(Doc(f)) /\ WellFormed(Doc(f)) /\ Parents(trees[f])
           /\ trees[f] = Tree(Doc(f))
<1>1. f \in 1..Len(disk) /\ input[f] \in DOMAIN Documents /\ IsDocument(Doc(f)) /\ Parsed(Doc(f), trees[f]) /\ Parents(trees[f])
  BY DoneFiles
<1>2. DOMAIN input = 1..Len(disk)
  BY DEF JustInv, ValidInv, LoadInv, Files
<1>3. input[f] \in Scannables
  BY <1>1, <1>2 DEF ScannedWell, ToSet
<1>4. Scannable(Doc(f))
  BY <1>1, <1>3, ExpectedIs DEF Doc
<1> QED
  BY <1>1, <1>4 DEF Parsed, Exactly

LEMMA NodeTagged ==
    ASSUME NEW d, IsDocument(d), WellFormed(d), NEW n \in 1..Len(Tree(d))
    PROVE  \E k \in Tags(d) : /\ NodeOf(d, k) = n
                              /\ Tree(d)[n].start = Offset(d, k) /\ Tree(d)[n].end = Offset(d, EndOf(d, k) + 1)
                              /\ Tree(d)[n].parent = NodeOf(d, ParentOf(Opened(d.lexemes), k))
<1>1. PICK k0 \in DOMAIN d.lexemes : IsTag(d.lexemes[k0])
  BY DEF WellFormed
<1>2. k0 \in Tags(d)
  BY <1>1 DEF Tags
<1>3. Len(Tree(d)) = NodeOf(d, Len(d.lexemes))
  BY <1>2, TreeRow
<1>4. Len(d.lexemes) \in 0..Len(d.lexemes)
  BY DocumentTyped
<1>5. PICK k \in Tags(d) : NodeOf(d, k) = n
  BY <1>3, <1>4, NodeHas
<1>6. /\ Tree(d)[NodeOf(d, k)].start = Offset(d, k)
      /\ Tree(d)[NodeOf(d, k)].end = Offset(d, LastOf(d, Opened(d.lexemes), k) + 1)
      /\ Tree(d)[NodeOf(d, k)].parent = NodeOf(d, ParentOf(Opened(d.lexemes), k))
  BY TreeRow
<1> QED
  BY <1>5, <1>6 DEF EndOf

\* The elements around an element are those around its parent, and itself.
LEMMA AroundIs ==
    ASSUME JustInv, stage # "load", ScannedWell, NEW f \in DOMAIN trees, NEW n \in 1..Len(trees[f])
    PROVE  /\ Around(f, n) \subseteq 1..n /\ n \in Around(f, n)
           /\ n = 1 => Around(f, n) = {1}
           /\ n # 1 => \A j \in 1..Len(trees[f]) : j \in Around(f, n) <=> j = n \/ j \in Around(f, trees[f][n].parent)
<1>1. PICK d, t : d = Doc(f) /\ t = trees[f]
  OBVIOUS
<1>2. IsDocument(d) /\ WellFormed(d) /\ t = Tree(d) /\ Parents(t)
  BY <1>1, FileTree
<1>3. DOMAIN t = 1..Len(t) /\ Len(t) \in Nat /\ n \in 1..Len(t) /\ n \in Nat
      /\ t[n].parent \in 0..(n - 1) /\ (t[n].parent = 0 <=> n = 1)
  BY <1>1, <1>2 DEF Parents
<1>4. \A i : Around(f, i) = {j \in 1..Len(t) : t[j].start <= t[i].start /\ t[i].end <= t[j].end}
  BY <1>1, <1>3 DEF Around
<1>5. PICK l \in Tags(d) : /\ NodeOf(d, l) = n
                           /\ t[n].start = Offset(d, l) /\ t[n].end = Offset(d, EndOf(d, l) + 1)
                           /\ t[n].parent = NodeOf(d, ParentOf(Opened(d.lexemes), l))
  BY <1>2, <1>3, NodeTagged
<1>6. l \in 1..Len(d.lexemes) /\ OpenAt(d, l + 1) # Ill
  <2>1. l \in 1..Len(d.lexemes) /\ l + 1 \in 1..(Len(d.lexemes) + 1)
    BY NodeTag, DocumentTyped, <1>2
  <2> QED BY <1>2, <2>1, NeverIll
<1>7. n = 1 <=> OpenAt(d, l) = <<>>
  <2>1. OpenAt(d, l) = <<>> => n = 1
    BY <1>2, <1>5, <1>6, Enclosing
  <2>2. ASSUME OpenAt(d, l) # <<>> PROVE n # 1
    <3>1. PICK p : p = ParentOf(Opened(d.lexemes), l)
      OBVIOUS
    <3>2. p \in Tags(d) /\ NodeOf(d, p) < NodeOf(d, l)
      BY <1>2, <1>6, <2>2, <3>1, Enclosing
    <3>3. NodeOf(d, p) \in Nat /\ NodeOf(d, p) >= 1
      BY <1>2, <3>2, NodeNumber
    <3> QED BY <1>3, <1>5, <3>2, <3>3
  <2> QED BY <2>1, <2>2
<1>8. ASSUME NEW j \in 1..Len(t), NEW i \in 1..Len(t), NEW k \in Tags(d), NEW q \in Tags(d), NodeOf(d, k) = j, NodeOf(d, q) = i
      PROVE  j \in Around(f, i) <=> Encloses(d, k, q)
  <2>1. PICK k1 \in Tags(d) : NodeOf(d, k1) = j /\ t[j].start = Offset(d, k1) /\ t[j].end = Offset(d, EndOf(d, k1) + 1)
    BY <1>2, NodeTagged
  <2>2. PICK q1 \in Tags(d) : NodeOf(d, q1) = i /\ t[i].start = Offset(d, q1) /\ t[i].end = Offset(d, EndOf(d, q1) + 1)
    BY <1>2, NodeTagged
  <2>3. k1 = k /\ q1 = q
    BY <1>2, <1>8, <2>1, <2>2, NodeOnly
  <2>4. Offset(d, k) <= Offset(d, q) /\ Offset(d, EndOf(d, q) + 1) <= Offset(d, EndOf(d, k) + 1) <=> Encloses(d, k, q)
    BY <1>2, BytesEnclose
  <2> QED BY <1>4, <2>1, <2>2, <2>3, <2>4
<1>9. ASSUME NEW j \in 1..Len(t)
      PROVE  /\ n = 1 => (j \in Around(f, n) <=> j = n)
             /\ n # 1 => (j \in Around(f, n) <=> j = n \/ j \in Around(f, t[n].parent))
             /\ j \in Around(f, n) => j <= n
  <2>1. PICK k \in Tags(d) : NodeOf(d, k) = j
    BY <1>2, NodeTagged
  <2>2. j \in Around(f, n) <=> Encloses(d, k, l)
    BY <1>3, <1>5, <1>8, <2>1
  <2>3. k = l <=> j = n
    BY <1>2, <1>5, <2>1, NodeOnly
  <2>4. n = 1 => (j \in Around(f, n) <=> j = n)
    BY <1>2, <1>7, <2>2, <2>3, EnclosesUp
  <2>5. ASSUME n # 1 PROVE j \in Around(f, n) <=> j = n \/ j \in Around(f, t[n].parent)
    <3>1. PICK p : p = ParentOf(Opened(d.lexemes), l)
      OBVIOUS
    <3>2. p \in Tags(d) /\ NodeOf(d, p) = t[n].parent
      BY <1>2, <1>5, <1>6, <1>7, <2>5, <3>1, Enclosing
    <3>3. t[n].parent \in 1..Len(t)
      BY <1>3, <2>5
    <3>4. j \in Around(f, t[n].parent) <=> Encloses(d, k, p)
      BY <1>8, <2>1, <3>2, <3>3
    <3>5. Encloses(d, k, l) <=> k = l \/ Encloses(d, k, p)
      BY <1>2, <1>7, <2>5, <3>1, EnclosesUp
    <3> QED BY <2>2, <2>3, <3>4, <3>5
  <2>6. ASSUME j \in Around(f, n) PROVE j <= n
    <3>1. k <= l
      BY <2>2, <2>6 DEF Encloses
    <3>2. k \in 0..Len(d.lexemes) /\ l \in k..Len(d.lexemes)
      <4>1. k \in 1..Len(d.lexemes) /\ l \in 1..Len(d.lexemes) /\ Len(d.lexemes) \in Nat
        BY <1>2, NodeTag, DocumentTyped
      <4> QED BY <3>1, <4>1
    <3>3. NodeOf(d, k) <= NodeOf(d, l)
      BY <1>2, <3>2, NodeOrder
    <3> QED BY <1>5, <2>1, <3>3
  <2> QED BY <2>4, <2>5, <2>6
<1>10. n \in Around(f, n)
  BY <1>3, <1>9
<1>11. Around(f, n) \subseteq 1..Len(t)
  BY <1>4
<1>12. Around(f, n) \subseteq 1..n
  BY <1>3, <1>9, <1>11
<1>13. n = 1 => Around(f, n) = {1}
  BY <1>3, <1>9, <1>10, <1>11
<1> QED
  BY <1>1, <1>9, <1>10, <1>12, <1>13

--------------------------------------------------------------------------------
(* Names and paths *)

LEMMA GreatestIn == ASSUME NEW n \in Nat, NEW S, S \subseteq 1..n, S # {} PROVE Max(S) \in S
<1> DEFINE D == {n - x : x \in S}
<1>1. D \subseteq Nat /\ D # {}
  OBVIOUS
<1>2. PICK m \in D : \A y \in D : m <= y
  <2> HIDE DEF D
  <2> QED BY <1>1, Least
<1>3. PICK x \in S : m = n - x
  BY <1>2
<1>4. \A y \in S : x >= y
  <2>1. ASSUME NEW y \in S PROVE x >= y
    <3>1. m <= n - y
      BY <1>2
    <3>2. x \in 1..n /\ y \in 1..n
      OBVIOUS
    <3> QED BY <1>3, <3>1, <3>2
  <2> QED BY <2>1
<1>5. \E z \in S : \A y \in S : z >= y
  BY <1>4
<1> QED
  BY <1>5 DEF Max

LEMMA TrimTyped == ASSUME NEW s \in Seq(STRING) PROVE trimText(s) \in Seq(STRING)
<1> DEFINE ink == {k \in DOMAIN s : s[k] \notin Space}
<1>1. DOMAIN s = 1..Len(s) /\ Len(s) \in Nat
  OBVIOUS
<1>2. CASE ink = {}
  <2>1. trimText(s) = <<>>
    BY <1>2 DEF trimText
  <2> QED BY <2>1
<1>3. CASE ink # {}
  <2>1. ink \subseteq 1..Len(s) /\ ink \subseteq Nat
    BY <1>1
  <2>2. PICK a, b : a = Min(ink) /\ b = Max(ink)
    OBVIOUS
  <2>3. a \in 1..Len(s)
    <3> HIDE DEF ink
    <3> QED BY <1>3, <2>1, <2>2, MinIn
  <2>4. b \in 1..Len(s)
    <3> HIDE DEF ink
    <3> QED BY <1>1, <1>3, <2>1, <2>2, GreatestIn
  <2>5. trimText(s) = SubSeq(s, a, b)
    BY <1>3, <2>2 DEF trimText
  <2>6. SubSeq(s, a, b) \in Seq(STRING)
    BY <1>1, <2>3, <2>4
  <2> QED BY <2>5, <2>6
<1> QED
  BY <1>2, <1>3

LEMMA NameTyped == ASSUME NEW f, Parents(trees[f]), NEW i PROVE NameOf(f, i) \in Seq(Signals)
<1>0. PICK t : t = trees[f]
  OBVIOUS
<1>1. t \in Seq(Nodes) /\ DOMAIN t = 1..Len(t) /\ Len(t) \in Nat
  BY <1>0 DEF Parents
<1> DEFINE carriers == {j \in Children(f, i) : trees[f][j].tag = ShortName}
<1>2. CASE carriers = {}
  <2>1. NameOf(f, i) = <<>>
    BY <1>2 DEF NameOf
  <2> QED BY <2>1
<1>3. CASE carriers # {}
  <2>1. carriers \subseteq 1..Len(t)
    BY <1>0, <1>1 DEF Children
  <2>2. PICK j : j = Min(carriers)
    OBVIOUS
  <2>3. j \in 1..Len(t)
    <3>1. carriers \subseteq Nat
      BY <1>1, <2>1
    <3> HIDE DEF carriers
    <3> QED BY <1>3, <2>1, <2>2, <3>1, MinIn
  <2>4. t[j].text \in Seq(STRING)
    <3>1. t[j] \in Nodes
      BY <1>1, <2>3
    <3> QED BY <3>1 DEF Nodes
  <2>5. NameOf(f, i) = trimText(t[j].text)
    BY <1>0, <1>3, <2>2 DEF NameOf
  <2>6. NameOf(f, i) \in Seq(STRING)
    BY <2>4, <2>5, TrimTyped
  <2> QED BY <2>6, SignalsOf
<1> QED
  BY <1>2, <1>3

\* What follows the last that is not empty adds nothing.
Bare(s, m) == m \in 0..Len(s) /\ \A k \in (m + 1)..Len(s) : s[k] = <<>>

LEMMA FlatTail ==
    ASSUME NEW T, NEW s \in Seq(Seq(T)), NEW n, Len(s) = n, NEW F \in [0..n -> Seq(T)], Flat(F, s), NEW m, Bare(s, m)
    PROVE  FlattenSeq(s) = F[m]
<1>0. n = Len(s)
  OBVIOUS
<1>1. n \in Nat /\ m \in Nat /\ m <= n /\ \A k \in (m + 1)..n : s[k] = <<>>
  BY <1>0 DEF Bare
<1> DEFINE P == {k \in m..n : F[k] = F[n]}
<1>2. n \in P
  BY <1>1
<1>3. ASSUME NEW k \in m..(n - 1), k + 1 \in P PROVE k \in P
  <2>1. k + 1 \in 1..n /\ k \in 0..n /\ (k + 1) - 1 = k /\ k + 1 \in (m + 1)..n
    BY <1>1
  <2>2. F[k + 1] = F[k] \o s[k + 1] /\ s[k + 1] = <<>>
    BY <1>0, <1>1, <2>1 DEF Flat
  <2>3. F[k] \in Seq(T)
    BY <1>0, <2>1
  <2>4. F[k] \o <<>> = F[k]
    BY <2>3
  <2>5. F[k] = F[n]
    BY <1>3, <2>2, <2>4
  <2> QED BY <1>1, <2>5
<1>4. m..n \subseteq P
  <2> HIDE DEF P
  <2> QED BY <1>1, <1>2, <1>3, TurnsDown
<1>5. F[m] = F[n]
  BY <1>1, <1>4
<1> QED
  BY <1>0, <1>5 DEF Flat

\* Sequences that begin alike.
Alike(T, s, u, m) ==
    /\ s \in Seq(Seq(T)) /\ u \in Seq(Seq(T))
    /\ m \in 0..Len(s) /\ m \in 0..Len(u) /\ \A k \in 1..m : s[k] = u[k]

LEMMA AlikeBegins == ASSUME NEW T, NEW s, NEW u, NEW m, Alike(T, s, u, m) PROVE SubSeq(s, 1, m) = SubSeq(u, 1, m)
<1>1. m \in 0..Len(s) /\ m \in 0..Len(u) /\ \A k \in 1..m : s[k] = u[k]
  BY DEF Alike
<1> DEFINE x == SubSeq(s, 1, m)
           y == SubSeq(u, 1, m)
<1>2. x \in Seq(Seq(T)) /\ Len(x) = m /\ \A k \in 1..m : x[k] = s[k]
  BY <1>1 DEF Alike
<1>3. y \in Seq(Seq(T)) /\ Len(y) = m /\ \A k \in 1..m : y[k] = u[k]
  BY <1>1 DEF Alike
<1>4. \A k \in 1..m : x[k] = y[k]
  BY <1>1, <1>2, <1>3
<1> HIDE DEF x, y
<1> QED
  BY <1>2, <1>3, <1>4 DEF x, y

LEMMA JoinedBoth == ASSUME NEW T, NEW a \in Seq(T), NEW b \in Seq(T), NEW c \in Seq(T) PROVE a \o (b \o c) = a \o b \o c
OBVIOUS

\* What an element adds to a path, and to which paths.
Adds(f, j) == IF NameOf(f, j) # <<>> THEN <<"/">> \o NameOf(f, j) ELSE <<>>
Spelling(f, i) == [j \in DOMAIN trees[f] |-> IF j \in Around(f, i) /\ NameOf(f, j) # <<>> THEN <<"/">> \o NameOf(f, j) ELSE <<>>]

Spells(f, i, s) ==
    /\ s \in Seq(Seq(Signals)) /\ Len(s) = Len(trees[f])
    /\ \A j \in 1..Len(trees[f]) : (j \in Around(f, i) => s[j] = Adds(f, j)) /\ (j \notin Around(f, i) => s[j] = <<>>)
    /\ Spelled(f, i) = FlattenSeq(s)

LEMMA SpellingIs == ASSUME NEW f, Parents(trees[f]), NEW i PROVE Spells(f, i, Spelling(f, i))
<1>0. PICK t : t = trees[f]
  OBVIOUS
<1>1. DOMAIN t = 1..Len(t) /\ Len(t) \in Nat
  BY <1>0 DEF Parents
<1>2. PICK s : s = Spelling(f, i)
  OBVIOUS
<1>3. s = [j \in 1..Len(t) |-> IF j \in Around(f, i) /\ NameOf(f, j) # <<>> THEN <<"/">> \o NameOf(f, j) ELSE <<>>]
  BY <1>0, <1>1, <1>2 DEF Spelling
<1>4. ASSUME NEW j \in 1..Len(t)
      PROVE  /\ s[j] \in Seq(Signals) /\ (j \in Around(f, i) => s[j] = Adds(f, j)) /\ (j \notin Around(f, i) => s[j] = <<>>)
  <2>1. NameOf(f, j) \in Seq(Signals) /\ <<"/">> \in Seq(Signals)
    BY NameTyped, SignalsOf
  <2>2. PICK c : c = <<"/">> \o NameOf(f, j)
    OBVIOUS
  <2>3. c \in Seq(Signals)
    BY <2>1, <2>2
  <2>4. s[j] = IF j \in Around(f, i) /\ NameOf(f, j) # <<>> THEN c ELSE <<>>
    BY <1>3, <2>2
  <2>5. Adds(f, j) = IF NameOf(f, j) # <<>> THEN c ELSE <<>>
    BY <2>2 DEF Adds
  <2> QED BY <2>3, <2>4, <2>5
<1>5. s \in [1..Len(t) -> Seq(Signals)]
  BY <1>3, <1>4
<1>6. s \in Seq(Seq(Signals)) /\ Len(s) = Len(t)
  BY <1>1, <1>5
<1>7. Spelled(f, i) = FlattenSeq(s)
  BY <1>2 DEF Spelled, Spelling
<1> QED
  BY <1>0, <1>2, <1>4, <1>6, <1>7 DEF Spells

\* The path the validator hands down is the one the bytes spell.
LEMMA SpelledIs ==
    ASSUME JustInv, stage # "load", ScannedWell, NEW f \in DOMAIN trees, NEW i \in 1..Len(trees[f])
    PROVE  Spelled(f, i) = nodePath(f)[i]
<1>1. PICK t, n : t = trees[f] /\ n = Len(t)
  OBVIOUS
<1>2. Parents(t) /\ n \in Nat /\ \A k \in 1..n : t[k].parent \in 0..(k - 1) /\ (t[k].parent = 0 <=> k = 1)
  <2>1. Parents(t)
    BY <1>1, FileTree
  <2> QED BY <1>1, <2>1 DEF Parents
<1>3. /\ nodePath(f) \in [0..n -> Seq(Signals)] /\ nodePath(f)[0] = <<>>
      /\ \A k \in 1..n : nodePath(f)[k] = IF NameOf(f, k) = <<>> THEN nodePath(f)[t[k].parent]
                                          ELSE nodePath(f)[t[k].parent] \o <<"/">> \o NameOf(f, k)
  <2>1. \A k \in 1..Len(trees[f]) : NameOf(f, k) \in Seq(Signals)
    BY <1>1, <1>2, NameTyped
  <2> QED BY <1>1, <1>2, <2>1, PathIs
<1>4. ASSUME NEW k \in 1..n PROVE nodePath(f)[k] = nodePath(f)[t[k].parent] \o Adds(f, k)
  <2>1. PICK y : y = nodePath(f)[t[k].parent]
    OBVIOUS
  <2>2. y \in Seq(Signals)
    <3>1. t[k].parent \in 0..n
      BY <1>2
    <3> QED BY <1>3, <2>1, <3>1
  <2>3. NameOf(f, k) \in Seq(Signals) /\ <<"/">> \in Seq(Signals)
    BY <1>1, <1>2, NameTyped, SignalsOf
  <2>4. y \o <<>> = y
    BY <2>2
  <2>5. y \o (<<"/">> \o NameOf(f, k)) = y \o <<"/">> \o NameOf(f, k)
    BY <2>2, <2>3, JoinedBoth
  <2> QED BY <1>3, <2>1, <2>4, <2>5 DEF Adds
<1>5. ASSUME NEW k \in 1..n
      PROVE  /\ Around(f, k) \subseteq 1..k /\ k \in Around(f, k) /\ (k = 1 => Around(f, k) = {1})
             /\ k # 1 => \A j \in 1..n : j \in Around(f, k) <=> j = k \/ j \in Around(f, t[k].parent)
  BY <1>1, AroundIs
<1> DEFINE P == {k \in 0..n : \A j \in 1..k : Spelled(f, j) = nodePath(f)[j]}
<1>6. 0 \in P
  BY <1>2
<1>7. ASSUME NEW k \in 1..n, k - 1 \in P PROVE k \in P
  <2>1. PICK s : Spells(f, k, s)
    BY <1>1, <1>2, SpellingIs
  <2>2. /\ s \in Seq(Seq(Signals)) /\ Len(s) = n
        /\ \A j \in 1..n : (j \in Around(f, k) => s[j] = Adds(f, j)) /\ (j \notin Around(f, k) => s[j] = <<>>)
        /\ Spelled(f, k) = FlattenSeq(s)
    BY <1>1, <2>1 DEF Spells
  <2>3. PICK F \in [0..n -> Seq(Signals)] : Flat(F, s)
    BY <2>2, Flattened
  <2>4. FlattenSeq(s) = F[k]
    <3>1. k \in 0..Len(s)
      BY <1>2, <2>2
    <3>2. ASSUME NEW j \in (k + 1)..Len(s) PROVE s[j] = <<>>
      <4>1. j \in 1..n /\ j \notin 1..k
        BY <1>2, <2>2
      <4>2. j \notin Around(f, k)
        BY <1>5, <4>1
      <4> QED BY <2>2, <4>1, <4>2
    <3>3. Bare(s, k)
      BY <3>1, <3>2 DEF Bare
    <3> QED BY <2>2, <2>3, <3>3, FlatTail
  <2>5. F[k] = F[k - 1] \o Adds(f, k) /\ k - 1 \in 0..n
    <3>1. s[k] = Adds(f, k)
      BY <1>5, <2>2
    <3>2. F[k] = F[k - 1] \o s[k]
      BY <2>2, <2>3 DEF Flat
    <3> QED BY <1>2, <3>1, <3>2
  <2>6. F[k - 1] = nodePath(f)[t[k].parent]
    <3>1. CASE k = 1
      <4>1. F[0] = <<>>
        BY <2>3 DEF Flat
      <4>2. t[k].parent = 0 /\ k - 1 = 0
        BY <1>2, <3>1
      <4> QED BY <1>3, <4>1, <4>2
    <3>2. CASE k # 1
      <4>1. PICK p : p = t[k].parent
        OBVIOUS
      <4>2. p \in 1..(k - 1) /\ p \in 1..n /\ p \in Nat
        <5>1. p \in 0..(k - 1) /\ p # 0
          BY <1>2, <3>2, <4>1
        <5> QED BY <1>2, <5>1
      <4>3. PICK u : Spells(f, p, u)
        BY <1>1, <1>2, SpellingIs
      <4>4. /\ u \in Seq(Seq(Signals)) /\ Len(u) = n
            /\ \A j \in 1..n : (j \in Around(f, p) => u[j] = Adds(f, j)) /\ (j \notin Around(f, p) => u[j] = <<>>)
            /\ Spelled(f, p) = FlattenSeq(u)
        BY <1>1, <4>3 DEF Spells
      <4>5. PICK G \in [0..n -> Seq(Signals)] : Flat(G, u)
        BY <4>4, Flattened
      <4>6. FlattenSeq(u) = G[k - 1]
        <5>1. k - 1 \in 0..Len(u)
          BY <1>2, <4>4
        <5>2. ASSUME NEW j \in ((k - 1) + 1)..Len(u) PROVE u[j] = <<>>
          <6>1. j \in 1..n /\ j \notin 1..p
            BY <1>2, <4>2, <4>4
          <6>2. j \notin Around(f, p)
            BY <1>5, <4>2, <6>1
          <6> QED BY <4>4, <6>1, <6>2
        <5>3. Bare(u, k - 1)
          BY <5>1, <5>2 DEF Bare
        <5> QED BY <4>4, <4>5, <5>3, FlatTail
      <4>7. F[k - 1] = G[k - 1]
        <5>1. k - 1 \in 0..Len(s) /\ k - 1 \in 0..Len(u)
          <6>1. k - 1 \in 0..n
            BY <1>2
          <6> QED BY <2>2, <4>4, <6>1
        <5>2. ASSUME NEW j \in 1..(k - 1) PROVE s[j] = u[j]
          <6>1. j \in 1..n /\ j # k
            BY <1>2
          <6>2. j \in Around(f, k) <=> j \in Around(f, p)
            BY <1>5, <3>2, <4>1, <6>1
          <6> QED BY <2>2, <4>4, <6>1, <6>2
        <5>3. Alike(Signals, s, u, k - 1)
          BY <2>2, <4>4, <5>1, <5>2 DEF Alike
        <5>4. SubSeq(s, 1, k - 1) = SubSeq(u, 1, k - 1)
          BY <5>3, AlikeBegins
        <5>5. FlattenSeq(SubSeq(s, 1, k - 1)) = F[k - 1]
          BY <2>3, <5>1 DEF Flat
        <5>6. FlattenSeq(SubSeq(u, 1, k - 1)) = G[k - 1]
          BY <4>5, <5>1 DEF Flat
        <5> QED BY <5>4, <5>5, <5>6
      <4>8. Spelled(f, p) = nodePath(f)[p]
        BY <1>7, <4>2
      <4> QED BY <4>1, <4>4, <4>6, <4>7, <4>8
    <3> QED BY <3>1, <3>2
  <2>7. Spelled(f, k) = nodePath(f)[k]
    BY <1>4, <2>2, <2>4, <2>5, <2>6
  <2>8. \A j \in 1..k : j \in 1..(k - 1) \/ j = k
    OBVIOUS
  <2> QED BY <1>7, <2>7, <2>8
<1>8. 0..n \subseteq P
  <2> HIDE DEF P
  <2> QED BY <1>2, <1>6, <1>7, Turns
<1> QED
  BY <1>1, <1>2, <1>8

--------------------------------------------------------------------------------
(* References *)

\* The one that comes first in file and document order.
Foremost(E, e) == \A o \in E : e[1] < o[1] \/ (e[1] = o[1] /\ e[2] <= o[2])
Bearers(path) == {e \in Elements : nodePath(e[1])[e[2]] = path}

LEMMA ElementIs ==
    ASSUME NEW e
    PROVE  e \in Elements <=> \E g \in DOMAIN trees : \E j \in Entries(g) : e = <<g, j>>
BY DEF Elements

LEMMA ClaimantIs ==
    ASSUME JustInv, stage # "load", NEW path
    PROVE  /\ Bearers(path) = {} <=> Claimant(path) = <<0, 0>>
           /\ Claimant(path) # <<0, 0>> => Claimant(path) \in Bearers(path) /\ Foremost(Bearers(path), Claimant(path))
<1> DEFINE named(g) == {i \in Entries(g) : nodePath(g)[i] = path}
           files == {g \in DOMAIN trees : \E i \in Entries(g) : nodePath(g)[i] = path}
<1>1. DOMAIN trees = 1..Len(disk) /\ Len(disk) \in Nat
  <2>1. disk \in Seq(Inputs) /\ trees \in [1..Len(disk) -> Seq(Nodes)]
    BY DEF JustInv, ValidInv, LoadInv, Files
  <2> QED BY <2>1
<1>2. ASSUME NEW g \in DOMAIN trees PROVE Entries(g) \subseteq 1..Len(trees[g]) /\ Entries(g) \subseteq Nat
  <2>1. Parents(trees[g])
    BY DoneFiles
  <2>2. Visited(g) \subseteq 1..Len(trees[g]) /\ Len(trees[g]) \in Nat
    BY <2>1, VisitedIs DEF Parents
  <2> QED BY <2>2 DEF Entries
<1>3. files \subseteq Nat
  BY <1>1
<1>4. CASE files = {}
  <2>1. Claimant(path) = <<0, 0>>
    BY <1>4, Zenon DEF Claimant
  <2>2. Bearers(path) = {}
    <3> SUFFICES ASSUME NEW e \in Elements, nodePath(e[1])[e[2]] = path PROVE FALSE
      BY DEF Bearers
    <3>1. PICK g \in DOMAIN trees : \E j \in Entries(g) : e = <<g, j>>
      BY ElementIs
    <3>2. PICK j \in Entries(g) : e = <<g, j>>
      BY <3>1
    <3>3. e[1] = g /\ e[2] = j
      BY <3>2
    <3>4. g \in files
      BY <3>3
    <3> QED BY <1>4, <3>4
  <2> QED BY <2>1, <2>2
<1>5. CASE files # {}
  <2>1. PICK g : g = Min(files)
    OBVIOUS
  <2>2. g \in files /\ \A y \in files : g <= y
    <3> HIDE DEF files
    <3> QED BY <1>3, <1>5, <2>1, MinIn
  <2>3. g \in DOMAIN trees /\ named(g) # {} /\ g \in Nat /\ g # 0
    BY <1>1, <2>2
  <2>4. named(g) \subseteq Nat
    BY <1>2, <2>3
  <2>5. PICK i : i = Min(named(g))
    OBVIOUS
  <2>6. i \in named(g) /\ \A y \in named(g) : i <= y
    <3> HIDE DEF named
    <3> QED BY <2>3, <2>4, <2>5, MinIn
  <2>7. Claimant(path) = <<g, i>>
    BY <1>5, <2>1, <2>5, Zenon DEF Claimant
  <2>8. PICK c : c = <<g, i>>
    OBVIOUS
  <2>9. c[1] = g /\ c[2] = i /\ c # <<0, 0>>
    <3>1. c[1] = g /\ c[2] = i
      BY <2>8
    <3>2. c = <<0, 0>> => c[1] = 0
      OBVIOUS
    <3> QED BY <2>3, <3>1, <3>2
  <2>10. i \in Entries(g) /\ nodePath(g)[i] = path
    BY <2>6
  <2>11. c \in Elements
    BY <2>3, <2>8, <2>10, ElementIs
  <2>12. c \in Bearers(path)
    BY <2>9, <2>10, <2>11 DEF Bearers
  <2>13. ASSUME NEW o \in Bearers(path) PROVE c[1] < o[1] \/ (c[1] = o[1] /\ c[2] <= o[2])
    <3>1. o \in Elements /\ nodePath(o[1])[o[2]] = path
      BY DEF Bearers
    <3>2. PICK h \in DOMAIN trees : \E j \in Entries(h) : o = <<h, j>>
      BY <3>1, ElementIs
    <3>3. PICK j \in Entries(h) : o = <<h, j>>
      BY <3>2
    <3>4. o[1] = h /\ o[2] = j
      BY <3>3
    <3>5. h \in files /\ j \in named(h)
      BY <3>1, <3>4
    <3>6. g <= h /\ h \in Nat
      BY <1>3, <2>2, <3>5
    <3>7. g = h => i <= j
      BY <2>6, <3>5
    <3>8. g < h \/ g = h
      BY <2>3, <3>6
    <3> QED BY <2>9, <3>4, <3>7, <3>8
  <2>14. Foremost(Bearers(path), c)
    BY <2>13 DEF Foremost
  <2> QED BY <2>7, <2>8, <2>9, <2>12, <2>14
<1> QED
  BY <1>4, <1>5

\* Only one comes first.
LEMMA ForemostOne ==
    ASSUME JustInv, stage # "load", NEW path, NEW c \in Bearers(path), Foremost(Bearers(path), c),
           NEW e \in Bearers(path), Foremost(Bearers(path), e)
    PROVE  e = c
<1>1. DOMAIN trees = 1..Len(disk) /\ Len(disk) \in Nat
  <2>1. disk \in Seq(Inputs) /\ trees \in [1..Len(disk) -> Seq(Nodes)]
    BY DEF JustInv, ValidInv, LoadInv, Files
  <2> QED BY <2>1
<1>2. ASSUME NEW o \in Bearers(path) PROVE o[1] \in Nat /\ o[2] \in Nat /\ o = <<o[1], o[2]>>
  <2>1. o \in Elements
    BY DEF Bearers
  <2>2. PICK h \in DOMAIN trees : \E j \in Entries(h) : o = <<h, j>>
    BY <2>1, ElementIs
  <2>3. PICK j \in Entries(h) : o = <<h, j>>
    BY <2>2
  <2>4. j \in Nat /\ h \in Nat
    <3>1. Parents(trees[h])
      BY DoneFiles
    <3>2. Visited(h) \subseteq 1..Len(trees[h]) /\ Len(trees[h]) \in Nat
      BY <3>1, VisitedIs DEF Parents
    <3> QED BY <1>1, <3>2 DEF Entries
  <2> QED BY <2>3, <2>4
<1>3. c[1] < e[1] \/ (c[1] = e[1] /\ c[2] <= e[2])
  BY DEF Foremost
<1>4. e[1] < c[1] \/ (e[1] = c[1] /\ e[2] <= c[2])
  BY DEF Foremost
<1>5. c[1] \in Nat /\ c[2] \in Nat /\ e[1] \in Nat /\ e[2] \in Nat
  BY <1>2
<1>6. c[1] = e[1] /\ c[2] = e[2]
  BY <1>3, <1>4, <1>5
<1>7. c = <<c[1], c[2]>> /\ e = <<e[1], e[2]>>
  BY <1>2
<1> QED
  BY <1>6, <1>7

\* What the findings say of a reference is what its judgement says.
LEMMA ReferenceTold ==
    ASSUME JustInv, stage = "done", NEW f \in DOMAIN trees, NEW i \in RefSites(f)
    PROVE  LET path == trimText(trees[f][i].text) IN
           {y \in findings : y.file = f /\ y.location = i /\ y.path = path /\ y.code # "shortname.duplicate"} = Judge(f, i)
<1>1. PICK path : path = trimText(trees[f][i].text)
  OBVIOUS
<1>2. path # <<>>
  BY <1>1 DEF RefSites
<1>3. /\ TreeFindings \subseteq findings
      /\ \A x \in findings : x.code \in SchemaCodes \/ x \in TreeFindings
      /\ \A x \in findings : x.code \in SchemaCodes => x.path = <<>>
  BY DEF JustInv, Accounted
<1>4. ASSUME NEW g \in DOMAIN trees, NEW j \in RefSites(g), NEW x \in Judge(g, j)
      PROVE  x \in findings /\ x.file = g /\ x.location = j /\ x.path = trimText(trees[g][j].text) /\ x.code # "shortname.duplicate"
  <2>1. PICK p : p = trimText(trees[g][j].text)
    OBVIOUS
  <2>2. PICK code \in {"ref.dangling", "ref.dest_unrecognized", "ref.type_mismatch"} : x = Finding(code, g, j, p, 0)
    BY <1>4, <2>1, Zenon DEF Judge
  <2>3. x.file = g /\ x.location = j /\ x.path = p /\ x.code = code
    BY <2>2 DEF Finding
  <2>4. x \in UNION {Judge(g, k) : k \in RefSites(g)}
    BY <1>4
  <2>5. x \in validateReferences
    BY <2>4 DEF validateReferences
  <2> QED BY <1>3, <2>1, <2>2, <2>3, <2>5 DEF TreeFindings
<1>5. ASSUME NEW x \in findings, x.file = f, x.location = i, x.path = path, x.code # "shortname.duplicate"
      PROVE  x \in Judge(f, i)
  <2>1. x \in TreeFindings
    BY <1>2, <1>3, <1>5
  <2>2. x \notin validateUniqueness
    <3> SUFFICES ASSUME x \in validateUniqueness PROVE FALSE
      OBVIOUS
    <3>1. PICK g \in DOMAIN trees : x \in UNION {checkNode(g, q) : q \in Visited(g)}
      BY Zenon DEF validateUniqueness
    <3>2. PICK q \in Visited(g) : x \in checkNode(g, q)
      BY <3>1, Zenon
    <3>3. PICK name : x = Duplicate(g, q, name)
      BY <3>2, Zenon DEF checkNode, Duplicate
    <3>4. x.code = "shortname.duplicate"
      BY <3>3 DEF Duplicate, Finding
    <3> QED BY <1>5, <3>4
  <2>3. x \in validateReferences
    BY <2>1, <2>2 DEF TreeFindings
  <2>4. PICK g \in DOMAIN trees : x \in UNION {Judge(g, k) : k \in RefSites(g)}
    BY <2>3, Zenon DEF validateReferences
  <2>5. PICK j \in RefSites(g) : x \in Judge(g, j)
    BY <2>4, Zenon
  <2>6. x.file = g /\ x.location = j
    BY <1>4, <2>5
  <2> QED BY <1>5, <2>5, <2>6
<1>6. ASSUME NEW x \in Judge(f, i)
      PROVE  x \in findings /\ x.file = f /\ x.location = i /\ x.path = path /\ x.code # "shortname.duplicate"
  BY <1>1, <1>4
<1>7. {y \in findings : y.file = f /\ y.location = i /\ y.path = path /\ y.code # "shortname.duplicate"} = Judge(f, i)
  BY <1>5, <1>6
<1> QED
  BY <1>1, <1>7

LEMMA MeantIs ==
    ASSUME JustInv, stage # "load", ScannedWell, NEW path
    PROVE  {e \in Elements : Spelled(e[1], e[2]) = path} = Bearers(path)
<1>1. ASSUME NEW e \in Elements PROVE Spelled(e[1], e[2]) = nodePath(e[1])[e[2]]
  <2>1. PICK g \in DOMAIN trees : \E j \in Entries(g) : e = <<g, j>>
    BY ElementIs
  <2>2. PICK j \in Entries(g) : e = <<g, j>>
    BY <2>1
  <2>3. e[1] = g /\ e[2] = j
    BY <2>2
  <2>4. j \in 1..Len(trees[g])
    <3>1. Parents(trees[g])
      BY DoneFiles
    <3> QED BY <3>1, VisitedIs DEF Entries
  <2>5. Spelled(g, j) = nodePath(g)[j]
    BY <2>4, SpelledIs
  <2> QED BY <2>3, <2>5
<1> QED
  BY <1>1 DEF Bearers

\* The codes of a judgement.
Codes(f, i) == {x.code : x \in Judge(f, i)}

LEMMA JudgeIs ==
    ASSUME NEW f, NEW i, NEW c, c = Claimant(trimText(trees[f][i].text)), NEW dest, dest = trees[f][i].dest
    PROVE  /\ c = <<0, 0>> => Codes(f, i) = {"ref.dangling"}
           /\ c # <<0, 0>> /\ dest \notin DOMAIN destToTags => Codes(f, i) = {"ref.dest_unrecognized"}
           /\ c # <<0, 0>> /\ dest \in DOMAIN destToTags /\ trees[c[1]][c[2]].tag \notin destToTags[dest] =>
                 Codes(f, i) = {"ref.type_mismatch"}
           /\ c # <<0, 0>> /\ dest \in DOMAIN destToTags /\ trees[c[1]][c[2]].tag \in destToTags[dest] =>
                 Codes(f, i) = {}
<1>1. PICK path : path = trimText(trees[f][i].text)
  OBVIOUS
<1>2. ASSUME NEW code, Judge(f, i) = {Finding(code, f, i, path, 0)} PROVE Codes(f, i) = {code}
  <2>1. Finding(code, f, i, path, 0).code = code
    BY DEF Finding
  <2> QED BY <1>2, <2>1 DEF Codes
<1>3. Judge(f, i) =
        CASE c = <<0, 0>> -> {Finding("ref.dangling", f, i, path, 0)}
          [] c # <<0, 0>> /\ dest \notin DOMAIN destToTags -> {Finding("ref.dest_unrecognized", f, i, path, 0)}
          [] c # <<0, 0>> /\ dest \in DOMAIN destToTags /\ trees[c[1]][c[2]].tag \notin destToTags[dest] ->
               {Finding("ref.type_mismatch", f, i, path, 0)}
          [] OTHER -> {}
  BY <1>1, Zenon DEF Judge
<1>4. CASE c = <<0, 0>>
  <2>1. Judge(f, i) = {Finding("ref.dangling", f, i, path, 0)}
    BY <1>3, <1>4
  <2>2. Codes(f, i) = {"ref.dangling"}
    BY <1>2, <2>1
  <2> QED BY <1>4, <2>2
<1>5. CASE c # <<0, 0>> /\ dest \notin DOMAIN destToTags
  <2>1. Judge(f, i) = {Finding("ref.dest_unrecognized", f, i, path, 0)}
    BY <1>3, <1>5
  <2>2. Codes(f, i) = {"ref.dest_unrecognized"}
    BY <1>2, <2>1
  <2> QED BY <1>5, <2>2
<1>6. CASE c # <<0, 0>> /\ dest \in DOMAIN destToTags /\ trees[c[1]][c[2]].tag \notin destToTags[dest]
  <2>1. Judge(f, i) = {Finding("ref.type_mismatch", f, i, path, 0)}
    BY <1>3, <1>6
  <2>2. Codes(f, i) = {"ref.type_mismatch"}
    BY <1>2, <2>1
  <2> QED BY <1>6, <2>2
<1>7. CASE c # <<0, 0>> /\ dest \in DOMAIN destToTags /\ trees[c[1]][c[2]].tag \in destToTags[dest]
  <2>1. Judge(f, i) = {}
    BY <1>3, <1>7
  <2>2. Codes(f, i) = {}
    BY <2>1 DEF Codes
  <2> QED BY <1>7, <2>2
<1> QED
  BY <1>4, <1>5, <1>6, <1>7

LEMMA ReferenceJust == ASSUME JustInv PROVE ReferencesJust
<1> SUFFICES ASSUME stage = "done", ScannedWell, NEW f \in DOMAIN trees, NEW i \in RefSites(f)
             PROVE  LET path == trimText(trees[f][i].text)
                        dest == trees[f][i].dest
                        meant == {e \in Elements : Spelled(e[1], e[2]) = path}
                        first(e) == \A o \in meant : e[1] < o[1] \/ (e[1] = o[1] /\ e[2] <= o[2])
                        tag == {trees[e[1]][e[2]].tag : e \in {o \in meant : first(o)}}
                        told == {x.code : x \in {y \in findings : y.file = f /\ y.location = i /\ y.path = path
                                                                 /\ y.code # "shortname.duplicate"}}
                    IN CASE meant = {} -> told = {"ref.dangling"}
                         [] meant # {} /\ dest \notin DOMAIN destToTags -> told = {"ref.dest_unrecognized"}
                         [] OTHER -> told = IF tag \subseteq destToTags[dest] THEN {} ELSE {"ref.type_mismatch"}
  BY Zenon DEF ReferencesJust
<1> DEFINE path == trimText(trees[f][i].text)
           dest == trees[f][i].dest
           meant == {e \in Elements : Spelled(e[1], e[2]) = path}
           first(e) == \A o \in meant : e[1] < o[1] \/ (e[1] = o[1] /\ e[2] <= o[2])
           tag == {trees[e[1]][e[2]].tag : e \in {o \in meant : first(o)}}
           told == {x.code : x \in {y \in findings : y.file = f /\ y.location = i /\ y.path = path
                                                    /\ y.code # "shortname.duplicate"}}
           c == Claimant(path)
<1>1. meant = Bearers(path)
  BY MeantIs
<1>2. told = {x.code : x \in Judge(f, i)}
  <2>1. {y \in findings : y.file = f /\ y.location = i /\ y.path = path /\ y.code # "shortname.duplicate"} = Judge(f, i)
    BY ReferenceTold
  <2> QED BY <2>1
<1>3. /\ c = <<0, 0>> => told = {"ref.dangling"}
      /\ c # <<0, 0>> /\ dest \notin DOMAIN destToTags => told = {"ref.dest_unrecognized"}
      /\ c # <<0, 0>> /\ dest \in DOMAIN destToTags /\ trees[c[1]][c[2]].tag \notin destToTags[dest] => told = {"ref.type_mismatch"}
      /\ c # <<0, 0>> /\ dest \in DOMAIN destToTags /\ trees[c[1]][c[2]].tag \in destToTags[dest] => told = {}
  <2>1. PICK e, g : e = c /\ g = dest
    OBVIOUS
  <2>2. /\ e = <<0, 0>> => Codes(f, i) = {"ref.dangling"}
        /\ e # <<0, 0>> /\ g \notin DOMAIN destToTags => Codes(f, i) = {"ref.dest_unrecognized"}
        /\ e # <<0, 0>> /\ g \in DOMAIN destToTags /\ trees[e[1]][e[2]].tag \notin destToTags[g] => Codes(f, i) = {"ref.type_mismatch"}
        /\ e # <<0, 0>> /\ g \in DOMAIN destToTags /\ trees[e[1]][e[2]].tag \in destToTags[g] => Codes(f, i) = {}
    BY <2>1, JudgeIs
  <2>3. told = Codes(f, i)
    BY <1>2 DEF Codes
  <2> HIDE DEF told, c, dest
  <2> QED BY <2>1, <2>2, <2>3
<1>4. /\ meant = {} <=> c = <<0, 0>>
      /\ c # <<0, 0>> => c \in meant /\ Foremost(meant, c)
  <2> HIDE DEF meant, path
  <2>1. stage # "load"
    OBVIOUS
  <2> QED BY <1>1, <2>1, ClaimantIs
<1>5. \A e : first(e) <=> Foremost(meant, e)
  BY Zenon DEF Foremost
<1>6. ASSUME c # <<0, 0>> PROVE tag = {trees[c[1]][c[2]].tag}
  <2>1. c \in meant /\ Foremost(meant, c)
    BY <1>4, <1>6
  <2>2. ASSUME NEW e \in meant, Foremost(meant, e) PROVE e = c
    <3> HIDE DEF meant, path, c
    <3> QED BY <1>1, <2>1, <2>2, ForemostOne
  <2>3. {o \in meant : first(o)} = {c}
    <3> HIDE DEF meant, first, c
    <3> QED BY <1>5, <2>1, <2>2
  <2> HIDE DEF meant, first, c
  <2> QED BY <2>3 DEF tag
<1> HIDE DEF meant, first, tag, told, c, dest, path
<1>7. CASE meant = {}
  <2>1. told = {"ref.dangling"}
    BY <1>3, <1>4, <1>7
  <2> QED BY <1>7, <2>1, Zenon DEF meant, told, path
<1>8. CASE meant # {} /\ dest \notin DOMAIN destToTags
  <2>1. told = {"ref.dest_unrecognized"}
    BY <1>3, <1>4, <1>8
  <2> QED BY <1>8, <2>1, Zenon DEF meant, told, path, dest
<1>9. CASE meant # {} /\ dest \in DOMAIN destToTags
  <2>1. told = IF tag \subseteq destToTags[dest] THEN {} ELSE {"ref.type_mismatch"}
    BY <1>3, <1>4, <1>6, <1>9
  <2> QED BY <1>9, <2>1, Zenon DEF meant, told, path, dest, tag, first
<1> QED
  BY <1>7, <1>8, <1>9

LEMMA JustFindings == ASSUME JustInv PROVE FindingsJust
BY ReferenceJust, DuplicateJust, SchemaJust DEF FindingsJust

\* What the validator says of references and duplicate names is true and all there is to
\* say, and what the schema rejects lies on its line while nobody writes to the file
\* (validator_references.cpp:125-196, validator_uniqueness.cpp, validator_schema.cpp:36-77).
THEOREM TruthOfFindings == Spec => []FindingsJust
<1>1. Spec => []JustInv
  BY JustBegins, JustKept, PTL DEF Spec
<1> QED
  BY <1>1, JustFindings, PTL

================================================================================
