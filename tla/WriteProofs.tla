------------------------------ MODULE WriteProofs ------------------------------
(***************************************************************************)
(* Writing.  The document, for any projects without an '&' and any number  *)
(* of rounds: what write() saves reads back, and the order of its input    *)
(* never shows in it.  For that, each builder of an element is shown to be *)
(* undone by the parser's, on trees kept as sequences of rows, then the    *)
(* document of a whole project, then the program.                          *)
(*                                                                         *)
(* The file, for any number of invocations, blocks and failures: unless    *)
(* the temporary name was open to two at once, outputPath always holds one *)
(* whole document, the one the exit codes speak of; the temporary name is  *)
(* left behind only by a kill or by a remove that failed; and a command    *)
(* that fails says nothing else.                                           *)
(***************************************************************************)
EXTENDS WriteContent, Cli, WellFoundedInduction, FiniteSetTheorems, TLAPS

--------------------------------------------------------------------------------
(* Numbers and recursive functions *)

LEMMA Least == ASSUME NEW S, S \subseteq Nat, S # {} PROVE \E x \in S : \A y \in S : x <= y
<1>1. IsWellFoundedOn(OpToRel(<, Nat), Nat)
  BY NatLessThanWellFounded
<1>2. PICK x \in S : \A y \in S : ~ (<<y, x>> \in OpToRel(<, Nat))
  BY <1>1, WFMin
<1>3. ASSUME NEW y \in S PROVE x <= y
  <2>1. ~ (<<y, x>> \in OpToRel(<, Nat))
    BY <1>2
  <2>2. y \in Nat /\ x \in Nat
    OBVIOUS
  <2>3. ~ (y < x)
    BY <2>1, <2>2 DEF OpToRel
  <2> QED
    BY <2>2, <2>3
<1> QED
  BY <1>2, <1>3

\* Induction up to n, on a set.
LEMMA Turns ==
    ASSUME NEW n \in Nat, NEW P, 0 \in P, \A i \in 1..n : i - 1 \in P => i \in P
    PROVE  0..n \subseteq P
<1> DEFINE Q == (0..n) \ P
<1> SUFFICES ASSUME Q # {} PROVE FALSE
  OBVIOUS
<1>0. Q \subseteq Nat /\ \A y \in Q : y \in 0..n /\ y \notin P
  OBVIOUS
<1>1. PICK x \in Q : \A y \in Q : x <= y
  <2> HIDE DEF Q
  <2> QED BY <1>0, Least
<1>2. x # 0 /\ x \in 1..n /\ x - 1 \in 0..n
  BY <1>0
<1>3. x - 1 \in P
  BY <1>1, <1>2
<1> QED
  BY <1>1, <1>2, <1>3

\* A function on 0..n whose values each follow from the one before.
Chain(g, n, b, G) == g[0] = b /\ \A k \in 1..n : g[k] = G[<<k, g[k - 1]>>]

LEMMA ChainDefined ==
    ASSUME NEW n \in Nat, NEW V, NEW b \in V, NEW G \in [(1..n) \X V -> V]
    PROVE  \E g \in [0..n -> V] : Chain(g, n, b, G)
<1> DEFINE P == {i \in 0..n : \E g \in [0..i -> V] : Chain(g, i, b, G)}
<1>1. 0 \in P
  <2>1. [k \in 0..0 |-> b] \in [0..0 -> V] /\ Chain([k \in 0..0 |-> b], 0, b, G)
    BY DEF Chain
  <2> QED BY <2>1
<1>2. ASSUME NEW i \in 1..n, i - 1 \in P PROVE i \in P
  <2>1. PICK g \in [0..(i - 1) -> V] : Chain(g, i - 1, b, G)
    BY <1>2
  <2>2. i - 1 \in 0..(i - 1) /\ g[i - 1] \in V /\ i \in 0..n
    OBVIOUS
  <2>3. G[<<i, g[i - 1]>>] \in V
    BY <2>2
  <2> DEFINE h == [k \in 0..i |-> IF k = i THEN G[<<i, g[i - 1]>>] ELSE g[k]]
  <2>4. ASSUME NEW k \in 0..i PROVE (IF k = i THEN G[<<i, g[i - 1]>>] ELSE g[k]) \in V
    <3>1. k # i => k \in 0..(i - 1)
      OBVIOUS
    <3> QED BY <2>3, <3>1
  <2>5. h \in [0..i -> V]
    BY <2>4
  <2>6. h[i] = G[<<i, g[i - 1]>>] /\ \A k \in 0..(i - 1) : h[k] = g[k]
    OBVIOUS
  <2> HIDE DEF h
  <2>7. h[0] = b
    <3>1. 0 \in 0..(i - 1)
      OBVIOUS
    <3> QED BY <2>1, <2>6, <3>1 DEF Chain
  <2>8. ASSUME NEW k \in 1..i PROVE h[k] = G[<<k, h[k - 1]>>]
    <3>1. k - 1 \in 0..(i - 1) /\ (k = i \/ (k \in 1..(i - 1) /\ k \in 0..(i - 1)))
      OBVIOUS
    <3> QED BY <2>1, <2>6, <3>1 DEF Chain
  <2>9. Chain(h, i, b, G)
    BY <2>7, <2>8 DEF Chain
  <2> QED BY <2>2, <2>5, <2>9
<1>3. 0..n \subseteq P
  <2> HIDE DEF P
  <2> QED BY <1>1, <1>2, Turns
<1>4. n \in P
  <2> HIDE DEF P
  <2> QED BY <1>3
<1> QED
  BY <1>4

\* FlattenSeq, from the front.
Flat(F, s) ==
    /\ F[0] = <<>> /\ \A k \in 1..Len(s) : F[k] = F[k - 1] \o s[k]
    /\ FlattenSeq(s) = F[Len(s)]

LEMMA Flattened ==
    ASSUME NEW T, NEW s \in Seq(Seq(T))
    PROVE  \E F \in [0..Len(s) -> Seq(T)] : Flat(F, s)
<1> DEFINE n == Len(s)
           G == [x \in (1..n) \X Seq(T) |-> x[2] \o s[x[1]]]
<1>1. n \in Nat /\ <<>> \in Seq(T) /\ \A k \in 1..n : s[k] \in Seq(T)
  OBVIOUS
<1>2. G \in [(1..n) \X Seq(T) -> Seq(T)]
  <2>1. ASSUME NEW x \in (1..n) \X Seq(T) PROVE x[2] \o s[x[1]] \in Seq(T)
    BY <1>1
  <2> QED BY <2>1
<1>3. PICK F \in [0..n -> Seq(T)] : Chain(F, n, <<>>, G)
  <2> HIDE DEF n, G
  <2> QED BY <1>1, <1>2, ChainDefined
<1>4. F[0] = <<>> /\ \A k \in 1..n : F[k] = F[k - 1] \o s[k]
  <2>1. ASSUME NEW k \in 1..n PROVE <<k, F[k - 1]>> \in (1..n) \X Seq(T) /\ G[<<k, F[k - 1]>>] = F[k - 1] \o s[k]
    <3>1. k - 1 \in 0..n
      OBVIOUS
    <3>2. F[k - 1] \in Seq(T)
      BY <3>1
    <3> HIDE DEF n
    <3> QED BY <3>2
  <2> HIDE DEF G
  <2> QED BY <1>3, <2>1 DEF Chain
<1>5. ASSUME NEW k \in 1..n, NEW t \in Seq(Seq(T)), Len(t) = k, \A i \in 1..k : t[i] = s[i]
      PROVE  FlattenSeq(t) = F[k]
  <2> DEFINE Eq(fl) == fl = [i \in 1..k |-> IF i = 1 THEN t[i] ELSE fl[i - 1] \o t[i]]
             new == [i \in 1..k |-> F[i]]
  <2>1. FlattenSeq(t) = (CHOOSE fl : Eq(fl))[k]
    BY <1>5 DEF FlattenSeq
  <2>2. \A i \in 1..k : i \in 0..n /\ i \in 1..n /\ (i # 1 => i - 1 \in 1..k) /\ i - 1 \in 0..n
    OBVIOUS
  <2>3. \A i \in 1..k : F[i] = IF i = 1 THEN t[i] ELSE new[i - 1] \o t[i]
    <3>1. F[1] = t[1]
      <4>0. 1 \in 1..n /\ 1 \in 1..k /\ 1 - 1 = 0
        OBVIOUS
      <4>1. F[1] = F[0] \o s[1]
        BY <1>4, <4>0
      <4>2. s[1] \in Seq(T)
        BY <1>1, <4>0
      <4>3. <<>> \o s[1] = s[1]
        BY <4>2
      <4> QED BY <1>4, <1>5, <4>0, <4>1, <4>3
    <3>2. ASSUME NEW i \in 1..k, i # 1 PROVE F[i] = new[i - 1] \o t[i]
      <4>1. i - 1 \in 1..k /\ F[i] = F[i - 1] \o s[i]
        BY <1>4, <2>2, <3>2
      <4>2. new[i - 1] = F[i - 1]
        BY <4>1
      <4> HIDE DEF new
      <4> QED BY <1>5, <4>1, <4>2
    <3> HIDE DEF new
    <3> QED BY <3>1, <3>2
  <2>4. Eq(new)
    BY <2>3, Zenon
  <2> DEFINE fl == CHOOSE f : Eq(f)
  <2>5. Eq(fl)
    <3> HIDE DEF Eq, new
    <3> QED BY <2>4
  <2>6. \A i \in 1..k : fl[i] = IF i = 1 THEN t[i] ELSE fl[i - 1] \o t[i]
    <3> HIDE DEF fl
    <3> QED BY <2>5
  <2> DEFINE P == {i \in 0..k : i = 0 \/ fl[i] = F[i]}
  <2>7. ASSUME NEW i \in 1..k, i - 1 \in P PROVE i \in P
    <3> HIDE DEF fl
    <3>1. CASE i = 1
      <4> HIDE DEF new
      <4>1. F[i] = t[i]
        BY <2>3, <3>1
      <4>2. fl[i] = t[i]
        BY <2>6, <3>1
      <4> QED BY <4>1, <4>2
    <3>2. CASE i # 1
      <4>1. i - 1 \in 1..k /\ fl[i - 1] = F[i - 1] /\ new[i - 1] = F[i - 1]
        BY <2>7, <3>2
      <4> HIDE DEF new
      <4>2. fl[i] = F[i]
        BY <2>3, <2>6, <3>2, <4>1
      <4> QED BY <4>2
    <3> QED BY <3>1, <3>2
  <2>8. k \in P
    <3> HIDE DEF fl
    <3>a. 0 \in P /\ k \in Nat
      OBVIOUS
    <3> HIDE DEF P
    <3>1. \A i \in 1..k : i - 1 \in P => i \in P
      BY <2>7
    <3>2. 0..k \subseteq P
      BY <3>a, <3>1, Turns
    <3> QED BY <3>2
  <2>9. fl[k] = F[k]
    BY <2>8
  <2> QED BY <2>1, <2>9
<1>6. FlattenSeq(s) = F[n]
  <2>1. CASE n = 0
    <3>1. s = <<>> /\ FlattenSeq(s) = s
      BY <2>1 DEF FlattenSeq
    <3> QED BY <1>4, <2>1, <3>1
  <2>2. CASE n # 0
    <3>1. n \in 1..n
      BY <2>2
    <3> QED BY <1>5, <3>1
  <2> QED BY <2>1, <2>2
<1> QED
  BY <1>4, <1>6 DEF Flat

--------------------------------------------------------------------------------
(* Sequences *)

LEMMA SeqIs == ASSUME NEW S, NEW s \in Seq(S)
               PROVE  Len(s) \in Nat /\ DOMAIN s = 1..Len(s) /\ \A k \in 1..Len(s) : s[k] \in S
OBVIOUS

LEMMA JoinIs ==
    ASSUME NEW S, NEW s \in Seq(S), NEW t \in Seq(S)
    PROVE  /\ s \o t \in Seq(S) /\ Len(s \o t) = Len(s) + Len(t)
           /\ \A k \in 1..Len(s) : (s \o t)[k] = s[k]
           /\ \A k \in 1..Len(t) : (s \o t)[Len(s) + k] = t[k]
OBVIOUS

LEMMA JoinThree == ASSUME NEW S PROVE \A x, y, z \in Seq(S) : (x \o y) \o z = x \o (y \o z)
OBVIOUS

LEMMA JoinNone == ASSUME NEW S, NEW a \in Seq(S) PROVE <<>> \o a = a /\ a \o <<>> = a
OBVIOUS

LEMMA OneIs == ASSUME NEW S, NEW a \in S PROVE <<a>> \in Seq(S) /\ Len(<<a>>) = 1 /\ <<a>>[1] = a
OBVIOUS

LEMMA SameSeq ==
    ASSUME NEW S, NEW s \in Seq(S), NEW t \in Seq(S), Len(s) = Len(t), \A k \in 1..Len(s) : s[k] = t[k]
    PROVE  s = t
OBVIOUS

\* What is written [i \in 1..n |-> x(i)] is a sequence.
LEMMA MadeSeq ==
    ASSUME NEW S, NEW n \in Nat, NEW f \in [1..n -> S]
    PROVE  f \in Seq(S) /\ Len(f) = n
OBVIOUS

\* Sequences of sequences.

LEMMA FlatTyped == ASSUME NEW T, NEW s \in Seq(Seq(T)) PROVE FlattenSeq(s) \in Seq(T)
<1>1. PICK F \in [0..Len(s) -> Seq(T)] : Flat(F, s)
  BY Flattened
<1> QED
  BY <1>1 DEF Flat

LEMMA FlatConcat ==
    ASSUME NEW T, NEW s \in Seq(Seq(T)), NEW t \in Seq(Seq(T))
    PROVE  FlattenSeq(s \o t) = FlattenSeq(s) \o FlattenSeq(t)
<1>0. PICK u \in Seq(Seq(T)) : u = s \o t
  <2>1. s \o t \in Seq(Seq(T))
    BY JoinIs
  <2> QED BY <2>1
<1>1. Len(u) = Len(s) + Len(t) /\ Len(s) \in Nat /\ Len(t) \in Nat
      /\ (\A k \in 1..Len(s) : u[k] = s[k]) /\ \A k \in 1..Len(t) : u[Len(s) + k] = t[k]
  BY <1>0, JoinIs, SeqIs
<1>2. PICK F \in [0..Len(s) -> Seq(T)] : Flat(F, s)
  BY Flattened
<1>3. PICK G \in [0..Len(t) -> Seq(T)] : Flat(G, t)
  BY Flattened
<1>4. PICK H \in [0..Len(u) -> Seq(T)] : Flat(H, u)
  BY Flattened
<1> DEFINE P == {k \in 0..Len(s) : H[k] = F[k]}
           Q == {k \in 0..Len(t) : H[Len(s) + k] = F[Len(s)] \o G[k]}
<1>5. ASSUME NEW k \in 1..Len(s), k - 1 \in P PROVE k \in P
  <2>0. k \in 1..Len(u) /\ k \in 0..Len(s)
    BY <1>1
  <2>1. F[k] = F[k - 1] \o s[k] /\ k \in 1..Len(u) /\ k \in 0..Len(s)
    BY <1>2, <2>0 DEF Flat
  <2>2. H[k] = H[k - 1] \o u[k] /\ u[k] = s[k] /\ H[k - 1] = F[k - 1]
    BY <1>1, <1>4, <1>5, <2>1 DEF Flat
  <2> QED BY <2>1, <2>2
<1>6. 0 \in P
  BY <1>1, <1>2, <1>4 DEF Flat
<1>a. Len(s) \in P
  <2>0. Len(s) \in 0..Len(s) /\ Len(s) \in Nat
    BY <1>1
  <2> HIDE DEF P
  <2>1. 0..Len(s) \subseteq P
    BY <1>5, <1>6, <2>0, Turns
  <2> QED BY <2>0, <2>1
<1>7. H[Len(s)] = F[Len(s)] /\ Len(s) \in 0..Len(s)
  BY <1>a, <1>1
<1>b. F[Len(s)] \in Seq(T)
  BY <1>7
<1>8. 0 \in Q
  <2>1. G[0] = <<>> /\ Len(s) + 0 = Len(s) /\ 0 \in 0..Len(t)
    BY <1>1, <1>3 DEF Flat
  <2>2. F[Len(s)] \o <<>> = F[Len(s)]
    BY <1>b, JoinNone
  <2> QED BY <1>7, <2>1, <2>2
<1>9. ASSUME NEW k \in 1..Len(t), k - 1 \in Q PROVE k \in Q
  <2>1. Len(s) + k \in 1..Len(u) /\ (Len(s) + k) - 1 = Len(s) + (k - 1) /\ u[Len(s) + k] = t[k]
    BY <1>1
  <2>2. H[Len(s) + k] = H[(Len(s) + k) - 1] \o u[Len(s) + k]
    BY <1>4, <2>1 DEF Flat
  <2>3. H[Len(s) + k] = (F[Len(s)] \o G[k - 1]) \o t[k]
    BY <1>9, <2>1, <2>2
  <2>4. G[k] = G[k - 1] \o t[k]
    BY <1>3 DEF Flat
  <2>5. G[k - 1] \in Seq(T)
    <3>1. k - 1 \in 0..Len(t)
      BY <1>1
    <3> QED BY <3>1
  <2>6. t[k] \in Seq(T)
    BY SeqIs
  <2>7. (F[Len(s)] \o G[k - 1]) \o t[k] = F[Len(s)] \o (G[k - 1] \o t[k])
    <3>1. \A x, y, z \in Seq(T) : (x \o y) \o z = x \o (y \o z)
      BY JoinThree, SMTT(30)
    <3> QED BY <1>b, <2>5, <2>6, <3>1, Zenon
  <2>8. k \in 0..Len(t)
    BY <1>1
  <2> QED BY <2>3, <2>4, <2>7, <2>8
<1>10. Len(t) \in Q
  <2>0. Len(t) \in 0..Len(t) /\ Len(t) \in Nat
    BY <1>1
  <2> HIDE DEF Q
  <2>1. 0..Len(t) \subseteq Q
    BY <1>8, <1>9, <2>0, Turns
  <2> QED BY <2>0, <2>1
<1>11. FlattenSeq(s) = F[Len(s)] /\ FlattenSeq(t) = G[Len(t)] /\ FlattenSeq(u) = H[Len(u)]
  BY <1>2, <1>3, <1>4 DEF Flat
<1> QED
  BY <1>0, <1>1, <1>10, <1>11

LEMMA FlatNone == FlattenSeq(<<>>) = <<>>
BY DEF FlattenSeq

LEMMA FlatOne == ASSUME NEW T, NEW a \in Seq(T) PROVE FlattenSeq(<<a>>) = a
<1>0. PICK s \in Seq(Seq(T)) : s = <<a>>
  <2>1. <<a>> \in Seq(Seq(T))
    BY OneIs
  <2> QED BY <2>1
<1>1. PICK F \in [0..Len(s) -> Seq(T)] : Flat(F, s)
  BY Flattened
<1>2. Len(s) = 1 /\ s[1] = a
  BY <1>0
<1>3. F[1] = F[1 - 1] \o a /\ F[1 - 1] = <<>> /\ FlattenSeq(s) = F[1]
  BY <1>1, <1>2 DEF Flat
<1> QED
  BY <1>0, <1>3

\* Nothing but the m-th from the m-th on.
LEMMA FlatOnly ==
    ASSUME NEW T, NEW s \in Seq(Seq(T)), NEW m \in 1..Len(s), \A k \in 1..Len(s) : k # m => s[k] = <<>>
    PROVE  FlattenSeq(s) = s[m]
<1>1. PICK F \in [0..Len(s) -> Seq(T)] : Flat(F, s)
  BY Flattened
<1> DEFINE P == {k \in 0..Len(s) : F[k] = IF k < m THEN <<>> ELSE s[m]}
<1>2. Len(s) \in Nat /\ s[m] \in Seq(T)
  OBVIOUS
<1>3. 0 \in P
  BY <1>1 DEF Flat
<1>4. ASSUME NEW k \in 1..Len(s), k - 1 \in P PROVE k \in P
  <2>1. F[k] = F[k - 1] \o s[k]
    BY <1>1 DEF Flat
  <2>2. CASE k < m
    <3>1. F[k - 1] = <<>> /\ s[k] = <<>>
      BY <1>4, <2>2
    <3> QED BY <2>1, <2>2, <3>1
  <2>3. CASE k = m
    <3>1. F[k - 1] = <<>>
      BY <1>4, <2>3
    <3> QED BY <1>2, <2>1, <2>3, <3>1
  <2>4. CASE k > m
    <3>1. F[k - 1] = s[m] /\ s[k] = <<>>
      BY <1>4, <2>4
    <3> QED BY <1>2, <2>1, <2>4, <3>1
  <2> QED BY <2>2, <2>3, <2>4
<1>5. 0..Len(s) \subseteq P
  <2> HIDE DEF P
  <2> QED BY <1>2, <1>3, <1>4, Turns
<1>6. Len(s) \in P
  <2>1. Len(s) \in 0..Len(s)
    BY <1>2
  <2> HIDE DEF P
  <2> QED BY <1>5, <2>1
<1> QED
  BY <1>1, <1>6 DEF Flat

LEMMA FlatEmpty ==
    ASSUME NEW T, NEW s \in Seq(Seq(T)), \A k \in 1..Len(s) : s[k] = <<>> PROVE FlattenSeq(s) = <<>>
<1>1. CASE Len(s) = 0
  <2>1. s = <<>>
    BY <1>1
  <2> QED BY <2>1, FlatNone
<1>2. CASE Len(s) # 0
  <2>1. 1 \in 1..Len(s)
    BY <1>2
  <2> QED BY <2>1, FlatOnly
<1> QED
  BY <1>1, <1>2

\* One of each.
LEMMA FlatEach ==
    ASSUME NEW T, NEW x \in Seq(T), NEW s \in Seq(Seq(T)), Len(s) = Len(x), \A k \in 1..Len(s) : s[k] = <<x[k]>>
    PROVE  FlattenSeq(s) = x
<1>1. PICK F \in [0..Len(s) -> Seq(T)] : Flat(F, s)
  BY Flattened
<1> DEFINE P == {k \in 0..Len(s) : Len(F[k]) = k /\ \A i \in 1..k : F[k][i] = x[i]}
<1>2. Len(s) \in Nat
  OBVIOUS
<1>3. 0 \in P
  BY <1>1 DEF Flat
<1>4. ASSUME NEW k \in 1..Len(s), k - 1 \in P PROVE k \in P
  <2>1. F[k] = F[k - 1] \o <<x[k]>>
    BY <1>1 DEF Flat
  <2>2. Len(F[k - 1]) = k - 1 /\ k - 1 \in 0..Len(s) /\ \A i \in 1..(k - 1) : F[k - 1][i] = x[i]
    BY <1>4
  <2>3. F[k - 1] \in Seq(T) /\ k \in 1..Len(x)
    BY <2>2
  <2>4. x[k] \in T
    BY <2>3
  <2> HIDE DEF P
  <2>5. <<x[k]>> \in Seq(T) /\ Len(<<x[k]>>) = 1 /\ <<x[k]>>[1] = x[k]
    BY <2>4
  <2>6. Len(F[k]) = (k - 1) + 1 /\ (\A i \in 1..(k - 1) : F[k][i] = x[i]) /\ F[k][(k - 1) + 1] = x[k]
    <3>1. PICK y \in Seq(T) : y = <<x[k]>> /\ Len(y) = 1 /\ y[1] = x[k]
      BY <2>5
    <3>2. PICK g \in Seq(T) : g = F[k - 1] /\ Len(g) = k - 1 /\ \A i \in 1..(k - 1) : g[i] = x[i]
      BY <2>2, <2>3
    <3>3. /\ Len(g \o y) = Len(g) + Len(y)
          /\ \A i \in 1..Len(g) : (g \o y)[i] = g[i]
          /\ \A i \in 1..Len(y) : (g \o y)[Len(g) + i] = y[i]
      BY JoinIs
    <3>4. F[k] = g \o y
      BY <2>1, <3>1, <3>2
    <3>5. 1 \in 1..Len(y)
      BY <3>1
    <3>6. (g \o y)[Len(g) + 1] = y[1]
      BY <3>3, <3>5
    <3> QED BY <3>1, <3>2, <3>3, <3>4, <3>6
  <2>7. \A i \in 1..k : i \in 1..(k - 1) \/ i = (k - 1) + 1
    OBVIOUS
  <2>8. Len(F[k]) = k /\ k \in 0..Len(s) /\ \A i \in 1..k : F[k][i] = x[i]
    BY <2>6, <2>7
  <2> QED BY <2>8 DEF P
<1>5. 0..Len(s) \subseteq P
  <2> HIDE DEF P
  <2> QED BY <1>2, <1>3, <1>4, Turns
<1>6. Len(s) \in P
  <2>1. Len(s) \in 0..Len(s)
    BY <1>2
  <2> HIDE DEF P
  <2> QED BY <1>5, <2>1
<1>7. F[Len(s)] = x
  <2>1. Len(F[Len(s)]) = Len(x) /\ \A i \in 1..Len(x) : F[Len(s)][i] = x[i]
    BY <1>6
  <2>2. F[Len(s)] \in Seq(T)
    <3>1. Len(s) \in 0..Len(s)
      BY <1>2
    <3> QED BY <3>1
  <2> QED BY <2>1, <2>2, SameSeq
<1> QED
  BY <1>1, <1>7 DEF Flat

LEMMA SubIs ==
    ASSUME NEW S, NEW s \in Seq(S), NEW m \in 1..Len(s), NEW n \in m..Len(s)
    PROVE  /\ SubSeq(s, m, n) \in Seq(S) /\ Len(SubSeq(s, m, n)) = n - m + 1
           /\ \A k \in 1..(n - m + 1) : SubSeq(s, m, n)[k] = s[m + k - 1]
OBVIOUS

LEMMA TailIs ==
    ASSUME NEW S, NEW s \in Seq(S), Len(s) # 0
    PROVE  /\ Tail(s) \in Seq(S) /\ Len(Tail(s)) = Len(s) - 1
           /\ \A k \in 1..(Len(s) - 1) : Tail(s)[k] = s[k + 1]
OBVIOUS

LEMMA SeqGrows == ASSUME NEW S, NEW U, S \subseteq U PROVE Seq(S) \subseteq Seq(U)
OBVIOUS

--------------------------------------------------------------------------------
(* Trees *)

Forests(X) == {s \in Seq(X) : IsForest(s)}
Trees(X) == {n \in Seq(X) : Len(n) # 0 /\ n[1].size = Len(n) /\ IsForest(n)}

LEMMA ForestIs ==
    ASSUME NEW X, NEW s \in Forests(X)
    PROVE  /\ s \in Seq(X) /\ Len(s) \in Nat /\ DOMAIN s = 1..Len(s)
           /\ \A i \in 1..Len(s) :
                /\ s[i] \in X /\ s[i].size \in Nat /\ 1 <= s[i].size /\ i + s[i].size - 1 <= Len(s)
                /\ i + s[i].size - 1 \in i..Len(s)
                /\ \A j \in i..(i + s[i].size - 1) : j + s[j].size <= i + s[i].size
<1>1. s \in Seq(X) /\ Len(s) \in Nat /\ DOMAIN s = 1..Len(s) /\ \A i \in 1..Len(s) : s[i] \in X
  <2>1. s \in Seq(X)
    BY DEF Forests
  <2> QED BY <2>1, SeqIs
<1>2. \A i \in 1..Len(s) : s[i].size \in 1..(Len(s) - i + 1)
      /\ \A j \in i..(i + s[i].size - 1) : j + s[j].size <= i + s[i].size
  BY <1>1 DEF Forests, IsForest
<1>3. ASSUME NEW i \in 1..Len(s)
      PROVE  s[i].size \in Nat /\ 1 <= s[i].size /\ i + s[i].size - 1 <= Len(s) /\ i + s[i].size - 1 \in i..Len(s)
  <2>1. s[i].size \in 1..(Len(s) - i + 1)
    BY <1>2
  <2> QED BY <1>1, <2>1
<1> QED
  BY <1>1, <1>2, <1>3

LEMMA TreeIs ==
    ASSUME NEW X, NEW n \in Trees(X)
    PROVE  n \in Forests(X) /\ n \in Seq(X) /\ Len(n) # 0 /\ Len(n) \in Nat /\ 1 \in 1..Len(n) /\ n[1] \in X /\ n[1].size = Len(n)
BY SeqIs DEF Trees, Forests

LEMMA SubtreeIs ==
    ASSUME NEW X, NEW s \in Forests(X), NEW i \in 1..Len(s)
    PROVE  /\ Subtree(s, i) \in Trees(X) /\ Len(Subtree(s, i)) = s[i].size /\ Subtree(s, i)[1] = s[i]
           /\ \A k \in 1..s[i].size : Subtree(s, i)[k] = s[i + k - 1]
<1> DEFINE e == i + s[i].size - 1
<1>1. e \in i..Len(s) /\ i \in Nat /\ s[i].size \in Nat /\ 1 <= s[i].size /\ s \in Seq(X) /\ Len(s) \in Nat
  BY ForestIs
<1>2. PICK u \in Seq(X) : u = Subtree(s, i)
  BY <1>1, SubIs DEF Subtree
<1>3. Len(u) = s[i].size /\ \A k \in 1..s[i].size : u[k] = s[i + k - 1]
  <2> HIDE DEF e
  <2>1. Len(u) = e - i + 1 /\ \A k \in 1..(e - i + 1) : u[k] = s[i + k - 1]
    BY <1>1, <1>2, SubIs DEF Subtree, e
  <2>2. e - i + 1 = s[i].size
    BY <1>1 DEF e
  <2> QED BY <2>1, <2>2
<1>4. u[1] = s[i]
  <2>1. 1 \in 1..s[i].size /\ i + 1 - 1 = i
    BY <1>1
  <2> QED BY <1>3, <2>1
<1>5. IsForest(u)
  <2>1. ASSUME NEW k \in 1..Len(u)
        PROVE  u[k].size \in 1..(Len(u) - k + 1)
               /\ \A j \in k..(k + u[k].size - 1) : j + u[j].size <= k + u[k].size
    <3> DEFINE m == i + k - 1
    <3>1. m \in 1..Len(s) /\ m \in i..e /\ u[k] = s[m] /\ k \in Nat
      BY <1>1, <1>3
    <3>2. m + s[m].size <= i + s[i].size /\ s[m].size \in Nat /\ 1 <= s[m].size
          /\ \A j \in m..(m + s[m].size - 1) : j + s[j].size <= m + s[m].size
      BY <3>1, ForestIs
    <3>a. PICK w \in Nat : w = s[i].size
      BY <1>1
    <3>b. PICK z \in Nat : z = s[m].size
      BY <3>2
    <3>c. u[k].size = z /\ m = i + k - 1 /\ m + z <= i + w /\ 1 <= z /\ 1 <= w /\ i \in Nat /\ Len(u) = w
      BY <1>1, <1>3, <3>1, <3>2, <3>a, <3>b
    <3> HIDE DEF m, e
    <3>3. ASSUME NEW j \in k..(k + u[k].size - 1) PROVE j + u[j].size <= k + u[k].size
      <4>0. j \in k..(k + z - 1)
        BY <3>c
      <4>1. i + j - 1 \in m..(m + z - 1) /\ j \in 1..w
        BY <3>1, <3>c, <4>0
      <4>2. (i + j - 1) + s[i + j - 1].size <= m + s[m].size /\ u[j] = s[i + j - 1]
        BY <1>3, <3>2, <3>a, <3>b, <4>1
      <4>3. s[i + j - 1].size \in Nat
        <5>1. i + j - 1 \in 1..Len(s)
          <6>1. i + j - 1 <= i + w - 1 /\ i + w - 1 <= Len(s) /\ 1 <= i
            BY <1>1, <3>1, <3>c, <3>a, <4>1 DEF e
          <6> QED BY <1>1, <4>0, <4>1, <3>1, <6>1
        <5> QED BY <5>1, ForestIs
      <4>4. PICK y \in Nat : y = s[i + j - 1].size
        BY <4>3
      <4>5. (i + j - 1) + y <= m + z /\ u[j].size = y
        BY <3>b, <4>2, <4>4
      <4>6. j + y <= k + z
        BY <3>1, <3>c, <4>0, <4>5
      <4> QED BY <3>c, <4>5, <4>6
    <3>4. u[k].size \in 1..(Len(u) - k + 1)
      <4>1. z \in 1..(w - k + 1)
        BY <3>1, <3>c
      <4> QED BY <3>c, <4>1
    <3> QED BY <3>3, <3>4
  <2>2. DOMAIN u = 1..Len(u)
    BY SeqIs
  <2> QED BY <2>1, <2>2 DEF IsForest
<1>6. u \in Trees(X)
  BY <1>1, <1>3, <1>4, <1>5 DEF Trees
<1> QED
  BY <1>2, <1>3, <1>4, <1>6

LEMMA ForestTail == ASSUME NEW X, NEW n \in Trees(X) PROVE Tail(n) \in Forests(X)
<1>1. n \in Forests(X) /\ n \in Seq(X) /\ Len(n) \in Nat /\ Len(n) # 0
  BY TreeIs
<1>2. PICK u \in Seq(X) : u = Tail(n)
  BY <1>1, TailIs
<1>3. Len(u) = Len(n) - 1 /\ \A k \in 1..(Len(n) - 1) : u[k] = n[k + 1]
  BY <1>1, <1>2, TailIs
<1>4. ASSUME NEW k \in 1..Len(u)
      PROVE  u[k].size \in 1..(Len(u) - k + 1)
             /\ \A j \in k..(k + u[k].size - 1) : j + u[j].size <= k + u[k].size
  <2>1. k + 1 \in 1..Len(n) /\ u[k] = n[k + 1] /\ k \in Nat
    BY <1>1, <1>3
  <2>2. n[k + 1].size \in Nat /\ 1 <= n[k + 1].size /\ (k + 1) + n[k + 1].size - 1 <= Len(n)
        /\ \A j \in (k + 1)..((k + 1) + n[k + 1].size - 1) : j + n[j].size <= (k + 1) + n[k + 1].size
    BY <1>1, <2>1, ForestIs
  <2>a. PICK z \in Nat : z = n[k + 1].size
    BY <2>2
  <2>b. u[k].size = z /\ 1 <= z /\ (k + 1) + z - 1 <= Len(n)
    BY <2>1, <2>2, <2>a
  <2>3. ASSUME NEW j \in k..(k + u[k].size - 1) PROVE j + u[j].size <= k + u[k].size
    <3>0. j \in k..(k + z - 1)
      BY <2>b
    <3>1. j + 1 \in (k + 1)..((k + 1) + z - 1) /\ j \in 1..(Len(n) - 1) /\ j + 1 \in 1..Len(n)
      BY <1>1, <2>1, <2>b, <3>0
    <3>2. (j + 1) + n[j + 1].size <= (k + 1) + z /\ u[j] = n[j + 1] /\ n[j + 1].size \in Nat
      BY <1>1, <1>3, <2>2, <2>a, <3>1, ForestIs
    <3>3. PICK y \in Nat : y = n[j + 1].size
      BY <3>2
    <3>4. u[j].size = y /\ (j + 1) + y <= (k + 1) + z
      BY <3>2, <3>3
    <3>5. j + y <= k + z
      BY <2>1, <3>1, <3>4
    <3> QED BY <2>b, <3>4, <3>5
  <2>4. u[k].size \in 1..(Len(u) - k + 1)
    <3>1. z \in 1..((Len(n) - 1) - k + 1)
      BY <1>1, <2>1, <2>b
    <3> QED BY <1>3, <2>b, <3>1
  <2> QED BY <2>3, <2>4
<1>5. DOMAIN u = 1..Len(u)
  BY SeqIs
<1> QED
  BY <1>2, <1>4, <1>5 DEF Forests, IsForest

LEMMA ForestJoin ==
    ASSUME NEW X, NEW a \in Forests(X), NEW b \in Forests(X)
    PROVE  /\ a \o b \in Forests(X)
           /\ \A k \in 1..Len(a) : Subtree(a \o b, k) = Subtree(a, k)
           /\ \A k \in 1..Len(b) : Subtree(a \o b, Len(a) + k) = Subtree(b, k)
<1>0. a \in Seq(X) /\ b \in Seq(X) /\ Len(a) \in Nat /\ Len(b) \in Nat
  BY ForestIs
<1>1. PICK c \in Seq(X) : c = a \o b
  BY <1>0, JoinIs
<1>2. Len(c) = Len(a) + Len(b) /\ (\A k \in 1..Len(a) : c[k] = a[k]) /\ (\A k \in 1..Len(b) : c[Len(a) + k] = b[k])
      /\ DOMAIN c = 1..Len(c)
  BY <1>0, <1>1, JoinIs, SeqIs
<1>3. PICK n \in Nat : n = Len(a)
  BY <1>0
<1>4. PICK m \in Nat : m = Len(b)
  BY <1>0
<1>5. ASSUME NEW k \in 1..n, NEW z \in Nat, z = a[k].size
      PROVE  1 <= z /\ k + z - 1 <= n /\ c[k].size = z /\ \A j \in k..(k + z - 1) : c[j] = a[j] /\ j + c[j].size <= k + z
  <2>1. 1 <= z /\ k + z - 1 <= n /\ \A j \in k..(k + z - 1) : j + a[j].size <= k + z
    BY <1>3, <1>5, ForestIs
  <2>2. \A j \in k..(k + z - 1) : j \in 1..n
    BY <1>5, <2>1
  <2>3. \A j \in 1..n : c[j] = a[j]
    BY <1>2, <1>3
  <2> QED BY <1>5, <2>1, <2>2, <2>3
<1>6. ASSUME NEW k \in 1..m, NEW z \in Nat, z = b[k].size
      PROVE  /\ 1 <= z /\ k + z - 1 <= m /\ c[n + k].size = z
             /\ \A j \in k..(k + z - 1) : c[n + j] = b[j] /\ j + b[j].size <= k + z
  <2>1. 1 <= z /\ k + z - 1 <= m /\ \A j \in k..(k + z - 1) : j + b[j].size <= k + z
    BY <1>4, <1>6, ForestIs
  <2>2. \A j \in k..(k + z - 1) : j \in 1..m
    BY <1>6, <2>1
  <2>3. \A j \in 1..m : c[n + j] = b[j]
    BY <1>2, <1>3, <1>4
  <2> QED BY <1>6, <2>1, <2>2, <2>3
<1>7. \A k \in 1..(n + m) : k \in 1..n \/ (k - n \in 1..m /\ n + (k - n) = k)
  OBVIOUS
<1>8. ASSUME NEW k \in 1..(n + m)
      PROVE  c[k].size \in 1..((n + m) - k + 1) /\ \A j \in k..(k + c[k].size - 1) : j + c[j].size <= k + c[k].size
  <2>1. CASE k \in 1..n
    <3>1. PICK z \in Nat : z = a[k].size
      BY <1>3, <2>1, ForestIs
    <3>2. 1 <= z /\ k + z - 1 <= n /\ c[k].size = z /\ \A j \in k..(k + z - 1) : j + c[j].size <= k + z
      BY <1>5, <2>1, <3>1
    <3>3. z \in 1..((n + m) - k + 1)
      BY <3>2
    <3> QED BY <3>2, <3>3
  <2>2. CASE k - n \in 1..m /\ n + (k - n) = k
    <3>0. PICK q \in 1..m : q = k - n
      BY <2>2
    <3>1. PICK z \in Nat : z = b[q].size
      BY <1>4, <3>0, ForestIs
    <3>2. 1 <= z /\ q + z - 1 <= m /\ c[n + q].size = z /\ n + q = k
          /\ \A j \in q..(q + z - 1) : c[n + j] = b[j] /\ j + b[j].size <= q + z
      BY <1>6, <2>2, <3>0, <3>1
    <3>3. z \in 1..((n + m) - k + 1)
      BY <3>0, <3>2
    <3>4. ASSUME NEW j \in k..(k + z - 1) PROVE j + c[j].size <= k + z
      <4>1. PICK i \in q..(q + z - 1) : n + i = j
        <5>1. j - n \in q..(q + z - 1) /\ n + (j - n) = j
          BY <3>0, <3>2
        <5> QED BY <5>1
      <4>2. c[n + i] = b[i] /\ i + b[i].size <= q + z
        BY <3>2
      <4>3. b[i].size \in Nat
        <5>1. i \in 1..m
          BY <3>0, <3>2
        <5> QED BY <1>4, <5>1, ForestIs
      <4>4. PICK y \in Nat : y = b[i].size
        BY <4>3
      <4>5. c[j].size = y /\ i + y <= q + z
        BY <4>1, <4>2, <4>4
      <4>6. j + y <= k + z
        BY <3>2, <4>1, <4>5
      <4> QED BY <4>5, <4>6
    <3> QED BY <3>2, <3>3, <3>4
  <2> QED BY <1>7, <2>1, <2>2
<1>9. c \in Forests(X)
  <2>1. DOMAIN c = 1..(n + m) /\ Len(c) = n + m
    BY <1>2, <1>3, <1>4
  <2> QED BY <1>1, <1>8, <2>1 DEF Forests, IsForest
<1>10. ASSUME NEW k \in 1..Len(a) PROVE Subtree(c, k) = Subtree(a, k)
  <2>1. PICK z \in Nat : z = a[k].size
    BY ForestIs
  <2>2. k \in 1..n /\ k \in 1..Len(c)
    BY <1>0, <1>2, <1>3
  <2>3. 1 <= z /\ k + z - 1 <= n /\ c[k].size = z /\ \A j \in k..(k + z - 1) : c[j] = a[j]
    BY <1>5, <2>1, <2>2
  <2>a. /\ Subtree(c, k) \in Trees(X) /\ Len(Subtree(c, k)) = c[k].size
        /\ \A j \in 1..c[k].size : Subtree(c, k)[j] = c[k + j - 1]
    BY <1>9, <2>2, SubtreeIs
  <2>b. Subtree(c, k) \in Seq(X)
    BY <2>a, TreeIs
  <2>4. PICK u \in Seq(X) : u = Subtree(c, k) /\ Len(u) = z /\ \A j \in 1..z : u[j] = c[k + j - 1]
    BY <2>3, <2>a, <2>b
  <2>5. PICK v \in Seq(X) : v = Subtree(a, k) /\ Len(v) = z /\ \A j \in 1..z : v[j] = a[k + j - 1]
    BY <2>1, SubtreeIs, TreeIs
  <2>6. \A j \in 1..z : k + j - 1 \in k..(k + z - 1)
    BY <2>2
  <2> QED BY <2>3, <2>4, <2>5, <2>6, SameSeq
<1>11. ASSUME NEW k \in 1..Len(b) PROVE Subtree(c, Len(a) + k) = Subtree(b, k)
  <2>1. PICK z \in Nat : z = b[k].size
    BY ForestIs
  <2>2. k \in 1..m /\ n + k \in 1..Len(c)
    BY <1>0, <1>2, <1>3, <1>4
  <2>3. 1 <= z /\ k + z - 1 <= m /\ c[n + k].size = z /\ \A j \in k..(k + z - 1) : c[n + j] = b[j]
    BY <1>6, <2>1, <2>2
  <2>4. PICK u \in Seq(X) : u = Subtree(c, n + k) /\ Len(u) = z /\ \A j \in 1..z : u[j] = c[(n + k) + j - 1]
    BY <1>9, <2>2, <2>3, SubtreeIs, TreeIs
  <2>5. PICK v \in Seq(X) : v = Subtree(b, k) /\ Len(v) = z /\ \A j \in 1..z : v[j] = b[k + j - 1]
    BY <2>1, SubtreeIs, TreeIs
  <2>6. \A j \in 1..z : k + j - 1 \in k..(k + z - 1) /\ (n + k) + j - 1 = n + (k + j - 1)
    BY <2>2
  <2>7. \A j \in 1..z : u[j] = v[j]
    BY <2>3, <2>4, <2>5, <2>6
  <2> QED BY <1>3, <2>4, <2>5, <2>7, SameSeq
<1> QED
  BY <1>1, <1>9, <1>10, <1>11

LEMMA NoForest == \A X : <<>> \in Forests(X)
BY DEF Forests, IsForest

LEMMA TreesAre == ASSUME NEW X PROVE Trees(X) \subseteq Forests(X) /\ Forests(X) \subseteq Seq(X) /\ Seq(Trees(X)) \subseteq Seq(Seq(X))
<1>1. Trees(X) \subseteq Forests(X) /\ Forests(X) \subseteq Seq(X) /\ Trees(X) \subseteq Seq(X)
  BY DEF Trees, Forests
<1> QED
  BY <1>1, SeqGrows

LEMMA FlatForest ==
    ASSUME NEW X, NEW s \in Seq(Seq(X)), \A k \in 1..Len(s) : s[k] \in Forests(X)
    PROVE  FlattenSeq(s) \in Forests(X)
<1>1. PICK F \in [0..Len(s) -> Seq(X)] : Flat(F, s)
  BY Flattened
<1> DEFINE P == {k \in 0..Len(s) : F[k] \in Forests(X)}
<1>2. 0 \in P
  BY <1>1, SeqIs, NoForest DEF Flat
<1>3. ASSUME NEW k \in 1..Len(s), k - 1 \in P PROVE k \in P
  <2>1. F[k] = F[k - 1] \o s[k] /\ F[k - 1] \in Forests(X) /\ s[k] \in Forests(X)
    BY <1>1, <1>3 DEF Flat
  <2> HIDE DEF P
  <2>2. F[k] \in Forests(X) /\ k \in 0..Len(s)
    BY <2>1, ForestJoin
  <2> QED BY <2>2 DEF P
<1>4. Len(s) \in P
  <2>0. Len(s) \in 0..Len(s) /\ Len(s) \in Nat
    BY SeqIs
  <2> HIDE DEF P
  <2>1. 0..Len(s) \subseteq P
    BY <1>2, <1>3, <2>0, Turns
  <2> QED BY <2>0, <2>1
<1> QED
  BY <1>1, <1>4 DEF Flat

LEMMA ForestOf == ASSUME NEW X, NEW ch \in Seq(Trees(X)) PROVE FlattenSeq(ch) \in Forests(X) /\ ch \in Seq(Seq(X))
<1>1. ch \in Seq(Seq(X)) /\ \A k \in 1..Len(ch) : ch[k] \in Forests(X)
  BY TreesAre, SeqIs
<1> QED
  BY <1>1, FlatForest

LEMMA NodeIs ==
    ASSUME NEW X, NEW t, NEW x, NEW ch \in Seq(Trees(X)), \A n \in Nat : [tag |-> t, text |-> x, size |-> n] \in X
    PROVE  /\ Node(t, x, ch) \in Trees(X) /\ Tail(Node(t, x, ch)) = FlattenSeq(ch)
           /\ TagOf(Node(t, x, ch)) = t /\ TextOf(Node(t, x, ch)) = x
<1>1. PICK u \in Forests(X) : u = FlattenSeq(ch)
  BY ForestOf
<1>2. u \in Seq(X) /\ Len(u) \in Nat
  BY ForestIs
<1>3. PICK m \in Nat : m = Len(u)
  BY <1>2
<1> DEFINE r == [tag |-> t, text |-> x, size |-> 1 + m]
<1>4. r \in X /\ r.size = 1 + m /\ r.tag = t /\ r.text = x
  <2>1. 1 + m \in Nat
    OBVIOUS
  <2> QED BY <2>1
<1> HIDE DEF r
<1>5. Node(t, x, ch) = <<r>> \o u
  BY <1>1, <1>3 DEF Node, r
<1>6. PICK h \in Seq(X) : h = <<r>>
  BY <1>4, OneIs
<1>7. Len(h) = 1 /\ h[1] = r
  BY <1>6
<1>8. PICK n \in Seq(X) : n = h \o u
  BY <1>2, JoinIs
<1>9. Len(n) = 1 + m /\ n[1] = r /\ (\A k \in 1..m : n[1 + k] = u[k]) /\ DOMAIN n = 1..(1 + m)
  <2>1. Len(n) = Len(h) + Len(u) /\ (\A k \in 1..Len(h) : n[k] = h[k]) /\ \A k \in 1..Len(u) : n[Len(h) + k] = u[k]
    BY <1>2, <1>8, JoinIs
  <2>2. 1 \in 1..Len(h)
    BY <1>7
  <2> QED BY <1>3, <1>7, <2>1, <2>2, SeqIs
<1>10. ASSUME NEW k \in 1..(1 + m)
       PROVE  n[k].size \in 1..((1 + m) - k + 1) /\ \A j \in k..(k + n[k].size - 1) : j + n[j].size <= k + n[k].size
  <2>0. ASSUME NEW i \in 1..m
        PROVE  \E z \in Nat : z = u[i].size /\ 1 <= z /\ i + z - 1 <= m /\ n[1 + i].size = z
                              /\ \A j \in i..(i + z - 1) : j + u[j].size <= i + z
    <3>1. PICK z \in Nat : z = u[i].size
      BY <1>3, ForestIs
    <3>2. 1 <= z /\ i + z - 1 <= m /\ \A j \in i..(i + z - 1) : j + u[j].size <= i + z
      BY <1>3, <3>1, ForestIs
    <3> QED BY <1>9, <3>1, <3>2
  <2>1. CASE k = 1
    <3>1. n[k].size = 1 + m
      BY <1>4, <1>9, <2>1
    <3>2. ASSUME NEW j \in 1..(1 + m) PROVE j + n[j].size <= 1 + (1 + m)
      <4>1. CASE j = 1
        BY <3>1, <2>1, <4>1
      <4>2. CASE j # 1
        <5>1. PICK i \in 1..m : 1 + i = j
          <6>1. j - 1 \in 1..m /\ 1 + (j - 1) = j
            BY <4>2
          <6> QED BY <6>1
        <5>2. PICK z \in Nat : n[j].size = z /\ i + z - 1 <= m
          BY <2>0, <5>1
        <5> QED BY <5>1, <5>2
      <4> QED BY <4>1, <4>2
    <3> QED BY <2>1, <3>1, <3>2
  <2>2. CASE k # 1
    <3>1. PICK i \in 1..m : 1 + i = k
      <4>1. k - 1 \in 1..m /\ 1 + (k - 1) = k
        BY <2>2
      <4> QED BY <4>1
    <3>2. PICK z \in Nat : z = u[i].size /\ 1 <= z /\ i + z - 1 <= m /\ n[k].size = z
                           /\ \A j \in i..(i + z - 1) : j + u[j].size <= i + z
      BY <2>0, <3>1
    <3>3. z \in 1..((1 + m) - k + 1)
      BY <3>1, <3>2
    <3>4. ASSUME NEW j \in k..(k + z - 1) PROVE j + n[j].size <= k + z
      <4>1. PICK l \in i..(i + z - 1) : 1 + l = j
        <5>1. j - 1 \in i..(i + z - 1) /\ 1 + (j - 1) = j
          BY <3>1
        <5> QED BY <5>1
      <4>2. l + u[l].size <= i + z /\ l \in 1..m
        BY <3>2, <4>1, SMTT(30)
      <4>3. PICK y \in Nat : y = u[l].size /\ n[j].size = y
        BY <2>0, <4>1, <4>2
      <4> QED BY <3>1, <4>1, <4>2, <4>3, SMTT(30)
    <3> QED BY <3>2, <3>3, <3>4
  <2> QED BY <2>1, <2>2
<1>11. n \in Trees(X)
  <2>1. Len(n) # 0 /\ n[1].size = Len(n)
    BY <1>4, <1>9
  <2>2. IsForest(n)
    BY <1>9, <1>10 DEF IsForest
  <2> QED BY <2>1, <2>2 DEF Trees
<1>12. Tail(n) = u
  <2>a. Len(n) # 0 /\ n \in Seq(X)
    BY <1>9
  <2>b. PICK v \in Seq(X) : v = Tail(n)
    BY <2>a, TailIs
  <2>1. Len(v) = Len(n) - 1 /\ \A k \in 1..(Len(n) - 1) : v[k] = n[k + 1]
    BY <2>a, <2>b, TailIs
  <2>2. Len(v) = m /\ \A k \in 1..m : v[k] = n[k + 1] /\ k + 1 = 1 + k
    BY <1>9, <2>1
  <2>3. \A k \in 1..m : v[k] = u[k]
    BY <1>9, <2>2
  <2> QED BY <1>2, <1>3, <2>b, <2>2, <2>3, SameSeq
<1> QED
  BY <1>1, <1>4, <1>5, <1>6, <1>8, <1>9, <1>11, <1>12 DEF TagOf, TextOf

Hits(rows, T) == [i \in DOMAIN rows |-> IF rows[i].tag \in T THEN <<Subtree(rows, i)>> ELSE <<>>]
TreesOf(X, T) == {n \in Trees(X) : TagOf(n) \in T}

LEMMA HitsAre ==
    ASSUME NEW X, NEW s \in Forests(X), NEW T
    PROVE  /\ Hits(s, T) \in Seq(Seq(TreesOf(X, T))) /\ Len(Hits(s, T)) = Len(s)
           /\ \A i \in 1..Len(s) : Hits(s, T)[i] = IF s[i].tag \in T THEN <<Subtree(s, i)>> ELSE <<>>
<1>1. Len(s) \in Nat /\ DOMAIN s = 1..Len(s)
  BY ForestIs
<1>2. ASSUME NEW i \in 1..Len(s)
      PROVE  (IF s[i].tag \in T THEN <<Subtree(s, i)>> ELSE <<>>) \in Seq(TreesOf(X, T))
  <2>1. CASE s[i].tag \in T
    <3>1. Subtree(s, i) \in TreesOf(X, T)
      BY <2>1, SubtreeIs DEF TreesOf, TagOf
    <3> QED BY <2>1, <3>1, OneIs
  <2> QED BY <2>1
<1>3. Hits(s, T) \in [1..Len(s) -> Seq(TreesOf(X, T))]
      /\ \A i \in 1..Len(s) : Hits(s, T)[i] = IF s[i].tag \in T THEN <<Subtree(s, i)>> ELSE <<>>
  BY <1>1, <1>2, Zenon DEF Hits
<1> QED
  BY <1>1, <1>3, MadeSeq

LEMMA TaggedIs == ASSUME NEW rows, NEW T PROVE Tagged(rows, T) = FlattenSeq(Hits(rows, T))
BY DEF Tagged, Hits

LEMMA TaggedTyped ==
    ASSUME NEW X, NEW s \in Forests(X), NEW T
    PROVE  Tagged(s, T) \in Seq(TreesOf(X, T)) /\ Tagged(s, T) \in Seq(Trees(X))
<1>1. Tagged(s, T) \in Seq(TreesOf(X, T))
  BY HitsAre, TaggedIs, FlatTyped
<1>2. TreesOf(X, T) \subseteq Trees(X)
  BY DEF TreesOf
<1> QED
  BY <1>1, <1>2, SeqGrows

LEMMA TaggedNone == \A T : Tagged(<<>>, T) = <<>>
<1> TAKE T
<1>1. Hits(<<>>, T) = <<>>
  BY DEF Hits
<1> QED
  BY <1>1, TaggedIs, FlatNone

LEMMA TaggedJoin ==
    ASSUME NEW X, NEW a \in Forests(X), NEW b \in Forests(X), NEW T
    PROVE  Tagged(a \o b, T) = Tagged(a, T) \o Tagged(b, T)
<1>1. a \in Seq(X) /\ b \in Seq(X) /\ Len(a) \in Nat /\ Len(b) \in Nat
  BY ForestIs
<1>2. PICK c \in Forests(X) : c = a \o b
  BY ForestJoin
<1>3. Len(c) = Len(a) + Len(b)
      /\ (\A k \in 1..Len(a) : c[k] = a[k] /\ Subtree(c, k) = Subtree(a, k))
      /\ \A k \in 1..Len(b) : c[Len(a) + k] = b[k] /\ Subtree(c, Len(a) + k) = Subtree(b, k)
  BY <1>1, <1>2, JoinIs, ForestJoin
<1> DEFINE S == Seq(TreesOf(X, T))
<1>4. PICK u \in Seq(S) : u = Hits(a, T)
  BY HitsAre
<1>5. PICK v \in Seq(S) : v = Hits(b, T)
  BY HitsAre
<1>6. PICK w \in Seq(S) : w = Hits(c, T)
  BY HitsAre
<1>7. Len(u) = Len(a) /\ Len(v) = Len(b) /\ Len(w) = Len(c)
  BY <1>4, <1>5, <1>6, HitsAre
<1>8. \A k \in 1..Len(a) : w[k] = u[k]
  <2>1. ASSUME NEW k \in 1..Len(a) PROVE w[k] = u[k]
    <3>1. k \in 1..Len(c)
      BY <1>1, <1>3
    <3>2. u[k] = IF a[k].tag \in T THEN <<Subtree(a, k)>> ELSE <<>>
      BY <1>4, HitsAre
    <3>3. w[k] = IF c[k].tag \in T THEN <<Subtree(c, k)>> ELSE <<>>
      BY <1>6, <3>1, HitsAre
    <3> QED BY <1>3, <3>2, <3>3
  <2> QED BY <2>1
<1>9. \A k \in 1..Len(b) : w[Len(a) + k] = v[k]
  <2>1. ASSUME NEW k \in 1..Len(b) PROVE w[Len(a) + k] = v[k]
    <3>1. Len(a) + k \in 1..Len(c)
      BY <1>1, <1>3
    <3>2. v[k] = IF b[k].tag \in T THEN <<Subtree(b, k)>> ELSE <<>>
      BY <1>5, HitsAre
    <3>3. w[Len(a) + k] = IF c[Len(a) + k].tag \in T THEN <<Subtree(c, Len(a) + k)>> ELSE <<>>
      BY <1>6, <3>1, HitsAre
    <3> QED BY <1>3, <3>2, <3>3
  <2> QED BY <2>1
<1>10. w = u \o v
  <2> HIDE DEF S
  <2>1. PICK x \in Seq(S) : x = u \o v
    BY JoinIs
  <2>2. Len(x) = Len(u) + Len(v) /\ (\A k \in 1..Len(u) : x[k] = u[k]) /\ \A k \in 1..Len(v) : x[Len(u) + k] = v[k]
    BY <2>1, JoinIs
  <2>3. ASSUME NEW k \in 1..Len(w) PROVE w[k] = x[k]
    <3>1. CASE k \in 1..Len(a)
      BY <1>7, <1>8, <2>2, <3>1
    <3>2. CASE k \notin 1..Len(a)
      <4>1. k - Len(a) \in 1..Len(b) /\ Len(a) + (k - Len(a)) = k
        BY <1>1, <1>3, <1>7, <3>2
      <4> QED BY <1>7, <1>9, <2>2, <4>1
    <3> QED BY <3>1, <3>2
  <2>4. Len(w) = Len(x)
    BY <1>3, <1>7, <2>2
  <2> QED BY <2>1, <2>3, <2>4, SameSeq
<1>11. FlattenSeq(w) = FlattenSeq(u) \o FlattenSeq(v)
  BY <1>10, FlatConcat
<1> QED
  BY <1>2, <1>4, <1>5, <1>6, <1>11, TaggedIs

LEMMA TreeTail ==
    ASSUME NEW X, NEW n \in Trees(X)
    PROVE  /\ Subtree(n, 1) = n /\ Len(Tail(n)) = Len(n) - 1 /\ Len(n) \in Nat /\ Len(n) # 0
           /\ \A k \in 1..Len(Tail(n)) : Tail(n)[k] = n[k + 1] /\ Subtree(Tail(n), k) = Subtree(n, k + 1)
<1>0. n \in Forests(X) /\ n \in Seq(X) /\ Len(n) # 0 /\ Len(n) \in Nat /\ 1 \in 1..Len(n) /\ n[1].size = Len(n)
  BY TreeIs
<1>1. PICK u \in Forests(X) : u = Tail(n)
  BY ForestTail
<1>2. u \in Seq(X) /\ Len(u) = Len(n) - 1 /\ \A k \in 1..(Len(n) - 1) : u[k] = n[k + 1]
  BY <1>0, <1>1, TailIs
<1>3. Subtree(n, 1) = n
  <2>1. PICK v \in Seq(X) : v = Subtree(n, 1)
    BY <1>0, SubtreeIs, TreeIs
  <2>2. Len(v) = Len(n) /\ \A k \in 1..Len(n) : v[k] = n[1 + k - 1]
    BY <1>0, <2>1, SubtreeIs
  <2>3. \A k \in 1..Len(v) : v[k] = n[k]
    BY <2>2
  <2> QED BY <1>0, <2>1, <2>2, <2>3, SameSeq
<1>4. ASSUME NEW k \in 1..Len(u) PROVE u[k] = n[k + 1] /\ Subtree(u, k) = Subtree(n, k + 1)
  <2>1. k \in 1..(Len(n) - 1) /\ k + 1 \in 1..Len(n)
    BY <1>0, <1>2
  <2>2. PICK z \in Nat : z = u[k].size
    BY ForestIs
  <2>3. k + z - 1 <= Len(u) /\ n[k + 1].size = z
    BY <1>2, <2>1, <2>2, ForestIs
  <2>4. PICK v \in Seq(X) : v = Subtree(u, k)
    BY SubtreeIs, TreeIs
  <2>5. PICK w \in Seq(X) : w = Subtree(n, k + 1)
    BY <1>0, <2>1, SubtreeIs, TreeIs
  <2>6. Len(v) = z /\ \A j \in 1..z : v[j] = u[k + j - 1]
    BY <2>2, <2>4, SubtreeIs
  <2>7. Len(w) = z /\ \A j \in 1..z : w[j] = n[(k + 1) + j - 1]
    BY <1>0, <2>1, <2>3, <2>5, SubtreeIs
  <2>8. \A j \in 1..z : k + j - 1 \in 1..(Len(n) - 1) /\ (k + j - 1) + 1 = (k + 1) + j - 1
    BY <1>0, <1>2, <2>3
  <2>9. \A j \in 1..z : v[j] = w[j]
    BY <1>2, <2>6, <2>7, <2>8
  <2>10. v = w
    BY <2>6, <2>7, <2>9, SameSeq
  <2> QED BY <1>2, <2>1, <2>4, <2>5, <2>10
<1> QED
  BY <1>0, <1>1, <1>2, <1>3, <1>4

LEMMA TaggedTree ==
    ASSUME NEW X, NEW n \in Trees(X), NEW T
    PROVE  Tagged(n, T) = (IF TagOf(n) \in T THEN <<n>> ELSE <<>>) \o Tagged(Tail(n), T)
<1>0. n \in Forests(X) /\ 1 \in 1..Len(n) /\ Len(n) \in Nat
  BY TreeIs
<1>1. PICK u \in Forests(X) : u = Tail(n)
  BY ForestTail
<1> DEFINE Y == TreesOf(X, T)
           S == Seq(Y)
<1>2. PICK w \in Seq(S) : w = Hits(n, T)
  BY <1>0, HitsAre
<1>3. PICK v \in Seq(S) : v = Hits(u, T)
  BY HitsAre
<1>4. Len(w) = Len(n) /\ Len(v) = Len(n) - 1
  <2>1. Len(w) = Len(n)
    BY <1>0, <1>2, HitsAre
  <2>2. Len(v) = Len(u)
    BY <1>3, HitsAre
  <2>3. Len(u) = Len(n) - 1
    BY <1>1, TreeTail
  <2> QED BY <2>1, <2>2, <2>3
<1>5. w[1] = IF TagOf(n) \in T THEN <<n>> ELSE <<>>
  BY <1>0, <1>2, HitsAre, TreeTail DEF TagOf
<1>6. PICK h \in S : h = w[1]
  <2>1. 1 \in 1..Len(w)
    BY <1>0, <1>4
  <2> QED BY <2>1, SeqIs
<1> HIDE DEF S, Y
<1>7. PICK o \in Seq(S) : o = <<h>> /\ Len(o) = 1 /\ o[1] = h
  BY OneIs
<1>8. w = o \o v
  <2>1. PICK x \in Seq(S) : x = o \o v
    BY JoinIs
  <2>2. Len(x) = 1 + Len(v) /\ x[1] = h /\ \A k \in 1..Len(v) : x[1 + k] = v[k]
    <3>1. Len(x) = Len(o) + Len(v) /\ (\A k \in 1..Len(o) : x[k] = o[k]) /\ \A k \in 1..Len(v) : x[Len(o) + k] = v[k]
      BY <2>1, JoinIs
    <3>2. 1 \in 1..Len(o)
      BY <1>7
    <3> QED BY <1>7, <3>1, <3>2
  <2>3. ASSUME NEW k \in 1..Len(w) PROVE w[k] = x[k]
    <3>1. CASE k = 1
      BY <1>6, <2>2, <3>1
    <3>2. CASE k # 1
      <4>1. PICK j \in 1..Len(v) : 1 + j = k /\ j + 1 = k
        <5>1. k - 1 \in 1..Len(v) /\ 1 + (k - 1) = k /\ (k - 1) + 1 = k
          BY <1>0, <1>4, <3>2
        <5> QED BY <5>1
      <4>2. j \in 1..Len(u) /\ k \in 1..Len(n)
        BY <1>1, <1>4, TreeTail
      <4>3. u[j] = n[k] /\ Subtree(u, j) = Subtree(n, k)
        BY <1>1, <4>1, <4>2, TreeTail
      <4>4. v[j] = IF u[j].tag \in T THEN <<Subtree(u, j)>> ELSE <<>>
        BY <1>3, <4>2, HitsAre
      <4>5. w[k] = IF n[k].tag \in T THEN <<Subtree(n, k)>> ELSE <<>>
        BY <1>0, <1>2, <4>2, HitsAre
      <4> QED BY <2>2, <4>1, <4>3, <4>4, <4>5
    <3> QED BY <3>1, <3>2
  <2>4. Len(w) = Len(x)
    BY <1>0, <1>4, <2>2
  <2> QED BY <2>1, <2>3, <2>4, SameSeq
<1>9. FlattenSeq(w) = FlattenSeq(o) \o FlattenSeq(v)
  BY <1>8, FlatConcat DEF S
<1>10. FlattenSeq(o) = h
  BY <1>7, FlatOne DEF S
<1> QED
  BY <1>1, <1>2, <1>3, <1>5, <1>6, <1>9, <1>10, TaggedIs

Top(rows, i) == \A j \in 1..(i - 1) : j + rows[j].size <= i
Tops(rows) == [i \in DOMAIN rows |-> IF Top(rows, i) THEN <<Subtree(rows, i)>> ELSE <<>>]

LEMMA TopsAre ==
    ASSUME NEW X, NEW s \in Forests(X)
    PROVE  /\ Tops(s) \in Seq(Seq(Trees(X))) /\ Len(Tops(s)) = Len(s)
           /\ \A i \in 1..Len(s) : Tops(s)[i] = IF Top(s, i) THEN <<Subtree(s, i)>> ELSE <<>>
<1>1. Len(s) \in Nat /\ DOMAIN s = 1..Len(s)
  BY ForestIs
<1>2. ASSUME NEW i \in 1..Len(s)
      PROVE  (IF Top(s, i) THEN <<Subtree(s, i)>> ELSE <<>>) \in Seq(Trees(X))
  <2>1. CASE Top(s, i)
    <3>1. Subtree(s, i) \in Trees(X)
      BY SubtreeIs
    <3> QED BY <2>1, <3>1, OneIs
  <2> QED BY <2>1
<1>3. Tops(s) \in [1..Len(s) -> Seq(Trees(X))]
      /\ \A i \in 1..Len(s) : Tops(s)[i] = IF Top(s, i) THEN <<Subtree(s, i)>> ELSE <<>>
  BY <1>1, <1>2, Zenon DEF Tops
<1> QED
  BY <1>1, <1>3, MadeSeq

LEMMA OutermostIs == ASSUME NEW rows PROVE Outermost(rows) = FlattenSeq(Tops(rows))
BY DEF Outermost, Tops, Top

LEMMA OutermostTyped == ASSUME NEW X, NEW s \in Forests(X) PROVE Outermost(s) \in Seq(Trees(X))
BY TopsAre, OutermostIs, FlatTyped

LEMMA OutermostNone == Outermost(<<>>) = <<>>
<1>1. Tops(<<>>) = <<>>
  BY DEF Tops
<1> QED
  BY <1>1, OutermostIs, FlatNone

LEMMA OutermostJoin ==
    ASSUME NEW X, NEW a \in Forests(X), NEW b \in Forests(X)
    PROVE  Outermost(a \o b) = Outermost(a) \o Outermost(b)
<1>1. a \in Seq(X) /\ b \in Seq(X) /\ Len(a) \in Nat /\ Len(b) \in Nat
  BY ForestIs
<1>2. PICK c \in Forests(X) : c = a \o b
  BY ForestJoin
<1>3. Len(c) = Len(a) + Len(b)
      /\ (\A k \in 1..Len(a) : c[k] = a[k] /\ Subtree(c, k) = Subtree(a, k))
      /\ \A k \in 1..Len(b) : c[Len(a) + k] = b[k] /\ Subtree(c, Len(a) + k) = Subtree(b, k)
  BY <1>1, <1>2, JoinIs, ForestJoin
<1> DEFINE S == Seq(Trees(X))
<1>4. PICK u \in Seq(S) : u = Tops(a)
  BY TopsAre
<1>5. PICK v \in Seq(S) : v = Tops(b)
  BY TopsAre
<1>6. PICK w \in Seq(S) : w = Tops(c)
  BY TopsAre
<1>7. Len(u) = Len(a) /\ Len(v) = Len(b) /\ Len(w) = Len(c)
  BY <1>4, <1>5, <1>6, TopsAre
<1>8. \A k \in 1..Len(a) : w[k] = u[k]
  <2>1. ASSUME NEW k \in 1..Len(a) PROVE w[k] = u[k]
    <3>1. k \in 1..Len(c)
      BY <1>1, <1>3
    <3>2. u[k] = IF Top(a, k) THEN <<Subtree(a, k)>> ELSE <<>>
      BY <1>4, TopsAre
    <3>3. w[k] = IF Top(c, k) THEN <<Subtree(c, k)>> ELSE <<>>
      BY <1>6, <3>1, TopsAre
    <3>4. Top(c, k) <=> Top(a, k)
      <4>1. \A j \in 1..(k - 1) : j \in 1..Len(a)
        BY <1>1
      <4>2. \A j \in 1..(k - 1) : c[j] = a[j]
        BY <1>3, <4>1
      <4> QED BY <4>2 DEF Top
    <3> QED BY <1>3, <3>2, <3>3, <3>4
  <2> QED BY <2>1
<1>9. \A k \in 1..Len(b) : w[Len(a) + k] = v[k]
  <2>1. ASSUME NEW k \in 1..Len(b) PROVE w[Len(a) + k] = v[k]
    <3>0. PICK n \in Nat : n = Len(a)
      BY <1>1
    <3>1. n + k \in 1..Len(c)
      BY <1>1, <1>3, <3>0
    <3>2. v[k] = IF Top(b, k) THEN <<Subtree(b, k)>> ELSE <<>>
      BY <1>5, TopsAre
    <3>3. w[n + k] = IF Top(c, n + k) THEN <<Subtree(c, n + k)>> ELSE <<>>
      BY <1>6, <3>1, TopsAre
    <3>4. Top(c, n + k) <=> Top(b, k)
      <4>1. ASSUME Top(c, n + k), NEW j \in 1..(k - 1) PROVE j + b[j].size <= k
        <5>1. n + j \in 1..((n + k) - 1) /\ j \in 1..Len(b)
          BY <1>1
        <5>2. (n + j) + c[n + j].size <= n + k
          BY <4>1, <5>1 DEF Top
        <5>3. PICK z \in Nat : z = b[j].size
          BY <5>1, ForestIs
        <5>4. c[n + j].size = z
          BY <1>3, <3>0, <5>1, <5>3
        <5>5. j + z <= k
          BY <5>2, <5>4
        <5> QED BY <5>3, <5>5
      <4>2. ASSUME Top(b, k), NEW j \in 1..((n + k) - 1) PROVE j + c[j].size <= n + k
        <5>1. CASE j \in 1..n
          <6>1. PICK z \in Nat : z = a[j].size
            BY <3>0, <5>1, ForestIs
          <6>2. j + z - 1 <= n
            BY <3>0, <5>1, <6>1, ForestIs
          <6>3. c[j].size = z
            BY <1>3, <3>0, <5>1, <6>1
          <6>4. j + z <= n + k
            BY <6>2
          <6> QED BY <6>3, <6>4
        <5>2. CASE j \notin 1..n
          <6>1. PICK i \in 1..(k - 1) : n + i = j
            <7>1. j - n \in 1..(k - 1) /\ n + (j - n) = j
              BY <5>2
            <7> QED BY <7>1
          <6>2. i + b[i].size <= k /\ i \in 1..Len(b)
            BY <1>1, <4>2 DEF Top
          <6>3. PICK z \in Nat : z = b[i].size
            BY <6>2, ForestIs
          <6>4. c[j].size = z
            BY <1>3, <3>0, <6>1, <6>2, <6>3
          <6>5. j + z <= n + k
            BY <6>1, <6>2, <6>3
          <6> QED BY <6>4, <6>5
        <5> QED BY <5>1, <5>2
      <4> QED BY <4>1, <4>2 DEF Top
    <3>5. Subtree(c, n + k) = Subtree(b, k)
      BY <1>3, <3>0
    <3> QED BY <3>0, <3>2, <3>3, <3>4, <3>5
  <2> QED BY <2>1
<1>10. w = u \o v
  <2> HIDE DEF S
  <2>1. PICK x \in Seq(S) : x = u \o v
    BY JoinIs
  <2>2. Len(x) = Len(u) + Len(v) /\ (\A k \in 1..Len(u) : x[k] = u[k]) /\ \A k \in 1..Len(v) : x[Len(u) + k] = v[k]
    BY <2>1, JoinIs
  <2>3. ASSUME NEW k \in 1..Len(w) PROVE w[k] = x[k]
    <3>1. CASE k \in 1..Len(a)
      BY <1>7, <1>8, <2>2, <3>1
    <3>2. CASE k \notin 1..Len(a)
      <4>1. k - Len(a) \in 1..Len(b) /\ Len(a) + (k - Len(a)) = k
        BY <1>1, <1>3, <1>7, <3>2
      <4> QED BY <1>7, <1>9, <2>2, <4>1
    <3> QED BY <3>1, <3>2
  <2>4. Len(w) = Len(x)
    BY <1>3, <1>7, <2>2
  <2> QED BY <2>1, <2>3, <2>4, SameSeq
<1>11. FlattenSeq(w) = FlattenSeq(u) \o FlattenSeq(v)
  BY <1>10, FlatConcat
<1> QED
  BY <1>2, <1>4, <1>5, <1>6, <1>11, OutermostIs

LEMMA OutermostTree == ASSUME NEW X, NEW n \in Trees(X) PROVE Outermost(n) = <<n>>
<1>0. n \in Forests(X) /\ 1 \in 1..Len(n) /\ Len(n) \in Nat /\ n[1].size = Len(n)
  BY TreeIs
<1>1. PICK w \in Seq(Seq(Trees(X))) : w = Tops(n)
  BY <1>0, TopsAre
<1>2. Len(w) = Len(n) /\ \A i \in 1..Len(n) : w[i] = IF Top(n, i) THEN <<Subtree(n, i)>> ELSE <<>>
  BY <1>0, <1>1, TopsAre
<1>3. ASSUME NEW k \in 1..Len(w), k # 1 PROVE w[k] = <<>>
  <2>1. 1 \in 1..(k - 1) /\ k \in 1..Len(n)
    BY <1>2, <1>3
  <2>2. ~ (1 + n[1].size <= k)
    BY <1>0, <2>1
  <2>3. ~Top(n, k)
    BY <2>1, <2>2 DEF Top
  <2> QED BY <1>2, <2>1, <2>3
<1>4. Top(n, 1)
  BY DEF Top
<1>5. w[1] = <<n>>
  BY <1>0, <1>2, <1>4, TreeTail
<1>6. 1 \in 1..Len(w)
  BY <1>0, <1>2
<1>7. FlattenSeq(w) = w[1]
  BY <1>3, <1>6, FlatOnly
<1> QED
  BY <1>1, <1>5, <1>7, OutermostIs

LEMMA OutermostMap ==
    ASSUME NEW X, NEW ch \in Seq(Trees(X)), NEW t \in Seq(Seq(Trees(X))),
           Len(t) = Len(ch), \A k \in 1..Len(ch) : t[k] = Outermost(ch[k])
    PROVE  Outermost(FlattenSeq(ch)) = FlattenSeq(t)
<1>1. ch \in Seq(Seq(X)) /\ Len(ch) \in Nat /\ \A k \in 1..Len(ch) : ch[k] \in Forests(X)
  BY TreesAre, SeqIs
<1>2. PICK F \in [0..Len(ch) -> Seq(X)] : Flat(F, ch)
  BY <1>1, Flattened
<1>3. PICK G \in [0..Len(t) -> Seq(Trees(X))] : Flat(G, t)
  BY Flattened
<1> DEFINE P == {k \in 0..Len(ch) : F[k] \in Forests(X) /\ Outermost(F[k]) = G[k]}
<1>4. 0 \in P
  BY <1>1, <1>2, <1>3, NoForest, OutermostNone DEF Flat
<1>5. ASSUME NEW k \in 1..Len(ch), k - 1 \in P PROVE k \in P
  <2>1. F[k] = F[k - 1] \o ch[k]
    BY <1>2 DEF Flat
  <2>2. F[k - 1] \in Forests(X) /\ ch[k] \in Forests(X) /\ k \in 0..Len(ch) /\ Outermost(F[k - 1]) = G[k - 1]
    BY <1>1, <1>5
  <2>3. k \in 1..Len(t)
    OBVIOUS
  <2>4. G[k] = G[k - 1] \o t[k]
    BY <1>3, <2>3 DEF Flat
  <2> HIDE DEF P
  <2>5. F[k] \in Forests(X)
    BY <2>1, <2>2, ForestJoin
  <2>6. PICK a \in Forests(X) : a = F[k - 1]
    BY <2>2
  <2>7. PICK b \in Forests(X) : b = ch[k]
    BY <2>2
  <2>8. Outermost(a \o b) = Outermost(a) \o Outermost(b)
    BY OutermostJoin
  <2>9. Outermost(F[k]) = G[k]
    BY <2>1, <2>2, <2>4, <2>6, <2>7, <2>8
  <2> QED BY <2>2, <2>5, <2>9 DEF P
<1>6. Len(ch) \in P
  <2>0. Len(ch) \in 0..Len(ch) /\ Len(ch) \in Nat
    BY <1>1
  <2> HIDE DEF P
  <2>1. 0..Len(ch) \subseteq P
    BY <1>4, <1>5, <2>0, Turns
  <2> QED BY <2>0, <2>1
<1>7. FlattenSeq(ch) = F[Len(ch)] /\ FlattenSeq(t) = G[Len(ch)]
  BY <1>2, <1>3 DEF Flat
<1> QED
  BY <1>6, <1>7

LEMMA OutermostFlat == ASSUME NEW X, NEW ch \in Seq(Trees(X)) PROVE Outermost(FlattenSeq(ch)) = ch
<1>1. Len(ch) \in Nat /\ \A k \in 1..Len(ch) : ch[k] \in Trees(X)
  BY SeqIs
<1> DEFINE t == [k \in 1..Len(ch) |-> <<ch[k]>>]
<1>2. t \in Seq(Seq(Trees(X))) /\ Len(t) = Len(ch) /\ \A k \in 1..Len(ch) : t[k] = <<ch[k]>>
  <2>1. t \in [1..Len(ch) -> Seq(Trees(X))] /\ \A k \in 1..Len(ch) : t[k] = <<ch[k]>>
    BY <1>1, OneIs
  <2> HIDE DEF t
  <2> QED BY <1>1, <2>1, MadeSeq
<1> HIDE DEF t
<1>3. \A k \in 1..Len(ch) : t[k] = Outermost(ch[k])
  BY <1>1, <1>2, OutermostTree
<1>4. Outermost(FlattenSeq(ch)) = FlattenSeq(t)
  BY <1>2, <1>3, OutermostMap
<1> QED
  BY <1>2, <1>4, FlatEach

LEMMA TaggedMap ==
    ASSUME NEW X, NEW ch \in Seq(Trees(X)), NEW T, NEW t \in Seq(Seq(Trees(X))),
           Len(t) = Len(ch), \A k \in 1..Len(ch) : t[k] = Tagged(ch[k], T)
    PROVE  Tagged(FlattenSeq(ch), T) = FlattenSeq(t)
<1>1. ch \in Seq(Seq(X)) /\ Len(ch) \in Nat /\ \A k \in 1..Len(ch) : ch[k] \in Forests(X)
  BY TreesAre, SeqIs
<1>2. PICK F \in [0..Len(ch) -> Seq(X)] : Flat(F, ch)
  BY <1>1, Flattened
<1>3. PICK G \in [0..Len(t) -> Seq(Trees(X))] : Flat(G, t)
  BY Flattened
<1> DEFINE P == {k \in 0..Len(ch) : F[k] \in Forests(X) /\ Tagged(F[k], T) = G[k]}
<1>4. 0 \in P
  BY <1>1, <1>2, <1>3, NoForest, TaggedNone DEF Flat
<1>5. ASSUME NEW k \in 1..Len(ch), k - 1 \in P PROVE k \in P
  <2>1. F[k] = F[k - 1] \o ch[k]
    BY <1>2 DEF Flat
  <2>2. F[k - 1] \in Forests(X) /\ ch[k] \in Forests(X) /\ k \in 0..Len(ch) /\ Tagged(F[k - 1], T) = G[k - 1]
    BY <1>1, <1>5
  <2>3. k \in 1..Len(t)
    OBVIOUS
  <2>4. G[k] = G[k - 1] \o t[k]
    BY <1>3, <2>3 DEF Flat
  <2> HIDE DEF P
  <2>5. F[k] \in Forests(X)
    BY <2>1, <2>2, ForestJoin
  <2>6. PICK a \in Forests(X) : a = F[k - 1]
    BY <2>2
  <2>7. PICK b \in Forests(X) : b = ch[k]
    BY <2>2
  <2>8. Tagged(a \o b, T) = Tagged(a, T) \o Tagged(b, T)
    BY TaggedJoin
  <2>9. Tagged(F[k], T) = G[k]
    BY <2>1, <2>2, <2>4, <2>6, <2>7, <2>8
  <2> QED BY <2>2, <2>5, <2>9 DEF P
<1>6. Len(ch) \in P
  <2>0. Len(ch) \in 0..Len(ch) /\ Len(ch) \in Nat
    BY <1>1
  <2> HIDE DEF P
  <2>1. 0..Len(ch) \subseteq P
    BY <1>4, <1>5, <2>0, Turns
  <2> QED BY <2>0, <2>1
<1>7. FlattenSeq(ch) = F[Len(ch)] /\ FlattenSeq(t) = G[Len(ch)]
  BY <1>2, <1>3 DEF Flat
<1> QED
  BY <1>6, <1>7

--------------------------------------------------------------------------------
(* Children by tag *)

Marks(s, tag) == [i \in DOMAIN s |-> IF TagOf(s[i]) = tag THEN <<s[i]>> ELSE <<>>]

Bearers(S, tag) == {n \in S : TagOf(n) = tag}

LEMMA MarksAre ==
    ASSUME NEW S, NEW s \in Seq(S), NEW tag
    PROVE  /\ Marks(s, tag) \in Seq(Seq(Bearers(S, tag))) /\ Len(Marks(s, tag)) = Len(s)
           /\ \A i \in 1..Len(s) : Marks(s, tag)[i] = IF TagOf(s[i]) = tag THEN <<s[i]>> ELSE <<>>
           /\ OfTag(s, tag) = FlattenSeq(Marks(s, tag))
<1> DEFINE U == Bearers(S, tag)
<1>1. Len(s) \in Nat /\ DOMAIN s = 1..Len(s) /\ \A k \in 1..Len(s) : s[k] \in S
  BY SeqIs
<1>2. ASSUME NEW i \in 1..Len(s)
      PROVE  (IF TagOf(s[i]) = tag THEN <<s[i]>> ELSE <<>>) \in Seq(U)
  <2>1. CASE TagOf(s[i]) = tag
    <3>1. s[i] \in U
      BY <1>1, <2>1 DEF Bearers
    <3> QED BY <2>1, <3>1, OneIs
  <2> QED BY <2>1
<1> HIDE DEF U
<1>3. Marks(s, tag) \in [1..Len(s) -> Seq(U)]
      /\ \A i \in 1..Len(s) : Marks(s, tag)[i] = IF TagOf(s[i]) = tag THEN <<s[i]>> ELSE <<>>
  BY <1>1, <1>2, Zenon DEF Marks
<1>4. Marks(s, tag) \in Seq(Seq(U)) /\ Len(Marks(s, tag)) = Len(s)
  BY <1>1, <1>3, MadeSeq
<1>5. OfTag(s, tag) = FlattenSeq(Marks(s, tag))
  BY DEF OfTag, Marks
<1> QED
  BY <1>3, <1>4, <1>5 DEF U

LEMMA MarkIs ==
    ASSUME NEW S, NEW s \in Seq(S), NEW tag
    PROVE  Len(Marks(s, tag)) = Len(s) /\ \A i \in 1..Len(s) : Marks(s, tag)[i] = IF TagOf(s[i]) = tag THEN <<s[i]>> ELSE <<>>
BY MarksAre

LEMMA OfTagTyped ==
    ASSUME NEW S, NEW s \in Seq(S), NEW tag
    PROVE  OfTag(s, tag) \in Seq(S) /\ \A k \in 1..Len(OfTag(s, tag)) : TagOf(OfTag(s, tag)[k]) = tag
<1>1. PICK u \in Seq(Bearers(S, tag)) : u = OfTag(s, tag)
  BY MarksAre, FlatTyped
<1>2. \A k \in 1..Len(u) : TagOf(u[k]) = tag
  BY SeqIs DEF Bearers
<1>3. u \in Seq(S)
  <2>1. Bearers(S, tag) \subseteq S
    BY DEF Bearers
  <2> QED BY <2>1, SeqGrows
<1> QED
  BY <1>1, <1>2, <1>3

LEMMA OfTagNone == \A tag : OfTag(<<>>, tag) = <<>>
<1> TAKE tag
<1>1. OfTag(<<>>, tag) = FlattenSeq(<<>>)
  BY DEF OfTag
<1> QED
  BY <1>1, FlatNone

LEMMA OfTagJoin ==
    ASSUME NEW S, NEW a \in Seq(S), NEW b \in Seq(S), NEW tag
    PROVE  OfTag(a \o b, tag) = OfTag(a, tag) \o OfTag(b, tag)
<1>1. PICK c \in Seq(S) : c = a \o b
  BY JoinIs
<1>2. Len(c) = Len(a) + Len(b) /\ Len(a) \in Nat /\ Len(b) \in Nat
      /\ (\A k \in 1..Len(a) : c[k] = a[k]) /\ \A k \in 1..Len(b) : c[Len(a) + k] = b[k]
  BY <1>1, JoinIs, SeqIs
<1> DEFINE U == Seq(Bearers(S, tag))
<1>3. PICK u \in Seq(U) : u = Marks(a, tag)
  BY MarksAre
<1>4. PICK v \in Seq(U) : v = Marks(b, tag)
  BY MarksAre
<1>5. PICK w \in Seq(U) : w = Marks(c, tag)
  BY MarksAre
<1>6. Len(u) = Len(a) /\ Len(v) = Len(b) /\ Len(w) = Len(c)
      /\ FlattenSeq(u) = OfTag(a, tag) /\ FlattenSeq(v) = OfTag(b, tag) /\ FlattenSeq(w) = OfTag(c, tag)
  BY <1>3, <1>4, <1>5, MarksAre
<1>7. \A k \in 1..Len(a) : w[k] = u[k]
  <2>1. ASSUME NEW k \in 1..Len(a) PROVE w[k] = u[k]
    <3>1. k \in 1..Len(c)
      BY <1>2
    <3>2. u[k] = IF TagOf(a[k]) = tag THEN <<a[k]>> ELSE <<>>
      BY <1>3, MarkIs
    <3>3. w[k] = IF TagOf(c[k]) = tag THEN <<c[k]>> ELSE <<>>
      BY <1>5, <3>1, MarkIs
    <3> QED BY <1>2, <3>2, <3>3
  <2> QED BY <2>1
<1>8. \A k \in 1..Len(b) : w[Len(a) + k] = v[k]
  <2>1. ASSUME NEW k \in 1..Len(b) PROVE w[Len(a) + k] = v[k]
    <3>1. Len(a) + k \in 1..Len(c)
      BY <1>2
    <3>2. v[k] = IF TagOf(b[k]) = tag THEN <<b[k]>> ELSE <<>>
      BY <1>4, MarkIs
    <3>3. w[Len(a) + k] = IF TagOf(c[Len(a) + k]) = tag THEN <<c[Len(a) + k]>> ELSE <<>>
      BY <1>5, <3>1, MarkIs
    <3> QED BY <1>2, <3>2, <3>3
  <2> QED BY <2>1
<1> HIDE DEF U
<1>9. w = u \o v
  <2>1. PICK x \in Seq(U) : x = u \o v
    BY JoinIs
  <2>2. Len(x) = Len(u) + Len(v) /\ (\A k \in 1..Len(u) : x[k] = u[k]) /\ \A k \in 1..Len(v) : x[Len(u) + k] = v[k]
    BY <2>1, JoinIs
  <2>3. ASSUME NEW k \in 1..Len(w) PROVE w[k] = x[k]
    <3>1. CASE k \in 1..Len(a)
      BY <1>6, <1>7, <2>2, <3>1
    <3>2. CASE k \notin 1..Len(a)
      <4>1. k - Len(a) \in 1..Len(b) /\ Len(a) + (k - Len(a)) = k
        BY <1>2, <1>6, <3>2
      <4> QED BY <1>6, <1>8, <2>2, <4>1
    <3> QED BY <3>1, <3>2
  <2>4. Len(w) = Len(x)
    BY <1>2, <1>6, <2>2
  <2> QED BY <2>1, <2>3, <2>4, SameSeq
<1>10. FlattenSeq(w) = FlattenSeq(u) \o FlattenSeq(v)
  BY <1>9, FlatConcat DEF U
<1> QED
  BY <1>1, <1>6, <1>10

LEMMA OfTagOne == ASSUME NEW n, NEW tag PROVE OfTag(<<n>>, tag) = IF TagOf(n) = tag THEN <<n>> ELSE <<>>
<1>1. PICK s \in Seq({n}) : s = <<n>> /\ Len(s) = 1 /\ s[1] = n
  BY OneIs
<1>2. PICK m \in Seq(Seq(Bearers({n}, tag))) : m = Marks(s, tag)
  BY MarksAre
<1>3. Len(m) = 1 /\ m[1] = (IF TagOf(n) = tag THEN <<n>> ELSE <<>>) /\ OfTag(s, tag) = FlattenSeq(m)
  <2>1. 1 \in 1..Len(s)
    BY <1>1
  <2>a. Len(m) = Len(s) /\ m[1] = IF TagOf(s[1]) = tag THEN <<s[1]>> ELSE <<>>
    BY <1>2, <2>1, MarkIs
  <2>2. Len(m) = 1 /\ m[1] = (IF TagOf(n) = tag THEN <<n>> ELSE <<>>)
    BY <1>1, <2>a
  <2>3. OfTag(s, tag) = FlattenSeq(m)
    BY <1>2 DEF OfTag, Marks
  <2> QED BY <2>2, <2>3
<1>4. 1 \in 1..Len(m) /\ \A k \in 1..Len(m) : k # 1 => m[k] = <<>>
  BY <1>3
<1>5. FlattenSeq(m) = m[1]
  BY <1>4, FlatOnly
<1> QED
  BY <1>1, <1>3, <1>5

LEMMA OfTagEmpty ==
    ASSUME NEW S, NEW s \in Seq(S), NEW tag, \A k \in 1..Len(s) : TagOf(s[k]) # tag PROVE OfTag(s, tag) = <<>>
<1>1. PICK m \in Seq(Seq(Bearers(S, tag))) : m = Marks(s, tag)
  BY MarksAre
<1>a. Len(m) = Len(s) /\ \A i \in 1..Len(s) : Marks(s, tag)[i] = IF TagOf(s[i]) = tag THEN <<s[i]>> ELSE <<>>
  BY <1>1, MarkIs
<1>2. ASSUME NEW k \in 1..Len(m) PROVE m[k] = <<>>
  <2>1. k \in 1..Len(s) /\ TagOf(s[k]) # tag
    BY <1>a
  <2>2. m[k] = IF TagOf(s[k]) = tag THEN <<s[k]>> ELSE <<>>
    BY <1>1, <1>a, <2>1
  <2> QED BY <2>1, <2>2
<1>3. FlattenSeq(m) = <<>>
  BY <1>2, FlatEmpty
<1> QED
  BY <1>1, <1>3 DEF OfTag, Marks

LEMMA FirstIs ==
    ASSUME NEW S, NEW s \in Seq(S)
    PROVE  FirstOf(s) \in Seq(S) /\ FirstOf(s) = IF Len(s) = 0 THEN <<>> ELSE <<s[1]>>
BY DEF FirstOf

LEMMA FirstJoin == ASSUME NEW S, NEW a \in S, NEW s \in Seq(S) PROVE FirstOf(<<a>> \o s) = <<a>>
<1>1. PICK u \in Seq(S) : u = <<a>>
  BY OneIs
<1>2. Len(u) = 1 /\ u[1] = a
  BY <1>1
<1>3. PICK v \in Seq(S) : v = u \o s
  BY JoinIs
<1>4. Len(v) = 1 + Len(s) /\ v[1] = a
  <2>1. 1 \in 1..Len(u)
    BY <1>2
  <2> QED BY <1>2, <1>3, <2>1, JoinIs, SMTT(30)
<1>5. Len(v) # 0
  BY <1>4, SeqIs
<1> QED
  BY <1>1, <1>3, <1>4, <1>5, FirstIs

LEMMA TextsAre ==
    ASSUME NEW S, NEW s \in Seq(S)
    PROVE  DOMAIN Texts(s) = 1..Len(s) /\ Len(Texts(s)) = Len(s) /\ \A k \in 1..Len(s) : Texts(s)[k] = TextOf(s[k])
<1>1. DOMAIN s = 1..Len(s) /\ Len(s) \in Nat
  BY SeqIs
<1>2. Texts(s) = [k \in 1..Len(s) |-> TextOf(s[k])]
  BY <1>1 DEF Texts
<1> QED
  BY <1>1, <1>2

LEMMA TextsNone == Texts(<<>>) = <<>>
BY DEF Texts

LEMMA TextsOne == ASSUME NEW n PROVE Texts(<<n>>) = <<TextOf(n)>>
<1>1. DOMAIN <<n>> = {1}
  OBVIOUS
<1>2. Texts(<<n>>) = [i \in {1} |-> TextOf(<<n>>[i])]
  BY <1>1 DEF Texts
<1> QED
  BY <1>2

--------------------------------------------------------------------------------
(* The nodes of a written document *)

Tags ==
    {"AUTOSAR", "AR-PACKAGES", "AR-PACKAGE", "ELEMENTS", "SHORT-NAME", "CATEGORY",
     "CAN-CLUSTER", "CAN-CLUSTER-VARIANTS", "CAN-CLUSTER-CONDITIONAL", "BAUDRATE",
     "PHYSICAL-CHANNELS", "CAN-PHYSICAL-CHANNEL", "ECU-INSTANCE", "COMM-CONTROLLERS",
     "CAN-COMMUNICATION-CONTROLLER", "CAN-FRAME", "FRAME-LENGTH", "PDU-TO-FRAME-MAPPINGS",
     "PDU-TO-FRAME-MAPPING", "PDU-REF", "START-POSITION", "I-SIGNAL-I-PDU", "LENGTH",
     "I-SIGNAL-TO-PDU-MAPPINGS", "I-SIGNAL-TO-I-PDU-MAPPING", "I-SIGNAL-REF", "I-SIGNAL",
     "INIT-VALUE", "NUMERICAL-VALUE-SPECIFICATION", "VALUE", "NETWORK-REPRESENTATION-PROPS",
     "BASE-TYPE-REF", "I-SIGNAL-GROUP", "I-SIGNAL-REFS"}
Words == {"", "Sys", "SwBaseType", "SINT8", "mapping", "target"}
Parts == Int \cup Words
Values == Parts \cup Seq(Parts)
Rows == [tag : Tags, text : Values, size : Nat]
Nodes == Trees(Rows)

LEMMA RowIs == ASSUME NEW t \in Tags, NEW x \in Values, NEW n \in Nat PROVE [tag |-> t, text |-> x, size |-> n] \in Rows
BY DEF Rows

LEMMA PairIs == ASSUME NEW S, NEW a \in S, NEW b \in S PROVE <<a, b>> \in Seq(S)
OBVIOUS

LEMMA TripleIs == ASSUME NEW S, NEW a \in S, NEW b \in S, NEW c \in S PROVE <<a, b, c>> \in Seq(S)
OBVIOUS

\* The names xmlNodeSetContent leaves as they are.
Clear == Nat \ Ampersands

LEMMA ClearIs ==
    /\ Clear \subseteq Nat /\ Clear \subseteq Int /\ NoName \in Clear /\ 0 \in Clear
    /\ Seq(Clear) \subseteq Seq(Nat) /\ Seq(Clear) \subseteq Seq(Int)
    /\ \A n \in Clear : SetContent(n) = n
<1>1. Clear \subseteq Nat /\ Clear \subseteq Int /\ NoName \in Clear /\ 0 \in Clear
  BY AmpersandAssumption DEF Clear, NoName
<1>2. \A n \in Clear : SetContent(n) = n
  BY DEF Clear, SetContent
<1> QED
  BY <1>1, <1>2, SeqGrows

LEMMA ValueIs ==
    /\ "" \in Values /\ Nat \subseteq Values /\ Int \subseteq Values /\ Clear \subseteq Values
    /\ \A w \in Words, n \in Int : <<w, n>> \in Values
    /\ <<"SwBaseType", "SINT8">> \in Values
    /\ \A w \in Words, m \in Int, n \in Int : <<m, w, n>> \in Values
<1>1. "" \in Parts /\ "SwBaseType" \in Parts /\ "SINT8" \in Parts /\ Words \subseteq Parts /\ Int \subseteq Parts /\ Nat \subseteq Parts
  BY DEF Parts, Words
<1>2. \A a \in Parts, b \in Parts : <<a, b>> \in Values
  BY PairIs DEF Values
<1>3. \A a \in Parts, b \in Parts, c \in Parts : <<a, b, c>> \in Values
  BY TripleIs DEF Values
<1>4. Parts \subseteq Values
  BY DEF Values
<1> QED
  BY <1>1, <1>2, <1>3, <1>4, ClearIs

LEMMA Built ==
    ASSUME NEW t \in Tags, NEW x \in Values, NEW ch \in Seq(Nodes)
    PROVE  /\ Node(t, x, ch) \in Nodes /\ Tail(Node(t, x, ch)) = FlattenSeq(ch)
           /\ TagOf(Node(t, x, ch)) = t /\ TextOf(Node(t, x, ch)) = x
           /\ ChildrenOf(Node(t, x, ch)) = ch
<1>1. ch \in Seq(Trees(Rows)) /\ \A n \in Nat : [tag |-> t, text |-> x, size |-> n] \in Rows
  BY RowIs DEF Nodes
<1>2. /\ Node(t, x, ch) \in Trees(Rows) /\ Tail(Node(t, x, ch)) = FlattenSeq(ch)
      /\ TagOf(Node(t, x, ch)) = t /\ TextOf(Node(t, x, ch)) = x
  BY <1>1, NodeIs
<1>3. ChildrenOf(Node(t, x, ch)) = ch
  BY <1>1, <1>2, OutermostFlat DEF ChildrenOf
<1> QED
  BY <1>2, <1>3 DEF Nodes

LEMMA NoNodes == <<>> \in Seq(Nodes)
OBVIOUS

LEMMA GroupBuilt ==
    ASSUME NEW t \in Tags, NEW ch \in Seq(Nodes)
    PROVE  Group(t, ch) \in Nodes /\ TagOf(Group(t, ch)) = t /\ ChildrenOf(Group(t, ch)) = ch /\ Tail(Group(t, ch)) = FlattenSeq(ch)
BY ValueIs, Built DEF Group

LEMMA LeafBuilt ==
    ASSUME NEW t \in Tags, NEW x \in Values
    PROVE  /\ Leaf(t, x) \in Nodes /\ TagOf(Leaf(t, x)) = t /\ TextOf(Leaf(t, x)) = x
           /\ ChildrenOf(Leaf(t, x)) = <<>> /\ Tail(Leaf(t, x)) = <<>>
<1>1. PICK ch \in Seq(Nodes) : ch = <<>>
  BY NoNodes
<1> QED
  BY <1>1, Built, FlatNone DEF Leaf

\* The nodes inside some nodes, themselves included.
In(ch, T) == Tagged(FlattenSeq(ch), T)

LEMMA NodesForest == ASSUME NEW ch \in Seq(Nodes) PROVE FlattenSeq(ch) \in Forests(Rows) /\ ch \in Seq(Seq(Rows))
BY ForestOf DEF Nodes

LEMMA InTyped == ASSUME NEW ch \in Seq(Nodes), NEW T PROVE In(ch, T) \in Seq(Nodes)
BY NodesForest, TaggedTyped DEF In, Nodes

LEMMA InNone == ASSUME NEW T PROVE In(<<>>, T) = <<>>
BY FlatNone, TaggedNone DEF In

LEMMA InJoin ==
    ASSUME NEW a \in Seq(Nodes), NEW b \in Seq(Nodes), NEW T PROVE In(a \o b, T) = In(a, T) \o In(b, T)
<1>1. FlattenSeq(a \o b) = FlattenSeq(a) \o FlattenSeq(b)
  BY NodesForest, FlatConcat
<1>2. PICK x \in Forests(Rows) : x = FlattenSeq(a)
  BY NodesForest
<1>3. PICK y \in Forests(Rows) : y = FlattenSeq(b)
  BY NodesForest
<1>4. Tagged(x \o y, T) = Tagged(x, T) \o Tagged(y, T)
  BY TaggedJoin
<1> QED
  BY <1>1, <1>2, <1>3, <1>4 DEF In

LEMMA InOne == ASSUME NEW n \in Nodes, NEW T PROVE In(<<n>>, T) = Tagged(n, T)
<1>1. n \in Seq(Rows)
  BY TreesAre DEF Nodes
<1> QED
  BY <1>1, FlatOne DEF In

LEMMA InNode ==
    ASSUME NEW t \in Tags, NEW x \in Values, NEW ch \in Seq(Nodes), NEW T
    PROVE  In(<<Node(t, x, ch)>>, T) = IF t \in T THEN <<Node(t, x, ch)>> \o In(ch, T) ELSE In(ch, T)
<1>1. PICK n \in Nodes : n = Node(t, x, ch)
  BY Built
<1>2. TagOf(n) = t /\ Tail(n) = FlattenSeq(ch)
  BY <1>1, Built
<1>3. Tagged(n, T) = (IF t \in T THEN <<n>> ELSE <<>>) \o Tagged(Tail(n), T)
  BY <1>2, TaggedTree DEF Nodes
<1>4. PICK y \in Seq(Nodes) : y = In(ch, T)
  BY InTyped
<1>5. <<>> \o y = y
  BY JoinNone
<1> QED
  BY <1>1, <1>2, <1>3, <1>4, <1>5, InOne DEF In

LEMMA InGroup ==
    ASSUME NEW t \in Tags, NEW ch \in Seq(Nodes), NEW T, t \notin T PROVE In(<<Group(t, ch)>>, T) = In(ch, T)
<1>1. ASSUME NEW x \in Values PROVE In(<<Node(t, x, ch)>>, T) = In(ch, T)
  <2>1. In(<<Node(t, x, ch)>>, T) = IF t \in T THEN <<Node(t, x, ch)>> \o In(ch, T) ELSE In(ch, T)
    BY InNode
  <2> QED BY <2>1
<1> QED
  BY <1>1, ValueIs DEF Group

LEMMA InLeaf ==
    ASSUME NEW t \in Tags, NEW x \in Values, NEW T
    PROVE  In(<<Leaf(t, x)>>, T) = IF t \in T THEN <<Leaf(t, x)>> ELSE <<>>
<1>5. ASSUME NEW ch \in Seq(Nodes)
      PROVE  In(<<Node(t, x, ch)>>, T) = IF t \in T THEN <<Node(t, x, ch)>> \o In(ch, T) ELSE In(ch, T)
  BY InNode
<1>1. PICK ch \in Seq(Nodes) : ch = <<>>
  BY NoNodes
<1>2. In(ch, T) = <<>>
  BY <1>1, InNone
<1>3. PICK n \in Seq(Nodes) : n = <<Node(t, x, ch)>>
  BY Built, OneIs
<1>4. n \o <<>> = n
  BY JoinNone
<1> QED
  BY <1>1, <1>2, <1>3, <1>4, <1>5 DEF Leaf

LEMMA InMap ==
    ASSUME NEW ch \in Seq(Nodes), NEW T, NEW y \in Seq(Nodes), Len(y) = Len(ch), \A k \in 1..Len(ch) : In(<<ch[k]>>, T) = <<y[k]>>
    PROVE  In(ch, T) = y
<1>1. Len(ch) \in Nat /\ (\A k \in 1..Len(ch) : ch[k] \in Nodes /\ y[k] \in Nodes)
  BY SeqIs
<1> DEFINE t == [k \in 1..Len(ch) |-> <<y[k]>>]
<1>2. t \in Seq(Seq(Nodes)) /\ Len(t) = Len(ch) /\ \A k \in 1..Len(ch) : t[k] = <<y[k]>>
  <2>1. t \in [1..Len(ch) -> Seq(Nodes)] /\ \A k \in 1..Len(ch) : t[k] = <<y[k]>>
    BY <1>1, OneIs
  <2> HIDE DEF t
  <2> QED BY <1>1, <2>1, MadeSeq
<1> HIDE DEF t
<1>3. \A k \in 1..Len(ch) : t[k] = Tagged(ch[k], T)
  BY <1>1, <1>2, InOne
<1>a. ch \in Seq(Trees(Rows)) /\ t \in Seq(Seq(Trees(Rows)))
  BY <1>2 DEF Nodes
<1>4. Tagged(FlattenSeq(ch), T) = FlattenSeq(t)
  BY <1>2, <1>3, <1>a, TaggedMap
<1>5. FlattenSeq(t) = y
  BY <1>2, FlatEach
<1> QED
  BY <1>4, <1>5 DEF In

LEMMA InEmpty ==
    ASSUME NEW ch \in Seq(Nodes), NEW T, \A k \in 1..Len(ch) : In(<<ch[k]>>, T) = <<>>
    PROVE  In(ch, T) = <<>>
<1>1. Len(ch) \in Nat /\ (\A k \in 1..Len(ch) : ch[k] \in Nodes)
  BY SeqIs
<1> DEFINE t == [k \in 1..Len(ch) |-> <<>>]
<1>2. t \in Seq(Seq(Nodes)) /\ Len(t) = Len(ch) /\ \A k \in 1..Len(ch) : t[k] = <<>>
  <2>1. t \in [1..Len(ch) -> Seq(Nodes)] /\ \A k \in 1..Len(ch) : t[k] = <<>>
    BY NoNodes
  <2> HIDE DEF t
  <2> QED BY <1>1, <2>1, MadeSeq
<1> HIDE DEF t
<1>3. \A k \in 1..Len(ch) : t[k] = Tagged(ch[k], T)
  BY <1>1, <1>2, InOne
<1>4. Tagged(FlattenSeq(ch), T) = FlattenSeq(t)
  BY <1>2, <1>3, TaggedMap DEF Nodes
<1>5. FlattenSeq(t) = <<>>
  BY <1>2, FlatEmpty
<1> QED
  BY <1>4, <1>5 DEF In

--------------------------------------------------------------------------------
(* Sorting *)

Low(keys, i) == {j \in DOMAIN keys : keys[j] < keys[i] \/ (keys[j] = keys[i] /\ j <= i)}
Place(keys, k) == CHOOSE i \in DOMAIN keys : Rank(keys, i) = k
Perms(n) == {p \in [1..n -> 1..n] : \A a, b \in 1..n : p[a] = p[b] => a = b}

LEMMA LowIs ==
    ASSUME NEW keys \in Seq(Int), NEW i \in 1..Len(keys)
    PROVE  /\ Low(keys, i) \subseteq 1..Len(keys) /\ IsFiniteSet(Low(keys, i)) /\ i \in Low(keys, i)
           /\ Rank(keys, i) = Cardinality(Low(keys, i)) /\ Rank(keys, i) \in 1..Len(keys)
<1>1. Len(keys) \in Nat /\ DOMAIN keys = 1..Len(keys) /\ keys[i] \in Int
  BY SeqIs
<1>2. Low(keys, i) \subseteq 1..Len(keys)
  BY <1>1 DEF Low
<1>3. i \in Low(keys, i)
  BY <1>1 DEF Low
<1>4. IsFiniteSet(1..Len(keys)) /\ Cardinality(1..Len(keys)) = Len(keys)
  BY <1>1, FS_Interval, SMTT(30)
<1>5. IsFiniteSet(Low(keys, i)) /\ Cardinality(Low(keys, i)) <= Len(keys)
  <2>1. Low(keys, i) \in SUBSET (1..Len(keys))
    BY <1>2
  <2> QED BY <1>4, <2>1, FS_Subset
<1>6. Cardinality(Low(keys, i)) \in Nat /\ Cardinality(Low(keys, i)) # 0
  BY <1>3, <1>5, FS_CardinalityType, FS_EmptySet
<1>7. Rank(keys, i) = Cardinality(Low(keys, i))
  BY DEF Rank, Low
<1>8. Rank(keys, i) \in 1..Len(keys)
  BY <1>1, <1>5, <1>6, <1>7
<1> QED
  BY <1>2, <1>3, <1>5, <1>7, <1>8

LEMMA RankLess ==
    ASSUME NEW keys \in Seq(Int), NEW i \in 1..Len(keys), NEW j \in 1..Len(keys), i # j, j \in Low(keys, i)
    PROVE  Rank(keys, j) < Rank(keys, i)
<1>1. DOMAIN keys = 1..Len(keys) /\ \A k \in 1..Len(keys) : keys[k] \in Int
  BY SeqIs
<1>2. keys[j] < keys[i] \/ (keys[j] = keys[i] /\ j <= i)
  BY DEF Low
<1>3. Low(keys, j) \subseteq Low(keys, i)
  <2>1. ASSUME NEW k \in Low(keys, j) PROVE k \in Low(keys, i)
    <3>1. k \in 1..Len(keys) /\ (keys[k] < keys[j] \/ (keys[k] = keys[j] /\ k <= j))
      BY <1>1 DEF Low
    <3>2. keys[k] < keys[i] \/ (keys[k] = keys[i] /\ k <= i)
      <4>1. keys[k] \in Int /\ keys[j] \in Int /\ keys[i] \in Int
        BY <1>1, <3>1
      <4>2. PICK x, y, z \in Int : x = keys[k] /\ y = keys[j] /\ z = keys[i]
        BY <4>1
      <4> QED BY <1>2, <3>1, <4>2
    <3> QED BY <1>1, <3>1, <3>2 DEF Low
  <2> QED BY <2>1
<1>4. i \notin Low(keys, j)
  <2>1. PICK y, z \in Int : y = keys[j] /\ z = keys[i]
    BY <1>1
  <2> QED BY <1>2, <2>1 DEF Low
<1>5. i \in Low(keys, i) /\ IsFiniteSet(Low(keys, i)) /\ IsFiniteSet(Low(keys, j))
  BY LowIs
<1>6. Low(keys, j) # Low(keys, i)
  BY <1>4, <1>5
<1>7. Cardinality(Low(keys, j)) <= Cardinality(Low(keys, i)) /\ Cardinality(Low(keys, j)) # Cardinality(Low(keys, i))
  <2>1. Low(keys, j) \in SUBSET Low(keys, i)
    BY <1>3
  <2> QED BY <1>5, <1>6, <2>1, FS_Subset
<1>8. Cardinality(Low(keys, i)) \in Nat /\ Cardinality(Low(keys, j)) \in Nat
  BY <1>5, FS_CardinalityType
<1> QED
  BY <1>7, <1>8, LowIs

LEMMA RankOrder ==
    ASSUME NEW keys \in Seq(Int), NEW i \in 1..Len(keys), NEW j \in 1..Len(keys), i # j
    PROVE  (Rank(keys, j) < Rank(keys, i) /\ keys[j] <= keys[i]) \/ (Rank(keys, i) < Rank(keys, j) /\ keys[i] <= keys[j])
<1>1. DOMAIN keys = 1..Len(keys) /\ keys[i] \in Int /\ keys[j] \in Int
  BY SeqIs
<1>2. (j \in Low(keys, i) /\ keys[j] <= keys[i]) \/ (i \in Low(keys, j) /\ keys[i] <= keys[j])
  <2>1. PICK y, z \in Int : y = keys[j] /\ z = keys[i]
    BY <1>1
  <2> QED BY <1>1, <2>1 DEF Low
<1> QED
  BY <1>2, RankLess

LEMMA PermOnto == ASSUME NEW n \in Nat, NEW p \in Perms(n), NEW k \in 1..n PROVE \E i \in 1..n : p[i] = k
<1>1. p \in Injection(1..n, 1..n)
  BY DEF Perms, Injection, IsInjective
<1>2. IsFiniteSet(1..n)
  BY FS_Interval
<1>3. p \in Surjection(1..n, 1..n)
  BY <1>1, <1>2, FS_Injection
<1> QED
  BY <1>3 DEF Surjection

LEMMA RankPerm ==
    ASSUME NEW keys \in Seq(Int)
    PROVE  [i \in 1..Len(keys) |-> Rank(keys, i)] \in Perms(Len(keys))
<1>1. \A i \in 1..Len(keys) : Rank(keys, i) \in 1..Len(keys)
  BY LowIs
<1>2. ASSUME NEW i \in 1..Len(keys), NEW j \in 1..Len(keys), Rank(keys, i) = Rank(keys, j) PROVE i = j
  <2>1. Rank(keys, i) \in Nat
    BY <1>1
  <2> QED BY <1>2, <2>1, RankOrder
<1> QED
  BY <1>1, <1>2 DEF Perms

LEMMA PlaceIs ==
    ASSUME NEW keys \in Seq(Int), NEW k \in 1..Len(keys)
    PROVE  Place(keys, k) \in 1..Len(keys) /\ Rank(keys, Place(keys, k)) = k /\ Place(keys, Rank(keys, k)) = k
<1>1. Len(keys) \in Nat /\ DOMAIN keys = 1..Len(keys)
  BY SeqIs
<1> DEFINE r == [i \in 1..Len(keys) |-> Rank(keys, i)]
<1>2. r \in Perms(Len(keys))
  BY RankPerm
<1>3. \E i \in 1..Len(keys) : Rank(keys, i) = k
  <2>1. \E i \in 1..Len(keys) : r[i] = k
    <3> HIDE DEF r
    <3> QED BY <1>1, <1>2, PermOnto
  <2> QED BY <2>1
<1>4. Place(keys, k) \in 1..Len(keys) /\ Rank(keys, Place(keys, k)) = k
  BY <1>1, <1>3 DEF Place
<1>5. Place(keys, Rank(keys, k)) = k
  <2>1. \E i \in DOMAIN keys : Rank(keys, i) = Rank(keys, k)
    BY <1>1
  <2>2. Place(keys, Rank(keys, k)) \in 1..Len(keys) /\ Rank(keys, Place(keys, Rank(keys, k))) = Rank(keys, k)
    BY <1>1, <2>1 DEF Place
  <2>3. \A a, b \in 1..Len(keys) : Rank(keys, a) = Rank(keys, b) => a = b
    BY <1>2 DEF Perms
  <2> QED BY <2>2, <2>3
<1> QED
  BY <1>4, <1>5

LEMMA PlaceOrder ==
    ASSUME NEW keys \in Seq(Int), NEW k \in 1..Len(keys), NEW l \in 1..Len(keys), k <= l
    PROVE  keys[Place(keys, k)] <= keys[Place(keys, l)]
<1>1. PICK a \in 1..Len(keys) : a = Place(keys, k) /\ Rank(keys, a) = k
  BY PlaceIs
<1>2. PICK b \in 1..Len(keys) : b = Place(keys, l) /\ Rank(keys, b) = l
  BY PlaceIs
<1>3. keys[a] \in Int
  BY SeqIs
<1>4. CASE a = b
  BY <1>1, <1>2, <1>3, <1>4
<1>5. CASE a # b
  <2>1. (l < k /\ keys[b] <= keys[a]) \/ (k < l /\ keys[a] <= keys[b])
    BY <1>1, <1>2, <1>5, RankOrder
  <2> QED BY <1>1, <1>2, <2>1
<1> QED
  BY <1>4, <1>5

LEMMA PlacePerm ==
    ASSUME NEW keys \in Seq(Int)
    PROVE  [k \in 1..Len(keys) |-> Place(keys, k)] \in Perms(Len(keys))
<1>1. \A k \in 1..Len(keys) : Place(keys, k) \in 1..Len(keys) /\ Rank(keys, Place(keys, k)) = k
  BY PlaceIs
<1> QED
  BY <1>1 DEF Perms

LEMMA SortedIs ==
    ASSUME NEW S, NEW s \in Seq(S), NEW keys \in Seq(Int), Len(keys) = Len(s)
    PROVE  /\ SortedBy(s, keys) \in Seq(S) /\ Len(SortedBy(s, keys)) = Len(s)
           /\ \A k \in 1..Len(s) : SortedBy(s, keys)[k] = s[Place(keys, k)] /\ Place(keys, k) \in 1..Len(s)
<1>1. Len(s) \in Nat /\ DOMAIN s = 1..Len(s) /\ DOMAIN keys = 1..Len(s) /\ \A k \in 1..Len(s) : s[k] \in S
  BY SeqIs
<1>2. \A k \in 1..Len(s) : Place(keys, k) \in 1..Len(s)
  BY PlaceIs
<1>3. SortedBy(s, keys) = [k \in 1..Len(s) |-> s[Place(keys, k)]]
  BY <1>1 DEF SortedBy, Place
<1>4. SortedBy(s, keys) \in [1..Len(s) -> S] /\ \A k \in 1..Len(s) : SortedBy(s, keys)[k] = s[Place(keys, k)]
  BY <1>1, <1>2, <1>3
<1> QED
  BY <1>1, <1>2, <1>4, MadeSeq

\* What is in order stays.
LEMMA SortedDone ==
    ASSUME NEW S, NEW s \in Seq(S), NEW keys \in Seq(Int), Len(keys) = Len(s),
           \A i, j \in 1..Len(s) : i <= j => keys[i] <= keys[j]
    PROVE  SortedBy(s, keys) = s
<1>1. Len(s) \in Nat /\ DOMAIN s = 1..Len(s) /\ DOMAIN keys = 1..Len(s) /\ \A k \in 1..Len(s) : keys[k] \in Int
  BY SeqIs
<1>2. ASSUME NEW i \in 1..Len(s) PROVE Rank(keys, i) = i
  <2>1. Low(keys, i) = 1..i
    <3>1. ASSUME NEW j \in 1..Len(s) PROVE j \in Low(keys, i) <=> j <= i
      <4>1. PICK y, z \in Int : y = keys[j] /\ z = keys[i]
        BY <1>1
      <4>2. (j <= i => y <= z) /\ (i <= j => z <= y)
        BY <4>1
      <4> QED BY <1>1, <4>1, <4>2 DEF Low
    <3>2. Low(keys, i) \subseteq 1..Len(s)
      BY LowIs
    <3>3. \A j \in Low(keys, i) : j \in 1..i
      BY <3>1, <3>2
    <3>4. \A j \in 1..i : j \in 1..Len(s) /\ j <= i
      BY <1>1
    <3>5. \A j \in 1..i : j \in Low(keys, i)
      BY <3>1, <3>4
    <3> QED BY <3>3, <3>5
  <2>2. Cardinality(1..i) = i
    BY FS_Interval
  <2> QED BY <2>1, <2>2, LowIs
<1>3. \A k \in 1..Len(s) : Place(keys, k) = k
  <2>1. ASSUME NEW k \in 1..Len(s) PROVE Place(keys, k) = k
    BY <1>2, PlaceIs
  <2> QED BY <2>1
<1>4. PICK t \in Seq(S) : t = SortedBy(s, keys)
  BY SortedIs
<1>5. Len(t) = Len(s) /\ \A k \in 1..Len(s) : t[k] = s[Place(keys, k)]
  BY <1>4, SortedIs
<1> QED
  BY <1>3, <1>4, <1>5, SameSeq

\* With distinct keys the order of the input does not matter.
LEMMA Reordered ==
    ASSUME NEW keys \in Seq(Int), NEW given \in Seq(Int), Len(given) = Len(keys), NEW q \in Perms(Len(keys)),
           \A i \in 1..Len(keys) : given[i] = keys[q[i]],
           \A i, j \in 1..Len(keys) : keys[i] = keys[j] => i = j,
           NEW k \in 1..Len(keys)
    PROVE  q[Place(given, k)] = Place(keys, k)
<1>1. Len(keys) \in Nat /\ DOMAIN keys = 1..Len(keys) /\ DOMAIN given = 1..Len(keys)
      /\ (\A i \in 1..Len(keys) : keys[i] \in Int /\ given[i] \in Int)
  BY SeqIs
<1>2. (\A i \in 1..Len(keys) : q[i] \in 1..Len(keys)) /\ \A i, j \in 1..Len(keys) : q[i] = q[j] => i = j
  BY DEF Perms
<1>3. ASSUME NEW i \in 1..Len(keys) PROVE Rank(given, i) = Rank(keys, q[i])
  <2>1. IsFiniteSet(Low(given, i)) /\ Low(given, i) \subseteq 1..Len(keys)
    BY LowIs
  <2> DEFINE A == Low(given, i)
             B == Low(keys, q[i])
             f == [j \in A |-> q[j]]
  <2>2. B \subseteq 1..Len(keys)
    BY <1>2, LowIs
  <2>3. \A j \in 1..Len(keys) : j \in A <=> q[j] \in B
    <3>1. ASSUME NEW j \in 1..Len(keys) PROVE j \in A <=> q[j] \in B
      <4>1. j \in A <=> (given[j] < given[i] \/ (given[j] = given[i] /\ j <= i))
        BY <1>1 DEF Low
      <4>2. q[j] \in B <=> (keys[q[j]] < keys[q[i]] \/ (keys[q[j]] = keys[q[i]] /\ q[j] <= q[i]))
        BY <1>1, <1>2 DEF Low
      <4>4. keys[q[j]] = keys[q[i]] <=> j = i
        BY <1>2
      <4>a. given[j] = keys[q[j]] /\ given[i] = keys[q[i]]
        OBVIOUS
      <4>3. given[j] = given[i] <=> j = i
        BY <4>4, <4>a
      <4>5. j = i => j <= i /\ q[j] <= q[i]
        BY <1>2
      <4> HIDE DEF A, B
      <4> QED BY <4>1, <4>2, <4>3, <4>4, <4>5
    <3> QED BY <3>1
  <2>4. f \in Bijection(A, B)
    <3> HIDE DEF A, B
    <3>1. \A j \in A : j \in 1..Len(keys) /\ q[j] \in B
      BY <2>1, <2>3 DEF A
    <3>2. \A b \in B : \E j \in A : q[j] = b
      <4>1. ASSUME NEW b \in B PROVE \E j \in A : q[j] = b
        <5>1. PICK j \in 1..Len(keys) : q[j] = b
          BY <1>1, <2>2, PermOnto, SMTT(30)
        <5> QED BY <2>3, <5>1
      <4> QED BY <4>1
    <3>3. f \in [A -> B] /\ IsInjective(f)
      BY <1>2, <3>1 DEF IsInjective
    <3>4. \A b \in B : \E j \in A : f[j] = b
      BY <3>2
    <3> HIDE DEF f
    <3> QED BY <3>3, <3>4 DEF Bijection, Injection, Surjection
  <2>5. Cardinality(B) = Cardinality(A)
    <3>1. ExistsBijection(A, B)
      BY <2>4 DEF ExistsBijection
    <3> QED BY <2>1, <3>1, FS_Bijection
  <2> QED BY <1>2, <2>5, LowIs
<1>4. PICK i \in 1..Len(keys) : i = Place(given, k) /\ Rank(given, i) = k
  BY PlaceIs
<1>5. Rank(keys, q[i]) = k /\ q[i] \in 1..Len(keys)
  BY <1>2, <1>3, <1>4
<1>6. Place(keys, Rank(keys, q[i])) = q[i]
  BY <1>5, PlaceIs
<1> QED
  BY <1>4, <1>5, <1>6

LEMMA BagPerm ==
    ASSUME NEW S, NEW s \in Seq(S), NEW t \in Seq(S), Len(t) = Len(s), NEW q \in Perms(Len(s)),
           \A k \in 1..Len(s) : t[k] = s[q[k]]
    PROVE  BagOf(t) = BagOf(s)
<1>1. Len(s) \in Nat /\ DOMAIN s = 1..Len(s) /\ DOMAIN t = 1..Len(s)
  BY SeqIs
<1>2. (\A i \in 1..Len(s) : q[i] \in 1..Len(s)) /\ \A i, j \in 1..Len(s) : q[i] = q[j] => i = j
  BY DEF Perms
<1>3. ToSet(t) = ToSet(s)
  <2>1. ToSet(t) \subseteq ToSet(s)
    BY <1>1, <1>2 DEF ToSet
  <2>2. ASSUME NEW x \in ToSet(s) PROVE x \in ToSet(t)
    <3>1. PICK i \in 1..Len(s) : s[i] = x
      BY <1>1 DEF ToSet
    <3>2. PICK k \in 1..Len(s) : q[k] = i
      BY <1>1, PermOnto
    <3>3. t[k] = x
      BY <3>1, <3>2
    <3> QED BY <1>1, <3>3 DEF ToSet
  <2> QED BY <2>1, <2>2
<1>4. ASSUME NEW x PROVE Cardinality({i \in DOMAIN t : t[i] = x}) = Cardinality({i \in DOMAIN s : s[i] = x})
  <2> DEFINE A == {i \in DOMAIN t : t[i] = x}
             B == {i \in DOMAIN s : s[i] = x}
             f == [i \in A |-> q[i]]
  <2>1. \A i \in A : i \in 1..Len(s) /\ q[i] \in B
    BY <1>1, <1>2
  <2>2. ASSUME NEW b \in B PROVE \E i \in A : q[i] = b
    <3>1. b \in 1..Len(s) /\ s[b] = x
      BY <1>1
    <3>2. PICK k \in 1..Len(s) : q[k] = b
      BY <1>1, <3>1, PermOnto
    <3>3. k \in A
      BY <1>1, <3>1, <3>2
    <3> QED BY <3>2, <3>3
  <2>3. IsFiniteSet(A)
    <3>1. IsFiniteSet(1..Len(s)) /\ A \in SUBSET (1..Len(s))
      BY <1>1, FS_Interval
    <3> QED BY <3>1, FS_Subset
  <2> HIDE DEF A, B
  <2>4. f \in [A -> B] /\ IsInjective(f) /\ \A b \in B : \E i \in A : f[i] = b
    BY <1>2, <2>1, <2>2 DEF IsInjective
  <2>5. ExistsBijection(A, B)
    <3> HIDE DEF f
    <3>1. f \in Bijection(A, B)
      BY <2>4 DEF Bijection, Injection, Surjection
    <3> QED BY <3>1 DEF ExistsBijection
  <2>6. Cardinality(B) = Cardinality(A)
    BY <2>3, <2>5, FS_Bijection
  <2> QED BY <2>6 DEF A, B
<1> QED
  BY <1>3, <1>4 DEF BagOf

LEMMA BagSorted ==
    ASSUME NEW S, NEW s \in Seq(S), NEW keys \in Seq(Int), Len(keys) = Len(s)
    PROVE  BagOf(SortedBy(s, keys)) = BagOf(s)
<1>1. PICK q \in Perms(Len(s)) : q = [k \in 1..Len(s) |-> Place(keys, k)]
  BY PlacePerm
<1>2. PICK t \in Seq(S) : t = SortedBy(s, keys)
  BY SortedIs
<1>3. Len(t) = Len(s) /\ \A k \in 1..Len(s) : t[k] = s[q[k]]
  BY <1>1, <1>2, SortedIs
<1> QED
  BY <1>2, <1>3, BagPerm

--------------------------------------------------------------------------------
(* What the builders are made of *)

LEMMA OfTagAll ==
    ASSUME NEW S, NEW s \in Seq(S), NEW tag, \A k \in 1..Len(s) : TagOf(s[k]) = tag PROVE OfTag(s, tag) = s
<1>1. PICK m \in Seq(Seq(Bearers(S, tag))) : m = Marks(s, tag)
  BY MarksAre
<1>2. Len(m) = Len(s) /\ \A i \in 1..Len(s) : Marks(s, tag)[i] = IF TagOf(s[i]) = tag THEN <<s[i]>> ELSE <<>>
  BY <1>1, MarkIs
<1>3. \A k \in 1..Len(m) : m[k] = <<s[k]>>
  BY <1>1, <1>2
<1>4. s \in Seq(Bearers(S, tag))
  <2>1. \A k \in 1..Len(s) : s[k] \in Bearers(S, tag)
    BY SeqIs DEF Bearers
  <2>2. Len(s) \in Nat /\ DOMAIN s = 1..Len(s) /\ s \in [1..Len(s) -> S]
    OBVIOUS
  <2>3. s \in [1..Len(s) -> Bearers(S, tag)]
    BY <2>1, <2>2
  <2> QED BY <2>2, <2>3, MadeSeq
<1>5. FlattenSeq(m) = s
  BY <1>2, <1>3, <1>4, FlatEach
<1> QED
  BY <1>1, <1>5 DEF OfTag, Marks

LEMMA TextBuilt ==
    ASSUME NEW tag \in Tags, NEW x \in Seq(Values)
    PROVE  /\ Text(tag, x) \in Seq(Nodes) /\ Len(Text(tag, x)) = Len(x)
           /\ \A k \in 1..Len(x) : Text(tag, x)[k] = Leaf(tag, x[k]) /\ x[k] \in Values
           /\ Texts(Text(tag, x)) = x
<1>1. Len(x) \in Nat /\ DOMAIN x = 1..Len(x) /\ \A k \in 1..Len(x) : x[k] \in Values
  BY SeqIs
<1>2. Text(tag, x) \in [1..Len(x) -> Nodes] /\ \A k \in 1..Len(x) : Text(tag, x)[k] = Leaf(tag, x[k])
  BY <1>1, LeafBuilt DEF Text
<1>3. PICK t \in Seq(Nodes) : t = Text(tag, x)
  BY <1>1, <1>2, MadeSeq
<1>4. Len(t) = Len(x) /\ \A k \in 1..Len(x) : t[k] = Leaf(tag, x[k])
  BY <1>1, <1>2, <1>3, MadeSeq
<1>5. Texts(t) = x
  <2>1. Texts(t) = [k \in 1..Len(x) |-> TextOf(t[k])]
    BY <1>3, <1>4, SeqIs DEF Texts
  <2>2. \A k \in 1..Len(x) : TextOf(t[k]) = x[k]
    BY <1>1, <1>4, LeafBuilt
  <2>3. Texts(t) = [k \in 1..Len(x) |-> x[k]]
    BY <2>1, <2>2
  <2>4. x = [k \in 1..Len(x) |-> x[k]]
    BY <1>1
  <2> QED BY <2>3, <2>4
<1> QED
  BY <1>1, <1>3, <1>4, <1>5

LEMMA TextIn ==
    ASSUME NEW tag \in Tags, NEW x \in Seq(Values), NEW T
    PROVE  In(Text(tag, x), T) = IF tag \in T THEN Text(tag, x) ELSE <<>>
<1>1. PICK t \in Seq(Nodes) : t = Text(tag, x)
  BY TextBuilt
<1>2. Len(t) = Len(x) /\ \A k \in 1..Len(t) : t[k] = Leaf(tag, x[k]) /\ x[k] \in Values
  BY <1>1, TextBuilt
<1>3. \A k \in 1..Len(t) : In(<<t[k]>>, T) = IF tag \in T THEN <<t[k]>> ELSE <<>>
  BY <1>2, InLeaf
<1>4. CASE tag \in T
  BY <1>1, <1>3, <1>4, InMap
<1>5. CASE tag \notin T
  BY <1>1, <1>3, <1>5, InEmpty
<1> QED
  BY <1>4, <1>5

LEMMA TextOfTag ==
    ASSUME NEW tag \in Tags, NEW x \in Seq(Values), NEW tg
    PROVE  OfTag(Text(tag, x), tg) = IF tg = tag THEN Text(tag, x) ELSE <<>>
<1>1. PICK t \in Seq(Nodes) : t = Text(tag, x)
  BY TextBuilt
<1>2. Len(t) = Len(x) /\ \A k \in 1..Len(t) : t[k] = Leaf(tag, x[k]) /\ x[k] \in Values
  BY <1>1, TextBuilt
<1>3. \A k \in 1..Len(t) : TagOf(t[k]) = tag
  BY <1>2, LeafBuilt
<1>4. CASE tag = tg
  BY <1>1, <1>3, <1>4, OfTagAll
<1>5. CASE tag # tg
  BY <1>1, <1>3, <1>5, OfTagEmpty
<1> QED
  BY <1>4, <1>5

\* The first of an option.
LEMMA FirstOption == ASSUME NEW S, NEW x \in Seq(S), Len(x) <= 1 PROVE FirstOf(x) = x
<1>0. Len(x) \in Nat
  BY SeqIs
<1>1. CASE Len(x) = 0
  <2>1. x = <<>>
    BY <1>1
  <2> QED BY <2>1 DEF FirstOf
<1>2. CASE Len(x) # 0
  <2>a. PICK n \in Nat : n = Len(x) /\ n # 0 /\ n <= 1
    BY <1>0, <1>2
  <2>b. n = 1
    BY <2>a
  <2>1. Len(x) = 1
    BY <2>a, <2>b
  <2>2. FirstOf(x) = <<x[1]>>
    BY <2>1, FirstIs
  <2>3. x[1] \in S
    BY <2>1
  <2>4. PICK y \in Seq(S) : y = <<x[1]>> /\ Len(y) = 1 /\ y[1] = x[1]
    BY <2>3, OneIs
  <2>5. \A k \in 1..Len(x) : x[k] = y[k]
    BY <2>1, <2>4
  <2>6. x = y
    BY <2>1, <2>4, <2>5, SameSeq
  <2> QED BY <2>2, <2>4, <2>6
<1> QED
  BY <1>1, <1>2

LEMMA NonEmptyBuilt ==
    ASSUME NEW tag \in Tags, NEW ch \in Seq(Nodes)
    PROVE  /\ NonEmpty(tag, ch) \in Seq(Nodes) /\ Len(NonEmpty(tag, ch)) <= 1
           /\ \A T : tag \notin T => In(NonEmpty(tag, ch), T) = In(ch, T)
           /\ \A tg : OfTag(NonEmpty(tag, ch), tg) = IF tg = tag THEN NonEmpty(tag, ch) ELSE <<>>
<1>1. CASE ch = <<>>
  BY <1>1, OfTagNone DEF NonEmpty
<1>2. CASE ch # <<>>
  <2>1. PICK n \in Nodes : n = Group(tag, ch)
    BY GroupBuilt
  <2>2. NonEmpty(tag, ch) = <<n>> /\ TagOf(n) = tag
    BY <1>2, <2>1, GroupBuilt DEF NonEmpty
  <2>3. <<n>> \in Seq(Nodes) /\ Len(<<n>>) = 1
    BY OneIs
  <2>4. ASSUME NEW T, tag \notin T PROVE In(<<n>>, T) = In(ch, T)
    BY <2>1, <2>4, InGroup
  <2>5. ASSUME NEW tg PROVE OfTag(<<n>>, tg) = IF tg = tag THEN <<n>> ELSE <<>>
    BY <2>2, OfTagOne
  <2> QED BY <2>2, <2>3, <2>4, <2>5
<1> QED
  BY <1>1, <1>2

LEMMA NamedBuilt ==
    ASSUME NEW tag \in Tags, NEW name \in Values, NEW ch \in Seq(Nodes)
    PROVE  /\ Titled(tag, name, ch) \in Nodes /\ TagOf(Titled(tag, name, ch)) = tag
           /\ \A tg : tg # "SHORT-NAME" => OfTag(ChildrenOf(Titled(tag, name, ch)), tg) = OfTag(ch, tg)
           /\ childText(Titled(tag, name, ch), "SHORT-NAME") = <<name>>
           /\ extractShortName(Titled(tag, name, ch)) = name
           /\ \A T : "SHORT-NAME" \notin T => collectDescendants(Titled(tag, name, ch), T) = In(ch, T)
           /\ \A T : "SHORT-NAME" \notin T =>
                In(<<Titled(tag, name, ch)>>, T) = IF tag \in T THEN <<Titled(tag, name, ch)>> \o In(ch, T) ELSE In(ch, T)
<1>0. "SHORT-NAME" \in Tags /\ "" \in Values
  BY ValueIs DEF Tags
<1>1. PICK sn \in Nodes : sn = Leaf("SHORT-NAME", name)
  BY <1>0, LeafBuilt
<1>2. TagOf(sn) = "SHORT-NAME" /\ TextOf(sn) = name
  BY <1>0, <1>1, LeafBuilt
<1>3. PICK one \in Seq(Nodes) : one = <<sn>>
  BY OneIs
<1>4. PICK c \in Seq(Nodes) : c = one \o ch
  BY JoinIs
<1>5. Titled(tag, name, ch) = Node(tag, "", c)
  BY <1>1, <1>3, <1>4 DEF Titled
<1>6. PICK n \in Nodes : n = Node(tag, "", c) /\ TagOf(n) = tag /\ ChildrenOf(n) = c /\ Tail(n) = FlattenSeq(c)
  BY <1>0, Built
<1>7. ASSUME NEW tg PROVE OfTag(c, tg) = (IF tg = "SHORT-NAME" THEN one ELSE <<>>) \o OfTag(ch, tg)
  <2>1. OfTag(c, tg) = OfTag(one, tg) \o OfTag(ch, tg)
    BY <1>4, OfTagJoin
  <2>2. OfTag(<<sn>>, tg) = IF TagOf(sn) = tg THEN <<sn>> ELSE <<>>
    BY OfTagOne
  <2> QED BY <1>2, <1>3, <2>1, <2>2
<1>8. ASSUME NEW tg, tg # "SHORT-NAME" PROVE OfTag(c, tg) = OfTag(ch, tg)
  BY <1>7, <1>8, OfTagTyped, JoinNone
<1>9. childText(n, "SHORT-NAME") = <<name>>
  <2>1. PICK r \in Seq(Nodes) : r = OfTag(ch, "SHORT-NAME")
    BY OfTagTyped
  <2>2. OfTag(c, "SHORT-NAME") = <<sn>> \o r
    BY <1>3, <1>7, <2>1
  <2>3. FirstOf(OfTag(c, "SHORT-NAME")) = <<sn>>
    BY <2>2, FirstJoin
  <2> QED BY <1>2, <1>6, <2>3, TextsOne DEF childText, findChild
<1>10. ASSUME NEW T, "SHORT-NAME" \notin T PROVE In(c, T) = In(ch, T)
  <2>a. name \in Values /\ "SHORT-NAME" \in Tags
    BY <1>0
  <2>b. In(<<Leaf("SHORT-NAME", name)>>, T) = IF "SHORT-NAME" \in T THEN <<Leaf("SHORT-NAME", name)>> ELSE <<>>
    BY <2>a, InLeaf
  <2>1. In(one, T) = <<>>
    BY <1>1, <1>3, <1>10, <2>b
  <2>2. PICK r \in Seq(Nodes) : r = In(ch, T)
    BY InTyped
  <2>3. In(c, T) = In(one, T) \o In(ch, T)
    BY <1>4, InJoin
  <2>4. <<>> \o r = r
    BY JoinNone
  <2> QED BY <2>1, <2>2, <2>3, <2>4
<1>11. ASSUME NEW T, "SHORT-NAME" \notin T
       PROVE In(<<n>>, T) = IF tag \in T THEN <<n>> \o In(ch, T) ELSE In(ch, T)
  <2>1. In(<<Node(tag, "", c)>>, T) = IF tag \in T THEN <<Node(tag, "", c)>> \o In(c, T) ELSE In(c, T)
    <3>1. ASSUME NEW v \in Values
          PROVE  In(<<Node(tag, v, c)>>, T) = IF tag \in T THEN <<Node(tag, v, c)>> \o In(c, T) ELSE In(c, T)
      BY InNode
    <3> QED BY <1>0, <3>1
  <2>2. In(c, T) = In(ch, T)
    BY <1>10, <1>11
  <2> QED BY <1>6, <2>1, <2>2
<1>12. ASSUME NEW T, "SHORT-NAME" \notin T PROVE collectDescendants(n, T) = In(ch, T)
  BY <1>6, <1>10, <1>12 DEF collectDescendants, In
<1>13. extractShortName(n) = name
  BY <1>9 DEF extractShortName, Value
<1> QED
  BY <1>5, <1>6, <1>8, <1>9, <1>11, <1>12, <1>13

Proper == Clear \ {NoName}

LEMMA ProperIs ==
    /\ Proper \subseteq Clear /\ Proper \subseteq Nat /\ Proper \subseteq Int /\ NoName \notin Proper
    /\ Seq(Proper) \subseteq Seq(Clear) /\ Seq(Proper) \subseteq Seq(Nat) /\ Seq(Proper) \subseteq Seq(Int)
<1>1. Proper \subseteq Clear /\ Proper \subseteq Nat /\ Proper \subseteq Int /\ NoName \notin Proper
  BY ClearIs DEF Proper
<1> QED
  BY <1>1, SeqGrows

NamesKept(names) == [i \in DOMAIN names |-> IF names[i] # NoName THEN <<names[i]>> ELSE <<>>]

LEMMA KeptAre ==
    ASSUME NEW names \in Seq(Clear)
    PROVE  /\ NamesKept(names) \in Seq(Seq(Proper)) /\ Len(NamesKept(names)) = Len(names)
           /\ \A i \in 1..Len(names) : NamesKept(names)[i] = IF names[i] # NoName THEN <<names[i]>> ELSE <<>>
<1>1. Len(names) \in Nat /\ DOMAIN names = 1..Len(names) /\ \A i \in 1..Len(names) : names[i] \in Clear
  BY SeqIs
<1>2. ASSUME NEW i \in 1..Len(names) PROVE (IF names[i] # NoName THEN <<names[i]>> ELSE <<>>) \in Seq(Proper)
  <2>1. CASE names[i] # NoName
    <3>1. names[i] \in Proper
      BY <1>1, <2>1 DEF Proper
    <3> QED BY <2>1, <3>1, OneIs
  <2> QED BY <2>1
<1>3. NamesKept(names) \in [1..Len(names) -> Seq(Proper)]
      /\ \A i \in 1..Len(names) : NamesKept(names)[i] = IF names[i] # NoName THEN <<names[i]>> ELSE <<>>
  BY <1>1, <1>2, Zenon DEF NamesKept
<1> QED
  BY <1>1, <1>3, MadeSeq

LEMMA NonEmptyTyped == ASSUME NEW names \in Seq(Clear) PROVE NonEmptyOf(names) \in Seq(Proper)
<1>1. NonEmptyOf(names) = FlattenSeq(NamesKept(names))
  BY DEF NonEmptyOf, NamesKept
<1> QED
  BY <1>1, KeptAre, FlatTyped

LEMMA NonEmptyAll == ASSUME NEW names \in Seq(Proper) PROVE NonEmptyOf(names) = names
<1>1. NonEmptyOf(names) = FlattenSeq(NamesKept(names))
  BY DEF NonEmptyOf, NamesKept
<1>2. names \in Seq(Clear) /\ \A k \in 1..Len(names) : names[k] # NoName
  BY ProperIs, SeqIs
<1>3. PICK m \in Seq(Seq(Proper)) : m = NamesKept(names)
  BY <1>2, KeptAre
<1>4. Len(m) = Len(names) /\ \A k \in 1..Len(m) : m[k] = <<names[k]>>
  BY <1>2, <1>3, KeptAre
<1> QED
  BY <1>1, <1>3, <1>4, FlatEach

LEMMA PairJoin == ASSUME NEW S, NEW a \in S, NEW b \in S PROVE <<a, b>> = <<a>> \o <<b>>
<1>1. PICK u \in Seq(S) : u = <<a>>
  BY OneIs
<1>2. PICK v \in Seq(S) : v = <<b>>
  BY OneIs
<1>3. PICK w \in Seq(S) : w = <<a, b>>
  BY PairIs
<1>4. Len(u) = 1 /\ u[1] = a /\ Len(v) = 1 /\ v[1] = b /\ Len(w) = 2 /\ w[1] = a /\ w[2] = b
  BY <1>1, <1>2, <1>3
<1>5. PICK j \in Seq(S) : j = u \o v
  BY JoinIs
<1>a. Len(j) = Len(u) + Len(v) /\ (\A k \in 1..Len(u) : j[k] = u[k]) /\ (\A k \in 1..Len(v) : j[Len(u) + k] = v[k])
  BY <1>5, JoinIs
<1>6. Len(j) = 2 /\ \A k \in 1..1 : j[k] = u[k]
  BY <1>4, <1>a
<1>7. \A k \in 1..1 : j[1 + k] = v[k]
  BY <1>4, <1>a
<1>8. 1 \in 1..1 /\ j[1] = a /\ j[1 + 1] = b
  BY <1>4, <1>6, <1>7
<1>9. j[2] = b
  BY <1>8
<1>10. \A k \in 1..Len(w) : w[k] = j[k]
  <2>1. SUFFICES ASSUME NEW k \in 1..2 PROVE w[k] = j[k]
    BY <1>4
  <2>2. k = 1 \/ k = 2
    OBVIOUS
  <2> QED
    BY <2>2, <1>4, <1>8, <1>9
<1> QED
  BY <1>1, <1>2, <1>3, <1>4, <1>5, <1>6, <1>10, SameSeq, ZenonT(40)

LEMMA FlatTwo == ASSUME NEW T, NEW x \in Seq(T), NEW y \in Seq(T) PROVE FlattenSeq(<<x, y>>) = x \o y
<1>1. PICK u \in Seq(Seq(T)) : u = <<x>>
  BY OneIs
<1>2. PICK v \in Seq(Seq(T)) : v = <<y>>
  BY OneIs
<1>3. <<x, y>> = u \o v
  BY <1>1, <1>2, PairJoin
<1>4. FlattenSeq(u \o v) = FlattenSeq(u) \o FlattenSeq(v)
  BY FlatConcat
<1>5. FlattenSeq(u) = x /\ FlattenSeq(v) = y
  BY <1>1, <1>2, FlatOne
<1> QED
  BY <1>3, <1>4, <1>5

LEMMA OfTagsTwo ==
    ASSUME NEW node, NEW a, NEW b, NEW T, findDescendants(node, a) \in Seq(T), findDescendants(node, b) \in Seq(T)
    PROVE  OfTags(node, <<a, b>>) = findDescendants(node, a) \o findDescendants(node, b)
<1>1. OfTags(node, <<a, b>>) = FlattenSeq(<<findDescendants(node, a), findDescendants(node, b)>>)
  <2>1. DOMAIN <<a, b>> = 1..2
    OBVIOUS
  <2>2. [i \in DOMAIN <<a, b>> |-> findDescendants(node, <<a, b>>[i])]
        = [i \in 1..2 |-> IF i = 1 THEN findDescendants(node, a) ELSE findDescendants(node, b)]
    BY <2>1
  <2>3. <<findDescendants(node, a), findDescendants(node, b)>>
        = [i \in 1..2 |-> IF i = 1 THEN findDescendants(node, a) ELSE findDescendants(node, b)]
    OBVIOUS
  <2> QED BY <2>2, <2>3 DEF OfTags
<1> QED
  BY <1>1, FlatTwo

LEMMA NamedEachBuilt ==
    ASSUME NEW tag \in Tags, NEW names \in Seq(Clear)
    PROVE  /\ NamedEach(tag, names) \in Seq(Nodes) /\ Len(NamedEach(tag, names)) = Len(names)
           /\ \A k \in 1..Len(names) : NamedEach(tag, names)[k] = Titled(tag, names[k], <<>>) /\ names[k] \in Values
<1>1. Len(names) \in Nat /\ DOMAIN names = 1..Len(names) /\ \A k \in 1..Len(names) : names[k] \in Clear /\ names[k] \in Values
  BY SeqIs, ValueIs
<1>2. ASSUME NEW k \in 1..Len(names) PROVE Titled(tag, names[k], <<>>) \in Nodes
  BY <1>1, NamedBuilt, NoNodes
<1>a. \A k \in 1..Len(names) : Named(tag, names[k], <<>>) = Titled(tag, names[k], <<>>)
  BY <1>1, ClearIs DEF Named
<1>3. NamedEach(tag, names) \in [1..Len(names) -> Nodes] /\ \A k \in 1..Len(names) : NamedEach(tag, names)[k] = Titled(tag, names[k], <<>>)
  BY <1>1, <1>2, <1>a DEF NamedEach
<1> QED
  BY <1>1, <1>3, MadeSeq

LEMMA NamedEachIn ==
    ASSUME NEW tag \in Tags, NEW names \in Seq(Clear), NEW T, "SHORT-NAME" \notin T
    PROVE  In(NamedEach(tag, names), T) = IF tag \in T THEN NamedEach(tag, names) ELSE <<>>
<1>1. PICK t \in Seq(Nodes) : t = NamedEach(tag, names)
  BY NamedEachBuilt
<1>2. Len(t) = Len(names) /\ \A k \in 1..Len(t) : t[k] = Titled(tag, names[k], <<>>) /\ names[k] \in Values
  BY <1>1, NamedEachBuilt
<1>3. ASSUME NEW k \in 1..Len(t) PROVE In(<<t[k]>>, T) = IF tag \in T THEN <<t[k]>> ELSE <<>>
  <2>1. PICK ch \in Seq(Nodes) : ch = <<>>
    BY NoNodes
  <2>2. PICK x \in Values : x = names[k]
    BY <1>2
  <2>3. In(<<Titled(tag, x, ch)>>, T) = IF tag \in T THEN <<Titled(tag, x, ch)>> \o In(ch, T) ELSE In(ch, T)
    BY NamedBuilt
  <2>4. In(ch, T) = <<>>
    BY <2>1, InNone
  <2>5. PICK n \in Nodes : n = Titled(tag, x, ch)
    BY NamedBuilt
  <2>6. <<n>> \o <<>> = <<n>>
    OBVIOUS
  <2>7. t[k] = n
    BY <1>2, <2>1, <2>2, <2>5
  <2> QED BY <2>3, <2>4, <2>5, <2>6, <2>7
<1>4. CASE tag \in T
  BY <1>1, <1>3, <1>4, InMap
<1>5. CASE tag \notin T
  BY <1>1, <1>3, <1>5, InEmpty
<1> QED
  BY <1>4, <1>5

\* The short names of nodes.
ShortNames(nodes) == [i \in DOMAIN nodes |-> extractShortName(nodes[i])]

LEMMA NamedEachNames ==
    ASSUME NEW tag \in Tags, NEW names \in Seq(Clear) PROVE ShortNames(NamedEach(tag, names)) = names
<1>1. PICK t \in Seq(Nodes) : t = NamedEach(tag, names)
  BY NamedEachBuilt
<1>2. Len(t) = Len(names) /\ \A k \in 1..Len(names) : t[k] = Titled(tag, names[k], <<>>) /\ names[k] \in Values
  BY <1>1, NamedEachBuilt
<1>3. \A k \in 1..Len(names) : extractShortName(t[k]) = names[k]
  <2>1. ASSUME NEW k \in 1..Len(names) PROVE extractShortName(t[k]) = names[k]
    <3>1. PICK ch \in Seq(Nodes) : ch = <<>>
      BY NoNodes
    <3>2. PICK x \in Values : x = names[k]
      BY <1>2
    <3>3. extractShortName(Titled(tag, x, ch)) = x
      BY NamedBuilt
    <3> QED BY <1>2, <3>1, <3>2, <3>3
  <2> QED BY <2>1
<1>4. DOMAIN t = 1..Len(names) /\ DOMAIN names = 1..Len(names) /\ names = [k \in 1..Len(names) |-> names[k]]
  BY <1>1, <1>2, SeqIs
<1>5. ShortNames(t) = [k \in 1..Len(names) |-> names[k]]
  BY <1>3, <1>4 DEF ShortNames
<1> QED
  BY <1>1, <1>4, <1>5

\* Of two pieces of which one has none.
LEMMA OfTagLeft ==
    ASSUME NEW a \in Seq(Nodes), NEW b \in Seq(Nodes), NEW tg
    PROVE  OfTag(b, tg) = <<>> => OfTag(a \o b, tg) = OfTag(a, tg)
<1>1. OfTag(a \o b, tg) = OfTag(a, tg) \o OfTag(b, tg)
  BY OfTagJoin
<1>2. PICK r \in Seq(Nodes) : r = OfTag(a, tg)
  BY OfTagTyped
<1>3. r \o <<>> = r
  BY JoinNone
<1> QED
  BY <1>1, <1>2, <1>3

LEMMA OfTagRight ==
    ASSUME NEW a \in Seq(Nodes), NEW b \in Seq(Nodes), NEW tg
    PROVE  OfTag(a, tg) = <<>> => OfTag(a \o b, tg) = OfTag(b, tg)
<1>1. OfTag(a \o b, tg) = OfTag(a, tg) \o OfTag(b, tg)
  BY OfTagJoin
<1>2. PICK r \in Seq(Nodes) : r = OfTag(b, tg)
  BY OfTagTyped
<1>3. <<>> \o r = r
  BY JoinNone
<1> QED
  BY <1>1, <1>2, <1>3

LEMMA InLeft ==
    ASSUME NEW a \in Seq(Nodes), NEW b \in Seq(Nodes), NEW T
    PROVE  In(b, T) = <<>> => In(a \o b, T) = In(a, T)
<1>1. In(a \o b, T) = In(a, T) \o In(b, T)
  BY InJoin
<1>2. PICK r \in Seq(Nodes) : r = In(a, T)
  BY InTyped
<1>3. r \o <<>> = r
  BY JoinNone
<1> QED
  BY <1>1, <1>2, <1>3

LEMMA InRight ==
    ASSUME NEW a \in Seq(Nodes), NEW b \in Seq(Nodes), NEW T
    PROVE  In(a, T) = <<>> => In(a \o b, T) = In(b, T)
<1>1. In(a \o b, T) = In(a, T) \o In(b, T)
  BY InJoin
<1>2. PICK r \in Seq(Nodes) : r = In(b, T)
  BY InTyped
<1>3. <<>> \o r = r
  BY JoinNone
<1> QED
  BY <1>1, <1>2, <1>3

LEMMA NamedInside ==
    ASSUME NEW tag \in Tags, NEW name \in Values, NEW ch \in Seq(Nodes)
    PROVE  \A T : "SHORT-NAME" \notin T => collectDescendants(Titled(tag, name, ch), T) = In(ch, T)
BY NamedBuilt, ZenonT(30)

LEMMA NamedParts ==
    ASSUME NEW tag \in Tags, NEW name \in Values, NEW ch \in Seq(Nodes), NEW tg, tg # "SHORT-NAME"
    PROVE  /\ findChild(Titled(tag, name, ch), tg) = FirstOf(OfTag(ch, tg))
           /\ childText(Titled(tag, name, ch), tg) = Texts(FirstOf(OfTag(ch, tg)))
           /\ findDescendants(Titled(tag, name, ch), tg) = In(ch, {tg})
<1>0. \A t : t # "SHORT-NAME" => OfTag(ChildrenOf(Titled(tag, name, ch)), t) = OfTag(ch, t)
  BY NamedBuilt
<1>1. OfTag(ChildrenOf(Titled(tag, name, ch)), tg) = OfTag(ch, tg)
  BY <1>0
<1>2. "SHORT-NAME" \notin {tg}
  OBVIOUS
<1>4. \A T : "SHORT-NAME" \notin T => collectDescendants(Titled(tag, name, ch), T) = In(ch, T)
  BY NamedInside
<1>3. collectDescendants(Titled(tag, name, ch), {tg}) = In(ch, {tg})
  BY <1>2, <1>4
<1> QED
  BY <1>1, <1>3 DEF findChild, childText, findDescendants

\* What the parser reads in a named node.
Reads(n, tag, name, ch) ==
    /\ n \in Nodes /\ TagOf(n) = tag /\ extractShortName(n) = name /\ childText(n, "SHORT-NAME") = <<name>>
    /\ \A tg : tg # "SHORT-NAME" =>
          /\ findChild(n, tg) = FirstOf(OfTag(ch, tg))
          /\ childText(n, tg) = Texts(FirstOf(OfTag(ch, tg)))
          /\ findDescendants(n, tg) = In(ch, {tg})

LEMMA NamedReads ==
    ASSUME NEW tag \in Tags, NEW name \in Values, NEW ch \in Seq(Nodes) PROVE Reads(Titled(tag, name, ch), tag, name, ch)
<1>1. Titled(tag, name, ch) \in Nodes /\ TagOf(Titled(tag, name, ch)) = tag /\ extractShortName(Titled(tag, name, ch)) = name
      /\ childText(Titled(tag, name, ch), "SHORT-NAME") = <<name>>
  BY NamedBuilt
<1>2. ASSUME NEW tg, tg # "SHORT-NAME"
      PROVE  /\ findChild(Titled(tag, name, ch), tg) = FirstOf(OfTag(ch, tg))
             /\ childText(Titled(tag, name, ch), tg) = Texts(FirstOf(OfTag(ch, tg)))
             /\ findDescendants(Titled(tag, name, ch), tg) = In(ch, {tg})
  BY <1>2, NamedParts
<1> QED
  BY <1>1, <1>2 DEF Reads

Options(S) == {s \in Seq(S) : Len(s) <= 1}

LEMMA OptionIs == ASSUME NEW S, NEW x \in Options(S) PROVE x = <<>> \/ \E v \in S : x = <<v>> /\ x # <<>> /\ x[1] = v
<1>0. x \in Seq(S) /\ Len(x) <= 1
  BY DEF Options
<1>a. Len(x) \in Nat
  BY <1>0, SeqIs
<1>b. PICK l \in Nat : l = Len(x)
  BY <1>a
<1>c. l <= 1
  BY <1>0, <1>b
<1>d. l = 0 \/ l = 1
  BY <1>c
<1>1. x \in Seq(S) /\ Len(x) \in Nat /\ (Len(x) = 0 \/ Len(x) = 1)
  BY <1>0, <1>a, <1>b, <1>d
<1>2. CASE Len(x) = 0
  BY <1>1, <1>2
<1>3. CASE Len(x) = 1
  <2>a. 1 \in 1..Len(x)
    BY <1>3
  <2>1. x[1] \in S
    BY <1>0, <2>a, SeqIs
  <2>2. PICK v \in S : v = x[1]
    BY <2>1
  <2>3. PICK o \in Seq(S) : o = <<v>>
    BY OneIs
  <2>4. Len(o) = 1 /\ o[1] = v
    BY <2>3
  <2>5. \A k \in 1..Len(x) : x[k] = o[k]
    <3>1. SUFFICES ASSUME NEW k \in 1..1 PROVE x[k] = o[k]
      BY <1>3
    <3>2. k = 1
      OBVIOUS
    <3> QED BY <3>2, <2>2, <2>4
  <2>6. x = o
    BY <1>1, <1>3, <2>4, <2>5, SameSeq
  <2>7. x # <<>>
    BY <1>3
  <2> QED BY <2>2, <2>3, <2>6, <2>7
<1> QED
  BY <1>1, <1>2, <1>3

LEMMA OneText ==
    ASSUME NEW tag \in Tags, NEW x \in Seq(Values), Len(x) <= 1 PROVE Texts(FirstOf(Text(tag, x))) = x
<1>1. PICK t \in Seq(Nodes) : t = Text(tag, x)
  BY TextBuilt
<1>2. Len(t) = Len(x) /\ Texts(t) = x
  BY <1>1, TextBuilt
<1>3. FirstOf(t) = t
  BY <1>2, FirstOption
<1> QED
  BY <1>1, <1>2, <1>3

LEMMA LeafText == ASSUME NEW tag \in Tags, NEW x \in Values PROVE <<Leaf(tag, x)>> = Text(tag, <<x>>)
<1>1. PICK o \in Seq(Values) : o = <<x>>
  BY OneIs
<1>2. Len(o) = 1 /\ o[1] = x
  BY <1>1
<1>3. PICK t \in Seq(Nodes) : t = Text(tag, o)
  BY TextBuilt
<1>4. Len(t) = 1 /\ t[1] = Leaf(tag, o[1])
  BY <1>2, <1>3, TextBuilt
<1>5. PICK n \in Nodes : n = Leaf(tag, x)
  BY LeafBuilt
<1>6. PICK u \in Seq(Nodes) : u = <<n>>
  BY OneIs
<1>7. Len(u) = 1 /\ u[1] = n
  BY <1>6
<1>8. \A k \in 1..Len(u) : u[k] = t[k]
  <2>1. SUFFICES ASSUME NEW k \in 1..1 PROVE u[k] = t[k]
    BY <1>7
  <2>2. k = 1
    OBVIOUS
  <2> QED BY <2>2, <1>2, <1>4, <1>5, <1>7
<1>9. u = t
  BY <1>4, <1>7, <1>8, SameSeq
<1> QED
  BY <1>1, <1>3, <1>5, <1>6, <1>9

\* The numbers and names of an element as texts.
LEMMA OptionsAre ==
    /\ \A x \in Options(Clear) : x \in Seq(Values) /\ x \in Seq(Clear) /\ Len(x) <= 1
    /\ \A x \in Options(0..MaxUint32) : x \in Seq(Values) /\ x \in Seq(0..MaxUint32) /\ Len(x) <= 1
    /\ \A x \in Options(Int \ {Unreadable}) : x \in Seq(Values) /\ x \in Seq(Int \ {Unreadable}) /\ Len(x) <= 1
<1>1. Clear \subseteq Values /\ 0..MaxUint32 \subseteq Values /\ Int \ {Unreadable} \subseteq Values
  <2>1. Clear \subseteq Values /\ Int \subseteq Values
    BY ValueIs
  <2>2. 0..MaxUint32 \subseteq Int /\ Int \ {Unreadable} \subseteq Int
    BY UintAssumption
  <2> QED BY <2>1, <2>2
<1>2. Seq(Clear) \subseteq Seq(Values) /\ Seq(0..MaxUint32) \subseteq Seq(Values) /\ Seq(Int \ {Unreadable}) \subseteq Seq(Values)
  BY <1>1, SeqGrows
<1> QED
  BY <1>2 DEF Options

\* Of a name without an '&' the builders write what it is.
LEMMA ClearNamed == ASSUME NEW tag, NEW n \in Clear, NEW ch PROVE Named(tag, n, ch) = Titled(tag, n, ch)
BY ClearIs DEF Named

LEMMA CategoryIs == ASSUME NEW e, e.category \in Options(Clear) PROVE Category(e) = Text("CATEGORY", e.category)
<1>1. PICK x \in Seq(Clear) : x = e.category
  BY DEF Options
<1>2. DOMAIN x = 1..Len(x) /\ (\A k \in 1..Len(x) : SetContent(x[k]) = x[k]) /\ x = [k \in 1..Len(x) |-> x[k]]
  BY SeqIs, ClearIs
<1>3. [k \in 1..Len(x) |-> SetContent(x[k])] = [k \in 1..Len(x) |-> x[k]]
  BY <1>2
<1> QED
  BY <1>1, <1>2, <1>3 DEF Category

LEMMA SortedNames ==
    ASSUME NEW names \in Seq(Proper)
    PROVE  /\ sortedStrings(names) \in Seq(Proper) /\ sortedStrings(names) \in Seq(Clear) /\ Len(sortedStrings(names)) = Len(names)
           /\ BagOf(sortedStrings(names)) = BagOf(names)
<1>1. names \in Seq(Int)
  BY ProperIs
<1>2. SortedBy(names, names) \in Seq(Proper) /\ Len(SortedBy(names, names)) = Len(names)
  BY <1>1, SortedIs
<1>3. BagOf(SortedBy(names, names)) = BagOf(names)
  BY <1>1, BagSorted
<1> QED
  BY <1>2, <1>3, ProperIs DEF sortedStrings

--------------------------------------------------------------------------------
(* Clusters *)

\* Sets of tags none of which an element has inside it, CATEGORY apart.
Contents ==
    {"SHORT-NAME", "CAN-CLUSTER-VARIANTS", "CAN-CLUSTER-CONDITIONAL", "BAUDRATE",
     "PHYSICAL-CHANNELS", "CAN-PHYSICAL-CHANNEL", "COMM-CONTROLLERS",
     "CAN-COMMUNICATION-CONTROLLER", "FRAME-LENGTH", "PDU-TO-FRAME-MAPPINGS",
     "PDU-TO-FRAME-MAPPING", "PDU-REF", "START-POSITION", "LENGTH",
     "I-SIGNAL-TO-PDU-MAPPINGS", "I-SIGNAL-TO-I-PDU-MAPPING", "I-SIGNAL-REF",
     "INIT-VALUE", "NUMERICAL-VALUE-SPECIFICATION", "VALUE", "NETWORK-REPRESENTATION-PROPS",
     "BASE-TYPE-REF", "I-SIGNAL-REFS"}
Outer(T) == \A tag \in Contents : tag \notin T

ClusterOk(e) ==
    /\ e.name \in Clear /\ e.category \in Options(Clear)
    /\ e.baudrate \in Options(0..MaxUint32) /\ e.physicalChannels \in Seq(Proper)

Channels(e) == NamedEach("CAN-PHYSICAL-CHANNEL", sortedStrings(e.physicalChannels))
Conditional(e) == Text("BAUDRATE", e.baudrate) \o NonEmpty("PHYSICAL-CHANNELS", Channels(e))
Variants(e) == NonEmpty("CAN-CLUSTER-CONDITIONAL", Conditional(e))
ClusterKids(e) == Text("CATEGORY", e.category) \o NonEmpty("CAN-CLUSTER-VARIANTS", Variants(e))

LEMMA ClusterShape ==
    ASSUME NEW e, ClusterOk(e)
    PROVE  /\ buildClusterElement(e) = Titled("CAN-CLUSTER", e.name, ClusterKids(e))
           /\ Channels(e) \in Seq(Nodes) /\ Conditional(e) \in Seq(Nodes) /\ Variants(e) \in Seq(Nodes)
           /\ Text("BAUDRATE", e.baudrate) \in Seq(Nodes) /\ NonEmpty("PHYSICAL-CHANNELS", Channels(e)) \in Seq(Nodes)
           /\ Text("CATEGORY", e.category) \in Seq(Nodes) /\ NonEmpty("CAN-CLUSTER-VARIANTS", Variants(e)) \in Seq(Nodes)
           /\ ClusterKids(e) \in Seq(Nodes) /\ e.name \in Values
<1>1. {"CATEGORY", "BAUDRATE", "CAN-PHYSICAL-CHANNEL", "PHYSICAL-CHANNELS", "CAN-CLUSTER-CONDITIONAL", "CAN-CLUSTER-VARIANTS"} \subseteq Tags
  BY DEF Tags
<1>2. e.category \in Seq(Values) /\ e.baudrate \in Seq(Values) /\ e.name \in Values
  BY OptionsAre, ValueIs DEF ClusterOk
<1>3. sortedStrings(e.physicalChannels) \in Seq(Clear)
  BY SortedNames DEF ClusterOk
<1>4. Channels(e) \in Seq(Nodes)
  BY <1>1, <1>3, NamedEachBuilt DEF Channels
<1>5. NonEmpty("PHYSICAL-CHANNELS", Channels(e)) \in Seq(Nodes)
  BY <1>1, <1>4, NonEmptyBuilt
<1>6. Text("BAUDRATE", e.baudrate) \in Seq(Nodes) /\ Text("CATEGORY", e.category) \in Seq(Nodes)
  BY <1>1, <1>2, TextBuilt
<1>7. Conditional(e) \in Seq(Nodes)
  BY <1>5, <1>6, JoinIs DEF Conditional
<1>8. Variants(e) \in Seq(Nodes)
  BY <1>1, <1>7, NonEmptyBuilt DEF Variants
<1>9. NonEmpty("CAN-CLUSTER-VARIANTS", Variants(e)) \in Seq(Nodes)
  BY <1>1, <1>8, NonEmptyBuilt
<1>10. ClusterKids(e) \in Seq(Nodes)
  BY <1>6, <1>9, JoinIs DEF ClusterKids
<1>11. Category(e) = Text("CATEGORY", e.category) /\ \A ch : Named("CAN-CLUSTER", e.name, ch) = Titled("CAN-CLUSTER", e.name, ch)
  BY CategoryIs, ClearNamed DEF ClusterOk
<1> QED
  BY <1>2, <1>4, <1>5, <1>6, <1>7, <1>8, <1>9, <1>10, <1>11
     DEF buildClusterElement, ClusterKids, Variants, Conditional, Channels

\* What is inside a cluster.
LEMMA ClusterIn ==
    ASSUME NEW e, ClusterOk(e), NEW T, {"SHORT-NAME", "PHYSICAL-CHANNELS", "CAN-CLUSTER-CONDITIONAL", "CAN-CLUSTER-VARIANTS"} \cap T = {}
    PROVE  /\ In(ClusterKids(e), T) = In(Text("CATEGORY", e.category), T) \o (In(Text("BAUDRATE", e.baudrate), T) \o In(Channels(e), T))
<1>1. {"PHYSICAL-CHANNELS", "CAN-CLUSTER-CONDITIONAL", "CAN-CLUSTER-VARIANTS"} \subseteq Tags
  BY DEF Tags
<1>2. In(NonEmpty("PHYSICAL-CHANNELS", Channels(e)), T) = In(Channels(e), T)
  BY <1>1, ClusterShape, NonEmptyBuilt
<1>3. In(Conditional(e), T) = In(Text("BAUDRATE", e.baudrate), T) \o In(NonEmpty("PHYSICAL-CHANNELS", Channels(e)), T)
  <2>1. Text("BAUDRATE", e.baudrate) \in Seq(Nodes) /\ NonEmpty("PHYSICAL-CHANNELS", Channels(e)) \in Seq(Nodes)
    BY ClusterShape
  <2>2. In(Text("BAUDRATE", e.baudrate) \o NonEmpty("PHYSICAL-CHANNELS", Channels(e)), T)
        = In(Text("BAUDRATE", e.baudrate), T) \o In(NonEmpty("PHYSICAL-CHANNELS", Channels(e)), T)
    BY <2>1, InJoin
  <2> QED BY <2>2 DEF Conditional
<1>4. In(Variants(e), T) = In(Conditional(e), T)
  BY <1>1, ClusterShape, NonEmptyBuilt DEF Variants
<1>5. In(NonEmpty("CAN-CLUSTER-VARIANTS", Variants(e)), T) = In(Variants(e), T)
  BY <1>1, ClusterShape, NonEmptyBuilt
<1>6. In(ClusterKids(e), T) = In(Text("CATEGORY", e.category), T) \o In(NonEmpty("CAN-CLUSTER-VARIANTS", Variants(e)), T)
  <2>1. Text("CATEGORY", e.category) \in Seq(Nodes) /\ NonEmpty("CAN-CLUSTER-VARIANTS", Variants(e)) \in Seq(Nodes)
    BY ClusterShape
  <2>2. In(Text("CATEGORY", e.category) \o NonEmpty("CAN-CLUSTER-VARIANTS", Variants(e)), T)
        = In(Text("CATEGORY", e.category), T) \o In(NonEmpty("CAN-CLUSTER-VARIANTS", Variants(e)), T)
    BY <2>1, InJoin
  <2> QED BY <2>2 DEF ClusterKids
<1> QED
  BY <1>2, <1>3, <1>4, <1>5, <1>6

LEMMA ClusterOuter ==
    ASSUME NEW e, ClusterOk(e), NEW T, Outer(T)
    PROVE  In(ClusterKids(e), T) = IF "CATEGORY" \in T THEN Text("CATEGORY", e.category) ELSE <<>>
<1>1. {"SHORT-NAME", "PHYSICAL-CHANNELS", "CAN-CLUSTER-CONDITIONAL", "CAN-CLUSTER-VARIANTS"} \cap T = {} /\ "SHORT-NAME" \notin T
      /\ "BAUDRATE" \notin T /\ "CAN-PHYSICAL-CHANNEL" \notin T
  BY DEF Outer, Contents
<1>2. {"CATEGORY", "BAUDRATE", "CAN-PHYSICAL-CHANNEL"} \subseteq Tags
  BY DEF Tags
<1>3. e.category \in Seq(Values) /\ e.baudrate \in Seq(Values) /\ sortedStrings(e.physicalChannels) \in Seq(Clear)
  BY OptionsAre, SortedNames DEF ClusterOk
<1>4. In(Text("BAUDRATE", e.baudrate), T) = <<>>
  BY <1>1, <1>2, <1>3, TextIn
<1>5. In(Channels(e), T) = <<>>
  BY <1>1, <1>2, <1>3, NamedEachIn DEF Channels
<1>6. In(Text("CATEGORY", e.category), T) = IF "CATEGORY" \in T THEN Text("CATEGORY", e.category) ELSE <<>>
  BY <1>1, <1>2, <1>3, TextIn
<1>7. In(ClusterKids(e), T) = In(Text("CATEGORY", e.category), T) \o (In(Text("BAUDRATE", e.baudrate), T) \o In(Channels(e), T))
  BY <1>1, ClusterIn
<1>8. <<>> \o <<>> = <<>>
  OBVIOUS
<1>9. Text("CATEGORY", e.category) \o <<>> = Text("CATEGORY", e.category)
  BY ClusterShape, JoinNone
<1> QED
  BY <1>4, <1>5, <1>6, <1>7, <1>8, <1>9

\* A cluster reads back with its channels sorted.
LEMMA ClusterBack ==
    ASSUME NEW e, ClusterOk(e)
    PROVE  /\ buildCluster(buildClusterElement(e)).name = e.name
           /\ buildCluster(buildClusterElement(e)).category = e.category
           /\ buildCluster(buildClusterElement(e)).baudrate = e.baudrate
           /\ buildCluster(buildClusterElement(e)).physicalChannels = sortedStrings(e.physicalChannels)
<1>1. PICK n : n = Titled("CAN-CLUSTER", e.name, ClusterKids(e)) /\ n = buildClusterElement(e)
  BY ClusterShape
<1>t. {"CATEGORY", "BAUDRATE", "CAN-PHYSICAL-CHANNEL", "CAN-CLUSTER", "CAN-CLUSTER-VARIANTS"} \subseteq Tags
  BY DEF Tags
<1>k. ClusterKids(e) \in Seq(Nodes) /\ e.name \in Values
  BY ClusterShape
<1>v. /\ e.category \in Seq(Values) /\ Len(e.category) <= 1 /\ e.baudrate \in Seq(Values) /\ Len(e.baudrate) <= 1
      /\ e.baudrate \in Seq(0..MaxUint32) /\ sortedStrings(e.physicalChannels) \in Seq(Clear) /\ sortedStrings(e.physicalChannels) \in Seq(Proper)
  BY OptionsAre, SortedNames DEF ClusterOk
<1>r. Reads(n, "CAN-CLUSTER", e.name, ClusterKids(e))
  BY <1>1, <1>t, <1>k, NamedReads
<1>2. extractShortName(n) = e.name
  BY <1>r DEF Reads
<1>3. category(n) = e.category
  <2>1. childText(n, "CATEGORY") = Texts(FirstOf(OfTag(ClusterKids(e), "CATEGORY")))
    BY <1>r DEF Reads
  <2>2. OfTag(NonEmpty("CAN-CLUSTER-VARIANTS", Variants(e)), "CATEGORY") = <<>>
    BY <1>t, ClusterShape, NonEmptyBuilt
  <2>3. OfTag(ClusterKids(e), "CATEGORY") = OfTag(Text("CATEGORY", e.category), "CATEGORY")
    BY <2>2, ClusterShape, OfTagLeft DEF ClusterKids
  <2>4. OfTag(Text("CATEGORY", e.category), "CATEGORY") = Text("CATEGORY", e.category)
    BY <1>t, <1>v, TextOfTag
  <2>5. Texts(FirstOf(Text("CATEGORY", e.category))) = e.category
    BY <1>t, <1>v, OneText
  <2> QED BY <2>1, <2>3, <2>4, <2>5 DEF category
<1>4. childText(n, "BAUDRATE") = <<>>
  <2>1. childText(n, "BAUDRATE") = Texts(FirstOf(OfTag(ClusterKids(e), "BAUDRATE")))
    BY <1>r DEF Reads
  <2>2. OfTag(NonEmpty("CAN-CLUSTER-VARIANTS", Variants(e)), "BAUDRATE") = <<>>
    BY <1>t, ClusterShape, NonEmptyBuilt
  <2>3. OfTag(ClusterKids(e), "BAUDRATE") = OfTag(Text("CATEGORY", e.category), "BAUDRATE")
    BY <2>2, ClusterShape, OfTagLeft DEF ClusterKids
  <2>4. OfTag(Text("CATEGORY", e.category), "BAUDRATE") = <<>>
    BY <1>t, <1>v, TextOfTag
  <2>5. Texts(FirstOf(<<>>)) = <<>>
    BY TextsNone DEF FirstOf
  <2> QED BY <2>1, <2>3, <2>4, <2>5
<1>5. Texts(FirstOf(findDescendants(n, "BAUDRATE"))) = e.baudrate
  <2>1. findDescendants(n, "BAUDRATE") = In(ClusterKids(e), {"BAUDRATE"})
    BY <1>r DEF Reads
  <2>2. In(ClusterKids(e), {"BAUDRATE"}) = In(Text("CATEGORY", e.category), {"BAUDRATE"}) \o (In(Text("BAUDRATE", e.baudrate), {"BAUDRATE"}) \o In(Channels(e), {"BAUDRATE"}))
    BY ClusterIn
  <2>3. In(Text("CATEGORY", e.category), {"BAUDRATE"}) = <<>> /\ In(Text("BAUDRATE", e.baudrate), {"BAUDRATE"}) = Text("BAUDRATE", e.baudrate)
    BY <1>t, <1>v, TextIn
  <2>4. In(Channels(e), {"BAUDRATE"}) = <<>>
    BY <1>t, <1>v, NamedEachIn DEF Channels
  <2>5. Text("BAUDRATE", e.baudrate) \o <<>> = Text("BAUDRATE", e.baudrate) /\ <<>> \o Text("BAUDRATE", e.baudrate) = Text("BAUDRATE", e.baudrate)
    BY ClusterShape, JoinNone
  <2>6. Texts(FirstOf(Text("BAUDRATE", e.baudrate))) = e.baudrate
    BY <1>t, <1>v, OneText
  <2> QED BY <2>1, <2>2, <2>3, <2>4, <2>5, <2>6
<1>6. buildCluster(n).baudrate = e.baudrate
  <2>1. buildCluster(n).baudrate = IF e.baudrate = <<>> THEN <<>> ELSE parseUint32(e.baudrate[1])
    BY <1>4, <1>5 DEF buildCluster, OrElse
  <2>2. e.baudrate \in Options(0..MaxUint32)
    BY DEF ClusterOk
  <2>3. e.baudrate = <<>> \/ \E b \in 0..MaxUint32 : e.baudrate = <<b>> /\ e.baudrate # <<>> /\ e.baudrate[1] = b
    BY <2>2, OptionIs
  <2> QED BY <2>1, <2>3 DEF parseUint32
<1>7. ShortNamesOf(n, <<"PHYSICAL-CHANNEL", "CAN-PHYSICAL-CHANNEL">>) = sortedStrings(e.physicalChannels)
  <2>1. findDescendants(n, "PHYSICAL-CHANNEL") = In(ClusterKids(e), {"PHYSICAL-CHANNEL"})
        /\ findDescendants(n, "CAN-PHYSICAL-CHANNEL") = In(ClusterKids(e), {"CAN-PHYSICAL-CHANNEL"})
    BY <1>r DEF Reads
  <2>2. Outer({"PHYSICAL-CHANNEL"})
    BY DEF Outer, Contents
  <2>3. In(ClusterKids(e), {"PHYSICAL-CHANNEL"}) = <<>>
    BY <2>2, ClusterOuter
  <2>4. In(ClusterKids(e), {"CAN-PHYSICAL-CHANNEL"}) = In(Text("CATEGORY", e.category), {"CAN-PHYSICAL-CHANNEL"})
            \o (In(Text("BAUDRATE", e.baudrate), {"CAN-PHYSICAL-CHANNEL"}) \o In(Channels(e), {"CAN-PHYSICAL-CHANNEL"}))
    BY ClusterIn
  <2>5. In(Text("CATEGORY", e.category), {"CAN-PHYSICAL-CHANNEL"}) = <<>> /\ In(Text("BAUDRATE", e.baudrate), {"CAN-PHYSICAL-CHANNEL"}) = <<>>
    BY <1>t, <1>v, TextIn
  <2>6. In(Channels(e), {"CAN-PHYSICAL-CHANNEL"}) = Channels(e)
    BY <1>t, <1>v, NamedEachIn DEF Channels
  <2>7. <<>> \o Channels(e) = Channels(e)
    BY ClusterShape, JoinNone
  <2>8. PICK c \in Seq(Nodes) : c = Channels(e)
    BY ClusterShape
  <2>9. findDescendants(n, "PHYSICAL-CHANNEL") = <<>> /\ findDescendants(n, "CAN-PHYSICAL-CHANNEL") = c
    BY <2>1, <2>3, <2>4, <2>5, <2>6, <2>7, <2>8
  <2>10. OfTags(n, <<"PHYSICAL-CHANNEL", "CAN-PHYSICAL-CHANNEL">>) = <<>> \o c
    BY <2>9, NoNodes, OfTagsTwo
  <2>11. OfTags(n, <<"PHYSICAL-CHANNEL", "CAN-PHYSICAL-CHANNEL">>) = Channels(e)
    BY <2>7, <2>8, <2>10
  <2>12. ShortNames(Channels(e)) = sortedStrings(e.physicalChannels)
    BY <1>t, <1>v, NamedEachNames DEF Channels
  <2>13. NonEmptyOf(sortedStrings(e.physicalChannels)) = sortedStrings(e.physicalChannels)
    BY <1>v, NonEmptyAll
  <2> QED BY <2>11, <2>12, <2>13 DEF ShortNamesOf, ShortNames
<1> QED
  BY <1>1, <1>2, <1>3, <1>6, <1>7 DEF buildCluster

--------------------------------------------------------------------------------
(* ECUs *)

EcuOk(e) == e.name \in Clear /\ e.category \in Options(Clear) /\ e.controllers \in Seq(Proper)

Controllers(e) == NamedEach("CAN-COMMUNICATION-CONTROLLER", sortedStrings(e.controllers))
EcuKids(e) == Text("CATEGORY", e.category) \o NonEmpty("COMM-CONTROLLERS", Controllers(e))

LEMMA EcuShape ==
    ASSUME NEW e, EcuOk(e)
    PROVE  /\ buildEcuInstanceElement(e) = Titled("ECU-INSTANCE", e.name, EcuKids(e))
           /\ Controllers(e) \in Seq(Nodes) /\ NonEmpty("COMM-CONTROLLERS", Controllers(e)) \in Seq(Nodes)
           /\ Text("CATEGORY", e.category) \in Seq(Nodes) /\ EcuKids(e) \in Seq(Nodes) /\ e.name \in Values
<1>1. {"CATEGORY", "COMM-CONTROLLERS", "CAN-COMMUNICATION-CONTROLLER"} \subseteq Tags
  BY DEF Tags
<1>2. e.category \in Seq(Values) /\ e.name \in Values
  BY OptionsAre, ValueIs DEF EcuOk
<1>3. sortedStrings(e.controllers) \in Seq(Clear)
  BY SortedNames DEF EcuOk
<1>4. Controllers(e) \in Seq(Nodes)
  BY <1>1, <1>3, NamedEachBuilt DEF Controllers
<1>5. NonEmpty("COMM-CONTROLLERS", Controllers(e)) \in Seq(Nodes)
  BY <1>1, <1>4, NonEmptyBuilt
<1>6. Text("CATEGORY", e.category) \in Seq(Nodes)
  BY <1>1, <1>2, TextBuilt
<1>7. EcuKids(e) \in Seq(Nodes)
  BY <1>5, <1>6, JoinIs DEF EcuKids
<1>8. Category(e) = Text("CATEGORY", e.category) /\ \A ch : Named("ECU-INSTANCE", e.name, ch) = Titled("ECU-INSTANCE", e.name, ch)
  BY CategoryIs, ClearNamed DEF EcuOk
<1> QED
  BY <1>2, <1>4, <1>5, <1>6, <1>7, <1>8 DEF buildEcuInstanceElement, EcuKids, Controllers

LEMMA EcuIn ==
    ASSUME NEW e, EcuOk(e), NEW T, "COMM-CONTROLLERS" \notin T
    PROVE  In(EcuKids(e), T) = In(Text("CATEGORY", e.category), T) \o In(Controllers(e), T)
<1>1. "COMM-CONTROLLERS" \in Tags
  BY DEF Tags
<1>2. In(NonEmpty("COMM-CONTROLLERS", Controllers(e)), T) = In(Controllers(e), T)
  BY <1>1, EcuShape, NonEmptyBuilt
<1>3. Text("CATEGORY", e.category) \in Seq(Nodes) /\ NonEmpty("COMM-CONTROLLERS", Controllers(e)) \in Seq(Nodes)
  BY EcuShape
<1>4. In(Text("CATEGORY", e.category) \o NonEmpty("COMM-CONTROLLERS", Controllers(e)), T)
      = In(Text("CATEGORY", e.category), T) \o In(NonEmpty("COMM-CONTROLLERS", Controllers(e)), T)
  BY <1>3, InJoin
<1> QED
  BY <1>2, <1>4 DEF EcuKids

LEMMA EcuOuter ==
    ASSUME NEW e, EcuOk(e), NEW T, Outer(T)
    PROVE  In(EcuKids(e), T) = IF "CATEGORY" \in T THEN Text("CATEGORY", e.category) ELSE <<>>
<1>1. "COMM-CONTROLLERS" \notin T /\ "SHORT-NAME" \notin T /\ "CAN-COMMUNICATION-CONTROLLER" \notin T
  BY DEF Outer, Contents
<1>2. {"CATEGORY", "CAN-COMMUNICATION-CONTROLLER"} \subseteq Tags
  BY DEF Tags
<1>3. e.category \in Seq(Values) /\ sortedStrings(e.controllers) \in Seq(Clear)
  BY OptionsAre, SortedNames DEF EcuOk
<1>4. In(Controllers(e), T) = <<>>
  BY <1>1, <1>2, <1>3, NamedEachIn DEF Controllers
<1>5. In(Text("CATEGORY", e.category), T) = IF "CATEGORY" \in T THEN Text("CATEGORY", e.category) ELSE <<>>
  BY <1>1, <1>2, <1>3, TextIn
<1>6. In(EcuKids(e), T) = In(Text("CATEGORY", e.category), T) \o In(Controllers(e), T)
  BY <1>1, EcuIn
<1>7. <<>> \o <<>> = <<>>
  OBVIOUS
<1>8. Text("CATEGORY", e.category) \o <<>> = Text("CATEGORY", e.category)
  BY EcuShape, JoinNone
<1> QED
  BY <1>4, <1>5, <1>6, <1>7, <1>8

\* An ECU reads back with its controllers sorted.
LEMMA EcuBack ==
    ASSUME NEW e, EcuOk(e)
    PROVE  /\ buildEcuInstance(buildEcuInstanceElement(e)).name = e.name
           /\ buildEcuInstance(buildEcuInstanceElement(e)).category = e.category
           /\ buildEcuInstance(buildEcuInstanceElement(e)).controllers = sortedStrings(e.controllers)
<1>1. PICK n : n = Titled("ECU-INSTANCE", e.name, EcuKids(e)) /\ n = buildEcuInstanceElement(e)
  BY EcuShape
<1>t. {"CATEGORY", "CAN-COMMUNICATION-CONTROLLER", "ECU-INSTANCE", "COMM-CONTROLLERS"} \subseteq Tags
  BY DEF Tags
<1>k. EcuKids(e) \in Seq(Nodes) /\ e.name \in Values
  BY EcuShape
<1>v. /\ e.category \in Seq(Values) /\ Len(e.category) <= 1
      /\ sortedStrings(e.controllers) \in Seq(Clear) /\ sortedStrings(e.controllers) \in Seq(Proper)
  BY OptionsAre, SortedNames DEF EcuOk
<1>r. Reads(n, "ECU-INSTANCE", e.name, EcuKids(e))
  BY <1>1, <1>t, <1>k, NamedReads
<1>2. extractShortName(n) = e.name
  BY <1>r DEF Reads
<1>3. category(n) = e.category
  <2>1. childText(n, "CATEGORY") = Texts(FirstOf(OfTag(EcuKids(e), "CATEGORY")))
    BY <1>r DEF Reads
  <2>2. OfTag(NonEmpty("COMM-CONTROLLERS", Controllers(e)), "CATEGORY") = <<>>
    BY <1>t, EcuShape, NonEmptyBuilt
  <2>3. OfTag(EcuKids(e), "CATEGORY") = OfTag(Text("CATEGORY", e.category), "CATEGORY")
    BY <2>2, EcuShape, OfTagLeft DEF EcuKids
  <2>4. OfTag(Text("CATEGORY", e.category), "CATEGORY") = Text("CATEGORY", e.category)
    BY <1>t, <1>v, TextOfTag
  <2>5. Texts(FirstOf(Text("CATEGORY", e.category))) = e.category
    BY <1>t, <1>v, OneText
  <2> QED BY <2>1, <2>3, <2>4, <2>5 DEF category
<1>4. ShortNamesOf(n, <<"CAN-CONTROLLER", "CAN-COMMUNICATION-CONTROLLER">>) = sortedStrings(e.controllers)
  <2>1. findDescendants(n, "CAN-CONTROLLER") = In(EcuKids(e), {"CAN-CONTROLLER"})
        /\ findDescendants(n, "CAN-COMMUNICATION-CONTROLLER") = In(EcuKids(e), {"CAN-COMMUNICATION-CONTROLLER"})
    BY <1>r DEF Reads
  <2>2. Outer({"CAN-CONTROLLER"})
    BY DEF Outer, Contents
  <2>3. In(EcuKids(e), {"CAN-CONTROLLER"}) = <<>>
    BY <2>2, EcuOuter
  <2>4. In(EcuKids(e), {"CAN-COMMUNICATION-CONTROLLER"})
        = In(Text("CATEGORY", e.category), {"CAN-COMMUNICATION-CONTROLLER"}) \o In(Controllers(e), {"CAN-COMMUNICATION-CONTROLLER"})
    BY EcuIn
  <2>5. In(Text("CATEGORY", e.category), {"CAN-COMMUNICATION-CONTROLLER"}) = <<>>
    BY <1>t, <1>v, TextIn
  <2>6. In(Controllers(e), {"CAN-COMMUNICATION-CONTROLLER"}) = Controllers(e)
    BY <1>t, <1>v, NamedEachIn DEF Controllers
  <2>7. <<>> \o Controllers(e) = Controllers(e)
    BY EcuShape, JoinNone
  <2>8. PICK c \in Seq(Nodes) : c = Controllers(e)
    BY EcuShape
  <2>9. findDescendants(n, "CAN-CONTROLLER") = <<>> /\ findDescendants(n, "CAN-COMMUNICATION-CONTROLLER") = c
    BY <2>1, <2>3, <2>4, <2>5, <2>6, <2>7, <2>8
  <2>10. OfTags(n, <<"CAN-CONTROLLER", "CAN-COMMUNICATION-CONTROLLER">>) = <<>> \o c
    BY <2>9, NoNodes, OfTagsTwo
  <2>11. OfTags(n, <<"CAN-CONTROLLER", "CAN-COMMUNICATION-CONTROLLER">>) = Controllers(e)
    BY <2>7, <2>8, <2>10
  <2>12. ShortNames(Controllers(e)) = sortedStrings(e.controllers)
    BY <1>t, <1>v, NamedEachNames DEF Controllers
  <2>13. NonEmptyOf(sortedStrings(e.controllers)) = sortedStrings(e.controllers)
    BY <1>v, NonEmptyAll
  <2> QED BY <2>11, <2>12, <2>13 DEF ShortNamesOf, ShortNames
<1> QED
  BY <1>1, <1>2, <1>3, <1>4 DEF buildEcuInstance

--------------------------------------------------------------------------------
(* Signals and signal groups *)

LEMMA TextNone == ASSUME NEW tag \in Tags PROVE Text(tag, <<>>) = <<>>
<1>0. <<>> \in Seq(Values)
  OBVIOUS
<1>1. PICK o \in Seq(Values) : o = <<>>
  BY <1>0
<1>2. Len(o) = 0
  BY <1>1
<1>3. PICK t \in Seq(Nodes) : t = Text(tag, o) /\ Len(t) = Len(o)
  BY TextBuilt
<1>4. t = <<>>
  BY <1>2, <1>3
<1> QED
  BY <1>1, <1>3, <1>4

\* The number below a node.
LEMMA UintRead ==
    ASSUME NEW n, NEW tag, NEW fallback, NEW v \in 0..MaxUint32, childText(n, tag) = <<v>>
    PROVE  childUint32(n, tag, fallback) = v
<1>1. <<v>> # <<>> /\ <<v>>[1] = v
  OBVIOUS
<1>2. parseUint32(v) = <<v>>
  BY DEF parseUint32
<1> QED
  BY <1>1, <1>2 DEF childUint32, Value

LEMMA UintAbsent ==
    ASSUME NEW n, NEW tag, NEW fallback, childText(n, tag) = <<>> PROVE childUint32(n, tag, fallback) = fallback
BY DEF childUint32

SignalOk(e) ==
    /\ e.name \in Clear /\ e.bitLength \in 0..MaxUint32 /\ e.isSigned \in BOOLEAN
    /\ e.initValue \in Options(Int \ {Unreadable})

Signed == <<"SwBaseType", "SINT8">>
TypeRef(e) == IF e.isSigned THEN <<Signed>> ELSE <<>>
Numerical(e) == NonEmpty("NUMERICAL-VALUE-SPECIFICATION", Text("VALUE", e.initValue))
InitPart(e) == NonEmpty("INIT-VALUE", Numerical(e))
LengthPart(e) == Text("LENGTH", <<e.bitLength>>)
TypePart(e) == NonEmpty("NETWORK-REPRESENTATION-PROPS", Text("BASE-TYPE-REF", TypeRef(e)))
SignalKids(e) == (InitPart(e) \o LengthPart(e)) \o TypePart(e)

LEMMA TypeRefIs ==
    ASSUME NEW e, SignalOk(e)
    PROVE  /\ TypeRef(e) \in Seq(Values) /\ Len(TypeRef(e)) <= 1
           /\ TypePart(e) = IF e.isSigned THEN <<Group("NETWORK-REPRESENTATION-PROPS", <<Leaf("BASE-TYPE-REF", Signed)>>)>> ELSE <<>>
<1>1. Signed \in Values /\ "BASE-TYPE-REF" \in Tags
  BY ValueIs DEF Tags, Signed
<1>2. CASE e.isSigned
  <2>1. PICK x \in Values : x = Signed
    BY <1>1
  <2>2. PICK o \in Seq(Values) : o = <<x>>
    BY OneIs
  <2>3. Len(o) = 1
    BY <2>2
  <2>4. PICK t \in Seq(Nodes) : t = Text("BASE-TYPE-REF", o) /\ Len(t) = Len(o)
    BY <1>1, TextBuilt
  <2>5. t # <<>>
    BY <2>3, <2>4
  <2>6. t = <<Leaf("BASE-TYPE-REF", x)>>
    BY <1>1, <2>2, <2>4, LeafText
  <2> QED BY <1>2, <2>1, <2>2, <2>3, <2>4, <2>5, <2>6 DEF TypeRef, TypePart, NonEmpty
<1>3. CASE ~e.isSigned
  <2>1. TypeRef(e) = <<>>
    BY <1>3 DEF TypeRef
  <2>2. <<>> \in Seq(Values) /\ Len(<<>>) = 0
    OBVIOUS
  <2>3. Text("BASE-TYPE-REF", <<>>) = <<>>
    BY <1>1, TextNone
  <2> QED BY <1>3, <2>1, <2>2, <2>3 DEF TypePart, NonEmpty
<1> QED
  BY <1>2, <1>3

LEMMA SignalShape ==
    ASSUME NEW e, SignalOk(e)
    PROVE  /\ buildSignalElement(e) = Titled("I-SIGNAL", e.name, SignalKids(e))
           /\ e.initValue \in Seq(Values) /\ Len(e.initValue) <= 1 /\ <<e.bitLength>> \in Seq(Values) /\ Len(<<e.bitLength>>) = 1
           /\ Text("VALUE", e.initValue) \in Seq(Nodes) /\ Numerical(e) \in Seq(Nodes) /\ InitPart(e) \in Seq(Nodes)
           /\ LengthPart(e) \in Seq(Nodes) /\ Text("BASE-TYPE-REF", TypeRef(e)) \in Seq(Nodes) /\ TypePart(e) \in Seq(Nodes)
           /\ InitPart(e) \o LengthPart(e) \in Seq(Nodes) /\ SignalKids(e) \in Seq(Nodes) /\ e.name \in Values
<1>1. {"INIT-VALUE", "NUMERICAL-VALUE-SPECIFICATION", "VALUE", "LENGTH", "NETWORK-REPRESENTATION-PROPS", "BASE-TYPE-REF"} \subseteq Tags
  BY DEF Tags
<1>2. e.initValue \in Seq(Values) /\ Len(e.initValue) <= 1
  BY OptionsAre DEF SignalOk
<1>3. e.name \in Values /\ e.bitLength \in Values
  <2>1. Clear \subseteq Values /\ Int \subseteq Values
    BY ValueIs
  <2>2. e.name \in Clear /\ e.bitLength \in Int
    BY UintAssumption DEF SignalOk
  <2> QED BY <2>1, <2>2
<1>4. <<e.bitLength>> \in Seq(Values) /\ Len(<<e.bitLength>>) = 1
  BY <1>3, OneIs
<1>5. Text("VALUE", e.initValue) \in Seq(Nodes) /\ LengthPart(e) \in Seq(Nodes)
  BY <1>1, <1>2, <1>4, TextBuilt DEF LengthPart
<1>6. Text("BASE-TYPE-REF", TypeRef(e)) \in Seq(Nodes)
  BY <1>1, TypeRefIs, TextBuilt
<1>7. Numerical(e) \in Seq(Nodes) /\ TypePart(e) \in Seq(Nodes)
  BY <1>1, <1>5, <1>6, NonEmptyBuilt DEF Numerical, TypePart
<1>8. InitPart(e) \in Seq(Nodes)
  BY <1>1, <1>7, NonEmptyBuilt DEF InitPart
<1>9. InitPart(e) \o LengthPart(e) \in Seq(Nodes)
  BY <1>5, <1>8, JoinIs
<1>10. SignalKids(e) \in Seq(Nodes)
  BY <1>7, <1>9, JoinIs DEF SignalKids
<1>11. LengthPart(e) = <<Leaf("LENGTH", e.bitLength)>>
  BY <1>1, <1>3, LeafText DEF LengthPart
<1>12. buildSignalElement(e) = Titled("I-SIGNAL", e.name, SignalKids(e))
  BY <1>11, TypeRefIs, ClearNamed DEF SignalOk, buildSignalElement, SignalKids, InitPart, Numerical, Signed
<1> QED
  BY <1>2, <1>3, <1>4, <1>5, <1>6, <1>7, <1>8, <1>9, <1>10, <1>12

LEMMA SignalIn ==
    ASSUME NEW e, SignalOk(e), NEW T, {"INIT-VALUE", "NUMERICAL-VALUE-SPECIFICATION", "NETWORK-REPRESENTATION-PROPS"} \cap T = {}
    PROVE  In(SignalKids(e), T)
           = (In(Text("VALUE", e.initValue), T) \o In(LengthPart(e), T)) \o In(Text("BASE-TYPE-REF", TypeRef(e)), T)
<1>1. {"INIT-VALUE", "NUMERICAL-VALUE-SPECIFICATION", "NETWORK-REPRESENTATION-PROPS"} \subseteq Tags
  BY DEF Tags
<1>2. In(Numerical(e), T) = In(Text("VALUE", e.initValue), T)
  BY <1>1, SignalShape, NonEmptyBuilt DEF Numerical
<1>3. In(InitPart(e), T) = In(Numerical(e), T)
  BY <1>1, SignalShape, NonEmptyBuilt DEF InitPart
<1>4. In(TypePart(e), T) = In(Text("BASE-TYPE-REF", TypeRef(e)), T)
  BY <1>1, SignalShape, NonEmptyBuilt DEF TypePart
<1>5. In(InitPart(e) \o LengthPart(e), T) = In(InitPart(e), T) \o In(LengthPart(e), T)
  <2>1. InitPart(e) \in Seq(Nodes) /\ LengthPart(e) \in Seq(Nodes)
    BY SignalShape
  <2> QED BY <2>1, InJoin
<1>6. In(SignalKids(e), T) = In(InitPart(e) \o LengthPart(e), T) \o In(TypePart(e), T)
  <2>1. InitPart(e) \o LengthPart(e) \in Seq(Nodes) /\ TypePart(e) \in Seq(Nodes)
    BY SignalShape
  <2>2. In((InitPart(e) \o LengthPart(e)) \o TypePart(e), T) = In(InitPart(e) \o LengthPart(e), T) \o In(TypePart(e), T)
    BY <2>1, InJoin
  <2> QED BY <2>2 DEF SignalKids
<1> QED
  BY <1>2, <1>3, <1>4, <1>5, <1>6

LEMMA SignalOuter ==
    ASSUME NEW e, SignalOk(e), NEW T, Outer(T) PROVE In(SignalKids(e), T) = <<>>
<1>1. {"INIT-VALUE", "NUMERICAL-VALUE-SPECIFICATION", "NETWORK-REPRESENTATION-PROPS"} \cap T = {}
      /\ "VALUE" \notin T /\ "LENGTH" \notin T /\ "BASE-TYPE-REF" \notin T
  BY DEF Outer, Contents
<1>2. {"VALUE", "LENGTH", "BASE-TYPE-REF"} \subseteq Tags
  BY DEF Tags
<1>3. In(Text("VALUE", e.initValue), T) = <<>>
  BY <1>1, <1>2, SignalShape, TextIn
<1>4. In(LengthPart(e), T) = <<>>
  BY <1>1, <1>2, SignalShape, TextIn, ZenonT(40) DEF LengthPart
<1>5. In(Text("BASE-TYPE-REF", TypeRef(e)), T) = <<>>
  BY <1>1, <1>2, TypeRefIs, TextIn
<1>6. <<>> \o <<>> = <<>>
  OBVIOUS
<1>7. In(SignalKids(e), T)
      = (In(Text("VALUE", e.initValue), T) \o In(LengthPart(e), T)) \o In(Text("BASE-TYPE-REF", TypeRef(e)), T)
  BY <1>1, SignalIn
<1> QED
  BY <1>3, <1>4, <1>5, <1>6, <1>7

LEMMA LengthTag == ASSUME NEW e, SignalOk(e), NEW tg PROVE OfTag(LengthPart(e), tg) = IF tg = "LENGTH" THEN LengthPart(e) ELSE <<>>
<1>1. "LENGTH" \in Tags
  BY DEF Tags
<1> QED
  BY <1>1, SignalShape, TextOfTag DEF LengthPart

\* The children of a signal with a tag.
LEMMA SignalTags ==
    ASSUME NEW e, SignalOk(e)
    PROVE  /\ OfTag(SignalKids(e), "LENGTH") = LengthPart(e)
           /\ OfTag(SignalKids(e), "BIT-LENGTH") = <<>>
           /\ OfTag(SignalKids(e), "INIT-VALUE") = InitPart(e)
<1>1. {"INIT-VALUE", "NETWORK-REPRESENTATION-PROPS"} \subseteq Tags
  BY DEF Tags
<1>2. \A tg : OfTag(NonEmpty("INIT-VALUE", Numerical(e)), tg) = IF tg = "INIT-VALUE" THEN NonEmpty("INIT-VALUE", Numerical(e)) ELSE <<>>
  BY <1>1, SignalShape, NonEmptyBuilt
<1>3. \A tg : OfTag(TypePart(e), tg) = IF tg = "NETWORK-REPRESENTATION-PROPS" THEN TypePart(e) ELSE <<>>
  BY <1>1, SignalShape, NonEmptyBuilt DEF TypePart
<1>4. PICK a \in Seq(Nodes) : a = InitPart(e)
  BY SignalShape
<1>5. PICK b \in Seq(Nodes) : b = LengthPart(e)
  BY SignalShape
<1>6. PICK c \in Seq(Nodes) : c = TypePart(e)
  BY SignalShape
<1>7. PICK d \in Seq(Nodes) : d = a \o b
  BY JoinIs
<1>8. SignalKids(e) = d \o c
  BY <1>4, <1>5, <1>6, <1>7 DEF SignalKids
<1>9. ASSUME NEW tg PROVE OfTag(SignalKids(e), tg) = (OfTag(a, tg) \o OfTag(b, tg)) \o OfTag(c, tg)
  <2>1. OfTag(d \o c, tg) = OfTag(d, tg) \o OfTag(c, tg)
    BY OfTagJoin
  <2>2. OfTag(a \o b, tg) = OfTag(a, tg) \o OfTag(b, tg)
    BY OfTagJoin
  <2> QED BY <1>7, <1>8, <2>1, <2>2
<1>10. ASSUME NEW tg PROVE OfTag(b, tg) = IF tg = "LENGTH" THEN b ELSE <<>>
  BY <1>5, LengthTag
<1>11. ASSUME NEW tg PROVE OfTag(a, tg) = IF tg = "INIT-VALUE" THEN a ELSE <<>>
  BY <1>2, <1>4 DEF InitPart
<1>12. <<>> \o <<>> = <<>> /\ <<>> \o b = b /\ b \o <<>> = b /\ a \o <<>> = a
  BY JoinNone
<1>13. ASSUME NEW tg, tg # "NETWORK-REPRESENTATION-PROPS" PROVE OfTag(c, tg) = <<>>
  BY <1>3, <1>6, <1>13
<1>14. OfTag(a, "LENGTH") = <<>> /\ OfTag(b, "LENGTH") = b /\ OfTag(c, "LENGTH") = <<>>
  BY <1>10, <1>11, <1>13
<1>15. OfTag(a, "BIT-LENGTH") = <<>> /\ OfTag(b, "BIT-LENGTH") = <<>> /\ OfTag(c, "BIT-LENGTH") = <<>>
  BY <1>10, <1>11, <1>13
<1>16. OfTag(a, "INIT-VALUE") = a /\ OfTag(b, "INIT-VALUE") = <<>> /\ OfTag(c, "INIT-VALUE") = <<>>
  BY <1>10, <1>11, <1>13
<1>17. OfTag(SignalKids(e), "LENGTH") = b
  BY <1>9, <1>12, <1>14
<1>18. OfTag(SignalKids(e), "BIT-LENGTH") = <<>>
  BY <1>9, <1>12, <1>15
<1>19. OfTag(SignalKids(e), "INIT-VALUE") = a
  BY <1>9, <1>12, <1>16
<1> QED
  BY <1>4, <1>5, <1>17, <1>18, <1>19

\* A signal reads back.
LEMMA SignalBack ==
    ASSUME NEW e, SignalOk(e)
    PROVE  /\ buildSignal(buildSignalElement(e)).name = e.name
           /\ buildSignal(buildSignalElement(e)).bitLength = e.bitLength
           /\ buildSignal(buildSignalElement(e)).isSigned = e.isSigned
           /\ buildSignal(buildSignalElement(e)).initValue = e.initValue
<1>1. PICK n : n = Titled("I-SIGNAL", e.name, SignalKids(e)) /\ n = buildSignalElement(e)
  BY SignalShape
<1>t. {"I-SIGNAL", "INIT-VALUE", "NUMERICAL-VALUE-SPECIFICATION", "VALUE", "LENGTH", "NETWORK-REPRESENTATION-PROPS", "BASE-TYPE-REF"} \subseteq Tags
  BY DEF Tags
<1>k. SignalKids(e) \in Seq(Nodes) /\ e.name \in Values
  BY SignalShape
<1>r. Reads(n, "I-SIGNAL", e.name, SignalKids(e))
  BY <1>1, <1>t, <1>k, NamedReads
<1>2. extractShortName(n) = e.name
  BY <1>r DEF Reads
<1>3. childUint32(n, "BIT-LENGTH", childUint32(n, "LENGTH", 0)) = e.bitLength
  <2>1. childText(n, "BIT-LENGTH") = Texts(FirstOf(OfTag(SignalKids(e), "BIT-LENGTH")))
        /\ childText(n, "LENGTH") = Texts(FirstOf(OfTag(SignalKids(e), "LENGTH")))
    BY <1>r DEF Reads
  <2>2. Texts(FirstOf(<<>>)) = <<>>
    BY TextsNone DEF FirstOf
  <2>3. Texts(FirstOf(LengthPart(e))) = <<e.bitLength>>
    <3>1. PICK o \in Seq(Values) : o = <<e.bitLength>> /\ Len(o) = 1
      BY SignalShape
    <3>2. Len(o) <= 1
      BY <3>1
    <3> QED BY <1>t, <3>1, <3>2, OneText DEF LengthPart
  <2>4. childText(n, "BIT-LENGTH") = <<>> /\ childText(n, "LENGTH") = <<e.bitLength>>
    BY <2>1, <2>2, <2>3, SignalTags
  <2>5. childUint32(n, "LENGTH", 0) = e.bitLength
    BY <2>4, UintRead DEF SignalOk
  <2> QED BY <2>4, <2>5, UintAbsent
<1>4. findDescendants(n, "BASE-TYPE-REF") = Text("BASE-TYPE-REF", TypeRef(e))
  <2>1. findDescendants(n, "BASE-TYPE-REF") = In(SignalKids(e), {"BASE-TYPE-REF"})
    BY <1>r DEF Reads
  <2>2. In(SignalKids(e), {"BASE-TYPE-REF"}) = (In(Text("VALUE", e.initValue), {"BASE-TYPE-REF"}) \o In(LengthPart(e), {"BASE-TYPE-REF"}))
              \o In(Text("BASE-TYPE-REF", TypeRef(e)), {"BASE-TYPE-REF"})
    BY SignalIn
  <2>3. In(Text("VALUE", e.initValue), {"BASE-TYPE-REF"}) = <<>> /\ In(LengthPart(e), {"BASE-TYPE-REF"}) = <<>>
        /\ In(Text("BASE-TYPE-REF", TypeRef(e)), {"BASE-TYPE-REF"}) = Text("BASE-TYPE-REF", TypeRef(e))
    <3>1. In(Text("VALUE", e.initValue), {"BASE-TYPE-REF"}) = <<>>
      BY <1>t, SignalShape, TextIn
    <3>2. In(LengthPart(e), {"BASE-TYPE-REF"}) = <<>>
      <4>1. PICK o \in Seq(Values) : o = <<e.bitLength>>
        BY SignalShape
      <4>2. "LENGTH" \notin {"BASE-TYPE-REF"} /\ "LENGTH" \in Tags
        BY <1>t
      <4>3. In(Text("LENGTH", o), {"BASE-TYPE-REF"}) = <<>>
        BY <4>2, TextIn
      <4> QED BY <4>1, <4>3 DEF LengthPart
    <3>3. In(Text("BASE-TYPE-REF", TypeRef(e)), {"BASE-TYPE-REF"}) = Text("BASE-TYPE-REF", TypeRef(e))
      BY <1>t, TypeRefIs, TextIn
    <3> QED BY <3>1, <3>2, <3>3
  <2>4. <<>> \o <<>> = <<>> /\ <<>> \o Text("BASE-TYPE-REF", TypeRef(e)) = Text("BASE-TYPE-REF", TypeRef(e))
    BY SignalShape, JoinNone
  <2> QED BY <2>1, <2>2, <2>3, <2>4
<1>5. buildSignal(n).isSigned = e.isSigned
  <2>1. buildSignal(n).isSigned = (FirstOf(Text("BASE-TYPE-REF", TypeRef(e))) # <<>>
            /\ isSignedBaseType(TextOf(FirstOf(Text("BASE-TYPE-REF", TypeRef(e)))[1])))
    BY <1>4 DEF buildSignal
  <2>2. CASE e.isSigned
    <3>1. PICK x \in Values : x = Signed
      BY ValueIs DEF Signed
    <3>2. PICK m \in Nodes : m = Leaf("BASE-TYPE-REF", x) /\ TextOf(m) = x
      BY <1>t, LeafBuilt
    <3>3. Text("BASE-TYPE-REF", TypeRef(e)) = <<m>>
      BY <1>t, <2>2, <3>1, <3>2, LeafText DEF TypeRef
    <3>4. FirstOf(<<m>>) = <<m>> /\ <<m>> # <<>> /\ <<m>>[1] = m
      BY DEF FirstOf
    <3>5. isSignedBaseType(Signed)
      <4>1. Last(Signed) = "SINT8"
        BY DEF Last, Signed
      <4> QED BY <4>1 DEF isSignedBaseType, shortNameOfRef
    <3> QED BY <2>1, <2>2, <3>1, <3>2, <3>3, <3>4, <3>5
  <2>3. CASE ~e.isSigned
    <3>1. Text("BASE-TYPE-REF", TypeRef(e)) = <<>>
      BY <1>t, <2>3, TextNone DEF TypeRef
    <3>2. FirstOf(<<>>) = <<>>
      BY DEF FirstOf
    <3>3. buildSignal(n).isSigned = FALSE
      BY <2>1, <3>1, <3>2
    <3>4. e.isSigned = FALSE
      BY <2>3 DEF SignalOk
    <3> QED BY <3>3, <3>4
  <2> QED BY <2>2, <2>3 DEF SignalOk
<1>6. findChild(n, "INIT-VALUE") = InitPart(e)
  <2>1. findChild(n, "INIT-VALUE") = FirstOf(OfTag(SignalKids(e), "INIT-VALUE"))
    BY <1>r DEF Reads
  <2>2. Len(InitPart(e)) <= 1
    BY <1>t, SignalShape, NonEmptyBuilt DEF InitPart
  <2>3. FirstOf(InitPart(e)) = InitPart(e)
    BY <2>2, SignalShape, FirstOption
  <2> QED BY <2>1, <2>3, SignalTags
<1>7. ASSUME InitPart(e) # <<>> PROVE Texts(FirstOf(findDescendants(InitPart(e)[1], "VALUE"))) = e.initValue
  <2>1. InitPart(e)[1] = Group("INIT-VALUE", Numerical(e))
    BY <1>7 DEF InitPart, NonEmpty
  <2>2. Tail(Group("INIT-VALUE", Numerical(e))) = FlattenSeq(Numerical(e))
    BY <1>t, SignalShape, GroupBuilt
  <2>3. findDescendants(InitPart(e)[1], "VALUE") = In(Numerical(e), {"VALUE"})
    BY <2>1, <2>2 DEF findDescendants, collectDescendants, In
  <2>4. In(Numerical(e), {"VALUE"}) = In(Text("VALUE", e.initValue), {"VALUE"})
    BY <1>t, SignalShape, NonEmptyBuilt DEF Numerical
  <2>5. In(Text("VALUE", e.initValue), {"VALUE"}) = Text("VALUE", e.initValue)
    BY <1>t, SignalShape, TextIn
  <2>6. Texts(FirstOf(Text("VALUE", e.initValue))) = e.initValue
    BY <1>t, SignalShape, OneText
  <2> QED BY <2>3, <2>4, <2>5, <2>6
<1>8. ASSUME InitPart(e) = <<>> PROVE e.initValue = <<>>
  <2>1. Numerical(e) = <<>>
    BY <1>8 DEF InitPart, NonEmpty
  <2>2. Text("VALUE", e.initValue) = <<>>
    BY <2>1 DEF Numerical, NonEmpty
  <2>3. Len(Text("VALUE", e.initValue)) = Len(e.initValue)
    BY <1>t, SignalShape, TextBuilt
  <2>4. Len(<<>>) = 0
    OBVIOUS
  <2>5. e.initValue \in Seq(Values) /\ Len(e.initValue) = 0
    BY <2>2, <2>3, <2>4, SignalShape
  <2> QED BY <2>5
<1>9. buildSignal(n).initValue = e.initValue
  <2>1. buildSignal(n).initValue = IF e.initValue = <<>> THEN <<>> ELSE parseDouble(e.initValue[1])
    BY <1>6, <1>7, <1>8 DEF buildSignal
  <2>2. e.initValue \in Options(Int \ {Unreadable})
    BY DEF SignalOk
  <2>3. e.initValue = <<>> \/ \E b \in Int \ {Unreadable} : e.initValue = <<b>> /\ e.initValue # <<>> /\ e.initValue[1] = b
    BY <2>2, OptionIs
  <2> QED BY <2>1, <2>3 DEF parseDouble
<1> QED
  BY <1>1, <1>2, <1>3, <1>5, <1>9 DEF buildSignal

\* References into the package of the output, and the names they hold.
SysTexts(names) == [i \in DOMAIN names |-> <<"Sys", names[i]>>]
RefNames(refs) == [i \in DOMAIN refs |-> shortNameOfRef(TextOf(refs[i]))]

LEMMA SysName == ASSUME NEW n \in Clear PROVE <<"Sys", n>> \in Values /\ shortNameOfRef(<<"Sys", n>>) = n
<1>1. <<"Sys", n>> \in Values
  <2>1. \A w \in Words, m \in Int : <<w, m>> \in Values
    BY ValueIs
  <2>2. "Sys" \in Words /\ n \in Int
    BY ClearIs DEF Words
  <2> QED BY <2>1, <2>2
<1>2. Last(<<"Sys", n>>) = n
  BY DEF Last
<1> QED
  BY <1>1, <1>2 DEF shortNameOfRef

LEMMA SysTextsAre ==
    ASSUME NEW names \in Seq(Clear)
    PROVE  /\ SysTexts(names) \in Seq(Values) /\ Len(SysTexts(names)) = Len(names)
           /\ DOMAIN SysTexts(names) = DOMAIN names
           /\ \A k \in 1..Len(names) : SysTexts(names)[k] = <<"Sys", names[k]>>
<1>1. Len(names) \in Nat /\ DOMAIN names = 1..Len(names) /\ \A k \in 1..Len(names) : names[k] \in Clear
  BY SeqIs
<1>2. \A k \in 1..Len(names) : <<"Sys", names[k]>> \in Values
  BY <1>1, SysName
<1>3. SysTexts(names) \in [1..Len(names) -> Values]
  BY <1>1, <1>2 DEF SysTexts
<1>4. SysTexts(names) \in Seq(Values) /\ Len(SysTexts(names)) = Len(names)
  BY <1>1, <1>3, MadeSeq
<1> QED
  BY <1>1, <1>4 DEF SysTexts

LEMMA SysRefs ==
    ASSUME NEW tag \in Tags, NEW names \in Seq(Clear)
    PROVE  /\ [i \in DOMAIN names |-> SysRef(tag, names[i])] = Text(tag, SysTexts(names))
           /\ Text(tag, SysTexts(names)) \in Seq(Nodes)
           /\ RefNames(Text(tag, SysTexts(names))) = names
<1>1. PICK x \in Seq(Values) : x = SysTexts(names)
  BY SysTextsAre
<1>2. Len(x) = Len(names) /\ DOMAIN x = DOMAIN names
  BY <1>1, SysTextsAre
<1>3. \A k \in 1..Len(names) : x[k] = <<"Sys", names[k]>>
  BY <1>1, SysTextsAre
<1>4. Len(names) \in Nat /\ DOMAIN names = 1..Len(names) /\ \A k \in 1..Len(names) : names[k] \in Clear
  BY SeqIs
<1>5. Text(tag, x) = [i \in DOMAIN names |-> Leaf(tag, x[i])]
  BY <1>2 DEF Text
<1>6. \A i \in DOMAIN names : Leaf(tag, x[i]) = SysRef(tag, names[i])
  BY <1>3, <1>4, ClearIs DEF SysRef
<1>7. PICK t \in Seq(Nodes) : t = Text(tag, x)
  BY TextBuilt
<1>8. Len(t) = Len(x) /\ \A k \in 1..Len(x) : t[k] = Leaf(tag, x[k]) /\ x[k] \in Values
  BY <1>7, TextBuilt
<1>9. \A k \in 1..Len(names) : shortNameOfRef(TextOf(t[k])) = names[k]
  <2>1. ASSUME NEW k \in 1..Len(names) PROVE shortNameOfRef(TextOf(t[k])) = names[k]
    <3>1. PICK v \in Values : v = x[k] /\ t[k] = Leaf(tag, v)
      BY <1>2, <1>8
    <3>2. TextOf(Leaf(tag, v)) = v
      BY LeafBuilt
    <3>3. shortNameOfRef(<<"Sys", names[k]>>) = names[k]
      BY <1>4, SysName
    <3> QED BY <1>3, <3>1, <3>2, <3>3
  <2> QED BY <2>1
<1>10. DOMAIN t = 1..Len(names)
  BY <1>2, <1>8, SeqIs
<1>11. RefNames(t) = [i \in 1..Len(names) |-> names[i]]
  BY <1>9, <1>10 DEF RefNames
<1>12. names = [i \in 1..Len(names) |-> names[i]]
  BY <1>4
<1>13. [i \in DOMAIN names |-> SysRef(tag, names[i])] = Text(tag, x)
  BY <1>5, <1>6
<1> QED
  BY <1>1, <1>7, <1>11, <1>12, <1>13

LEMMA NoRefs == ASSUME NEW n, NEW tag, findDescendants(n, tag) = <<>> PROVE refShortNames(n, tag) = <<>>
<1>1. DOMAIN <<>> = {}
  OBVIOUS
<1>2. NonEmptyOf(<<>>) = <<>>
  <2>1. <<>> \in Seq(Proper)
    OBVIOUS
  <2>2. PICK x \in Seq(Proper) : x = <<>>
    BY <2>1
  <2>3. NonEmptyOf(x) = x
    BY NonEmptyAll
  <2> QED BY <2>2, <2>3
<1>3. [i \in DOMAIN <<>> |-> shortNameOfRef(TextOf(<<>>[i]))] = <<>>
  BY <1>1
<1> QED
  BY <1>2, <1>3 DEF refShortNames

GroupOk(e) == e.name \in Clear /\ e.members \in Seq(Proper)

Members(e) == Text("I-SIGNAL-REF", SysTexts(sortedStrings(e.members)))
GroupKids(e) == NonEmpty("I-SIGNAL-REFS", Members(e))

LEMMA GroupShape ==
    ASSUME NEW e, GroupOk(e)
    PROVE  /\ buildSignalGroupElement(e) = Titled("I-SIGNAL-GROUP", e.name, GroupKids(e))
           /\ SysTexts(sortedStrings(e.members)) \in Seq(Values)
           /\ Members(e) \in Seq(Nodes) /\ GroupKids(e) \in Seq(Nodes) /\ e.name \in Values
           /\ RefNames(Members(e)) = sortedStrings(e.members) /\ sortedStrings(e.members) \in Seq(Proper)
<1>1. {"I-SIGNAL-REFS", "I-SIGNAL-REF"} \subseteq Tags
  BY DEF Tags
<1>2. sortedStrings(e.members) \in Seq(Clear) /\ sortedStrings(e.members) \in Seq(Proper)
  BY SortedNames DEF GroupOk
<1>3. SysTexts(sortedStrings(e.members)) \in Seq(Values)
  BY <1>2, SysTextsAre
<1>4. PICK m \in Seq(Clear) : m = sortedStrings(e.members)
  BY <1>2
<1>5. /\ [i \in DOMAIN m |-> SysRef("I-SIGNAL-REF", m[i])] = Text("I-SIGNAL-REF", SysTexts(m))
      /\ Text("I-SIGNAL-REF", SysTexts(m)) \in Seq(Nodes)
      /\ RefNames(Text("I-SIGNAL-REF", SysTexts(m))) = m
  BY <1>1, SysRefs
<1>6. GroupKids(e) \in Seq(Nodes)
  BY <1>1, <1>4, <1>5, NonEmptyBuilt DEF GroupKids, Members
<1>7. e.name \in Values
  BY ValueIs DEF GroupOk
<1>8. buildSignalGroupElement(e) = Titled("I-SIGNAL-GROUP", e.name, GroupKids(e))
  BY <1>4, <1>5, ClearNamed DEF GroupOk, buildSignalGroupElement, GroupKids, Members
<1> QED
  BY <1>2, <1>3, <1>4, <1>5, <1>6, <1>7, <1>8 DEF Members

LEMMA GroupIn ==
    ASSUME NEW e, GroupOk(e), NEW T, "I-SIGNAL-REFS" \notin T
    PROVE  In(GroupKids(e), T) = IF "I-SIGNAL-REF" \in T THEN Members(e) ELSE <<>>
<1>1. {"I-SIGNAL-REFS", "I-SIGNAL-REF"} \subseteq Tags
  BY DEF Tags
<1>2. In(GroupKids(e), T) = In(Members(e), T)
  BY <1>1, GroupShape, NonEmptyBuilt DEF GroupKids
<1>3. In(Members(e), T) = IF "I-SIGNAL-REF" \in T THEN Members(e) ELSE <<>>
  BY <1>1, GroupShape, TextIn DEF Members
<1> QED
  BY <1>2, <1>3

LEMMA GroupOuter == ASSUME NEW e, GroupOk(e), NEW T, Outer(T) PROVE In(GroupKids(e), T) = <<>>
<1>1. "I-SIGNAL-REFS" \notin T /\ "I-SIGNAL-REF" \notin T
  BY DEF Outer, Contents
<1> QED
  BY <1>1, GroupIn

\* A group reads back with its members sorted.
LEMMA GroupBack ==
    ASSUME NEW e, GroupOk(e)
    PROVE  /\ buildSignalGroup(buildSignalGroupElement(e)).name = e.name
           /\ buildSignalGroup(buildSignalGroupElement(e)).members = sortedStrings(e.members)
<1>1. PICK n : n = Titled("I-SIGNAL-GROUP", e.name, GroupKids(e)) /\ n = buildSignalGroupElement(e)
  BY GroupShape
<1>t. "I-SIGNAL-GROUP" \in Tags
  BY DEF Tags
<1>k. GroupKids(e) \in Seq(Nodes) /\ e.name \in Values
  BY GroupShape
<1>r. Reads(n, "I-SIGNAL-GROUP", e.name, GroupKids(e))
  BY <1>1, <1>t, <1>k, NamedReads
<1>2. extractShortName(n) = e.name
  BY <1>r DEF Reads
<1>3. findDescendants(n, "I-SIGNAL-REF") = In(GroupKids(e), {"I-SIGNAL-REF"})
      /\ findDescendants(n, "SYSTEM-SIGNAL-REF") = In(GroupKids(e), {"SYSTEM-SIGNAL-REF"})
  BY <1>r DEF Reads
<1>4. findDescendants(n, "I-SIGNAL-REF") = Members(e) /\ findDescendants(n, "SYSTEM-SIGNAL-REF") = <<>>
  BY <1>3, GroupIn
<1>5. refShortNames(n, "SYSTEM-SIGNAL-REF") = <<>>
  BY <1>4, NoRefs
<1>6. refShortNames(n, "I-SIGNAL-REF") = sortedStrings(e.members)
  <2>1. refShortNames(n, "I-SIGNAL-REF") = NonEmptyOf(RefNames(Members(e)))
    BY <1>4 DEF refShortNames, RefNames
  <2>2. NonEmptyOf(sortedStrings(e.members)) = sortedStrings(e.members)
    BY GroupShape, NonEmptyAll
  <2> QED BY <2>1, <2>2, GroupShape
<1>7. sortedStrings(e.members) \o <<>> = sortedStrings(e.members)
  BY GroupShape, JoinNone
<1> QED
  BY <1>1, <1>2, <1>5, <1>6, <1>7 DEF buildSignalGroup

--------------------------------------------------------------------------------
(* Mappings *)

Uints == 0..MaxUint32
MapTags == {"PDU-TO-FRAME-MAPPING", "I-SIGNAL-TO-I-PDU-MAPPING"}
RefTags == {"PDU-REF", "I-SIGNAL-REF"}

RefText(m) == IF m.ref = NoName THEN <<>> ELSE <<<<"Sys", m.ref>>>>
MapKids(m, refTag) == Text(refTag, RefText(m)) \o Text("START-POSITION", <<m.start>>)
MapOk(m) == m.ref \in Clear /\ m.start \in Uints

LEMMA MapName ==
    ASSUME NEW owner \in Clear, NEW ref \in Clear, NEW idx \in Int PROVE MappingName(owner, ref, idx) \in Values
<1>1. \A w \in Words, m \in Int, n \in Int : <<m, w, n>> \in Values
  BY ValueIs
<1>2. "mapping" \in Words /\ "target" \in Words /\ owner \in Int /\ ref \in Int
  BY ClearIs DEF Words
<1>3. <<owner, "mapping", idx>> \in Values /\ <<owner, "target", ref>> \in Values
  BY <1>1, <1>2
<1> QED
  BY <1>3, ClearIs DEF MappingName

LEMMA RefTextIs == ASSUME NEW m, MapOk(m) PROVE RefText(m) \in Seq(Values) /\ Len(RefText(m)) <= 1
<1>1. CASE m.ref = NoName
  <2>1. <<>> \in Seq(Values) /\ Len(<<>>) = 0
    OBVIOUS
  <2> QED BY <1>1, <2>1 DEF RefText
<1>2. CASE m.ref # NoName
  <2>1. PICK v \in Values : v = <<"Sys", m.ref>>
    BY SysName DEF MapOk
  <2>2. PICK o \in Seq(Values) : o = <<v>> /\ Len(o) = 1
    BY OneIs
  <2> QED BY <1>2, <2>1, <2>2 DEF RefText
<1> QED
  BY <1>1, <1>2

LEMMA MapShape ==
    ASSUME NEW owner \in Clear, NEW m, MapOk(m), NEW idx \in Int, NEW tag \in MapTags, NEW refTag \in RefTags
    PROVE  /\ MappingElement(owner, m, idx, tag, refTag) = Titled(tag, MappingName(owner, m.ref, idx), MapKids(m, refTag))
           /\ Text(refTag, RefText(m)) \in Seq(Nodes) /\ Text("START-POSITION", <<m.start>>) \in Seq(Nodes)
           /\ <<m.start>> \in Seq(Values) /\ Len(<<m.start>>) = 1
           /\ MapKids(m, refTag) \in Seq(Nodes) /\ MappingName(owner, m.ref, idx) \in Values /\ refTag \in Tags /\ tag \in Tags
<1>1. refTag \in Tags /\ tag \in Tags /\ "START-POSITION" \in Tags
  BY DEF Tags, RefTags, MapTags
<1>2. m.start \in Values
  <2>1. Int \subseteq Values
    BY ValueIs
  <2>2. m.start \in Int
    BY UintAssumption DEF MapOk, Uints
  <2> QED BY <2>1, <2>2
<1>3. <<m.start>> \in Seq(Values) /\ Len(<<m.start>>) = 1
  BY <1>2, OneIs
<1>4. Text("START-POSITION", <<m.start>>) = <<Leaf("START-POSITION", m.start)>>
  BY <1>1, <1>2, LeafText
<1>5. Text(refTag, RefText(m)) \in Seq(Nodes) /\ Text("START-POSITION", <<m.start>>) \in Seq(Nodes)
  BY <1>1, <1>3, RefTextIs, TextBuilt
<1>6. MapKids(m, refTag) \in Seq(Nodes)
  BY <1>5, JoinIs DEF MapKids
<1>7. Text(refTag, RefText(m)) = IF m.ref = NoName THEN <<>> ELSE <<SysRef(refTag, m.ref)>>
  <2>1. CASE m.ref = NoName
    BY <1>1, <2>1, TextNone DEF RefText
  <2>2. CASE m.ref # NoName
    <3>1. PICK v \in Values : v = <<"Sys", m.ref>>
      BY SysName DEF MapOk
    <3>2. Text(refTag, <<v>>) = <<Leaf(refTag, v)>>
      BY <1>1, LeafText
    <3>3. SetContent(m.ref) = m.ref
      BY ClearIs DEF MapOk
    <3> QED BY <2>2, <3>1, <3>2, <3>3 DEF RefText, SysRef
  <2> QED BY <2>1, <2>2
<1>8. MappingElement(owner, m, idx, tag, refTag) = Titled(tag, MappingName(owner, m.ref, idx), MapKids(m, refTag))
  BY <1>4, <1>7 DEF MappingElement, MapKids
<1>9. MappingName(owner, m.ref, idx) \in Values
  BY MapName DEF MapOk
<1> QED
  BY <1>1, <1>3, <1>5, <1>6, <1>8, <1>9

LEMMA MapTagged ==
    ASSUME NEW m, MapOk(m), NEW refTag \in RefTags, NEW tg
    PROVE  OfTag(MapKids(m, refTag), tg)
           = (IF tg = refTag THEN Text(refTag, RefText(m)) ELSE <<>>)
              \o (IF tg = "START-POSITION" THEN Text("START-POSITION", <<m.start>>) ELSE <<>>)
<1>0. 0 \in Clear /\ 0 \in Int /\ "PDU-TO-FRAME-MAPPING" \in MapTags
  BY ClearIs DEF MapTags
<1>1. refTag \in Tags /\ "START-POSITION" \in Tags
  BY DEF Tags, RefTags
<1>2. <<m.start>> \in Seq(Values) /\ Text(refTag, RefText(m)) \in Seq(Nodes) /\ Text("START-POSITION", <<m.start>>) \in Seq(Nodes)
  BY <1>0, MapShape
<1>3. OfTag(Text(refTag, RefText(m)), tg) = IF tg = refTag THEN Text(refTag, RefText(m)) ELSE <<>>
  BY <1>1, RefTextIs, TextOfTag
<1>4. OfTag(Text("START-POSITION", <<m.start>>), tg) = IF tg = "START-POSITION" THEN Text("START-POSITION", <<m.start>>) ELSE <<>>
  BY <1>1, <1>2, TextOfTag
<1>5. PICK a \in Seq(Nodes) : a = Text(refTag, RefText(m))
  BY <1>2
<1>6. PICK b \in Seq(Nodes) : b = Text("START-POSITION", <<m.start>>)
  BY <1>2
<1>7. OfTag(a \o b, tg) = OfTag(a, tg) \o OfTag(b, tg)
  BY OfTagJoin
<1> QED
  BY <1>3, <1>4, <1>5, <1>6, <1>7 DEF MapKids

\* What the parser reads in a mapping.
LEMMA MapReads ==
    ASSUME NEW owner \in Clear, NEW m, MapOk(m), NEW idx \in Int, NEW tag \in MapTags, NEW refTag \in RefTags,
           NEW n, n = MappingElement(owner, m, idx, tag, refTag)
    PROVE  /\ n \in Nodes /\ TagOf(n) = tag /\ childText(n, "SHORT-NAME") = <<MappingName(owner, m.ref, idx)>>
           /\ childText(n, refTag) = RefText(m)
           /\ childUint32(n, "START-POSITION", 0) = m.start
           /\ \A tg : tg \notin {"SHORT-NAME", "START-POSITION", refTag} => childText(n, tg) = <<>>
<1>s. PICK ch \in Seq(Nodes) : ch = MapKids(m, refTag)
  BY MapShape
<1>x. PICK x \in Values : x = MappingName(owner, m.ref, idx)
  BY MapShape
<1>t. refTag \in Tags /\ tag \in Tags /\ "START-POSITION" \in Tags /\ refTag # "SHORT-NAME" /\ refTag # "START-POSITION"
  BY DEF Tags, RefTags, MapTags
<1>1. n = Titled(tag, x, ch)
  BY <1>s, <1>x, MapShape
<1>r. Reads(n, tag, x, ch)
  BY <1>1, <1>t, NamedReads
<1>2. ASSUME NEW tg, tg # "SHORT-NAME" PROVE childText(n, tg) = Texts(FirstOf(OfTag(MapKids(m, refTag), tg)))
  BY <1>2, <1>r, <1>s DEF Reads
<1>a. PICK a \in Seq(Nodes) : a = Text(refTag, RefText(m))
  BY MapShape
<1>b. PICK b \in Seq(Nodes) : b = Text("START-POSITION", <<m.start>>)
  BY MapShape
<1>n. a \o <<>> = a /\ <<>> \o b = b /\ <<>> \o <<>> = <<>>
  BY JoinNone
<1>3. OfTag(MapKids(m, refTag), refTag) = a
  <2>1. OfTag(MapKids(m, refTag), refTag) = a \o <<>>
    BY <1>t, <1>a, MapTagged
  <2> QED BY <2>1, <1>n
<1>4. OfTag(MapKids(m, refTag), "START-POSITION") = b
  <2>1. OfTag(MapKids(m, refTag), "START-POSITION") = <<>> \o b
    BY <1>t, <1>b, MapTagged
  <2> QED BY <2>1, <1>n
<1>5. ASSUME NEW tg, tg \notin {"SHORT-NAME", "START-POSITION", refTag} PROVE childText(n, tg) = <<>>
  <2>1. OfTag(MapKids(m, refTag), tg) = <<>> \o <<>>
    BY <1>5, MapTagged
  <2>2. OfTag(MapKids(m, refTag), tg) = <<>>
    BY <2>1, <1>n
  <2>3. childText(n, tg) = Texts(FirstOf(<<>>))
    BY <1>2, <1>5, <2>2
  <2> QED BY <2>3, TextsNone DEF FirstOf
<1>6. childText(n, refTag) = RefText(m)
  <2>1. childText(n, refTag) = Texts(FirstOf(a))
    BY <1>2, <1>3, <1>t
  <2>2. Texts(FirstOf(Text(refTag, RefText(m)))) = RefText(m)
    BY <1>t, RefTextIs, OneText
  <2> QED BY <2>1, <2>2, <1>a
<1>7. childUint32(n, "START-POSITION", 0) = m.start
  <2>1. childText(n, "START-POSITION") = Texts(FirstOf(b))
    BY <1>2, <1>4
  <2>2. PICK o \in Seq(Values) : o = <<m.start>> /\ Len(o) = 1
    BY MapShape
  <2>3. Len(o) <= 1
    BY <2>2
  <2>4. Texts(FirstOf(Text("START-POSITION", o))) = o
    BY <1>t, <2>3, OneText
  <2>5. childText(n, "START-POSITION") = <<m.start>>
    BY <2>1, <2>2, <2>4, <1>b
  <2>6. PICK v \in 0..MaxUint32 : v = m.start
    BY DEF MapOk, Uints
  <2>7. childText(n, "START-POSITION") = <<v>>
    BY <2>5, <2>6
  <2>8. childUint32(n, "START-POSITION", 0) = v
    BY <2>7, UintRead
  <2> QED BY <2>6, <2>8
<1> QED
  BY <1>r, <1>x, <1>5, <1>6, <1>7 DEF Reads

LEMMA RefRead == ASSUME NEW m, MapOk(m) PROVE shortNameOfRef(Value(RefText(m), <<NoName>>)) = m.ref
<1>1. CASE m.ref = NoName
  <2>1. Value(RefText(m), <<NoName>>) = <<NoName>>
    BY <1>1 DEF RefText, Value
  <2>2. Last(<<NoName>>) = NoName
    BY DEF Last
  <2> QED BY <1>1, <2>1, <2>2 DEF shortNameOfRef
<1>2. CASE m.ref # NoName
  <2>1. Value(RefText(m), <<NoName>>) = <<"Sys", m.ref>>
    BY <1>2 DEF RefText, Value
  <2> QED BY <2>1, SysName DEF MapOk
<1> QED
  BY <1>1, <1>2

LEMMA MapIn ==
    ASSUME NEW owner \in Clear, NEW m, MapOk(m), NEW idx \in Int, NEW tag \in MapTags, NEW refTag \in RefTags,
           NEW T, {"SHORT-NAME", "START-POSITION", refTag} \cap T = {}
    PROVE  In(<<MappingElement(owner, m, idx, tag, refTag)>>, T)
           = IF tag \in T THEN <<MappingElement(owner, m, idx, tag, refTag)>> ELSE <<>>
<1>s. PICK ch \in Seq(Nodes) : ch = MapKids(m, refTag)
  BY MapShape
<1>x. PICK x \in Values : x = MappingName(owner, m.ref, idx)
  BY MapShape
<1>t. refTag \in Tags /\ tag \in Tags /\ "START-POSITION" \in Tags
  BY DEF Tags, RefTags, MapTags
<1>1. MappingElement(owner, m, idx, tag, refTag) = Titled(tag, x, ch)
  BY <1>s, <1>x, MapShape, ZenonT(40)
<1>2. In(<<Titled(tag, x, ch)>>, T) = IF tag \in T THEN <<Titled(tag, x, ch)>> \o In(ch, T) ELSE In(ch, T)
  BY <1>t, NamedBuilt
<1>a. PICK a \in Seq(Nodes) : a = Text(refTag, RefText(m))
  BY MapShape
<1>b. PICK b \in Seq(Nodes) : b = Text("START-POSITION", <<m.start>>)
  BY MapShape
<1>3. In(a, T) = <<>>
  BY <1>a, <1>t, RefTextIs, TextIn
<1>4. In(b, T) = <<>>
  <2>1. PICK o \in Seq(Values) : o = <<m.start>>
    BY MapShape
  <2>2. In(Text("START-POSITION", o), T) = <<>>
    BY <1>t, TextIn
  <2> QED BY <2>1, <2>2, <1>b
<1>5. In(a \o b, T) = In(a, T) \o In(b, T)
  BY InJoin
<1>6. <<>> \o <<>> = <<>>
  OBVIOUS
<1>7. In(ch, T) = <<>>
  BY <1>s, <1>a, <1>b, <1>3, <1>4, <1>5, <1>6 DEF MapKids
<1>8. PICK n \in Nodes : n = Titled(tag, x, ch)
  BY <1>t, NamedBuilt
<1>9. <<n>> \o <<>> = <<n>>
  OBVIOUS
<1> QED
  BY <1>1, <1>2, <1>7, <1>8, <1>9

LEMMA RefsAre ==
    ASSUME NEW M, NEW s \in Seq(M), \A m \in M : MapOk(m)
    PROVE  /\ RefsOf(s) \in Seq(Clear) /\ RefsOf(s) \in Seq(Int) /\ Len(RefsOf(s)) = Len(s)
           /\ \A k \in 1..Len(s) : RefsOf(s)[k] = s[k].ref
<1>1. Len(s) \in Nat /\ DOMAIN s = 1..Len(s) /\ \A k \in 1..Len(s) : s[k] \in M
  BY SeqIs
<1>2. \A k \in 1..Len(s) : s[k].ref \in Clear
  BY <1>1 DEF MapOk
<1>3. RefsOf(s) \in [1..Len(s) -> Clear]
  BY <1>1, <1>2 DEF RefsOf
<1>4. RefsOf(s) \in Seq(Clear) /\ Len(RefsOf(s)) = Len(s)
  BY <1>1, <1>3, MadeSeq
<1>5. Seq(Clear) \subseteq Seq(Int)
  BY ClearIs
<1> QED
  BY <1>1, <1>4, <1>5 DEF RefsOf

LEMMA SortedMaps ==
    ASSUME NEW M, NEW s \in Seq(M), \A m \in M : MapOk(m)
    PROVE  /\ sortedMappings(s) \in Seq(M) /\ Len(sortedMappings(s)) = Len(s)
           /\ BagOf(sortedMappings(s)) = BagOf(s)
<1>1. RefsOf(s) \in Seq(Int) /\ Len(RefsOf(s)) = Len(s)
  BY RefsAre
<1> QED
  BY <1>1, SortedIs, BagSorted DEF sortedMappings

LEMMA MapsBuilt ==
    ASSUME NEW M, NEW s \in Seq(M), \A m \in M : MapOk(m), NEW owner \in Clear, NEW tag \in MapTags, NEW refTag \in RefTags
    PROVE  /\ MappingElements(owner, s, tag, refTag) \in Seq(Nodes) /\ Len(MappingElements(owner, s, tag, refTag)) = Len(s)
           /\ \A k \in 1..Len(s) :
                /\ MappingElements(owner, s, tag, refTag)[k] = MappingElement(owner, sortedMappings(s)[k], k - 1, tag, refTag)
                /\ MapOk(sortedMappings(s)[k])
<1>1. PICK t \in Seq(M) : t = sortedMappings(s) /\ Len(t) = Len(s)
  BY SortedMaps
<1>2. Len(s) \in Nat /\ DOMAIN t = 1..Len(s) /\ \A k \in 1..Len(s) : t[k] \in M
  BY <1>1, SeqIs
<1>3. \A k \in 1..Len(s) : MapOk(t[k])
  BY <1>2
<1>4. ASSUME NEW k \in 1..Len(s) PROVE MappingElement(owner, t[k], k - 1, tag, refTag) \in Nodes
  <2>1. PICK n : n = MappingElement(owner, t[k], k - 1, tag, refTag)
    OBVIOUS
  <2>2. k - 1 \in Int /\ MapOk(t[k])
    BY <1>2, <1>3
  <2>3. n \in Nodes
    BY <2>1, <2>2, MapReads
  <2> QED BY <2>1, <2>3
<1>5. MappingElements(owner, s, tag, refTag) = [k \in 1..Len(s) |-> MappingElement(owner, t[k], k - 1, tag, refTag)]
  BY <1>1, <1>2 DEF MappingElements
<1>6. MappingElements(owner, s, tag, refTag) \in [1..Len(s) -> Nodes]
  BY <1>4, <1>5
<1>7. MappingElements(owner, s, tag, refTag) \in Seq(Nodes) /\ Len(MappingElements(owner, s, tag, refTag)) = Len(s)
  BY <1>2, <1>6, MadeSeq
<1> QED
  BY <1>1, <1>3, <1>5, <1>7

LEMMA MapsIn ==
    ASSUME NEW M, NEW s \in Seq(M), \A m \in M : MapOk(m), NEW owner \in Clear, NEW tag \in MapTags, NEW refTag \in RefTags,
           NEW T, {"SHORT-NAME", "START-POSITION", refTag} \cap T = {}
    PROVE  In(MappingElements(owner, s, tag, refTag), T) = IF tag \in T THEN MappingElements(owner, s, tag, refTag) ELSE <<>>
<1>1. PICK t \in Seq(Nodes) : t = MappingElements(owner, s, tag, refTag) /\ Len(t) = Len(s)
  BY MapsBuilt
<1>2. \A k \in 1..Len(s) : t[k] = MappingElement(owner, sortedMappings(s)[k], k - 1, tag, refTag) /\ MapOk(sortedMappings(s)[k])
  BY <1>1, MapsBuilt
<1>3. Len(s) \in Nat
  BY SeqIs
<1>4. ASSUME NEW k \in 1..Len(s) PROVE In(<<t[k]>>, T) = IF tag \in T THEN <<t[k]>> ELSE <<>>
  <2>1. PICK m : m = sortedMappings(s)[k] /\ MapOk(m)
    BY <1>2
  <2>2. PICK i \in Int : i = k - 1
    BY <1>3
  <2>3. t[k] = MappingElement(owner, m, i, tag, refTag)
    BY <1>2, <2>1, <2>2
  <2>4. In(<<MappingElement(owner, m, i, tag, refTag)>>, T) = IF tag \in T THEN <<MappingElement(owner, m, i, tag, refTag)>> ELSE <<>>
    BY <2>1, MapIn
  <2> QED BY <2>3, <2>4
<1>5. CASE tag \in T
  BY <1>1, <1>4, <1>5, InMap
<1>6. CASE tag \notin T
  BY <1>1, <1>4, <1>6, InEmpty
<1> QED
  BY <1>5, <1>6

--------------------------------------------------------------------------------
(* Frames and PDUs *)

FrameMaps == [ref : Clear, start : Uints]
PduMaps == [ref : Clear, start : Uints, byteOrder : {"least", "most"}]

LEMMA MapsOk == (\A m \in FrameMaps : MapOk(m)) /\ (\A m \in PduMaps : MapOk(m))
BY DEF FrameMaps, PduMaps, MapOk

FrameOk(e) == e.name \in Clear /\ e.length \in Uints /\ e.pdus \in Seq(FrameMaps)
PduOk(e) == e.name \in Clear /\ e.length \in Uints /\ e.signalMappings \in Seq(PduMaps)

\* The part both have: a length, and mappings in a group.
LongKids(lengthTag, length, groupTag, maps) == Text(lengthTag, <<length>>) \o NonEmpty(groupTag, maps)
FramePdus(e) == MappingElements(e.name, e.pdus, "PDU-TO-FRAME-MAPPING", "PDU-REF")
PduSignals(e) == MappingElements(e.name, e.signalMappings, "I-SIGNAL-TO-I-PDU-MAPPING", "I-SIGNAL-REF")
FrameKids(e) == LongKids("FRAME-LENGTH", e.length, "PDU-TO-FRAME-MAPPINGS", FramePdus(e))
PduKids(e) == LongKids("LENGTH", e.length, "I-SIGNAL-TO-PDU-MAPPINGS", PduSignals(e))

LEMMA LongShape ==
    ASSUME NEW lengthTag \in Tags, NEW groupTag \in Tags, NEW length \in Uints, NEW maps \in Seq(Nodes)
    PROVE  /\ LongKids(lengthTag, length, groupTag, maps) = <<Leaf(lengthTag, length)>> \o NonEmpty(groupTag, maps)
           /\ length \in Values /\ <<length>> \in Seq(Values) /\ Len(<<length>>) = 1
           /\ Text(lengthTag, <<length>>) \in Seq(Nodes) /\ NonEmpty(groupTag, maps) \in Seq(Nodes)
           /\ LongKids(lengthTag, length, groupTag, maps) \in Seq(Nodes)
<1>1. length \in Values
  <2>1. Int \subseteq Values
    BY ValueIs
  <2>2. length \in Int
    BY UintAssumption DEF Uints
  <2> QED BY <2>1, <2>2
<1>2. <<length>> \in Seq(Values) /\ Len(<<length>>) = 1
  BY <1>1, OneIs
<1>3. Text(lengthTag, <<length>>) = <<Leaf(lengthTag, length)>>
  BY <1>1, LeafText
<1>4. Text(lengthTag, <<length>>) \in Seq(Nodes)
  BY <1>2, TextBuilt
<1>5. NonEmpty(groupTag, maps) \in Seq(Nodes)
  BY NonEmptyBuilt
<1>6. LongKids(lengthTag, length, groupTag, maps) \in Seq(Nodes)
  BY <1>4, <1>5, JoinIs DEF LongKids
<1> QED
  BY <1>1, <1>2, <1>3, <1>4, <1>5, <1>6 DEF LongKids

LEMMA LongIn ==
    ASSUME NEW lengthTag \in Tags, NEW groupTag \in Tags, NEW length \in Uints, NEW maps \in Seq(Nodes),
           NEW T, lengthTag \notin T, groupTag \notin T
    PROVE  In(LongKids(lengthTag, length, groupTag, maps), T) = In(maps, T)
<1>1. PICK o \in Seq(Values) : o = <<length>>
  BY LongShape
<1>2. PICK a \in Seq(Nodes) : a = Text(lengthTag, o)
  BY <1>1, LongShape
<1>3. PICK b \in Seq(Nodes) : b = NonEmpty(groupTag, maps)
  BY LongShape
<1>4. In(a, T) = <<>>
  BY <1>2, TextIn
<1>5. In(b, T) = In(maps, T)
  BY <1>3, NonEmptyBuilt
<1>6. In(a \o b, T) = In(a, T) \o In(b, T)
  BY InJoin
<1>7. PICK r \in Seq(Nodes) : r = In(maps, T)
  BY InTyped
<1>8. <<>> \o r = r
  BY JoinNone
<1> QED
  BY <1>1, <1>2, <1>3, <1>4, <1>5, <1>6, <1>7, <1>8 DEF LongKids

LEMMA LongTagged ==
    ASSUME NEW lengthTag \in Tags, NEW groupTag \in Tags, NEW length \in Uints, NEW maps \in Seq(Nodes), NEW tg, tg # groupTag
    PROVE  Texts(FirstOf(OfTag(LongKids(lengthTag, length, groupTag, maps), tg))) = IF tg = lengthTag THEN <<length>> ELSE <<>>
<1>1. PICK o \in Seq(Values) : o = <<length>> /\ Len(o) = 1
  BY LongShape
<1>2. PICK a \in Seq(Nodes) : a = Text(lengthTag, o)
  BY <1>1, LongShape
<1>3. PICK b \in Seq(Nodes) : b = NonEmpty(groupTag, maps)
  BY LongShape
<1>4. OfTag(a, tg) = IF tg = lengthTag THEN a ELSE <<>>
  BY <1>2, TextOfTag
<1>5. OfTag(b, tg) = <<>>
  <2>1. \A t : OfTag(b, t) = IF t = groupTag THEN b ELSE <<>>
    BY <1>3, NonEmptyBuilt
  <2> QED BY <2>1
<1>6. OfTag(a \o b, tg) = OfTag(a, tg) \o OfTag(b, tg)
  BY OfTagJoin
<1>7. <<>> \o <<>> = <<>> /\ a \o <<>> = a
  BY JoinNone
<1>8. Len(o) <= 1
  BY <1>1
<1>9. Texts(FirstOf(a)) = o
  BY <1>2, <1>8, OneText
<1>10. Texts(FirstOf(<<>>)) = <<>>
  BY TextsNone DEF FirstOf
<1>11. LongKids(lengthTag, length, groupTag, maps) = a \o b
  BY <1>1, <1>2, <1>3 DEF LongKids
<1>12. CASE tg = lengthTag
  BY <1>1, <1>4, <1>5, <1>6, <1>7, <1>9, <1>11, <1>12
<1>13. CASE tg # lengthTag
  BY <1>4, <1>5, <1>6, <1>7, <1>10, <1>11, <1>13
<1> QED
  BY <1>12, <1>13

LEMMA FrameShape ==
    ASSUME NEW e, FrameOk(e)
    PROVE  /\ buildFrameElement(e) = Titled("CAN-FRAME", e.name, FrameKids(e))
           /\ FramePdus(e) \in Seq(Nodes) /\ FrameKids(e) \in Seq(Nodes) /\ e.name \in Values
<1>1. {"FRAME-LENGTH", "PDU-TO-FRAME-MAPPINGS"} \subseteq Tags /\ "PDU-TO-FRAME-MAPPING" \in MapTags /\ "PDU-REF" \in RefTags
  BY DEF Tags, MapTags, RefTags
<1>2. FramePdus(e) \in Seq(Nodes)
  BY <1>1, MapsOk, MapsBuilt DEF FrameOk, FramePdus
<1>3. e.length \in Uints
  BY DEF FrameOk
<1>4. FrameKids(e) \in Seq(Nodes) /\ FrameKids(e) = <<Leaf("FRAME-LENGTH", e.length)>> \o NonEmpty("PDU-TO-FRAME-MAPPINGS", FramePdus(e))
  BY <1>1, <1>2, <1>3, LongShape DEF FrameKids
<1>5. e.name \in Values
  BY ValueIs DEF FrameOk
<1>6. \A ch : Named("CAN-FRAME", e.name, ch) = Titled("CAN-FRAME", e.name, ch)
  BY ClearNamed DEF FrameOk
<1> QED
  BY <1>2, <1>4, <1>5, <1>6 DEF buildFrameElement, FramePdus

LEMMA PduShape ==
    ASSUME NEW e, PduOk(e)
    PROVE  /\ buildPduElement(e) = Titled("I-SIGNAL-I-PDU", e.name, PduKids(e))
           /\ PduSignals(e) \in Seq(Nodes) /\ PduKids(e) \in Seq(Nodes) /\ e.name \in Values
<1>1. {"LENGTH", "I-SIGNAL-TO-PDU-MAPPINGS"} \subseteq Tags /\ "I-SIGNAL-TO-I-PDU-MAPPING" \in MapTags /\ "I-SIGNAL-REF" \in RefTags
  BY DEF Tags, MapTags, RefTags
<1>2. PduSignals(e) \in Seq(Nodes)
  BY <1>1, MapsOk, MapsBuilt DEF PduOk, PduSignals
<1>3. e.length \in Uints
  BY DEF PduOk
<1>4. PduKids(e) \in Seq(Nodes) /\ PduKids(e) = <<Leaf("LENGTH", e.length)>> \o NonEmpty("I-SIGNAL-TO-PDU-MAPPINGS", PduSignals(e))
  BY <1>1, <1>2, <1>3, LongShape DEF PduKids
<1>5. e.name \in Values
  BY ValueIs DEF PduOk
<1>6. \A ch : Named("I-SIGNAL-I-PDU", e.name, ch) = Titled("I-SIGNAL-I-PDU", e.name, ch)
  BY ClearNamed DEF PduOk
<1> QED
  BY <1>2, <1>4, <1>5, <1>6 DEF buildPduElement, PduSignals

LEMMA FrameIn ==
    ASSUME NEW e, FrameOk(e), NEW T, {"SHORT-NAME", "FRAME-LENGTH", "PDU-TO-FRAME-MAPPINGS", "START-POSITION", "PDU-REF"} \cap T = {}
    PROVE  In(FrameKids(e), T) = IF "PDU-TO-FRAME-MAPPING" \in T THEN FramePdus(e) ELSE <<>>
<1>1. {"FRAME-LENGTH", "PDU-TO-FRAME-MAPPINGS"} \subseteq Tags /\ "PDU-TO-FRAME-MAPPING" \in MapTags /\ "PDU-REF" \in RefTags
  BY DEF Tags, MapTags, RefTags
<1>2. e.length \in Uints
  BY DEF FrameOk
<1>3. In(FrameKids(e), T) = In(FramePdus(e), T)
  BY <1>1, <1>2, FrameShape, LongIn DEF FrameKids
<1>4. {"SHORT-NAME", "START-POSITION", "PDU-REF"} \cap T = {}
  OBVIOUS
<1>5. In(FramePdus(e), T) = IF "PDU-TO-FRAME-MAPPING" \in T THEN FramePdus(e) ELSE <<>>
  BY <1>1, <1>4, MapsOk, MapsIn DEF FrameOk, FramePdus
<1> QED
  BY <1>3, <1>5

LEMMA PduIn ==
    ASSUME NEW e, PduOk(e), NEW T, {"SHORT-NAME", "LENGTH", "I-SIGNAL-TO-PDU-MAPPINGS", "START-POSITION", "I-SIGNAL-REF"} \cap T = {}
    PROVE  In(PduKids(e), T) = IF "I-SIGNAL-TO-I-PDU-MAPPING" \in T THEN PduSignals(e) ELSE <<>>
<1>1. {"LENGTH", "I-SIGNAL-TO-PDU-MAPPINGS"} \subseteq Tags /\ "I-SIGNAL-TO-I-PDU-MAPPING" \in MapTags /\ "I-SIGNAL-REF" \in RefTags
  BY DEF Tags, MapTags, RefTags
<1>2. e.length \in Uints
  BY DEF PduOk
<1>3. In(PduKids(e), T) = In(PduSignals(e), T)
  BY <1>1, <1>2, PduShape, LongIn DEF PduKids
<1>4. {"SHORT-NAME", "START-POSITION", "I-SIGNAL-REF"} \cap T = {}
  OBVIOUS
<1>5. In(PduSignals(e), T) = IF "I-SIGNAL-TO-I-PDU-MAPPING" \in T THEN PduSignals(e) ELSE <<>>
  BY <1>1, <1>4, MapsOk, MapsIn DEF PduOk, PduSignals
<1> QED
  BY <1>3, <1>5

LEMMA FrameOuter == ASSUME NEW e, FrameOk(e), NEW T, Outer(T) PROVE In(FrameKids(e), T) = <<>>
<1>1. {"SHORT-NAME", "FRAME-LENGTH", "PDU-TO-FRAME-MAPPINGS", "START-POSITION", "PDU-REF"} \cap T = {} /\ "PDU-TO-FRAME-MAPPING" \notin T
  BY DEF Outer, Contents
<1> QED
  BY <1>1, FrameIn

LEMMA PduOuter == ASSUME NEW e, PduOk(e), NEW T, Outer(T) PROVE In(PduKids(e), T) = <<>>
<1>1. {"SHORT-NAME", "LENGTH", "I-SIGNAL-TO-PDU-MAPPINGS", "START-POSITION", "I-SIGNAL-REF"} \cap T = {} /\ "I-SIGNAL-TO-I-PDU-MAPPING" \notin T
  BY DEF Outer, Contents
<1> QED
  BY <1>1, PduIn

\* The mappings as they read back.
PduMapped(nodes) == [i \in DOMAIN nodes |-> FramePduMapping(nodes[i])]
SignalMapped(nodes) == [i \in DOMAIN nodes |-> PduSignalMapping(nodes[i])]
\* A signal mapping without its byte order.
Ordered(maps) == [i \in DOMAIN maps |-> [ref |-> maps[i].ref, start |-> maps[i].start, byteOrder |-> "most"]]

LEMMA OrderedIs ==
    ASSUME NEW s \in Seq(PduMaps)
    PROVE  /\ Ordered(s) \in Seq(PduMaps) /\ Len(Ordered(s)) = Len(s)
           /\ \A k \in 1..Len(s) : Ordered(s)[k] = [ref |-> s[k].ref, start |-> s[k].start, byteOrder |-> "most"]
<1>1. Len(s) \in Nat /\ DOMAIN s = 1..Len(s) /\ \A k \in 1..Len(s) : s[k] \in PduMaps
  BY SeqIs
<1>2. \A k \in 1..Len(s) : [ref |-> s[k].ref, start |-> s[k].start, byteOrder |-> "most"] \in PduMaps
  BY <1>1 DEF PduMaps
<1>3. Ordered(s) \in [1..Len(s) -> PduMaps]
  BY <1>1, <1>2 DEF Ordered
<1>4. Ordered(s) \in Seq(PduMaps) /\ Len(Ordered(s)) = Len(s)
  BY <1>1, <1>3, MadeSeq
<1> QED
  BY <1>1, <1>4 DEF Ordered

LEMMA FramePdusBack ==
    ASSUME NEW e, FrameOk(e) PROVE PduMapped(FramePdus(e)) = sortedMappings(e.pdus)
<1>0. "PDU-TO-FRAME-MAPPING" \in MapTags /\ "PDU-REF" \in RefTags /\ e.pdus \in Seq(FrameMaps) /\ e.name \in Clear
  BY DEF MapTags, RefTags, FrameOk
<1>1. PICK t \in Seq(FrameMaps) : t = sortedMappings(e.pdus) /\ Len(t) = Len(e.pdus)
  BY <1>0, MapsOk, SortedMaps
<1>2. PICK c \in Seq(Nodes) : c = FramePdus(e) /\ Len(c) = Len(e.pdus)
  BY <1>0, MapsOk, MapsBuilt DEF FramePdus
<1>3. \A k \in 1..Len(e.pdus) : c[k] = MappingElement(e.name, t[k], k - 1, "PDU-TO-FRAME-MAPPING", "PDU-REF") /\ MapOk(t[k])
  BY <1>0, <1>1, <1>2, MapsOk, MapsBuilt DEF FramePdus
<1>4. Len(e.pdus) \in Nat /\ DOMAIN c = 1..Len(e.pdus) /\ \A k \in 1..Len(e.pdus) : t[k] \in FrameMaps
  BY <1>0, <1>1, <1>2, SeqIs
<1>5. ASSUME NEW k \in 1..Len(e.pdus) PROVE FramePduMapping(c[k]) = t[k]
  <2>1. PICK m \in FrameMaps : m = t[k] /\ MapOk(m)
    BY <1>3, <1>4
  <2>2. PICK i \in Int : i = k - 1
    BY <1>4
  <2>3. PICK n : n = c[k] /\ n = MappingElement(e.name, m, i, "PDU-TO-FRAME-MAPPING", "PDU-REF")
    BY <1>3, <2>1, <2>2
  <2>4. childText(n, "PDU-REF") = RefText(m) /\ childUint32(n, "START-POSITION", 0) = m.start
    BY <1>0, <2>1, <2>3, MapReads
  <2>5. shortNameOfRef(Value(RefText(m), <<NoName>>)) = m.ref
    BY <2>1, RefRead
  <2>6. FramePduMapping(n) = [ref |-> m.ref, start |-> m.start]
    BY <2>4, <2>5 DEF FramePduMapping
  <2>7. m = [ref |-> m.ref, start |-> m.start]
    BY DEF FrameMaps
  <2> QED BY <2>1, <2>3, <2>6, <2>7
<1>6. PduMapped(c) = [k \in 1..Len(e.pdus) |-> t[k]]
  BY <1>4, <1>5 DEF PduMapped
<1>7. t = [k \in 1..Len(e.pdus) |-> t[k]]
  BY <1>1, <1>4
<1> QED
  BY <1>1, <1>2, <1>6, <1>7

LEMMA PduSignalsBack ==
    ASSUME NEW e, PduOk(e) PROVE SignalMapped(PduSignals(e)) = Ordered(sortedMappings(e.signalMappings))
<1>0. /\ "I-SIGNAL-TO-I-PDU-MAPPING" \in MapTags /\ "I-SIGNAL-REF" \in RefTags
      /\ e.signalMappings \in Seq(PduMaps) /\ e.name \in Clear
  BY DEF MapTags, RefTags, PduOk
<1>1. PICK t \in Seq(PduMaps) : t = sortedMappings(e.signalMappings) /\ Len(t) = Len(e.signalMappings)
  BY <1>0, MapsOk, SortedMaps
<1>2. PICK c \in Seq(Nodes) : c = PduSignals(e) /\ Len(c) = Len(e.signalMappings)
  BY <1>0, MapsOk, MapsBuilt DEF PduSignals
<1>3. \A k \in 1..Len(e.signalMappings) :
        c[k] = MappingElement(e.name, t[k], k - 1, "I-SIGNAL-TO-I-PDU-MAPPING", "I-SIGNAL-REF") /\ MapOk(t[k])
  BY <1>0, <1>1, <1>2, MapsOk, MapsBuilt DEF PduSignals
<1>4. Len(e.signalMappings) \in Nat /\ DOMAIN c = 1..Len(e.signalMappings) /\ DOMAIN t = 1..Len(e.signalMappings)
      /\ \A k \in 1..Len(e.signalMappings) : t[k] \in PduMaps
  BY <1>0, <1>1, <1>2, SeqIs
<1>5. ASSUME NEW k \in 1..Len(e.signalMappings)
      PROVE  PduSignalMapping(c[k]) = [ref |-> t[k].ref, start |-> t[k].start, byteOrder |-> "most"]
  <2>1. PICK m \in PduMaps : m = t[k] /\ MapOk(m)
    BY <1>3, <1>4
  <2>2. PICK i \in Int : i = k - 1
    BY <1>4
  <2>3. PICK n : n = c[k] /\ n = MappingElement(e.name, m, i, "I-SIGNAL-TO-I-PDU-MAPPING", "I-SIGNAL-REF")
    BY <1>3, <2>1, <2>2
  <2>4. childText(n, "I-SIGNAL-REF") = RefText(m) /\ childUint32(n, "START-POSITION", 0) = m.start
    BY <1>0, <2>1, <2>3, MapReads
  <2>5. \A tg : tg \notin {"SHORT-NAME", "START-POSITION", "I-SIGNAL-REF"} => childText(n, tg) = <<>>
    BY <1>0, <2>1, <2>3, MapReads
  <2>6. childText(n, "BYTE-ORDER") = <<>> /\ childText(n, "PACKING-BYTE-ORDER") = <<>> /\ childText(n, "SIGNAL-REF") = <<>>
    BY <2>5
  <2>7. shortNameOfRef(Value(RefText(m), <<NoName>>)) = m.ref
    BY <2>1, RefRead
  <2>8. PduSignalMapping(n) = [ref |-> m.ref, start |-> m.start, byteOrder |-> "most"]
    BY <2>4, <2>6, <2>7 DEF PduSignalMapping, OrElse, Value, parseByteOrder
  <2> QED BY <2>1, <2>3, <2>8
<1>6. SignalMapped(c) = [k \in 1..Len(e.signalMappings) |-> [ref |-> t[k].ref, start |-> t[k].start, byteOrder |-> "most"]]
  BY <1>4, <1>5 DEF SignalMapped
<1>7. Ordered(t) = [k \in 1..Len(e.signalMappings) |-> [ref |-> t[k].ref, start |-> t[k].start, byteOrder |-> "most"]]
  BY <1>4 DEF Ordered
<1> QED
  BY <1>1, <1>2, <1>6, <1>7

LEMMA FrameBack ==
    ASSUME NEW e, FrameOk(e)
    PROVE  /\ buildFrame(buildFrameElement(e)).name = e.name
           /\ buildFrame(buildFrameElement(e)).length = e.length
           /\ buildFrame(buildFrameElement(e)).pdus = sortedMappings(e.pdus)
<1>1. PICK n : n = Titled("CAN-FRAME", e.name, FrameKids(e)) /\ n = buildFrameElement(e)
  BY FrameShape
<1>t. {"CAN-FRAME", "FRAME-LENGTH", "PDU-TO-FRAME-MAPPINGS"} \subseteq Tags
  BY DEF Tags
<1>k. FrameKids(e) \in Seq(Nodes) /\ e.name \in Values
  BY FrameShape
<1>r. Reads(n, "CAN-FRAME", e.name, FrameKids(e))
  BY <1>1, <1>t, <1>k, NamedReads
<1>2. extractShortName(n) = e.name
  BY <1>r DEF Reads
<1>3. childUint32(n, "LENGTH", childUint32(n, "FRAME-LENGTH", 0)) = e.length
  <2>1. childText(n, "LENGTH") = Texts(FirstOf(OfTag(FrameKids(e), "LENGTH")))
        /\ childText(n, "FRAME-LENGTH") = Texts(FirstOf(OfTag(FrameKids(e), "FRAME-LENGTH")))
    BY <1>r DEF Reads
  <2>2. childText(n, "LENGTH") = <<>>
    BY <1>t, <2>1, FrameShape, LongTagged DEF FrameKids, FrameOk
  <2>3. childText(n, "FRAME-LENGTH") = <<e.length>>
    BY <1>t, <2>1, FrameShape, LongTagged DEF FrameKids, FrameOk
  <2>4. childUint32(n, "FRAME-LENGTH", 0) = e.length
    BY <2>3, UintRead DEF FrameOk, Uints
  <2> QED BY <2>2, <2>4, UintAbsent
<1>4. OfTags(n, <<"FRAME-PDU", "PDU-TO-FRAME-MAPPING">>) = FramePdus(e)
  <2>1. findDescendants(n, "FRAME-PDU") = In(FrameKids(e), {"FRAME-PDU"})
        /\ findDescendants(n, "PDU-TO-FRAME-MAPPING") = In(FrameKids(e), {"PDU-TO-FRAME-MAPPING"})
    BY <1>r DEF Reads
  <2>2. In(FrameKids(e), {"FRAME-PDU"}) = <<>> /\ In(FrameKids(e), {"PDU-TO-FRAME-MAPPING"}) = FramePdus(e)
    BY FrameIn
  <2>3. PICK c \in Seq(Nodes) : c = FramePdus(e)
    BY FrameShape
  <2>4. findDescendants(n, "FRAME-PDU") = <<>> /\ findDescendants(n, "PDU-TO-FRAME-MAPPING") = c
    BY <2>1, <2>2, <2>3
  <2>5. OfTags(n, <<"FRAME-PDU", "PDU-TO-FRAME-MAPPING">>) = <<>> \o c
    BY <2>4, NoNodes, OfTagsTwo
  <2>6. <<>> \o c = c
    BY JoinNone
  <2> QED BY <2>3, <2>5, <2>6
<1>5. buildFrame(n).pdus = PduMapped(FramePdus(e))
  BY <1>4 DEF buildFrame, PduMapped
<1> QED
  BY <1>1, <1>2, <1>3, <1>5, FramePdusBack DEF buildFrame

LEMMA PduBack ==
    ASSUME NEW e, PduOk(e)
    PROVE  /\ buildPdu(buildPduElement(e)).name = e.name
           /\ buildPdu(buildPduElement(e)).length = e.length
           /\ buildPdu(buildPduElement(e)).signalMappings = Ordered(sortedMappings(e.signalMappings))
<1>1. PICK n : n = Titled("I-SIGNAL-I-PDU", e.name, PduKids(e)) /\ n = buildPduElement(e)
  BY PduShape
<1>t. {"I-SIGNAL-I-PDU", "LENGTH", "I-SIGNAL-TO-PDU-MAPPINGS"} \subseteq Tags
  BY DEF Tags
<1>k. PduKids(e) \in Seq(Nodes) /\ e.name \in Values
  BY PduShape
<1>r. Reads(n, "I-SIGNAL-I-PDU", e.name, PduKids(e))
  BY <1>1, <1>t, <1>k, NamedReads
<1>2. extractShortName(n) = e.name
  BY <1>r DEF Reads
<1>3. childUint32(n, "LENGTH", 0) = e.length
  <2>1. childText(n, "LENGTH") = Texts(FirstOf(OfTag(PduKids(e), "LENGTH")))
    BY <1>r DEF Reads
  <2>2. childText(n, "LENGTH") = <<e.length>>
    BY <1>t, <2>1, PduShape, LongTagged DEF PduKids, PduOk
  <2> QED BY <2>2, UintRead DEF PduOk, Uints
<1>4. OfTags(n, <<"PDU-SIGNAL-MAPPING", "I-SIGNAL-TO-I-PDU-MAPPING">>) = PduSignals(e)
  <2>1. findDescendants(n, "PDU-SIGNAL-MAPPING") = In(PduKids(e), {"PDU-SIGNAL-MAPPING"})
        /\ findDescendants(n, "I-SIGNAL-TO-I-PDU-MAPPING") = In(PduKids(e), {"I-SIGNAL-TO-I-PDU-MAPPING"})
    BY <1>r DEF Reads
  <2>2. In(PduKids(e), {"PDU-SIGNAL-MAPPING"}) = <<>> /\ In(PduKids(e), {"I-SIGNAL-TO-I-PDU-MAPPING"}) = PduSignals(e)
    BY PduIn
  <2>3. PICK c \in Seq(Nodes) : c = PduSignals(e)
    BY PduShape
  <2>4. findDescendants(n, "PDU-SIGNAL-MAPPING") = <<>> /\ findDescendants(n, "I-SIGNAL-TO-I-PDU-MAPPING") = c
    BY <2>1, <2>2, <2>3
  <2>5. OfTags(n, <<"PDU-SIGNAL-MAPPING", "I-SIGNAL-TO-I-PDU-MAPPING">>) = <<>> \o c
    BY <2>4, NoNodes, OfTagsTwo
  <2>6. <<>> \o c = c
    BY JoinNone
  <2> QED BY <2>3, <2>5, <2>6
<1>5. buildPdu(n).signalMappings = SignalMapped(PduSignals(e))
  BY <1>4 DEF buildPdu, SignalMapped
<1> QED
  BY <1>1, <1>2, <1>3, <1>5, PduSignalsBack DEF buildPdu

--------------------------------------------------------------------------------
(* What is written reads back *)

LEMMA SortedAgain ==
    ASSUME NEW S, NEW s \in Seq(S), NEW keys \in Seq(Int), NEW given \in Seq(Int), Len(keys) = Len(s), Len(given) = Len(s),
           \A k \in 1..Len(s) : given[k] = keys[Place(keys, k)]
    PROVE  SortedBy(s, given) = s
<1>1. \A i, j \in 1..Len(s) : i <= j => given[i] <= given[j]
  <2>1. ASSUME NEW i \in 1..Len(s), NEW j \in 1..Len(s), i <= j PROVE given[i] <= given[j]
    <3>1. keys[Place(keys, i)] <= keys[Place(keys, j)]
      BY <2>1, PlaceOrder
    <3> QED BY <3>1
  <2> QED BY <2>1
<1> QED
  BY <1>1, SortedDone

LEMMA SortedAt ==
    ASSUME NEW S, NEW s \in Seq(S), NEW keys \in Seq(Int), Len(keys) = Len(s), NEW t, t = SortedBy(s, keys)
    PROVE  Len(t) = Len(s) /\ \A k \in 1..Len(s) : t[k] = s[Place(keys, k)] /\ Place(keys, k) \in 1..Len(s)
BY SortedIs

LEMMA NamesAgain == ASSUME NEW names \in Seq(Proper) PROVE sortedStrings(sortedStrings(names)) = sortedStrings(names)
<1>1. names \in Seq(Int)
  BY ProperIs
<1>2. PICK t \in Seq(Proper) : t = SortedBy(names, names) /\ Len(t) = Len(names)
  BY <1>1, SortedIs
<1>3. \A k \in 1..Len(t) : t[k] = names[Place(names, k)]
  BY <1>1, <1>2, SortedAt
<1>4. t \in Seq(Int)
  BY ProperIs
<1>5. SortedBy(t, t) = t
  BY <1>1, <1>2, <1>3, <1>4, SortedAgain
<1> QED
  BY <1>2, <1>5 DEF sortedStrings

LEMMA MapsAgain ==
    ASSUME NEW M, NEW s \in Seq(M), \A m \in M : MapOk(m), NEW N, NEW u \in Seq(N), \A m \in N : MapOk(m),
           Len(u) = Len(s), \A k \in 1..Len(s) : u[k].ref = sortedMappings(s)[k].ref
    PROVE  sortedMappings(u) = u
<1>1. PICK keys \in Seq(Int) : keys = RefsOf(s)
  BY RefsAre
<1>2. Len(keys) = Len(s) /\ \A k \in 1..Len(s) : keys[k] = s[k].ref
  BY <1>1, RefsAre
<1>3. PICK given \in Seq(Int) : given = RefsOf(u)
  BY RefsAre
<1>4. Len(given) = Len(u) /\ \A k \in 1..Len(u) : given[k] = u[k].ref
  BY <1>3, RefsAre
<1>a. PICK t : t = SortedBy(s, keys) /\ t = sortedMappings(s)
  BY <1>1 DEF sortedMappings
<1>5. \A k \in 1..Len(s) : t[k] = s[Place(keys, k)] /\ Place(keys, k) \in 1..Len(s)
  <2>1. Len(keys) = Len(s) /\ t = SortedBy(s, keys)
    BY <1>2, <1>a
  <2> QED BY <2>1, SortedAt
<1>6. \A k \in 1..Len(u) : given[k] = keys[Place(keys, k)]
  <2>1. ASSUME NEW k \in 1..Len(u) PROVE given[k] = keys[Place(keys, k)]
    <3>1. given[k] = t[k].ref /\ t[k] = s[Place(keys, k)] /\ Place(keys, k) \in 1..Len(s)
      BY <1>4, <1>5, <1>a
    <3> QED BY <3>1, <1>2
  <2> QED BY <2>1
<1>7. SortedBy(u, given) = u
  BY <1>2, <1>4, <1>6, SortedAgain
<1> QED
  BY <1>3, <1>7 DEF sortedMappings

\* Mappings that differ in their byte order only are written the same.
LEMMA MapsSame ==
    ASSUME NEW M, NEW s \in Seq(M), \A m \in M : MapOk(m), NEW N, NEW u \in Seq(N), \A m \in N : MapOk(m),
           Len(u) = Len(s),
           \A k \in 1..Len(s) : sortedMappings(u)[k].ref = sortedMappings(s)[k].ref
                                /\ sortedMappings(u)[k].start = sortedMappings(s)[k].start,
           NEW owner \in Clear, NEW tag \in MapTags, NEW refTag \in RefTags
    PROVE  MappingElements(owner, u, tag, refTag) = MappingElements(owner, s, tag, refTag)
<1>1. PICK a \in Seq(Nodes) : a = MappingElements(owner, s, tag, refTag) /\ Len(a) = Len(s)
  BY MapsBuilt
<1>2. PICK b \in Seq(Nodes) : b = MappingElements(owner, u, tag, refTag) /\ Len(b) = Len(u)
  BY MapsBuilt
<1>3. \A k \in 1..Len(s) : a[k] = MappingElement(owner, sortedMappings(s)[k], k - 1, tag, refTag)
  BY <1>1, MapsBuilt
<1>4. \A k \in 1..Len(u) : b[k] = MappingElement(owner, sortedMappings(u)[k], k - 1, tag, refTag)
  BY <1>2, MapsBuilt
<1>5. \A k \in 1..Len(s) : MappingElement(owner, sortedMappings(u)[k], k - 1, tag, refTag)
                           = MappingElement(owner, sortedMappings(s)[k], k - 1, tag, refTag)
  BY DEF MappingElement, MappingName
<1>6. \A k \in 1..Len(b) : b[k] = a[k]
  BY <1>2, <1>3, <1>4, <1>5
<1>7. b = a
  BY <1>1, <1>2, <1>6, SameSeq
<1> QED
  BY <1>1, <1>2, <1>7

LEMMA ClusterAgain ==
    ASSUME NEW e, ClusterOk(e), NEW r, r.name = e.name, r.category = e.category, r.baudrate = e.baudrate,
           r.physicalChannels = sortedStrings(e.physicalChannels)
    PROVE  ClusterOk(r) /\ buildClusterElement(r) = buildClusterElement(e) /\ Kept("Cluster", r) = Kept("Cluster", e)
<1>1. e.physicalChannels \in Seq(Proper)
  BY DEF ClusterOk
<1>2. sortedStrings(r.physicalChannels) = sortedStrings(e.physicalChannels)
  BY <1>1, NamesAgain
<1>3. sortedStrings(e.physicalChannels) \in Seq(Proper) /\ BagOf(r.physicalChannels) = BagOf(e.physicalChannels)
  BY <1>1, SortedNames
<1>4. ClusterOk(r)
  BY <1>3 DEF ClusterOk
<1>5. buildClusterElement(r) = buildClusterElement(e)
  BY <1>2 DEF buildClusterElement, Category
<1>6. Kept("Cluster", r) = Kept("Cluster", e)
  BY <1>3 DEF Kept
<1> QED
  BY <1>4, <1>5, <1>6

LEMMA EcuAgain ==
    ASSUME NEW e, EcuOk(e), NEW r, r.name = e.name, r.category = e.category, r.controllers = sortedStrings(e.controllers)
    PROVE  EcuOk(r) /\ buildEcuInstanceElement(r) = buildEcuInstanceElement(e) /\ Kept("EcuInstance", r) = Kept("EcuInstance", e)
<1>1. e.controllers \in Seq(Proper)
  BY DEF EcuOk
<1>2. sortedStrings(r.controllers) = sortedStrings(e.controllers)
  BY <1>1, NamesAgain
<1>3. sortedStrings(e.controllers) \in Seq(Proper) /\ BagOf(r.controllers) = BagOf(e.controllers)
  BY <1>1, SortedNames
<1>4. EcuOk(r)
  BY <1>3 DEF EcuOk
<1>5. buildEcuInstanceElement(r) = buildEcuInstanceElement(e)
  BY <1>2 DEF buildEcuInstanceElement, Category
<1>6. Kept("EcuInstance", r) = Kept("EcuInstance", e)
  BY <1>3 DEF Kept
<1> QED
  BY <1>4, <1>5, <1>6

LEMMA GroupAgain ==
    ASSUME NEW e, GroupOk(e), NEW r, r.name = e.name, r.members = sortedStrings(e.members)
    PROVE  GroupOk(r) /\ buildSignalGroupElement(r) = buildSignalGroupElement(e) /\ Kept("SignalGroup", r) = Kept("SignalGroup", e)
<1>1. e.members \in Seq(Proper)
  BY DEF GroupOk
<1>2. sortedStrings(r.members) = sortedStrings(e.members)
  BY <1>1, NamesAgain
<1>3. sortedStrings(e.members) \in Seq(Proper) /\ BagOf(r.members) = BagOf(e.members)
  BY <1>1, SortedNames
<1>4. GroupOk(r)
  BY <1>3 DEF GroupOk
<1>5. buildSignalGroupElement(r) = buildSignalGroupElement(e)
  BY <1>2 DEF buildSignalGroupElement
<1>6. Kept("SignalGroup", r) = Kept("SignalGroup", e)
  BY <1>3 DEF Kept
<1> QED
  BY <1>4, <1>5, <1>6

LEMMA SignalAgain ==
    ASSUME NEW e, SignalOk(e), NEW r, r.name = e.name, r.bitLength = e.bitLength, r.isSigned = e.isSigned, r.initValue = e.initValue
    PROVE  SignalOk(r) /\ buildSignalElement(r) = buildSignalElement(e) /\ Kept("Signal", r) = Kept("Signal", e)
<1>1. SignalOk(r)
  BY DEF SignalOk
<1>2. buildSignalElement(r) = buildSignalElement(e)
  BY DEF buildSignalElement
<1>3. Kept("Signal", r) = Kept("Signal", e)
  BY DEF Kept
<1> QED
  BY <1>1, <1>2, <1>3

LEMMA FrameAgain ==
    ASSUME NEW e, FrameOk(e), NEW r, r.name = e.name, r.length = e.length, r.pdus = sortedMappings(e.pdus)
    PROVE  FrameOk(r) /\ buildFrameElement(r) = buildFrameElement(e) /\ Kept("Frame", r) = Kept("Frame", e)
<1>1. PICK s \in Seq(FrameMaps) : s = e.pdus
  BY DEF FrameOk
<1>2. PICK u \in Seq(FrameMaps) : u = sortedMappings(s) /\ Len(u) = Len(s) /\ BagOf(u) = BagOf(s)
  BY MapsOk, SortedMaps
<1>3. sortedMappings(u) = u
  BY <1>2, MapsOk, MapsAgain
<1>4. FrameOk(r)
  BY <1>1, <1>2 DEF FrameOk
<1>5. buildFrameElement(r) = buildFrameElement(e)
  BY <1>1, <1>2, <1>3 DEF buildFrameElement, MappingElements
<1>6. Kept("Frame", r) = Kept("Frame", e)
  BY <1>1, <1>2 DEF Kept
<1> QED
  BY <1>4, <1>5, <1>6

\* A mapping's target and position.
Starts(maps) == [i \in DOMAIN maps |-> <<maps[i].ref, maps[i].start>>]

LEMMA StartsAre ==
    ASSUME NEW M, NEW s \in Seq(M), \A m \in M : MapOk(m)
    PROVE  /\ Starts(s) \in Seq(Clear \X Uints) /\ Len(Starts(s)) = Len(s)
           /\ \A k \in 1..Len(s) : Starts(s)[k] = <<s[k].ref, s[k].start>>
<1>1. Len(s) \in Nat /\ DOMAIN s = 1..Len(s) /\ \A k \in 1..Len(s) : s[k] \in M
  BY SeqIs
<1>2. \A k \in 1..Len(s) : <<s[k].ref, s[k].start>> \in Clear \X Uints
  BY <1>1 DEF MapOk
<1>3. Starts(s) \in [1..Len(s) -> Clear \X Uints]
  BY <1>1, <1>2 DEF Starts
<1>4. Starts(s) \in Seq(Clear \X Uints) /\ Len(Starts(s)) = Len(s)
  BY <1>1, <1>3, MadeSeq
<1> QED
  BY <1>1, <1>4 DEF Starts

LEMMA PduAgain ==
    ASSUME NEW e, PduOk(e), NEW r, r.name = e.name, r.length = e.length, r.signalMappings = Ordered(sortedMappings(e.signalMappings))
    PROVE  PduOk(r) /\ buildPduElement(r) = buildPduElement(e) /\ Kept("Pdu", r) = Kept("Pdu", e)
<1>1. PICK s \in Seq(PduMaps) : s = e.signalMappings
  BY DEF PduOk
<1>2. PICK t \in Seq(PduMaps) : t = sortedMappings(s) /\ Len(t) = Len(s)
  BY MapsOk, SortedMaps
<1>3. PICK u \in Seq(PduMaps) : u = Ordered(t) /\ Len(u) = Len(t)
  BY OrderedIs
<1>a. \A k \in 1..Len(t) : u[k] = [ref |-> t[k].ref, start |-> t[k].start, byteOrder |-> "most"]
  BY <1>3, OrderedIs
<1>4. \A k \in 1..Len(s) : u[k].ref = t[k].ref /\ u[k].start = t[k].start
  <2>1. ASSUME NEW k \in 1..Len(s) PROVE u[k].ref = t[k].ref /\ u[k].start = t[k].start
    <3>1. u[k] = [ref |-> t[k].ref, start |-> t[k].start, byteOrder |-> "most"]
      BY <1>2, <1>a
    <3> QED BY <3>1
  <2> QED BY <2>1
<1>5. sortedMappings(u) = u
  BY <1>2, <1>3, <1>4, MapsOk, MapsAgain
<1>6. PduOk(r)
  BY <1>1, <1>2, <1>3 DEF PduOk
<1>7. "I-SIGNAL-TO-I-PDU-MAPPING" \in MapTags /\ "I-SIGNAL-REF" \in RefTags /\ e.name \in Clear
  BY DEF MapTags, RefTags, PduOk
<1>8. MappingElements(e.name, u, "I-SIGNAL-TO-I-PDU-MAPPING", "I-SIGNAL-REF")
      = MappingElements(e.name, s, "I-SIGNAL-TO-I-PDU-MAPPING", "I-SIGNAL-REF")
  BY <1>2, <1>3, <1>4, <1>5, <1>7, MapsOk, MapsSame, SMTT(30)
<1>9. buildPduElement(r) = buildPduElement(e)
  BY <1>1, <1>2, <1>3, <1>8 DEF buildPduElement
<1>10. PICK x \in Seq(Clear \X Uints) : x = Starts(s) /\ Len(x) = Len(s)
  BY MapsOk, StartsAre
<1>11. PICK y \in Seq(Clear \X Uints) : y = Starts(u) /\ Len(y) = Len(u)
  BY MapsOk, StartsAre
<1>12. PICK keys \in Seq(Int) : keys = RefsOf(s) /\ Len(keys) = Len(s)
  BY MapsOk, RefsAre
<1>b. t = SortedBy(s, keys)
  BY <1>2, <1>12 DEF sortedMappings
<1>13. \A k \in 1..Len(s) : t[k] = s[Place(keys, k)] /\ Place(keys, k) \in 1..Len(s)
  BY <1>12, <1>b, SortedAt
<1>14. PICK q \in Perms(Len(s)) : q = [k \in 1..Len(s) |-> Place(keys, k)]
  BY <1>12, PlacePerm
<1>15. \A k \in 1..Len(s) : x[k] = <<s[k].ref, s[k].start>>
  BY <1>10, MapsOk, StartsAre
<1>16. \A k \in 1..Len(s) : y[k] = <<u[k].ref, u[k].start>>
  BY <1>2, <1>3, <1>11, MapsOk, StartsAre
<1>17. \A k \in 1..Len(x) : y[k] = x[q[k]]
  <2>1. ASSUME NEW k \in 1..Len(s) PROVE y[k] = x[q[k]]
    <3>1. PICK l \in 1..Len(s) : l = Place(keys, k)
      BY <1>13
    <3>2. q[k] = l /\ t[k] = s[l]
      BY <1>13, <1>14, <3>1
    <3>3. x[l] = <<s[l].ref, s[l].start>>
      BY <1>15
    <3>4. y[k] = <<t[k].ref, t[k].start>>
      BY <1>4, <1>16
    <3> QED BY <3>2, <3>3, <3>4
  <2> QED BY <2>1, <1>10
<1>c. Len(y) = Len(x) /\ q \in Perms(Len(x))
  BY <1>2, <1>3, <1>10, <1>11, <1>14
<1>18. BagOf(y) = BagOf(x)
  BY <1>c, <1>17, BagPerm
<1>19. Kept("Pdu", r) = Kept("Pdu", e)
  BY <1>1, <1>2, <1>3, <1>10, <1>11, <1>18 DEF Kept, Starts
<1> QED
  BY <1>6, <1>9, <1>19

--------------------------------------------------------------------------------
(* The order of the input *)

LEMMA ReverseIs ==
    ASSUME NEW S, NEW s \in Seq(S)
    PROVE  /\ Reverse(s) \in Seq(S) /\ Len(Reverse(s)) = Len(s)
           /\ \A k \in 1..Len(s) : Reverse(s)[k] = s[Len(s) - k + 1] /\ Len(s) - k + 1 \in 1..Len(s)
<1>1. Len(s) \in Nat /\ \A k \in 1..Len(s) : s[k] \in S
  BY SeqIs
<1>2. \A k \in 1..Len(s) : Len(s) - k + 1 \in 1..Len(s)
  BY <1>1
<1>3. Reverse(s) = [k \in 1..Len(s) |-> s[Len(s) - k + 1]]
  BY DEF Reverse
<1>4. Reverse(s) \in [1..Len(s) -> S]
  BY <1>1, <1>2, <1>3
<1>5. Reverse(s) \in Seq(S) /\ Len(Reverse(s)) = Len(s)
  BY <1>1, <1>4, MadeSeq
<1> QED
  BY <1>2, <1>3, <1>5

Turned(n) == [k \in 1..n |-> n - k + 1]

LEMMA TurnedPerm == ASSUME NEW n \in Nat PROVE Turned(n) \in Perms(n) /\ \A k \in 1..n : Turned(n)[k] = n - k + 1
<1>1. \A k \in 1..n : n - k + 1 \in 1..n
  OBVIOUS
<1>2. \A a, b \in 1..n : n - a + 1 = n - b + 1 => a = b
  OBVIOUS
<1> QED
  BY <1>1, <1>2 DEF Turned, Perms

\* A sequence and its keys in another order, the keys distinct.
OtherOrder(s, keys, t, given, q) ==
    /\ \A i, j \in 1..Len(keys) : keys[i] = keys[j] => i = j
    /\ \A i \in 1..Len(s) : t[i] = s[q[i]] /\ given[i] = keys[q[i]]

LEMMA SortedShuffled ==
    ASSUME NEW S, NEW s \in Seq(S), NEW keys \in Seq(Int), Len(keys) = Len(s),
           NEW t \in Seq(S), NEW given \in Seq(Int), Len(t) = Len(s), Len(given) = Len(s), NEW q \in Perms(Len(s)),
           OtherOrder(s, keys, t, given, q)
    PROVE  SortedBy(t, given) = SortedBy(s, keys)
<1>0. Len(given) = Len(t)
  OBVIOUS
<1>1. PICK a \in Seq(S) : a = SortedBy(s, keys) /\ Len(a) = Len(s)
  BY SortedIs
<1>2. PICK b \in Seq(S) : b = SortedBy(t, given) /\ Len(b) = Len(s)
  BY <1>0, SortedIs
<1>3. \A k \in 1..Len(s) : a[k] = s[Place(keys, k)] /\ Place(keys, k) \in 1..Len(s)
  <2>1. \A k \in 1..Len(s) : SortedBy(s, keys)[k] = s[Place(keys, k)] /\ Place(keys, k) \in 1..Len(s)
    BY SortedIs
  <2> QED BY <1>1, <2>1
<1>4. \A k \in 1..Len(t) : b[k] = t[Place(given, k)] /\ Place(given, k) \in 1..Len(t)
  <2>1. \A k \in 1..Len(t) : SortedBy(t, given)[k] = t[Place(given, k)] /\ Place(given, k) \in 1..Len(t)
    BY <1>0, SortedIs
  <2> QED BY <1>2, <2>1
<1>5. \A k \in 1..Len(b) : b[k] = a[k]
  <2>1. ASSUME NEW k \in 1..Len(s) PROVE b[k] = a[k]
    <3>1. q[Place(given, k)] = Place(keys, k)
      <4>1. /\ \A i \in 1..Len(keys) : given[i] = keys[q[i]]
            /\ \A i, j \in 1..Len(keys) : keys[i] = keys[j] => i = j
        BY DEF OtherOrder
      <4>2. Len(given) = Len(keys) /\ k \in 1..Len(keys) /\ q \in Perms(Len(keys))
        OBVIOUS
      <4> QED BY <4>1, <4>2, Reordered, ZenonT(40)
    <3>2. b[k] = t[Place(given, k)] /\ Place(given, k) \in 1..Len(s)
      BY <1>4
    <3>3. \A i \in 1..Len(s) : t[i] = s[q[i]]
      BY DEF OtherOrder
    <3>4. b[k] = s[q[Place(given, k)]]
      BY <3>2, <3>3
    <3> QED BY <3>1, <3>4, <1>3
  <2> QED BY <2>1, <1>2
<1> QED
  BY <1>1, <1>2, <1>5, SameSeq

LEMMA NamesReversed ==
    ASSUME NEW names \in Seq(Proper), IsInjective(names) PROVE sortedStrings(Reverse(names)) = sortedStrings(names)
<1>1. names \in Seq(Int) /\ Len(names) \in Nat /\ DOMAIN names = 1..Len(names)
  BY ProperIs, SeqIs
<1>2. \A i, j \in 1..Len(names) : names[i] = names[j] => i = j
  BY <1>1 DEF IsInjective
<1>3. PICK t \in Seq(Int) : t = Reverse(names) /\ Len(t) = Len(names)
  BY <1>1, ReverseIs
<1>4. \A k \in 1..Len(names) : t[k] = names[Len(names) - k + 1]
  BY <1>1, <1>3, ReverseIs
<1>5. PICK q \in Perms(Len(names)) : \A k \in 1..Len(names) : q[k] = Len(names) - k + 1
  BY <1>1, TurnedPerm
<1>6. \A k \in 1..Len(names) : t[k] = names[q[k]]
  BY <1>4, <1>5
<1>7. SortedBy(t, t) = SortedBy(names, names)
  <2>1. OtherOrder(names, names, t, t, q)
    BY <1>2, <1>6 DEF OtherOrder
  <2>2. Len(t) = Len(names)
    BY <1>3
  <2> QED BY <1>1, <2>1, <2>2, SortedShuffled
<1> QED
  BY <1>3, <1>7 DEF sortedStrings

LEMMA MapsReversed ==
    ASSUME NEW M, NEW s \in Seq(M), \A m \in M : MapOk(m), IsInjective(RefsOf(s))
    PROVE  sortedMappings(Reverse(s)) = sortedMappings(s)
<1>1. PICK keys \in Seq(Int) : keys = RefsOf(s) /\ Len(keys) = Len(s)
  BY RefsAre
<1>2. \A k \in 1..Len(s) : keys[k] = s[k].ref
  BY <1>1, RefsAre
<1>3. Len(s) \in Nat /\ DOMAIN keys = 1..Len(keys)
  BY SeqIs
<1>4. \A i, j \in 1..Len(keys) : keys[i] = keys[j] => i = j
  BY <1>1, <1>3 DEF IsInjective
<1>5. PICK t \in Seq(M) : t = Reverse(s) /\ Len(t) = Len(s)
  BY ReverseIs
<1>6. \A k \in 1..Len(s) : t[k] = s[Len(s) - k + 1] /\ Len(s) - k + 1 \in 1..Len(s)
  BY <1>5, ReverseIs
<1>7. PICK given \in Seq(Int) : given = RefsOf(t) /\ Len(given) = Len(t)
  BY RefsAre
<1>8. \A k \in 1..Len(t) : given[k] = t[k].ref
  BY <1>7, RefsAre
<1>9. PICK q \in Perms(Len(s)) : \A k \in 1..Len(s) : q[k] = Len(s) - k + 1
  BY <1>3, TurnedPerm
<1>10. \A k \in 1..Len(s) : t[k] = s[q[k]] /\ given[k] = keys[q[k]]
  <2>1. ASSUME NEW k \in 1..Len(s) PROVE t[k] = s[q[k]] /\ given[k] = keys[q[k]]
    <3>1. PICK l \in 1..Len(s) : l = Len(s) - k + 1
      BY <1>6
    <3>2. t[k] = s[l] /\ q[k] = l /\ keys[l] = s[l].ref
      BY <1>2, <1>6, <1>9, <3>1
    <3>3. given[k] = t[k].ref
      BY <1>5, <1>8
    <3> QED BY <3>2, <3>3
  <2> QED BY <2>1
<1>11. Len(given) = Len(s)
  BY <1>5, <1>7
<1>12. SortedBy(t, given) = SortedBy(s, keys)
  <2>1. OtherOrder(s, keys, t, given, q)
    BY <1>4, <1>10 DEF OtherOrder
  <2>2. Len(t) = Len(s) /\ Len(keys) = Len(s)
    BY <1>1, <1>5
  <2> QED BY <1>11, <2>1, <2>2, SortedShuffled
<1> QED
  BY <1>1, <1>5, <1>7, <1>12 DEF sortedMappings

--------------------------------------------------------------------------------
(* Elements of any type *)

Fields(type) ==
    CASE type = "Cluster" -> {"name", "category", "baudrate", "physicalChannels"}
      [] type = "EcuInstance" -> {"name", "category", "controllers"}
      [] type = "Frame" -> {"name", "length", "pdus"}
      [] type = "Pdu" -> {"name", "length", "signalMappings"}
      [] type = "Signal" -> {"name", "bitLength", "isSigned", "initValue"}
      [] type = "SignalGroup" -> {"name", "members"}
ElementOk(type, e) ==
    /\ Fields(type) \subseteq DOMAIN e
    /\ CASE type = "Cluster" -> ClusterOk(e)
         [] type = "EcuInstance" -> EcuOk(e)
         [] type = "Frame" -> FrameOk(e)
         [] type = "Pdu" -> PduOk(e)
         [] type = "Signal" -> SignalOk(e)
         [] type = "SignalGroup" -> GroupOk(e)

LEMMA TypesAre == TypeNames = {"Cluster", "EcuInstance", "Frame", "Pdu", "Signal", "SignalGroup"} /\ Len(Types) = 6 /\ DOMAIN Types = 1..6
<1>1. DOMAIN Types = 1..6 /\ Len(Types) = 6
  BY DEF Types
<1>2. /\ Types[1] = "Cluster" /\ Types[2] = "EcuInstance" /\ Types[3] = "Frame"
      /\ Types[4] = "Pdu" /\ Types[5] = "Signal" /\ Types[6] = "SignalGroup"
  BY DEF Types
<1>3. 1..6 = {1, 2, 3, 4, 5, 6}
  OBVIOUS
<1>4. TypeNames = {Types[1], Types[2], Types[3], Types[4], Types[5], Types[6]}
  BY <1>1, <1>3 DEF TypeNames
<1> QED
  BY <1>1, <1>2, <1>4

LEMMA ElementCases ==
    ASSUME NEW type \in TypeNames, NEW e, ElementOk(type, e)
    PROVE  \/ type = "Cluster" /\ ClusterOk(e)
           \/ type = "EcuInstance" /\ EcuOk(e)
           \/ type = "Frame" /\ FrameOk(e)
           \/ type = "Pdu" /\ PduOk(e)
           \/ type = "Signal" /\ SignalOk(e)
           \/ type = "SignalGroup" /\ GroupOk(e)
<1>1. type \in {"Cluster", "EcuInstance", "Frame", "Pdu", "Signal", "SignalGroup"}
  BY TypesAre
<1> QED
  BY <1>1 DEF ElementOk

LEMMA ElementNamed == ASSUME NEW type \in TypeNames, NEW e, ElementOk(type, e) PROVE e.name \in Clear
BY ElementCases DEF ClusterOk, EcuOk, FrameOk, PduOk, SignalOk, GroupOk

\* The element of a type, and what is in it.
OutTag(type) ==
    CASE type = "Cluster" -> "CAN-CLUSTER"
      [] type = "EcuInstance" -> "ECU-INSTANCE"
      [] type = "Frame" -> "CAN-FRAME"
      [] type = "Pdu" -> "I-SIGNAL-I-PDU"
      [] type = "Signal" -> "I-SIGNAL"
      [] type = "SignalGroup" -> "I-SIGNAL-GROUP"
Kids(type, e) ==
    CASE type = "Cluster" -> ClusterKids(e)
      [] type = "EcuInstance" -> EcuKids(e)
      [] type = "Frame" -> FrameKids(e)
      [] type = "Pdu" -> PduKids(e)
      [] type = "Signal" -> SignalKids(e)
      [] type = "SignalGroup" -> GroupKids(e)

LEMMA ElementShape ==
    ASSUME NEW type \in TypeNames, NEW e, ElementOk(type, e)
    PROVE  BuildElement(type, e) = Titled(OutTag(type), e.name, Kids(type, e)) /\ Kids(type, e) \in Seq(Nodes)
<1>1. CASE type = "Cluster" /\ ClusterOk(e)
  BY <1>1, ClusterShape DEF BuildElement, OutTag, Kids
<1>2. CASE type = "EcuInstance" /\ EcuOk(e)
  BY <1>2, EcuShape DEF BuildElement, OutTag, Kids
<1>3. CASE type = "Frame" /\ FrameOk(e)
  BY <1>3, FrameShape DEF BuildElement, OutTag, Kids
<1>4. CASE type = "Pdu" /\ PduOk(e)
  BY <1>4, PduShape DEF BuildElement, OutTag, Kids
<1>5. CASE type = "Signal" /\ SignalOk(e)
  BY <1>5, SignalShape DEF BuildElement, OutTag, Kids
<1>6. CASE type = "SignalGroup" /\ GroupOk(e)
  BY <1>6, GroupShape DEF BuildElement, OutTag, Kids
<1> QED
  BY <1>1, <1>2, <1>3, <1>4, <1>5, <1>6, ElementCases

LEMMA OutTags ==
    ASSUME NEW type \in TypeNames
    PROVE  /\ OutTag(type) \in Tags
           /\ \A other \in TypeNames : OutTag(type) \in Family[other] <=> other = type
           /\ Outer(Family[type]) /\ "CATEGORY" \notin Family[type] /\ "SHORT-NAME" \notin Family[type]
<1>1. type \in {"Cluster", "EcuInstance", "Frame", "Pdu", "Signal", "SignalGroup"}
  BY TypesAre
<1>2. OutTag(type) \in Tags
  BY <1>1 DEF OutTag, Tags
<1>3. \A other \in TypeNames : OutTag(type) \in Family[other] <=> other = type
  BY <1>1, TypesAre DEF OutTag, Family
<1>4. Outer(Family[type]) /\ "CATEGORY" \notin Family[type] /\ "SHORT-NAME" \notin Family[type]
  BY <1>1 DEF Outer, Contents, Family
<1> QED
  BY <1>2, <1>3, <1>4

LEMMA ElementTyped ==
    ASSUME NEW type \in TypeNames, NEW e, ElementOk(type, e)
    PROVE  /\ BuildElement(type, e) \in Nodes /\ TagOf(BuildElement(type, e)) = OutTag(type)
           /\ childText(BuildElement(type, e), "SHORT-NAME") = <<e.name>> /\ e.name \in Values
<1>1. e.name \in Values
  BY ElementNamed, ValueIs
<1>2. PICK x \in Values : x = e.name
  BY <1>1
<1>3. PICK ch \in Seq(Nodes) : ch = Kids(type, e)
  BY ElementShape
<1>4. OutTag(type) \in Tags
  BY OutTags
<1>5. Titled(OutTag(type), x, ch) \in Nodes /\ TagOf(Titled(OutTag(type), x, ch)) = OutTag(type)
      /\ childText(Titled(OutTag(type), x, ch), "SHORT-NAME") = <<x>>
  BY <1>4, NamedBuilt
<1> QED
  BY <1>1, <1>2, <1>3, <1>5, ElementShape

\* The elements that keep a category.
Categorised == {"Cluster", "EcuInstance"}

LEMMA KidsOuter ==
    ASSUME NEW type \in TypeNames, NEW e, ElementOk(type, e), NEW T, Outer(T)
    PROVE  In(Kids(type, e), T) = IF type \in Categorised /\ "CATEGORY" \in T THEN Text("CATEGORY", e.category) ELSE <<>>
<1>1. CASE type = "Cluster" /\ ClusterOk(e)
  BY <1>1, ClusterOuter DEF Kids, Categorised
<1>2. CASE type = "EcuInstance" /\ EcuOk(e)
  BY <1>2, EcuOuter DEF Kids, Categorised
<1>3. CASE type = "Frame" /\ FrameOk(e)
  BY <1>3, FrameOuter DEF Kids, Categorised
<1>4. CASE type = "Pdu" /\ PduOk(e)
  BY <1>4, PduOuter DEF Kids, Categorised
<1>5. CASE type = "Signal" /\ SignalOk(e)
  BY <1>5, SignalOuter DEF Kids, Categorised
<1>6. CASE type = "SignalGroup" /\ GroupOk(e)
  BY <1>6, GroupOuter DEF Kids, Categorised
<1> QED
  BY <1>1, <1>2, <1>3, <1>4, <1>5, <1>6, ElementCases

\* Of the types' tags an element has only its own.
LEMMA ElementFamily ==
    ASSUME NEW type \in TypeNames, NEW e, ElementOk(type, e), NEW other \in TypeNames
    PROVE  In(<<BuildElement(type, e)>>, Family[other]) = IF other = type THEN <<BuildElement(type, e)>> ELSE <<>>
<1>1. PICK x \in Values : x = e.name
  BY ElementTyped
<1>2. PICK ch \in Seq(Nodes) : ch = Kids(type, e)
  BY ElementShape
<1>3. OutTag(type) \in Tags /\ "SHORT-NAME" \notin Family[other] /\ Outer(Family[other]) /\ "CATEGORY" \notin Family[other]
      /\ (OutTag(type) \in Family[other] <=> other = type)
  BY OutTags
<1>4. PICK T : T = Family[other]
  OBVIOUS
<1>5. In(ch, T) = <<>>
  BY <1>2, <1>3, <1>4, KidsOuter
<1>6. PICK t \in Tags : t = OutTag(type)
  BY <1>3
<1>7. "SHORT-NAME" \notin T
  BY <1>3, <1>4
<1>8. In(<<Titled(t, x, ch)>>, T) = IF t \in T THEN <<Titled(t, x, ch)>> \o In(ch, T) ELSE In(ch, T)
  BY <1>7, NamedBuilt
<1>9. PICK n \in Nodes : n = Titled(t, x, ch) /\ n = BuildElement(type, e)
  BY <1>1, <1>2, <1>6, ElementShape, ElementTyped
<1>10. <<n>> \o <<>> = <<n>>
  OBVIOUS
<1> QED
  BY <1>3, <1>4, <1>5, <1>6, <1>8, <1>9, <1>10

LEMMA ElementCategory ==
    ASSUME NEW type \in TypeNames, NEW e, ElementOk(type, e)
    PROVE  In(<<BuildElement(type, e)>>, {"CATEGORY"}) = IF type \in Categorised THEN Text("CATEGORY", e.category) ELSE <<>>
<1>1. PICK x \in Values : x = e.name
  BY ElementTyped
<1>2. PICK ch \in Seq(Nodes) : ch = Kids(type, e)
  BY ElementShape
<1>3. PICK T : T = {"CATEGORY"}
  OBVIOUS
<1>4. Outer(T) /\ "SHORT-NAME" \notin T /\ "CATEGORY" \in T
  BY <1>3 DEF Outer, Contents
<1>5. In(ch, T) = IF type \in Categorised THEN Text("CATEGORY", e.category) ELSE <<>>
  BY <1>2, <1>4, KidsOuter
<1>6. PICK t \in Tags : t = OutTag(type)
  BY OutTags
<1>7. t \notin T
  <2>1. type \in {"Cluster", "EcuInstance", "Frame", "Pdu", "Signal", "SignalGroup"}
    BY TypesAre
  <2> QED BY <2>1, <1>3, <1>6 DEF OutTag
<1>8. In(<<Titled(t, x, ch)>>, T) = IF t \in T THEN <<Titled(t, x, ch)>> \o In(ch, T) ELSE In(ch, T)
  BY <1>4, NamedBuilt
<1> QED
  BY <1>1, <1>2, <1>3, <1>5, <1>6, <1>7, <1>8, ElementShape

\* An element written and read again.
Reread(type, e) == Build(type, BuildElement(type, e))

LEMMA BuiltFields ==
    ASSUME NEW type \in TypeNames, NEW n PROVE Fields(type) \subseteq DOMAIN Build(type, n)
<1>1. type \in {"Cluster", "EcuInstance", "Frame", "Pdu", "Signal", "SignalGroup"}
  BY TypesAre
<1>2. CASE type = "Cluster"
  BY <1>2 DEF Fields, Build, buildCluster
<1>3. CASE type = "EcuInstance"
  BY <1>3 DEF Fields, Build, buildEcuInstance
<1>4. CASE type = "Frame"
  BY <1>4 DEF Fields, Build, buildFrame
<1>5. CASE type = "Pdu"
  BY <1>5 DEF Fields, Build, buildPdu
<1>6. CASE type = "Signal"
  BY <1>6 DEF Fields, Build, buildSignal
<1>7. CASE type = "SignalGroup"
  BY <1>7 DEF Fields, Build, buildSignalGroup
<1> QED
  BY <1>1, <1>2, <1>3, <1>4, <1>5, <1>6, <1>7

LEMMA RereadIs ==
    ASSUME NEW type \in TypeNames, NEW e, ElementOk(type, e)
    PROVE  /\ ElementOk(type, Reread(type, e)) /\ Reread(type, e).name = e.name
           /\ BuildElement(type, Reread(type, e)) = BuildElement(type, e)
           /\ Kept(type, Reread(type, e)) = Kept(type, e)
<1>0. Fields(type) \subseteq DOMAIN Reread(type, e)
  BY BuiltFields DEF Reread
<1>1. CASE type = "Cluster" /\ ClusterOk(e)
  <2>1. PICK r : r = Reread("Cluster", e) /\ r = buildCluster(buildClusterElement(e))
    BY DEF Reread, Build, BuildElement
  <2>2. /\ r.name = e.name /\ r.category = e.category /\ r.baudrate = e.baudrate
        /\ r.physicalChannels = sortedStrings(e.physicalChannels)
    BY <1>1, <2>1, ClusterBack
  <2>3. ClusterOk(r) /\ buildClusterElement(r) = buildClusterElement(e) /\ Kept("Cluster", r) = Kept("Cluster", e)
    BY <1>1, <2>2, ClusterAgain
  <2> QED BY <1>0, <1>1, <2>1, <2>2, <2>3 DEF ElementOk, BuildElement
<1>2. CASE type = "EcuInstance" /\ EcuOk(e)
  <2>1. PICK r : r = Reread("EcuInstance", e) /\ r = buildEcuInstance(buildEcuInstanceElement(e))
    BY DEF Reread, Build, BuildElement
  <2>2. r.name = e.name /\ r.category = e.category /\ r.controllers = sortedStrings(e.controllers)
    BY <1>2, <2>1, EcuBack
  <2>3. EcuOk(r) /\ buildEcuInstanceElement(r) = buildEcuInstanceElement(e) /\ Kept("EcuInstance", r) = Kept("EcuInstance", e)
    BY <1>2, <2>2, EcuAgain
  <2> QED BY <1>0, <1>2, <2>1, <2>2, <2>3 DEF ElementOk, BuildElement
<1>3. CASE type = "Frame" /\ FrameOk(e)
  <2>1. PICK r : r = Reread("Frame", e) /\ r = buildFrame(buildFrameElement(e))
    BY DEF Reread, Build, BuildElement
  <2>2. r.name = e.name /\ r.length = e.length /\ r.pdus = sortedMappings(e.pdus)
    BY <1>3, <2>1, FrameBack
  <2>3. FrameOk(r) /\ buildFrameElement(r) = buildFrameElement(e) /\ Kept("Frame", r) = Kept("Frame", e)
    BY <1>3, <2>2, FrameAgain
  <2> QED BY <1>0, <1>3, <2>1, <2>2, <2>3 DEF ElementOk, BuildElement
<1>4. CASE type = "Pdu" /\ PduOk(e)
  <2>1. PICK r : r = Reread("Pdu", e) /\ r = buildPdu(buildPduElement(e))
    BY DEF Reread, Build, BuildElement
  <2>2. r.name = e.name /\ r.length = e.length /\ r.signalMappings = Ordered(sortedMappings(e.signalMappings))
    BY <1>4, <2>1, PduBack
  <2>3. PduOk(r) /\ buildPduElement(r) = buildPduElement(e) /\ Kept("Pdu", r) = Kept("Pdu", e)
    BY <1>4, <2>2, PduAgain
  <2> QED BY <1>0, <1>4, <2>1, <2>2, <2>3 DEF ElementOk, BuildElement
<1>5. CASE type = "Signal" /\ SignalOk(e)
  <2>1. PICK r : r = Reread("Signal", e) /\ r = buildSignal(buildSignalElement(e))
    BY DEF Reread, Build, BuildElement
  <2>2. r.name = e.name /\ r.bitLength = e.bitLength /\ r.isSigned = e.isSigned /\ r.initValue = e.initValue
    BY <1>5, <2>1, SignalBack
  <2>3. SignalOk(r) /\ buildSignalElement(r) = buildSignalElement(e) /\ Kept("Signal", r) = Kept("Signal", e)
    BY <1>5, <2>2, SignalAgain
  <2> QED BY <1>0, <1>5, <2>1, <2>2, <2>3 DEF ElementOk, BuildElement
<1>6. CASE type = "SignalGroup" /\ GroupOk(e)
  <2>1. PICK r : r = Reread("SignalGroup", e) /\ r = buildSignalGroup(buildSignalGroupElement(e))
    BY DEF Reread, Build, BuildElement
  <2>2. r.name = e.name /\ r.members = sortedStrings(e.members)
    BY <1>6, <2>1, GroupBack
  <2>3. GroupOk(r) /\ buildSignalGroupElement(r) = buildSignalGroupElement(e) /\ Kept("SignalGroup", r) = Kept("SignalGroup", e)
    BY <1>6, <2>2, GroupAgain
  <2> QED BY <1>0, <1>6, <2>1, <2>2, <2>3 DEF ElementOk, BuildElement
<1> QED
  BY <1>1, <1>2, <1>3, <1>4, <1>5, <1>6, ElementCases

\* An element with its lists reversed is written the same.
LEMMA TurnedField ==
    ASSUME NEW e, NEW f \in DOMAIN e
    PROVE  ReversedLists(e)[f] = IF f \in ListFields THEN Reverse(e[f]) ELSE e[f]
BY DEF ReversedLists

LEMMA UniqueList ==
    ASSUME NEW e, KeysUnique(e), NEW f \in ListFields \cap DOMAIN e PROVE IsInjective(KeysOf(e, f))
BY DEF KeysUnique

LEMMA ElementTurned ==
    ASSUME NEW type \in TypeNames, NEW e, ElementOk(type, e), KeysUnique(e)
    PROVE  BuildElement(type, ReversedLists(e)) = BuildElement(type, e) /\ ReversedLists(e).name = e.name
<1>0. Fields(type) \subseteq DOMAIN e
  BY DEF ElementOk
<1>r. PICK r : r = ReversedLists(e)
  OBVIOUS
<1>f. \A f \in Fields(type) : r[f] = IF f \in ListFields THEN Reverse(e[f]) ELSE e[f]
  BY <1>0, <1>r, TurnedField
<1>u. \A f \in Fields(type) : f \in ListFields => IsInjective(KeysOf(e, f))
  BY <1>0, UniqueList
<1>1. CASE type = "Cluster" /\ ClusterOk(e)
  <2>1. r.name = e.name /\ r.category = e.category /\ r.baudrate = e.baudrate /\ r.physicalChannels = Reverse(e.physicalChannels)
    BY <1>f, <1>1 DEF Fields, ListFields
  <2>2. IsInjective(e.physicalChannels)
    BY <1>u, <1>1 DEF Fields, ListFields, KeysOf
  <2>3. sortedStrings(r.physicalChannels) = sortedStrings(e.physicalChannels)
    BY <1>1, <2>1, <2>2, NamesReversed DEF ClusterOk
  <2> QED BY <1>1, <1>r, <2>1, <2>3 DEF BuildElement, buildClusterElement, Category
<1>2. CASE type = "EcuInstance" /\ EcuOk(e)
  <2>1. r.name = e.name /\ r.category = e.category /\ r.controllers = Reverse(e.controllers)
    BY <1>f, <1>2 DEF Fields, ListFields
  <2>2. IsInjective(e.controllers)
    BY <1>u, <1>2 DEF Fields, ListFields, KeysOf
  <2>3. sortedStrings(r.controllers) = sortedStrings(e.controllers)
    BY <1>2, <2>1, <2>2, NamesReversed DEF EcuOk
  <2> QED BY <1>2, <1>r, <2>1, <2>3 DEF BuildElement, buildEcuInstanceElement, Category
<1>3. CASE type = "Frame" /\ FrameOk(e)
  <2>1. r.name = e.name /\ r.length = e.length /\ r.pdus = Reverse(e.pdus)
    BY <1>f, <1>3 DEF Fields, ListFields
  <2>2. IsInjective(RefsOf(e.pdus))
    BY <1>u, <1>3 DEF Fields, ListFields, KeysOf
  <2>3. sortedMappings(r.pdus) = sortedMappings(e.pdus)
    BY <1>3, <2>1, <2>2, MapsOk, MapsReversed DEF FrameOk
  <2> QED BY <1>3, <1>r, <2>1, <2>3 DEF BuildElement, buildFrameElement, MappingElements
<1>4. CASE type = "Pdu" /\ PduOk(e)
  <2>1. r.name = e.name /\ r.length = e.length /\ r.signalMappings = Reverse(e.signalMappings)
    BY <1>f, <1>4 DEF Fields, ListFields
  <2>2. IsInjective(RefsOf(e.signalMappings))
    BY <1>u, <1>4 DEF Fields, ListFields, KeysOf
  <2>3. sortedMappings(r.signalMappings) = sortedMappings(e.signalMappings)
    BY <1>4, <2>1, <2>2, MapsOk, MapsReversed DEF PduOk
  <2> QED BY <1>4, <1>r, <2>1, <2>3 DEF BuildElement, buildPduElement, MappingElements
<1>5. CASE type = "Signal" /\ SignalOk(e)
  <2>1. r.name = e.name /\ r.bitLength = e.bitLength /\ r.isSigned = e.isSigned /\ r.initValue = e.initValue
    BY <1>f, <1>5 DEF Fields, ListFields
  <2> QED BY <1>5, <1>r, <2>1 DEF BuildElement, buildSignalElement
<1>6. CASE type = "SignalGroup" /\ GroupOk(e)
  <2>1. r.name = e.name /\ r.members = Reverse(e.members)
    BY <1>f, <1>6 DEF Fields, ListFields
  <2>2. IsInjective(e.members)
    BY <1>u, <1>6 DEF Fields, ListFields, KeysOf
  <2>3. sortedStrings(r.members) = sortedStrings(e.members)
    BY <1>6, <2>1, <2>2, NamesReversed DEF GroupOk
  <2> QED BY <1>6, <1>r, <2>1, <2>3 DEF BuildElement, buildSignalGroupElement
<1> QED
  BY <1>1, <1>2, <1>3, <1>4, <1>5, <1>6, ElementCases

--------------------------------------------------------------------------------
(* Lists of elements *)

AllOk(type, S) == \A e \in S : ElementOk(type, e)

LEMMA OkIs == ASSUME NEW type, NEW S, AllOk(type, S), NEW e \in S PROVE ElementOk(type, e)
BY DEF AllOk

LEMMA NamesAre ==
    ASSUME NEW type \in TypeNames, NEW S, AllOk(type, S), NEW s \in Seq(S)
    PROVE  /\ NamesOf(s) \in Seq(Clear) /\ NamesOf(s) \in Seq(Int) /\ Len(NamesOf(s)) = Len(s)
           /\ \A k \in 1..Len(s) : NamesOf(s)[k] = s[k].name
<1>1. Len(s) \in Nat /\ DOMAIN s = 1..Len(s) /\ \A k \in 1..Len(s) : s[k] \in S
  BY SeqIs
<1>2. ASSUME NEW k \in 1..Len(s) PROVE s[k].name \in Clear
  BY <1>1, OkIs, ElementNamed
<1>3. NamesOf(s) \in [1..Len(s) -> Clear]
  BY <1>1, <1>2 DEF NamesOf
<1>4. NamesOf(s) \in Seq(Clear) /\ Len(NamesOf(s)) = Len(s)
  BY <1>1, <1>3, MadeSeq
<1>5. Seq(Clear) \subseteq Seq(Int)
  BY ClearIs
<1> QED
  BY <1>1, <1>4, <1>5 DEF NamesOf

LEMMA SortedItems ==
    ASSUME NEW type \in TypeNames, NEW S, AllOk(type, S), NEW s \in Seq(S)
    PROVE  /\ sortedCopy(s) \in Seq(S) /\ Len(sortedCopy(s)) = Len(s)
           /\ \A k \in 1..Len(s) : sortedCopy(s)[k] = s[Place(NamesOf(s), k)] /\ Place(NamesOf(s), k) \in 1..Len(s)
<1>1. PICK keys \in Seq(Int) : keys = NamesOf(s) /\ Len(keys) = Len(s)
  BY NamesAre
<1>2. PICK t \in Seq(S) : t = SortedBy(s, keys) /\ Len(t) = Len(s)
  BY <1>1, SortedIs
<1>3. \A k \in 1..Len(s) : t[k] = s[Place(keys, k)] /\ Place(keys, k) \in 1..Len(s)
  BY <1>1, <1>2, SortedAt
<1> QED
  BY <1>1, <1>2, <1>3 DEF sortedCopy

LEMMA EmittedIs ==
    ASSUME NEW type \in TypeNames, NEW S, AllOk(type, S), NEW s \in Seq(S)
    PROVE  /\ Emitted(type, s) \in Seq(Nodes) /\ Len(Emitted(type, s)) = Len(s)
           /\ \A k \in 1..Len(s) :
                Emitted(type, s)[k] = BuildElement(type, sortedCopy(s)[k]) /\ ElementOk(type, sortedCopy(s)[k])
<1>1. PICK t \in Seq(S) : t = sortedCopy(s) /\ Len(t) = Len(s)
  BY SortedItems
<1>2. Len(s) \in Nat /\ DOMAIN t = 1..Len(s) /\ \A k \in 1..Len(s) : t[k] \in S
  BY <1>1, SeqIs
<1>3. ASSUME NEW k \in 1..Len(s) PROVE ElementOk(type, t[k]) /\ BuildElement(type, t[k]) \in Nodes
  BY <1>2, OkIs, ElementTyped
<1>4. Emitted(type, s) = [k \in 1..Len(s) |-> BuildElement(type, t[k])]
  BY <1>1, <1>2 DEF Emitted
<1>5. Emitted(type, s) \in [1..Len(s) -> Nodes]
  BY <1>3, <1>4
<1>6. Emitted(type, s) \in Seq(Nodes) /\ Len(Emitted(type, s)) = Len(s)
  BY <1>2, <1>5, MadeSeq
<1> QED
  BY <1>1, <1>3, <1>4, <1>6

LEMMA EmittedFamily ==
    ASSUME NEW type \in TypeNames, NEW S, AllOk(type, S), NEW s \in Seq(S), NEW other \in TypeNames
    PROVE  In(Emitted(type, s), Family[other]) = IF other = type THEN Emitted(type, s) ELSE <<>>
<1>1. PICK y \in Seq(Nodes) : y = Emitted(type, s) /\ Len(y) = Len(s)
  BY EmittedIs
<1>2. \A k \in 1..Len(y) : y[k] = BuildElement(type, sortedCopy(s)[k]) /\ ElementOk(type, sortedCopy(s)[k])
  BY <1>1, EmittedIs
<1>3. PICK T : T = Family[other]
  OBVIOUS
<1>4. \A k \in 1..Len(y) : In(<<y[k]>>, T) = IF other = type THEN <<y[k]>> ELSE <<>>
  <2>1. ASSUME NEW k \in 1..Len(y) PROVE In(<<y[k]>>, T) = IF other = type THEN <<y[k]>> ELSE <<>>
    <3>1. PICK e : e = sortedCopy(s)[k] /\ y[k] = BuildElement(type, e) /\ ElementOk(type, e)
      BY <1>2
    <3> QED BY <3>1, <1>3, ElementFamily
  <2> QED BY <2>1
<1>5. CASE other = type
  BY <1>1, <1>3, <1>4, <1>5, InMap
<1>6. CASE other # type
  BY <1>1, <1>3, <1>4, <1>6, InEmpty
<1> QED
  BY <1>5, <1>6

\* What is found in a list of lists is found in each.
LEMMA InFlat ==
    ASSUME NEW segs \in Seq(Seq(Nodes)), NEW T, NEW S, S \subseteq Nodes, NEW y \in Seq(Seq(S)),
           Len(y) = Len(segs), \A k \in 1..Len(segs) : y[k] = In(segs[k], T)
    PROVE  In(FlattenSeq(segs), T) = FlattenSeq(y)
<1>1. Len(segs) \in Nat /\ \A k \in 1..Len(segs) : segs[k] \in Seq(Nodes)
  BY SeqIs
<1>2. PICK F \in [0..Len(segs) -> Seq(Nodes)] : Flat(F, segs)
  BY Flattened
<1>3. PICK G \in [0..Len(y) -> Seq(S)] : Flat(G, y)
  BY Flattened
<1> DEFINE P == {k \in 0..Len(segs) : In(F[k], T) = G[k]}
<1>4. 0 \in P
  BY <1>1, <1>2, <1>3, InNone DEF Flat
<1>5. ASSUME NEW k \in 1..Len(segs), k - 1 \in P PROVE k \in P
  <2>1. F[k] = F[k - 1] \o segs[k]
    BY <1>2 DEF Flat
  <2>a. In(F[k - 1], T) = G[k - 1]
    BY <1>5
  <2>b. k \in 0..Len(segs) /\ k - 1 \in 0..Len(segs)
    BY <1>1
  <2>2. k \in 0..Len(segs) /\ In(F[k - 1], T) = G[k - 1] /\ F[k - 1] \in Seq(Nodes)
    BY <1>2, <2>a, <2>b
  <2>3. k \in 1..Len(y)
    OBVIOUS
  <2>4. G[k] = G[k - 1] \o y[k]
    BY <1>3, <2>3 DEF Flat
  <2> HIDE DEF P
  <2>5. PICK a \in Seq(Nodes) : a = F[k - 1]
    BY <2>2
  <2>6. PICK b \in Seq(Nodes) : b = segs[k]
    BY <1>1
  <2>7. In(a \o b, T) = In(a, T) \o In(b, T)
    BY InJoin
  <2>8. In(F[k], T) = G[k]
    BY <2>1, <2>2, <2>4, <2>5, <2>6, <2>7
  <2> QED BY <2>2, <2>8 DEF P
<1>6. Len(segs) \in P
  <2>0. Len(segs) \in 0..Len(segs) /\ Len(segs) \in Nat
    BY <1>1
  <2> HIDE DEF P
  <2>1. 0..Len(segs) \subseteq P
    BY <1>4, <1>5, <2>0, Turns
  <2> QED BY <2>0, <2>1
<1>7. FlattenSeq(segs) = F[Len(segs)] /\ FlattenSeq(y) = G[Len(segs)]
  BY <1>2, <1>3 DEF Flat
<1> QED
  BY <1>6, <1>7
\* What a category must be for the output to be accepted.
Filled == {n \in Nodes : TextOf(n) # NoName}
AllFilled(type, S) == type \in Categorised => \A e \in S : e.category # <<NoName>>

LEMMA CategoryFilled ==
    ASSUME NEW type \in TypeNames, NEW e, ElementOk(type, e), type \in Categorised => e.category # <<NoName>>
    PROVE  In(<<BuildElement(type, e)>>, {"CATEGORY"}) \in Seq(Filled)
<1>1. CASE type \notin Categorised
  <2>1. In(<<BuildElement(type, e)>>, {"CATEGORY"}) = <<>>
    BY <1>1, ElementCategory
  <2>2. <<>> \in Seq(Filled)
    OBVIOUS
  <2> QED BY <2>1, <2>2
<1>2. CASE type \in Categorised
  <2>1. e.category \in Options(Clear)
    BY <1>2, ElementCases DEF Categorised, ClusterOk, EcuOk
  <2>2. PICK x \in Options(Clear) : x = e.category
    BY <2>1
  <2>3. x = <<>> \/ \E v \in Clear : x = <<v>>
    BY OptionIs
  <2>4. In(<<BuildElement(type, e)>>, {"CATEGORY"}) = Text("CATEGORY", x)
    BY <1>2, <2>2, ElementCategory
  <2>5. CASE x = <<>>
    <3>1. "CATEGORY" \in Tags
      BY DEF Tags
    <3>2. Text("CATEGORY", <<>>) = <<>>
      BY <3>1, TextNone
    <3>3. <<>> \in Seq(Filled)
      OBVIOUS
    <3> QED BY <2>4, <2>5, <3>2, <3>3
  <2>6. CASE \E v \in Clear : x = <<v>>
    <3>1. PICK v \in Clear : x = <<v>>
      BY <2>6
    <3>2. "CATEGORY" \in Tags /\ v \in Values
      BY ValueIs DEF Tags
    <3>3. Text("CATEGORY", <<v>>) = <<Leaf("CATEGORY", v)>>
      BY <3>2, LeafText
    <3>4. Leaf("CATEGORY", v) \in Nodes /\ TextOf(Leaf("CATEGORY", v)) = v
      BY <3>2, LeafBuilt
    <3>5. v # NoName
      BY <1>2, <2>2, <3>1
    <3>6. Leaf("CATEGORY", v) \in Filled
      BY <3>4, <3>5 DEF Filled
    <3>7. <<Leaf("CATEGORY", v)>> \in Seq(Filled)
      BY <3>6, OneIs
    <3> QED BY <2>4, <3>1, <3>3, <3>7
  <2> QED BY <2>3, <2>5, <2>6
<1> QED
  BY <1>1, <1>2

LEMMA EachOne ==
    ASSUME NEW S, NEW s \in Seq(S)
    PROVE  /\ [k \in 1..Len(s) |-> <<s[k]>>] \in Seq(Seq(S)) /\ Len([k \in 1..Len(s) |-> <<s[k]>>]) = Len(s)
           /\ FlattenSeq([k \in 1..Len(s) |-> <<s[k]>>]) = s
<1>1. Len(s) \in Nat /\ \A k \in 1..Len(s) : s[k] \in S
  BY SeqIs
<1>2. ASSUME NEW k \in 1..Len(s) PROVE <<s[k]>> \in Seq(S)
  BY <1>1, OneIs
<1>3. PICK t : t = [k \in 1..Len(s) |-> <<s[k]>>]
  OBVIOUS
<1>4. t \in [1..Len(s) -> Seq(S)] /\ \A k \in 1..Len(s) : t[k] = <<s[k]>>
  BY <1>2, <1>3
<1>5. t \in Seq(Seq(S)) /\ Len(t) = Len(s)
  BY <1>1, <1>4, MadeSeq
<1>6. FlattenSeq(t) = s
  BY <1>4, <1>5, FlatEach
<1> QED
  BY <1>3, <1>5, <1>6

LEMMA EmittedFilled ==
    ASSUME NEW type \in TypeNames, NEW S, AllOk(type, S), AllFilled(type, S), NEW s \in Seq(S)
    PROVE  In(Emitted(type, s), {"CATEGORY"}) \in Seq(Filled)
<1>1. PICK y \in Seq(Nodes) : y = Emitted(type, s) /\ Len(y) = Len(s)
  BY EmittedIs
<1>a. PICK t \in Seq(S) : t = sortedCopy(s) /\ Len(t) = Len(s)
  BY SortedItems
<1>2. \A k \in 1..Len(y) : y[k] = BuildElement(type, t[k]) /\ ElementOk(type, t[k])
  BY <1>1, <1>a, EmittedIs
<1>b. Len(y) \in Nat /\ \A k \in 1..Len(y) : t[k] \in S
  BY <1>1, <1>a, SeqIs
<1>3. PICK T : T = {"CATEGORY"}
  OBVIOUS
<1>4. ASSUME NEW k \in 1..Len(y) PROVE In(<<y[k]>>, T) \in Seq(Filled)
  <2>1. type \in Categorised => t[k].category # <<NoName>>
    BY <1>b DEF AllFilled
  <2>2. In(<<BuildElement(type, t[k])>>, {"CATEGORY"}) \in Seq(Filled)
    BY <1>2, <2>1, CategoryFilled
  <2> QED BY <1>2, <1>3, <2>2
<1>5. PICK segs : segs = [k \in 1..Len(y) |-> <<y[k]>>]
  OBVIOUS
<1>6. segs \in Seq(Seq(Nodes)) /\ Len(segs) = Len(y) /\ FlattenSeq(segs) = y
  BY <1>5, EachOne
<1>7. PICK z : z = [k \in 1..Len(y) |-> In(<<y[k]>>, T)]
  OBVIOUS
<1>8. z \in [1..Len(y) -> Seq(Filled)]
  BY <1>4, <1>7
<1>9. z \in Seq(Seq(Filled)) /\ Len(z) = Len(y)
  BY <1>b, <1>8, MadeSeq
<1>10. \A k \in 1..Len(segs) : z[k] = In(segs[k], T)
  BY <1>5, <1>6, <1>7
<1>11. Filled \subseteq Nodes
  BY DEF Filled
<1>12. In(FlattenSeq(segs), T) = FlattenSeq(z)
  <2>1. segs \in Seq(Seq(Nodes)) /\ z \in Seq(Seq(Filled)) /\ Len(z) = Len(segs)
    BY <1>6, <1>9
  <2> QED BY <2>1, <1>10, <1>11, InFlat
<1>13. FlattenSeq(z) \in Seq(Filled)
  BY <1>9, FlatTyped
<1> QED
  BY <1>1, <1>3, <1>6, <1>12, <1>13

--------------------------------------------------------------------------------
(* Projects *)

IsSeq(s) == s \in Seq(ToSet(s))
Releases == {schemaFilenameTable[f] : f \in DOMAIN schemaFilenameTable}

SoundFile(d) ==
    /\ d.autosarRelease \in Releases
    /\ \A type \in TypeNames : IsSeq(d.elements[type]) /\ AllOk(type, ToSet(d.elements[type]))
Sound(p) == IsSeq(p) /\ \A f \in 1..Len(p) : SoundFile(p[f])

ElementsOf(p, type) == UNION {ToSet(p[f].elements[type]) : f \in 1..Len(p)}
Parted(p, type) == [f \in DOMAIN p |-> p[f].elements[type]]

LEMMA SetIs == ASSUME NEW S, NEW s \in Seq(S) PROVE IsSeq(s) /\ ToSet(s) = {s[k] : k \in 1..Len(s)} /\ ToSet(s) \subseteq S
<1>1. Len(s) \in Nat /\ DOMAIN s = 1..Len(s) /\ \A k \in 1..Len(s) : s[k] \in S
  BY SeqIs
<1>2. ToSet(s) = {s[k] : k \in 1..Len(s)}
  BY <1>1 DEF ToSet
<1>3. s \in [1..Len(s) -> ToSet(s)]
  BY <1>1, <1>2
<1>4. s \in Seq(ToSet(s))
  BY <1>1, <1>3, MadeSeq
<1> QED
  BY <1>1, <1>2, <1>4 DEF IsSeq

LEMMA PartedIs ==
    ASSUME NEW p, Sound(p), NEW type \in TypeNames
    PROVE  /\ Len(p) \in Nat /\ DOMAIN p = 1..Len(p)
           /\ Parted(p, type) \in Seq(Seq(ElementsOf(p, type))) /\ Len(Parted(p, type)) = Len(p)
           /\ \A f \in 1..Len(p) : Parted(p, type)[f] = p[f].elements[type]
           /\ AllOk(type, ElementsOf(p, type))
<1>1. p \in Seq(ToSet(p))
  BY DEF Sound, IsSeq
<1>2. Len(p) \in Nat /\ DOMAIN p = 1..Len(p)
  BY <1>1, SeqIs
<1>3. ASSUME NEW f \in 1..Len(p)
      PROVE  p[f].elements[type] \in Seq(ElementsOf(p, type)) /\ AllOk(type, ToSet(p[f].elements[type]))
  <2>1. SoundFile(p[f])
    BY DEF Sound
  <2>2. PICK s : s = p[f].elements[type]
    OBVIOUS
  <2>3. s \in Seq(ToSet(s)) /\ AllOk(type, ToSet(s))
    BY <2>1, <2>2 DEF SoundFile, IsSeq
  <2>4. ToSet(s) \subseteq ElementsOf(p, type)
    BY <2>2 DEF ElementsOf
  <2>5. Seq(ToSet(s)) \subseteq Seq(ElementsOf(p, type))
    BY <2>4, SeqGrows
  <2> QED BY <2>2, <2>3, <2>5
<1>4. Parted(p, type) \in [1..Len(p) -> Seq(ElementsOf(p, type))] /\ \A f \in 1..Len(p) : Parted(p, type)[f] = p[f].elements[type]
  BY <1>2, <1>3 DEF Parted
<1>5. Parted(p, type) \in Seq(Seq(ElementsOf(p, type))) /\ Len(Parted(p, type)) = Len(p)
  BY <1>2, <1>4, MadeSeq
<1>6. AllOk(type, ElementsOf(p, type))
  BY <1>3 DEF AllOk, ElementsOf
<1> QED
  BY <1>2, <1>4, <1>5, <1>6

LEMMA MergedIs ==
    ASSUME NEW p, Sound(p), NEW type \in TypeNames
    PROVE  Merged(p, type) \in Seq(ElementsOf(p, type)) /\ AllOk(type, ElementsOf(p, type))
<1>1. Parted(p, type) \in Seq(Seq(ElementsOf(p, type))) /\ AllOk(type, ElementsOf(p, type))
  BY PartedIs
<1>2. FlattenSeq(Parted(p, type)) \in Seq(ElementsOf(p, type))
  BY <1>1, FlatTyped
<1> QED
  BY <1>1, <1>2 DEF Merged, Parted

LEMMA MergedOne ==
    ASSUME NEW d, SoundFile(d), NEW type \in TypeNames
    PROVE  Merged(<<d>>, type) = d.elements[type]
<1>1. PICK s : s = d.elements[type]
  OBVIOUS
<1>2. s \in Seq(ToSet(s))
  BY <1>1 DEF SoundFile, IsSeq
<1>3. [f \in DOMAIN <<d>> |-> <<d>>[f].elements[type]] = <<s>>
  <2>1. DOMAIN <<d>> = 1..1 /\ <<d>>[1] = d
    OBVIOUS
  <2>2. [f \in DOMAIN <<d>> |-> <<d>>[f].elements[type]] = [f \in 1..1 |-> s]
    BY <1>1, <2>1
  <2> QED BY <2>2
<1>4. FlattenSeq(<<s>>) = s
  BY <1>2, FlatOne
<1> QED
  BY <1>1, <1>3, <1>4 DEF Merged

LEMMA SixMade == ASSUME NEW S, NEW f \in [1..6 -> S] PROVE f \in Seq(S) /\ Len(f) = 6
<1>1. PICK n \in Nat : n = 6
  OBVIOUS
<1>2. f \in [1..n -> S]
  BY <1>1
<1>3. f \in Seq(S) /\ Len(f) = n
  BY <1>2, MadeSeq
<1> QED
  BY <1>1, <1>3

\* What the document has of each type.
Body(p) == [i \in 1..6 |-> Emitted(Types[i], Merged(p, Types[i]))]

LEMMA BodyIs ==
    ASSUME NEW p, Sound(p)
    PROVE  /\ Body(p) \in Seq(Seq(Nodes)) /\ Len(Body(p)) = 6 /\ FlattenSeq(Body(p)) \in Seq(Nodes)
           /\ \A i \in 1..6 : Types[i] \in TypeNames /\ Body(p)[i] = Emitted(Types[i], Merged(p, Types[i]))
<1>1. \A i \in 1..6 : Types[i] \in TypeNames
  BY TypesAre DEF TypeNames
<1>2. ASSUME NEW i \in 1..6 PROVE Emitted(Types[i], Merged(p, Types[i])) \in Seq(Nodes)
  BY <1>1, MergedIs, EmittedIs
<1>3. Body(p) \in [1..6 -> Seq(Nodes)] /\ \A i \in 1..6 : Body(p)[i] = Emitted(Types[i], Merged(p, Types[i]))
  BY <1>2 DEF Body
<1>4. Body(p) \in Seq(Seq(Nodes)) /\ Len(Body(p)) = 6
  BY <1>3, SixMade
<1>5. FlattenSeq(Body(p)) \in Seq(Nodes)
  BY <1>4, FlatTyped
<1> QED
  BY <1>1, <1>3, <1>4, <1>5

\* The tags around the elements.
Around == {"AUTOSAR", "AR-PACKAGES", "AR-PACKAGE", "ELEMENTS", "SHORT-NAME"}
Within(T) == \A tag \in Around : tag \notin T

LEMMA InNamed ==
    ASSUME NEW tag \in Tags, NEW name \in Values, NEW ch \in Seq(Nodes), NEW T, "SHORT-NAME" \notin T
    PROVE  In(<<Titled(tag, name, ch)>>, T) = IF tag \in T THEN <<Titled(tag, name, ch)>> \o In(ch, T) ELSE In(ch, T)
BY NamedBuilt

LEMMA InPackage ==
    ASSUME NEW ch \in Seq(Nodes), NEW T, Within(T) PROVE In(<<Titled("AR-PACKAGE", "Sys", ch)>>, T) = In(ch, T)
<1>1. PICK t \in Tags : t = "AR-PACKAGE"
  BY DEF Tags
<1>2. PICK x \in Values : x = "Sys"
  BY DEF Values, Parts, Words
<1>3. "SHORT-NAME" \notin T /\ t \notin T
  BY <1>1 DEF Within, Around
<1>4. In(<<Titled(t, x, ch)>>, T) = IF t \in T THEN <<Titled(t, x, ch)>> \o In(ch, T) ELSE In(ch, T)
  BY <1>3, InNamed
<1> QED
  BY <1>1, <1>2, <1>3, <1>4

LEMMA RootIs ==
    ASSUME NEW p, Sound(p)
    PROVE  /\ BuildTree(p).root \in Nodes
           /\ \A T : Within(T) => Tagged(BuildTree(p).root, T) = In(FlattenSeq(Body(p)), T)
<1>1. PICK ch \in Seq(Nodes) : ch = FlattenSeq(Body(p))
  BY BodyIs
<1>2. Around \subseteq Tags
  BY DEF Around, Tags
<1>3. "AUTOSAR" \in Tags /\ "AR-PACKAGES" \in Tags /\ "AR-PACKAGE" \in Tags /\ "ELEMENTS" \in Tags
  BY <1>2 DEF Around
<1>4. PICK a \in Nodes : a = Group("ELEMENTS", ch)
  BY <1>3, GroupBuilt
<1>5. PICK sys \in Values : sys = "Sys"
  BY DEF Values, Parts, Words
<1>6. PICK as \in Seq(Nodes) : as = <<a>>
  BY OneIs
<1>7. PICK b \in Nodes : b = Titled("AR-PACKAGE", sys, as)
  BY <1>3, NamedBuilt
<1>8. PICK bs \in Seq(Nodes) : bs = <<b>>
  BY OneIs
<1>9. PICK c \in Nodes : c = Group("AR-PACKAGES", bs)
  BY <1>3, GroupBuilt
<1>10. PICK cs \in Seq(Nodes) : cs = <<c>>
  BY OneIs
<1>11. PICK d \in Nodes : d = Group("AUTOSAR", cs)
  BY <1>3, GroupBuilt
<1>12. BuildTree(p).root = d
  <2>1. [i \in DOMAIN Types |-> Emitted(Types[i], Merged(p, Types[i]))] = Body(p)
    BY TypesAre DEF Body
  <2> QED BY <1>1, <1>4, <1>5, <1>6, <1>7, <1>8, <1>9, <1>10, <1>11, <2>1 DEF BuildTree
<1>13. ASSUME NEW T, Within(T) PROVE Tagged(d, T) = In(ch, T)
  <2>1. "AUTOSAR" \notin T /\ "AR-PACKAGES" \notin T /\ "AR-PACKAGE" \notin T /\ "ELEMENTS" \notin T /\ "SHORT-NAME" \notin T
    BY <1>13 DEF Within, Around
  <2>2. Tagged(d, T) = In(<<d>>, T)
    BY InOne
  <2>3. In(<<d>>, T) = In(cs, T)
    BY <1>3, <1>11, <2>1, InGroup
  <2>4. In(cs, T) = In(bs, T)
    BY <1>3, <1>9, <1>10, <2>1, InGroup
  <2>5. In(bs, T) = In(as, T)
    <3>1. In(<<Titled("AR-PACKAGE", "Sys", as)>>, T) = In(as, T)
      BY <1>13, InPackage
    <3> QED BY <1>5, <1>7, <1>8, <3>1
  <2>6. In(as, T) = In(ch, T)
    BY <1>3, <1>4, <1>6, <2>1, InGroup
  <2> QED BY <2>2, <2>3, <2>4, <2>5, <2>6
<1> QED
  BY <1>1, <1>12, <1>13

LEMMA WrittenIs ==
    ASSUME NEW p, Sound(p), NEW type \in TypeNames
    PROVE  Written(BuildTree(p), type) = Emitted(type, Merged(p, type))
<1>1. PICK segs \in Seq(Seq(Nodes)) : segs = Body(p) /\ Len(segs) = 6
  BY BodyIs
<1>2. PICK T : T = Family[type]
  OBVIOUS
<1>3. Within(T)
  <2>1. type \in {"Cluster", "EcuInstance", "Frame", "Pdu", "Signal", "SignalGroup"}
    BY TypesAre
  <2>2. ASSUME NEW tag \in Around PROVE tag \notin Family[type]
    BY <2>1 DEF Around, Family
  <2> QED BY <2>2, <1>2 DEF Within
<1>4. PICK m \in 1..6 : Types[m] = type
  BY TypesAre DEF TypeNames
<1>5. ASSUME NEW i \in 1..6
      PROVE  In(segs[i], T) = (IF i = m THEN segs[i] ELSE <<>>) /\ In(segs[i], T) \in Seq(Nodes)
  <2>1. PICK other \in TypeNames : other = Types[i] /\ segs[i] = Emitted(other, Merged(p, other))
    BY <1>1, BodyIs
  <2>2. In(segs[i], T) = IF type = other THEN segs[i] ELSE <<>>
    <3>1. Merged(p, other) \in Seq(ElementsOf(p, other)) /\ AllOk(other, ElementsOf(p, other))
      BY MergedIs
    <3>2. In(Emitted(other, Merged(p, other)), Family[type])
            = IF type = other THEN Emitted(other, Merged(p, other)) ELSE <<>>
      BY <3>1, EmittedFamily
    <3> QED BY <1>2, <2>1, <3>2
  <2>3. type = other <=> i = m
    BY <1>4, <2>1 DEF Types
  <2>4. segs[i] \in Seq(Nodes)
    BY <1>1, SeqIs
  <2>5. In(segs[i], T) \in Seq(Nodes)
    BY <2>4, InTyped
  <2> QED BY <2>2, <2>3, <2>5
<1>6. PICK y : y = [i \in 1..6 |-> In(segs[i], T)]
  OBVIOUS
<1>7. y \in [1..6 -> Seq(Nodes)] /\ \A i \in 1..6 : y[i] = In(segs[i], T)
  BY <1>5, <1>6
<1>8. y \in Seq(Seq(Nodes)) /\ Len(y) = 6
  BY <1>7, SixMade
<1>9. In(FlattenSeq(segs), T) = FlattenSeq(y)
  <2>1. Len(y) = Len(segs) /\ \A i \in 1..Len(segs) : y[i] = In(segs[i], T)
    BY <1>1, <1>7, <1>8
  <2>2. Nodes \subseteq Nodes
    OBVIOUS
  <2>3. segs \in Seq(Seq(Nodes)) /\ y \in Seq(Seq(Nodes)) /\ Len(y) = Len(segs) /\ \A i \in 1..Len(segs) : y[i] = In(segs[i], T)
    BY <1>8, <2>1
  <2> QED BY <2>3, <2>2, InFlat, SMTT(30)
<1>10. FlattenSeq(y) = y[m]
  <2>1. \A k \in 1..Len(y) : k # m => y[k] = <<>>
    BY <1>5, <1>7, <1>8
  <2>2. m \in 1..Len(y)
    BY <1>8
  <2> QED BY <1>8, <2>1, <2>2, FlatOnly
<1>11. y[m] = Emitted(type, Merged(p, type))
  <2>1. y[m] = segs[m]
    BY <1>5, <1>7
  <2> QED BY <2>1, <1>1, <1>4, BodyIs
<1>12. Tagged(BuildTree(p).root, T) = In(FlattenSeq(Body(p)), T)
  BY <1>3, RootIs
<1> QED
  BY <1>1, <1>2, <1>9, <1>10, <1>11, <1>12 DEF Written

--------------------------------------------------------------------------------
(* Reading back *)

LEMMA DefaultRelease == "4.4.0" \in Releases
<1>1. "AUTOSAR_00046.xsd" \in DOMAIN schemaFilenameTable /\ schemaFilenameTable["AUTOSAR_00046.xsd"] = "4.4.0"
  BY DEF schemaFilenameTable
<1> QED
  BY <1>1 DEF Releases

LEMMA ReleaseBack ==
    ASSUME NEW release \in Releases
    PROVE  /\ schemaFilenameForRelease(release) \in DOMAIN schemaFilenameTable
           /\ schemaFilenameTable[schemaFilenameForRelease(release)] = release
<1>1. \E f \in DOMAIN schemaFilenameTable : schemaFilenameTable[f] = release
  BY DEF Releases
<1> QED
  BY <1>1 DEF schemaFilenameForRelease

LEMMA ReleaseIs == ASSUME NEW p, Sound(p) PROVE ReleaseOf(p) \in Releases
<1>1. CASE p = <<>>
  BY <1>1, DefaultRelease DEF ReleaseOf
<1>2. CASE p # <<>>
  <2>1. p \in Seq(ToSet(p))
    BY DEF Sound, IsSeq
  <2>2. 1 \in 1..Len(p)
    BY <1>2, <2>1
  <2>3. SoundFile(p[1])
    BY <2>2 DEF Sound
  <2> QED BY <1>2, <2>3 DEF ReleaseOf, SoundFile
<1> QED
  BY <1>1, <1>2

\* What the parser makes of the document of a project.
Back(p) == parseFile(BuildTree(p))

LEMMA BackRelease ==
    ASSUME NEW p, Sound(p) PROVE Resolvable(BuildTree(p)) /\ Back(p).autosarRelease = ReleaseOf(p)
<1>1. PICK name : name = schemaFilenameForRelease(ReleaseOf(p))
  OBVIOUS
<1>2. name \in DOMAIN schemaFilenameTable /\ schemaFilenameTable[name] = ReleaseOf(p)
  BY <1>1, ReleaseIs, ReleaseBack
<1>3. BuildTree(p).location = <<"namespace", name>>
  BY <1>1 DEF BuildTree
<1>4. detectSchemaFilename(BuildTree(p)) = <<name>>
  BY <1>3 DEF detectSchemaFilename
<1>5. Back(p).autosarRelease = schemaFilenameTable[name]
  BY <1>4 DEF Back, parseFile
<1> QED
  BY <1>2, <1>4, <1>5 DEF Resolvable

LEMMA BackElements ==
    ASSUME NEW p, Sound(p), NEW type \in TypeNames
    PROVE  /\ Back(p).elements[type] = [k \in 1..Len(Merged(p, type)) |-> Reread(type, sortedCopy(Merged(p, type))[k])]
           /\ \A k \in 1..Len(Merged(p, type)) : ElementOk(type, sortedCopy(Merged(p, type))[k])
<1>1. PICK s : s = Merged(p, type) /\ s \in Seq(ElementsOf(p, type)) /\ AllOk(type, ElementsOf(p, type))
  BY MergedIs
<1>2. PICK w \in Seq(Nodes) : w = Emitted(type, s) /\ Len(w) = Len(s)
  BY <1>1, EmittedIs
<1>3. \A k \in 1..Len(s) : w[k] = BuildElement(type, sortedCopy(s)[k]) /\ ElementOk(type, sortedCopy(s)[k])
  BY <1>1, <1>2, EmittedIs
<1>4. Tagged(BuildTree(p).root, Family[type]) = w
  BY <1>1, <1>2, WrittenIs DEF Written
<1>5. Back(p).elements[type] = [i \in DOMAIN w |-> Build(type, w[i])]
  BY <1>4 DEF Back, parseFile, buildSubtree
<1>6. DOMAIN w = 1..Len(s)
  BY <1>2, SeqIs
<1> QED
  BY <1>1, <1>3, <1>5, <1>6 DEF Reread

\* The elements of a type read back, in the order they were written.
BackIs(p, type, r) ==
    /\ r \in Seq(ToSet(r)) /\ AllOk(type, ToSet(r)) /\ Len(r) = Len(Merged(p, type))
    /\ \A k \in 1..Len(r) :
         /\ ElementOk(type, sortedCopy(Merged(p, type))[k])
         /\ r[k] = Reread(type, sortedCopy(Merged(p, type))[k])

LEMMA BackTyped ==
    ASSUME NEW p, Sound(p), NEW type \in TypeNames PROVE BackIs(p, type, Back(p).elements[type])
<1>1. PICK n \in Nat : n = Len(Merged(p, type))
  BY MergedIs, SeqIs
<1>2. PICK t : t = sortedCopy(Merged(p, type))
  OBVIOUS
<1>3. PICK r : r = Back(p).elements[type]
  OBVIOUS
<1>4. r = [k \in 1..n |-> Reread(type, t[k])] /\ \A k \in 1..n : ElementOk(type, t[k])
  BY <1>1, <1>2, <1>3, BackElements
<1>5. ToSet(r) = {r[k] : k \in 1..n}
  BY <1>4 DEF ToSet
<1>6. r \in [1..n -> ToSet(r)]
  BY <1>4, <1>5
<1>7. r \in Seq(ToSet(r)) /\ Len(r) = n
  BY <1>6, MadeSeq
<1>8. ASSUME NEW k \in 1..n PROVE ElementOk(type, r[k])
  <2>1. ElementOk(type, t[k]) /\ r[k] = Reread(type, t[k])
    BY <1>4
  <2> QED BY <2>1, RereadIs
<1>9. AllOk(type, ToSet(r))
  BY <1>5, <1>8 DEF AllOk
<1> QED
  BY <1>1, <1>2, <1>3, <1>4, <1>7, <1>9 DEF BackIs

LEMMA BackSound == ASSUME NEW p, Sound(p) PROVE SoundFile(Back(p)) /\ Sound(<<Back(p)>>)
<1>1. Back(p).autosarRelease \in Releases
  BY BackRelease, ReleaseIs
<1>2. ASSUME NEW type \in TypeNames
      PROVE  IsSeq(Back(p).elements[type]) /\ AllOk(type, ToSet(Back(p).elements[type]))
  BY BackTyped DEF BackIs, IsSeq
<1>3. SoundFile(Back(p))
  BY <1>1, <1>2 DEF SoundFile
<1>4. <<Back(p)>> \in Seq({Back(p)})
  BY OneIs
<1>5. Len(<<Back(p)>>) = 1 /\ <<Back(p)>>[1] = Back(p)
  OBVIOUS
<1>6. IsSeq(<<Back(p)>>)
  BY <1>4, SetIs
<1> QED
  BY <1>3, <1>5, <1>6 DEF Sound

\* Elements in the order of their names stay in it.
LEMMA BackOrdered ==
    ASSUME NEW p, Sound(p), NEW type \in TypeNames, NEW r, BackIs(p, type, r)
    PROVE  sortedCopy(r) = r /\ Emitted(type, r) = Emitted(type, Merged(p, type))
<1>1. PICK S : S = ElementsOf(p, type)
  OBVIOUS
<1>2. PICK s \in Seq(S) : s = Merged(p, type) /\ AllOk(type, S)
  BY <1>1, MergedIs
<1>3. PICK R : R = ToSet(r)
  OBVIOUS
<1>4. r \in Seq(R) /\ AllOk(type, R) /\ Len(r) = Len(s)
  BY <1>2, <1>3 DEF BackIs
<1>5. PICK t \in Seq(S) : t = sortedCopy(s) /\ Len(t) = Len(s)
  BY <1>2, SortedItems
<1>6. \A k \in 1..Len(s) : ElementOk(type, t[k]) /\ r[k] = Reread(type, t[k])
  BY <1>2, <1>4, <1>5 DEF BackIs
<1>7. PICK keys \in Seq(Int) : keys = NamesOf(s) /\ Len(keys) = Len(s)
  BY <1>2, NamesAre
<1>8. \A k \in 1..Len(s) : keys[k] = s[k].name
  BY <1>2, <1>7, NamesAre
<1>9. PICK given \in Seq(Int) : given = NamesOf(r) /\ Len(given) = Len(r)
  BY <1>4, NamesAre
<1>10. \A k \in 1..Len(s) : given[k] = r[k].name
  BY <1>4, <1>9, NamesAre
<1>11. \A k \in 1..Len(s) : t[k] = s[Place(keys, k)] /\ Place(keys, k) \in 1..Len(s)
  BY <1>2, <1>5, <1>7, SortedItems
<1>12. \A k \in 1..Len(r) : given[k] = keys[Place(keys, k)]
  <2>1. ASSUME NEW k \in 1..Len(s) PROVE given[k] = keys[Place(keys, k)]
    <3>1. r[k].name = t[k].name
      BY <1>6, RereadIs
    <3>2. keys[Place(keys, k)] = s[Place(keys, k)].name
      BY <1>8, <1>11
    <3> QED BY <3>1, <3>2, <1>10, <1>11
  <2> QED BY <2>1, <1>4
<1>13. SortedBy(r, given) = r
  <2>1. Len(keys) = Len(r) /\ Len(given) = Len(r)
    BY <1>4, <1>7, <1>9
  <2> QED BY <1>4, <1>12, <2>1, SortedAgain
<1>14. sortedCopy(r) = r
  BY <1>9, <1>13 DEF sortedCopy
<1>15. PICK a \in Seq(Nodes) : a = Emitted(type, r) /\ Len(a) = Len(r)
  BY <1>4, EmittedIs
<1>16. \A k \in 1..Len(r) : a[k] = BuildElement(type, r[k])
  BY <1>4, <1>14, <1>15, EmittedIs
<1>17. PICK b \in Seq(Nodes) : b = Emitted(type, s) /\ Len(b) = Len(s)
  BY <1>2, EmittedIs
<1>18. \A k \in 1..Len(s) : b[k] = BuildElement(type, t[k])
  BY <1>2, <1>5, <1>17, EmittedIs
<1>19. \A k \in 1..Len(a) : a[k] = b[k]
  <2>1. ASSUME NEW k \in 1..Len(s) PROVE a[k] = b[k]
    <3>1. BuildElement(type, r[k]) = BuildElement(type, t[k])
      BY <1>6, RereadIs
    <3> QED BY <3>1, <1>4, <1>16, <1>18
  <2> QED BY <2>1, <1>4, <1>15
<1>20. Len(a) = Len(b)
  BY <1>4, <1>15, <1>17
<1>21. a = b
  BY <1>19, <1>20, SameSeq
<1> QED
  BY <1>2, <1>14, <1>15, <1>17, <1>21

\* A document read back is written the same.
LEMMA BackAgain == ASSUME NEW p, Sound(p) PROVE BuildTree(<<Back(p)>>) = BuildTree(p)
<1>1. PICK d : d = Back(p) /\ SoundFile(d)
  BY BackSound
<1>2. ReleaseOf(<<d>>) = ReleaseOf(p)
  <2>1. <<d>> # <<>> /\ <<d>>[1] = d
    OBVIOUS
  <2> QED BY <1>1, <2>1, BackRelease DEF ReleaseOf
<1>3. ASSUME NEW type \in TypeNames PROVE Emitted(type, Merged(<<d>>, type)) = Emitted(type, Merged(p, type))
  BY <1>1, MergedOne, BackTyped, BackOrdered
<1>4. \A i \in DOMAIN Types : Types[i] \in TypeNames
  BY DEF TypeNames
<1>5. [i \in DOMAIN Types |-> Emitted(Types[i], Merged(<<d>>, Types[i]))]
        = [i \in DOMAIN Types |-> Emitted(Types[i], Merged(p, Types[i]))]
  BY <1>3, <1>4
<1> QED
  BY <1>1, <1>2, <1>5 DEF BuildTree

KeptIn(type, s) == [i \in DOMAIN s |-> Kept(type, s[i])]

LEMMA KeptInIs ==
    ASSUME NEW type, NEW S, NEW s \in Seq(S)
    PROVE  /\ KeptIn(type, s) \in Seq({Kept(type, e) : e \in S}) /\ Len(KeptIn(type, s)) = Len(s)
           /\ \A k \in 1..Len(s) : KeptIn(type, s)[k] = Kept(type, s[k])
<1>1. Len(s) \in Nat /\ DOMAIN s = 1..Len(s) /\ \A k \in 1..Len(s) : s[k] \in S
  BY SeqIs
<1>2. KeptIn(type, s) \in [1..Len(s) -> {Kept(type, e) : e \in S}] /\ \A k \in 1..Len(s) : KeptIn(type, s)[k] = Kept(type, s[k])
  BY <1>1 DEF KeptIn
<1> QED
  BY <1>1, <1>2, MadeSeq

LEMMA BackKept ==
    ASSUME NEW p, Sound(p), NEW type \in TypeNames, NEW r, BackIs(p, type, r)
    PROVE  BagOf(KeptIn(type, r)) = BagOf(KeptIn(type, Merged(p, type)))
<1>1. PICK S : S = ElementsOf(p, type)
  OBVIOUS
<1>2. PICK s \in Seq(S) : s = Merged(p, type) /\ AllOk(type, S)
  BY <1>1, MergedIs
<1>3. PICK t \in Seq(S) : t = sortedCopy(s) /\ Len(t) = Len(s)
  BY <1>2, SortedItems
<1>4. r \in Seq(ToSet(r)) /\ Len(r) = Len(s) /\ \A k \in 1..Len(s) : ElementOk(type, t[k]) /\ r[k] = Reread(type, t[k])
  BY <1>2, <1>3 DEF BackIs
<1>5. PICK keys \in Seq(Int) : keys = NamesOf(s) /\ Len(keys) = Len(s)
  BY <1>2, NamesAre
<1>6. \A k \in 1..Len(s) : t[k] = s[Place(keys, k)] /\ Place(keys, k) \in 1..Len(s)
  BY <1>2, <1>3, <1>5, SortedItems
<1>7. PICK K : K = {Kept(type, e) : e \in S}
  OBVIOUS
<1>8. PICK ks \in Seq(K) : ks = KeptIn(type, s) /\ Len(ks) = Len(s)
  BY <1>7, KeptInIs
<1>9. \A k \in 1..Len(s) : ks[k] = Kept(type, s[k])
  BY <1>8, KeptInIs
<1>10. PICK z \in Seq(K) : z = SortedBy(ks, keys) /\ Len(z) = Len(ks)
  BY <1>5, <1>8, SortedIs
<1>11. \A k \in 1..Len(ks) : z[k] = ks[Place(keys, k)]
  BY <1>5, <1>8, <1>10, SortedAt
<1>12. BagOf(z) = BagOf(ks)
  BY <1>5, <1>8, <1>10, BagSorted
<1>13. PICK y : y = KeptIn(type, r)
  OBVIOUS
<1>14. Len(y) = Len(r) /\ \A k \in 1..Len(r) : y[k] = Kept(type, r[k])
  BY <1>4, <1>13, KeptInIs
<1>15. \A k \in 1..Len(y) : y[k] = z[k]
  <2>1. ASSUME NEW k \in 1..Len(s) PROVE y[k] = z[k]
    <3>1. y[k] = Kept(type, t[k])
      <4>1. PICK e : e = t[k] /\ ElementOk(type, e) /\ r[k] = Reread(type, e)
        BY <1>4
      <4>2. Kept(type, Reread(type, e)) = Kept(type, e)
        BY <4>1, RereadIs
      <4>3. y[k] = Kept(type, r[k])
        BY <1>4, <1>14
      <4> QED BY <4>1, <4>2, <4>3
    <3>2. z[k] = Kept(type, s[Place(keys, k)])
      BY <1>6, <1>8, <1>9, <1>11
    <3> QED BY <3>1, <3>2, <1>6
  <2> QED BY <2>1, <1>4, <1>14
<1>16. y \in Seq({Kept(type, e) : e \in ToSet(r)}) /\ Len(y) = Len(z)
  BY <1>4, <1>8, <1>10, <1>13, <1>14, KeptInIs
<1>17. y = z
  <2>1. \A k \in 1..Len(y) : y[k] \in K
    <3>1. \A k \in 1..Len(z) : z[k] \in K
      BY SeqIs
    <3> QED BY <3>1, <1>15, <1>16
  <2>2. Len(y) \in Nat /\ DOMAIN y = 1..Len(y) /\ y \in [1..Len(y) -> {Kept(type, e) : e \in ToSet(r)}]
    BY <1>16
  <2>3. y \in [1..Len(y) -> K]
    BY <2>1, <2>2
  <2>4. y \in Seq(K)
    BY <2>2, <2>3, MadeSeq
  <2> QED BY <1>15, <1>16, <2>4, SameSeq
<1> QED
  BY <1>2, <1>8, <1>12, <1>13, <1>17

LEMMA BackKeeps == ASSUME NEW p, Sound(p) PROVE KeptOf(<<Back(p)>>) = KeptOf(p)
<1>1. PICK d : d = Back(p) /\ SoundFile(d)
  BY BackSound
<1>2. ASSUME NEW type \in TypeNames
      PROVE  BagOf(KeptIn(type, Merged(<<d>>, type))) = BagOf(KeptIn(type, Merged(p, type)))
  BY <1>1, MergedOne, BackTyped, BackKept
<1> QED
  BY <1>1, <1>2 DEF KeptOf, KeptIn

--------------------------------------------------------------------------------
(* Sequences without repetition *)

LEMMA InjectiveIs ==
    ASSUME NEW S, NEW s \in Seq(S) PROVE IsInjective(s) <=> \A i, j \in 1..Len(s) : s[i] = s[j] => i = j
<1>1. DOMAIN s = 1..Len(s)
  BY SeqIs
<1> QED
  BY <1>1 DEF IsInjective

LEMMA JoinSet == ASSUME NEW S, NEW a \in Seq(S), NEW b \in Seq(S) PROVE ToSet(a \o b) = ToSet(a) \cup ToSet(b)
<1>1. PICK c \in Seq(S) : c = a \o b /\ Len(c) = Len(a) + Len(b)
  BY JoinIs
<1>2. (\A k \in 1..Len(a) : c[k] = a[k]) /\ (\A k \in 1..Len(b) : c[Len(a) + k] = b[k])
  BY <1>1, JoinIs
<1>3. Len(a) \in Nat /\ Len(b) \in Nat
  BY SeqIs
<1>4. ToSet(a) = {a[k] : k \in 1..Len(a)} /\ ToSet(b) = {b[k] : k \in 1..Len(b)} /\ ToSet(c) = {c[k] : k \in 1..Len(c)}
  BY SetIs
<1>5. ASSUME NEW x \in ToSet(c) PROVE x \in ToSet(a) \cup ToSet(b)
  <2>1. PICK k \in 1..Len(c) : x = c[k]
    BY <1>4
  <2>2. CASE k <= Len(a)
    <3>1. k \in 1..Len(a)
      BY <1>3, <2>2
    <3> QED BY <1>2, <1>4, <2>1, <3>1
  <2>3. CASE k > Len(a)
    <3>1. k - Len(a) \in 1..Len(b) /\ Len(a) + (k - Len(a)) = k
      BY <1>1, <1>3, <2>3
    <3>2. c[k] = b[k - Len(a)]
      BY <1>2, <3>1
    <3> QED BY <1>4, <2>1, <3>1, <3>2
  <2> QED BY <1>1, <1>3, <2>2, <2>3
<1>6. ASSUME NEW x \in ToSet(a) \cup ToSet(b) PROVE x \in ToSet(c)
  <2>1. CASE x \in ToSet(a)
    <3>1. PICK k \in 1..Len(a) : x = a[k]
      BY <1>4, <2>1
    <3>2. k \in 1..Len(c) /\ c[k] = a[k]
      BY <1>1, <1>2, <1>3
    <3> QED BY <1>4, <3>1, <3>2
  <2>2. CASE x \in ToSet(b)
    <3>1. PICK k \in 1..Len(b) : x = b[k]
      BY <1>4, <2>2
    <3>2. Len(a) + k \in 1..Len(c) /\ c[Len(a) + k] = b[k]
      BY <1>1, <1>2, <1>3
    <3> QED BY <1>4, <3>1, <3>2
  <2> QED BY <2>1, <2>2
<1> QED
  BY <1>1, <1>5, <1>6

LEMMA JoinInjective ==
    ASSUME NEW S, NEW a \in Seq(S), NEW b \in Seq(S)
    PROVE  IsInjective(a \o b) <=> IsInjective(a) /\ IsInjective(b) /\ ToSet(a) \cap ToSet(b) = {}
<1>1. PICK c \in Seq(S) : c = a \o b /\ Len(c) = Len(a) + Len(b)
  BY JoinIs
<1>2. (\A k \in 1..Len(a) : c[k] = a[k]) /\ (\A k \in 1..Len(b) : c[Len(a) + k] = b[k])
  BY <1>1, JoinIs
<1>3. Len(a) \in Nat /\ Len(b) \in Nat
  BY SeqIs
<1>4. ToSet(a) = {a[k] : k \in 1..Len(a)} /\ ToSet(b) = {b[k] : k \in 1..Len(b)}
  BY SetIs
<1>5. /\ IsInjective(a) <=> \A i, j \in 1..Len(a) : a[i] = a[j] => i = j
      /\ IsInjective(b) <=> \A i, j \in 1..Len(b) : b[i] = b[j] => i = j
      /\ IsInjective(c) <=> \A i, j \in 1..Len(c) : c[i] = c[j] => i = j
  BY InjectiveIs
<1>6. ASSUME IsInjective(c) PROVE IsInjective(a) /\ IsInjective(b) /\ ToSet(a) \cap ToSet(b) = {}
  <2>1. ASSUME NEW i \in 1..Len(a), NEW j \in 1..Len(a), a[i] = a[j] PROVE i = j
    <3>1. i \in 1..Len(c) /\ j \in 1..Len(c) /\ c[i] = c[j]
      BY <1>1, <1>2, <1>3, <2>1
    <3> QED BY <1>5, <1>6, <3>1
  <2>2. ASSUME NEW i \in 1..Len(b), NEW j \in 1..Len(b), b[i] = b[j] PROVE i = j
    <3>1. Len(a) + i \in 1..Len(c) /\ Len(a) + j \in 1..Len(c)
      BY <1>1, <1>3
    <3>2. c[Len(a) + i] = c[Len(a) + j]
      BY <1>2, <2>2
    <3>3. Len(a) + i = Len(a) + j
      BY <1>5, <1>6, <3>1, <3>2
    <3> QED BY <1>3, <3>3
  <2>3. ASSUME NEW x \in ToSet(a) \cap ToSet(b) PROVE FALSE
    <3>1. PICK i \in 1..Len(a) : x = a[i]
      BY <1>4
    <3>2. PICK j \in 1..Len(b) : x = b[j]
      BY <1>4
    <3>3. i \in 1..Len(c) /\ Len(a) + j \in 1..Len(c) /\ i # Len(a) + j
      BY <1>1, <1>3
    <3>4. c[i] = c[Len(a) + j]
      BY <1>2, <3>1, <3>2
    <3> QED BY <1>5, <1>6, <3>3, <3>4
  <2> QED BY <1>5, <2>1, <2>2, <2>3
<1>7. ASSUME IsInjective(a), IsInjective(b), ToSet(a) \cap ToSet(b) = {} PROVE IsInjective(c)
  <2>1. ASSUME NEW i \in 1..Len(c), NEW j \in 1..Len(c), c[i] = c[j], i <= Len(a) PROVE i = j
    <3>1. i \in 1..Len(a) /\ c[i] = a[i]
      BY <1>2, <1>3, <2>1
    <3>2. CASE j <= Len(a)
      <4>1. j \in 1..Len(a) /\ c[j] = a[j]
        BY <1>2, <1>3, <3>2
      <4> QED BY <1>5, <1>7, <2>1, <3>1, <4>1
    <3>3. CASE j > Len(a)
      <4>1. j - Len(a) \in 1..Len(b) /\ Len(a) + (j - Len(a)) = j
        BY <1>1, <1>3, <3>3
      <4>2. c[j] = b[j - Len(a)]
        BY <1>2, <4>1
      <4>3. a[i] \in ToSet(a) /\ b[j - Len(a)] \in ToSet(b)
        BY <1>4, <3>1, <4>1
      <4> QED BY <1>7, <2>1, <3>1, <4>2, <4>3
    <3> QED BY <1>1, <1>3, <3>2, <3>3
  <2>2. ASSUME NEW i \in 1..Len(c), NEW j \in 1..Len(c), c[i] = c[j], i > Len(a), j > Len(a) PROVE i = j
    <3>1. i - Len(a) \in 1..Len(b) /\ Len(a) + (i - Len(a)) = i /\ j - Len(a) \in 1..Len(b) /\ Len(a) + (j - Len(a)) = j
      BY <1>1, <1>3, <2>2
    <3>2. c[i] = b[i - Len(a)] /\ c[j] = b[j - Len(a)]
      BY <1>2, <3>1
    <3>3. i - Len(a) = j - Len(a)
      BY <1>5, <1>7, <2>2, <3>1, <3>2
    <3> QED BY <1>1, <1>3, <3>3
  <2>3. \A i, j \in 1..Len(c) : c[i] = c[j] => i = j
    <3>1. ASSUME NEW i \in 1..Len(c), NEW j \in 1..Len(c), c[i] = c[j] PROVE i = j
      <4>1. i \in Nat /\ j \in Nat
        BY <1>1, <1>3
      <4> QED BY <1>3, <2>1, <2>2, <3>1, <4>1
    <3> QED BY <3>1
  <2> QED BY <1>5, <2>3
<1> QED
  BY <1>1, <1>6, <1>7

\* The first n of some sequences have nothing twice.
Apart(s, n) ==
    /\ \A k \in 1..n : IsInjective(s[k])
    /\ \A k, l \in 1..n : k < l => ToSet(s[k]) \cap ToSet(s[l]) = {}
Covered(s, n) == UNION {ToSet(s[k]) : k \in 1..n}

LEMMA FlatApart ==
    ASSUME NEW T, NEW s \in Seq(Seq(T))
    PROVE  (IsInjective(FlattenSeq(s)) <=> Apart(s, Len(s))) /\ ToSet(FlattenSeq(s)) = Covered(s, Len(s))
<1>1. Len(s) \in Nat /\ \A k \in 1..Len(s) : s[k] \in Seq(T)
  BY SeqIs
<1>2. PICK F \in [0..Len(s) -> Seq(T)] : Flat(F, s)
  BY Flattened
<1> DEFINE P == {k \in 0..Len(s) : (IsInjective(F[k]) <=> Apart(s, k)) /\ ToSet(F[k]) = Covered(s, k)}
<1>4. 0 \in P
  <2>1. F[0] = <<>> /\ 0 \in 0..Len(s)
    BY <1>1, <1>2 DEF Flat
  <2>2. IsInjective(<<>>) /\ ToSet(<<>>) = {}
    BY DEF IsInjective, ToSet
  <2>3. Apart(s, 0) /\ Covered(s, 0) = {}
    BY DEF Apart, Covered
  <2> QED BY <2>1, <2>2, <2>3
<1>5. ASSUME NEW k \in 1..Len(s), k - 1 \in P PROVE k \in P
  <2>1. F[k] = F[k - 1] \o s[k]
    BY <1>2 DEF Flat
  <2>2. (IsInjective(F[k - 1]) <=> Apart(s, k - 1)) /\ ToSet(F[k - 1]) = Covered(s, k - 1)
    BY <1>5
  <2>3. k \in 0..Len(s) /\ k - 1 \in 0..Len(s)
    BY <1>1
  <2> HIDE DEF P
  <2>4. PICK a \in Seq(T) : a = F[k - 1]
    BY <1>2, <2>3
  <2>5. PICK b \in Seq(T) : b = s[k]
    BY <1>1
  <2>6. /\ IsInjective(a \o b) <=> IsInjective(a) /\ IsInjective(b) /\ ToSet(a) \cap ToSet(b) = {}
        /\ ToSet(a \o b) = ToSet(a) \cup ToSet(b)
    BY JoinInjective, JoinSet
  <2>7. Covered(s, k) = Covered(s, k - 1) \cup ToSet(s[k])
    <3>1. 1..k = (1..(k - 1)) \cup {k}
      BY <1>1
    <3> QED BY <3>1 DEF Covered
  <2>8. Apart(s, k) <=> Apart(s, k - 1) /\ IsInjective(s[k]) /\ Covered(s, k - 1) \cap ToSet(s[k]) = {}
    <3>1. 1..k = (1..(k - 1)) \cup {k} /\ k \in Nat
      BY <1>1
    <3>2. ASSUME Apart(s, k) PROVE Apart(s, k - 1) /\ IsInjective(s[k]) /\ Covered(s, k - 1) \cap ToSet(s[k]) = {}
      <4>1. Apart(s, k - 1) /\ IsInjective(s[k])
        BY <3>1, <3>2 DEF Apart
      <4>2. ASSUME NEW j \in 1..(k - 1) PROVE ToSet(s[j]) \cap ToSet(s[k]) = {}
        <5>1. j \in 1..k /\ k \in 1..k /\ j < k
          BY <3>1
        <5> QED BY <3>2, <5>1 DEF Apart
      <4>3. Covered(s, k - 1) \cap ToSet(s[k]) = {}
        BY <4>2 DEF Covered
      <4> QED BY <4>1, <4>3
    <3>3. ASSUME Apart(s, k - 1), IsInjective(s[k]), Covered(s, k - 1) \cap ToSet(s[k]) = {} PROVE Apart(s, k)
      <4>1. \A j \in 1..k : IsInjective(s[j])
        BY <3>1, <3>3 DEF Apart
      <4>2. ASSUME NEW i \in 1..k, NEW j \in 1..k, i < j PROVE ToSet(s[i]) \cap ToSet(s[j]) = {}
        <5>1. CASE j = k
          <6>1. i \in 1..(k - 1)
            BY <3>1, <4>2, <5>1
          <6>2. ToSet(s[i]) \subseteq Covered(s, k - 1)
            BY <6>1 DEF Covered
          <6> QED BY <3>3, <5>1, <6>2
        <5>2. CASE j # k
          <6>1. i \in 1..(k - 1) /\ j \in 1..(k - 1)
            BY <3>1, <4>2, <5>2
          <6> QED BY <3>3, <4>2, <6>1 DEF Apart
        <5> QED BY <5>1, <5>2
      <4> QED BY <4>1, <4>2 DEF Apart
    <3> QED BY <3>2, <3>3
  <2>9. (IsInjective(F[k]) <=> Apart(s, k)) /\ ToSet(F[k]) = Covered(s, k)
    BY <2>1, <2>2, <2>4, <2>5, <2>6, <2>7, <2>8
  <2> QED BY <2>3, <2>9 DEF P
<1>6. Len(s) \in P
  <2>0. Len(s) \in 0..Len(s) /\ Len(s) \in Nat
    BY <1>1
  <2> HIDE DEF P
  <2>1. 0..Len(s) \subseteq P
    BY <1>4, <1>5, <2>0, Turns
  <2> QED BY <2>0, <2>1
<1>7. FlattenSeq(s) = F[Len(s)]
  BY <1>2 DEF Flat
<1> QED
  BY <1>6, <1>7

--------------------------------------------------------------------------------
(* Projects whose order does not matter *)

NameLists(p) == [i \in 1..6 |-> NamesOf(Merged(p, Types[i]))]

LEMMA NameListsAre ==
    ASSUME NEW p, Sound(p)
    PROVE  /\ NameLists(p) \in Seq(Seq(Clear)) /\ Len(NameLists(p)) = 6 /\ Names(p) = FlattenSeq(NameLists(p))
           /\ \A i \in 1..6 : Types[i] \in TypeNames /\ NameLists(p)[i] = NamesOf(Merged(p, Types[i]))
<1>1. \A i \in 1..6 : Types[i] \in TypeNames
  BY TypesAre DEF TypeNames
<1>2. ASSUME NEW i \in 1..6 PROVE NamesOf(Merged(p, Types[i])) \in Seq(Clear)
  BY <1>1, MergedIs, NamesAre
<1>3. NameLists(p) \in [1..6 -> Seq(Clear)] /\ \A i \in 1..6 : NameLists(p)[i] = NamesOf(Merged(p, Types[i]))
  BY <1>2 DEF NameLists
<1>4. NameLists(p) \in Seq(Seq(Clear)) /\ Len(NameLists(p)) = 6
  BY <1>3, SixMade
<1>5. Names(p) = FlattenSeq(NameLists(p))
  BY TypesAre DEF Names, NameLists
<1> QED
  BY <1>1, <1>3, <1>4, <1>5

LEMMA NamesDistinct ==
    ASSUME NEW p, Sound(p), Determined(p), NEW type \in TypeNames PROVE IsInjective(NamesOf(Merged(p, type)))
<1>1. PICK s \in Seq(Seq(Clear)) : s = NameLists(p) /\ Len(s) = 6
  BY NameListsAre
<1>2. IsInjective(FlattenSeq(s))
  BY <1>1, NameListsAre DEF Determined
<1>3. Apart(s, Len(s))
  BY <1>2, FlatApart
<1>4. PICK m \in 1..6 : Types[m] = type
  BY TypesAre DEF TypeNames
<1>5. IsInjective(s[m])
  BY <1>1, <1>3 DEF Apart
<1> QED
  BY <1>1, <1>4, <1>5, NameListsAre

LEMMA Shuffled ==
    ASSUME NEW p, Sound(p), Determined(p), NEW type \in TypeNames, NEW t \in Shuffles(Merged(p, type))
    PROVE  Emitted(type, t) = Emitted(type, Merged(p, type))
<1>1. PICK S : S = ElementsOf(p, type)
  OBVIOUS
<1>2. PICK s \in Seq(S) : s = Merged(p, type) /\ AllOk(type, S)
  BY <1>1, MergedIs
<1>3. PICK n \in Nat : n = Len(s) /\ DOMAIN s = 1..n /\ \A k \in 1..n : s[k] \in S
  BY SeqIs
<1>4. PICK q \in [1..n -> 1..n] : IsInjective(q) /\ t = [i \in 1..n |-> ReversedLists(s[q[i]])]
  BY <1>2, <1>3 DEF Shuffles
<1>5. q \in Perms(n)
  BY <1>4 DEF IsInjective, Perms
<1>6. \A k \in 1..n : KeysUnique(s[k]) /\ ElementOk(type, s[k])
  <2>1. ToSet(s) = {s[k] : k \in 1..n}
    BY <1>3, SetIs
  <2>2. ASSUME NEW k \in 1..n PROVE KeysUnique(s[k]) /\ ElementOk(type, s[k])
    <3>1. s[k] \in ToSet(Merged(p, type))
      BY <1>2, <2>1
    <3>2. ElementOk(type, s[k])
      BY <1>2, <1>3, OkIs
    <3> QED BY <3>1, <3>2 DEF Determined
  <2> QED BY <2>2
<1>7. \A k \in 1..n : /\ ReversedLists(s[k]).name = s[k].name
                      /\ BuildElement(type, ReversedLists(s[k])) = BuildElement(type, s[k])
  BY <1>6, ElementTurned
<1>8. PICK keys \in Seq(Int) : keys = NamesOf(s) /\ Len(keys) = n
  BY <1>2, <1>3, NamesAre
<1>9. \A k \in 1..n : keys[k] = s[k].name
  BY <1>2, <1>3, <1>8, NamesAre
<1>10. PICK given : given = NamesOf(t)
  OBVIOUS
<1>11. \A k \in 1..n : q[k] \in 1..n /\ t[k] = ReversedLists(s[q[k]])
  BY <1>4
<1>12. given = [k \in 1..n |-> t[k].name]
  BY <1>4, <1>10 DEF NamesOf
<1>13. \A k \in 1..n : given[k] = keys[q[k]]
  BY <1>7, <1>9, <1>11, <1>12
<1>14. given \in Seq(Int) /\ Len(given) = n
  <2>1. \A k \in 1..n : keys[k] \in Int
    BY <1>8, SeqIs
  <2>2. given \in [1..n -> Int]
    BY <1>11, <1>12, <1>13, <2>1
  <2> QED BY <2>2, MadeSeq
<1>15. t \in Seq(ToSet(t)) /\ Len(t) = n
  <2>1. t \in [1..n -> ToSet(t)]
    <3>1. DOMAIN t = 1..n
      BY <1>4
    <3>2. ToSet(t) = {t[k] : k \in 1..n}
      BY <3>1 DEF ToSet
    <3> QED BY <1>4, <3>2
  <2> QED BY <2>1, MadeSeq
<1>16. PICK T : T = ToSet(t)
  OBVIOUS
<1>17. t \in Seq(T) /\ Len(given) = Len(t)
  BY <1>14, <1>15, <1>16
<1>18. PICK b \in Seq(T) : b = SortedBy(t, given) /\ Len(b) = n
  BY <1>14, <1>15, <1>17, SortedIs
<1>19. \A k \in 1..Len(t) : b[k] = t[Place(given, k)] /\ Place(given, k) \in 1..Len(t)
  BY <1>14, <1>17, <1>18, SortedAt
<1>20. \A i, j \in 1..n : keys[i] = keys[j] => i = j
  <2>1. IsInjective(keys)
    BY <1>2, <1>8, NamesDistinct
  <2> QED BY <2>1, <1>8, InjectiveIs
<1>21. ASSUME NEW k \in 1..n PROVE q[Place(given, k)] = Place(keys, k)
  <2>1. Len(given) = Len(keys) /\ q \in Perms(Len(keys)) /\ k \in 1..Len(keys)
    BY <1>5, <1>8, <1>14
  <2>2. (\A i \in 1..Len(keys) : given[i] = keys[q[i]]) /\ (\A i, j \in 1..Len(keys) : keys[i] = keys[j] => i = j)
    BY <1>8, <1>13, <1>20
  <2>3. PICK g \in Seq(Int) : g = given
    BY <1>14
  <2>4. Len(g) = Len(keys) /\ \A i \in 1..Len(keys) : g[i] = keys[q[i]]
    BY <2>1, <2>2, <2>3
  <2>5. \A i, j \in 1..Len(keys) : keys[i] = keys[j] => i = j
    BY <2>2
  <2>6. q[Place(g, k)] = Place(keys, k)
    BY <2>1, <2>4, <2>5, Reordered, ZenonT(40)
  <2> QED BY <2>3, <2>6
<1>22. PICK a \in Seq(S) : a = sortedCopy(s) /\ Len(a) = n
  BY <1>2, <1>3, SortedItems
<1>23. \A k \in 1..n : a[k] = s[Place(keys, k)] /\ Place(keys, k) \in 1..n
  BY <1>2, <1>3, <1>8, <1>22, SortedItems
<1>24. ASSUME NEW k \in 1..n PROVE BuildElement(type, b[k]) = BuildElement(type, a[k])
  <2>1. b[k] = t[Place(given, k)] /\ Place(given, k) \in 1..n
    BY <1>15, <1>19
  <2>2. b[k] = ReversedLists(s[Place(keys, k)])
    BY <1>11, <1>21, <2>1
  <2>3. BuildElement(type, ReversedLists(s[Place(keys, k)])) = BuildElement(type, s[Place(keys, k)])
    BY <1>7, <1>23
  <2> QED BY <1>23, <2>2, <2>3
<1>25. DOMAIN a = 1..n /\ DOMAIN b = 1..n
  <2>1. DOMAIN a = 1..Len(a) /\ DOMAIN b = 1..Len(b)
    BY SeqIs
  <2> QED BY <2>1, <1>18, <1>22
<1>26. Emitted(type, t) = [k \in 1..n |-> BuildElement(type, b[k])]
  BY <1>10, <1>18, <1>25 DEF Emitted, sortedCopy
<1>27. Emitted(type, s) = [k \in 1..n |-> BuildElement(type, a[k])]
  BY <1>22, <1>25 DEF Emitted
<1> QED
  BY <1>2, <1>24, <1>26, <1>27

--------------------------------------------------------------------------------
(* No empty category, no empty text *)

LEMMA BodyFilled ==
    ASSUME NEW p, Sound(p), \A type \in TypeNames : AllFilled(type, ElementsOf(p, type))
    PROVE  In(FlattenSeq(Body(p)), {"CATEGORY"}) \in Seq(Filled)
<1>1. PICK segs \in Seq(Seq(Nodes)) : segs = Body(p) /\ Len(segs) = 6
  BY BodyIs
<1>2. ASSUME NEW i \in 1..6 PROVE In(segs[i], {"CATEGORY"}) \in Seq(Filled)
  <2>1. PICK type \in TypeNames : type = Types[i] /\ segs[i] = Emitted(type, Merged(p, type))
    BY <1>1, BodyIs
  <2>2. PICK S : S = ElementsOf(p, type)
    OBVIOUS
  <2>3. PICK s \in Seq(S) : s = Merged(p, type) /\ AllOk(type, S)
    BY <2>2, MergedIs
  <2>4. AllFilled(type, S)
    BY <2>2
  <2>5. In(Emitted(type, s), {"CATEGORY"}) \in Seq(Filled)
    BY <2>3, <2>4, EmittedFilled
  <2> QED BY <2>1, <2>3, <2>5
<1>3. PICK T : T = {"CATEGORY"}
  OBVIOUS
<1>4. PICK y : y = [i \in 1..6 |-> In(segs[i], T)]
  OBVIOUS
<1>5. y \in [1..6 -> Seq(Filled)] /\ \A i \in 1..6 : y[i] = In(segs[i], T)
  BY <1>2, <1>3, <1>4
<1>6. y \in Seq(Seq(Filled)) /\ Len(y) = 6
  BY <1>5, SixMade
<1>7. Len(y) = Len(segs) /\ \A i \in 1..Len(segs) : y[i] = In(segs[i], T)
  BY <1>1, <1>5, <1>6
<1>8. Filled \subseteq Nodes
  BY DEF Filled
<1>9. In(FlattenSeq(segs), T) = FlattenSeq(y)
  <2>1. y \in Seq(Seq(Filled)) /\ Len(y) = Len(segs)
    BY <1>6, <1>7
  <2>2. \A i \in 1..Len(segs) : y[i] = In(segs[i], T)
    BY <1>7
  <2> QED BY <2>1, <2>2, <1>8, InFlat
<1>10. FlattenSeq(y) \in Seq(Filled)
  BY <1>6, FlatTyped
<1> QED
  BY <1>1, <1>3, <1>9, <1>10

LEMMA TaggedHas ==
    ASSUME NEW X, NEW s \in Forests(X), NEW T, NEW i \in 1..Len(s), s[i].tag \in T
    PROVE  Subtree(s, i) \in ToSet(Tagged(s, T))
<1>1. PICK h \in Seq(Seq(TreesOf(X, T))) : h = Hits(s, T) /\ Len(h) = Len(s)
  BY HitsAre
<1>2. h[i] = <<Subtree(s, i)>>
  BY <1>1, HitsAre
<1>3. ToSet(FlattenSeq(h)) = Covered(h, Len(h))
  BY FlatApart
<1>4. Subtree(s, i) \in ToSet(h[i])
  <2>1. DOMAIN <<Subtree(s, i)>> = 1..1 /\ <<Subtree(s, i)>>[1] = Subtree(s, i)
    OBVIOUS
  <2> QED BY <1>2, <2>1 DEF ToSet
<1>5. Subtree(s, i) \in Covered(h, Len(h))
  BY <1>1, <1>4 DEF Covered
<1> QED
  BY <1>1, <1>3, <1>5, TaggedIs

LEMMA NoBlank ==
    ASSUME NEW p, Sound(p), \A type \in TypeNames : AllFilled(type, ElementsOf(p, type))
    PROVE  EmptyTexts(BuildTree(p)) = {}
<1>1. PICK r : r = BuildTree(p).root /\ r \in Forests(Rows)
  BY RootIs, TreeIs DEF Nodes
<1>2. PICK T : T = {"CATEGORY"}
  OBVIOUS
<1>3. Within(T)
  BY <1>2 DEF Within, Around
<1>4. Tagged(r, T) \in Seq(Filled)
  BY <1>1, <1>2, <1>3, RootIs, BodyFilled
<1>5. ASSUME NEW i \in DOMAIN r, r[i].tag = "CATEGORY" PROVE r[i].text # NoName
  <2>1. i \in 1..Len(r) /\ r[i].tag \in T
    BY <1>1, <1>2, <1>5, ForestIs
  <2>2. Subtree(r, i) \in ToSet(Tagged(r, T))
    BY <1>1, <2>1, TaggedHas
  <2>3. ToSet(Tagged(r, T)) \subseteq Filled
    BY <1>4, SetIs
  <2>4. TextOf(Subtree(r, i)) # NoName
    BY <2>2, <2>3 DEF Filled
  <2>5. Subtree(r, i)[1] = r[i]
    BY <1>1, <2>1, SubtreeIs
  <2> QED BY <2>4, <2>5 DEF TextOf
<1> QED
  BY <1>1, <1>5 DEF EmptyTexts

--------------------------------------------------------------------------------
(* The names of siblings *)

Distinct(rows) == \A i \in 1..Len(rows) : IsInjective(SiblingNames(Subtree(rows, i)))
LabelLists(ch) == [i \in DOMAIN ch |-> childText(ch[i], "SHORT-NAME")]
Labels(ch) == FlattenSeq(LabelLists(ch))

LEMMA TextTyped == ASSUME NEW n \in Nodes PROVE TextOf(n) \in Values
<1>1. n[1] \in Rows
  BY TreeIs DEF Nodes
<1> QED
  BY <1>1 DEF TextOf, Rows

LEMMA LabelTyped == ASSUME NEW n \in Nodes, NEW tag PROVE childText(n, tag) \in Seq(Values)
<1>1. Tail(n) \in Forests(Rows)
  BY ForestTail DEF Nodes
<1>2. ChildrenOf(n) \in Seq(Nodes)
  BY <1>1, OutermostTyped DEF ChildrenOf, Nodes
<1>3. OfTag(ChildrenOf(n), tag) \in Seq(Nodes)
  BY <1>2, OfTagTyped
<1>4. findChild(n, tag) \in Seq(Nodes)
  BY <1>3, FirstIs DEF findChild
<1>5. PICK s \in Seq(Nodes) : s = findChild(n, tag)
  BY <1>4
<1>6. Len(s) \in Nat /\ \A k \in 1..Len(s) : s[k] \in Nodes
  BY SeqIs
<1>7. ASSUME NEW k \in 1..Len(s) PROVE TextOf(s[k]) \in Values
  BY <1>6, TextTyped
<1>8. Texts(s) = [k \in 1..Len(s) |-> TextOf(s[k])]
  BY SeqIs DEF Texts
<1>9. Texts(s) \in [1..Len(s) -> Values]
  BY <1>7, <1>8
<1>10. Texts(s) \in Seq(Values)
  BY <1>6, <1>9, MadeSeq
<1> QED
  BY <1>5, <1>10 DEF childText

LEMMA LabelListsAre ==
    ASSUME NEW ch \in Seq(Nodes)
    PROVE  /\ LabelLists(ch) \in Seq(Seq(Values)) /\ Len(LabelLists(ch)) = Len(ch) /\ Labels(ch) \in Seq(Values)
           /\ \A k \in 1..Len(ch) : LabelLists(ch)[k] = childText(ch[k], "SHORT-NAME")
<1>1. Len(ch) \in Nat /\ DOMAIN ch = 1..Len(ch) /\ \A k \in 1..Len(ch) : ch[k] \in Nodes
  BY SeqIs
<1>2. ASSUME NEW k \in 1..Len(ch) PROVE childText(ch[k], "SHORT-NAME") \in Seq(Values)
  BY <1>1, LabelTyped
<1>3. LabelLists(ch) \in [1..Len(ch) -> Seq(Values)] /\ \A k \in 1..Len(ch) : LabelLists(ch)[k] = childText(ch[k], "SHORT-NAME")
  BY <1>1, <1>2 DEF LabelLists
<1>4. LabelLists(ch) \in Seq(Seq(Values)) /\ Len(LabelLists(ch)) = Len(ch)
  BY <1>1, <1>3, MadeSeq
<1>5. Labels(ch) \in Seq(Values)
  BY <1>4, FlatTyped DEF Labels
<1> QED
  BY <1>3, <1>4, <1>5

LEMMA LabelsEach ==
    ASSUME NEW ch \in Seq(Nodes), NEW names \in Seq(Values), Len(names) = Len(ch),
           \A k \in 1..Len(ch) : childText(ch[k], "SHORT-NAME") = <<names[k]>>
    PROVE  Labels(ch) = names
<1>1. PICK s \in Seq(Seq(Values)) : s = LabelLists(ch) /\ Len(s) = Len(names)
  BY LabelListsAre
<1>2. \A k \in 1..Len(s) : s[k] = <<names[k]>>
  BY <1>1, LabelListsAre
<1>3. Len(s) = Len(names)
  BY <1>1
<1>4. FlattenSeq(s) = names
  BY <1>2, <1>3, FlatEach
<1> QED
  BY <1>1, <1>4 DEF Labels

LEMMA LabelsNone ==
    ASSUME NEW ch \in Seq(Nodes), \A k \in 1..Len(ch) : childText(ch[k], "SHORT-NAME") = <<>>
    PROVE  Labels(ch) = <<>>
<1>1. PICK s \in Seq(Seq(Values)) : s = LabelLists(ch) /\ Len(s) = Len(ch)
  BY LabelListsAre
<1>2. \A k \in 1..Len(s) : s[k] = <<>>
  BY <1>1, LabelListsAre
<1>4. FlattenSeq(s) = <<>>
  BY <1>2, FlatEmpty
<1> QED
  BY <1>1, <1>4 DEF Labels

LEMMA LabelsJoin ==
    ASSUME NEW a \in Seq(Nodes), NEW b \in Seq(Nodes) PROVE Labels(a \o b) = Labels(a) \o Labels(b)
<1>1. PICK x \in Seq(Seq(Values)) : x = LabelLists(a) /\ Len(x) = Len(a)
  BY LabelListsAre
<1>2. PICK y \in Seq(Seq(Values)) : y = LabelLists(b) /\ Len(y) = Len(b)
  BY LabelListsAre
<1>3. PICK c \in Seq(Nodes) : c = a \o b /\ Len(c) = Len(a) + Len(b)
  BY JoinIs
<1>4. PICK z \in Seq(Seq(Values)) : z = LabelLists(c) /\ Len(z) = Len(c)
  BY LabelListsAre
<1>5. (\A k \in 1..Len(a) : c[k] = a[k]) /\ (\A k \in 1..Len(b) : c[Len(a) + k] = b[k])
  BY <1>3, JoinIs
<1>6. /\ \A k \in 1..Len(a) : x[k] = childText(a[k], "SHORT-NAME")
      /\ \A k \in 1..Len(b) : y[k] = childText(b[k], "SHORT-NAME")
      /\ \A k \in 1..Len(c) : z[k] = childText(c[k], "SHORT-NAME")
  BY <1>1, <1>2, <1>4, LabelListsAre
<1>7. PICK w \in Seq(Seq(Values)) : w = x \o y /\ Len(w) = Len(x) + Len(y)
  BY JoinIs
<1>8. (\A k \in 1..Len(x) : w[k] = x[k]) /\ (\A k \in 1..Len(y) : w[Len(x) + k] = y[k])
  BY <1>7, JoinIs
<1>9. Len(a) \in Nat /\ Len(b) \in Nat
  BY SeqIs
<1>10. \A k \in 1..Len(z) : z[k] = w[k]
  <2>1. ASSUME NEW k \in 1..Len(c) PROVE z[k] = w[k]
    <3>1. CASE k <= Len(a)
      <4>1. k \in 1..Len(a)
        BY <1>9, <3>1
      <4> QED BY <4>1, <1>1, <1>5, <1>6, <1>8
    <3>2. CASE k > Len(a)
      <4>1. k - Len(a) \in 1..Len(b) /\ Len(a) + (k - Len(a)) = k
        BY <1>3, <1>9, <3>2
      <4>2. w[k] = y[k - Len(a)] /\ c[k] = b[k - Len(a)]
        BY <1>1, <1>2, <1>5, <1>8, <4>1
      <4> QED BY <4>1, <4>2, <1>6
    <3> QED BY <1>3, <1>9, <3>1, <3>2
  <2> QED BY <2>1, <1>4
<1>11. Len(z) = Len(w)
  BY <1>1, <1>2, <1>3, <1>4, <1>7
<1>12. z = w
  BY <1>10, <1>11, SameSeq
<1>13. FlattenSeq(x \o y) = FlattenSeq(x) \o FlattenSeq(y)
  BY FlatConcat
<1> QED
  BY <1>1, <1>2, <1>3, <1>4, <1>7, <1>12, <1>13 DEF Labels

LEMMA LabelsOne == ASSUME NEW n \in Nodes PROVE Labels(<<n>>) = childText(n, "SHORT-NAME")
<1>1. childText(n, "SHORT-NAME") \in Seq(Values)
  BY LabelTyped
<1>2. LabelLists(<<n>>) = <<childText(n, "SHORT-NAME")>>
  <2>1. DOMAIN <<n>> = 1..1 /\ <<n>>[1] = n
    OBVIOUS
  <2>2. LabelLists(<<n>>) = [i \in 1..1 |-> childText(n, "SHORT-NAME")]
    BY <2>1 DEF LabelLists
  <2> QED BY <2>2
<1> QED
  BY <1>1, <1>2, FlatOne DEF Labels

LEMMA DistinctNone == Distinct(<<>>)
BY DEF Distinct

LEMMA DistinctJoin ==
    ASSUME NEW a \in Forests(Rows), NEW b \in Forests(Rows), Distinct(a), Distinct(b) PROVE Distinct(a \o b)
<1>1. a \in Seq(Rows) /\ b \in Seq(Rows) /\ Len(a) \in Nat /\ Len(b) \in Nat
  BY ForestIs
<1>2. Len(a \o b) = Len(a) + Len(b)
  BY <1>1, JoinIs
<1>3. ASSUME NEW i \in 1..Len(a \o b) PROVE IsInjective(SiblingNames(Subtree(a \o b, i)))
  <2>1. CASE i <= Len(a)
    <3>1. i \in 1..Len(a)
      BY <1>1, <1>2, <2>1
    <3>2. Subtree(a \o b, i) = Subtree(a, i)
      BY <3>1, ForestJoin
    <3> QED BY <3>1, <3>2 DEF Distinct
  <2>2. CASE i > Len(a)
    <3>1. PICK k \in 1..Len(b) : Len(a) + k = i
      <4>1. i - Len(a) \in 1..Len(b) /\ Len(a) + (i - Len(a)) = i
        BY <1>1, <1>2, <2>2
      <4> QED BY <4>1
    <3>2. Subtree(a \o b, Len(a) + k) = Subtree(b, k)
      BY ForestJoin
    <3> QED BY <3>1, <3>2 DEF Distinct
  <2> QED BY <1>1, <1>2, <2>1, <2>2
<1> QED
  BY <1>3 DEF Distinct

LEMMA DistinctFlat ==
    ASSUME NEW ch \in Seq(Nodes), \A k \in 1..Len(ch) : Distinct(ch[k]) PROVE Distinct(FlattenSeq(ch))
<1>1. ch \in Seq(Seq(Rows)) /\ Len(ch) \in Nat /\ \A k \in 1..Len(ch) : ch[k] \in Forests(Rows)
  BY TreesAre, SeqIs DEF Nodes
<1>2. PICK F \in [0..Len(ch) -> Seq(Rows)] : Flat(F, ch)
  BY <1>1, Flattened
<1> DEFINE P == {k \in 0..Len(ch) : F[k] \in Forests(Rows) /\ Distinct(F[k])}
<1>4. 0 \in P
  BY <1>1, <1>2, NoForest, DistinctNone DEF Flat
<1>5. ASSUME NEW k \in 1..Len(ch), k - 1 \in P PROVE k \in P
  <2>1. F[k] = F[k - 1] \o ch[k]
    BY <1>2 DEF Flat
  <2>2. F[k - 1] \in Forests(Rows) /\ Distinct(F[k - 1]) /\ k \in 0..Len(ch)
    BY <1>1, <1>5
  <2> HIDE DEF P
  <2>3. PICK a \in Forests(Rows) : a = F[k - 1] /\ Distinct(a)
    BY <2>2
  <2>4. PICK b \in Forests(Rows) : b = ch[k] /\ Distinct(b)
    BY <1>1
  <2>5. a \o b \in Forests(Rows)
    BY ForestJoin
  <2>6. Distinct(a \o b)
    BY <2>3, <2>4, DistinctJoin
  <2> QED BY <2>1, <2>2, <2>3, <2>4, <2>5, <2>6 DEF P
<1>6. Len(ch) \in P
  <2>0. Len(ch) \in 0..Len(ch) /\ Len(ch) \in Nat
    BY <1>1
  <2> HIDE DEF P
  <2>1. 0..Len(ch) \subseteq P
    BY <1>4, <1>5, <2>0, Turns
  <2> QED BY <2>0, <2>1
<1>7. FlattenSeq(ch) = F[Len(ch)]
  BY <1>2 DEF Flat
<1> QED
  BY <1>6, <1>7

LEMMA DistinctNode ==
    ASSUME NEW t \in Tags, NEW x \in Values, NEW ch \in Seq(Nodes), Distinct(FlattenSeq(ch)), IsInjective(Labels(ch))
    PROVE  Distinct(Node(t, x, ch))
<1>1. PICK n \in Nodes : n = Node(t, x, ch) /\ Tail(n) = FlattenSeq(ch) /\ ChildrenOf(n) = ch
  BY Built
<1>2. /\ Subtree(n, 1) = n /\ Len(Tail(n)) = Len(n) - 1 /\ Len(n) \in Nat
      /\ \A k \in 1..Len(Tail(n)) : Subtree(Tail(n), k) = Subtree(n, k + 1)
  BY TreeTail DEF Nodes
<1>3. SiblingNames(n) = Labels(ch)
  BY <1>1 DEF SiblingNames, Labels, LabelLists
<1>4. ASSUME NEW i \in 1..Len(n), i # 1 PROVE IsInjective(SiblingNames(Subtree(n, i)))
  <2>1. i - 1 \in 1..Len(Tail(n)) /\ (i - 1) + 1 = i
    BY <1>2, <1>4
  <2>2. Subtree(n, i) = Subtree(Tail(n), i - 1)
    BY <1>2, <2>1
  <2> QED BY <1>1, <2>1, <2>2 DEF Distinct
<1> QED
  BY <1>1, <1>2, <1>3, <1>4 DEF Distinct

\* Nodes without names of their own.
Plain(ch) == Labels(ch) = <<>> /\ OfTag(ch, "SHORT-NAME") = <<>> /\ Distinct(FlattenSeq(ch))
\* Nodes whose names are distinct.
Apiece(ch) == IsInjective(Labels(ch)) /\ OfTag(ch, "SHORT-NAME") = <<>> /\ Distinct(FlattenSeq(ch))

LEMMA PlainApiece == ASSUME NEW ch, Plain(ch) PROVE Apiece(ch)
BY DEF Plain, Apiece, IsInjective

LEMMA PlainNone == Plain(<<>>)
<1>1. PICK ch \in Seq(Nodes) : ch = <<>>
  BY NoNodes
<1>2. Labels(ch) = <<>>
  <2>1. Len(ch) = 0
    BY <1>1
  <2>2. \A k \in 1..Len(ch) : childText(ch[k], "SHORT-NAME") = <<>>
    BY <2>1
  <2> QED BY <2>2, LabelsNone
<1> QED
  BY <1>1, <1>2, OfTagNone, FlatNone, DistinctNone DEF Plain

LEMMA PlainJoin ==
    ASSUME NEW a \in Seq(Nodes), NEW b \in Seq(Nodes), Plain(a), Plain(b) PROVE Plain(a \o b)
<1>1. Labels(a \o b) = Labels(a) \o Labels(b) /\ OfTag(a \o b, "SHORT-NAME") = OfTag(a, "SHORT-NAME") \o OfTag(b, "SHORT-NAME")
  BY LabelsJoin, OfTagJoin
<1>2. <<>> \o <<>> = <<>>
  OBVIOUS
<1>3. a \in Seq(Seq(Rows)) /\ b \in Seq(Seq(Rows)) /\ FlattenSeq(a) \in Forests(Rows) /\ FlattenSeq(b) \in Forests(Rows)
  BY NodesForest
<1>4. FlattenSeq(a \o b) = FlattenSeq(a) \o FlattenSeq(b)
  BY <1>3, FlatConcat
<1>5. Distinct(FlattenSeq(a) \o FlattenSeq(b))
  BY <1>3, DistinctJoin DEF Plain
<1> QED
  BY <1>1, <1>2, <1>4, <1>5 DEF Plain

LEMMA ChildTextNone == ASSUME NEW n, NEW tag, OfTag(ChildrenOf(n), tag) = <<>> PROVE childText(n, tag) = <<>>
BY TextsNone DEF childText, findChild, FirstOf

LEMMA LeafPlain == ASSUME NEW t \in Tags, NEW x \in Values PROVE Distinct(Leaf(t, x)) /\ childText(Leaf(t, x), "SHORT-NAME") = <<>>
<1>1. PICK ch \in Seq(Nodes) : ch = <<>>
  BY NoNodes
<1>2. Distinct(FlattenSeq(ch)) /\ IsInjective(Labels(ch))
  BY <1>1, PlainNone, PlainApiece DEF Apiece
<1>3. Distinct(Node(t, x, ch))
  BY <1>2, DistinctNode
<1>4. ChildrenOf(Leaf(t, x)) = <<>>
  BY LeafBuilt
<1> QED
  BY <1>1, <1>3, <1>4, OfTagNone, ChildTextNone DEF Leaf

LEMMA PlainText ==
    ASSUME NEW tag \in Tags, tag # "SHORT-NAME", NEW x \in Seq(Values) PROVE Plain(Text(tag, x))
<1>1. PICK ch \in Seq(Nodes) : ch = Text(tag, x) /\ Len(ch) = Len(x)
  BY TextBuilt
<1>2. \A k \in 1..Len(ch) : ch[k] = Leaf(tag, x[k]) /\ x[k] \in Values
  BY <1>1, TextBuilt
<1>3. \A k \in 1..Len(ch) : Distinct(ch[k]) /\ childText(ch[k], "SHORT-NAME") = <<>>
  BY <1>2, LeafPlain
<1>4. Labels(ch) = <<>> /\ Distinct(FlattenSeq(ch))
  BY <1>3, LabelsNone, DistinctFlat
<1>5. OfTag(Text(tag, x), "SHORT-NAME") = IF "SHORT-NAME" = tag THEN Text(tag, x) ELSE <<>>
  BY TextOfTag
<1> QED
  BY <1>1, <1>4, <1>5 DEF Plain

LEMMA GroupPlain ==
    ASSUME NEW tag \in Tags, NEW ch \in Seq(Nodes), Apiece(ch)
    PROVE  Distinct(Group(tag, ch)) /\ childText(Group(tag, ch), "SHORT-NAME") = <<>>
<1>1. "" \in Values
  BY ValueIs
<1>2. Distinct(Node(tag, "", ch))
  BY <1>1, DistinctNode DEF Apiece
<1>3. ChildrenOf(Group(tag, ch)) = ch
  BY GroupBuilt
<1>4. OfTag(ChildrenOf(Group(tag, ch)), "SHORT-NAME") = <<>>
  BY <1>3 DEF Apiece
<1> QED
  BY <1>2, <1>4, ChildTextNone DEF Group

LEMMA PlainNonEmpty ==
    ASSUME NEW tag \in Tags, tag # "SHORT-NAME", NEW ch \in Seq(Nodes), Apiece(ch) PROVE Plain(NonEmpty(tag, ch))
<1>1. CASE ch = <<>>
  BY <1>1, PlainNone DEF NonEmpty
<1>2. CASE ch # <<>>
  <2>1. PICK n \in Nodes : n = Group(tag, ch) /\ TagOf(n) = tag
    BY GroupBuilt
  <2>2. Distinct(n) /\ childText(n, "SHORT-NAME") = <<>>
    BY <2>1, GroupPlain
  <2>3. Labels(<<n>>) = <<>>
    BY <2>2, LabelsOne
  <2>4. OfTag(<<n>>, "SHORT-NAME") = <<>>
    BY <2>1, OfTagOne
  <2>5. n \in Seq(Rows)
    BY TreeIs DEF Nodes
  <2>6. FlattenSeq(<<n>>) = n
    BY <2>5, FlatOne
  <2> QED BY <1>2, <2>1, <2>2, <2>3, <2>4, <2>6 DEF NonEmpty, Plain
<1> QED
  BY <1>1, <1>2

LEMMA DistinctNamed ==
    ASSUME NEW tag \in Tags, NEW name \in Values, NEW ch \in Seq(Nodes), Plain(ch) PROVE Distinct(Titled(tag, name, ch))
<1>1. "SHORT-NAME" \in Tags /\ "" \in Values
  BY ValueIs DEF Tags
<1>2. PICK n \in Nodes : n = Leaf("SHORT-NAME", name)
  BY <1>1, LeafBuilt
<1>3. Distinct(n) /\ childText(n, "SHORT-NAME") = <<>>
  BY <1>1, <1>2, LeafPlain
<1>4. PICK a \in Seq(Nodes) : a = <<n>>
  BY OneIs
<1>5. PICK c \in Seq(Nodes) : c = a \o ch
  BY JoinIs
<1>6. Labels(c) = <<>>
  <2>1. Labels(a) = <<>>
    BY <1>3, <1>4, LabelsOne
  <2>2. Labels(a \o ch) = Labels(a) \o Labels(ch)
    BY LabelsJoin
  <2>3. <<>> \o <<>> = <<>>
    OBVIOUS
  <2> QED BY <1>5, <2>1, <2>2, <2>3 DEF Plain
<1>7. Distinct(FlattenSeq(c))
  <2>1. n \in Seq(Rows)
    BY TreeIs DEF Nodes
  <2>2. FlattenSeq(a) = n
    BY <1>4, <2>1, FlatOne
  <2>3. a \in Seq(Seq(Rows)) /\ ch \in Seq(Seq(Rows)) /\ FlattenSeq(a) \in Forests(Rows) /\ FlattenSeq(ch) \in Forests(Rows)
    BY NodesForest
  <2>4. FlattenSeq(a \o ch) = FlattenSeq(a) \o FlattenSeq(ch)
    BY <2>3, FlatConcat
  <2>5. Distinct(FlattenSeq(a)) /\ Distinct(FlattenSeq(ch))
    BY <1>3, <2>2 DEF Plain
  <2>6. Distinct(FlattenSeq(a) \o FlattenSeq(ch))
    BY <2>3, <2>5, DistinctJoin
  <2> QED BY <1>5, <2>4, <2>6
<1>8. IsInjective(Labels(c))
  BY <1>6 DEF IsInjective
<1>9. Distinct(Node(tag, "", c))
  BY <1>1, <1>7, <1>8, DistinctNode
<1> QED
  BY <1>2, <1>4, <1>5, <1>9 DEF Titled

LEMMA ApieceEach ==
    ASSUME NEW ch \in Seq(Nodes), NEW names \in Seq(Values), Len(names) = Len(ch), IsInjective(names),
           NEW tag, tag # "SHORT-NAME",
           \A k \in 1..Len(ch) : TagOf(ch[k]) = tag /\ childText(ch[k], "SHORT-NAME") = <<names[k]>> /\ Distinct(ch[k])
    PROVE  Apiece(ch)
<1>1. \A k \in 1..Len(ch) : childText(ch[k], "SHORT-NAME") = <<names[k]>>
  OBVIOUS
<1>2. Labels(ch) = names
  BY <1>1, LabelsEach
<1>3. \A k \in 1..Len(ch) : TagOf(ch[k]) # "SHORT-NAME"
  OBVIOUS
<1>4. OfTag(ch, "SHORT-NAME") = <<>>
  BY <1>3, OfTagEmpty
<1>5. \A k \in 1..Len(ch) : Distinct(ch[k])
  OBVIOUS
<1>6. Distinct(FlattenSeq(ch))
  BY <1>5, DistinctFlat
<1> QED
  BY <1>2, <1>4, <1>6 DEF Apiece

LEMMA NamedEachApiece ==
    ASSUME NEW tag \in Tags, tag # "SHORT-NAME", NEW names \in Seq(Clear), IsInjective(names) PROVE Apiece(NamedEach(tag, names))
<1>1. PICK ch \in Seq(Nodes) : ch = NamedEach(tag, names) /\ Len(ch) = Len(names)
  BY NamedEachBuilt
<1>2. \A k \in 1..Len(names) : ch[k] = Titled(tag, names[k], <<>>) /\ names[k] \in Values
  BY <1>1, NamedEachBuilt
<1>3. ASSUME NEW k \in 1..Len(ch)
      PROVE  TagOf(ch[k]) = tag /\ childText(ch[k], "SHORT-NAME") = <<names[k]>> /\ Distinct(ch[k])
  <2>1. PICK none \in Seq(Nodes) : none = <<>>
    BY NoNodes
  <2>2. PICK x \in Values : x = names[k]
    BY <1>1, <1>2
  <2>3. TagOf(Titled(tag, x, none)) = tag /\ childText(Titled(tag, x, none), "SHORT-NAME") = <<x>>
    BY NamedBuilt
  <2>4. Plain(none)
    BY <2>1, PlainNone
  <2>5. Distinct(Titled(tag, x, none))
    BY <2>4, DistinctNamed
  <2> QED BY <1>1, <1>2, <2>1, <2>2, <2>3, <2>5
<1>4. PICK ns \in Seq(Values) : ns = names
  <2>1. Seq(Clear) \subseteq Seq(Values)
    BY ValueIs, SeqGrows
  <2> QED BY <2>1
<1>5. Len(ns) = Len(ch) /\ IsInjective(ns)
  BY <1>1, <1>4
<1>6. \A k \in 1..Len(ch) : TagOf(ch[k]) = tag /\ childText(ch[k], "SHORT-NAME") = <<ns[k]>> /\ Distinct(ch[k])
  BY <1>3, <1>4
<1>7. Apiece(ch)
  BY <1>5, <1>6, ApieceEach
<1> QED
  BY <1>1, <1>7

\* Sorting distinct keys keeps them distinct.
LEMMA PlacedDistinct ==
    ASSUME NEW keys \in Seq(Int), IsInjective(keys), NEW k \in 1..Len(keys), NEW l \in 1..Len(keys),
           keys[Place(keys, k)] = keys[Place(keys, l)]
    PROVE  k = l
<1>1. Place(keys, k) \in 1..Len(keys) /\ Place(keys, l) \in 1..Len(keys)
  BY PlaceIs
<1>2. Place(keys, k) = Place(keys, l)
  BY <1>1, InjectiveIs
<1>3. Rank(keys, Place(keys, k)) = k /\ Rank(keys, Place(keys, l)) = l
  BY PlaceIs
<1> QED
  BY <1>2, <1>3

LEMMA SortedDistinct ==
    ASSUME NEW names \in Seq(Proper), IsInjective(names)
    PROVE  sortedStrings(names) \in Seq(Clear) /\ IsInjective(sortedStrings(names))
<1>1. names \in Seq(Int)
  BY ProperIs
<1>2. PICK t \in Seq(Proper) : t = SortedBy(names, names) /\ Len(t) = Len(names)
  BY <1>1, SortedIs
<1>3. \A k \in 1..Len(names) : t[k] = names[Place(names, k)]
  BY <1>1, <1>2, SortedAt
<1>4. ASSUME NEW k \in 1..Len(t), NEW l \in 1..Len(t), t[k] = t[l] PROVE k = l
  <2>1. k \in 1..Len(names) /\ l \in 1..Len(names) /\ names[Place(names, k)] = names[Place(names, l)]
    BY <1>2, <1>3, <1>4
  <2> QED BY <1>1, <2>1, PlacedDistinct
<1>5. IsInjective(t)
  BY <1>4, InjectiveIs
<1>6. t \in Seq(Clear)
  BY ProperIs
<1> QED
  BY <1>2, <1>5, <1>6 DEF sortedStrings

LEMMA NamesDiffer ==
    ASSUME NEW owner \in Clear, NEW a \in Clear, NEW b \in Clear, NEW i \in Int, NEW j \in Int,
           MappingName(owner, a, i) = MappingName(owner, b, j)
    PROVE  a = b
<1>0. SetContent(owner) = owner /\ SetContent(a) = a /\ SetContent(b) = b
  BY ClearIs
<1>1. CASE a = NoName /\ b = NoName
  BY <1>1
<1>2. CASE a # NoName /\ b # NoName
  <2>1. <<owner, "target", a>> = <<owner, "target", b>>
    BY <1>0, <1>2 DEF MappingName
  <2> QED BY <2>1
<1>3. CASE (a = NoName) # (b = NoName)
  <2>1. <<owner, "mapping", i>> # <<owner, "target", b>> /\ <<owner, "target", a>> # <<owner, "mapping", j>>
    OBVIOUS
  <2> QED BY <1>0, <1>3, <2>1 DEF MappingName
<1> QED
  BY <1>1, <1>2, <1>3

LEMMA MapNamed ==
    ASSUME NEW owner \in Clear, NEW m, MapOk(m), NEW idx \in Int, NEW tag \in MapTags, NEW refTag \in RefTags,
           NEW n, n = MappingElement(owner, m, idx, tag, refTag)
    PROVE  TagOf(n) = tag /\ childText(n, "SHORT-NAME") = <<MappingName(owner, m.ref, idx)>>
BY MapReads

LEMMA MapDistinct ==
    ASSUME NEW owner \in Clear, NEW m, MapOk(m), NEW idx \in Int, NEW tag \in MapTags, NEW refTag \in RefTags
    PROVE  /\ TagOf(MappingElement(owner, m, idx, tag, refTag)) = tag
           /\ childText(MappingElement(owner, m, idx, tag, refTag), "SHORT-NAME") = <<MappingName(owner, m.ref, idx)>>
           /\ MappingName(owner, m.ref, idx) \in Values /\ Distinct(MappingElement(owner, m, idx, tag, refTag))
<1>1. tag \in Tags /\ refTag \in Tags /\ refTag # "SHORT-NAME" /\ "START-POSITION" \in Tags
  BY DEF MapTags, RefTags, Tags
<1>2. PICK n : n = MappingElement(owner, m, idx, tag, refTag)
  OBVIOUS
<1>3. TagOf(n) = tag /\ childText(n, "SHORT-NAME") = <<MappingName(owner, m.ref, idx)>>
  BY <1>2, MapNamed
<1>4. PICK x \in Values : x = MappingName(owner, m.ref, idx)
  BY MapShape
<1>5. n = Titled(tag, x, MapKids(m, refTag))
  BY <1>2, <1>4, MapShape
<1>6. Text(refTag, RefText(m)) \in Seq(Nodes) /\ Text("START-POSITION", <<m.start>>) \in Seq(Nodes) /\ <<m.start>> \in Seq(Values)
  BY MapShape
<1>7. Plain(Text(refTag, RefText(m)))
  BY <1>1, RefTextIs, PlainText
<1>8. Plain(Text("START-POSITION", <<m.start>>))
  BY <1>1, <1>6, PlainText
<1>9. Plain(MapKids(m, refTag))
  BY <1>6, <1>7, <1>8, PlainJoin DEF MapKids
<1>10. PICK kids \in Seq(Nodes) : kids = MapKids(m, refTag) /\ Plain(kids)
  BY <1>9, MapShape
<1>11. Distinct(Titled(tag, x, kids))
  BY <1>1, <1>10, DistinctNamed
<1> QED
  BY <1>2, <1>3, <1>4, <1>5, <1>10, <1>11

LEMMA MapsApiece ==
    ASSUME NEW M, NEW s \in Seq(M), \A m \in M : MapOk(m), IsInjective(RefsOf(s)),
           NEW owner \in Clear, NEW tag \in MapTags, NEW refTag \in RefTags
    PROVE  Apiece(MappingElements(owner, s, tag, refTag))
<1>1. PICK ch \in Seq(Nodes) : ch = MappingElements(owner, s, tag, refTag) /\ Len(ch) = Len(s)
  BY MapsBuilt
<1>2. PICK t \in Seq(M) : t = sortedMappings(s) /\ Len(t) = Len(s)
  BY SortedMaps
<1>3. \A k \in 1..Len(s) : ch[k] = MappingElement(owner, t[k], k - 1, tag, refTag) /\ MapOk(t[k])
  BY <1>1, <1>2, MapsBuilt
<1>4. tag \in Tags /\ tag # "SHORT-NAME" /\ refTag \in Tags /\ refTag # "SHORT-NAME" /\ "START-POSITION" \in Tags
  BY DEF MapTags, RefTags, Tags
<1>5. PICK keys \in Seq(Int) : keys = RefsOf(s) /\ Len(keys) = Len(s)
  BY RefsAre
<1>6. \A k \in 1..Len(s) : keys[k] = s[k].ref
  BY <1>5, RefsAre
<1>7. \A k \in 1..Len(s) : t[k] = s[Place(keys, k)] /\ Place(keys, k) \in 1..Len(s)
  <2>1. t = SortedBy(s, keys)
    BY <1>2, <1>5 DEF sortedMappings
  <2> QED BY <1>5, <2>1, SortedAt
<1>8. Len(s) \in Nat
  BY SeqIs
<1>9. PICK names : names = [k \in 1..Len(s) |-> MappingName(owner, t[k].ref, k - 1)]
  OBVIOUS
<1>10. ASSUME NEW k \in 1..Len(s)
       PROVE  /\ TagOf(ch[k]) = tag /\ childText(ch[k], "SHORT-NAME") = <<MappingName(owner, t[k].ref, k - 1)>>
              /\ MappingName(owner, t[k].ref, k - 1) \in Values /\ Distinct(ch[k])
  <2>1. PICK m : m = t[k] /\ MapOk(m)
    BY <1>3
  <2>2. PICK i \in Int : i = k - 1
    OBVIOUS
  <2>3. /\ TagOf(MappingElement(owner, m, i, tag, refTag)) = tag
        /\ childText(MappingElement(owner, m, i, tag, refTag), "SHORT-NAME") = <<MappingName(owner, m.ref, i)>>
        /\ MappingName(owner, m.ref, i) \in Values /\ Distinct(MappingElement(owner, m, i, tag, refTag))
    BY <2>1, MapDistinct
  <2> QED BY <1>3, <2>1, <2>2, <2>3
<1>11. names \in [1..Len(s) -> Values]
  BY <1>9, <1>10
<1>12. PICK ns \in Seq(Values) : ns = names /\ Len(ns) = Len(ch)
  BY <1>1, <1>8, <1>11, MadeSeq
<1>13. ASSUME NEW k \in 1..Len(ns), NEW l \in 1..Len(ns), ns[k] = ns[l] PROVE k = l
  <2>1. k \in 1..Len(s) /\ l \in 1..Len(s)
    BY <1>1, <1>12
  <2>2. t[k].ref \in Clear /\ t[l].ref \in Clear
    BY <1>3, <2>1 DEF MapOk
  <2>3. MappingName(owner, t[k].ref, k - 1) = MappingName(owner, t[l].ref, l - 1)
    BY <1>9, <1>12, <1>13, <2>1
  <2>4. t[k].ref = t[l].ref
    <3>1. PICK i \in Int, j \in Int : i = k - 1 /\ j = l - 1
      OBVIOUS
    <3>2. PICK x \in Clear, y \in Clear : x = t[k].ref /\ y = t[l].ref
      BY <2>2
    <3>3. MappingName(owner, x, i) = MappingName(owner, y, j)
      BY <2>3, <3>1, <3>2
    <3>4. x = y
      BY <3>3, NamesDiffer
    <3> QED BY <3>2, <3>4
  <2>5. keys[Place(keys, k)] = keys[Place(keys, l)]
    BY <1>6, <1>7, <2>1, <2>4
  <2>6. k \in 1..Len(keys) /\ l \in 1..Len(keys) /\ IsInjective(keys)
    BY <1>5, <2>1
  <2> QED BY <2>5, <2>6, PlacedDistinct
<1>14. IsInjective(ns)
  BY <1>13, InjectiveIs
<1>15. \A k \in 1..Len(ch) : TagOf(ch[k]) = tag /\ childText(ch[k], "SHORT-NAME") = <<ns[k]>> /\ Distinct(ch[k])
  BY <1>1, <1>9, <1>10, <1>12
<1>16. Len(ns) = Len(ch) /\ tag # "SHORT-NAME"
  BY <1>4, <1>12
<1>17. Apiece(ch)
  BY <1>14, <1>15, <1>16, ApieceEach
<1> QED
  BY <1>1, <1>17

LEMMA LongPlain ==
    ASSUME NEW lengthTag \in Tags, NEW groupTag \in Tags, NEW length \in Uints, NEW maps \in Seq(Nodes), Apiece(maps),
           lengthTag # "SHORT-NAME", groupTag # "SHORT-NAME"
    PROVE  Plain(LongKids(lengthTag, length, groupTag, maps))
<1>1. PICK a \in Seq(Nodes) : a = Text(lengthTag, <<length>>)
  BY LongShape
<1>2. Plain(a)
  BY <1>1, LongShape, PlainText
<1>3. PICK b \in Seq(Nodes) : b = NonEmpty(groupTag, maps)
  BY LongShape
<1>4. Plain(b)
  BY <1>3, PlainNonEmpty
<1> QED
  BY <1>1, <1>2, <1>3, <1>4, PlainJoin DEF LongKids

LEMMA ClusterPlain == ASSUME NEW e, ClusterOk(e), IsInjective(e.physicalChannels) PROVE Plain(ClusterKids(e))
<1>1. {"CATEGORY", "BAUDRATE", "CAN-PHYSICAL-CHANNEL", "PHYSICAL-CHANNELS", "CAN-CLUSTER-CONDITIONAL", "CAN-CLUSTER-VARIANTS"} \subseteq Tags
  BY DEF Tags
<1>2. PICK names \in Seq(Clear) : names = sortedStrings(e.physicalChannels) /\ IsInjective(names)
  BY SortedDistinct DEF ClusterOk
<1>3. Apiece(Channels(e))
  BY <1>1, <1>2, NamedEachApiece DEF Channels
<1>4. Plain(NonEmpty("PHYSICAL-CHANNELS", Channels(e)))
  BY <1>1, <1>3, ClusterShape, PlainNonEmpty
<1>5. e.category \in Seq(Values) /\ e.baudrate \in Seq(Values)
  BY OptionsAre DEF ClusterOk
<1>6. Plain(Text("BAUDRATE", e.baudrate)) /\ Plain(Text("CATEGORY", e.category))
  BY <1>1, <1>5, PlainText
<1>7. Plain(Conditional(e))
  BY <1>4, <1>6, ClusterShape, PlainJoin DEF Conditional
<1>8. Plain(Variants(e))
  BY <1>1, <1>7, ClusterShape, PlainApiece, PlainNonEmpty DEF Variants
<1>9. Plain(NonEmpty("CAN-CLUSTER-VARIANTS", Variants(e)))
  BY <1>1, <1>8, ClusterShape, PlainApiece, PlainNonEmpty
<1> QED
  BY <1>6, <1>9, ClusterShape, PlainJoin DEF ClusterKids

LEMMA EcuPlain == ASSUME NEW e, EcuOk(e), IsInjective(e.controllers) PROVE Plain(EcuKids(e))
<1>1. {"CATEGORY", "COMM-CONTROLLERS", "CAN-COMMUNICATION-CONTROLLER"} \subseteq Tags
  BY DEF Tags
<1>2. PICK names \in Seq(Clear) : names = sortedStrings(e.controllers) /\ IsInjective(names)
  BY SortedDistinct DEF EcuOk
<1>3. Apiece(Controllers(e))
  BY <1>1, <1>2, NamedEachApiece DEF Controllers
<1>4. Plain(NonEmpty("COMM-CONTROLLERS", Controllers(e)))
  BY <1>1, <1>3, EcuShape, PlainNonEmpty
<1>5. e.category \in Seq(Values)
  BY OptionsAre DEF EcuOk
<1>6. Plain(Text("CATEGORY", e.category))
  BY <1>1, <1>5, PlainText
<1> QED
  BY <1>4, <1>6, EcuShape, PlainJoin DEF EcuKids

LEMMA SignalPlain == ASSUME NEW e, SignalOk(e) PROVE Plain(SignalKids(e))
<1>1. {"INIT-VALUE", "NUMERICAL-VALUE-SPECIFICATION", "VALUE", "LENGTH", "NETWORK-REPRESENTATION-PROPS", "BASE-TYPE-REF"} \subseteq Tags
  BY DEF Tags
<1>2. Plain(Text("VALUE", e.initValue)) /\ Plain(LengthPart(e)) /\ Plain(Text("BASE-TYPE-REF", TypeRef(e)))
  BY <1>1, SignalShape, TypeRefIs, PlainText DEF LengthPart
<1>3. Plain(Numerical(e)) /\ Plain(TypePart(e))
  BY <1>1, <1>2, SignalShape, PlainApiece, PlainNonEmpty DEF Numerical, TypePart
<1>4. Plain(InitPart(e))
  BY <1>1, <1>3, SignalShape, PlainApiece, PlainNonEmpty DEF InitPart
<1>5. Plain(InitPart(e) \o LengthPart(e))
  BY <1>2, <1>4, SignalShape, PlainJoin
<1> QED
  BY <1>3, <1>5, SignalShape, PlainJoin DEF SignalKids

LEMMA GroupKidsPlain == ASSUME NEW e, GroupOk(e) PROVE Plain(GroupKids(e))
<1>1. {"I-SIGNAL-REFS", "I-SIGNAL-REF"} \subseteq Tags
  BY DEF Tags
<1>2. Plain(Members(e))
  BY <1>1, GroupShape, PlainText DEF Members
<1> QED
  BY <1>1, <1>2, GroupShape, PlainApiece, PlainNonEmpty DEF GroupKids

LEMMA FramePlain == ASSUME NEW e, FrameOk(e), IsInjective(RefsOf(e.pdus)) PROVE Plain(FrameKids(e))
<1>1. {"FRAME-LENGTH", "PDU-TO-FRAME-MAPPINGS"} \subseteq Tags /\ "PDU-TO-FRAME-MAPPING" \in MapTags /\ "PDU-REF" \in RefTags
  BY DEF Tags, MapTags, RefTags
<1>2. Apiece(FramePdus(e))
  BY <1>1, MapsOk, MapsApiece DEF FrameOk, FramePdus
<1>3. e.length \in Uints /\ FramePdus(e) \in Seq(Nodes)
  BY FrameShape DEF FrameOk
<1> QED
  BY <1>1, <1>2, <1>3, LongPlain DEF FrameKids

LEMMA PduPlain == ASSUME NEW e, PduOk(e), IsInjective(RefsOf(e.signalMappings)) PROVE Plain(PduKids(e))
<1>1. {"LENGTH", "I-SIGNAL-TO-PDU-MAPPINGS"} \subseteq Tags /\ "I-SIGNAL-TO-I-PDU-MAPPING" \in MapTags /\ "I-SIGNAL-REF" \in RefTags
  BY DEF Tags, MapTags, RefTags
<1>2. Apiece(PduSignals(e))
  BY <1>1, MapsOk, MapsApiece DEF PduOk, PduSignals
<1>3. e.length \in Uints /\ PduSignals(e) \in Seq(Nodes)
  BY PduShape DEF PduOk
<1> QED
  BY <1>1, <1>2, <1>3, LongPlain DEF PduKids

LEMMA KidsPlain ==
    ASSUME NEW type \in TypeNames, NEW e, ElementOk(type, e), KeysUnique(e) PROVE Plain(Kids(type, e))
<1>0. Fields(type) \subseteq DOMAIN e
  BY DEF ElementOk
<1>u. \A f \in Fields(type) : f \in ListFields => IsInjective(KeysOf(e, f))
  BY <1>0, UniqueList
<1>1. CASE type = "Cluster" /\ ClusterOk(e)
  <2>1. IsInjective(e.physicalChannels)
    BY <1>u, <1>1 DEF Fields, ListFields, KeysOf
  <2> QED BY <1>1, <2>1, ClusterPlain DEF Kids
<1>2. CASE type = "EcuInstance" /\ EcuOk(e)
  <2>1. IsInjective(e.controllers)
    BY <1>u, <1>2 DEF Fields, ListFields, KeysOf
  <2> QED BY <1>2, <2>1, EcuPlain DEF Kids
<1>3. CASE type = "Frame" /\ FrameOk(e)
  <2>1. IsInjective(RefsOf(e.pdus))
    BY <1>u, <1>3 DEF Fields, ListFields, KeysOf
  <2> QED BY <1>3, <2>1, FramePlain DEF Kids
<1>4. CASE type = "Pdu" /\ PduOk(e)
  <2>1. IsInjective(RefsOf(e.signalMappings))
    BY <1>u, <1>4 DEF Fields, ListFields, KeysOf
  <2> QED BY <1>4, <2>1, PduPlain DEF Kids
<1>5. CASE type = "Signal" /\ SignalOk(e)
  BY <1>5, SignalPlain DEF Kids
<1>6. CASE type = "SignalGroup" /\ GroupOk(e)
  BY <1>6, GroupKidsPlain DEF Kids
<1> QED
  BY <1>1, <1>2, <1>3, <1>4, <1>5, <1>6, ElementCases

LEMMA ElementDistinct ==
    ASSUME NEW type \in TypeNames, NEW e, ElementOk(type, e), KeysUnique(e) PROVE Distinct(BuildElement(type, e))
<1>1. PICK x \in Values : x = e.name
  BY ElementTyped
<1>2. PICK ch \in Seq(Nodes) : ch = Kids(type, e)
  BY ElementShape
<1>3. PICK t \in Tags : t = OutTag(type)
  BY OutTags
<1>4. Plain(ch)
  BY <1>2, KidsPlain
<1>5. Distinct(Titled(t, x, ch))
  BY <1>4, DistinctNamed
<1> QED
  BY <1>1, <1>2, <1>3, <1>5, ElementShape

Unnamed == {n \in Nodes : TagOf(n) # "SHORT-NAME" /\ Distinct(n)}

LEMMA UnnamedAre ==
    ASSUME NEW ch \in Seq(Unnamed) PROVE ch \in Seq(Nodes) /\ OfTag(ch, "SHORT-NAME") = <<>> /\ Distinct(FlattenSeq(ch))
<1>1. Unnamed \subseteq Nodes
  BY DEF Unnamed
<1>2. ch \in Seq(Nodes)
  BY <1>1, SeqGrows
<1>3. \A k \in 1..Len(ch) : ch[k] \in Unnamed
  BY SeqIs
<1>4. \A k \in 1..Len(ch) : TagOf(ch[k]) # "SHORT-NAME"
  BY <1>3 DEF Unnamed
<1>5. \A k \in 1..Len(ch) : Distinct(ch[k])
  BY <1>3 DEF Unnamed
<1> QED
  BY <1>2, <1>4, <1>5, OfTagEmpty, DistinctFlat

LEMMA LabelsFlat ==
    ASSUME NEW segs \in Seq(Seq(Nodes)), NEW y \in Seq(Seq(Values)), Len(y) = Len(segs),
           \A k \in 1..Len(segs) : y[k] = Labels(segs[k])
    PROVE  Labels(FlattenSeq(segs)) = FlattenSeq(y)
<1>1. Len(segs) \in Nat /\ \A k \in 1..Len(segs) : segs[k] \in Seq(Nodes)
  BY SeqIs
<1>2. PICK F \in [0..Len(segs) -> Seq(Nodes)] : Flat(F, segs)
  BY Flattened
<1>3. PICK G \in [0..Len(y) -> Seq(Values)] : Flat(G, y)
  BY Flattened
<1> DEFINE P == {k \in 0..Len(segs) : Labels(F[k]) = G[k]}
<1>4. 0 \in P
  BY <1>1, <1>2, <1>3, PlainNone DEF Flat, Plain
<1>5. ASSUME NEW k \in 1..Len(segs), k - 1 \in P PROVE k \in P
  <2>1. F[k] = F[k - 1] \o segs[k]
    BY <1>2 DEF Flat
  <2>a. Labels(F[k - 1]) = G[k - 1]
    BY <1>5
  <2>b. k \in 0..Len(segs) /\ k - 1 \in 0..Len(segs)
    BY <1>1
  <2>3. k \in 1..Len(y)
    OBVIOUS
  <2>4. G[k] = G[k - 1] \o y[k]
    BY <1>3, <2>3 DEF Flat
  <2> HIDE DEF P
  <2>5. PICK a \in Seq(Nodes) : a = F[k - 1]
    BY <1>2, <2>b
  <2>6. PICK b \in Seq(Nodes) : b = segs[k]
    BY <1>1
  <2>7. Labels(a \o b) = Labels(a) \o Labels(b)
    BY LabelsJoin
  <2>8. Labels(F[k]) = G[k]
    BY <2>1, <2>a, <2>4, <2>5, <2>6, <2>7
  <2> QED BY <2>b, <2>8 DEF P
<1>6. Len(segs) \in P
  <2>0. Len(segs) \in 0..Len(segs) /\ Len(segs) \in Nat
    BY <1>1
  <2> HIDE DEF P
  <2>1. 0..Len(segs) \subseteq P
    BY <1>4, <1>5, <2>0, Turns
  <2> QED BY <2>0, <2>1
<1>7. FlattenSeq(segs) = F[Len(segs)] /\ FlattenSeq(y) = G[Len(segs)]
  BY <1>2, <1>3 DEF Flat
<1> QED
  BY <1>6, <1>7

LEMMA EmittedNames ==
    ASSUME NEW type \in TypeNames, NEW S, AllOk(type, S), NEW s \in Seq(S), \A e \in ToSet(s) : KeysUnique(e),
           IsInjective(NamesOf(s))
    PROVE  /\ Emitted(type, s) \in Seq(Unnamed) /\ IsInjective(Labels(Emitted(type, s)))
           /\ ToSet(Labels(Emitted(type, s))) \subseteq ToSet(NamesOf(s))
<1>1. PICK n \in Nat : n = Len(s) /\ DOMAIN s = 1..n /\ \A k \in 1..n : s[k] \in S
  BY SeqIs
<1>2. PICK y \in Seq(Nodes) : y = Emitted(type, s) /\ Len(y) = n
  BY <1>1, EmittedIs
<1>3. PICK t \in Seq(S) : t = sortedCopy(s) /\ Len(t) = n
  BY <1>1, SortedItems
<1>4. \A k \in 1..n : y[k] = BuildElement(type, t[k]) /\ ElementOk(type, t[k])
  BY <1>1, <1>2, <1>3, EmittedIs
<1>5. PICK keys \in Seq(Int) : keys = NamesOf(s) /\ Len(keys) = n
  BY <1>1, NamesAre
<1>6. \A k \in 1..n : keys[k] = s[k].name
  BY <1>1, <1>5, NamesAre
<1>7. \A k \in 1..n : t[k] = s[Place(keys, k)] /\ Place(keys, k) \in 1..n
  BY <1>1, <1>3, <1>5, SortedItems
<1>8. ToSet(s) = {s[k] : k \in 1..n}
  BY <1>1, SetIs
<1>9. ASSUME NEW k \in 1..n
      PROVE  /\ y[k] \in Unnamed /\ childText(y[k], "SHORT-NAME") = <<t[k].name>>
             /\ t[k].name \in Values /\ t[k].name = keys[Place(keys, k)]
  <2>1. KeysUnique(t[k])
    BY <1>7, <1>8
  <2>2. PICK e : e = t[k] /\ ElementOk(type, e) /\ KeysUnique(e)
    BY <1>4, <2>1
  <2>3. BuildElement(type, e) \in Nodes /\ TagOf(BuildElement(type, e)) = OutTag(type)
        /\ childText(BuildElement(type, e), "SHORT-NAME") = <<e.name>> /\ e.name \in Values
    BY <2>2, ElementTyped
  <2>4. Distinct(BuildElement(type, e))
    BY <2>2, ElementDistinct
  <2>5. OutTag(type) # "SHORT-NAME"
    BY OutTags
  <2>6. BuildElement(type, e) \in Unnamed
    BY <2>3, <2>4, <2>5 DEF Unnamed
  <2> QED BY <1>4, <1>6, <1>7, <2>2, <2>3, <2>6
<1>10. y \in Seq(Unnamed)
  <2>1. y = [k \in 1..n |-> y[k]]
    BY <1>2, SeqIs
  <2>2. y \in [1..n -> Unnamed]
    BY <1>9, <2>1
  <2> QED BY <2>2, MadeSeq
<1>11. PICK names : names = [k \in 1..n |-> keys[Place(keys, k)]]
  OBVIOUS
<1>12. PICK ns \in Seq(Values) : ns = names /\ Len(ns) = n
  <2>1. names \in [1..n -> Values]
    BY <1>9, <1>11
  <2> QED BY <2>1, MadeSeq
<1>13. Labels(y) = ns
  <2>1. \A k \in 1..Len(y) : childText(y[k], "SHORT-NAME") = <<ns[k]>>
    BY <1>2, <1>9, <1>11, <1>12
  <2>2. Len(ns) = Len(y)
    BY <1>2, <1>12
  <2> QED BY <2>1, <2>2, LabelsEach
<1>14. IsInjective(ns)
  <2>1. ASSUME NEW k \in 1..Len(ns), NEW l \in 1..Len(ns), ns[k] = ns[l] PROVE k = l
    <3>1. k \in 1..Len(keys) /\ l \in 1..Len(keys) /\ IsInjective(keys) /\ keys[Place(keys, k)] = keys[Place(keys, l)]
      BY <1>5, <1>11, <1>12, <2>1
    <3> QED BY <3>1, PlacedDistinct
  <2> QED BY <2>1, InjectiveIs
<1>15. ToSet(ns) \subseteq ToSet(keys)
  <2>1. ToSet(ns) = {ns[k] : k \in 1..n} /\ ToSet(keys) = {keys[k] : k \in 1..n}
    BY <1>5, <1>12, SetIs
  <2> QED BY <2>1, <1>7, <1>11, <1>12
<1> QED
  BY <1>2, <1>5, <1>10, <1>13, <1>14, <1>15

LEMMA BodyApiece == ASSUME NEW p, Sound(p), Determined(p) PROVE Apiece(FlattenSeq(Body(p)))
<1>1. PICK segs \in Seq(Seq(Nodes)) : segs = Body(p) /\ Len(segs) = 6
  BY BodyIs
<1>2. PICK lists \in Seq(Seq(Clear)) : lists = NameLists(p) /\ Len(lists) = 6
  BY NameListsAre
<1>3. Apart(lists, 6)
  <2>1. IsInjective(FlattenSeq(lists))
    BY <1>2, NameListsAre DEF Determined
  <2>2. Apart(lists, Len(lists))
    BY <2>1, FlatApart
  <2> QED BY <1>2, <2>2
<1>4. ASSUME NEW i \in 1..6
      PROVE  segs[i] \in Seq(Unnamed) /\ IsInjective(Labels(segs[i])) /\ ToSet(Labels(segs[i])) \subseteq ToSet(lists[i])
             /\ Labels(segs[i]) \in Seq(Values)
  <2>1. PICK type \in TypeNames : type = Types[i] /\ segs[i] = Emitted(type, Merged(p, type))
    BY <1>1, BodyIs
  <2>2. lists[i] = NamesOf(Merged(p, type))
    BY <1>2, <2>1, NameListsAre
  <2>3. PICK S : S = ElementsOf(p, type)
    OBVIOUS
  <2>4. PICK s \in Seq(S) : s = Merged(p, type) /\ AllOk(type, S)
    BY <2>3, MergedIs
  <2>5. \A e \in ToSet(s) : KeysUnique(e)
    BY <2>4 DEF Determined
  <2>6. IsInjective(NamesOf(s))
    BY <2>4, NamesDistinct
  <2>7. /\ Emitted(type, s) \in Seq(Unnamed) /\ IsInjective(Labels(Emitted(type, s)))
        /\ ToSet(Labels(Emitted(type, s))) \subseteq ToSet(NamesOf(s))
    BY <2>4, <2>5, <2>6, EmittedNames
  <2>8. segs[i] \in Seq(Nodes)
    BY <1>1, SeqIs
  <2>9. Labels(segs[i]) \in Seq(Values)
    BY <2>8, LabelListsAre
  <2> QED BY <2>1, <2>2, <2>4, <2>7, <2>9
<1>5. segs \in Seq(Seq(Unnamed))
  <2>1. segs = [i \in 1..6 |-> segs[i]]
    BY <1>1, SeqIs
  <2>2. segs \in [1..6 -> Seq(Unnamed)]
    BY <1>4, <2>1
  <2> QED BY <2>2, SixMade
<1>6. PICK ch \in Seq(Unnamed) : ch = FlattenSeq(segs)
  BY <1>5, FlatTyped
<1>7. PICK y : y = [i \in 1..6 |-> Labels(segs[i])]
  OBVIOUS
<1>8. y \in [1..6 -> Seq(Values)]
  BY <1>4, <1>7
<1>9. y \in Seq(Seq(Values)) /\ Len(y) = 6
  BY <1>8, SixMade
<1>10. Labels(FlattenSeq(segs)) = FlattenSeq(y)
  <2>1. Len(y) = Len(segs) /\ \A k \in 1..Len(segs) : y[k] = Labels(segs[k])
    BY <1>1, <1>7, <1>9
  <2> QED BY <1>9, <2>1, LabelsFlat
<1>11. Apart(y, 6)
  <2>1. \A i \in 1..6 : IsInjective(y[i]) /\ ToSet(y[i]) \subseteq ToSet(lists[i])
    BY <1>4, <1>7
  <2> QED BY <1>3, <2>1 DEF Apart
<1>12. IsInjective(FlattenSeq(y))
  <2>1. Apart(y, Len(y))
    BY <1>9, <1>11
  <2> QED BY <1>9, <2>1, FlatApart
<1> QED
  BY <1>1, <1>6, <1>10, <1>12, UnnamedAre DEF Apiece

LEMMA OneApiece ==
    ASSUME NEW n \in Nodes, TagOf(n) # "SHORT-NAME", Distinct(n), IsInjective(childText(n, "SHORT-NAME")) PROVE Apiece(<<n>>)
<1>1. n \in Seq(Rows)
  BY TreeIs DEF Nodes
<1>2. FlattenSeq(<<n>>) = n
  BY <1>1, FlatOne
<1>3. Labels(<<n>>) = childText(n, "SHORT-NAME")
  BY LabelsOne
<1>4. OfTag(<<n>>, "SHORT-NAME") = <<>>
  BY OfTagOne
<1> QED
  BY <1>2, <1>3, <1>4 DEF Apiece

LEMMA OnePlain ==
    ASSUME NEW n \in Nodes, TagOf(n) # "SHORT-NAME", Distinct(n), childText(n, "SHORT-NAME") = <<>> PROVE Plain(<<n>>)
<1>1. IsInjective(childText(n, "SHORT-NAME"))
  BY DEF IsInjective
<1>2. Labels(<<n>>) = <<>>
  BY LabelsOne
<1> QED
  BY <1>1, <1>2, OneApiece DEF Apiece, Plain

LEMMA PackageApiece ==
    ASSUME NEW ch \in Seq(Nodes), Plain(ch)
    PROVE  <<Titled("AR-PACKAGE", "Sys", ch)>> \in Seq(Nodes) /\ Apiece(<<Titled("AR-PACKAGE", "Sys", ch)>>)
<1>1. PICK t \in Tags : t = "AR-PACKAGE"
  BY DEF Tags
<1>2. PICK x \in Values : x = "Sys"
  BY DEF Values, Parts, Words
<1>3. PICK n \in Nodes : n = Titled(t, x, ch)
  BY NamedBuilt
<1>4. TagOf(n) = t /\ childText(n, "SHORT-NAME") = <<x>>
  BY <1>3, NamedBuilt
<1>5. Distinct(n)
  BY <1>3, DistinctNamed
<1>6. IsInjective(childText(n, "SHORT-NAME"))
  BY <1>4 DEF IsInjective
<1>7. TagOf(n) # "SHORT-NAME"
  BY <1>1, <1>4
<1> QED
  BY <1>1, <1>2, <1>3, <1>5, <1>6, <1>7, OneIs, OneApiece

LEMMA RootDistinct == ASSUME NEW p, Sound(p), Determined(p) PROVE Distinct(BuildTree(p).root)
<1>1. PICK ch \in Seq(Nodes) : ch = FlattenSeq(Body(p)) /\ Apiece(ch)
  BY BodyIs, BodyApiece
<1>2. Around \subseteq Tags
  BY DEF Around, Tags
<1>3. "AUTOSAR" \in Tags /\ "AR-PACKAGES" \in Tags /\ "AR-PACKAGE" \in Tags /\ "ELEMENTS" \in Tags
  BY <1>2 DEF Around
<1>4. PICK a \in Nodes : a = Group("ELEMENTS", ch) /\ TagOf(a) = "ELEMENTS"
  BY <1>3, GroupBuilt
<1>5. Distinct(a) /\ childText(a, "SHORT-NAME") = <<>>
  BY <1>1, <1>3, <1>4, GroupPlain
<1>6. PICK as \in Seq(Nodes) : as = <<a>> /\ Plain(as)
  BY <1>4, <1>5, OneIs, OnePlain
<1>10. PICK bs \in Seq(Nodes) : bs = <<Titled("AR-PACKAGE", "Sys", as)>> /\ Apiece(bs)
  BY <1>6, PackageApiece
<1>11. PICK c \in Nodes : c = Group("AR-PACKAGES", bs) /\ TagOf(c) = "AR-PACKAGES"
  BY <1>3, GroupBuilt
<1>12. Distinct(c) /\ childText(c, "SHORT-NAME") = <<>>
  BY <1>3, <1>10, <1>11, GroupPlain
<1>13. PICK cs \in Seq(Nodes) : cs = <<c>> /\ Apiece(cs)
  BY <1>11, <1>12, OneIs, OnePlain, PlainApiece
<1>14. Distinct(Group("AUTOSAR", cs))
  BY <1>3, <1>13, GroupPlain
<1>15. BuildTree(p).root = Group("AUTOSAR", cs)
  <2>1. [i \in DOMAIN Types |-> Emitted(Types[i], Merged(p, Types[i]))] = Body(p)
    BY TypesAre DEF Body
  <2> QED BY <1>1, <1>4, <1>6, <1>10, <1>11, <1>13, <2>1 DEF BuildTree
<1> QED
  BY <1>14, <1>15

--------------------------------------------------------------------------------
(* What the builders read in a tree whose texts read as their tags say *)

Typed(X) == \A x \in X : WellTyped(x) /\ ~Ampersand(x)
Holds(X, tag, V) == \A x \in X : x.tag = tag => x.text \in V
AllTagged(s, tag) == \A k \in 1..Len(s) : TagOf(s[k]) = tag
References(X) == {r \in {x.text : x \in X} : shortNameOfRef(r) \in Clear}

LEMMA TypedHolds ==
    ASSUME NEW X, Typed(X)
    PROVE  /\ \A tag \in {"SHORT-NAME", "CATEGORY"} : Holds(X, tag, Clear)
           /\ \A tag \in NumeralTags : Holds(X, tag, Int)
           /\ \A tag \in ReferenceTags : Holds(X, tag, References(X))
BY DEF Typed, WellTyped, Ampersand, Clear, NameTags, Holds, References

LEMMA TextHeld ==
    ASSUME NEW X, NEW tag, NEW V, Holds(X, tag, V) PROVE \A n \in Trees(X) : TagOf(n) = tag => TextOf(n) \in V
<1>1. ASSUME NEW n \in Trees(X), TagOf(n) = tag PROVE TextOf(n) \in V
  <2>1. PICK x \in X : x = n[1]
    BY TreeIs
  <2>2. x.tag = tag
    BY <1>1, <2>1 DEF TagOf
  <2>3. x.text \in V
    BY <2>2 DEF Holds
  <2>4. TextOf(n) = x.text
    BY <2>1 DEF TextOf
  <2> QED BY <2>3, <2>4
<1> QED
  BY <1>1

LEMMA FoundTyped ==
    ASSUME NEW X, NEW n \in Trees(X), NEW tag
    PROVE  findDescendants(n, tag) \in Seq(TreesOf(X, {tag})) /\ findDescendants(n, tag) \in Seq(Trees(X))
<1>1. Tail(n) \in Forests(X)
  BY ForestTail
<1>2. Tagged(Tail(n), {tag}) \in Seq(TreesOf(X, {tag})) /\ Tagged(Tail(n), {tag}) \in Seq(Trees(X))
  BY <1>1, TaggedTyped
<1> QED
  BY <1>2 DEF findDescendants, collectDescendants

\* The texts of nodes with one tag.
LEMMA TextsTyped ==
    ASSUME NEW X, NEW tag, NEW V, Holds(X, tag, V), NEW s \in Seq(Trees(X)), AllTagged(s, tag)
    PROVE  Texts(s) \in Seq(V) /\ Len(Texts(s)) = Len(s)
<1>0. Len(s) \in Nat /\ \A k \in 1..Len(s) : s[k] \in Trees(X)
  BY SeqIs
<1>1. DOMAIN Texts(s) = 1..Len(s) /\ Len(Texts(s)) = Len(s) /\ \A k \in 1..Len(s) : Texts(s)[k] = TextOf(s[k])
  BY TextsAre
<1>2. ASSUME NEW k \in 1..Len(s) PROVE TextOf(s[k]) \in V
  <2>1. PICK n \in Trees(X) : n = s[k]
    BY <1>0
  <2>2. TagOf(n) = tag
    BY <2>1 DEF AllTagged
  <2>3. \A m \in Trees(X) : TagOf(m) = tag => TextOf(m) \in V
    BY TextHeld
  <2>4. TextOf(n) \in V
    BY <2>2, <2>3
  <2> QED BY <2>1, <2>4
<1>3. Texts(s) \in [1..Len(s) -> V]
  BY <1>1, <1>2 DEF Texts
<1> QED
  BY <1>0, <1>1, <1>3, MadeSeq

LEMMA FirstTagged ==
    ASSUME NEW S, NEW s \in Seq(S), NEW tag, AllTagged(s, tag)
    PROVE  /\ FirstOf(s) \in Seq(S) /\ Len(FirstOf(s)) <= 1 /\ AllTagged(FirstOf(s), tag)
           /\ FirstOf(s) # <<>> => FirstOf(s)[1] \in S
<1>1. FirstOf(s) \in Seq(S) /\ FirstOf(s) = IF Len(s) = 0 THEN <<>> ELSE <<s[1]>>
  BY FirstIs
<1>2. CASE Len(s) = 0
  BY <1>1, <1>2 DEF AllTagged
<1>3. CASE Len(s) # 0
  <2>1. Len(s) \in Nat
    BY SeqIs
  <2>2. 1 \in 1..Len(s)
    BY <1>3, <2>1
  <2>3. s[1] \in S /\ TagOf(s[1]) = tag
    BY <2>2, SeqIs DEF AllTagged
  <2>4. PICK a \in S : a = s[1]
    BY <2>3
  <2>5. FirstOf(s) = <<a>>
    BY <1>1, <1>3, <2>4
  <2>6. Len(<<a>>) = 1 /\ <<a>>[1] = a
    OBVIOUS
  <2>7. \A k \in 1..1 : k = 1
    OBVIOUS
  <2> QED BY <1>1, <2>3, <2>4, <2>5, <2>6, <2>7 DEF AllTagged
<1> QED
  BY <1>2, <1>3

LEMMA ChildIs ==
    ASSUME NEW X, NEW n \in Trees(X), NEW tag
    PROVE  /\ findChild(n, tag) \in Seq(Trees(X)) /\ Len(findChild(n, tag)) <= 1
           /\ AllTagged(findChild(n, tag), tag)
           /\ findChild(n, tag) # <<>> => findChild(n, tag)[1] \in Trees(X)
<1>1. Tail(n) \in Forests(X)
  BY ForestTail
<1>2. PICK ch \in Seq(Trees(X)) : ch = ChildrenOf(n)
  BY <1>1, OutermostTyped DEF ChildrenOf
<1>3. PICK s \in Seq(Trees(X)) : s = OfTag(ch, tag) /\ AllTagged(s, tag)
  BY OfTagTyped DEF AllTagged
<1>4. /\ FirstOf(s) \in Seq(Trees(X)) /\ Len(FirstOf(s)) <= 1 /\ AllTagged(FirstOf(s), tag)
      /\ FirstOf(s) # <<>> => FirstOf(s)[1] \in Trees(X)
  BY <1>3, FirstTagged
<1> QED
  BY <1>2, <1>3, <1>4 DEF findChild

LEMMA ChildTyped ==
    ASSUME NEW X, NEW tag, NEW V, Holds(X, tag, V), NEW n \in Trees(X) PROVE childText(n, tag) \in Options(V)
<1>1. PICK s \in Seq(Trees(X)) : s = findChild(n, tag) /\ Len(s) <= 1 /\ AllTagged(s, tag)
  BY ChildIs
<1>2. Texts(s) \in Seq(V) /\ Len(Texts(s)) = Len(s)
  BY <1>1, TextsTyped
<1> QED
  BY <1>1, <1>2 DEF childText, Options

LEMMA FirstFoundTyped ==
    ASSUME NEW X, NEW tag, NEW V, Holds(X, tag, V), NEW n \in Trees(X)
    PROVE  Texts(FirstOf(findDescendants(n, tag))) \in Options(V)
<1>1. PICK s \in Seq(TreesOf(X, {tag})) : s = findDescendants(n, tag)
  BY FoundTyped
<1>2. s \in Seq(Trees(X))
  BY <1>1, FoundTyped
<1>3. AllTagged(s, tag)
  BY SeqIs DEF TreesOf, AllTagged
<1>4. PICK f \in Seq(Trees(X)) : f = FirstOf(s) /\ Len(f) <= 1 /\ AllTagged(f, tag)
  BY <1>2, <1>3, FirstTagged
<1>5. Texts(f) \in Seq(V) /\ Len(Texts(f)) = Len(f)
  BY <1>4, TextsTyped
<1> QED
  BY <1>1, <1>4, <1>5 DEF Options

LEMMA ValueTyped ==
    ASSUME NEW S, NEW x \in Options(S), NEW D, S \subseteq D, NEW d \in D PROVE Value(x, d) \in D
<1>1. x = <<>> \/ \E v \in S : x = <<v>> /\ x # <<>> /\ x[1] = v
  BY OptionIs
<1> QED
  BY <1>1 DEF Value

LEMMA NameTyped ==
    ASSUME NEW X, Typed(X), NEW n \in Trees(X) PROVE extractShortName(n) \in Clear /\ category(n) \in Options(Clear)
<1>1. Holds(X, "SHORT-NAME", Clear) /\ Holds(X, "CATEGORY", Clear)
  BY TypedHolds
<1>2. PICK x \in Options(Clear) : x = childText(n, "SHORT-NAME")
  BY <1>1, ChildTyped
<1>3. Value(x, NoName) \in Clear
  <2>1. NoName \in Clear /\ Clear \subseteq Clear
    BY ClearIs
  <2> QED BY <2>1, ValueTyped
<1>4. childText(n, "CATEGORY") \in Options(Clear)
  BY <1>1, ChildTyped
<1> QED
  BY <1>2, <1>3, <1>4 DEF extractShortName, category

LEMMA RefsTyped ==
    ASSUME NEW X, Typed(X), NEW n \in Trees(X), NEW tag \in ReferenceTags PROVE refShortNames(n, tag) \in Seq(Proper)
<1>1. Holds(X, tag, References(X))
  BY TypedHolds
<1>2. PICK s \in Seq(TreesOf(X, {tag})) : s = findDescendants(n, tag)
  BY FoundTyped
<1>3. Len(s) \in Nat /\ DOMAIN s = 1..Len(s) /\ \A k \in 1..Len(s) : s[k] \in TreesOf(X, {tag})
  BY SeqIs
<1>4. ASSUME NEW k \in 1..Len(s) PROVE shortNameOfRef(TextOf(s[k])) \in Clear
  <2>1. PICK m \in Trees(X) : m = s[k] /\ TagOf(m) = tag
    BY <1>3 DEF TreesOf
  <2>2. TextOf(m) \in References(X)
    BY <1>1, <2>1, TextHeld
  <2> QED BY <2>1, <2>2 DEF References
<1>5. RefNames(s) \in [1..Len(s) -> Clear]
  BY <1>3, <1>4 DEF RefNames
<1>6. PICK names \in Seq(Clear) : names = RefNames(s)
  BY <1>3, <1>5, MadeSeq
<1>7. NonEmptyOf(names) \in Seq(Proper)
  BY NonEmptyTyped
<1> QED
  BY <1>2, <1>6, <1>7 DEF refShortNames, RefNames

LEMMA ShortNamesTyped ==
    ASSUME NEW X, Typed(X), NEW n \in Trees(X), NEW a, NEW b PROVE ShortNamesOf(n, <<a, b>>) \in Seq(Proper)
<1>1. PICK x \in Seq(Trees(X)) : x = findDescendants(n, a)
  BY FoundTyped
<1>2. PICK y \in Seq(Trees(X)) : y = findDescendants(n, b)
  BY FoundTyped
<1>3. OfTags(n, <<a, b>>) = findDescendants(n, a) \o findDescendants(n, b)
  BY <1>1, <1>2, OfTagsTwo
<1>4. PICK s \in Seq(Trees(X)) : s = x \o y
  BY JoinIs
<1>5. Len(s) \in Nat /\ DOMAIN s = 1..Len(s) /\ \A k \in 1..Len(s) : s[k] \in Trees(X)
  BY SeqIs
<1>6. \A k \in 1..Len(s) : extractShortName(s[k]) \in Clear
  BY <1>5, NameTyped
<1>7. ShortNames(s) \in [1..Len(s) -> Clear]
  BY <1>5, <1>6 DEF ShortNames
<1>8. PICK names \in Seq(Clear) : names = ShortNames(s)
  BY <1>5, <1>7, MadeSeq
<1>9. NonEmptyOf(names) \in Seq(Proper)
  BY NonEmptyTyped
<1> QED
  BY <1>1, <1>2, <1>3, <1>4, <1>8, <1>9 DEF ShortNamesOf, ShortNames

LEMMA UintsAre == 0 \in Uints /\ \A text : parseUint32(text) \in Options(Uints)
<1>1. 0 \in Uints
  BY UintAssumption DEF Uints
<1>2. ASSUME NEW text PROVE parseUint32(text) \in Options(Uints)
  <2>1. CASE text \in Uints
    <3>1. <<text>> \in Seq(Uints) /\ Len(<<text>>) = 1
      BY <2>1, OneIs
    <3> QED BY <2>1, <3>1 DEF parseUint32, Uints, Options
  <2>2. CASE text \notin Uints
    <3>1. <<>> \in Seq(Uints) /\ Len(<<>>) = 0
      OBVIOUS
    <3> QED BY <2>2, <3>1 DEF parseUint32, Uints, Options
  <2> QED BY <2>1, <2>2
<1> QED
  BY <1>1, <1>2

LEMMA NoOption == \A S : <<>> \in Options(S)
<1>1. ASSUME NEW S PROVE <<>> \in Options(S)
  <2>1. <<>> \in Seq(S) /\ Len(<<>>) = 0
    OBVIOUS
  <2> QED BY <2>1 DEF Options
<1> QED
  BY <1>1

LEMMA CountTyped == ASSUME NEW n, NEW tag, NEW fallback \in Uints PROVE childUint32(n, tag, fallback) \in Uints
<1>1. PICK t : t = childText(n, tag)
  OBVIOUS
<1>2. PICK x \in Options(Uints) : x = parseUint32(t[1])
  BY UintsAre
<1>3. Uints \subseteq Uints
  OBVIOUS
<1>4. Value(x, fallback) \in Uints
  BY <1>3, ValueTyped
<1> QED
  BY <1>1, <1>2, <1>4 DEF childUint32

LEMMA ClusterTyped ==
    ASSUME NEW X, Typed(X), NEW n \in Trees(X) PROVE ClusterOk(buildCluster(n))
<1>1. PICK e : e = buildCluster(n)
  OBVIOUS
<1>2. e.name \in Clear /\ e.category \in Options(Clear)
  BY <1>1, NameTyped DEF buildCluster
<1>3. e.baudrate \in Options(Uints)
  <2>1. PICK t : t = OrElse(childText(n, "BAUDRATE"), Texts(FirstOf(findDescendants(n, "BAUDRATE"))))
    OBVIOUS
  <2>2. e.baudrate = IF t = <<>> THEN <<>> ELSE parseUint32(t[1])
    BY <1>1, <2>1 DEF buildCluster
  <2> QED BY <2>2, NoOption, UintsAre
<1>4. e.physicalChannels \in Seq(Proper)
  BY <1>1, ShortNamesTyped DEF buildCluster
<1> QED
  BY <1>1, <1>2, <1>3, <1>4 DEF ClusterOk, Uints

LEMMA EcuTyped ==
    ASSUME NEW X, Typed(X), NEW n \in Trees(X) PROVE EcuOk(buildEcuInstance(n))
<1>1. PICK e : e = buildEcuInstance(n)
  OBVIOUS
<1>2. e.name \in Clear /\ e.category \in Options(Clear)
  BY <1>1, NameTyped DEF buildEcuInstance
<1>3. e.controllers \in Seq(Proper)
  BY <1>1, ShortNamesTyped DEF buildEcuInstance
<1> QED
  BY <1>1, <1>2, <1>3 DEF EcuOk

LEMMA GroupTyped ==
    ASSUME NEW X, Typed(X), NEW n \in Trees(X) PROVE GroupOk(buildSignalGroup(n))
<1>1. PICK e : e = buildSignalGroup(n)
  OBVIOUS
<1>2. e.name \in Clear
  BY <1>1, NameTyped DEF buildSignalGroup
<1>3. {"I-SIGNAL-REF", "SYSTEM-SIGNAL-REF"} \subseteq ReferenceTags
  BY DEF ReferenceTags
<1>4. PICK a \in Seq(Proper) : a = refShortNames(n, "I-SIGNAL-REF")
  BY <1>3, RefsTyped
<1>5. PICK b \in Seq(Proper) : b = refShortNames(n, "SYSTEM-SIGNAL-REF")
  BY <1>3, RefsTyped
<1>6. a \o b \in Seq(Proper)
  BY JoinIs
<1>7. e.members = a \o b
  BY <1>1, <1>4, <1>5 DEF buildSignalGroup
<1> QED
  BY <1>1, <1>2, <1>6, <1>7 DEF GroupOk

LEMMA SignalTyped ==
    ASSUME NEW X, Typed(X), NEW n \in Trees(X) PROVE SignalOk(buildSignal(n))
<1>1. PICK e : e = buildSignal(n)
  OBVIOUS
<1>2. e.name \in Clear
  BY <1>1, NameTyped DEF buildSignal
<1>3. e.bitLength \in Uints
  <2>1. 0 \in Uints
    BY UintsAre
  <2>2. childUint32(n, "LENGTH", 0) \in Uints
    BY <2>1, CountTyped
  <2>3. childUint32(n, "BIT-LENGTH", childUint32(n, "LENGTH", 0)) \in Uints
    BY <2>2, CountTyped
  <2> QED BY <1>1, <2>3 DEF buildSignal
<1>4. e.isSigned \in BOOLEAN
  BY <1>1 DEF buildSignal, isSignedBaseType
<1>5. e.initValue \in Options(Int \ {Unreadable})
  <2>1. Holds(X, "VALUE", Int)
    BY TypedHolds DEF NumeralTags
  <2>2. PICK initial \in Seq(Trees(X)) : initial = findChild(n, "INIT-VALUE") /\ (initial # <<>> => initial[1] \in Trees(X))
    BY ChildIs
  <2>3. PICK v : v = IF initial = <<>> THEN <<>> ELSE Texts(FirstOf(findDescendants(initial[1], "VALUE")))
    OBVIOUS
  <2>4. v \in Options(Int)
    <3>1. CASE initial = <<>>
      BY <2>3, <3>1, NoOption
    <3>2. CASE initial # <<>>
      <4>1. PICK m \in Trees(X) : m = initial[1]
        BY <2>2, <3>2
      <4>2. Texts(FirstOf(findDescendants(m, "VALUE"))) \in Options(Int)
        BY <2>1, FirstFoundTyped
      <4> QED BY <2>3, <3>2, <4>1, <4>2
    <3> QED BY <3>1, <3>2
  <2>5. e.initValue = IF v = <<>> THEN <<>> ELSE parseDouble(v[1])
    BY <1>1, <2>2, <2>3 DEF buildSignal
  <2>6. v = <<>> \/ \E i \in Int : v = <<i>> /\ v # <<>> /\ v[1] = i
    BY <2>4, OptionIs
  <2>7. ASSUME NEW i \in Int PROVE parseDouble(i) \in Options(Int \ {Unreadable})
    <3>1. CASE i = Unreadable
      BY <3>1, NoOption DEF parseDouble
    <3>2. CASE i # Unreadable
      <4>1. i \in Int \ {Unreadable}
        BY <3>2
      <4>2. <<i>> \in Seq(Int \ {Unreadable}) /\ Len(<<i>>) = 1
        BY <4>1, OneIs
      <4> QED BY <3>2, <4>2 DEF parseDouble, Options
    <3> QED BY <3>1, <3>2
  <2> QED BY <2>5, <2>6, <2>7, NoOption
<1> QED
  BY <1>1, <1>2, <1>3, <1>4, <1>5 DEF SignalOk, Uints

LEMMA TwoTagsTyped ==
    ASSUME NEW X, NEW n \in Trees(X), NEW a, NEW b PROVE OfTags(n, <<a, b>>) \in Seq(Trees(X))
<1>1. PICK x \in Seq(Trees(X)) : x = findDescendants(n, a)
  BY FoundTyped
<1>2. PICK y \in Seq(Trees(X)) : y = findDescendants(n, b)
  BY FoundTyped
<1>3. OfTags(n, <<a, b>>) = findDescendants(n, a) \o findDescendants(n, b)
  BY <1>1, <1>2, OfTagsTwo
<1>4. x \o y \in Seq(Trees(X))
  BY JoinIs
<1> QED
  BY <1>1, <1>2, <1>3, <1>4

\* The target of a mapping, which may have none.
LEMMA TargetTyped ==
    ASSUME NEW X, NEW x \in Options(References(X)) PROVE shortNameOfRef(Value(x, <<NoName>>)) \in Clear
<1>1. x = <<>> \/ \E v \in References(X) : x = <<v>> /\ x # <<>> /\ x[1] = v
  BY OptionIs
<1>2. CASE x = <<>>
  <2>1. Value(x, <<NoName>>) = <<NoName>>
    BY <1>2 DEF Value
  <2>2. Last(<<NoName>>) = NoName
    BY DEF Last
  <2>3. NoName \in Clear
    BY ClearIs
  <2> QED BY <2>1, <2>2, <2>3 DEF shortNameOfRef
<1>3. CASE x # <<>>
  <2>1. PICK v \in References(X) : x[1] = v
    BY <1>1, <1>3
  <2>2. Value(x, <<NoName>>) = v
    BY <1>3, <2>1 DEF Value
  <2>3. shortNameOfRef(v) \in Clear
    BY DEF References
  <2> QED BY <2>2, <2>3
<1> QED
  BY <1>2, <1>3

LEMMA FrameMappingTyped ==
    ASSUME NEW X, Typed(X), NEW m \in Trees(X) PROVE FramePduMapping(m) \in FrameMaps
<1>1. Holds(X, "PDU-REF", References(X))
  BY TypedHolds DEF ReferenceTags
<1>2. PICK x \in Options(References(X)) : x = childText(m, "PDU-REF")
  BY <1>1, ChildTyped
<1>3. shortNameOfRef(Value(x, <<NoName>>)) \in Clear
  BY TargetTyped
<1>4. childUint32(m, "START-POSITION", 0) \in Uints
  BY UintsAre, CountTyped
<1> QED
  BY <1>2, <1>3, <1>4 DEF FramePduMapping, FrameMaps

LEMMA PduMappingTyped ==
    ASSUME NEW X, Typed(X), NEW m \in Trees(X) PROVE PduSignalMapping(m) \in PduMaps
<1>1. Holds(X, "SIGNAL-REF", References(X)) /\ Holds(X, "I-SIGNAL-REF", References(X))
  BY TypedHolds DEF ReferenceTags
<1>2. PICK x \in Options(References(X)) : x = childText(m, "SIGNAL-REF")
  BY <1>1, ChildTyped
<1>3. PICK y \in Options(References(X)) : y = childText(m, "I-SIGNAL-REF")
  BY <1>1, ChildTyped
<1>4. PICK z \in Options(References(X)) : z = OrElse(x, y)
  BY DEF OrElse
<1>5. shortNameOfRef(Value(z, <<NoName>>)) \in Clear
  BY TargetTyped
<1>6. childUint32(m, "START-POSITION", 0) \in Uints
  BY UintsAre, CountTyped
<1>7. \A text : parseByteOrder(text) \in {"least", "most"}
  BY DEF parseByteOrder
<1>8. PICK o : o = OrElse(childText(m, "BYTE-ORDER"), childText(m, "PACKING-BYTE-ORDER"))
  OBVIOUS
<1>9. PduSignalMapping(m) =
          [ref |-> shortNameOfRef(Value(z, <<NoName>>)), start |-> childUint32(m, "START-POSITION", 0),
           byteOrder |-> parseByteOrder(Value(o, ""))]
  BY <1>2, <1>3, <1>4, <1>8 DEF PduSignalMapping
<1>10. PICK r \in Clear : r = shortNameOfRef(Value(z, <<NoName>>))
  BY <1>5
<1>11. PICK c \in Uints : c = childUint32(m, "START-POSITION", 0)
  BY <1>6
<1>12. PICK b \in {"least", "most"} : b = parseByteOrder(Value(o, ""))
  BY <1>7
<1>13. PduSignalMapping(m) = [ref |-> r, start |-> c, byteOrder |-> b]
  BY <1>9, <1>10, <1>11, <1>12
<1> QED
  BY <1>13 DEF PduMaps

LEMMA FrameTyped ==
    ASSUME NEW X, Typed(X), NEW n \in Trees(X) PROVE FrameOk(buildFrame(n))
<1>1. PICK e : e = buildFrame(n)
  OBVIOUS
<1>2. e.name \in Clear
  BY <1>1, NameTyped DEF buildFrame
<1>3. e.length \in Uints
  <2>1. childUint32(n, "FRAME-LENGTH", 0) \in Uints
    BY UintsAre, CountTyped
  <2>2. childUint32(n, "LENGTH", childUint32(n, "FRAME-LENGTH", 0)) \in Uints
    BY <2>1, CountTyped
  <2> QED BY <1>1, <2>2 DEF buildFrame
<1>4. e.pdus \in Seq(FrameMaps)
  <2>1. PICK s \in Seq(Trees(X)) : s = OfTags(n, <<"FRAME-PDU", "PDU-TO-FRAME-MAPPING">>)
    BY TwoTagsTyped
  <2>2. Len(s) \in Nat /\ DOMAIN s = 1..Len(s) /\ \A k \in 1..Len(s) : s[k] \in Trees(X)
    BY SeqIs
  <2>3. \A k \in 1..Len(s) : FramePduMapping(s[k]) \in FrameMaps
    BY <2>2, FrameMappingTyped
  <2>4. PduMapped(s) \in [1..Len(s) -> FrameMaps]
    BY <2>2, <2>3 DEF PduMapped
  <2>5. PduMapped(s) \in Seq(FrameMaps)
    BY <2>2, <2>4, MadeSeq
  <2>6. e.pdus = PduMapped(s)
    BY <1>1, <2>1 DEF buildFrame, PduMapped
  <2> QED BY <2>5, <2>6
<1> QED
  BY <1>1, <1>2, <1>3, <1>4 DEF FrameOk

LEMMA PduTyped ==
    ASSUME NEW X, Typed(X), NEW n \in Trees(X) PROVE PduOk(buildPdu(n))
<1>1. PICK e : e = buildPdu(n)
  OBVIOUS
<1>2. e.name \in Clear
  BY <1>1, NameTyped DEF buildPdu
<1>3. e.length \in Uints
  <2>1. childUint32(n, "LENGTH", 0) \in Uints
    BY UintsAre, CountTyped
  <2> QED BY <1>1, <2>1 DEF buildPdu
<1>4. e.signalMappings \in Seq(PduMaps)
  <2>1. PICK s \in Seq(Trees(X)) : s = OfTags(n, <<"PDU-SIGNAL-MAPPING", "I-SIGNAL-TO-I-PDU-MAPPING">>)
    BY TwoTagsTyped
  <2>2. Len(s) \in Nat /\ DOMAIN s = 1..Len(s) /\ \A k \in 1..Len(s) : s[k] \in Trees(X)
    BY SeqIs
  <2>3. \A k \in 1..Len(s) : PduSignalMapping(s[k]) \in PduMaps
    BY <2>2, PduMappingTyped
  <2>4. SignalMapped(s) \in [1..Len(s) -> PduMaps]
    BY <2>2, <2>3 DEF SignalMapped
  <2>5. SignalMapped(s) \in Seq(PduMaps)
    BY <2>2, <2>4, MadeSeq
  <2>6. e.signalMappings = SignalMapped(s)
    BY <1>1, <2>1 DEF buildPdu, SignalMapped
  <2> QED BY <2>5, <2>6
<1> QED
  BY <1>1, <1>2, <1>3, <1>4 DEF PduOk

LEMMA ElementRead ==
    ASSUME NEW X, Typed(X), NEW n \in Trees(X), NEW type \in TypeNames PROVE ElementOk(type, Build(type, n))
<1>1. type \in {"Cluster", "EcuInstance", "Frame", "Pdu", "Signal", "SignalGroup"}
  BY TypesAre
<1>2. Fields(type) \subseteq DOMAIN Build(type, n)
  BY BuiltFields
<1>3. CASE type = "Cluster"
  BY <1>2, <1>3, ClusterTyped DEF ElementOk, Build
<1>4. CASE type = "EcuInstance"
  BY <1>2, <1>4, EcuTyped DEF ElementOk, Build
<1>5. CASE type = "Frame"
  BY <1>2, <1>5, FrameTyped DEF ElementOk, Build
<1>6. CASE type = "Pdu"
  BY <1>2, <1>6, PduTyped DEF ElementOk, Build
<1>7. CASE type = "Signal"
  BY <1>2, <1>7, SignalTyped DEF ElementOk, Build
<1>8. CASE type = "SignalGroup"
  BY <1>2, <1>8, GroupTyped DEF ElementOk, Build
<1> QED
  BY <1>1, <1>3, <1>4, <1>5, <1>6, <1>7, <1>8

\* What parseFile makes of a document that can be read and has no '&' in it.
LEMMA FileSound ==
    ASSUME NEW d, WellFormed(d), Resolvable(d), \A i \in DOMAIN d.root : ~Ampersand(d.root[i])
    PROVE  SoundFile(parseFile(d))
<1>1. PICK rows : rows = d.root
  OBVIOUS
<1>2. PICK X : X = ToSet(rows)
  OBVIOUS
<1>3. rows \in Seq(X) /\ rows # <<>> /\ IsForest(rows)
  BY <1>1, <1>2 DEF WellFormed
<1>4. Len(rows) \in Nat /\ DOMAIN rows = 1..Len(rows)
  BY <1>3, SeqIs
<1>5. Typed(X)
  <2>1. \A i \in DOMAIN rows : WellTyped(rows[i]) /\ ~Ampersand(rows[i])
    BY <1>1 DEF WellFormed
  <2> QED BY <1>2, <2>1 DEF Typed, ToSet
<1>6. rows \in Forests(X)
  BY <1>3 DEF Forests
<1>7. parseFile(d).autosarRelease \in Releases
  BY DEF parseFile, Resolvable, Releases
<1>8. ASSUME NEW type \in TypeNames
      PROVE  IsSeq(parseFile(d).elements[type]) /\ AllOk(type, ToSet(parseFile(d).elements[type]))
  <2>1. PICK s \in Seq(Trees(X)) : s = Tagged(rows, Family[type])
    BY <1>6, TaggedTyped
  <2>2. Len(s) \in Nat /\ DOMAIN s = 1..Len(s) /\ \A k \in 1..Len(s) : s[k] \in Trees(X)
    BY SeqIs
  <2>3. PICK es : es = [i \in DOMAIN s |-> Build(type, s[i])]
    OBVIOUS
  <2>4. PICK S : S = {Build(type, m) : m \in Trees(X)}
    OBVIOUS
  <2>5. es \in [1..Len(s) -> S]
    BY <2>2, <2>3, <2>4
  <2>6. es \in Seq(S)
    BY <2>2, <2>5, MadeSeq
  <2>7. IsSeq(es) /\ ToSet(es) \subseteq S
    BY <2>6, SetIs
  <2>8. AllOk(type, S)
    BY <1>5, <2>4, ElementRead DEF AllOk
  <2>9. AllOk(type, ToSet(es))
    BY <2>7, <2>8 DEF AllOk
  <2>10. parseFile(d).elements[type] = es
    BY <1>1, <2>1, <2>3 DEF parseFile, buildSubtree
  <2> QED BY <2>7, <2>9, <2>10
<1> QED
  BY <1>7, <1>8 DEF SoundFile

--------------------------------------------------------------------------------
(* The program: parse, write, parse again *)

Parsed(fs) == [f \in DOMAIN fs |-> parseFile(fs[f])]
Flawed(p) ==
    \E f \in DOMAIN p, type \in TypeNames :
        \E e \in ToSet(p[f].elements[type]) : e.name = NoName \/ e.category = <<NoName>>

\* The inductive invariant.  The files are what was given or what was last written; where
\* nothing has an '&', the project is what they read as, and from the second reading on
\* so is the one before it.
FilesGiven == round = 0 => files = input
FilesWritten == round > 0 => Sound(previous) /\ files = <<BuildTree(previous)>> /\ phase # "threw"
PreviousRead == round > 1 => \E q : Sound(q) /\ previous = <<Back(q)>>
ProjectRead ==
    phase \notin {"parse", "threw"} => Sound(project) /\ (round > 0 => project = <<Back(previous)>>)
DocumentBuilt == phase \in {"assert", "saved"} => document = BuildTree(project)
RefusedFlawed == phase = "refused" => Flawed(project)
ContentPart ==
    /\ phase \in {"parse", "write", "assert", "saved", "threw", "refused"} /\ round \in Nat
    /\ FilesGiven /\ FilesWritten /\ PreviousRead /\ ProjectRead /\ DocumentBuilt /\ RefusedFlawed
ContentInv == input \in Projects /\ (NoAmpersand => ContentPart)

\* What is read of a project that is given.
LEMMA GivenSound ==
    ASSUME input \in Projects, NoAmpersand, NEW fs, fs = input, \A f \in DOMAIN fs : Resolvable(fs[f])
    PROVE  Sound(Parsed(fs))
<1>1. fs \in Seq(ToSet(fs)) /\ \A d \in ToSet(fs) : WellFormed(d)
  BY ProjectAssumption
<1>2. Len(fs) \in Nat /\ DOMAIN fs = 1..Len(fs) /\ \A f \in 1..Len(fs) : fs[f] \in ToSet(fs)
  BY <1>1, SeqIs
<1>3. PICK S : S = {parseFile(d) : d \in ToSet(fs)}
  OBVIOUS
<1>4. Parsed(fs) \in [1..Len(fs) -> S] /\ \A f \in 1..Len(fs) : Parsed(fs)[f] = parseFile(fs[f])
  BY <1>2, <1>3 DEF Parsed
<1>5. Parsed(fs) \in Seq(S) /\ Len(Parsed(fs)) = Len(fs)
  BY <1>2, <1>4, MadeSeq
<1>6. IsSeq(Parsed(fs))
  BY <1>5, SetIs
<1>7. ASSUME NEW f \in 1..Len(fs) PROVE SoundFile(Parsed(fs)[f])
  <2>1. PICK d : d = fs[f]
    OBVIOUS
  <2>2. WellFormed(d) /\ Resolvable(d) /\ \A i \in DOMAIN d.root : ~Ampersand(d.root[i])
    BY <1>1, <1>2, <2>1 DEF NoAmpersand
  <2>3. SoundFile(parseFile(d))
    BY <2>2, FileSound
  <2> QED BY <1>4, <2>1, <2>3
<1> QED
  BY <1>5, <1>6, <1>7 DEF Sound

LEMMA WrittenParsed ==
    ASSUME NEW p, Sound(p)
    PROVE  Parsed(<<BuildTree(p)>>) = <<Back(p)>> /\ \A f \in DOMAIN <<BuildTree(p)>> : Resolvable(<<BuildTree(p)>>[f])
<1>1. PICK d : d = BuildTree(p)
  OBVIOUS
<1>2. DOMAIN <<d>> = 1..1 /\ <<d>>[1] = d /\ \A f \in 1..1 : f = 1
  OBVIOUS
<1>3. Parsed(<<d>>) = [f \in 1..1 |-> parseFile(d)]
  BY <1>2 DEF Parsed
<1>4. [f \in 1..1 |-> parseFile(d)] = <<parseFile(d)>>
  OBVIOUS
<1>5. Resolvable(d)
  BY <1>1, BackRelease
<1>6. \A f \in DOMAIN <<d>> : Resolvable(<<d>>[f])
  BY <1>2, <1>5
<1> QED
  BY <1>1, <1>3, <1>4, <1>6 DEF Back

\* An empty text in the document is an empty category in the project.
LEMMA BlankFlawed == ASSUME NEW p, Sound(p), EmptyTexts(BuildTree(p)) # {} PROVE Flawed(p)
<1>1. SUFFICES ASSUME ~Flawed(p) PROVE FALSE
  OBVIOUS
<1>2. DOMAIN p = 1..Len(p)
  BY SeqIs DEF Sound, IsSeq
<1>3. \A type \in TypeNames : AllFilled(type, ElementsOf(p, type))
  BY <1>1, <1>2 DEF Flawed, AllFilled, ElementsOf
<1> QED
  BY <1>3, NoBlank

LEMMA NamelessFlawed == ASSUME NEW p, Sound(p), validate(p) # {} PROVE Flawed(p)
<1>1. PICK f \in DOMAIN p, type \in TypeNames :
          {<<f, type, i>> : i \in {j \in DOMAIN p[f].elements[type] : p[f].elements[type][j].name = NoName}} # {}
  BY DEF validate
<1>2. PICK j \in DOMAIN p[f].elements[type] : p[f].elements[type][j].name = NoName
  BY <1>1
<1>3. p[f].elements[type][j] \in ToSet(p[f].elements[type])
  BY DEF ToSet
<1> QED
  BY <1>2, <1>3 DEF Flawed

\* Reading what was read of a written project gives it again.
LEMMA BackTwice == ASSUME NEW q, Sound(q) PROVE <<Back(<<Back(q)>>)>> = <<Back(q)>>
BY BackAgain DEF Back

LEMMA PartInductive ==
    ASSUME input \in Projects, NoAmpersand, ContentPart, [ContentNext]_contentVars PROVE ContentPart'
<1>0. /\ phase \in {"parse", "write", "assert", "saved", "threw", "refused"} /\ round \in Nat
      /\ FilesGiven /\ FilesWritten /\ PreviousRead /\ ProjectRead /\ DocumentBuilt /\ RefusedFlawed
  BY DEF ContentPart
<1>i. input' = input
  BY DEF ContentNext, ParseFiles, ParseThrows, WriteRefused, BuildDocument, TextRefused, Save, ReadAgain, contentVars
<1>1. CASE ParseFiles
  <2>0. /\ phase = "parse" /\ phase' = "write" /\ round' = round /\ files' = files /\ previous' = previous
        /\ document' = document /\ project' = Parsed(files) /\ \A f \in DOMAIN files : Resolvable(files[f])
    BY <1>1 DEF ParseFiles, Parsed
  <2>1. Sound(project') /\ (round > 0 => project' = <<Back(previous)>>)
    <3>1. CASE round = 0
      <4>1. files = input
        BY <1>0, <3>1 DEF FilesGiven
      <4>2. Sound(Parsed(files))
        BY <2>0, <4>1, GivenSound
      <4> QED BY <2>0, <3>1, <4>2
    <3>2. CASE round > 0
      <4>1. PICK p : p = previous /\ Sound(p) /\ files = <<BuildTree(p)>>
        BY <1>0, <3>2 DEF FilesWritten
      <4>2. Parsed(files) = <<Back(p)>>
        BY <4>1, WrittenParsed
      <4>3. Sound(<<Back(p)>>)
        BY <4>1, BackSound
      <4> QED BY <2>0, <4>1, <4>2, <4>3
    <3> QED BY <1>0, <3>1, <3>2
  <2>2. FilesGiven' /\ FilesWritten' /\ PreviousRead'
    BY <1>0, <1>i, <2>0 DEF FilesGiven, FilesWritten, PreviousRead
  <2>3. ProjectRead'
    BY <2>0, <2>1 DEF ProjectRead
  <2>4. DocumentBuilt' /\ RefusedFlawed'
    BY <2>0 DEF DocumentBuilt, RefusedFlawed
  <2> QED BY <1>0, <2>0, <2>2, <2>3, <2>4 DEF ContentPart
<1>2. CASE ParseThrows
  <2>0. /\ phase = "parse" /\ phase' = "threw" /\ round' = round /\ files' = files /\ previous' = previous
        /\ project' = project /\ document' = document /\ \E f \in DOMAIN files : ~Resolvable(files[f])
    BY <1>2 DEF ParseThrows
  <2>1. ~(round > 0)
    <3>1. SUFFICES ASSUME round > 0 PROVE FALSE
      OBVIOUS
    <3>2. PICK p : p = previous /\ Sound(p) /\ files = <<BuildTree(p)>>
      BY <1>0, <3>1 DEF FilesWritten
    <3>3. \A f \in DOMAIN files : Resolvable(files[f])
      BY <3>2, WrittenParsed
    <3> QED BY <2>0, <3>3
  <2>2. FilesGiven' /\ FilesWritten' /\ PreviousRead'
    BY <1>0, <1>i, <2>0, <2>1 DEF FilesGiven, FilesWritten, PreviousRead
  <2>3. ProjectRead' /\ DocumentBuilt' /\ RefusedFlawed'
    BY <2>0 DEF ProjectRead, DocumentBuilt, RefusedFlawed
  <2> QED BY <1>0, <2>0, <2>2, <2>3 DEF ContentPart
<1>3. CASE WriteRefused
  <2>0. /\ phase = "write" /\ phase' = "refused" /\ round' = round /\ files' = files /\ previous' = previous
        /\ project' = project /\ document' = document /\ validate(project) # {}
    BY <1>3 DEF WriteRefused
  <2>1. Sound(project) /\ (round > 0 => project = <<Back(previous)>>)
    BY <1>0, <2>0 DEF ProjectRead
  <2>2. Flawed(project)
    BY <2>0, <2>1, NamelessFlawed
  <2>3. FilesGiven' /\ FilesWritten' /\ PreviousRead'
    BY <1>0, <1>i, <2>0 DEF FilesGiven, FilesWritten, PreviousRead
  <2>4. ProjectRead' /\ DocumentBuilt' /\ RefusedFlawed'
    BY <2>0, <2>1, <2>2 DEF ProjectRead, DocumentBuilt, RefusedFlawed
  <2> QED BY <1>0, <2>0, <2>3, <2>4 DEF ContentPart
<1>4. CASE BuildDocument
  <2>0. /\ phase = "write" /\ phase' = "assert" /\ round' = round /\ files' = files /\ previous' = previous
        /\ project' = project /\ document' = BuildTree(project)
    BY <1>4 DEF BuildDocument
  <2>1. Sound(project) /\ (round > 0 => project = <<Back(previous)>>)
    BY <1>0, <2>0 DEF ProjectRead
  <2>3. FilesGiven' /\ FilesWritten' /\ PreviousRead'
    BY <1>0, <1>i, <2>0 DEF FilesGiven, FilesWritten, PreviousRead
  <2>4. ProjectRead' /\ DocumentBuilt' /\ RefusedFlawed'
    BY <2>0, <2>1 DEF ProjectRead, DocumentBuilt, RefusedFlawed
  <2> QED BY <1>0, <2>0, <2>3, <2>4 DEF ContentPart
<1>5. CASE TextRefused
  <2>0. /\ phase = "assert" /\ phase' = "refused" /\ round' = round /\ files' = files /\ previous' = previous
        /\ project' = project /\ document' = document /\ EmptyTexts(document) # {}
    BY <1>5 DEF TextRefused
  <2>1. Sound(project) /\ (round > 0 => project = <<Back(previous)>>) /\ document = BuildTree(project)
    BY <1>0, <2>0 DEF ProjectRead, DocumentBuilt
  <2>2. Flawed(project)
    BY <2>0, <2>1, BlankFlawed
  <2>3. FilesGiven' /\ FilesWritten' /\ PreviousRead'
    BY <1>0, <1>i, <2>0 DEF FilesGiven, FilesWritten, PreviousRead
  <2>4. ProjectRead' /\ DocumentBuilt' /\ RefusedFlawed'
    BY <2>0, <2>1, <2>2 DEF ProjectRead, DocumentBuilt, RefusedFlawed
  <2> QED BY <1>0, <2>0, <2>3, <2>4 DEF ContentPart
<1>6. CASE Save
  <2>0. /\ phase = "assert" /\ phase' = "saved" /\ round' = round /\ files' = files /\ previous' = previous
        /\ project' = project /\ document' = document
    BY <1>6 DEF Save
  <2>1. Sound(project) /\ (round > 0 => project = <<Back(previous)>>) /\ document = BuildTree(project)
    BY <1>0, <2>0 DEF ProjectRead, DocumentBuilt
  <2>3. FilesGiven' /\ FilesWritten' /\ PreviousRead'
    BY <1>0, <1>i, <2>0 DEF FilesGiven, FilesWritten, PreviousRead
  <2>4. ProjectRead' /\ DocumentBuilt' /\ RefusedFlawed'
    BY <2>0, <2>1 DEF ProjectRead, DocumentBuilt, RefusedFlawed
  <2> QED BY <1>0, <2>0, <2>3, <2>4 DEF ContentPart
<1>7. CASE ReadAgain
  <2>0. /\ phase = "saved" /\ phase' = "parse" /\ round' = round + 1 /\ files' = <<document>> /\ previous' = project
        /\ project' = project /\ document' = document
    BY <1>7 DEF ReadAgain
  <2>1. Sound(project) /\ (round > 0 => project = <<Back(previous)>>) /\ document = BuildTree(project)
    BY <1>0, <2>0 DEF ProjectRead, DocumentBuilt
  <2>2. round' \in Nat /\ round' > 0
    BY <1>0, <2>0
  <2>3. FilesGiven' /\ FilesWritten'
    BY <2>0, <2>1, <2>2 DEF FilesGiven, FilesWritten
  <2>4. PreviousRead'
    <3>1. SUFFICES ASSUME round' > 1 PROVE \E q : Sound(q) /\ previous' = <<Back(q)>>
      BY DEF PreviousRead
    <3>2. round > 0
      BY <1>0, <2>0, <3>1
    <3>3. Sound(previous) /\ previous' = <<Back(previous)>>
      BY <1>0, <2>0, <2>1, <3>2 DEF FilesWritten
    <3> QED BY <3>3
  <2>5. ProjectRead' /\ DocumentBuilt' /\ RefusedFlawed'
    BY <2>0 DEF ProjectRead, DocumentBuilt, RefusedFlawed
  <2> QED BY <2>0, <2>2, <2>3, <2>4, <2>5 DEF ContentPart
<1>8. CASE UNCHANGED contentVars
  BY <1>8 DEF contentVars, ContentPart, FilesGiven, FilesWritten, PreviousRead, ProjectRead, DocumentBuilt, RefusedFlawed
<1> QED
  BY <1>1, <1>2, <1>3, <1>4, <1>5, <1>6, <1>7, <1>8 DEF ContentNext

LEMMA ContentInductive == ASSUME ContentInv, [ContentNext]_contentVars PROVE ContentInv'
<1>1. input' = input
  BY DEF ContentNext, ParseFiles, ParseThrows, WriteRefused, BuildDocument, TextRefused, Save, ReadAgain, contentVars
<1>2. NoAmpersand' <=> NoAmpersand
  BY <1>1 DEF NoAmpersand
<1> QED
  BY <1>1, <1>2, PartInductive DEF ContentInv

LEMMA ContentHolds == ContentSpec => []ContentInv
<1>1. ContentInit => ContentInv
  BY DEF ContentInit, ContentInv, ContentPart, FilesGiven, FilesWritten, PreviousRead, ProjectRead, DocumentBuilt, RefusedFlawed
<1>2. ContentInv /\ [ContentNext]_contentVars => ContentInv'
  BY ContentInductive
<1> QED
  BY <1>1, <1>2, PTL DEF ContentSpec

(* WriteEngine::write and parseFile: whatever the projects, as long as no name,   *)
(* category or reference that is read has an '&', what write() saves reads back   *)
(* under the same release into the same elements, as often as they were there,    *)
(* with what Kept lists of each (less than README.md:201 says: see                *)
(* RoundTripsAsDocumented); from the second reading on nothing changes any more;  *)
(* and a write is refused only for an element without a name or an empty category. *)
THEOREM ContentReadsBack == ContentSpec => []WrittenReadsBack
<1>1. ASSUME ContentInv PROVE WrittenReadsBack
  <2> SUFFICES ASSUME NoAmpersand PROVE WrittenReadsBack
    BY DEF WrittenReadsBack
  <2>0. /\ round \in Nat /\ FilesWritten /\ PreviousRead /\ ProjectRead /\ RefusedFlawed
        /\ phase \in {"parse", "write", "assert", "saved", "threw", "refused"}
    BY <1>1 DEF ContentInv, ContentPart
  <2>1. ASSUME round > 0, phase # "parse"
        PROVE  /\ Len(project) = 1 /\ project[1].autosarRelease = ReleaseOf(previous)
               /\ KeptOf(project) = KeptOf(previous) /\ (round > 1 => project = previous)
    <3>1. PICK p : p = previous /\ Sound(p) /\ phase # "threw"
      BY <2>0, <2>1 DEF FilesWritten
    <3>2. project = <<Back(p)>>
      BY <2>0, <2>1, <3>1 DEF ProjectRead
    <3>3. Len(<<Back(p)>>) = 1 /\ <<Back(p)>>[1] = Back(p)
      OBVIOUS
    <3>4. Back(p).autosarRelease = ReleaseOf(p)
      BY <3>1, BackRelease
    <3>5. KeptOf(<<Back(p)>>) = KeptOf(p)
      BY <3>1, BackKeeps
    <3>6. ASSUME round > 1 PROVE project = previous
      <4>1. PICK q : Sound(q) /\ previous = <<Back(q)>>
        BY <2>0, <3>6 DEF PreviousRead
      <4>2. <<Back(<<Back(q)>>)>> = <<Back(q)>>
        BY <4>1, BackTwice
      <4> QED BY <3>1, <3>2, <4>1, <4>2
    <3> QED BY <3>1, <3>2, <3>3, <3>4, <3>5, <3>6
  <2>2. round > 0 => phase # "threw"
    BY <2>0 DEF FilesWritten
  <2>3. phase = "refused" =>
          \E f \in DOMAIN project, type \in TypeNames :
              \E e \in ToSet(project[f].elements[type]) : e.name = NoName \/ e.category = <<NoName>>
    BY <2>0 DEF RefusedFlawed, Flawed
  <2> QED BY <2>1, <2>2, <2>3 DEF WrittenReadsBack
<1> QED
  BY <1>1, ContentHolds, PTL

(* sortedCopy, sortedStrings, sortedMappings and the names the mapping builders   *)
(* synthesise: whatever the projects, the order of the elements of a type and of  *)
(* the lists inside them never shows in the document, and no two siblings of it   *)
(* have the same name, as long as the project's names are distinct, no list names *)
(* the same thing twice and no text that is read has an '&'.                      *)
THEOREM OutputAlwaysCanonical == ContentSpec => []OutputCanonical
<1>1. ASSUME ContentInv PROVE OutputCanonical
  <2>1. SUFFICES ASSUME NoAmpersand, phase \in {"assert", "saved"}, Determined(project)
                 PROVE  /\ \A type \in TypeNames : \A s \in Shuffles(Merged(project, type)) :
                              Emitted(type, s) = Written(document, type)
                        /\ \A i \in DOMAIN document.root : IsInjective(SiblingNames(Subtree(document.root, i)))
    BY DEF OutputCanonical
  <2>2. PICK p : p = project /\ Sound(p) /\ Determined(p) /\ document = BuildTree(p)
    BY <1>1, <2>1 DEF ContentInv, ContentPart, ProjectRead, DocumentBuilt
  <2>3. ASSUME NEW type \in TypeNames, NEW s \in Shuffles(Merged(p, type)) PROVE Emitted(type, s) = Written(document, type)
    <3>1. Written(BuildTree(p), type) = Emitted(type, Merged(p, type))
      BY <2>2, WrittenIs
    <3>2. Emitted(type, s) = Emitted(type, Merged(p, type))
      BY <2>2, Shuffled
    <3> QED BY <2>2, <3>1, <3>2
  <2>4. PICK rows \in Nodes : rows = document.root
    BY <2>2, RootIs
  <2>5. DOMAIN rows = 1..Len(rows)
    BY TreeIs, ForestIs DEF Nodes
  <2>6. Distinct(rows)
    BY <2>2, <2>4, RootDistinct
  <2>7. \A i \in DOMAIN document.root : IsInjective(SiblingNames(Subtree(document.root, i)))
    BY <2>4, <2>5, <2>6 DEF Distinct
  <2> QED BY <2>2, <2>3, <2>7
<1> QED
  BY <1>1, ContentHolds, PTL

--------------------------------------------------------------------------------
(* The output file *)

\* The steps of an invocation that has not opened its output file yet.
Early == {"ready", "input", "engine", "open"}

SaveCommand(r) == r.apply /\ r.cmd \in {"write", "export"}

\* What the next step s of an invocation says of its record r; dead: it was killed.
LocalOK(s, r, dead) ==
    /\ s = "ready" => r.trace = FALSE
    /\ s # "exited" => r.printed = FALSE /\ r.traces = 0 /\ r.exit = "none" /\ r.undumped = FALSE
    /\ s \notin {"drop", "exited"} => r.ex = "none"
    /\ s \in Early => r.fd = NoFile /\ r.pos = 0
    /\ s \in {"engine", "open", "save", "rename", "drop"} => SaveCommand(r)
    /\ s = "save" => r.fd # NoFile /\ r.pos < Blocks
    /\ s = "rename" => r.fd # NoFile /\ r.pos = Blocks
    /\ s = "exited" /\ ~dead =>
          /\ r.exit = "Ok" => r.printed = TRUE
          /\ r.printed = TRUE => r.ex = "none" /\ (r.exit = "Ok" \/ r.undumped = TRUE)
          /\ r.undumped = TRUE => r.exit = "Software"
          /\ r.traces = IF r.trace /\ ~r.undumped THEN 1 ELSE 0

Locals == \A p \in Procs : LocalOK(pc[p], run[p], p \in killed)

\* The invariant of the properties that do not read the files.
Own == TypeOK /\ Locals /\ TempOnlyWhileWriting

\* A step of p that leaves the other invocations where they are.
OnlyOwn(p) ==
    /\ pc' \in [Procs -> Steps] /\ run' \in [Procs -> Run]
    /\ \A q \in Procs \ {p} : pc'[q] = pc[q] /\ run'[q] = run[q]

LEMMA Elsewhere ==
    ASSUME TypeOK, NEW p \in Procs, NEW s \in Steps, Goto(p, s),
           NEW r \in Run, run' = [run EXCEPT ![p] = r]
    PROVE  OnlyOwn(p) /\ pc'[p] = s /\ run'[p] = r
BY DEF TypeOK, Goto, OnlyOwn

LEMMA ElsewhereSame ==
    ASSUME TypeOK, NEW p \in Procs, NEW s \in Steps, Goto(p, s), UNCHANGED run
    PROVE  OnlyOwn(p) /\ pc'[p] = s /\ run'[p] = run[p]
BY DEF TypeOK, Goto, OnlyOwn

\* The error boundary never turns an exception into success.
LEMMA Classified ==
    ASSUME NEW ex
    PROVE  classify(ex) \in ExitCode \ {"none", "Ok"}
BY DEF classify, ExitCode

\* A dump(2) that throws ends the command, and says so in its exit code.
LEMMA Dumped ==
    ASSUME NEW r \in Run
    PROVE  LET u == Undumped(r) IN
           /\ u \in Run /\ u.undumped = TRUE /\ u.exit = "Software"
           /\ \A g \in {"fd", "cmd", "apply", "pos", "printed", "traces", "trace", "ex", "stray"} : u[g] = r[g]
<1>1. classify("type_error") = "Software" /\ "Software" \in ExitCode
  BY DEF classify, ExitCode
<1> QED
  BY <1>1 DEF Undumped, Run

\* A record of p that differs from run[p] in the exception and in what was left behind.
SameInvocation(p, r) ==
    /\ r \in Run
    /\ \A g \in {"fd", "cmd", "apply", "pos", "printed", "traces", "trace", "undumped"} : r[g] = run[p][g]

\* What a throwing command leaves: an exit code that is an error, no report, and its
\* trace unless that threw too.
LEMMA Thrown ==
    ASSUME TypeOK, NEW p \in Procs, NEW r, SameInvocation(p, r), Rethrow(p, r),
           LocalOK(pc[p], run[p], p \in killed), pc[p] # "exited"
    PROVE  /\ OnlyOwn(p) /\ pc'[p] = "exited"
           /\ run'[p].fd = run[p].fd /\ run'[p].cmd = run[p].cmd /\ run'[p].apply = run[p].apply
           /\ run'[p].stray = r.stray /\ run'[p].exit \notin {"none", "Ok"}
           /\ LocalOK(pc'[p], run'[p], FALSE)
<1> DEFINE code == classify(r.ex)
           t == Traced(r)
           e == [t EXCEPT !.exit = code]
           u == Undumped(r)
<1>1. r \in Run /\ code \in ExitCode \ {"none", "Ok"}
  BY Classified DEF SameInvocation
<1>2. /\ r.printed = FALSE /\ r.traces = 0 /\ r.undumped = FALSE
      /\ r.fd = run[p].fd /\ r.cmd = run[p].cmd /\ r.apply = run[p].apply
  BY DEF LocalOK, SameInvocation
<1>3. /\ t \in Run /\ t.traces = IF r.trace THEN 1 ELSE 0
      /\ \A g \in {"fd", "cmd", "apply", "printed", "trace", "undumped", "stray"} : t[g] = r[g]
  <2>1. CASE r.trace
    <3>1. t = [r EXCEPT !.traces = @ + 1]
      BY <2>1 DEF Traced
    <3> QED
      BY <1>1, <1>2, <2>1, <3>1 DEF Run
  <2>2. CASE ~r.trace
    BY <1>1, <1>2, <2>2 DEF Traced
  <2> QED
    BY <2>1, <2>2
<1>4. \/ run' = [run EXCEPT ![p] = e]
      \/ r.trace /\ run' = [run EXCEPT ![p] = u]
  BY DEF Rethrow
<1> HIDE DEF code, t
<1>5. /\ e \in Run /\ e.exit = code
      /\ \A g \in {"fd", "cmd", "apply", "printed", "traces", "trace", "undumped", "stray"} : e[g] = t[g]
  BY <1>1, <1>3 DEF Run
<1>6. /\ u \in Run /\ u.undumped = TRUE /\ u.exit = "Software"
      /\ \A g \in {"fd", "cmd", "apply", "pos", "printed", "traces", "trace", "ex", "stray"} : u[g] = r[g]
  BY <1>1, Dumped
<1> HIDE DEF e, u
<1>7. CASE run' = [run EXCEPT ![p] = e]
  <2>1. OnlyOwn(p) /\ pc'[p] = "exited" /\ run'[p] = e
    BY <1>5, <1>7, Elsewhere DEF Steps, Rethrow
  <2>2. LocalOK("exited", e, FALSE)
    BY <1>1, <1>2, <1>3, <1>5 DEF LocalOK, Early
  <2> QED
    BY <1>1, <1>2, <1>3, <1>5, <2>1, <2>2
<1>8. CASE run' = [run EXCEPT ![p] = u]
  <2>1. OnlyOwn(p) /\ pc'[p] = "exited" /\ run'[p] = u
    BY <1>6, <1>8, Elsewhere DEF Steps, Rethrow
  <2>2. LocalOK("exited", u, FALSE)
    BY <1>2, <1>6 DEF LocalOK, Early
  <2> QED
    BY <1>2, <1>6, <2>1, <2>2
<1> QED
  BY <1>4, <1>7, <1>8
--------------------------------------------------------------------------------
(* The steps that touch no file *)

\* Whoever has moved a document into place, and reported success, or could not
\* write the report or the trace, or was killed first.
Passed(p) ==
    \/ pc[p] = "print"
    \/ pc[p] = "exited" /\ (run[p].exit \in {"none", "Ok"} \/ run[p].ex = "none")

\* A step of p that only moves it on, says how it ended, or kills it.
Quiet(p) ==
    /\ OnlyOwn(p) /\ UNCHANGED <<out, temp, content, raced>>
    /\ faults' \in 0..MaxFaults
    /\ killed' = killed \/ killed' = killed \cup {p}
    /\ LocalOK(pc'[p], run'[p], p \in killed')
    /\ run'[p].fd = run[p].fd /\ run'[p].cmd = run[p].cmd /\ run'[p].apply = run[p].apply
    /\ run'[p].stray = run[p].stray
    /\ pc[p] # "exited" /\ pc'[p] \notin {"ready", "save", "rename"}
    /\ pc'[p] \in Early => pc[p] \in Early
    /\ pc[p] \in {"save", "rename", "drop"} => pc'[p] = "drop" \/ p \in killed'
    /\ SaveCommand(run[p]) /\ (pc'[p] = "print" \/ run'[p].exit = "Ok") => pc[p] = "print"
    /\ Passed(p) => Passed(p)'

LEMMA Failing == ASSUME TypeOK, MayFail PROVE faults' \in 0..MaxFaults
<1>1. faults \in 0..MaxFaults /\ MaxFaults \in Nat
  BY SizeAssumption DEF TypeOK
<1>2. faults < MaxFaults /\ faults' = faults + 1
  BY DEF MayFail
<1> QED
  BY <1>1, <1>2

\* Without a change of its record: reading the input, preparing the output, a kill.
LEMMA QuietMoves ==
    ASSUME Own, NEW p \in Procs, ReadInput(p) \/ PrepareOutput(p) \/ Kill(p)
    PROVE  Quiet(p)
<1>0. TypeOK /\ LocalOK(pc[p], run[p], p \in killed) /\ faults \in 0..MaxFaults
  BY DEF Own, Locals, TypeOK
<1>1. CASE ReadInput(p)
  <2>1. CASE Saves(p)
    <3>1. Goto(p, "engine") /\ UNCHANGED run /\ SaveCommand(run[p])
      BY <1>1, <2>1 DEF ReadInput, Saves, SaveCommand
    <3>2. OnlyOwn(p) /\ pc'[p] = "engine" /\ run'[p] = run[p]
      BY <1>0, <3>1, ElsewhereSame DEF Steps
    <3> QED
      BY <1>0, <1>1, <3>1, <3>2 DEF ReadInput, Quiet, LocalOK, Early, Passed
  <2>2. CASE ~Saves(p)
    <3>1. Goto(p, "print") /\ UNCHANGED run /\ ~SaveCommand(run[p])
      BY <1>1, <2>2 DEF ReadInput, Saves, SaveCommand
    <3>2. OnlyOwn(p) /\ pc'[p] = "print" /\ run'[p] = run[p]
      BY <1>0, <3>1, ElsewhereSame DEF Steps
    <3> QED
      BY <1>0, <1>1, <3>1, <3>2 DEF ReadInput, Quiet, LocalOK, Early, Passed
  <2> QED
    BY <2>1, <2>2
<1>2. CASE PrepareOutput(p)
  <2>1. Goto(p, "open") /\ UNCHANGED run /\ pc[p] = "engine"
    BY <1>2 DEF PrepareOutput
  <2>2. OnlyOwn(p) /\ pc'[p] = "open" /\ run'[p] = run[p]
    BY <1>0, <2>1, ElsewhereSame DEF Steps
  <2> QED
    BY <1>0, <1>2, <2>1, <2>2 DEF PrepareOutput, Quiet, LocalOK, Early, Passed
<1>3. CASE Kill(p)
  <2>1. Goto(p, "exited") /\ UNCHANGED run /\ pc[p] \notin {"ready", "exited"} /\ MayFail
    BY <1>3 DEF Kill, Active
  <2>2. OnlyOwn(p) /\ pc'[p] = "exited" /\ run'[p] = run[p]
    BY <1>0, <2>1, ElsewhereSame DEF Steps
  <2>3. faults' \in 0..MaxFaults /\ killed' = killed \cup {p} /\ p \in killed'
    BY <1>0, <1>3, <2>1, Failing DEF Kill
  <2>4. LocalOK("exited", run[p], TRUE) /\ run[p].exit = "none"
    BY <1>0, <2>1 DEF LocalOK, Early
  <2> QED
    BY <1>3, <2>1, <2>2, <2>3, <2>4 DEF Kill, Quiet, Early, Passed
<1> QED
  BY <1>1, <1>2, <1>3

\* An exception before any file was opened.
LEMMA QuietThrows ==
    ASSUME Own, NEW p \in Procs, NEW ex \in Exceptions, Throw(p, ex), MayFail,
           pc[p] \in {"input", "engine"}, UNCHANGED <<out, temp, content, killed, raced>>
    PROVE  Quiet(p)
<1>0. TypeOK /\ LocalOK(pc[p], run[p], p \in killed)
  BY DEF Own, Locals
<1>1. /\ OnlyOwn(p) /\ pc'[p] = "exited"
      /\ run'[p].fd = run[p].fd /\ run'[p].cmd = run[p].cmd /\ run'[p].apply = run[p].apply
      /\ run'[p].stray = run[p].stray
      /\ LocalOK(pc'[p], run'[p], FALSE) /\ run'[p].exit # "Ok"
  <2> DEFINE r == [run[p] EXCEPT !.ex = ex]
  <2>1. SameInvocation(p, r) /\ r.stray = run[p].stray
    BY <1>0 DEF SameInvocation, TypeOK, Run
  <2>2. Rethrow(p, r)
    BY DEF Throw
  <2> HIDE DEF r
  <2> QED
    BY <1>0, <2>1, <2>2, Thrown
<1>2. LocalOK(pc'[p], run'[p], p \in killed') /\ run[p].fd = NoFile /\ faults' \in 0..MaxFaults
  BY <1>0, <1>1, Failing DEF LocalOK, Early
<1> QED
  BY <1>1, <1>2 DEF Quiet, Early, Passed

\* The other steps that touch no file.
LEMMA QuietRest ==
    ASSUME Own, NEW p \in Procs,
           \/ RejectCommandLine(p) \/ InputFails(p) \/ PrintReport(p) \/ PrintFails(p)
           \/ TraceFails(p) \/ RejectProject(p) \/ SaveFails(p)
    PROVE  Quiet(p)
<1>0. TypeOK /\ LocalOK(pc[p], run[p], p \in killed) /\ run \in [Procs -> Run] /\ run[p] \in Run
      /\ faults \in 0..MaxFaults
  BY DEF Own, Locals, TypeOK
<1>1. CASE RejectCommandLine(p)
  <2> DEFINE r == [run[p] EXCEPT !.exit = "CLI11"]
  <2>1. r \in Run /\ \A f \in {"fd", "cmd", "apply", "pos", "printed", "traces", "trace", "ex", "undumped", "stray"} : r[f] = run[p][f]
    BY <1>0 DEF Run, ExitCode
  <2>2. run' = [run EXCEPT ![p] = r] /\ Goto(p, "exited") /\ pc[p] = "ready"
    BY <1>0, <1>1 DEF RejectCommandLine
  <2>3. r.exit = "CLI11"
    BY <1>0 DEF Run
  <2> HIDE DEF r
  <2>4. OnlyOwn(p) /\ pc'[p] = "exited" /\ run'[p] = r
    BY <1>0, <2>1, <2>2, Elsewhere DEF Steps
  <2>5. LocalOK("exited", r, p \in killed) /\ run[p].fd = NoFile
    BY <1>0, <2>1, <2>2, <2>3 DEF LocalOK, Early
  <2> QED
    BY <1>0, <1>1, <2>1, <2>2, <2>3, <2>4, <2>5 DEF RejectCommandLine, Quiet, Early, Passed
<1>2. CASE InputFails(p)
  <2>1. pc[p] = "input" /\ MayFail /\ UNCHANGED <<out, temp, content, killed, raced>>
    BY <1>2 DEF InputFails
  <2>4. CASE run[p].cmd # "validate"
    <3>1. PICK reason \in InputErrors : Throw(p, reason)
      BY <1>2, <2>4 DEF InputFails
    <3>2. reason \in Exceptions
      BY DEF Exceptions
    <3> QED
      BY <2>1, <3>1, <3>2, QuietThrows
  <2>5. CASE run[p].cmd = "validate"
    <3>1. Goto(p, "print") /\ UNCHANGED run
      BY <1>2, <2>5 DEF InputFails
    <3>2. OnlyOwn(p) /\ pc'[p] = "print" /\ run'[p] = run[p]
      BY <1>0, <3>1, ElsewhereSame DEF Steps
    <3>3. LocalOK("print", run[p], p \in killed) /\ ~SaveCommand(run[p]) /\ run[p].exit = "none"
      BY <1>0, <2>1, <2>5 DEF LocalOK, Early, SaveCommand
    <3>4. faults' \in 0..MaxFaults
      BY <1>0, <2>1, Failing
    <3> QED
      BY <2>1, <3>2, <3>3, <3>4 DEF Quiet, Early, Passed
  <2> QED
    BY <2>4, <2>5
<1>3. CASE PrintReport(p)
  <2> DEFINE r == [Traced(run[p]) EXCEPT !.printed = TRUE, !.exit = "Ok"]
  <2>1. /\ pc[p] = "print" /\ run[p].traces = 0 /\ run[p].ex = "none" /\ run[p].undumped = FALSE
        /\ UNCHANGED <<out, temp, content, faults, killed, raced>>
    BY <1>0, <1>3 DEF PrintReport, LocalOK
  <2>2. /\ r \in Run /\ r.fd = run[p].fd /\ r.cmd = run[p].cmd /\ r.apply = run[p].apply
        /\ r.exit = "Ok" /\ r.printed = TRUE /\ r.trace = run[p].trace
        /\ r.ex = run[p].ex /\ r.undumped = run[p].undumped /\ r.stray = run[p].stray
        /\ r.traces = IF run[p].trace THEN 1 ELSE 0
    <3>1. CASE run[p].trace
      <4> DEFINE t == [run[p] EXCEPT !.traces = @ + 1]
      <4>1. Traced(run[p]) = t
        BY <3>1 DEF Traced
      <4>2. /\ t \in Run /\ t.traces = 1 /\ t.fd = run[p].fd /\ t.cmd = run[p].cmd
            /\ t.apply = run[p].apply /\ t.trace = run[p].trace
            /\ t.ex = run[p].ex /\ t.undumped = run[p].undumped /\ t.stray = run[p].stray
        BY <1>0, <2>1 DEF Run
      <4> HIDE DEF t
      <4> QED
        BY <3>1, <4>1, <4>2 DEF Run, ExitCode
    <3>2. CASE ~run[p].trace
      BY <1>0, <2>1, <3>2 DEF Traced, Run, ExitCode
    <3> QED
      BY <3>1, <3>2
  <2>3. run' = [run EXCEPT ![p] = r] /\ Goto(p, "exited")
    <3>1. run' = [run EXCEPT ![p] = [Traced(@) EXCEPT !.printed = TRUE, !.exit = "Ok"]]
      BY <1>3 DEF PrintReport
    <3> QED
      BY <1>0, <1>3, <3>1 DEF PrintReport
  <2> HIDE DEF r
  <2>4. OnlyOwn(p) /\ pc'[p] = "exited" /\ run'[p] = r
    BY <1>0, <2>2, <2>3, Elsewhere DEF Steps
  <2>5. LocalOK("exited", r, p \in killed)
    BY <2>1, <2>2 DEF LocalOK, Early
  <2> QED
    BY <1>0, <2>1, <2>2, <2>4, <2>5 DEF Quiet, Early, Passed
<1>4. CASE RejectProject(p)
  <2>1. pc[p] = "engine" /\ MayFail /\ UNCHANGED <<out, temp, content, killed, raced>>
    BY <1>4 DEF RejectProject
  <2>2. PICK ex \in {"WriteError", "runtime_error"} : Throw(p, ex)
    BY <1>4 DEF RejectProject
  <2>3. ex \in Exceptions
    BY DEF Exceptions, InputErrors
  <2> QED
    BY <2>1, <2>2, <2>3, QuietThrows
<1>5. CASE SaveFails(p)
  <2>1. PICK ex \in {"system_error", "failed to move", "failed to write"} : run' = [run EXCEPT ![p].ex = ex]
    BY <1>5 DEF SaveFails
  <2> DEFINE r == [run[p] EXCEPT !.ex = ex]
  <2>2. r \in Run /\ \A f \in {"fd", "cmd", "apply", "pos", "printed", "traces", "trace", "exit", "undumped", "stray"} : r[f] = run[p][f]
    BY <1>0 DEF Run, Exceptions
  <2>3. /\ run' = [run EXCEPT ![p] = r] /\ Goto(p, "drop") /\ pc[p] \in {"open", "save", "rename"}
        /\ UNCHANGED <<out, temp, content, killed, raced>>
    BY <1>0, <1>5, <2>1 DEF SaveFails
  <2> HIDE DEF r
  <2>4. OnlyOwn(p) /\ pc'[p] = "drop" /\ run'[p] = r
    BY <1>0, <2>2, <2>3, Elsewhere DEF Steps
  <2>5. LocalOK("drop", r, p \in killed) /\ run[p].exit = "none"
    BY <1>0, <2>2, <2>3 DEF LocalOK, Early, SaveCommand
  <2>6. faults' \in 0..MaxFaults
    BY <1>0, <1>5, Failing DEF SaveFails
  <2> QED
    BY <2>2, <2>3, <2>4, <2>5, <2>6 DEF Quiet, Early, Passed
<1>6. CASE PrintFails(p) \/ TraceFails(p)
  <2> DEFINE u == Undumped(run[p])
  <2>1. /\ u \in Run /\ u.undumped = TRUE /\ u.exit = "Software"
        /\ \A f \in {"fd", "cmd", "apply", "pos", "printed", "traces", "trace", "ex", "stray"} : u[f] = run[p][f]
    BY <1>0, Dumped
  <2>2. /\ pc[p] = "print" /\ run[p].traces = 0 /\ run[p].ex = "none" /\ MayFail
        /\ UNCHANGED <<out, temp, content, killed, raced>> /\ Goto(p, "exited")
    BY <1>0, <1>6 DEF PrintFails, TraceFails, LocalOK
  <2>4. PICK b \in BOOLEAN : run' = [run EXCEPT ![p] = [u EXCEPT !.printed = b]]
    <3>1. CASE TraceFails(p)
      BY <1>0, <3>1 DEF TraceFails
    <3>2. CASE PrintFails(p)
      <4>1. [u EXCEPT !.printed = u.printed] = u /\ u.printed \in BOOLEAN
        BY <2>1 DEF Run
      <4> HIDE DEF u
      <4>2. run' = [run EXCEPT ![p] = u]
        BY <1>0, <3>2 DEF PrintFails, u
      <4> QED
        BY <4>1, <4>2
    <3> QED
      BY <1>6, <3>1, <3>2
  <2> DEFINE r == [u EXCEPT !.printed = b]
  <2> HIDE DEF u
  <2>3. /\ r \in Run /\ r.exit = "Software" /\ r.undumped = TRUE
        /\ \A f \in {"fd", "cmd", "apply", "pos", "traces", "trace", "ex", "stray"} : r[f] = run[p][f]
    BY <2>1 DEF Run
  <2>n. run' = [run EXCEPT ![p] = r]
    BY <2>4
  <2> HIDE DEF r
  <2>5. OnlyOwn(p) /\ pc'[p] = "exited" /\ run'[p] = r
    BY <1>0, <2>2, <2>3, <2>n, Elsewhere DEF Steps
  <2>6. LocalOK("exited", r, p \in killed)
    BY <2>2, <2>3 DEF LocalOK, Early
  <2>7. faults' \in 0..MaxFaults
    BY <1>0, <2>2, Failing
  <2> QED
    BY <1>0, <2>2, <2>3, <2>5, <2>6, <2>7 DEF Quiet, Early, Passed
<1> QED
  BY <1>1, <1>2, <1>3, <1>4, <1>5, <1>6
--------------------------------------------------------------------------------
(* The temporary name, and what each command says *)

\* p opened the file that has the temporary name, and is at work on it, or was
\* stopped there, or could not remove it.
Mine(p) ==
    /\ Writer(p) /\ run[p].fd = temp
    /\ pc[p] \in {"save", "rename", "drop"} \/ p \in killed \/ run[p].stray

\* The temporary name is not left behind by a step that removes it, takes it over,
\* or leaves it to whose it was.
LEMMA OwnKeeps ==
    ASSUME Own, NEW p \in Procs, OnlyOwn(p),
           killed' = killed \/ killed' = killed \cup {p},
           LocalOK(pc'[p], run'[p], p \in killed'),
           out' \in Files \cup {NoFile}, temp' \in Files \cup {NoFile}, raced' \subseteq Files,
           content' \in [Files -> [1..Blocks -> Files \cup {Hole}]], faults' \in 0..MaxFaults,
           \/ temp' = NoFile \/ Mine(p)'
           \/ temp' = temp /\ (temp # NoFile /\ Mine(p) => Mine(p)')
    PROVE  Own'
<1>1. TypeOK'
  BY DEF Own, TypeOK, OnlyOwn
<1>2. Locals'
  BY DEF Own, Locals, OnlyOwn
<1>3. TempOnlyWhileWriting'
  <2>1. CASE temp' = NoFile \/ Mine(p)'
    BY <2>1 DEF TempOnlyWhileWriting, Mine
  <2>2. CASE temp' = temp /\ (temp # NoFile /\ Mine(p) => Mine(p)')
    <3> SUFFICES ASSUME temp # NoFile
                 PROVE  \E q \in Procs : Mine(q)'
      BY <2>2 DEF TempOnlyWhileWriting, Mine
    <3>1. PICK q \in Procs : Mine(q)
      BY DEF Own, TempOnlyWhileWriting, Mine
    <3>2. CASE q = p
      BY <2>2, <3>1, <3>2
    <3>3. CASE q # p
      <4>1. pc'[q] = pc[q] /\ run'[q] = run[q] /\ (q \in killed => q \in killed')
        BY <3>3 DEF OnlyOwn
      <4> QED
        BY <2>2, <3>1, <4>1 DEF Mine, Writer
    <3> QED
      BY <3>2, <3>3
  <2> QED
    BY <2>1, <2>2
<1> QED
  BY <1>1, <1>2, <1>3 DEF Own

LEMMA QuietOwn == ASSUME Own, NEW p \in Procs, Quiet(p) PROVE Own'
<1>1. /\ OnlyOwn(p) /\ UNCHANGED <<out, temp, content, raced>> /\ faults' \in 0..MaxFaults
      /\ killed' = killed \/ killed' = killed \cup {p}
      /\ LocalOK(pc'[p], run'[p], p \in killed')
      /\ run'[p].fd = run[p].fd /\ run'[p].cmd = run[p].cmd /\ run'[p].apply = run[p].apply
      /\ run'[p].stray = run[p].stray
      /\ pc[p] \in {"save", "rename", "drop"} => pc'[p] = "drop" \/ p \in killed'
  BY DEF Quiet
<1>2. Mine(p) => Mine(p)'
  BY <1>1 DEF Mine, Writer
<1>3. /\ out \in Files \cup {NoFile} /\ temp \in Files \cup {NoFile} /\ raced \subseteq Files
      /\ content \in [Files -> [1..Blocks -> Files \cup {Hole}]]
  BY DEF Own, TypeOK
<1> QED
  BY <1>1, <1>2, <1>3, OwnKeeps

\* What Launch does to the invocation.
LEMMA LaunchFacts ==
    ASSUME Own, NEW p \in Procs, NEW c \in Commands, NEW apply \in BOOLEAN, NEW trace \in BOOLEAN,
           Launch(p, c, apply, trace)
    PROVE  /\ OnlyOwn(p) /\ UNCHANGED <<out, temp, content, faults, killed, raced>>
           /\ pc[p] = "ready" /\ pc'[p] = "input"
           /\ run'[p].fd = NoFile /\ run'[p].exit = "none"
           /\ run'[p].cmd = c /\ run'[p].apply = apply
           /\ LocalOK(pc'[p], run'[p], p \in killed')
<1> DEFINE r == NewRun(c, apply, trace)
<1>1. Blocks \in Nat
  BY SizeAssumption
<1>2. r \in Run
  BY <1>1 DEF NewRun, Run, ExitCode
<1>3. /\ r.fd = NoFile /\ r.pos = 0 /\ r.exit = "none" /\ r.printed = FALSE /\ r.traces = 0
      /\ r.cmd = c /\ r.apply = apply /\ r.ex = "none" /\ r.undumped = FALSE
  BY DEF NewRun
<1>4. /\ run' = [run EXCEPT ![p] = r] /\ Goto(p, "input") /\ pc[p] = "ready"
      /\ UNCHANGED <<out, temp, content, faults, killed, raced>>
  BY DEF Launch
<1> HIDE DEF r
<1>5. OnlyOwn(p) /\ pc'[p] = "input" /\ run'[p] = r
  BY <1>2, <1>4, Elsewhere DEF Own, Steps
<1>6. LocalOK("input", r, p \in killed)
  BY <1>3 DEF LocalOK, Early
<1> QED
  BY <1>3, <1>4, <1>5, <1>6

\* What the steps on the output file do.
LEMMA OpenFacts ==
    ASSUME Own, NEW p \in Procs, OpenTemp(p)
    PROVE  LET f == OpenedFile(p) IN
           /\ OnlyOwn(p) /\ UNCHANGED <<out, faults, killed>>
           /\ raced' = IF Writer(p) /\ \E q \in Procs \ {p} : Writing(q)
                       THEN raced \cup {f} ELSE raced
           /\ pc[p] = "open" /\ pc'[p] = "save"
           /\ f \in Files /\ content' = [content EXCEPT ![f] = Empty]
           /\ temp' = IF Writer(p) THEN f ELSE temp
           /\ run'[p].fd = f /\ run'[p].pos = 0 /\ run'[p].exit = "none"
           /\ run'[p].cmd = run[p].cmd /\ run'[p].apply = run[p].apply
           /\ LocalOK(pc'[p], run'[p], p \in killed')
<1> DEFINE f == OpenedFile(p)
           r == [run[p] EXCEPT !.fd = f]
<1>1. /\ TypeOK /\ run \in [Procs -> Run] /\ run[p] \in Run /\ temp \in Files \cup {NoFile}
      /\ LocalOK(pc[p], run[p], p \in killed)
  BY DEF Own, TypeOK, Locals
<1>2. f \in Files /\ f # NoFile
  BY <1>1, FileAssumption DEF OpenedFile, Files
<1>3. pc[p] = "open" /\ content' = [content EXCEPT ![f] = Empty] /\ Goto(p, "save")
      /\ temp' = (IF Writer(p) THEN f ELSE temp) /\ UNCHANGED <<out, faults, killed>>
      /\ raced' = IF Writer(p) /\ \E q \in Procs \ {p} : Writing(q) THEN raced \cup {f} ELSE raced
  BY DEF OpenTemp
<1>4. run' = [run EXCEPT ![p] = r]
  BY <1>1 DEF OpenTemp
<1> HIDE DEF f
<1>5. /\ r \in Run /\ r.fd = f
      /\ \A g \in {"ex", "cmd", "apply", "pos", "printed", "traces", "trace", "exit", "undumped", "stray"} : r[g] = run[p][g]
  BY <1>1, <1>2 DEF Run
<1> HIDE DEF r
<1>6. OnlyOwn(p) /\ pc'[p] = "save" /\ run'[p] = r
  BY <1>1, <1>3, <1>4, <1>5, Elsewhere DEF Steps
<1>7. run[p].pos = 0 /\ run[p].exit = "none" /\ 0 < Blocks
  BY <1>1, <1>3, SizeAssumption DEF LocalOK, Early
<1>8. LocalOK("save", r, p \in killed)
  BY <1>1, <1>2, <1>3, <1>5, <1>7 DEF LocalOK, Early, SaveCommand
<1> QED
  BY <1>2, <1>3, <1>5, <1>6, <1>7, <1>8 DEF f

LEMMA SaveFacts ==
    ASSUME Own, NEW p \in Procs, SaveBlock(p)
    PROVE  LET f == run[p].fd  k == run[p].pos + 1 IN
           /\ OnlyOwn(p) /\ UNCHANGED <<out, temp, faults, killed, raced>>
           /\ pc[p] = "save" /\ pc'[p] \in {"save", "rename"}
           /\ f \in Files /\ k \in 1..Blocks
           /\ content' = [content EXCEPT ![f] = [@ EXCEPT ![k] = p]]
           /\ run'[p].fd = f /\ run'[p].pos = k /\ run'[p].exit = run[p].exit
           /\ run'[p].cmd = run[p].cmd /\ run'[p].apply = run[p].apply
           /\ LocalOK(pc'[p], run'[p], p \in killed')
<1> DEFINE f == run[p].fd
           k == run[p].pos + 1
           r == [run[p] EXCEPT !.pos = @ + 1]
           s == IF k = Blocks THEN "rename" ELSE "save"
<1>1. /\ TypeOK /\ run \in [Procs -> Run] /\ run[p] \in Run /\ LocalOK(pc[p], run[p], p \in killed)
  BY DEF Own, TypeOK, Locals
<1>2. /\ pc[p] = "save" /\ run[p].pos < Blocks /\ Goto(p, s)
      /\ UNCHANGED <<out, temp, faults, killed, raced>>
      /\ content' = [content EXCEPT ![f] = [@ EXCEPT ![k] = p]]
  BY DEF SaveBlock
<1>3. Blocks \in Nat /\ run[p].pos \in 0..Blocks /\ f \in Files \cup {NoFile}
  BY <1>1, SizeAssumption DEF Run
<1>4. k \in 1..Blocks /\ k \in 0..Blocks
  BY <1>2, <1>3
<1>5. f \in Files
  BY <1>1, <1>2, <1>3 DEF LocalOK
<1>6. run' = [run EXCEPT ![p] = r]
  BY <1>1 DEF SaveBlock
<1>7. /\ r \in Run /\ r.pos = k
      /\ \A g \in {"ex", "cmd", "apply", "fd", "printed", "traces", "trace", "exit", "undumped", "stray"} : r[g] = run[p][g]
  BY <1>1, <1>4 DEF Run
<1> HIDE DEF r
<1>8. OnlyOwn(p) /\ pc'[p] = s /\ run'[p] = r
  BY <1>1, <1>2, <1>6, <1>7, Elsewhere DEF Steps
<1>9. LocalOK(s, r, p \in killed)
  <2>1. k # Blocks => k < Blocks
    BY <1>3, <1>4
  <2> QED
    BY <1>1, <1>2, <1>7, <2>1 DEF LocalOK, Early, SaveCommand
<1> QED
  BY <1>2, <1>4, <1>5, <1>7, <1>8, <1>9

LEMMA MoveFacts ==
    ASSUME Own, NEW p \in Procs, MoveIntoPlace(p)
    PROVE  /\ OnlyOwn(p) /\ UNCHANGED <<content, faults, killed, raced>>
           /\ pc[p] = "rename" /\ pc'[p] = "print" /\ run'[p] = run[p]
           /\ run[p].fd \in Files /\ run[p].pos = Blocks /\ run[p].exit = "none"
           /\ out' = IF Writer(p) THEN temp ELSE run[p].fd
           /\ temp' = IF Writer(p) THEN NoFile ELSE temp
           /\ SaveCommand(run[p])
           /\ LocalOK(pc'[p], run'[p], p \in killed')
<1>1. /\ TypeOK /\ run[p] \in Run /\ LocalOK(pc[p], run[p], p \in killed)
  BY DEF Own, TypeOK, Locals
<1>2. /\ pc[p] = "rename" /\ Goto(p, "print") /\ UNCHANGED <<content, run, faults, killed, raced>>
      /\ out' = (IF Writer(p) THEN temp ELSE run[p].fd)
      /\ temp' = (IF Writer(p) THEN NoFile ELSE temp)
  BY DEF MoveIntoPlace
<1>3. OnlyOwn(p) /\ pc'[p] = "print" /\ run'[p] = run[p]
  BY <1>1, <1>2, ElsewhereSame DEF Steps
<1>4. run[p].fd \in Files
  BY <1>1, <1>2 DEF LocalOK, Run
<1>5. LocalOK("print", run[p], p \in killed)
  BY <1>1, <1>2 DEF LocalOK, Early
<1> QED
  BY <1>1, <1>2, <1>3, <1>4, <1>5 DEF LocalOK

LEMMA DropFacts ==
    ASSUME Own, NEW p \in Procs, DropTemp(p) \/ DropTempFails(p)
    PROVE  /\ OnlyOwn(p) /\ UNCHANGED <<out, content, killed, raced>> /\ faults' \in 0..MaxFaults
           /\ pc[p] = "drop" /\ pc'[p] = "exited"
           /\ run'[p].fd = run[p].fd /\ run'[p].cmd = run[p].cmd /\ run'[p].apply = run[p].apply
           /\ run'[p].exit \notin {"none", "Ok"}
           /\ \/ temp' = NoFile
              \/ temp' = temp /\ ~Writer(p)
              \/ temp' = temp /\ run'[p].stray = TRUE
           /\ LocalOK(pc'[p], run'[p], p \in killed')
<1>1. /\ TypeOK /\ run \in [Procs -> Run] /\ run[p] \in Run /\ LocalOK(pc[p], run[p], p \in killed)
      /\ faults \in 0..MaxFaults
  BY DEF Own, TypeOK, Locals
<1>2. pc[p] = "drop"
  BY DEF DropTemp, DropTempFails
<1>3. CASE DropTemp(p)
  <2>1. /\ Throw(p, run[p].ex) /\ UNCHANGED <<out, content, faults, killed, raced>>
        /\ temp' = (IF Writer(p) THEN NoFile ELSE temp)
    BY <1>3 DEF DropTemp
  <2>2. /\ OnlyOwn(p) /\ pc'[p] = "exited"
        /\ run'[p].fd = run[p].fd /\ run'[p].cmd = run[p].cmd /\ run'[p].apply = run[p].apply
        /\ run'[p].exit \notin {"none", "Ok"}
        /\ LocalOK(pc'[p], run'[p], FALSE)
    <3> DEFINE r == [run[p] EXCEPT !.ex = run[p].ex]
    <3>1. SameInvocation(p, r)
      BY <1>1 DEF SameInvocation, Run
    <3>2. Rethrow(p, r)
      BY <2>1 DEF Throw
    <3> HIDE DEF r
    <3> QED
      BY <1>1, <1>2, <3>1, <3>2, Thrown
  <2>3. LocalOK(pc'[p], run'[p], p \in killed')
    BY <2>2 DEF LocalOK
  <2> QED
    BY <1>1, <1>2, <2>1, <2>2, <2>3
<1>4. CASE DropTempFails(p)
  <2> DEFINE r == [run[p] EXCEPT !.stray = TRUE]
  <2>1. SameInvocation(p, r) /\ r.stray = TRUE
    BY <1>1 DEF SameInvocation, Run
  <2>2. Rethrow(p, r)
    BY <1>4 DEF DropTempFails
  <2> HIDE DEF r
  <2>3. /\ OnlyOwn(p) /\ pc'[p] = "exited"
        /\ run'[p].fd = run[p].fd /\ run'[p].cmd = run[p].cmd /\ run'[p].apply = run[p].apply
        /\ run'[p].exit \notin {"none", "Ok"} /\ run'[p].stray = TRUE
        /\ LocalOK(pc'[p], run'[p], FALSE)
    BY <1>1, <1>2, <2>1, <2>2, Thrown
  <2>4. LocalOK(pc'[p], run'[p], p \in killed')
    BY <2>3 DEF LocalOK
  <2>7. faults' \in 0..MaxFaults /\ UNCHANGED <<out, temp, content, killed, raced>>
    BY <1>1, <1>4, Failing DEF DropTempFails
  <2> QED
    BY <1>2, <2>3, <2>4, <2>7
<1> QED
  BY <1>3, <1>4

LEMMA OwnInit == Init => Own
<1> SUFFICES ASSUME Init PROVE Own
  OBVIOUS
<1> DEFINE fresh == NewRun("parse", FALSE, FALSE)
<1>1. fresh \in Run
  BY SizeAssumption DEF NewRun, Run, Commands, ExitCode
<1>2. LocalOK("ready", fresh, FALSE)
  BY DEF LocalOK, Early, NewRun
<1>3. /\ out \in {NoFile, Old} /\ temp = NoFile /\ faults = 0 /\ killed = {} /\ raced = {}
      /\ content = [f \in Files |-> IF f = Old THEN [k \in 1..Blocks |-> Old] ELSE Empty]
      /\ pc = [p \in Procs |-> "ready"] /\ run = [p \in Procs |-> fresh]
  BY DEF Init
<1> HIDE DEF fresh
<1>4. TypeOK
  <2>1. content \in [Files -> [1..Blocks -> Files \cup {Hole}]]
    BY <1>3 DEF Files, Empty
  <2>2. out \in Files \cup {NoFile} /\ temp \in Files \cup {NoFile} /\ faults \in 0..MaxFaults
    BY <1>3, SizeAssumption DEF Files
  <2>3. pc \in [Procs -> Steps] /\ run \in [Procs -> Run] /\ killed \subseteq Procs /\ raced \subseteq Files
    BY <1>1, <1>3 DEF Steps
  <2> QED
    BY <2>1, <2>2, <2>3 DEF TypeOK
<1>5. Locals
  <2> SUFFICES ASSUME NEW p \in Procs PROVE LocalOK(pc[p], run[p], p \in killed)
    BY DEF Locals
  <2>1. pc[p] = "ready" /\ run[p] = fresh /\ p \notin killed
    BY <1>3
  <2> QED
    BY <1>2, <2>1 DEF LocalOK
<1>6. TempOnlyWhileWriting
  BY <1>3 DEF TempOnlyWhileWriting
<1> QED
  BY <1>4, <1>5, <1>6 DEF Own

LEMMA OwnStep == ASSUME Own, Next PROVE Own'
<1>0. /\ out \in Files \cup {NoFile} /\ temp \in Files \cup {NoFile} /\ faults \in 0..MaxFaults
      /\ content \in [Files -> [1..Blocks -> Files \cup {Hole}]] /\ raced \subseteq Files
      /\ NoFile \notin Files
  BY FileAssumption DEF Own, TypeOK, Files
<1>1. ASSUME NEW p \in Procs, NEW c \in Commands, NEW apply \in BOOLEAN, NEW trace \in BOOLEAN,
             Launch(p, c, apply, trace)
      PROVE  Own'
  <2>1. /\ OnlyOwn(p) /\ UNCHANGED <<out, temp, content, faults, killed, raced>> /\ pc[p] = "ready"
        /\ LocalOK(pc'[p], run'[p], p \in killed')
    BY <1>1, LaunchFacts
  <2>2. run[p].fd = NoFile
    BY <2>1 DEF Own, Locals, LocalOK, Early
  <2>3. temp # NoFile => ~Mine(p)
    BY <2>2 DEF Mine
  <2> QED
    BY <1>0, <2>1, <2>3, OwnKeeps
<1>2. ASSUME NEW p \in Procs, ReadInput(p) \/ PrepareOutput(p) \/ Kill(p) PROVE Own'
  BY <1>2, QuietMoves, QuietOwn
<1>3. ASSUME NEW p \in Procs,
             \/ RejectCommandLine(p) \/ InputFails(p) \/ PrintReport(p) \/ PrintFails(p)
             \/ TraceFails(p) \/ RejectProject(p) \/ SaveFails(p)
      PROVE  Own'
  BY <1>3, QuietRest, QuietOwn
<1>4. ASSUME NEW p \in Procs, OpenTemp(p) PROVE Own'
  <2> DEFINE f == OpenedFile(p)
  <2>1. /\ OnlyOwn(p) /\ UNCHANGED <<out, faults, killed>> /\ pc[p] = "open" /\ pc'[p] = "save"
        /\ f \in Files /\ content' = [content EXCEPT ![f] = Empty]
        /\ raced' = raced \/ raced' = raced \cup {f}
        /\ temp' = (IF Writer(p) THEN f ELSE temp) /\ run'[p].fd = f
        /\ run'[p].cmd = run[p].cmd /\ run'[p].apply = run[p].apply
        /\ LocalOK(pc'[p], run'[p], p \in killed')
    BY <1>4, OpenFacts
  <2> HIDE DEF f
  <2>2. content' \in [Files -> [1..Blocks -> Files \cup {Hole}]] /\ raced' \subseteq Files
    BY <1>0, <2>1 DEF Empty
  <2>3. IF Writer(p) THEN Mine(p)' ELSE temp' = temp /\ ~Mine(p)
    BY <2>1 DEF Mine, Writer
  <2> QED
    BY <1>0, <2>1, <2>2, <2>3, OwnKeeps
<1>5. ASSUME NEW p \in Procs, SaveBlock(p) PROVE Own'
  <2>1. PICK f \in Files, k \in 1..Blocks :
          /\ OnlyOwn(p) /\ UNCHANGED <<out, temp, faults, killed, raced>>
          /\ pc[p] = "save" /\ pc'[p] \in {"save", "rename"}
          /\ content' = [content EXCEPT ![f] = [@ EXCEPT ![k] = p]]
          /\ run'[p].cmd = run[p].cmd /\ run'[p].apply = run[p].apply
          /\ run'[p].fd = f /\ run[p].fd = f
          /\ LocalOK(pc'[p], run'[p], p \in killed')
    BY <1>5, SaveFacts
  <2>2. content' \in [Files -> [1..Blocks -> Files \cup {Hole}]]
    BY <1>0, <2>1 DEF Files
  <2>3. Mine(p) => Mine(p)'
    BY <2>1 DEF Mine, Writer
  <2> QED
    BY <1>0, <2>1, <2>2, <2>3, OwnKeeps
<1>6. ASSUME NEW p \in Procs, MoveIntoPlace(p) PROVE Own'
  <2>1. /\ OnlyOwn(p) /\ UNCHANGED <<content, faults, killed, raced>>
        /\ run[p].fd \in Files
        /\ out' = (IF Writer(p) THEN temp ELSE run[p].fd)
        /\ temp' = (IF Writer(p) THEN NoFile ELSE temp)
        /\ LocalOK(pc'[p], run'[p], p \in killed')
    BY <1>6, MoveFacts
  <2>2. temp' = NoFile \/ (temp' = temp /\ ~Mine(p))
    BY <2>1 DEF Mine
  <2> QED
    BY <1>0, <2>1, <2>2, OwnKeeps
<1>7. ASSUME NEW p \in Procs, DropTemp(p) \/ DropTempFails(p) PROVE Own'
  <2>1. /\ OnlyOwn(p) /\ UNCHANGED <<out, content, killed, raced>> /\ faults' \in 0..MaxFaults
        /\ run'[p].fd = run[p].fd /\ run'[p].cmd = run[p].cmd /\ run'[p].apply = run[p].apply
        /\ \/ temp' = NoFile
           \/ temp' = temp /\ ~Writer(p)
           \/ temp' = temp /\ run'[p].stray = TRUE
        /\ LocalOK(pc'[p], run'[p], p \in killed')
    BY <1>7, DropFacts
  <2>2. temp' = NoFile \/ (temp' = temp /\ (Mine(p) => Mine(p)'))
    BY <2>1 DEF Mine, Writer
  <2>3. temp' \in Files \cup {NoFile}
    BY <1>0, <2>1
  <2> QED
    BY <1>0, <2>1, <2>2, <2>3, OwnKeeps
<1> QED
  BY <1>1, <1>2, <1>3, <1>4, <1>5, <1>6, <1>7 DEF Next, Step

LEMMA OwnStutter == ASSUME Own, UNCHANGED vars PROVE Own'
<1>1. UNCHANGED <<out, temp, content, pc, run, faults, killed, raced>>
  BY DEF vars
<1>2. TypeOK' /\ Locals'
  BY <1>1 DEF Own, TypeOK, Locals
<1>3. TempOnlyWhileWriting'
  BY <1>1 DEF Own, TempOnlyWhileWriting, Writer
<1> QED
  BY <1>2, <1>3 DEF Own

LEMMA OwnAlways == Spec => []Own
<1>1. Own /\ [Next]_vars => Own'
  BY OwnStep, OwnStutter
<1> QED
  BY <1>1, OwnInit, PTL DEF Spec

\* The variables keep their types.
THEOREM TypeCorrect == Spec => []TypeOK
<1>1. Own => TypeOK
  BY DEF Own
<1> QED
  BY <1>1, OwnAlways, PTL

\* The name outputPath.parsex-tmp outlives every write --apply that opened the file
\* under it only if one of them was killed there, or could not remove it: rename and
\* the catch block of WriteEngine::write take it away, whoever else is at work.
THEOREM NoTempLeft == Spec => []TempOnlyWhileWriting
<1>1. Own => TempOnlyWhileWriting
  BY DEF Own
<1> QED
  BY <1>1, OwnAlways, PTL

\* A command that fails prints no report, and every command emits its trace once,
\* unless writing the report or the trace itself threw (the catch blocks and the error
\* boundary of main.cpp).
THEOREM ReportsOrFails == Spec => []ReportOrFail
<1>1. Own => ReportOrFail
  BY DEF Own, Locals, LocalOK, ReportOrFail, TypeOK, Run
<1> QED
  BY <1>1, OwnAlways, PTL
--------------------------------------------------------------------------------
(* The output, however many writers overlap *)

\* p has a file open.
Live(p) == pc[p] \in {"save", "rename"}

\* The file an invocation may create later does not exist yet, and an export's file
\* is reached through its own name only.
NamesApart ==
    /\ out # NoFile => out # temp
    /\ temp # Old /\ \A p \in Procs : run[p].fd # Old
    /\ \A p \in Procs : pc[p] \in Early =>
          out # p /\ temp # p /\ p \notin raced /\ \A q \in Procs : run[q].fd # p
    /\ \A p \in Procs : Live(p) /\ ~Writer(p) =>
          /\ run[p].fd = p /\ out # p /\ temp # p /\ p \notin raced
          /\ \A q \in Procs \ {p} : run[q].fd # p

\* The file a writer has open is not the output and has the temporary name, and no
\* two have one file open, but for the files of writers that overlapped.
WritersApart ==
    /\ \A p \in Procs : Live(p) /\ Writer(p) =>
          /\ run[p].fd \notin raced => run[p].fd # out
          /\ temp \notin raced \cup {NoFile} => temp = run[p].fd
    /\ \A p, q \in Procs : p # q /\ Live(p) /\ Live(q) /\ run[p].fd = run[q].fd => run[p].fd \in raced

\* What has been saved is in the file.
TempFilled ==
    \A p \in Procs : Live(p) /\ run[p].fd \notin raced =>
        \A k \in 1..run[p].pos : content[run[p].fd][k] = p

\* Only who was asked to save has written, and only into the file it opened.
Authors ==
    \A f \in Files, p \in Procs, k \in 1..Blocks :
        content[f][k] = p => SaveCommand(run[p]) /\ run[p].fd = f /\ pc[p] \notin Early

\* The document at f is by one invocation, which was asked to save and has passed.
Document(f) ==
    \E q \in Procs : SaveCommand(run[q]) /\ Passed(q) /\ \A k \in 1..Blocks : content[f][k] = q

\* The output is the old one, or the document of one invocation; once somebody has
\* moved a document into place it is not the old one any more.
Delivered ==
    /\ \A k \in 1..Blocks : content[Old][k] = Old
    /\ out \notin raced \cup {NoFile, Old} => Document(out)
    /\ \A p \in Procs : SaveCommand(run[p]) /\ (pc[p] = "print" \/ run[p].exit = "Ok") =>
          out \notin {NoFile, Old}

\* The inductive invariant.
IInv == Own /\ NamesApart /\ WritersApart /\ TempFilled /\ Authors /\ Delivered

LEMMA OwnTyped ==
    ASSUME Own
    PROVE  /\ out \in Files \cup {NoFile} /\ temp \in Files \cup {NoFile} /\ raced \subseteq Files
           /\ content \in [Files -> [1..Blocks -> Files \cup {Hole}]]
           /\ \A p \in Procs : run[p] \in Run /\ run[p].fd \in Files \cup {NoFile} /\ run[p].pos \in 0..Blocks
           /\ \A p \in Procs : LocalOK(pc[p], run[p], p \in killed)
           /\ Blocks \in Nat \ {0} /\ NoFile \notin Files /\ Procs \subseteq Files /\ Hole \notin Files
           /\ Old \in Files /\ Old \notin Procs
BY SizeAssumption, FileAssumption DEF Own, TypeOK, Locals, Run, Files

\* A step that keeps the command line of p changes nobody's.
LEMMA SameCommands ==
    ASSUME NEW p \in Procs, OnlyOwn(p), run'[p].cmd = run[p].cmd, run'[p].apply = run[p].apply
    PROVE  \A q \in Procs : (Writer(q)' <=> Writer(q)) /\ (SaveCommand(run'[q]) <=> SaveCommand(run[q]))
BY DEF OnlyOwn, Writer, SaveCommand

\* A document stays one as long as nobody writes into it and who passed has passed.
LEMMA SameDocument ==
    ASSUME NEW p \in Procs, OnlyOwn(p), NEW f, content'[f] = content[f], Document(f),
           SaveCommand(run[p]) /\ Passed(p) => SaveCommand(run'[p]) /\ Passed(p)'
    PROVE  Document(f)'
<1>1. PICK q \in Procs : SaveCommand(run[q]) /\ Passed(q) /\ \A k \in 1..Blocks : content[f][k] = q
  BY DEF Document
<1>2. SaveCommand(run'[q]) /\ Passed(q)'
  <2>1. CASE q = p
    BY <1>1, <2>1
  <2>2. CASE q # p
    <3>1. run'[q] = run[q] /\ pc'[q] = pc[q]
      BY <2>2 DEF OnlyOwn
    <3> QED
      BY <1>1, <3>1 DEF Passed
  <2> QED
    BY <2>1, <2>2
<1> QED
  BY <1>1, <1>2 DEF Document

LEMMA QuietKeeps == ASSUME IInv, NEW p \in Procs, Quiet(p) PROVE IInv'
<1>1. Own'
  BY QuietOwn DEF IInv
<1>2. /\ OnlyOwn(p) /\ UNCHANGED <<out, temp, content, raced>>
      /\ run'[p].fd = run[p].fd /\ run'[p].cmd = run[p].cmd /\ run'[p].apply = run[p].apply
      /\ pc'[p] \notin {"ready", "save", "rename"}
      /\ pc'[p] \in Early => pc[p] \in Early
      /\ SaveCommand(run[p]) /\ (pc'[p] = "print" \/ run'[p].exit = "Ok") => pc[p] = "print"
      /\ Passed(p) => Passed(p)'
  BY DEF Quiet
<1>3. \A q \in Procs : (Writer(q)' <=> Writer(q)) /\ (SaveCommand(run'[q]) <=> SaveCommand(run[q]))
  BY <1>2, SameCommands
<1>4. \A q \in Procs : /\ run'[q].fd = run[q].fd
                       /\ pc'[q] \in Early => pc[q] \in Early
                       /\ Live(q)' => Live(q) /\ run'[q] = run[q]
  BY <1>2 DEF OnlyOwn, Live
<1>5. NamesApart'
  BY <1>2, <1>3, <1>4 DEF IInv, NamesApart
<1>6. WritersApart'
  BY <1>2, <1>3, <1>4 DEF IInv, WritersApart
<1>7. TempFilled'
  BY <1>2, <1>4 DEF IInv, TempFilled
<1>8. Authors'
  BY <1>2, <1>3, <1>4 DEF IInv, Authors
<1>9. Delivered'
  <2>1. out \notin raced \cup {NoFile, Old} => Document(out)'
    BY <1>2, <1>3, SameDocument DEF IInv, Delivered
  <2>2. \A q \in Procs : SaveCommand(run'[q]) /\ (pc'[q] = "print" \/ run'[q].exit = "Ok")
                            => SaveCommand(run[q]) /\ (pc[q] = "print" \/ run[q].exit = "Ok")
    BY <1>2, <1>3 DEF OnlyOwn
  <2>3. out' = out /\ raced' = raced /\ content' = content
    BY <1>2
  <2>5. \A k \in 1..Blocks : content[Old][k] = Old
    BY DEF IInv, Delivered
  <2>6. \A q \in Procs : SaveCommand(run'[q]) /\ (pc'[q] = "print" \/ run'[q].exit = "Ok") =>
          out \notin {NoFile, Old}
    BY <2>2 DEF IInv, Delivered
  <2> QED
    BY <2>1, <2>3, <2>5, <2>6 DEF Delivered, Document
<1> QED
  BY <1>1, <1>5, <1>6, <1>7, <1>8, <1>9 DEF IInv

LEMMA LaunchKeeps ==
    ASSUME IInv, NEW p \in Procs, NEW c \in Commands,
           NEW apply \in BOOLEAN, NEW trace \in BOOLEAN, Launch(p, c, apply, trace)
    PROVE  IInv'
<1>0. /\ OnlyOwn(p) /\ UNCHANGED <<out, temp, content, faults, killed, raced>>
      /\ pc[p] = "ready" /\ pc'[p] = "input"
      /\ run'[p].fd = NoFile /\ run'[p].exit = "none" /\ run'[p].cmd = c /\ run'[p].apply = apply
  BY LaunchFacts DEF IInv
<1>1. Own'
  BY OwnStep DEF IInv, Next
<1>2. run[p].fd = NoFile
  BY <1>0, OwnTyped DEF IInv, LocalOK, Early
<1>3. \A q \in Procs \ {p} : run'[q] = run[q] /\ pc'[q] = pc[q]
  BY <1>0 DEF OnlyOwn
<1>4. \A q \in Procs : /\ run'[q].fd = run[q].fd /\ (pc'[q] \in Early <=> pc[q] \in Early)
                       /\ Live(q)' => q # p /\ Live(q)
  BY <1>0, <1>2, <1>3 DEF Early, Live
<1>5. \A q \in Procs \ {p} : Writer(q)' <=> Writer(q)
  BY <1>3 DEF Writer
<1>6. NamesApart'
  BY <1>0, <1>4, <1>5 DEF IInv, NamesApart
<1>7. WritersApart'
  BY <1>0, <1>4, <1>5 DEF IInv, WritersApart
<1>8. TempFilled'
  BY <1>0, <1>3, <1>4 DEF IInv, TempFilled
<1>9. \A f \in Files, k \in 1..Blocks : content[f][k] # p
  BY <1>0 DEF IInv, Authors, Early
<1>10. Authors'
  BY <1>0, <1>3, <1>9 DEF IInv, Authors
<1>11. Delivered'
  <2>1. ~Passed(p)
    BY <1>0 DEF Passed
  <2>2. out \notin raced \cup {NoFile, Old} => Document(out)'
    BY <1>0, <2>1, SameDocument DEF IInv, Delivered
  <2>3. \A q \in Procs : SaveCommand(run'[q]) /\ (pc'[q] = "print" \/ run'[q].exit = "Ok")
                            => out \notin {NoFile, Old}
    BY <1>0, <1>3 DEF IInv, Delivered
  <2>4. \A k \in 1..Blocks : content[Old][k] = Old
    BY DEF IInv, Delivered
  <2> QED
    BY <1>0, <2>2, <2>3, <2>4 DEF Delivered
<1> QED
  BY <1>1, <1>6, <1>7, <1>8, <1>10, <1>11 DEF IInv

LEMMA OpenKeeps == ASSUME IInv, NEW p \in Procs, OpenTemp(p) PROVE IInv'
<1> DEFINE f == OpenedFile(p)
           overlaps == Writer(p) /\ \E q \in Procs \ {p} : Writing(q)
<1>0. /\ OnlyOwn(p) /\ UNCHANGED <<out, faults, killed>>
      /\ raced' = IF overlaps THEN raced \cup {f} ELSE raced
      /\ pc[p] = "open" /\ pc'[p] = "save"
      /\ f \in Files /\ content' = [content EXCEPT ![f] = Empty]
      /\ temp' = (IF Writer(p) THEN f ELSE temp)
      /\ run'[p].fd = f /\ run'[p].pos = 0 /\ run'[p].exit = "none"
      /\ run'[p].cmd = run[p].cmd /\ run'[p].apply = run[p].apply
  BY OpenFacts DEF IInv
<1>t. /\ out \in Files \cup {NoFile} /\ temp \in Files \cup {NoFile} /\ NoFile \notin Files /\ Procs \subseteq Files
      /\ content \in [Files -> [1..Blocks -> Files \cup {Hole}]] /\ Hole \notin Files
      /\ \A q \in Procs : run[q].fd \in Files \cup {NoFile} /\ LocalOK(pc[q], run[q], q \in killed)
      /\ Old \in Files /\ Old \notin Procs
  BY OwnTyped DEF IInv
<1>1. Own'
  BY OwnStep DEF IInv, Next, Step
<1>2. \A q \in Procs : (Writer(q)' <=> Writer(q)) /\ (SaveCommand(run'[q]) <=> SaveCommand(run[q]))
  BY <1>0, SameCommands
<1>3. f = p \/ (Writer(p) /\ temp # NoFile /\ f = temp)
  BY DEF OpenedFile
<1>o. \A q \in Procs \ {p} : Live(q) /\ Writer(q) /\ Writer(p) => f \in raced'
  BY <1>0 DEF Live, Writing
<1>r. raced \subseteq raced' /\ raced' \subseteq raced \cup {f} /\ (~Writer(p) => raced' = raced /\ f = p)
  BY <1>0, <1>3
<1> HIDE DEF f, overlaps
<1>e. /\ out # p /\ temp # p /\ p \notin raced /\ \A q \in Procs : run[q].fd # p
      /\ ~Live(p)
  BY <1>0 DEF IInv, NamesApart, Early, Live
<1>4. f # out /\ f # Old
  BY <1>3, <1>e, <1>t DEF IInv, NamesApart
<1>5. \A q \in Procs \ {p} : pc[q] \in Early \/ (Live(q) /\ ~Writer(q)) => f # q
  BY <1>3 DEF IInv, NamesApart
<1>8. \A g \in Files, k \in 1..Blocks : content[g][k] # p
  BY <1>0 DEF IInv, Authors, Early
<1>9. /\ \A g \in Files \ {f} : content'[g] = content[g]
      /\ \A k \in 1..Blocks : content'[f][k] = Hole
  BY <1>0, <1>t DEF Empty
<1>10. \A q \in Procs \ {p} : run'[q] = run[q] /\ pc'[q] = pc[q] /\ (Live(q)' <=> Live(q))
  BY <1>0 DEF OnlyOwn, Live
<1>11. temp' = f \/ temp' = temp
  BY <1>0
<1>l. Live(p)'
  BY <1>0 DEF Live
<1>12. NamesApart'
  <2>1. (out' # NoFile => out' # temp') /\ temp' # Old /\ \A q \in Procs : run'[q].fd # Old
    BY <1>0, <1>4, <1>10, <1>11 DEF IInv, NamesApart
  <2>2. ASSUME NEW q \in Procs, pc'[q] \in Early
        PROVE  out' # q /\ temp' # q /\ q \notin raced' /\ \A r \in Procs : run'[r].fd # q
    <3>1. q # p /\ pc[q] \in Early
      BY <1>0, <1>10, <2>2 DEF Early
    <3>2. out # q /\ temp # q /\ f # q /\ q \notin raced /\ \A r \in Procs : run[r].fd # q
      BY <1>5, <3>1 DEF IInv, NamesApart
    <3> QED
      BY <1>0, <1>10, <1>11, <1>r, <3>2
  <2>3. ASSUME NEW q \in Procs, Live(q)', ~Writer(q)'
        PROVE  /\ run'[q].fd = q /\ out' # q /\ temp' # q /\ q \notin raced'
               /\ \A r \in Procs \ {q} : run'[r].fd # q
    <3>1. CASE q = p
      BY <1>0, <1>2, <1>10, <1>e, <1>r, <2>3, <3>1
    <3>2. CASE q # p
      <4>1. /\ run[q].fd = q /\ out # q /\ temp # q /\ q \notin raced /\ f # q
            /\ \A r \in Procs \ {q} : run[r].fd # q
        BY <1>2, <1>5, <1>10, <2>3, <3>2 DEF IInv, NamesApart
      <4> QED
        BY <1>0, <1>10, <1>11, <1>r, <3>2, <4>1
    <3> QED
      BY <3>1, <3>2
  <2> QED
    BY <2>1, <2>2, <2>3 DEF NamesApart
<1>13. WritersApart'
  <2>1. ASSUME NEW q \in Procs, Live(q)', Writer(q)'
        PROVE  /\ run'[q].fd \notin raced' => run'[q].fd # out'
               /\ temp' \notin raced' \cup {NoFile} => temp' = run'[q].fd
    <3>1. CASE q = p
      BY <1>0, <1>2, <1>4, <2>1, <3>1
    <3>2. CASE q # p
      <4>1. /\ Live(q) /\ Writer(q) /\ run'[q].fd = run[q].fd
            /\ run[q].fd \notin raced => run[q].fd # out
            /\ temp \notin raced \cup {NoFile} => temp = run[q].fd
        BY <1>2, <1>10, <2>1, <3>2 DEF IInv, WritersApart
      <4>2. Writer(p) => f \in raced'
        BY <1>o, <3>2, <4>1
      <4> QED
        BY <1>0, <1>r, <4>1, <4>2
    <3> QED
      BY <3>1, <3>2
  <2>2. ASSUME NEW q \in Procs \ {p}, Live(q), run[q].fd = f PROVE f \in raced'
    <3>1. Writer(q)
      BY <1>5, <2>2 DEF IInv, NamesApart
    <3>2. Writer(p)
      BY <1>e, <1>r, <2>2
    <3> QED
      BY <1>o, <2>2, <3>1, <3>2
  <2>3. ASSUME NEW q \in Procs, NEW r \in Procs, q # r, Live(q)', Live(r)', run'[q].fd = run'[r].fd
        PROVE  run'[q].fd \in raced'
    <3>1. CASE q = p
      BY <1>0, <1>10, <2>2, <2>3, <3>1
    <3>2. CASE r = p
      BY <1>0, <1>10, <2>2, <2>3, <3>2
    <3>3. CASE q # p /\ r # p
      BY <1>10, <1>r, <2>3, <3>3 DEF IInv, WritersApart
    <3> QED
      BY <3>1, <3>2, <3>3
  <2> QED
    BY <2>1, <2>3 DEF WritersApart
<1>14. TempFilled'
  <2> SUFFICES ASSUME NEW q \in Procs, Live(q)', run'[q].fd \notin raced', NEW k \in 1..run'[q].pos
               PROVE  content'[run'[q].fd][k] = q
    BY DEF TempFilled
  <2>1. q # p
    BY <1>0
  <2>2. /\ Live(q) /\ run'[q] = run[q] /\ run[q].fd \in Files /\ run[q].fd \notin raced
    <3>1. Live(q) /\ run'[q] = run[q]
      BY <1>10, <2>1
    <3>2. run[q].fd # NoFile
      BY <1>t, <3>1 DEF LocalOK, Live
    <3> QED
      BY <1>r, <1>t, <3>1, <3>2
  <2>3. run[q].fd # f
    BY <1>0, <1>13, <1>l, <2>1, <2>2 DEF WritersApart
  <2> QED
    BY <1>9, <2>2, <2>3 DEF IInv, TempFilled
<1>15. Authors'
  <2> SUFFICES ASSUME NEW g \in Files, NEW q \in Procs, NEW k \in 1..Blocks, content'[g][k] = q
               PROVE  SaveCommand(run'[q]) /\ run'[q].fd = g /\ pc'[q] \notin Early
    BY DEF Authors
  <2>1. g # f
    BY <1>9, <1>t
  <2>2. content[g][k] = q /\ q # p
    BY <1>8, <1>9, <2>1
  <2> QED
    BY <1>2, <1>10, <2>2 DEF IInv, Authors
<1>16. Delivered'
  <2>1. \A q \in Procs : SaveCommand(run'[q]) /\ (pc'[q] = "print" \/ run'[q].exit = "Ok")
                            => out \notin {NoFile, Old}
    BY <1>0, <1>10 DEF IInv, Delivered
  <2>2. \A k \in 1..Blocks : content'[Old][k] = Old
    BY <1>4, <1>9, <1>t DEF IInv, Delivered
  <2>3. ASSUME out \notin raced' \cup {NoFile, Old} PROVE Document(out)'
    <3>1. out \in Files /\ content'[out] = content[out] /\ Document(out)
      BY <1>4, <1>9, <1>r, <1>t, <2>3 DEF IInv, Delivered
    <3>2. ~Passed(p)
      BY <1>0 DEF Passed
    <3> QED
      BY <1>0, <3>1, <3>2, SameDocument
  <2> QED
    BY <1>0, <2>1, <2>2, <2>3 DEF Delivered
<1> QED
  BY <1>1, <1>12, <1>13, <1>14, <1>15, <1>16 DEF IInv

LEMMA SaveKeeps == ASSUME IInv, NEW p \in Procs, SaveBlock(p) PROVE IInv'
<1> DEFINE f == run[p].fd
           j == run[p].pos + 1
<1>0. /\ OnlyOwn(p) /\ UNCHANGED <<out, temp, faults, killed, raced>>
      /\ pc[p] = "save" /\ pc'[p] \in {"save", "rename"}
      /\ f \in Files /\ j \in 1..Blocks
      /\ content' = [content EXCEPT ![f] = [@ EXCEPT ![j] = p]]
      /\ run'[p].fd = f /\ run'[p].pos = j /\ run'[p].exit = run[p].exit
      /\ run'[p].cmd = run[p].cmd /\ run'[p].apply = run[p].apply
  BY SaveFacts DEF IInv
<1>t. /\ out \in Files \cup {NoFile} /\ NoFile \notin Files
      /\ content \in [Files -> [1..Blocks -> Files \cup {Hole}]]
      /\ \A q \in Procs : run[q].fd \in Files \cup {NoFile} /\ LocalOK(pc[q], run[q], q \in killed)
      /\ run[p].pos \in 0..Blocks /\ Blocks \in Nat /\ Old \in Files
  BY OwnTyped DEF IInv
<1>1. Own'
  BY OwnStep DEF IInv, Next, Step
<1>2. \A q \in Procs : (Writer(q)' <=> Writer(q)) /\ (SaveCommand(run'[q]) <=> SaveCommand(run[q]))
  BY <1>0, SameCommands
<1>3. \A q \in Procs : run'[q].fd = run[q].fd /\ run'[q].exit = run[q].exit
  BY <1>0 DEF OnlyOwn
<1>4. Live(p) /\ \A q \in Procs : Live(q)' <=> Live(q)
  BY <1>0 DEF OnlyOwn, Live
<1>5. \A q \in Procs : (pc'[q] \in Early <=> pc[q] \in Early) /\ (pc'[q] = "print" <=> pc[q] = "print")
  BY <1>0 DEF OnlyOwn, Early
<1>6. (f \notin raced => f # out) /\ f # Old
  <2>1. ~Writer(p) => f = p /\ out # p
    BY <1>4 DEF IInv, NamesApart
  <2>2. Writer(p) /\ f \notin raced => f # out
    BY <1>4 DEF IInv, WritersApart
  <2>3. f # Old
    BY DEF IInv, NamesApart
  <2> QED
    BY <2>1, <2>2, <2>3
<1>7. /\ \A g \in Files \ {f} : content'[g] = content[g]
      /\ content'[f][j] = p /\ \A k \in (1..Blocks) \ {j} : content'[f][k] = content[f][k]
  BY <1>0, <1>t
<1> HIDE DEF f, j
<1>8. NamesApart'
  BY <1>0, <1>2, <1>3, <1>4, <1>5 DEF IInv, NamesApart
<1>w. WritersApart'
  BY <1>0, <1>2, <1>3, <1>4 DEF IInv, WritersApart
<1>9. TempFilled'
  <2> SUFFICES ASSUME NEW q \in Procs, Live(q)', run'[q].fd \notin raced', NEW k \in 1..run'[q].pos
               PROVE  content'[run'[q].fd][k] = q
    BY DEF TempFilled
  <2>1. CASE q = p
    <3>1. k \in 1..j /\ k \in 1..Blocks
      BY <1>0, <1>t, <2>1
    <3>2. CASE k = j
      BY <1>0, <1>7, <2>1, <3>2
    <3>3. CASE k # j
      <4>1. k \in 1..run[p].pos
        BY <1>0, <1>t, <3>1, <3>3 DEF j
      <4>2. content[f][k] = p
        BY <1>0, <1>3, <1>4, <2>1, <4>1 DEF IInv, TempFilled, f
      <4> QED
        BY <1>0, <1>7, <2>1, <3>1, <3>3, <4>2
    <3> QED
      BY <3>2, <3>3
  <2>2. CASE q # p
    <3>1. Live(q) /\ run'[q] = run[q] /\ run[q].fd \notin raced
      BY <1>0, <1>4, <2>2 DEF OnlyOwn
    <3>2. run[q].fd \in Files
      BY <1>t, <3>1 DEF LocalOK, Live
    <3>3. run[q].fd # f
      BY <1>4, <2>2, <3>1 DEF IInv, WritersApart, f
    <3> QED
      BY <1>7, <3>1, <3>2, <3>3 DEF IInv, TempFilled
  <2> QED
    BY <2>1, <2>2
<1>10. Authors'
  <2> SUFFICES ASSUME NEW g \in Files, NEW q \in Procs, NEW k \in 1..Blocks, content'[g][k] = q
               PROVE  SaveCommand(run'[q]) /\ run'[q].fd = g /\ pc'[q] \notin Early
    BY DEF Authors
  <2>1. CASE g = f /\ k = j
    <3>1. q = p
      BY <1>7, <2>1
    <3>2. SaveCommand(run[p])
      BY <1>0, <1>t DEF LocalOK
    <3> QED
      BY <1>0, <1>2, <2>1, <3>1, <3>2 DEF Early
  <2>2. CASE ~(g = f /\ k = j)
    <3>1. content[g][k] = q
      BY <1>7, <2>2
    <3> QED
      BY <1>2, <1>3, <1>5, <3>1 DEF IInv, Authors
  <2> QED
    BY <2>1, <2>2
<1>13. Delivered'
  <2>1. \A q \in Procs : SaveCommand(run'[q]) /\ (pc'[q] = "print" \/ run'[q].exit = "Ok")
                            => out \notin {NoFile, Old}
    BY <1>2, <1>3, <1>5 DEF IInv, Delivered
  <2>2. \A k \in 1..Blocks : content'[Old][k] = Old
    BY <1>6, <1>7, <1>t DEF IInv, Delivered
  <2>3. ASSUME out \notin raced \cup {NoFile, Old} PROVE Document(out)'
    <3>1. content'[out] = content[out] /\ Document(out)
      BY <1>6, <1>7, <1>t, <2>3 DEF IInv, Delivered
    <3>2. ~Passed(p)
      BY <1>0 DEF Passed
    <3> QED
      BY <1>0, <3>1, <3>2, SameDocument
  <2> QED
    BY <1>0, <2>1, <2>2, <2>3 DEF Delivered
<1> QED
  BY <1>1, <1>8, <1>w, <1>9, <1>10, <1>13 DEF IInv

LEMMA MoveKeeps == ASSUME IInv, NEW p \in Procs, MoveIntoPlace(p) PROVE IInv'
<1> DEFINE f == run[p].fd
<1>0. /\ OnlyOwn(p) /\ UNCHANGED <<content, faults, killed, raced>>
      /\ pc[p] = "rename" /\ pc'[p] = "print" /\ run'[p] = run[p]
      /\ f \in Files /\ run[p].pos = Blocks /\ run[p].exit = "none"
      /\ out' = (IF Writer(p) THEN temp ELSE f)
      /\ temp' = (IF Writer(p) THEN NoFile ELSE temp)
      /\ SaveCommand(run[p])
  BY MoveFacts DEF IInv
<1>t. /\ NoFile \notin Files /\ Procs \subseteq Files /\ temp \in Files \cup {NoFile}
      /\ Old \in Files /\ Old \notin Procs
  BY OwnTyped DEF IInv
<1>1. Own'
  BY OwnStep DEF IInv, Next, Step
<1>2. \A q \in Procs : (Writer(q)' <=> Writer(q)) /\ (SaveCommand(run'[q]) <=> SaveCommand(run[q]))
  BY <1>0, SameCommands
<1>3. \A q \in Procs : run'[q] = run[q]
  BY <1>0 DEF OnlyOwn
<1>4. Live(p)
  BY <1>0 DEF Live
<1>5. out' # NoFile /\ out' # Old /\ (out' \notin raced => out' = f)
  <2>1. CASE Writer(p)
    <3>1. temp # NoFile
      BY <2>1 DEF MoveIntoPlace
    <3> QED
      BY <1>0, <1>4, <2>1, <3>1 DEF IInv, NamesApart, WritersApart
  <2>2. CASE ~Writer(p)
    BY <1>0, <1>t, <2>2 DEF IInv, NamesApart
  <2> QED
    BY <2>1, <2>2
<1>6. \A q \in Procs : Live(q)' => q # p /\ Live(q)
  BY <1>0 DEF OnlyOwn, Live
<1>7. \A q \in Procs : pc'[q] \in Early => pc[q] \in Early
  BY <1>0 DEF OnlyOwn, Early
<1> HIDE DEF f
<1>8. \A q \in Procs : Live(q)' /\ run[q].fd = f => f \in raced
  BY <1>4, <1>6 DEF IInv, WritersApart, f
<1>9. NamesApart'
  <2>1. (out' # NoFile => out' # temp') /\ temp' # Old /\ \A q \in Procs : run'[q].fd # Old
    <3>1. ~Writer(p) => f = p /\ temp # p
      BY <1>4 DEF IInv, NamesApart, f
    <3>2. temp # Old /\ \A q \in Procs : run[q].fd # Old
      BY DEF IInv, NamesApart
    <3> QED
      BY <1>0, <1>3, <1>t, <3>1, <3>2
  <2>2. ASSUME NEW q \in Procs, pc'[q] \in Early
        PROVE  out' # q /\ temp' # q /\ q \notin raced' /\ \A r \in Procs : run'[r].fd # q
    <3>1. temp # q /\ f # q /\ q \notin raced /\ \A r \in Procs : run[r].fd # q
      BY <1>7, <2>2 DEF IInv, NamesApart, f
    <3> QED
      BY <1>0, <1>3, <1>t, <3>1
  <2>3. ASSUME NEW q \in Procs, Live(q)', ~Writer(q)'
        PROVE  /\ run'[q].fd = q /\ out' # q /\ temp' # q /\ q \notin raced'
               /\ \A r \in Procs \ {q} : run'[r].fd # q
    <3>1. /\ q # p /\ run[q].fd = q /\ out # q /\ temp # q /\ q \notin raced
          /\ \A r \in Procs \ {q} : run[r].fd # q
      BY <1>2, <1>6, <2>3 DEF IInv, NamesApart
    <3>2. f # q
      BY <3>1 DEF f
    <3> QED
      BY <1>0, <1>3, <1>t, <3>1, <3>2
  <2> QED
    BY <2>1, <2>2, <2>3 DEF NamesApart
<1>10. WritersApart'
  <2>1. ASSUME NEW q \in Procs, Live(q)', Writer(q)'
        PROVE  /\ run'[q].fd \notin raced' => run'[q].fd # out'
               /\ temp' \notin raced' \cup {NoFile} => temp' = run'[q].fd
    <3>1. temp \notin raced \cup {NoFile} => temp = run[q].fd
      BY <1>2, <1>6, <2>1 DEF IInv, WritersApart
    <3> QED
      BY <1>0, <1>3, <1>5, <1>8, <2>1, <3>1
  <2>2. ASSUME NEW q \in Procs, NEW r \in Procs, q # r, Live(q)', Live(r)', run'[q].fd = run'[r].fd
        PROVE  run'[q].fd \in raced'
    BY <1>0, <1>3, <1>6, <2>2 DEF IInv, WritersApart
  <2> QED
    BY <2>1, <2>2 DEF WritersApart
<1>11. TempFilled'
  BY <1>0, <1>3, <1>6 DEF IInv, TempFilled
<1>12. Authors'
  BY <1>0, <1>2, <1>3, <1>7 DEF IInv, Authors
<1>13. Delivered'
  <2>1. ASSUME out' \notin raced
        PROVE  \E q \in Procs : /\ SaveCommand(run'[q]) /\ Passed(q)'
                                /\ \A k \in 1..Blocks : content'[out'][k] = q
    <3>1. \A k \in 1..Blocks : content[f][k] = p
      BY <1>0, <1>4, <1>5, <2>1 DEF IInv, TempFilled, f
    <3>2. Passed(p)' /\ SaveCommand(run'[p])
      BY <1>0 DEF Passed
    <3> QED
      BY <1>0, <1>5, <2>1, <3>1, <3>2
  <2>2. \A k \in 1..Blocks : content'[Old][k] = Old
    BY <1>0 DEF IInv, Delivered
  <2>3. \A q \in Procs : SaveCommand(run'[q]) /\ (pc'[q] = "print" \/ run'[q].exit = "Ok")
                            => out' \notin {NoFile, Old}
    BY <1>5
  <2> QED
    BY <1>0, <2>1, <2>2, <2>3 DEF Delivered, Document
<1> QED
  BY <1>1, <1>9, <1>10, <1>11, <1>12, <1>13 DEF IInv

LEMMA DropKeeps == ASSUME IInv, NEW p \in Procs, DropTemp(p) \/ DropTempFails(p) PROVE IInv'
<1>0. /\ OnlyOwn(p) /\ UNCHANGED <<out, content, killed, raced>>
      /\ pc[p] = "drop" /\ pc'[p] = "exited"
      /\ run'[p].fd = run[p].fd /\ run'[p].cmd = run[p].cmd /\ run'[p].apply = run[p].apply
      /\ run'[p].exit \notin {"none", "Ok"}
      /\ temp' = NoFile \/ temp' = temp
  BY DropFacts DEF IInv
<1>t. NoFile \notin Files /\ Procs \subseteq Files /\ Old \in Files
  BY OwnTyped DEF IInv
<1>1. Own'
  BY OwnStep DEF IInv, Next, Step
<1>2. \A q \in Procs : (Writer(q)' <=> Writer(q)) /\ (SaveCommand(run'[q]) <=> SaveCommand(run[q]))
  BY <1>0, SameCommands
<1>3. \A q \in Procs : run'[q].fd = run[q].fd
  BY <1>0 DEF OnlyOwn
<1>4. \A q \in Procs : Live(q)' => q # p /\ Live(q) /\ run'[q] = run[q]
  BY <1>0 DEF OnlyOwn, Live
<1>5. \A q \in Procs : pc'[q] \in Early => pc[q] \in Early
  BY <1>0 DEF OnlyOwn, Early
<1>6. NamesApart'
  BY <1>0, <1>2, <1>3, <1>4, <1>5, <1>t DEF IInv, NamesApart
<1>7. WritersApart'
  BY <1>0, <1>2, <1>4 DEF IInv, WritersApart
<1>8. TempFilled'
  BY <1>0, <1>4 DEF IInv, TempFilled
<1>9. Authors'
  BY <1>0, <1>2, <1>3, <1>5 DEF IInv, Authors
<1>10. Delivered'
  <2>1. ~Passed(p)
    BY <1>0 DEF Passed
  <2>2. out \notin raced \cup {NoFile, Old} => Document(out)'
    BY <1>0, <2>1, SameDocument DEF IInv, Delivered
  <2>3. \A q \in Procs : SaveCommand(run'[q]) /\ (pc'[q] = "print" \/ run'[q].exit = "Ok")
                            => out \notin {NoFile, Old}
    BY <1>0, <1>2 DEF IInv, Delivered, OnlyOwn
  <2>4. \A k \in 1..Blocks : content[Old][k] = Old
    BY DEF IInv, Delivered
  <2> QED
    BY <1>0, <2>2, <2>3, <2>4 DEF Delivered
<1> QED
  BY <1>1, <1>6, <1>7, <1>8, <1>9, <1>10 DEF IInv

LEMMA InitInv == Init => IInv
<1> SUFFICES ASSUME Init PROVE IInv
  OBVIOUS
<1>1. Own
  BY OwnInit
<1>2. /\ out \in {NoFile, Old} /\ temp = NoFile /\ raced = {}
      /\ content = [f \in Files |-> IF f = Old THEN [k \in 1..Blocks |-> Old] ELSE Empty]
      /\ \A p \in Procs : pc[p] = "ready" /\ run[p].fd = NoFile /\ run[p].exit = "none"
  BY DEF Init, NewRun
<1>3. \A k \in 1..Blocks : content[Old][k] = Old
  BY <1>2 DEF Files
<1>4. \A f \in Files, k \in 1..Blocks : content[f][k] \notin Procs
  BY <1>2, FileAssumption DEF Empty
<1>5. \A p \in Procs : ~Live(p)
  BY <1>2 DEF Live
<1>6. TempFilled /\ Delivered /\ WritersApart
  BY <1>2, <1>3, <1>5 DEF TempFilled, Delivered, WritersApart
<1>7. NamesApart
  BY <1>2, <1>5, FileAssumption DEF NamesApart
<1>8. Authors
  BY <1>4 DEF Authors
<1> QED
  BY <1>1, <1>6, <1>7, <1>8 DEF IInv

LEMMA StepInv == ASSUME IInv, [Next]_vars PROVE IInv'
<1>1. CASE UNCHANGED vars
  <2>1. UNCHANGED <<out, temp, content, pc, run, faults, killed, raced>>
    BY <1>1 DEF vars
  <2>2. Own'
    BY <1>1, OwnStutter DEF IInv
  <2>3. NamesApart' /\ WritersApart' /\ TempFilled' /\ Authors'
    BY <2>1 DEF IInv, NamesApart, WritersApart, TempFilled, Authors, Writer, Live
  <2>4. Delivered'
    BY <2>1 DEF IInv, Delivered, Document, Passed
  <2> QED
    BY <2>2, <2>3, <2>4 DEF IInv
<1>2. ASSUME NEW p \in Procs, NEW c \in Commands, NEW apply \in BOOLEAN, NEW trace \in BOOLEAN,
             Launch(p, c, apply, trace)
      PROVE  IInv'
  BY <1>2, LaunchKeeps
<1>3. ASSUME NEW p \in Procs, RejectCommandLine(p) \/ Step(p) \/ Kill(p) PROVE IInv'
  <2>1. CASE ReadInput(p) \/ PrepareOutput(p) \/ Kill(p)
    BY <2>1, QuietMoves, QuietKeeps DEF IInv
  <2>2. CASE \/ RejectCommandLine(p) \/ InputFails(p) \/ PrintReport(p) \/ PrintFails(p)
             \/ TraceFails(p) \/ RejectProject(p) \/ SaveFails(p)
    BY <2>2, QuietRest, QuietKeeps DEF IInv
  <2> QED
    BY <1>3, <2>1, <2>2, OpenKeeps, SaveKeeps, MoveKeeps, DropKeeps DEF Step
<1> QED
  BY <1>1, <1>2, <1>3 DEF Next

LEMMA Always == Spec => []IInv
<1>1. IInv /\ [Next]_vars => IInv'
  BY StepInv
<1> QED
  BY <1>1, InitInv, PTL DEF Spec

\* outputPath holds one whole document at every moment, whatever fails, whoever is killed
\* and however many write there, unless its file was open to two write --apply at once
\* (write_engine.cpp:104-105).
THEOREM AlwaysWhole == Spec => []OutputWhole
<1>1. IInv => OutputWhole
  <2> SUFFICES ASSUME IInv, out # NoFile, out \notin raced PROVE Whole(out)
    BY DEF OutputWhole
  <2>1. Procs \subseteq Files /\ Old \in Files
    BY DEF Files
  <2>2. CASE out = Old
    BY <2>1, <2>2 DEF IInv, Delivered, Whole
  <2>3. CASE out # Old
    <3>1. Document(out)
      BY <2>3 DEF IInv, Delivered
    <3> QED
      BY <2>1, <3>1 DEF Document, Whole
  <2> QED
    BY <2>2, <2>3
<1> QED
  BY <1>1, Always, PTL

\* What is at outputPath is by an invocation that was asked to write, and, unless two of
\* them overlapped, by one that did not report failure or failed only to print its report or trace;
\* after a success there is a whole document by somebody who was asked for it.
THEOREM AsReported == Spec => []OutputAsReported
<1>1. IInv => OutputAsReported
  <2> SUFFICES ASSUME IInv, NEW p \in Procs
               PROVE  /\ out # NoFile /\ (\E k \in 1..Blocks : content[out][k] = p) =>
                            /\ Saves(p)
                            /\ \/ out \in raced
                               \/ run[p].exit \in {"none", "Ok"}
                               \/ run[p].ex = "none"
                      /\ Saves(p) /\ run[p].exit = "Ok" =>
                            /\ out # NoFile
                            /\ \/ out \in raced
                               \/ \E q \in Procs : Saves(q) /\ \A k \in 1..Blocks : content[out][k] = q
    BY DEF OutputAsReported
  <2>1. \A q \in Procs : Saves(q) <=> SaveCommand(run[q])
    BY DEF Saves, SaveCommand
  <2>2. ASSUME out # NoFile, NEW k \in 1..Blocks, content[out][k] = p
        PROVE  Saves(p) /\ (out \notin raced => run[p].exit \in {"none", "Ok"} \/ run[p].ex = "none")
    <3>1. /\ out \in Files /\ NoFile \notin Files /\ Old \notin Procs
          /\ LocalOK(pc[p], run[p], p \in killed)
      BY <2>2, OwnTyped DEF IInv
    <3>2. SaveCommand(run[p])
      BY <2>2, <3>1 DEF IInv, Authors
    <3>3. ASSUME out \notin raced PROVE Passed(p)
      <4>1. out # Old
        BY <2>2, <3>1 DEF IInv, Delivered
      <4>2. Document(out)
        BY <2>2, <3>3, <4>1 DEF IInv, Delivered
      <4> QED
        BY <2>2, <4>2 DEF Document
    <3>4. Passed(p) => run[p].exit \in {"none", "Ok"} \/ run[p].ex = "none"
      BY <3>1 DEF Passed, LocalOK
    <3> QED
      BY <2>1, <3>2, <3>3, <3>4
  <2>3. ASSUME Saves(p), run[p].exit = "Ok"
        PROVE  /\ out # NoFile
               /\ \/ out \in raced
                  \/ \E q \in Procs : Saves(q) /\ \A k \in 1..Blocks : content[out][k] = q
    <3>1. out \notin {NoFile, Old}
      BY <2>1, <2>3 DEF IInv, Delivered
    <3>2. out \notin raced => Document(out)
      BY <3>1 DEF IInv, Delivered
    <3> QED
      BY <2>1, <3>1, <3>2 DEF Document
  <2> QED
    BY <2>2, <2>3
<1> QED
  BY <1>1, Always, PTL
================================================================================
