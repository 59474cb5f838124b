------------------------------ MODULE ConcatFixpoint ------------------------------
(***************************************************************************)
(* Facts about the recursive functions of the models that concatenate one *)
(* piece per element: f[0] = <<>> and f[i] = f[i - 1] \o P[i].  Concat of  *)
(* DetachedHash and the canonical forms Canon2 and Canon are of this       *)
(* shape.  A recursive function definition means the CHOOSE of a function *)
(* meeting its equation; these lemmas show that such a function exists and *)
(* that two of them agree as far as their pieces do.  The induction is a   *)
(* least counterexample taken with WFMin.                                  *)
(***************************************************************************)
EXTENDS Integers, Sequences, TLAPS, WellFoundedInduction

\* F concatenates the pieces P[1], ..., P[n].
SolvesCat(P, F, n) == F[0] = <<>> /\ \A i \in 1..n : F[i] = F[i - 1] \o P[i]

\* G[m] is F[n] followed by the piece p.  The provers instantiate a lemma
\* with this conclusion where they do not one with the bare equation.
CatNext(G, m, F, n, p) == G[m] = F[n] \o p

\* A non-empty set of naturals has a least element.
LEMMA LeastNat ==
  ASSUME NEW T \in SUBSET Nat, T # {}
  PROVE  \E n \in T : \A m \in T : ~(m < n)
<1>1. PICK n \in T : \A m \in T : ~(<<m, n>> \in OpToRel(<, Nat))
  BY WFMin, NatLessThanWellFounded
<1>2. \A m \in T : ~(m < n)
  BY <1>1 DEF OpToRel
<1>. QED  BY <1>2

\* Two concatenations of pieces that are equal up to n are equal up to n.
LEMMA CatAgree ==
  ASSUME NEW P, NEW Q, NEW n \in Nat, \A i \in 1..n : P[i] = Q[i],
         NEW F, NEW G, SolvesCat(P, F, n), SolvesCat(Q, G, n)
  PROVE  \A i \in 0..n : F[i] = G[i]
<1>. DEFINE T == {i \in 0..n : F[i] # G[i]}
<1>. SUFFICES ASSUME T # {} PROVE FALSE
  OBVIOUS
<1>0. T \in SUBSET Nat /\ T # {}
  OBVIOUS
<1>1. PICK i \in T : \A m \in T : ~(m < i)
  <2>. HIDE DEF T
  <2>. QED  BY <1>0, LeastNat
<1>2. i \in 1..n /\ i - 1 \in 0..n /\ i - 1 < i
  BY <1>1 DEF SolvesCat
<1>3. F[i - 1] = G[i - 1]
  BY <1>1, <1>2
<1>4. F[i] = F[i - 1] \o P[i] /\ G[i] = G[i - 1] \o Q[i] /\ P[i] = Q[i]
  BY <1>2, Zenon DEF SolvesCat
<1>5. F[i] = G[i]
  BY <1>3, <1>4, Zenon
<1>. QED  BY <1>1, <1>5

\* For pieces of any set S, a concatenation exists, of strings of S.
LEMMA CatExists ==
  ASSUME NEW S, NEW P \in Seq(Seq(S))
  PROVE  \E g \in [0..Len(P) -> Seq(S)] : SolvesCat(P, g, Len(P))
<1>. DEFINE Ok(n) == \E g \in [0..n -> Seq(S)] : SolvesCat(P, g, n)
            T == {n \in 0..Len(P) : ~Ok(n)}
<1>. SUFFICES ASSUME T # {} PROVE FALSE
  OBVIOUS
<1>0. T \in SUBSET Nat /\ T # {}
  OBVIOUS
<1>1. PICK n \in T : \A m \in T : ~(m < n)
  <2>. HIDE DEF T
  <2>. QED  BY <1>0, LeastNat
<1>2. n \in 0..Len(P) /\ ~Ok(n)
  BY <1>1
<1>3. n # 0
  <2>1. [i \in 0..0 |-> <<>>] \in [0..0 -> Seq(S)]
    OBVIOUS
  <2>2. SolvesCat(P, [i \in 0..0 |-> <<>>], 0)
    BY DEF SolvesCat
  <2>. QED  BY <1>2, <2>1, <2>2
<1>4. PICK g \in [0..n - 1 -> Seq(S)] : SolvesCat(P, g, n - 1)
  <2>1. n - 1 \in 0..Len(P) /\ n - 1 < n
    BY <1>2, <1>3
  <2>. QED  BY <1>1, <2>1
<1>5. n \in 1..Len(P) /\ g[n - 1] \o P[n] \in Seq(S)
  BY <1>2, <1>3
<1>6. PICK x \in Seq(S) : x = g[n - 1] \o P[n]
  BY <1>5
<1>. DEFINE h == [i \in 0..n |-> IF i < n THEN g[i] ELSE x]
<1>7. /\ h \in [0..n -> Seq(S)]
      /\ \A i \in 0..n - 1 : h[i] = g[i]
      /\ h[n] = x
  BY <1>5
<1>. HIDE DEF h
<1>8. h[0] = <<>>
  BY <1>3, <1>5, <1>7, <1>4 DEF SolvesCat
<1>9. ASSUME NEW i \in 1..n PROVE h[i] = h[i - 1] \o P[i]
  <2>1. i - 1 \in 0..n - 1 /\ h[i - 1] = g[i - 1]
    BY <1>5, <1>7
  <2>2. CASE i < n
    <3>1. i \in 1..n - 1 /\ h[i] = g[i]
      BY <1>5, <1>7, <2>2
    <3>2. g[i] = g[i - 1] \o P[i]
      BY <1>4, <3>1 DEF SolvesCat
    <3>. QED  BY <2>1, <3>1, <3>2
  <2>3. CASE i = n
    <3>1. h[i] = g[n - 1] \o P[n]
      BY <1>6, <1>7, <2>3
    <3>. QED  BY <2>1, <2>3, <3>1
  <2>4. i < n \/ i = n
    BY <1>5
  <2>. QED  BY <2>2, <2>3, <2>4
<1>10. Ok(n)
  BY <1>7, <1>8, <1>9 DEF SolvesCat
<1>. QED  BY <1>2, <1>10

\* F and G agree on 0..n.
CatEq(F, G, n) == \A i \in 0..n : F[i] = G[i]

\* CatAgree with its conclusion named, for citing where the pieces are
\* the same.
LEMMA CatAgreeEq ==
  ASSUME NEW P, NEW n \in Nat, NEW F, NEW G, SolvesCat(P, F, n), SolvesCat(P, G, n)
  PROVE  CatEq(F, G, n)
<1>1. \A i \in 1..n : P[i] = P[i]
  OBVIOUS
<1>. QED  BY <1>1, CatAgree DEF CatEq

\* One more piece: a concatenation up to n + 1 of pieces equal to P up to
\* n is the concatenation of P up to n followed by the new piece.
LEMMA CatStep ==
  ASSUME NEW P, NEW Q, NEW n \in Nat, NEW m \in Nat,
         \A i \in 1..n : P[i] = Q[i], m = n + 1,
         NEW F, NEW G, SolvesCat(P, F, n), SolvesCat(Q, G, m)
  PROVE  CatNext(G, m, F, n, Q[m])
<1>1. SolvesCat(Q, G, n)
  <2>1. \A i \in 1..n : i \in 1..m
    OBVIOUS
  <2>. QED  BY <2>1, Zenon DEF SolvesCat
<1>2. G[n] = F[n]
  <2>1. n \in 0..n
    OBVIOUS
  <2>. QED  BY <1>1, <2>1, CatAgree
<1>3. G[m] = G[m - 1] \o Q[m]
  <2>1. m \in 1..m
    OBVIOUS
  <2>. QED  BY <2>1, Zenon DEF SolvesCat
<1>4. m - 1 = n
  OBVIOUS
<1>. QED  BY <1>2, <1>3, <1>4, Zenon DEF CatNext
=============================================================================
