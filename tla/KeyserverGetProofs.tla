--------------------------- MODULE KeyserverGetProofs ---------------------------
(***************************************************************************)
(* Proofs about keyserver_get (KeyserverGet): for every set of keys,       *)
(* descriptor inputs and line budget, the fetched descriptors followed by  *)
(* the remaining ones are the caller's array, every imported keyblock is   *)
(* one the caller requested, and every step of keyserver_get is a step of  *)
(* the abstract KeyserverGetAbstract or leaves its state unchanged.        *)
(***************************************************************************)
EXTENDS KeyserverGet, ConcatFixpoint, TLAPS, SequenceTheorems,
        WellFoundedInduction

D == IdDescs \cup ExactDescs

(***************************************************************************)
(* keyserver_get_chunk always uses at least one descriptor and never more  *)
(* than it was given: `idx &&` lets the first pattern through whatever its *)
(* length, and the loop stops at the first pattern that would overflow.    *)
(***************************************************************************)
LEMMA UsedRange ==
  ASSUME NEW d \in Seq(D), d # <<>>
  PROVE  Used(d) \in 1..Len(d)
<1>. DEFINE T == {idx \in 0..Len(d) - 1 : Breaks(d, idx)}
<1>1. CASE \E idx \in 0..Len(d) - 1 : Breaks(d, idx)
  <2>1. PICK x \in T : \A y \in T : ~(<<y, x>> \in OpToRel(<, Nat))
    <3>1. T \subseteq Nat /\ T # {}
      BY <1>1
    <3>. QED  BY <3>1, WFMin, NatLessThanWellFounded
  <2>2. \A j \in 0..x - 1 : ~Breaks(d, j)
    <3>1. TAKE j \in 0..x - 1
    <3>2. j \in 0..Len(d) - 1 /\ <<j, x>> \in OpToRel(<, Nat)
      BY DEF T, OpToRel
    <3>. QED  BY <3>2, <2>1 DEF T
  <2>3. \E idx \in 0..Len(d) - 1 :
          Breaks(d, idx) /\ \A j \in 0..idx - 1 : ~Breaks(d, j)
    BY <2>2 DEF T
  <2>4. \A idx \in 0..Len(d) - 1 :
          Breaks(d, idx) /\ (\A j \in 0..idx - 1 : ~Breaks(d, j))
            => idx \in 1..Len(d)
    BY DEF Breaks
  <2>. QED  BY <1>1, <2>3, <2>4 DEF Used
<1>2. CASE ~\E idx \in 0..Len(d) - 1 : Breaks(d, idx)
  BY <1>2 DEF Used
<1>. QED  BY <1>1, <1>2

(***************************************************************************)
(* SumCost is a recursive function: f[0] = 0, f[i] = f[i - 1] + Cost(s[i]).*)
(* As for the concatenations of ConcatFixpoint, such a function exists,    *)
(* two of them agree as far as their terms do, and one more term adds its *)
(* cost.                                                                   *)
(***************************************************************************)
SolvesSum(C, F, n) == F[0] = 0 /\ \A i \in 1..n : F[i] = F[i - 1] + C[i]

\* G[m] is F[n] plus the term x.
SumNext(G, m, F, n, x) == G[m] = F[n] + x

LEMMA SumAgree ==
  ASSUME NEW C, NEW E, NEW n \in Nat, \A i \in 1..n : C[i] = E[i],
         NEW F, NEW G, SolvesSum(C, F, n), SolvesSum(E, G, n)
  PROVE  \A i \in 0..n : F[i] = G[i]
<1>. DEFINE T == {i \in 0..n : F[i] # G[i]}
<1>. SUFFICES ASSUME T # {} PROVE FALSE
  OBVIOUS
<1>0. T \in SUBSET Nat /\ T # {}
  OBVIOUS
<1>1. PICK i \in T : \A m \in T : ~(m < i)
  <2>. HIDE DEF T
  <2>. QED  BY <1>0, LeastNat
<1>2. i \in 1..n /\ i - 1 \in 0..n /\ i - 1 < i
  BY <1>1 DEF SolvesSum
<1>3. F[i - 1] = G[i - 1]
  BY <1>1, <1>2
<1>4. F[i] = F[i - 1] + C[i] /\ G[i] = G[i - 1] + E[i] /\ C[i] = E[i]
  BY <1>2, Zenon DEF SolvesSum
<1>5. F[i] = G[i]
  BY <1>3, <1>4, Zenon
<1>. QED  BY <1>1, <1>5

\* For integer terms, a sum exists, of integers.
LEMMA SumExists ==
  ASSUME NEW n \in Nat, NEW C \in [1..n -> Int]
  PROVE  \E g \in [0..n -> Int] : SolvesSum(C, g, n)
<1>. DEFINE Ok(k) == \E g \in [0..k -> Int] : SolvesSum(C, g, k)
            T == {k \in 0..n : ~Ok(k)}
<1>. SUFFICES ASSUME T # {} PROVE FALSE
  OBVIOUS
<1>0. T \in SUBSET Nat /\ T # {}
  OBVIOUS
<1>1. PICK k \in T : \A m \in T : ~(m < k)
  <2>. HIDE DEF T
  <2>. QED  BY <1>0, LeastNat
<1>2. k \in 0..n /\ ~Ok(k)
  BY <1>1
<1>3. k # 0
  <2>1. [i \in 0..0 |-> 0] \in [0..0 -> Int]
    OBVIOUS
  <2>2. SolvesSum(C, [i \in 0..0 |-> 0], 0)
    BY DEF SolvesSum
  <2>. QED  BY <1>2, <2>1, <2>2
<1>4. PICK g \in [0..k - 1 -> Int] : SolvesSum(C, g, k - 1)
  <2>1. k - 1 \in 0..n /\ k - 1 < k
    BY <1>2, <1>3
  <2>. QED  BY <1>1, <2>1
<1>5. k \in 1..n /\ g[k - 1] + C[k] \in Int
  BY <1>2, <1>3
<1>. DEFINE h == [i \in 0..k |-> IF i < k THEN g[i] ELSE g[k - 1] + C[k]]
<1>6. /\ h \in [0..k -> Int]
      /\ \A i \in 0..k - 1 : h[i] = g[i]
      /\ h[k] = g[k - 1] + C[k]
  BY <1>5
<1>. HIDE DEF h
<1>7. h[0] = 0
  BY <1>3, <1>5, <1>6, <1>4 DEF SolvesSum
<1>8. ASSUME NEW i \in 1..k PROVE h[i] = h[i - 1] + C[i]
  <2>1. i - 1 \in 0..k - 1 /\ h[i - 1] = g[i - 1]
    BY <1>5, <1>6
  <2>2. CASE i < k
    <3>1. i \in 1..k - 1 /\ h[i] = g[i]
      BY <1>5, <1>6, <2>2
    <3>2. g[i] = g[i - 1] + C[i]
      BY <1>4, <3>1 DEF SolvesSum
    <3>. QED  BY <2>1, <3>1, <3>2
  <2>3. CASE i = k
    BY <1>6, <2>1, <2>3
  <2>. QED  BY <1>5, <2>2, <2>3
<1>9. Ok(k)
  BY <1>6, <1>7, <1>8 DEF SolvesSum
<1>. QED  BY <1>2, <1>9

\* One more term: a sum up to n + 1 of terms equal to C up to n is the
\* sum of C up to n plus the new term.
LEMMA SumStep ==
  ASSUME NEW C, NEW E, NEW n \in Nat, NEW m \in Nat,
         \A i \in 1..n : C[i] = E[i], m = n + 1,
         NEW F, NEW G, SolvesSum(C, F, n), SolvesSum(E, G, m)
  PROVE  SumNext(G, m, F, n, E[m])
<1>1. SolvesSum(E, G, n)
  <2>1. \A i \in 1..n : i \in 1..m
    OBVIOUS
  <2>. QED  BY <2>1, Zenon DEF SolvesSum
<1>2. G[n] = F[n]
  <2>1. n \in 0..n
    OBVIOUS
  <2>. QED  BY <1>1, <2>1, SumAgree
<1>3. G[m] = G[m - 1] + E[m]
  <2>1. m \in 1..m
    OBVIOUS
  <2>. QED  BY <2>1, Zenon DEF SolvesSum
<1>4. m - 1 = n
  OBVIOUS
<1>. QED  BY <1>2, <1>3, <1>4, Zenon DEF SumNext

\* The estimated length of every pattern is a natural number.
LEMMA CostNat ==
  ASSUME NEW d \in D
  PROVE  Cost(d) \in Nat
<1>1. CASE d \in IdDescs
  <2>1. d.mode \in {"fpr20", "fpr16", "long", "short"}
    BY <1>1 DEF IdDescs, Desc
  <2>. QED  BY <2>1 DEF Cost
<1>2. CASE d \in ExactDescs
  <2>1. d.mode = "exact" /\ d.len \in Nat
    BY <1>2, GetAssumption DEF ExactDescs, Desc
  <2>. QED  BY <2>1 DEF Cost
<1>. QED  BY <1>1, <1>2 DEF D

\* The terms of SumCost(s).
Costs(s) == [i \in 1..Len(s) |-> Cost(s[i])]

LEMMA SumCostSolves ==
  ASSUME NEW s \in Seq(D)
  PROVE  \E F : /\ SolvesSum(Costs(s), F, Len(s)) /\ SumCost(s) = F[Len(s)]
               /\ SumCost(s) \in Int
<1>. DEFINE L == Len(s)  C == Costs(s)
<1>0. C \in [1..L -> Int] /\ L \in Nat
  <2>1. \A i \in 1..L : Cost(s[i]) \in Nat
    BY CostNat
  <2>. QED  BY <2>1 DEF Costs
<1>1. PICK g \in [0..L -> Int] : SolvesSum(C, g, L)
  <2>. HIDE DEF C
  <2>. QED  BY <1>0, SumExists
<1>2. \A i \in 1..L : i \in 0..L /\ i # 0 /\ C[i] = Cost(s[i])
  BY DEF Costs
<1>3. g = [i \in 0..L |-> IF i = 0 THEN 0 ELSE g[i - 1] + Cost(s[i])]
  <2>1. \A i \in 0..L : g[i] = IF i = 0 THEN 0 ELSE g[i - 1] + Cost(s[i])
    <3>1. \A i \in 0..L : i = 0 \/ i \in 1..L
      OBVIOUS
    <3>. QED  BY <1>1, <1>2, <3>1, Zenon DEF SolvesSum
  <2>. QED  BY <1>1, <2>1, Zenon
<1>. DEFINE F == CHOOSE f : f = [i \in 0..L |-> IF i = 0 THEN 0 ELSE f[i - 1] + Cost(s[i])]
<1>4. F = [i \in 0..L |-> IF i = 0 THEN 0 ELSE F[i - 1] + Cost(s[i])]
  BY <1>3, Zenon
<1>5. SolvesSum(C, F, L)
  <2>1. 0 \in 0..L
    OBVIOUS
  <2>. QED  BY <1>2, <1>4, <2>1, Zenon DEF SolvesSum
<1>6. SumCost(s) = F[L]
  BY DEF SumCost
<1>7. SumCost(s) \in Int
  <2>1. \A i \in 0..L : F[i] = g[i]
    <3>. HIDE DEF C, F, L
    <3>1. \A i \in 1..L : C[i] = C[i]
      OBVIOUS
    <3>. QED  BY <1>0, <1>1, <1>5, <3>1, SumAgree
  <2>2. L \in 0..L
    OBVIOUS
  <2>. QED  BY <1>1, <1>6, <2>1, <2>2
<1>. QED  BY <1>5, <1>6, <1>7

\* SumCost of one more descriptor of d adds its cost.
LEMMA SumCostStep ==
  ASSUME NEW d \in Seq(D), NEW p \in Nat, p < Len(d)
  PROVE  SumCost(SubSeq(d, 1, p + 1)) = SumCost(SubSeq(d, 1, p)) + Cost(d[p + 1])
<1>. DEFINE s == SubSeq(d, 1, p)  t == SubSeq(d, 1, p + 1)  m == p + 1
            C == Costs(s)  E == Costs(t)
<1>1. s \in Seq(D) /\ t \in Seq(D) /\ Len(s) = p /\ Len(t) = m
      /\ m \in Nat /\ m = p + 1
  OBVIOUS
<1>2. \A i \in 1..p : C[i] = E[i]
  BY DEF Costs
<1>3. E[m] = Cost(d[p + 1])
  BY DEF Costs
<1>4. PICK F : SolvesSum(C, F, p) /\ SumCost(s) = F[p]
  BY <1>1, SumCostSolves
<1>5. PICK G : SolvesSum(E, G, m) /\ SumCost(t) = G[m]
  BY <1>1, SumCostSolves
<1>. HIDE DEF s, t, m, C, E
<1>6. SumNext(G, m, F, p, E[m])
  BY <1>1, <1>2, <1>4, <1>5, SumStep
<1>7. G[m] = F[p] + E[m]
  BY <1>6 DEF SumNext
<1>8. SumCost(t) = SumCost(s) + E[m]
  BY <1>4, <1>5, <1>7, Zenon
<1>. QED  BY <1>3, <1>8, Zenon DEF s, t, m

\* keyserver_get_chunk's loop passed the length check at every index before
\* the one it stopped at.
LEMMA UsedBefore ==
  ASSUME NEW d \in Seq(D)
  PROVE  \A j \in 0..Used(d) - 1 : ~Breaks(d, j)
<1>. DEFINE T == {idx \in 0..Len(d) - 1 : Breaks(d, idx)}
<1>1. CASE \E idx \in 0..Len(d) - 1 : Breaks(d, idx)
  <2>1. PICK x \in T : \A y \in T : ~(y < x)
    <3>1. T \in SUBSET Nat /\ T # {}
      BY <1>1
    <3>. HIDE DEF T
    <3>. QED  BY <3>1, LeastNat
  <2>2. \E idx \in 0..Len(d) - 1 :
          Breaks(d, idx) /\ \A j \in 0..idx - 1 : ~Breaks(d, j)
    <3>1. \A j \in 0..x - 1 : ~Breaks(d, j)
      <4>1. TAKE j \in 0..x - 1
      <4>2. j \in 0..Len(d) - 1 /\ j < x
        BY DEF T
      <4>. QED  BY <4>2, <2>1 DEF T
    <3>. QED  BY <3>1 DEF T
  <2>. QED  BY <1>1, <2>2 DEF Used
<1>2. CASE ~\E idx \in 0..Len(d) - 1 : Breaks(d, idx)
  BY <1>2 DEF Used
<1>. QED  BY <1>1, <1>2

\* A batch of more than one pattern fits the KS_GET line: its last pattern
\* passed the check `linelen + n > MAX_KS_GET_LINELEN` with linelen the
\* baseline plus all the patterns before it.
LEMMA BatchOK ==
  ASSUME NEW d \in Seq(D), d # <<>>,
         Len(SubSeq(d, 1, Used(d))) >= 2
  PROVE  Base + SumCost(SubSeq(d, 1, Used(d))) <= MaxLen
<1>. DEFINE u == Used(d)  j == u - 1
<1>1. u \in 1..Len(d)
  BY UsedRange
<1>2. u >= 2 /\ j \in 1..Len(d) - 1 /\ j \in 0..u - 1 /\ j # 0 /\ j \in Nat
      /\ j < Len(d) /\ j + 1 = u
  BY <1>1
<1>3. ~Breaks(d, j)
  BY <1>2, UsedBefore
<1>4. ~(Base + SumCost(SubSeq(d, 1, j)) + Cost(d[j + 1]) > MaxLen)
  BY <1>2, <1>3 DEF Breaks
<1>5. SumCost(SubSeq(d, 1, j + 1)) = SumCost(SubSeq(d, 1, j)) + Cost(d[j + 1])
  BY <1>2, SumCostStep
<1>6. SumCost(SubSeq(d, 1, j)) \in Int /\ Cost(d[j + 1]) \in Nat
  <2>1. SubSeq(d, 1, j) \in Seq(D) /\ d[j + 1] \in D
    BY <1>2
  <2>. QED  BY <2>1, SumCostSolves, CostNat
<1>7. Base \in Nat /\ MaxLen \in Nat
  BY GetAssumption
<1>. HIDE DEF u, j
<1>8. SumCost(SubSeq(d, 1, u)) = SumCost(SubSeq(d, 1, j)) + Cost(d[j + 1])
  BY <1>2, <1>5
<1>9. Base + SumCost(SubSeq(d, 1, u)) <= MaxLen
  BY <1>4, <1>6, <1>7, <1>8
<1>. QED  BY <1>9 DEF u

(***************************************************************************)
(* The inductive invariant: the types, the caller's array split into the   *)
(* fetched and the remaining descriptors, only requested keyblocks         *)
(* imported, and while the loop runs there is something left to fetch and *)
(* no error yet; a return without error leaves nothing.                    *)
(***************************************************************************)
IInv ==
  /\ input \in Seq(D) /\ input # <<>>
  /\ rest \in Seq(D) /\ fetched \in Seq(D)
  /\ imported \subseteq {b \in Blocks : Requested(b, input)}
  /\ pc \in {"get", "done"} /\ err \in {"none", "nomem", "ksget"}
  /\ fetched \o rest = input
  /\ pc = "get" => rest # <<>> /\ err = "none"
  /\ pc = "done" /\ err = "none" => rest = <<>>

\* Every caller's array is a non-empty sequence of descriptors.
LEMMA InputsNonEmpty == \A i \in Inputs : i \in Seq(D) /\ i # <<>>
<1>1. ASSUME NEW m \in 1..MaxDescs, NEW f \in [1..m -> IdDescs]
      PROVE  f \in Seq(D) /\ f # <<>>
  <2>1. m \in Nat /\ f \in [1..m -> D]
    BY DEF D
  <2>2. f \in Seq(D)
    BY <2>1
  <2>. QED  BY <2>2, 1 \in DOMAIN f
<1>2. ASSUME NEW d \in ExactDescs PROVE <<d>> \in Seq(D) /\ <<d>> # <<>>
  BY DEF D
<1>. QED  BY <1>1, <1>2 DEF Inputs, SeqsUpTo

LEMMA IInvInit == Init => IInv
BY InputsNonEmpty DEF Init, IInv

\* A keyblock the screener lets through for the batch that keyserver_get
\* plans is one that some descriptor of the caller's array names.
LEMMA ScreenedRequested ==
  ASSUME IInv, pc = "get", NEW b \in Blocks,
         Screener(b, ScreenArg(rest, Used(rest)))
  PROVE  Requested(b, input)
<1>. DEFINE u == Used(rest)
            s == SubSeq(rest, 1, u)
<1>1. u \in 1..Len(rest)
  BY UsedRange DEF IInv
<1>2. s \in Seq(D) /\ Len(s) = u /\ \A i \in 1..u : s[i] = rest[i]
  BY <1>1, SubSeqProperties DEF IInv
<1>3. PICK k \in b.keys, n \in 1..Len(s) : Match(k, s[n])
  BY <1>1, <1>2 DEF Screener, ScreenArg
<1>4. Len(input) = Len(fetched) + Len(rest)
      /\ input[Len(fetched) + n] = rest[n]
  BY <1>1, <1>2, ConcatProperties DEF IInv
<1>5. Len(fetched) + n \in 1..Len(input) /\ Match(k, input[Len(fetched) + n])
  BY <1>1, <1>2, <1>3, <1>4 DEF IInv
<1>6. ~b.secret
  BY DEF Screener, ScreenArg
<1>. QED  BY <1>5, <1>6 DEF Requested


\* A successful KS_GET: keyserver_get advances past the batch, which is a
\* Fetch of the abstract call with k the descriptors the batch used.
LEMMA FetchedStep == IInv /\ ChunkFetched => IInv' /\ Abs!Fetch
<1>. SUFFICES ASSUME IInv, ChunkFetched PROVE IInv' /\ Abs!Fetch
  OBVIOUS
<1>. DEFINE u == Used(rest)
            A == SubSeq(rest, 1, u)
            B == SubSeq(rest, u + 1, Len(rest))
<1>1. u \in 1..Len(rest) /\ rest \in Seq(D)
  BY UsedRange DEF ChunkFetched, IInv
<1>2. PICK answer \in SUBSET Blocks :
        imported' = imported \cup {b \in answer : Screener(b, ScreenArg(rest, u))}
  BY DEF ChunkFetched
<1>. DEFINE new == {b \in answer : Screener(b, ScreenArg(rest, u))}
<1>3. new \subseteq {b \in Blocks : Requested(b, input)}
  BY ScreenedRequested DEF ChunkFetched
<1>4. /\ fetched' = fetched \o A /\ rest' = B
      /\ pc' = (IF u = Len(rest) THEN "done" ELSE "get")
      /\ input' = input /\ err' = err /\ pc = "get"
  BY <1>1 DEF ChunkFetched, Remaining
<1>5. A \in Seq(D) /\ B \in Seq(D) /\ Len(B) = Len(rest) - u
  BY <1>1, SubSeqProperties
<1>6. fetched' \o rest' = input
  <2>1. A \o B = SubSeq(rest, 1, Len(rest))
    <3>1. 1 \in 1..Len(rest) + 1 /\ u \in 1 - 1..Len(rest)
          /\ Len(rest) \in u..Len(rest)
      BY <1>1
    <3>. QED  BY <1>1, <3>1, ConcatAdjacentSubSeq DEF A, B
  <2>2. A \o B = rest
    BY <1>1, <2>1, SubSeqFull
  <2>3. \A s, t, v \in Seq(D) : (s \o t) \o v = s \o (t \o v)
    BY ConcatAssociative
  <2>4. (fetched \o A) \o B = fetched \o (A \o B)
    BY <1>5, <2>3 DEF IInv
  <2>. QED  BY <1>4, <2>2, <2>4 DEF IInv
<1>7. IInv'
  <2>1. fetched' \in Seq(D) /\ rest' \in Seq(D)
    BY <1>4, <1>5, ConcatProperties DEF IInv
  <2>2. imported' \subseteq {b \in Blocks : Requested(b, input')}
    BY <1>2, <1>3, <1>4 DEF IInv
  <2>3. pc' = "get" => rest' # <<>> /\ err' = "none"
    <3>1. pc' = "get" => Len(rest') > 0
      BY <1>1, <1>4, <1>5
    <3>2. Len(rest') > 0 => rest' # <<>>
      OBVIOUS
    <3>3. err' = "none"
      BY <1>4 DEF IInv
    <3>. QED  BY <3>1, <3>2, <3>3
  <2>4. pc' = "done" /\ err' = "none" => rest' = <<>>
    BY <1>1, <1>4, <1>5
  <2>. QED  BY <1>4, <1>6, <2>1, <2>2, <2>3, <2>4 DEF IInv
<1>8. Abs!Fetch
  BY <1>1, <1>2, <1>3, <1>4 DEF Abs!Fetch
<1>. QED  BY <1>7, <1>8

\* An allocation failure or a failed KS_GET ends the call with its error.
LEMMA FailStep == IInv /\ (ChunkNoMem \/ ChunkFail) => IInv' /\ Abs!Fail
BY DEF IInv, ChunkNoMem, ChunkFail, Abs!Fail

LEMMA IInvStep == IInv /\ [Next]_vars => IInv' /\ [Abs!Next]_Abs!avars
<1>. SUFFICES ASSUME IInv, [Next]_vars PROVE IInv' /\ [Abs!Next]_Abs!avars
  OBVIOUS
<1>1. CASE ChunkFetched
  BY <1>1, FetchedStep DEF Abs!Next
<1>2. CASE ChunkNoMem \/ ChunkFail
  BY <1>2, FailStep DEF Abs!Next
<1>3. CASE UNCHANGED vars
  BY <1>3 DEF IInv, vars, Abs!avars
<1>. QED  BY <1>1, <1>2, <1>3 DEF Next

-----------------------------------------------------------------------------
\* The descriptors keyserver_get has fetched, followed by those it has not
\* planned yet, are the caller's array; returning without error, it has
\* fetched them all (checked by TLC as FetchedInOrder).
THEOREM FetchedInOrderThm == Spec => []FetchedInOrder
<1>1. IInv => FetchedInOrder
  <2>. SUFFICES ASSUME IInv PROVE FetchedInOrder
    OBVIOUS
  <2>1. fetched \o <<>> = fetched
    BY ConcatEmptySeq DEF IInv
  <2>. QED  BY <2>1 DEF IInv, FetchedInOrder
<1>. QED  BY <1>1, IInvInit, IInvStep, PTL DEF Spec

\* Whatever a keyserver answers, keyserver_retrieval_screener lets through
\* only public keyblocks that a descriptor of the caller names (checked by
\* TLC as ImportsRequested).
THEOREM ImportsRequestedThm == Spec => []ImportsRequested
<1>1. IInv => ImportsRequested
  BY DEF IInv, ImportsRequested, Requested
<1>. QED  BY <1>1, IInvInit, IInvStep, PTL DEF Spec

\* keyserver_get implements the safety part of KeyserverGetAbstract: its
\* initial states are abstract initial states and every step is a Fetch, a
\* Fail or leaves the abstract state unchanged (the fairness part of
\* GetRefines is checked by TLC only).
THEOREM GetRefinesSafety == Spec => Abs!Init /\ [][Abs!Next]_Abs!avars
<1>1. Init => Abs!Init
  BY InputsNonEmpty DEF Init, Abs!Init, D
<1>2. IInv /\ [Next]_vars => [Abs!Next]_Abs!avars
  BY IInvStep
<1>. QED  BY <1>1, <1>2, IInvInit, IInvStep, PTL DEF Spec

\* A step adds at most the batch it plans from the remaining descriptors.
LEMMA BatchFitsStep == IInv /\ BatchFits /\ [Next]_vars => BatchFits'
<1>. SUFFICES ASSUME IInv, BatchFits, [Next]_vars PROVE BatchFits'
  OBVIOUS
<1>. DEFINE new == SubSeq(rest, 1, Used(rest))
<1>1. CASE ChunkFetched \/ ChunkFail
  <2>1. pc = "get" /\ batches' = batches \cup {new}
    BY <1>1 DEF ChunkFetched, ChunkFail
  <2>2. rest \in Seq(D) /\ rest # <<>>
    BY <2>1 DEF IInv
  <2>3. Len(new) >= 2 => Base + SumCost(new) <= MaxLen
    BY <2>2, BatchOK
  <2>. QED  BY <2>1, <2>3 DEF BatchFits
<1>2. CASE ChunkNoMem \/ UNCHANGED vars
  <2>1. batches' = batches
    BY <1>2 DEF ChunkNoMem, vars
  <2>. QED  BY <2>1 DEF BatchFits
<1>. QED  BY <1>1, <1>2 DEF Next

\* No KS_GET line with more than one pattern is longer than
\* MAX_KS_GET_LINELEN by keyserver_get_chunk's estimate (lines 1089-1189),
\* for every line budget, baseline and set of descriptors (checked by TLC
\* as BatchFits).
THEOREM BatchFitsThm == Spec => []BatchFits
<1>1. Init => IInv /\ BatchFits
  BY IInvInit DEF Init, BatchFits
<1>2. IInv /\ BatchFits /\ [Next]_vars => (IInv /\ BatchFits)'
  BY IInvStep, BatchFitsStep
<1>. QED  BY <1>1, <1>2, PTL DEF Spec

=============================================================================
