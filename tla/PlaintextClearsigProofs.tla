------------------------- MODULE PlaintextClearsigProofs -------------------------
(***************************************************************************)
(* Proof that the clear-signature loop of handle_plaintext (Plaintext)    *)
(* hashes the text in its canonical form, for every packet length and     *)
(* number of calls: what went into the digest, followed by the line       *)
(* ending the state machine holds back, is Canon of the bytes read.       *)
(*                                                                         *)
(* Canon is a recursive function; as for DetachedHash, the lemmas of      *)
(* ConcatFixpoint give the equation it meets and how it extends by one    *)
(* byte.  The state machine is then shown, state by state and byte by     *)
(* byte, to put and hold back exactly that byte's piece of Canon.         *)
(***************************************************************************)
EXTENDS PlaintextProofs, ConcatFixpoint

\* The clearsig loop's state: state 1 holds a CR, which is the byte read
\* last; state 2 holds a CR LF; and what was hashed followed by what is
\* held is the canonical form of the bytes read.
ClearInv ==
  clearsig /\ md /\ err = "none" =>
    /\ hashed \o Pending(state) = Canon(SubSeq(pt.data, 1, pos))
    /\ state = 1 <=> pos > 0 /\ pt.data[pos] = CR

\* The piece Canon appends for the i-th byte of s, as written in Canon.
CPiece(s, i) ==
  IF s[i] = LF /\ (i = 1 \/ s[i - 1] # CR) THEN <<CR, LF>> ELSE <<s[i]>>

CPieces(s) == [i \in 1..Len(s) |-> CPiece(s, i)]

\* The same piece, from the byte c and whether a CR came before it.
CPieceOf(c, afterCR) == IF c = LF /\ ~afterCR THEN <<CR, LF>> ELSE <<c>>

LEMMA CPieceVal ==
  ASSUME NEW s \in Seq(Bytes), NEW i \in 1..Len(s)
  PROVE  CPiece(s, i) = CPieceOf(s[i], i > 1 /\ s[i - 1] = CR)
BY DEF CPiece, CPieceOf

LEMMA CPieceOfType ==
  ASSUME NEW c \in Bytes, NEW a
  PROVE  CPieceOf(c, a) \in Seq(Bytes)
<1>1. <<CR, LF>> \in Seq(Bytes) /\ <<c>> \in Seq(Bytes)
  BY DEF Bytes
<1>. QED  BY <1>1 DEF CPieceOf

LEMMA CPiecesType ==
  ASSUME NEW s \in Seq(Bytes)
  PROVE  CPieces(s) \in Seq(Seq(Bytes)) /\ Len(CPieces(s)) = Len(s)
<1>1. ASSUME NEW i \in 1..Len(s) PROVE CPiece(s, i) \in Seq(Bytes)
  <2>1. CPiece(s, i) = CPieceOf(s[i], i > 1 /\ s[i - 1] = CR)
    BY CPieceVal
  <2>2. CPieceOf(s[i], i > 1 /\ s[i - 1] = CR) \in Seq(Bytes)
    BY CPieceOfType
  <2>. QED  BY <2>1, <2>2
<1>. QED  BY <1>1 DEF CPieces

\* Canon is the concatenation of its pieces.
LEMMA CanonSolves ==
  ASSUME NEW s \in Seq(Bytes)
  PROVE  \E F : /\ SolvesCat(CPieces(s), F, Len(s)) /\ Canon(s) = F[Len(s)]
               /\ Canon(s) \in Seq(Bytes)
<1>. DEFINE L == Len(s)  P == CPieces(s)
<1>0. P \in Seq(Seq(Bytes)) /\ Len(P) = L /\ L \in Nat
  BY CPiecesType
<1>1. PICK g \in [0..L -> Seq(Bytes)] : SolvesCat(P, g, L)
  <2>. HIDE DEF P
  <2>. QED  BY <1>0, CatExists
<1>2. \A i \in 1..L : i \in 0..L /\ i # 0 /\ P[i] = CPiece(s, i)
  BY DEF CPieces
<1>3. g = [i \in 0..L |-> IF i = 0 THEN <<>> ELSE g[i - 1] \o CPiece(s, i)]
  <2>1. \A i \in 0..L : g[i] = IF i = 0 THEN <<>> ELSE g[i - 1] \o CPiece(s, i)
    <3>1. \A i \in 0..L : i = 0 \/ i \in 1..L
      OBVIOUS
    <3>. QED  BY <1>1, <1>2, <3>1, Zenon DEF SolvesCat
  <2>. QED  BY <1>1, <2>1, Zenon
<1>. DEFINE F == CHOOSE f : f = [i \in 0..L |-> IF i = 0 THEN <<>> ELSE f[i - 1] \o CPiece(s, i)]
<1>4. F = [i \in 0..L |-> IF i = 0 THEN <<>> ELSE F[i - 1] \o CPiece(s, i)]
  BY <1>3, Zenon
<1>5. SolvesCat(P, F, L)
  <2>1. 0 \in 0..L
    OBVIOUS
  <2>. QED  BY <1>2, <1>4, <2>1, Zenon DEF SolvesCat
<1>6. Canon(s) = F[L]
  BY DEF Canon, CPiece
<1>7. Canon(s) \in Seq(Bytes)
  <2>1. \A i \in 0..L : F[i] = g[i]
    <3>. HIDE DEF P, F, L
    <3>1. CatEq(F, g, L)
      BY <1>0, <1>1, <1>5, CatAgreeEq
    <3>. QED  BY <3>1 DEF CatEq
  <2>2. L \in 0..L
    OBVIOUS
  <2>. QED  BY <1>1, <1>6, <2>1, <2>2
<1>. QED  BY <1>5, <1>6, <1>7

\* The canonical form of nothing is empty.
LEMMA CanonEmpty == Canon(<<>>) = <<>>
<1>1. PICK F : SolvesCat(CPieces(<<>>), F, 0) /\ Canon(<<>>) = F[0]
  <2>1. <<>> \in Seq(Bytes) /\ Len(<<>>) = 0
    OBVIOUS
  <2>. QED  BY <2>1, CanonSolves
<1>. QED  BY <1>1 DEF SolvesCat

\* The piece of the i-th byte of a prefix of u is that of u.
LEMMA CPiecePrefix ==
  ASSUME NEW u \in Seq(Bytes), NEW k \in 0..Len(u), NEW i \in 1..k
  PROVE  CPieces(SubSeq(u, 1, k))[i] = CPieceOf(u[i], i > 1 /\ u[i - 1] = CR)
<1>. DEFINE s == SubSeq(u, 1, k)
<1>1. s \in Seq(Bytes) /\ Len(s) = k /\ s[i] = u[i]
  OBVIOUS
<1>2. (i > 1 /\ s[i - 1] = CR) <=> (i > 1 /\ u[i - 1] = CR)
  OBVIOUS
<1>3. CPieces(s)[i] = CPiece(s, i)
  BY <1>1 DEF CPieces
<1>4. CPiece(s, i) = CPieceOf(s[i], i > 1 /\ s[i - 1] = CR)
  BY <1>1, CPieceVal
<1>. QED  BY <1>1, <1>2, <1>3, <1>4 DEF CPieceOf

\* Canon of one more byte of u appends that byte's piece.
LEMMA CanonStep ==
  ASSUME NEW u \in Seq(Bytes), NEW p \in Nat, p < Len(u)
  PROVE  Canon(SubSeq(u, 1, p + 1))
           = Canon(SubSeq(u, 1, p)) \o CPieceOf(u[p + 1], p > 0 /\ u[p] = CR)
<1>. DEFINE s == SubSeq(u, 1, p)  t == SubSeq(u, 1, p + 1)  m == p + 1
            P == CPieces(s)  Q == CPieces(t)
<1>1. s \in Seq(Bytes) /\ t \in Seq(Bytes) /\ Len(s) = p /\ Len(t) = m
      /\ m \in Nat /\ m = p + 1 /\ p \in 0..Len(u) /\ m \in 0..Len(u) /\ m \in 1..m
  OBVIOUS
<1>2. \A i \in 1..p : P[i] = Q[i]
  <2>1. ASSUME NEW i \in 1..p PROVE P[i] = Q[i]
    <3>1. i \in 1..m
      OBVIOUS
    <3>. QED  BY <1>1, <3>1, CPiecePrefix
  <2>. QED  BY <2>1
<1>3. Q[m] = CPieceOf(u[p + 1], p > 0 /\ u[p] = CR)
  <2>1. Q[m] = CPieceOf(u[m], m > 1 /\ u[m - 1] = CR)
    BY <1>1, CPiecePrefix
  <2>2. u[m] = u[p + 1] /\ (m > 1 <=> p > 0) /\ m - 1 = p
    OBVIOUS
  <2>. QED  BY <2>1, <2>2
<1>4. PICK F : SolvesCat(P, F, p) /\ Canon(s) = F[p]
  BY <1>1, CanonSolves
<1>5. PICK G : SolvesCat(Q, G, m) /\ Canon(t) = G[m]
  BY <1>1, CanonSolves
<1>. HIDE DEF s, t, m, P, Q
<1>6. CatNext(G, m, F, p, Q[m])
  BY <1>1, <1>2, <1>4, <1>5, CatStep
<1>7. G[m] = F[p] \o Q[m]
  BY <1>6 DEF CatNext
<1>8. Canon(t) = Canon(s) \o Q[m]
  BY <1>4, <1>5, <1>7, Zenon
<1>. QED  BY <1>3, <1>8, Zenon DEF s, t, m

\* Concatenations of short literal sequences, which the state machine's
\* puts are made of.
Pair(p, q) == <<p>> \o <<q>> = <<p, q>>
Triple(p, q, r) == <<p, q>> \o <<r>> = <<p, q, r>>

LEMMA CatPair ==
  ASSUME NEW S, NEW p \in S, NEW q \in S
  PROVE  Pair(p, q)
<1>. DEFINE w == <<p>> \o <<q>>
<1>1. w \in Seq(S) /\ Len(w) = 2
  BY ConcatProperties
<1>2. \A i \in 1..2 : w[i] = <<p, q>>[i]
  BY <1>1
<1>3. w = [i \in 1..2 |-> w[i]]
  BY <1>1
<1>4. <<p, q>> = [i \in 1..2 |-> <<p, q>>[i]]
  OBVIOUS
<1>. HIDE DEF w
<1>5. w = <<p, q>>
  BY <1>2, <1>3, <1>4, Zenon
<1>. QED  BY <1>5 DEF w, Pair

LEMMA CatTriple ==
  ASSUME NEW S, NEW p \in S, NEW q \in S, NEW r \in S
  PROVE  Triple(p, q, r)
<1>. DEFINE w == <<p, q>> \o <<r>>
<1>1. w \in Seq(S) /\ Len(w) = 3
  BY ConcatProperties
<1>2. \A i \in 1..3 : w[i] = <<p, q, r>>[i]
  BY <1>1
<1>3. w = [i \in 1..3 |-> w[i]]
  BY <1>1
<1>4. <<p, q, r>> = [i \in 1..3 |-> <<p, q, r>>[i]]
  OBVIOUS
<1>. HIDE DEF w
<1>5. w = <<p, q, r>>
  BY <1>2, <1>3, <1>4, Zenon
<1>. QED  BY <1>5 DEF w, Triple

\* The state machine on byte c in state st, where state 1 means that the
\* byte before was a CR: what it held back followed by c's piece of Canon
\* is what it puts followed by what it now holds back, and it ends in
\* state 1 exactly on a CR.
ClearPuts(st, c, a) ==
  /\ Pending(st) \o CPieceOf(c, a)
       = ClearStep(st, c).put \o Pending(ClearStep(st, c).st)
  /\ ClearStep(st, c).st = 1 <=> c = CR

LEMMA ClearStepPuts ==
  ASSUME NEW st \in 0..2, NEW c \in Bytes, NEW a \in BOOLEAN, st = 1 <=> a
  PROVE  ClearPuts(st, c, a)
<1>0. CR # LF /\ CR # X /\ LF # X
  BY DEF CR, LF, X
<1>1. CASE st = 0 /\ c = CR
  <2>1. ClearStep(st, c) = [put |-> <<>>, st |-> 1]
    BY <1>0, <1>1 DEF ClearStep
  <2>2. ClearStep(st, c).put = <<>> /\ ClearStep(st, c).st = 1
    BY <2>1
  <2>3. Pending(st) = <<>> /\ Pending(1) = <<CR>>
    BY <1>1 DEF Pending
  <2>4. CPieceOf(c, a) = <<CR>>
    BY <1>0, <1>1 DEF CPieceOf
  <2>5. <<>> \o <<CR>> = <<>> \o <<CR>>
    BY DEF CR, LF, X
  <2>6. Pending(st) \o CPieceOf(c, a)
          = ClearStep(st, c).put \o Pending(ClearStep(st, c).st)
    BY <2>2, <2>3, <2>4, <2>5, Zenon
  <2>7. ClearStep(st, c).st = 1 <=> c = CR
    BY <1>0, <1>1, <2>2
  <2>. QED  BY <2>6, <2>7 DEF ClearPuts
<1>2. CASE st = 0 /\ c = LF
  <2>1. ClearStep(st, c) = [put |-> <<>>, st |-> 2]
    BY <1>0, <1>2 DEF ClearStep
  <2>2. ClearStep(st, c).put = <<>> /\ ClearStep(st, c).st = 2
    BY <2>1
  <2>3. Pending(st) = <<>> /\ Pending(2) = <<CR, LF>>
    BY <1>2 DEF Pending
  <2>4. CPieceOf(c, a) = <<CR, LF>>
    BY <1>0, <1>2 DEF CPieceOf
  <2>5. <<>> \o <<CR, LF>> = <<>> \o <<CR, LF>>
    BY DEF CR, LF, X
  <2>6. Pending(st) \o CPieceOf(c, a)
          = ClearStep(st, c).put \o Pending(ClearStep(st, c).st)
    BY <2>2, <2>3, <2>4, <2>5, Zenon
  <2>7. ClearStep(st, c).st = 1 <=> c = CR
    BY <1>0, <1>2, <2>2
  <2>. QED  BY <2>6, <2>7 DEF ClearPuts
<1>3. CASE st = 0 /\ c = X
  <2>1. ClearStep(st, c) = [put |-> <<X>>, st |-> 0]
    BY <1>0, <1>3 DEF ClearStep
  <2>2. ClearStep(st, c).put = <<X>> /\ ClearStep(st, c).st = 0
    BY <2>1
  <2>3. Pending(st) = <<>> /\ Pending(0) = <<>>
    BY <1>3 DEF Pending
  <2>4. CPieceOf(c, a) = <<X>>
    BY <1>0, <1>3 DEF CPieceOf
  <2>5. <<>> \o <<X>> = <<X>> \o <<>>
    BY DEF CR, LF, X
  <2>6. Pending(st) \o CPieceOf(c, a)
          = ClearStep(st, c).put \o Pending(ClearStep(st, c).st)
    BY <2>2, <2>3, <2>4, <2>5, Zenon
  <2>7. ClearStep(st, c).st = 1 <=> c = CR
    BY <1>0, <1>3, <2>2
  <2>. QED  BY <2>6, <2>7 DEF ClearPuts
<1>4. CASE st = 1 /\ c = CR
  <2>1. ClearStep(st, c) = [put |-> <<CR>>, st |-> 1]
    BY <1>0, <1>4 DEF ClearStep
  <2>2. ClearStep(st, c).put = <<CR>> /\ ClearStep(st, c).st = 1
    BY <2>1
  <2>3. Pending(st) = <<CR>> /\ Pending(1) = <<CR>>
    BY <1>4 DEF Pending
  <2>4. CPieceOf(c, a) = <<CR>>
    BY <1>0, <1>4 DEF CPieceOf
  <2>5. <<CR>> \o <<CR>> = <<CR>> \o <<CR>>
    BY DEF CR, LF, X
  <2>6. Pending(st) \o CPieceOf(c, a)
          = ClearStep(st, c).put \o Pending(ClearStep(st, c).st)
    BY <2>2, <2>3, <2>4, <2>5, Zenon
  <2>7. ClearStep(st, c).st = 1 <=> c = CR
    BY <1>0, <1>4, <2>2
  <2>. QED  BY <2>6, <2>7 DEF ClearPuts
<1>5. CASE st = 1 /\ c = LF
  <2>1. ClearStep(st, c) = [put |-> <<>>, st |-> 2]
    BY <1>0, <1>5 DEF ClearStep
  <2>2. ClearStep(st, c).put = <<>> /\ ClearStep(st, c).st = 2
    BY <2>1
  <2>3. Pending(st) = <<CR>> /\ Pending(2) = <<CR, LF>>
    BY <1>5 DEF Pending
  <2>4. CPieceOf(c, a) = <<LF>>
    BY <1>0, <1>5 DEF CPieceOf
  <2>5. <<CR>> \o <<LF>> = <<>> \o <<CR, LF>>
    <3>1. Pair(CR, LF)
      BY CatPair DEF Bytes
    <3>. QED  BY <3>1 DEF Pair
  <2>6. Pending(st) \o CPieceOf(c, a)
          = ClearStep(st, c).put \o Pending(ClearStep(st, c).st)
    BY <2>2, <2>3, <2>4, <2>5, Zenon
  <2>7. ClearStep(st, c).st = 1 <=> c = CR
    BY <1>0, <1>5, <2>2
  <2>. QED  BY <2>6, <2>7 DEF ClearPuts
<1>6. CASE st = 1 /\ c = X
  <2>1. ClearStep(st, c) = [put |-> <<CR, X>>, st |-> 0]
    BY <1>0, <1>6 DEF ClearStep
  <2>2. ClearStep(st, c).put = <<CR, X>> /\ ClearStep(st, c).st = 0
    BY <2>1
  <2>3. Pending(st) = <<CR>> /\ Pending(0) = <<>>
    BY <1>6 DEF Pending
  <2>4. CPieceOf(c, a) = <<X>>
    BY <1>0, <1>6 DEF CPieceOf
  <2>5. <<CR>> \o <<X>> = <<CR, X>> \o <<>>
    <3>1. Pair(CR, X)
      BY CatPair DEF Bytes
    <3>. QED  BY <3>1 DEF Pair
  <2>6. Pending(st) \o CPieceOf(c, a)
          = ClearStep(st, c).put \o Pending(ClearStep(st, c).st)
    BY <2>2, <2>3, <2>4, <2>5, Zenon
  <2>7. ClearStep(st, c).st = 1 <=> c = CR
    BY <1>0, <1>6, <2>2
  <2>. QED  BY <2>6, <2>7 DEF ClearPuts
<1>7. CASE st = 2 /\ c = CR
  <2>1. ClearStep(st, c) = [put |-> <<CR, LF>>, st |-> 1]
    BY <1>0, <1>7 DEF ClearStep
  <2>2. ClearStep(st, c).put = <<CR, LF>> /\ ClearStep(st, c).st = 1
    BY <2>1
  <2>3. Pending(st) = <<CR, LF>> /\ Pending(1) = <<CR>>
    BY <1>7 DEF Pending
  <2>4. CPieceOf(c, a) = <<CR>>
    BY <1>0, <1>7 DEF CPieceOf
  <2>5. <<CR, LF>> \o <<CR>> = <<CR, LF>> \o <<CR>>
    BY DEF CR, LF, X
  <2>6. Pending(st) \o CPieceOf(c, a)
          = ClearStep(st, c).put \o Pending(ClearStep(st, c).st)
    BY <2>2, <2>3, <2>4, <2>5, Zenon
  <2>7. ClearStep(st, c).st = 1 <=> c = CR
    BY <1>0, <1>7, <2>2
  <2>. QED  BY <2>6, <2>7 DEF ClearPuts
<1>8. CASE st = 2 /\ c = LF
  <2>1. ClearStep(st, c) = [put |-> <<CR, LF>>, st |-> 2]
    BY <1>0, <1>8 DEF ClearStep
  <2>2. ClearStep(st, c).put = <<CR, LF>> /\ ClearStep(st, c).st = 2
    BY <2>1
  <2>3. Pending(st) = <<CR, LF>> /\ Pending(2) = <<CR, LF>>
    BY <1>8 DEF Pending
  <2>4. CPieceOf(c, a) = <<CR, LF>>
    BY <1>0, <1>8 DEF CPieceOf
  <2>5. <<CR, LF>> \o <<CR, LF>> = <<CR, LF>> \o <<CR, LF>>
    BY DEF CR, LF, X
  <2>6. Pending(st) \o CPieceOf(c, a)
          = ClearStep(st, c).put \o Pending(ClearStep(st, c).st)
    BY <2>2, <2>3, <2>4, <2>5, Zenon
  <2>7. ClearStep(st, c).st = 1 <=> c = CR
    BY <1>0, <1>8, <2>2
  <2>. QED  BY <2>6, <2>7 DEF ClearPuts
<1>9. CASE st = 2 /\ c = X
  <2>1. ClearStep(st, c) = [put |-> <<CR, LF, X>>, st |-> 0]
    BY <1>0, <1>9 DEF ClearStep
  <2>2. ClearStep(st, c).put = <<CR, LF, X>> /\ ClearStep(st, c).st = 0
    BY <2>1
  <2>3. Pending(st) = <<CR, LF>> /\ Pending(0) = <<>>
    BY <1>9 DEF Pending
  <2>4. CPieceOf(c, a) = <<X>>
    BY <1>0, <1>9 DEF CPieceOf
  <2>5. <<CR, LF>> \o <<X>> = <<CR, LF, X>> \o <<>>
    <3>1. Triple(CR, LF, X)
      BY CatTriple DEF Bytes
    <3>. QED  BY <3>1 DEF Triple
  <2>6. Pending(st) \o CPieceOf(c, a)
          = ClearStep(st, c).put \o Pending(ClearStep(st, c).st)
    BY <2>2, <2>3, <2>4, <2>5, Zenon
  <2>7. ClearStep(st, c).st = 1 <=> c = CR
    BY <1>0, <1>9, <2>2
  <2>. QED  BY <2>6, <2>7 DEF ClearPuts
<1>. QED  BY <1>1, <1>2, <1>3, <1>4, <1>5, <1>6, <1>7, <1>8, <1>9 DEF Bytes

\* Concatenation of byte sequences is associative.
Assoc3(r, s, t) == (r \o s) \o t = r \o (s \o t)

LEMMA SeqAssoc ==
  ASSUME NEW r \in Seq(Bytes), NEW s \in Seq(Bytes), NEW t \in Seq(Bytes)
  PROVE  Assoc3(r, s, t)
BY ConcatAssociative DEF Assoc3

LEMMA PendingType ==
  ASSUME NEW st \in 0..2
  PROVE  Pending(st) \in Seq(Bytes)
<1>1. <<>> \in Seq(Bytes) /\ <<CR>> \in Seq(Bytes) /\ <<CR, LF>> \in Seq(Bytes)
  BY DEF Bytes
<1>. QED  BY <1>1 DEF Pending

\* A byte of the clearsig loop (lines 328-353) that is written without
\* error and hashed keeps ClearInv: the state machine puts and holds back
\* exactly the byte's piece of Canon.
LEMMA ClearByteInv == IInv /\ ClearInv /\ ClearByte => ClearInv'
<1> SUFFICES ASSUME IInv, ClearInv, ClearByte, clearsig', md', err' = "none"
             PROVE  /\ hashed' \o Pending(state')
                         = Canon(SubSeq(pt'.data, 1, pos'))
                    /\ state' = 1 <=> pos' > 0 /\ pt'.data[pos'] = CR
  BY DEF ClearInv
<1>0. StateOK
  BY StateFacts
<1>. DEFINE u == pt.data
            c == u[pos + 1]
            r == ClearStep(state, c)
            a == pos > 0 /\ u[pos] = CR
<1>1. /\ ClearLoop /\ pos < Len(u) /\ pos' = pos + 1
      /\ pt' = pt /\ md' = md /\ clearsig' = clearsig
  BY Zenon DEF ClearByte
<1>2. PICK w \in Emit(<<c>>) :
        /\ Wrote(w)
        /\ IF w.err = "none" /\ md
             THEN hashed' = hashed \o r.put /\ state' = r.st
             ELSE UNCHANGED <<hashed, state>>
  BY DEF ClearByte
<1>3. w.err = "none" /\ md /\ clearsig
  BY <1>1, <1>2, Zenon DEF Wrote
<1>4. hashed' = hashed \o r.put /\ state' = r.st
  BY <1>2, <1>3
<1>5. err = "none"
  BY <1>1 DEF IInv, DoneInv, ClearLoop
<1>6. hashed \o Pending(state) = Canon(SubSeq(u, 1, pos)) /\ (state = 1 <=> a)
  BY <1>3, <1>5 DEF ClearInv
<1>7. c \in Bytes /\ u \in Seq(Bytes) /\ pos \in Nat /\ state \in 0..2
      /\ hashed \in Seq(Bytes) /\ a \in BOOLEAN
  BY <1>0, <1>1 DEF StateOK
<1>8. ClearPuts(state, c, a)
  BY <1>6, <1>7, ClearStepPuts
<1>9. Canon(SubSeq(u, 1, pos + 1)) = Canon(SubSeq(u, 1, pos)) \o CPieceOf(c, a)
  BY <1>1, <1>7, CanonStep
<1>10. /\ r.put \in Seq(Bytes) /\ r.st \in 0..2
       /\ Pending(r.st) \in Seq(Bytes) /\ Pending(state) \in Seq(Bytes)
       /\ CPieceOf(c, a) \in Seq(Bytes)
  BY <1>7, ClearStepType, PendingType, CPieceOfType
<1>11. Assoc3(hashed, r.put, Pending(r.st))
       /\ Assoc3(hashed, Pending(state), CPieceOf(c, a))
  BY <1>7, <1>10, SeqAssoc
<1>. HIDE DEF u, c, r, a
<1>12. hashed' \o Pending(state') = Canon(SubSeq(pt'.data, 1, pos'))
  <2>1. hashed' \o Pending(state') = (hashed \o r.put) \o Pending(r.st)
    BY <1>4
  <2>2. @ = hashed \o (Pending(state) \o CPieceOf(c, a))
    BY <1>8, <1>11 DEF ClearPuts, Assoc3, r
  <2>3. @ = Canon(SubSeq(u, 1, pos)) \o CPieceOf(c, a)
    BY <1>6, <1>11 DEF Assoc3
  <2>4. Canon(SubSeq(pt'.data, 1, pos')) = Canon(SubSeq(u, 1, pos + 1))
    BY <1>1 DEF u
  <2>. QED  BY <2>1, <2>2, <2>3, <2>4, <1>9
<1>13. state' = 1 <=> pos' > 0 /\ pt'.data[pos'] = CR
  <2>1. state' = 1 <=> c = CR
    BY <1>4, <1>8 DEF ClearPuts, r
  <2>2. pos' > 0 /\ pt'.data[pos'] = c
    <3>1. pt'.data = u /\ pos' = pos + 1 /\ pos + 1 > 0
      BY <1>1, <1>7 DEF u
    <3>. QED  BY <3>1 DEF c
  <2>. QED  BY <2>1, <2>2
<1>. QED  BY <1>12, <1>13

\* A call starts the digest and the state machine afresh (state = 0 at
\* line 310), with nothing of the packet read yet.
LEMMA ClearCallInv == Call => ClearInv'
<1> SUFFICES ASSUME Call PROVE ClearInv'
  OBVIOUS
<1>1. pos' = 0 /\ state' = 0 /\ hashed' = <<>>
  BY DEF Call
<1>2. SubSeq(pt'.data, 1, 0) = <<>>
  OBVIOUS
<1>3. <<>> \o Pending(0) = <<>>
  BY DEF Pending
<1>4. hashed' \o Pending(state') = Canon(SubSeq(pt'.data, 1, pos'))
  BY <1>1, <1>2, <1>3, CanonEmpty
<1>5. ~(state' = 1) /\ ~(pos' > 0)
  BY <1>1
<1>. QED  BY <1>4, <1>5 DEF ClearInv

\* A step that leaves the packet, the position, the digest input and the
\* state machine alone keeps ClearInv, unless it clears an error.
LEMMA ClearFrame ==
  ASSUME ClearInv, hashed' = hashed, state' = state, pt' = pt, pos' = pos,
         md' = md, clearsig' = clearsig,
         clearsig /\ md /\ err' = "none" => err = "none"
  PROVE  ClearInv'
BY DEF ClearInv

\* The loops of text and binary packets run only without clearsig, which
\* they keep: ClearInv says nothing there.
LEMMA ClearOff ==
  ASSUME ~clearsig'
  PROVE  ClearInv'
BY DEF ClearInv

LEMMA ClearInitInv == Init => ClearInv
BY DEF Init, ClearInv

LEMMA ClearStepInv == IInv /\ ClearInv /\ [Next]_vars => ClearInv'
<1> SUFFICES ASSUME IInv, ClearInv, [Next]_vars PROVE ClearInv'
  OBVIOUS
<1>1. CASE Call
  BY <1>1, ClearCallInv
<1>2. CASE TextByte \/ TextReadFail \/ TextEnd
  <2>1. ~clearsig /\ clearsig' = clearsig
    BY <1>2 DEF TextByte, TextReadFail, TextEnd, TextLoop
  <2>. QED  BY <2>1, ClearOff
<1>3. CASE BinChunk \/ BinReadFail \/ BinEnd \/ BinNoMem \/ BinPartChunk
           \/ BinPartEOF
  <2>1. ~clearsig /\ clearsig' = clearsig
    BY <1>3 DEF BinChunk, BinReadFail, BinEnd, BinNoMem, BinPartChunk,
                BinPartEOF, BinLoop
  <2>. QED  BY <2>1, ClearOff
<1>4. CASE ClearByte
  BY <1>4, ClearByteInv
<1>5. CASE ClearEnd
  <2>1. /\ hashed' = hashed /\ state' = state /\ pt' = pt /\ pos' = pos
        /\ md' = md /\ clearsig' = clearsig /\ err' = err
    BY <1>5, Zenon DEF ClearEnd
  <2>. QED  BY <2>1, ClearFrame
<1>6. CASE Close
  <2>1. /\ hashed' = hashed /\ state' = state /\ pt' = pt /\ pos' = pos
        /\ md' = md /\ clearsig' = clearsig /\ pc = "close"
    BY <1>6, Zenon DEF Close
  <2>2. err = "none"
    BY <2>1 DEF IInv, DoneInv
  <2>. QED  BY <2>1, <2>2, ClearFrame
<1>7. CASE UNCHANGED vars
  <2>1. /\ hashed' = hashed /\ state' = state /\ pt' = pt /\ pos' = pos
        /\ md' = md /\ clearsig' = clearsig /\ err' = err
    BY <1>7, Zenon DEF vars
  <2>. QED  BY <2>1, ClearFrame
<1>. QED  BY <1>1, <1>2, <1>3, <1>4, <1>5, <1>6, <1>7 DEF Next

\* The clear-signed text is hashed as canonical text with only its last
\* line ending held back (plaintext.cpp lines 310-353, "don't hash the last
\* CR,LF"): in every reachable state, for every packet length, max_output
\* and number of calls, the bytes put into the digest followed by what the
\* state machine holds back are Canon of the text read so far.
THEOREM ClearsigHashCanonicalThm == Spec => []ClearsigHashCanonical
<1>1. Init => IInv /\ ClearInv
  BY IInvInit, ClearInitInv
<1>2. IInv /\ ClearInv /\ [Next]_vars => (IInv /\ ClearInv)'
  BY IInvStep, ClearStepInv
<1>3. IInv /\ ClearInv => ClearsigHashCanonical
  BY DEF ClearInv, ClearsigHashCanonical
<1>. QED  BY <1>1, <1>2, <1>3, PTL DEF Spec

=============================================================================
