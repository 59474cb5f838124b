---------------------------- MODULE DetachedHashProofs ----------------------------
(***************************************************************************)
(* Proofs about do_hash and its callers (DetachedHash), for every bound on *)
(* the file length, the number of files and the prompt answers: MD holds   *)
(* exactly the files handed to do_hash, whole and in order, and with the   *)
(* pgp2 workaround MD2 holds their PGP 2 canonical form up to the one LF   *)
(* it still owes after a CR.                                               *)
(*                                                                         *)
(* Canon2 and Concat are recursive functions.  What the provers can use of *)
(* such a definition is the CHOOSE it stands for; the lemmas below show,   *)
(* by a least counterexample (WFMin), that a function meeting the          *)
(* recursion exists, that two of them agree on a common prefix of their    *)
(* inputs, and so how Canon2 and Concat extend by one more element.        *)
(***************************************************************************)
EXTENDS DetachedHash, ConcatFixpoint, SequenceTheorems

\* The LF the workaround still owes MD2 after the byte l.
Owed(l) == IF l = CR THEN <<LF>> ELSE <<>>

\* The files opened before the last one.
Prior(o) == SubSeq(o, 1, Len(o) - 1)

\* Inside do_hash: MD is the files opened before the current one followed
\* by the bytes read from it, lc is the byte read last, and MD2 followed
\* by the owed LF is what it held at the start followed by the canonical
\* form of what was read.
HashInv(m, m2, m2b, o, c, p, l, on) ==
  /\ o # <<>> /\ c = o[Len(o)]
  /\ m = Concat(Prior(o)) \o SubSeq(c, 1, p)
  /\ p = 0 <=> l = "none"
  /\ p > 0 => l = c[p]
  /\ on => m2 \o Owed(l) = m2b \o Canon2(SubSeq(c, 1, p))

\* The inductive invariant.  Between files MD is the concatenation of the
\* files opened so far; inside do_hash HashInv holds.  hash_datafiles
\* opens the files of its list in order and returns 0 only after the last
\* one; the prompt loop stops before the bound on answers; nothing is
\* returned before the end.
IInv ==
  /\ TypeOK
  /\ md2Base \in Seq(Bytes)
  /\ pc = "start" => asks = 0
  /\ pc = "ask" => entry = "ask" /\ asks < MaxAsks
  /\ pc # "done" => rc = "none"
  /\ pc # "hash" => md = Concat(opened)
  /\ pc = "hash" => HashInv(md, md2, md2Base, opened, cur, pos, lc, md2On)
  /\ entry = "files" /\ rc \in {"none", "ok"} => Len(opened) = idx
  /\ entry = "files" /\ pc = "done" /\ rc = "ok" => idx = nfiles

\* Concat is the concatenation of the files.
LEMMA ConcatSolves ==
  ASSUME NEW fs \in Seq(Seq(Bytes))
  PROVE  \E F : /\ SolvesCat(fs, F, Len(fs)) /\ Concat(fs) = F[Len(fs)]
               /\ Concat(fs) \in Seq(Bytes)
<1>. DEFINE L == Len(fs)
<1>1. PICK g \in [0..L -> Seq(Bytes)] : SolvesCat(fs, g, L)
  BY CatExists
<1>2. \A i \in 1..L : i \in 0..L /\ i # 0
  OBVIOUS
<1>3. g = [i \in 0..L |-> IF i = 0 THEN <<>> ELSE g[i - 1] \o fs[i]]
  <2>1. \A i \in 0..L : g[i] = IF i = 0 THEN <<>> ELSE g[i - 1] \o fs[i]
    <3>1. \A i \in 0..L : i = 0 \/ i \in 1..L
      OBVIOUS
    <3>. QED  BY <1>1, <3>1, Zenon DEF SolvesCat
  <2>. QED  BY <1>1, <2>1, Zenon
<1>. DEFINE F == CHOOSE f : f = [i \in 0..L |-> IF i = 0 THEN <<>> ELSE f[i - 1] \o fs[i]]
<1>4. F = [i \in 0..L |-> IF i = 0 THEN <<>> ELSE F[i - 1] \o fs[i]]
  BY <1>3, Zenon
<1>5. SolvesCat(fs, F, L)
  <2>1. 0 \in 0..L
    OBVIOUS
  <2>. QED  BY <1>2, <1>4, <2>1, Zenon DEF SolvesCat
<1>6. Concat(fs) = F[L]
  BY DEF Concat
<1>7. Concat(fs) \in Seq(Bytes)
  <2>1. \A i \in 0..L : F[i] = g[i]
    BY <1>1, <1>5, CatAgree
  <2>2. L \in 0..L
    OBVIOUS
  <2>. QED  BY <1>1, <1>6, <2>1, <2>2
<1>. QED  BY <1>5, <1>6, <1>7

\* A file's bytes are a sequence of bytes.
LEMMA ContentsSeq == Contents \subseteq Seq(Bytes)
BY DEF Contents

\* Nothing is hashed before the first file.
LEMMA ConcatEmpty == Concat(<<>>) = <<>>
<1>1. PICK F : SolvesCat(<<>>, F, 0) /\ Concat(<<>>) = F[0]
  <2>1. <<>> \in Seq(Seq(Bytes)) /\ Len(<<>>) = 0
    OBVIOUS
  <2>. QED  BY <2>1, ConcatSolves
<1>. QED  BY <1>1 DEF SolvesCat

\* Hashing one more file appends its bytes.
LEMMA ConcatAppend ==
  ASSUME NEW fs \in Seq(Seq(Bytes)), NEW d \in Seq(Bytes)
  PROVE  Concat(Append(fs, d)) = Concat(fs) \o d
<1>. DEFINE n == Len(fs)  m == Len(Append(fs, d))  Q == Append(fs, d)
<1>1. Q \in Seq(Seq(Bytes)) /\ n \in Nat /\ m \in Nat /\ m = n + 1 /\ Q[m] = d
  OBVIOUS
<1>2. \A i \in 1..n : fs[i] = Q[i]
  OBVIOUS
<1>3. PICK F : SolvesCat(fs, F, n) /\ Concat(fs) = F[n]
  BY ConcatSolves
<1>4. PICK G : SolvesCat(Q, G, m) /\ Concat(Q) = G[m]
  BY <1>1, ConcatSolves
<1>. HIDE DEF n, m, Q
<1>5. CatNext(G, m, F, n, Q[m])
  BY <1>1, <1>2, <1>3, <1>4, CatStep
<1>6. G[m] = F[n] \o Q[m]
  BY <1>5 DEF CatNext
<1>7. Concat(Q) = Concat(fs) \o Q[m]
  BY <1>3, <1>4, <1>6, Zenon
<1>. QED  BY <1>1, <1>7, Zenon DEF n, m, Q
\* The piece Canon2 appends for the i-th byte of s, as written in Canon2.
Piece2(s, i) ==
  CASE s[i] = CR -> <<CR, LF>>
    [] s[i] = LF /\ i > 1 /\ s[i - 1] = CR -> <<>>
    [] s[i] = LF /\ ~(i > 1 /\ s[i - 1] = CR) -> <<CR, LF>>
    [] OTHER -> <<s[i]>>

Pieces2(s) == [i \in 1..Len(s) |-> Piece2(s, i)]

\* The same piece, from the byte c and whether a CR came before it.
PieceOf(c, afterCR) ==
  IF c = CR THEN <<CR, LF>>
  ELSE IF c = LF THEN (IF afterCR THEN <<>> ELSE <<CR, LF>>)
  ELSE <<c>>

LEMMA Piece2Val ==
  ASSUME NEW s \in Seq(Bytes), NEW i \in 1..Len(s)
  PROVE  Piece2(s, i) = PieceOf(s[i], i > 1 /\ s[i - 1] = CR)
<1>1. s[i] \in Bytes
  OBVIOUS
<1>2. CASE s[i] = CR
  BY <1>2 DEF Piece2, PieceOf, CR, LF
<1>3. CASE s[i] = LF /\ i > 1 /\ s[i - 1] = CR
  BY <1>3 DEF Piece2, PieceOf, CR, LF
<1>4. CASE s[i] = LF /\ ~(i > 1 /\ s[i - 1] = CR)
  BY <1>4 DEF Piece2, PieceOf, CR, LF
<1>5. CASE s[i] = X
  BY <1>5 DEF Piece2, PieceOf, CR, LF, X
<1>. QED  BY <1>1, <1>2, <1>3, <1>4, <1>5 DEF Bytes

LEMMA PieceOfType ==
  ASSUME NEW c \in Bytes, NEW b
  PROVE  PieceOf(c, b) \in Seq(Bytes)
<1>1. <<CR, LF>> \in Seq(Bytes) /\ <<>> \in Seq(Bytes) /\ <<c>> \in Seq(Bytes)
  BY DEF Bytes
<1>. QED  BY <1>1 DEF PieceOf

LEMMA Pieces2Type ==
  ASSUME NEW s \in Seq(Bytes)
  PROVE  Pieces2(s) \in Seq(Seq(Bytes))
<1>1. ASSUME NEW i \in 1..Len(s) PROVE Piece2(s, i) \in Seq(Bytes)
  <2>1. Piece2(s, i) = PieceOf(s[i], i > 1 /\ s[i - 1] = CR)
    BY Piece2Val
  <2>2. PieceOf(s[i], i > 1 /\ s[i - 1] = CR) \in Seq(Bytes)
    BY PieceOfType
  <2>. QED  BY <2>1, <2>2
<1>. QED  BY <1>1 DEF Pieces2
\* Canon2 is the concatenation of its pieces.
LEMMA Canon2Solves ==
  ASSUME NEW s \in Seq(Bytes)
  PROVE  \E F : /\ SolvesCat(Pieces2(s), F, Len(s)) /\ Canon2(s) = F[Len(s)]
               /\ Canon2(s) \in Seq(Bytes)
<1>. DEFINE L == Len(s)  P == Pieces2(s)
<1>0. P \in Seq(Seq(Bytes)) /\ Len(P) = L
  BY Pieces2Type DEF Pieces2
<1>1. PICK g \in [0..L -> Seq(Bytes)] : SolvesCat(P, g, L)
  <2>. HIDE DEF P
  <2>. QED  BY <1>0, CatExists
<1>2. \A i \in 1..L : i \in 0..L /\ i # 0 /\ P[i] = Piece2(s, i)
  BY DEF Pieces2
<1>3. g = [i \in 0..L |-> IF i = 0 THEN <<>> ELSE g[i - 1] \o Piece2(s, i)]
  <2>1. \A i \in 0..L : g[i] = IF i = 0 THEN <<>> ELSE g[i - 1] \o Piece2(s, i)
    <3>1. \A i \in 0..L : i = 0 \/ i \in 1..L
      OBVIOUS
    <3>. QED  BY <1>1, <1>2, <3>1, Zenon DEF SolvesCat
  <2>. QED  BY <1>1, <2>1, Zenon
<1>. DEFINE F == CHOOSE f : f = [i \in 0..L |-> IF i = 0 THEN <<>> ELSE f[i - 1] \o Piece2(s, i)]
<1>4. F = [i \in 0..L |-> IF i = 0 THEN <<>> ELSE F[i - 1] \o Piece2(s, i)]
  BY <1>3, Zenon
<1>5. SolvesCat(P, F, L)
  <2>1. 0 \in 0..L
    OBVIOUS
  <2>. QED  BY <1>2, <1>4, <2>1, Zenon DEF SolvesCat
<1>6. Canon2(s) = F[L]
  BY DEF Canon2, Piece2
<1>7. Canon2(s) \in Seq(Bytes)
  <2>1. \A i \in 0..L : F[i] = g[i]
    <3>1. L \in Nat
      OBVIOUS
    <3>. HIDE DEF P, F, L
    <3>2. CatEq(F, g, L)
      BY <1>1, <1>5, <3>1, CatAgreeEq
    <3>. QED  BY <3>2 DEF CatEq
  <2>2. L \in 0..L
    OBVIOUS
  <2>. QED  BY <1>1, <1>6, <2>1, <2>2
<1>. QED  BY <1>5, <1>6, <1>7

\* The piece of the i-th byte of a prefix of cur is that of cur.
LEMMA Piece2Prefix ==
  ASSUME NEW u \in Seq(Bytes), NEW k \in 0..Len(u), NEW i \in 1..k
  PROVE  Pieces2(SubSeq(u, 1, k))[i] = PieceOf(u[i], i > 1 /\ u[i - 1] = CR)
<1>. DEFINE s == SubSeq(u, 1, k)
<1>1. s \in Seq(Bytes) /\ Len(s) = k /\ s[i] = u[i]
  OBVIOUS
<1>2. (i > 1 /\ s[i - 1] = CR) <=> (i > 1 /\ u[i - 1] = CR)
  OBVIOUS
<1>3. Pieces2(s)[i] = Piece2(s, i)
  BY <1>1 DEF Pieces2
<1>4. Piece2(s, i) = PieceOf(s[i], i > 1 /\ s[i - 1] = CR)
  BY <1>1, Piece2Val
<1>. QED  BY <1>1, <1>2, <1>3, <1>4 DEF PieceOf

\* Canon2 of one more byte of u appends that byte's piece.
LEMMA Canon2Step ==
  ASSUME NEW u \in Seq(Bytes), NEW p \in Nat, p < Len(u)
  PROVE  Canon2(SubSeq(u, 1, p + 1))
           = Canon2(SubSeq(u, 1, p)) \o PieceOf(u[p + 1], p > 0 /\ u[p] = CR)
<1>. DEFINE s == SubSeq(u, 1, p)  t == SubSeq(u, 1, p + 1)  m == p + 1
            P == Pieces2(s)  Q == Pieces2(t)
<1>1. s \in Seq(Bytes) /\ t \in Seq(Bytes) /\ Len(s) = p /\ Len(t) = m
      /\ m \in Nat /\ m = p + 1 /\ p \in 0..Len(u) /\ m \in 0..Len(u) /\ m \in 1..m
  OBVIOUS
<1>2. \A i \in 1..p : P[i] = Q[i]
  <2>1. ASSUME NEW i \in 1..p PROVE P[i] = Q[i]
    <3>1. i \in 1..m
      OBVIOUS
    <3>. QED  BY <1>1, <3>1, Piece2Prefix
  <2>. QED  BY <2>1
<1>3. Q[m] = PieceOf(u[p + 1], p > 0 /\ u[p] = CR)
  <2>1. Q[m] = PieceOf(u[m], m > 1 /\ u[m - 1] = CR)
    BY <1>1, Piece2Prefix
  <2>2. u[m] = u[p + 1] /\ (m > 1 <=> p > 0) /\ m - 1 = p
    OBVIOUS
  <2>. QED  BY <2>1, <2>2
<1>4. PICK F : SolvesCat(P, F, p) /\ Canon2(s) = F[p]
  BY <1>1, Canon2Solves
<1>5. PICK G : SolvesCat(Q, G, m) /\ Canon2(t) = G[m]
  BY <1>1, Canon2Solves
<1>. HIDE DEF s, t, m, P, Q
<1>6. CatNext(G, m, F, p, Q[m])
  BY <1>1, <1>2, <1>4, <1>5, CatStep
<1>7. G[m] = F[p] \o Q[m]
  BY <1>6 DEF CatNext
<1>8. Canon2(t) = Canon2(s) \o Q[m]
  BY <1>4, <1>5, <1>7, Zenon
<1>. QED  BY <1>3, <1>8, Zenon DEF s, t, m
\* One byte of the pgp2 workaround: what goes into MD2 for byte c after
\* byte l, followed by the LF owed after c, is the LF owed after l
\* followed by c's piece of the canonical form.
LEMMA Md2PutStep ==
  ASSUME NEW l \in Bytes \cup {"none"}, NEW c \in Bytes
  PROVE  Md2Put(l, c) \o Owed(c) = Owed(l) \o PieceOf(c, l = CR)
<1>1. CASE c = LF /\ l = CR
  BY <1>1 DEF Md2Put, Owed, PieceOf, CR, LF
<1>2. CASE c = LF /\ l # CR
  BY <1>2 DEF Md2Put, Owed, PieceOf, CR, LF
<1>3. CASE c = CR /\ l = CR
  BY <1>3 DEF Md2Put, Owed, PieceOf, CR, LF
<1>4. CASE c = X /\ l = CR
  BY <1>4 DEF Md2Put, Owed, PieceOf, CR, LF, X
<1>5. CASE c = CR /\ l # CR
  BY <1>5 DEF Md2Put, Owed, PieceOf, CR, LF
<1>6. CASE c = X /\ l # CR
  BY <1>6 DEF Md2Put, Owed, PieceOf, CR, LF, X
<1>. QED  BY <1>1, <1>2, <1>3, <1>4, <1>5, <1>6 DEF Bytes

\* Concatenation of byte sequences is associative.
Assoc(r, s, t) == (r \o s) \o t = r \o (s \o t)

LEMMA BytesAssoc ==
  ASSUME NEW r \in Seq(Bytes), NEW s \in Seq(Bytes), NEW t \in Seq(Bytes)
  PROVE  Assoc(r, s, t)
BY ConcatAssociative DEF Assoc

LEMMA Md2PutType ==
  ASSUME NEW l \in Bytes \cup {"none"}, NEW c \in Bytes
  PROVE  Md2Put(l, c) \in Seq(Bytes)
<1>1. <<c>> \in Seq(Bytes) /\ <<CR, c>> \in Seq(Bytes) /\ <<LF, c>> \in Seq(Bytes)
  BY DEF Bytes
<1>. QED  BY <1>1 DEF Md2Put

LEMMA OwedType ==
  ASSUME NEW l
  PROVE  Owed(l) \in Seq(Bytes)
<1>1. <<LF>> \in Seq(Bytes) /\ <<>> \in Seq(Bytes)
  BY DEF Bytes
<1>. QED  BY <1>1 DEF Owed

\* The canonical form of nothing is empty.
LEMMA Canon2Empty == Canon2(<<>>) = <<>>
<1>1. PICK F : SolvesCat(Pieces2(<<>>), F, 0) /\ Canon2(<<>>) = F[0]
  <2>1. <<>> \in Seq(Bytes) /\ Len(<<>>) = 0
    OBVIOUS
  <2>. QED  BY <2>1, Canon2Solves
<1>. QED  BY <1>1 DEF SolvesCat

\* The files before the one just opened are the files opened before.
LEMMA PriorAppend ==
  ASSUME NEW T, NEW o \in Seq(T), NEW d
  PROVE  Prior(Append(o, d)) = o
BY DEF Prior

\* Once the last file is hashed, MD holds all the files.
LEMMA ConcatLast ==
  ASSUME NEW o \in Seq(Seq(Bytes)), o # <<>>
  PROVE  Concat(o) = Concat(Prior(o)) \o o[Len(o)]
<1>1. Prior(o) \in Seq(Seq(Bytes)) /\ o[Len(o)] \in Seq(Bytes)
  BY DEF Prior
<1>2. o = Append(Prior(o), o[Len(o)])
  BY DEF Prior
<1>. QED  BY <1>1, <1>2, ConcatAppend
\* do_hash starting on the opened file d.
LEMMA HashStart ==
  ASSUME NEW o \in Seq(Contents), NEW d \in Contents, NEW m, m = Concat(o),
         NEW m2 \in Seq(Bytes), NEW on
  PROVE  HashInv(m, m2, m2, Append(o, d), d, 0, "none", on)
<1>1. d \in Seq(Bytes)
  BY ContentsSeq
<1>2. Prior(Append(o, d)) = o
  BY PriorAppend
<1>3. Append(o, d) # <<>> /\ Append(o, d)[Len(Append(o, d))] = d
  OBVIOUS
<1>4. SubSeq(d, 1, 0) = <<>>
  OBVIOUS
<1>5. Concat(o) \in Seq(Bytes)
  <2>1. o \in Seq(Seq(Bytes))
    BY ContentsSeq
  <2>. QED  BY <2>1, ConcatSolves
<1>6. m2 \o Owed("none") = m2 \o Canon2(SubSeq(d, 1, 0))
  BY <1>4, Canon2Empty DEF Owed, CR
<1>. QED  BY <1>2, <1>3, <1>4, <1>5, <1>6 DEF HashInv

\* do_hash at the end of the file: MD holds every file opened.
LEMMA HashEnd ==
  ASSUME NEW o \in Seq(Contents), NEW m, NEW m2, NEW m2b, NEW c, NEW l, NEW on,
         HashInv(m, m2, m2b, o, c, Len(c), l, on)
  PROVE  m = Concat(o)
<1>1. o \in Seq(Seq(Bytes)) /\ o # <<>> /\ c = o[Len(o)]
  BY ContentsSeq DEF HashInv
<1>2. c \in Seq(Bytes)
  BY <1>1
<1>3. SubSeq(c, 1, Len(c)) = c
  BY <1>2, SubSeqFull
<1>4. m = Concat(Prior(o)) \o c
  BY <1>3 DEF HashInv
<1>. QED  BY <1>1, <1>4, ConcatLast
\* do_hash reading one more byte.
LEMMA HashByteStep ==
  ASSUME NEW o \in Seq(Contents), NEW c \in Seq(Bytes), NEW p \in Nat, p < Len(c),
         NEW m \in Seq(Bytes), NEW m2 \in Seq(Bytes), NEW m2b \in Seq(Bytes),
         NEW l \in Bytes \cup {"none"}, NEW on \in BOOLEAN,
         HashInv(m, m2, m2b, o, c, p, l, on)
  PROVE  HashInv(Append(m, c[p + 1]), IF on THEN m2 \o Md2Put(l, c[p + 1]) ELSE m2,
                 m2b, o, c, p + 1, c[p + 1], on)
<1>. DEFINE b == c[p + 1]  A == Concat(Prior(o))  s == SubSeq(c, 1, p)
            t == SubSeq(c, 1, p + 1)
<1>1. b \in Bytes /\ s \in Seq(Bytes) /\ t \in Seq(Bytes)
  OBVIOUS
<1>2. A \in Seq(Bytes)
  <2>1. Prior(o) \in Seq(Seq(Bytes))
    BY ContentsSeq DEF Prior
  <2>. QED  BY <2>1, ConcatSolves
<1>3. t = s \o <<b>>
  BY SubSeqRecursiveSecond
<1>4. Append(m, b) = A \o t
  <2>1. m = A \o s
    BY DEF HashInv
  <2>2. Append(m, b) = m \o <<b>>
    BY <1>1, AppendIsConcat
  <2>3. (A \o s) \o <<b>> = A \o (s \o <<b>>)
    <3>1. <<b>> \in Seq(Bytes)
      BY <1>1
    <3>2. Assoc(A, s, <<b>>)
      BY <1>1, <1>2, <3>1, BytesAssoc
    <3>. QED  BY <3>2 DEF Assoc
  <2>. QED  BY <1>3, <2>1, <2>2, <2>3
<1>5. /\ p + 1 = 0 <=> b = "none"
      /\ p + 1 > 0 => b = c[p + 1]
  BY <1>1 DEF Bytes, CR, LF, X
<1>6. on => (IF on THEN m2 \o Md2Put(l, b) ELSE m2) \o Owed(b)
              = m2b \o Canon2(t)
  <2>. SUFFICES ASSUME on
                PROVE  (m2 \o Md2Put(l, b)) \o Owed(b) = m2b \o Canon2(t)
    OBVIOUS
  <2>. DEFINE M == Md2Put(l, b)  W == Owed(b)  O == Owed(l)
              K == PieceOf(b, p > 0 /\ c[p] = CR)  C == Canon2(s)
  <2>1. M \in Seq(Bytes) /\ W \in Seq(Bytes) /\ O \in Seq(Bytes)
        /\ K \in Seq(Bytes) /\ C \in Seq(Bytes)
    BY <1>1, Md2PutType, OwedType, PieceOfType, Canon2Solves
  <2>2. (l = CR) <=> (p > 0 /\ c[p] = CR)
    BY DEF HashInv, CR
  <2>3. PieceOf(b, l = CR) = K
    BY <2>2 DEF PieceOf
  <2>4. M \o W = O \o K
    BY <1>1, <2>3, Md2PutStep
  <2>5. m2 \o O = m2b \o C
    BY DEF HashInv
  <2>6. Canon2(t) = C \o K
    BY Canon2Step
  <2>. HIDE DEF M, W, O, K, C
  <2>7. Assoc(m2, M, W)
    BY <2>1, BytesAssoc
  <2>8. Assoc(m2, O, K)
    BY <2>1, BytesAssoc
  <2>9. Assoc(m2b, C, K)
    BY <2>1, BytesAssoc
  <2>. QED  BY <2>4, <2>5, <2>6, <2>7, <2>8, <2>9, Zenon DEF Assoc, M, W, O, K, C
<1>. QED  BY <1>4, <1>5, <1>6 DEF HashInv
-----------------------------------------------------------------------------
(* The inductive invariant, one action at a time. *)

LEMMA IInvInit == Init => IInv
<1>. SUFFICES ASSUME Init PROVE IInv
  OBVIOUS
<1>1. <<>> \in Contents
  <2>1. <<>> \in [1..0 -> Bytes] /\ 0 \in 0..MaxFileLen
    BY DetachedAssumption
  <2>. QED  BY <2>1 DEF Contents
<1>2. md = Concat(opened)
  BY ConcatEmpty DEF Init
<1>3. batch \in BOOLEAN /\ md2On \in BOOLEAN /\ any \in BOOLEAN
  BY Zenon DEF Init
<1>4. /\ pc \in {"start", "open", "ask", "hash", "done"}
      /\ entry \in {"sigfile", "files", "fd", "ask"}
      /\ nfiles \in 1..MaxFiles /\ idx \in 0..nfiles /\ asks \in 0..MaxAsks
      /\ cur \in Contents /\ pos \in 0..Len(cur) /\ lc \in Bytes \cup {"none"}
      /\ md \in Seq(Bytes) /\ md2 \in Seq(Bytes) /\ md2Base \in Seq(Bytes)
      /\ opened \in Seq(Contents)
      /\ rc \in {"none", "ok", "nodata", "open", "general"}
  BY <1>1, DetachedAssumption DEF Init, Bytes
<1>. QED  BY <1>2, <1>3, <1>4 DEF Init, IInv, TypeOK

\* Handing an opened file to do_hash from outside it.
LEMMA StartHashInv ==
  ASSUME IInv, pc # "hash", NEW d \in Contents, StartHash(d),
         md' = md, md2' = md2, md2On' = md2On
  PROVE  /\ HashInv(md', md2', md2Base', opened', cur', pos', lc', md2On')
         /\ cur' \in Contents /\ pos' \in 0..Len(cur') /\ lc' \in Bytes \cup {"none"}
         /\ md2Base' \in Seq(Bytes) /\ opened' \in Seq(Contents)
         /\ Len(opened') = Len(opened) + 1
<1>1. opened \in Seq(Contents) /\ md = Concat(opened) /\ md2 \in Seq(Bytes)
  BY DEF IInv, TypeOK
<1>2. HashInv(md, md2, md2, Append(opened, d), d, 0, "none", md2On)
  BY <1>1, HashStart
<1>3. cur' = d /\ pos' = 0 /\ lc' = "none" /\ md2Base' = md2
      /\ opened' = Append(opened, d)
  BY DEF StartHash
<1>4. HashInv(md', md2', md2Base', opened', cur', pos', lc', md2On')
  BY <1>2, <1>3, Zenon
<1>. QED  BY <1>1, <1>3, <1>4

\* An entry point returning r outside do_hash, with the files as they are.
LEMMA ReturnInv ==
  ASSUME IInv, pc \in {"start", "open", "ask"},
         NEW r \in {"ok", "nodata", "open", "general"}, Return(r),
         cur' = cur, pos' = pos, lc' = lc, md2Base' = md2Base, opened' = opened,
         md' = md, md2' = md2, md2On' = md2On, entry' = entry, batch' = batch,
         nfiles' = nfiles, idx' \in 0..nfiles, any' \in BOOLEAN,
         asks' \in 0..MaxAsks,
         entry = "files" /\ r = "ok" => idx' = nfiles /\ Len(opened) = idx'
  PROVE  IInv'
<1>1. rc' = r /\ pc' = "done"
  BY DEF Return
<1>2. batch' \in BOOLEAN /\ md2On' \in BOOLEAN
  BY Zenon DEF IInv, TypeOK
<1>3. TypeOK'
  BY <1>1, <1>2 DEF IInv, TypeOK
<1>4. md' = Concat(opened')
  BY DEF IInv
<1>5. entry' = "files" /\ rc' \in {"none", "ok"} => Len(opened') = idx'
  BY <1>1 DEF IInv
<1>. QED  BY <1>1, <1>3, <1>4, <1>5 DEF IInv

\* do_hash starting on an opened file.
LEMMA StartInv ==
  ASSUME IInv, pc \in {"start", "open", "ask"}, NEW d \in Contents, StartHash(d),
         rc' = rc, md' = md, md2' = md2, md2On' = md2On, entry' = entry,
         batch' = batch, nfiles' = nfiles, idx' \in 0..nfiles, any' \in BOOLEAN,
         asks' \in 0..MaxAsks,
         entry = "files" => Len(opened) + 1 = idx'
  PROVE  IInv'
<1>1. pc' = "hash" /\ rc = "none"
  BY DEF StartHash, IInv
<1>2. /\ HashInv(md', md2', md2Base', opened', cur', pos', lc', md2On')
      /\ cur' \in Contents /\ pos' \in 0..Len(cur') /\ lc' \in Bytes \cup {"none"}
      /\ md2Base' \in Seq(Bytes) /\ opened' \in Seq(Contents)
      /\ Len(opened') = Len(opened) + 1
  BY StartHashInv
<1>3. batch' \in BOOLEAN /\ md2On' \in BOOLEAN
  BY Zenon DEF IInv, TypeOK
<1>4. TypeOK'
  BY <1>1, <1>2, <1>3 DEF IInv, TypeOK
<1>5. entry' = "files" /\ rc' \in {"none", "ok"} => Len(opened') = idx'
  BY <1>1, <1>2
<1>. QED  BY <1>1, <1>2, <1>4, <1>5 DEF IInv

\* What an action that leaves the digests and the counters alone keeps.
Frame0 ==
  /\ entry' = entry /\ batch' = batch /\ nfiles' = nfiles /\ any' = any
  /\ asks' = asks /\ md2On' = md2On /\ md' = md /\ md2' = md2

\* The files as they are.
FilesKept ==
  cur' = cur /\ pos' = pos /\ lc' = lc /\ md2Base' = md2Base /\ opened' = opened

LEMMA Frame0Types ==
  ASSUME IInv, Frame0
  PROVE  any' \in BOOLEAN /\ asks' \in 0..MaxAsks
<1>1. any' \in BOOLEAN
  BY Zenon DEF IInv, TypeOK, Frame0
<1>. QED  BY <1>1 DEF IInv, TypeOK, Frame0

LEMMA SigfileStartInv == IInv /\ SigfileStart => IInv'
<1>. SUFFICES ASSUME IInv, SigfileStart PROVE IInv'
  OBVIOUS
<1>1. pc = "start" /\ entry = "sigfile" /\ Frame0 /\ idx' = idx
  BY DEF SigfileStart, Frame0
<1>2. any' \in BOOLEAN /\ asks' \in 0..MaxAsks /\ idx' \in 0..nfiles
  BY <1>1, Frame0Types DEF IInv, TypeOK
<1>3. CASE Return("nodata") /\ FilesKept
  BY <1>1, <1>2, <1>3, ReturnInv DEF Frame0, FilesKept
<1>4. CASE \E d \in Contents : StartHash(d) /\ rc' = rc
  BY <1>1, <1>2, <1>4, StartInv DEF Frame0
<1>. QED  BY <1>3, <1>4 DEF SigfileStart, FilesKept

LEMMA FilesStartInv == IInv /\ FilesStart => IInv'
<1>. SUFFICES ASSUME IInv, FilesStart PROVE IInv'
  OBVIOUS
<1>1. pc = "start" /\ pc' = "open" /\ Frame0 /\ FilesKept /\ idx' = idx /\ rc' = rc
  BY DEF FilesStart, Frame0, FilesKept
<1>2. batch' \in BOOLEAN /\ md2On' \in BOOLEAN /\ any' \in BOOLEAN
  BY <1>1, Zenon DEF IInv, TypeOK, Frame0
<1>. QED  BY <1>1, <1>2 DEF IInv, TypeOK, Frame0, FilesKept

LEMMA FdStartInv == IInv /\ FdStart => IInv'
<1>. SUFFICES ASSUME IInv, FdStart PROVE IInv'
  OBVIOUS
<1>1. pc = "start" /\ entry = "fd" /\ Frame0 /\ idx' = idx
  BY DEF FdStart, Frame0
<1>2. any' \in BOOLEAN /\ asks' \in 0..MaxAsks /\ idx' \in 0..nfiles
  BY <1>1, Frame0Types DEF IInv, TypeOK
<1>3. CASE Return("open") /\ FilesKept
  BY <1>1, <1>2, <1>3, ReturnInv DEF Frame0, FilesKept
<1>4. CASE \E d \in Contents : StartHash(d) /\ rc' = rc
  BY <1>1, <1>2, <1>4, StartInv DEF Frame0
<1>. QED  BY <1>3, <1>4 DEF FdStart, FilesKept

LEMMA FilesDoneInv == IInv /\ FilesDone => IInv'
<1>. SUFFICES ASSUME IInv, FilesDone PROVE IInv'
  OBVIOUS
<1>1. pc = "open" /\ idx = nfiles /\ Return("ok") /\ Frame0 /\ FilesKept /\ idx' = idx
  BY DEF FilesDone, Frame0, FilesKept
<1>2. any' \in BOOLEAN /\ asks' \in 0..MaxAsks /\ idx' \in 0..nfiles
  BY <1>1, Frame0Types DEF IInv, TypeOK
<1>3. entry = "files" => Len(opened) = idx
  BY <1>1 DEF IInv
<1>. QED  BY <1>1, <1>2, <1>3, ReturnInv DEF Frame0, FilesKept

LEMMA FilesOpenInv == IInv /\ FilesOpen => IInv'
<1>. SUFFICES ASSUME IInv, FilesOpen PROVE IInv'
  OBVIOUS
<1>1. pc = "open" /\ idx < nfiles /\ idx' = idx + 1 /\ Frame0
  BY DEF FilesOpen, Frame0
<1>2. any' \in BOOLEAN /\ asks' \in 0..MaxAsks /\ idx' \in 0..nfiles
  BY <1>1, Frame0Types DEF IInv, TypeOK
<1>3. entry = "files" => Len(opened) + 1 = idx'
  BY <1>1 DEF IInv
<1>4. CASE Return("open") /\ FilesKept
  BY <1>1, <1>2, <1>4, ReturnInv DEF Frame0, FilesKept
<1>5. CASE \E d \in Contents : StartHash(d) /\ rc' = rc
  BY <1>1, <1>2, <1>3, <1>5, StartInv DEF Frame0
<1>. QED  BY <1>4, <1>5 DEF FilesOpen, FilesKept

LEMMA AskStartInv == IInv /\ AskStart => IInv'
<1>. SUFFICES ASSUME IInv, AskStart PROVE IInv'
  OBVIOUS
<1>1. pc = "start" /\ entry = "ask" /\ Frame0 /\ idx' = idx /\ rc' = rc
  BY DEF AskStart, Frame0
<1>2. any' \in BOOLEAN /\ asks' \in 0..MaxAsks /\ idx' \in 0..nfiles
  BY <1>1, Frame0Types DEF IInv, TypeOK
<1>3. CASE pc' = "ask" /\ FilesKept
  <2>1. batch' \in BOOLEAN /\ md2On' \in BOOLEAN
    BY <1>1, Zenon DEF IInv, TypeOK, Frame0
  <2>2. asks' < MaxAsks
    BY <1>1, DetachedAssumption DEF IInv, Frame0
  <2>. QED  BY <1>1, <1>2, <1>3, <2>1, <2>2 DEF IInv, TypeOK, Frame0, FilesKept
<1>4. CASE \E d \in Contents : StartHash(d)
  BY <1>1, <1>2, <1>4, StartInv DEF Frame0
<1>. QED  BY <1>3, <1>4 DEF AskStart, FilesKept

LEMMA AskNameInv == IInv /\ AskName => IInv'
<1>. SUFFICES ASSUME IInv, AskName PROVE IInv'
  OBVIOUS
<1>1. /\ pc = "ask" /\ asks' = asks + 1 /\ idx' = idx
      /\ entry' = entry /\ batch' = batch /\ nfiles' = nfiles /\ md2On' = md2On
      /\ md' = md /\ md2' = md2
  BY DEF AskName
<1>2. asks' \in 0..MaxAsks /\ idx' \in 0..nfiles /\ entry = "ask"
  <2>1. asks < MaxAsks /\ entry = "ask"
    BY <1>1 DEF IInv
  <2>2. asks \in 0..MaxAsks /\ idx \in 0..nfiles
    BY DEF IInv, TypeOK
  <2>. QED  BY <1>1, <2>1, <2>2, DetachedAssumption
<1>3. PICK empty \in BOOLEAN, o \in Opens, d \in Contents :
        /\ o = "enoent" => asks + 1 < MaxAsks
        /\ CASE any /\ empty ->
                  Return("general") /\ UNCHANGED <<any, cur, pos, lc, md2Base, opened>>
             [] ~(any /\ empty) /\ o = "ok" ->
                  StartHash(d) /\ UNCHANGED <<any, rc>>
             [] ~(any /\ empty) /\ o = "enoent" ->
                  any' = TRUE /\ UNCHANGED <<pc, cur, pos, lc, md2Base, opened, rc>>
             [] OTHER ->
                  Return("open") /\ UNCHANGED <<any, cur, pos, lc, md2Base, opened>>
  BY DEF AskName
<1>4. any \in BOOLEAN
  BY Zenon DEF IInv, TypeOK
<1>5. CASE any /\ empty
  <2>1. Return("general") /\ any' = any /\ FilesKept
    BY <1>3, <1>5 DEF FilesKept
  <2>. QED  BY <1>1, <1>2, <1>4, <2>1, ReturnInv DEF FilesKept
<1>6. CASE ~(any /\ empty) /\ o = "ok"
  <2>1. StartHash(d) /\ any' = any /\ rc' = rc
    BY <1>3, <1>6
  <2>. QED  BY <1>1, <1>2, <1>4, <2>1, StartInv
<1>7. CASE ~(any /\ empty) /\ o = "enoent"
  <2>1. any' = TRUE /\ pc' = pc /\ rc' = rc /\ FilesKept
    BY <1>3, <1>7 DEF FilesKept
  <2>2. asks' < MaxAsks
    BY <1>1, <1>3, <1>7
  <2>3. batch' \in BOOLEAN /\ md2On' \in BOOLEAN /\ any' \in BOOLEAN
    BY <1>1, <2>1, Zenon DEF IInv, TypeOK
  <2>. QED  BY <1>1, <1>2, <2>1, <2>2, <2>3 DEF IInv, TypeOK, FilesKept
<1>8. CASE ~(any /\ empty) /\ o # "ok" /\ o # "enoent"
  <2>1. Return("open") /\ any' = any /\ FilesKept
    BY <1>3, <1>8 DEF FilesKept
  <2>. QED  BY <1>1, <1>2, <1>4, <2>1, ReturnInv DEF FilesKept
<1>. QED  BY <1>5, <1>6, <1>7, <1>8

LEMMA HashByteInv == IInv /\ HashByte => IInv'
<1>. SUFFICES ASSUME IInv, HashByte PROVE IInv'
  OBVIOUS
<1>. DEFINE c == cur[pos + 1]
<1>1. /\ pc = "hash" /\ pos < Len(cur) /\ pos' = pos + 1 /\ lc' = c
      /\ md' = Append(md, c)
      /\ md2' = IF md2On THEN md2 \o Md2Put(lc, c) ELSE md2
      /\ pc' = pc /\ entry' = entry /\ batch' = batch /\ nfiles' = nfiles
      /\ idx' = idx /\ any' = any /\ asks' = asks /\ cur' = cur
      /\ md2On' = md2On /\ md2Base' = md2Base /\ opened' = opened /\ rc' = rc
  BY DEF HashByte
<1>2. /\ opened \in Seq(Contents) /\ cur \in Seq(Bytes) /\ pos \in Nat
      /\ md \in Seq(Bytes) /\ md2 \in Seq(Bytes) /\ md2Base \in Seq(Bytes)
      /\ lc \in Bytes \cup {"none"} /\ c \in Bytes
  BY <1>1, ContentsSeq DEF IInv, TypeOK
<1>3. md2On \in BOOLEAN /\ batch \in BOOLEAN /\ any \in BOOLEAN
  BY Zenon DEF IInv, TypeOK
<1>4. HashInv(md, md2, md2Base, opened, cur, pos, lc, md2On)
  BY <1>1 DEF IInv
<1>5. HashInv(Append(md, c), IF md2On THEN md2 \o Md2Put(lc, c) ELSE md2,
              md2Base, opened, cur, pos + 1, c, md2On)
  BY <1>1, <1>2, <1>3, <1>4, HashByteStep
<1>6. HashInv(md', md2', md2Base', opened', cur', pos', lc', md2On')
  BY <1>1, <1>5, Zenon
<1>7. md2' \in Seq(Bytes)
  <2>1. Md2Put(lc, c) \in Seq(Bytes)
    BY <1>2, Md2PutType
  <2>. QED  BY <1>1, <1>2, <2>1
<1>8. batch' \in BOOLEAN /\ md2On' \in BOOLEAN /\ any' \in BOOLEAN
  BY <1>1, <1>3, Zenon
<1>9. TypeOK'
  BY <1>1, <1>2, <1>7, <1>8 DEF IInv, TypeOK
<1>. QED  BY <1>1, <1>6, <1>9 DEF IInv

LEMMA HashEOFInv == IInv /\ HashEOF => IInv'
<1>. SUFFICES ASSUME IInv, HashEOF PROVE IInv'
  OBVIOUS
<1>1. /\ pc = "hash" /\ pos = Len(cur) /\ Frame0 /\ FilesKept /\ idx' = idx
      /\ IF entry = "files" THEN pc' = "open" /\ rc' = rc ELSE Return("ok")
  BY DEF HashEOF, Frame0, FilesKept
<1>2. md = Concat(opened)
  <2>1. HashInv(md, md2, md2Base, opened, cur, Len(cur), lc, md2On)
    BY <1>1 DEF IInv
  <2>2. opened \in Seq(Contents)
    BY DEF IInv, TypeOK
  <2>. QED  BY <2>1, <2>2, HashEnd
<1>3. batch' \in BOOLEAN /\ md2On' \in BOOLEAN /\ any' \in BOOLEAN
  BY <1>1, Zenon DEF IInv, TypeOK, Frame0
<1>4. rc = "none"
  BY <1>1 DEF IInv
<1>5. CASE entry = "files"
  <2>1. pc' = "open" /\ rc' = rc
    BY <1>1, <1>5
  <2>. QED  BY <1>1, <1>2, <1>3, <1>4, <2>1 DEF IInv, TypeOK, Frame0, FilesKept
<1>6. CASE entry # "files"
  <2>1. pc' = "done" /\ rc' = "ok"
    BY <1>1, <1>6 DEF Return
  <2>. QED  BY <1>1, <1>2, <1>3, <1>6, <2>1 DEF IInv, TypeOK, Frame0, FilesKept
<1>. QED  BY <1>5, <1>6

LEMMA IInvStep == IInv /\ [Next]_vars => IInv'
<1>. SUFFICES ASSUME IInv, [Next]_vars PROVE IInv'
  OBVIOUS
<1>1. CASE Next
  BY <1>1, SigfileStartInv, FilesStartInv, FilesOpenInv, FilesDoneInv, FdStartInv,
     AskStartInv, AskNameInv, HashByteInv, HashEOFInv DEF Next
<1>2. CASE UNCHANGED vars
  <2>1. /\ pc' = pc /\ entry' = entry /\ batch' = batch /\ nfiles' = nfiles
        /\ idx' = idx /\ any' = any /\ asks' = asks /\ cur' = cur /\ pos' = pos
        /\ lc' = lc /\ md2On' = md2On /\ md' = md /\ md2' = md2
        /\ md2Base' = md2Base /\ opened' = opened /\ rc' = rc
    BY <1>2 DEF vars
  <2>2. batch' \in BOOLEAN /\ md2On' \in BOOLEAN /\ any' \in BOOLEAN
    BY <2>1, Zenon DEF IInv, TypeOK
  <2>. QED  BY <2>1, <2>2 DEF IInv, TypeOK
<1>. QED  BY <1>1, <1>2

\* The inductive invariant holds in every reachable state, whatever the
\* bounds on file length, files and prompt answers.
THEOREM IInvariant == Spec => []IInv
BY IInvInit, IInvStep, PTL DEF Spec

\* Every variable of do_hash and its callers keeps its type.
THEOREM TypeCorrect == Spec => []TypeOK
<1>1. IInv => TypeOK
  BY DEF IInv
<1>. QED  BY <1>1, IInvariant, PTL

\* The pgp2 workaround of do_hash (plaintext.cpp lines 391-404): while
\* do_hash reads a file, MD2 followed by the LF still owed after a CR is
\* what MD2 held when do_hash started followed by the CR LF canonical form
\* of the bytes read so far.
THEOREM Md2CanonicalThm == Spec => []Md2Canonical
<1>1. IInv => Md2Canonical
  BY DEF IInv, HashInv, Md2Canonical, Owed
<1>. QED  BY <1>1, IInvariant, PTL

\* hash_datafiles, hash_datafile_by_fd and ask_for_detached_datafile
\* return 0 only with every file handed to do_hash in MD, whole and in
\* order, and, for a list of files, only after all of them.
THEOREM DigestOfAllFilesThm == Spec => []DigestOfAllFiles
<1>1. IInv => DigestOfAllFiles
  BY DEF IInv, DigestOfAllFiles
<1>. QED  BY <1>1, IInvariant, PTL
=============================================================================
