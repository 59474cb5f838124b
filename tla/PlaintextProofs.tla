---------------------------- MODULE PlaintextProofs ----------------------------
(***************************************************************************)
(* Proofs about handle_plaintext (Plaintext), for every --max-output      *)
(* limit, chunk size, packet length and number of calls: the state stays  *)
(* well typed, the output files of all calls together never exceed the    *)
(* limit, and a call that returns without error has consumed its packet.  *)
(***************************************************************************)
EXTENDS Plaintext, TLAPS, SequenceTheorems

USE PlaintextAssumption

\* The packet of the state before the first call.
NoPacket == [mode |-> "b", partial |-> FALSE, len |-> 0, data |-> <<>>]

(***************************************************************************)
(* The inductive invariant.  OutputWithinLimit alone is not inductive: a  *)
(* write is allowed by comparing the static count, not the bytes written, *)
(* with the limit, so the proof needs that count has charged at least     *)
(* every byte written (count is never reset and charges before writing).  *)
(* SuccessConsumedAll needs the loops' bookkeeping: while a loop runs or  *)
(* closes there is no error, a known-length loop has taken pos bytes and  *)
(* has pt->len = rem left of the declared length, a clear-signed loop     *)
(* only runs on a partial packet (a known length was rejected at entry), *)
(* and a loop closes only once its packet is consumed.                    *)
(***************************************************************************)
LimitInv == MaxOutput # 0 => total <= count /\ total <= MaxOutput

DoneInv ==
  /\ pc \in {"loop", "close"} => err = "none"
  /\ pc \in {"loop", "close"} /\ ~pt.partial => pos + rem = pt.len
  /\ pc = "loop" /\ clearsig => pt.partial
  /\ pc = "close" \/ (pc = "idle" /\ calls > 0 /\ err = "none") =>
       /\ pos = Len(pt.data)
       /\ ~pt.partial => rem = 0

IInv == TypeOK /\ LimitInv /\ DoneInv

\* A packet handle_plaintext may be given: its bytes, its declared length
\* and, for a known length, no more data than declared.
LEMMA PacketFacts ==
  ASSUME NEW p \in Packets \cup {NoPacket}
  PROVE  /\ p.data \in Seq(Bytes) /\ Len(p.data) \in 0..MaxLen
         /\ p.len \in 0..MaxLen /\ p.partial \in BOOLEAN
         /\ p.mode \in {"b", "t", "m"}
         /\ ~p.partial => Len(p.data) <= p.len
<1>1. CASE p \in Packets
  <2>1. PICK m \in 0..MaxLen : p.data \in [1..m -> Bytes]
    BY <1>1 DEF Packets, SeqsUpTo
  <2>2. p.data \in Seq(Bytes) /\ Len(p.data) = m
    BY <2>1
  <2>3. /\ p.len \in 0..MaxLen /\ p.partial \in BOOLEAN
        /\ p.mode \in {"b", "t", "m"}
        /\ IF p.partial THEN p.len = 0 ELSE Len(p.data) <= p.len
    BY <1>1 DEF Packets
  <2>. QED  BY <2>1, <2>2, <2>3
<1>2. CASE p = NoPacket
  BY <1>2 DEF NoPacket
<1>. QED  BY <1>1, <1>2

\* What a write (or no write) does to count and the output: it charges at
\* least the bytes it writes, and writes nothing unless count stays within
\* the limit.
WriteOK(w, n) ==
  /\ w.count \in Nat /\ w.out \in 0..n
  /\ w.err \in {"none", "toolarge", "write"}
  /\ MaxOutput # 0 => /\ w.count >= count + w.out
                      /\ w.out = 0 \/ w.count <= MaxOutput

LEMMA EmitFacts ==
  ASSUME count \in Nat, NEW b \in Seq(Bytes), NEW w \in Emit(b) \cup {NoWrite}
  PROVE  WriteOK(w, Len(b))
<1>1. CASE w = NoWrite
  BY <1>1 DEF NoWrite, WriteOK
<1>2. CASE w \in Emit(b) /\ w # NoWrite
  <2>1. fp # "none"
    BY <1>2 DEF Emit
  <2>. DEFINE c2 == IF MaxOutput # 0 THEN count + Len(b) ELSE count
  <2>2. c2 \in Nat /\ c2 >= count /\ (MaxOutput # 0 => c2 = count + Len(b))
    OBVIOUS
  <2>3. CASE MaxOutput # 0 /\ c2 > MaxOutput
    <3>1. w = [count |-> c2, out |-> 0, err |-> "toolarge"]
      BY <1>2, <2>1, <2>3 DEF Emit
    <3>. QED  BY <2>2, <3>1 DEF WriteOK
  <2>4. CASE ~(MaxOutput # 0 /\ c2 > MaxOutput)
    <3>1. \/ w = [count |-> c2, out |-> Len(b), err |-> "none"]
          \/ \E k \in 0..Len(b) - 1 : w = [count |-> c2, out |-> k, err |-> "write"]
      BY <1>2, <2>1, <2>4 DEF Emit
    <3>. QED  BY <2>2, <2>4, <3>1 DEF WriteOK
  <2>. QED  BY <2>3, <2>4
<1>. QED  BY <1>1, <1>2
\* The facts about the current state that every step uses.
StateOK ==
  /\ pt.data \in Seq(Bytes) /\ Len(pt.data) \in 0..MaxLen
  /\ pt.len \in 0..MaxLen /\ pt.partial \in BOOLEAN
  /\ ~pt.partial => Len(pt.data) <= pt.len
  /\ pos \in 0..Len(pt.data) /\ rem \in 0..MaxLen
  /\ count \in Nat /\ total \in Nat /\ hashed \in Seq(Bytes)
  /\ calls \in 0..MaxCalls /\ state \in 0..2

LEMMA StateFacts == IInv => StateOK
<1> SUFFICES ASSUME IInv PROVE StateOK
  OBVIOUS
<1>1. pt \in Packets \cup {NoPacket}
  BY DEF IInv, TypeOK, NoPacket
<1>. QED  BY <1>1, PacketFacts DEF IInv, TypeOK, StateOK

\* The digest input of the text and binary loops stays a byte string.
LEMMA HashType ==
  ASSUME hashed \in Seq(Bytes), md \in BOOLEAN, NEW b \in Seq(Bytes), Hash(b)
  PROVE  hashed' \in Seq(Bytes)
BY ConcatProperties DEF Hash

\* A write charged to count (line 140 and the loops' checks against
\* opt.max_output) keeps the output of the process within the limit.
LEMMA ChargeStep ==
  ASSUME IInv, NEW n \in Nat, NEW w, WriteOK(w, n),
         count' = w.count, total' = total + w.out
  PROVE  count' \in Nat /\ total' \in Nat /\ LimitInv'
<1>1. count \in Nat /\ total \in Nat
  BY StateFacts DEF StateOK
<1>2. MaxOutput # 0 /\ w.out = 0 => total' <= count' /\ total' <= MaxOutput
  BY <1>1 DEF IInv, LimitInv, WriteOK
<1>3. MaxOutput # 0 /\ w.out # 0 => total' <= count' /\ total' <= MaxOutput
  BY <1>1 DEF IInv, LimitInv, WriteOK
<1>. QED  BY <1>1, <1>2, <1>3 DEF WriteOK, LimitInv

\* Entry of handle_plaintext (lines 136-183).
LEMMA CallStep == IInv /\ Call => IInv'
<1> SUFFICES ASSUME IInv, Call PROVE IInv'
  OBVIOUS
<1>1. PICK p \in Packets, m \in BOOLEAN, cs \in BOOLEAN,
           o \in {"none"} \cup OutputResults :
        /\ pt' = p /\ md' = m /\ clearsig' = cs
        /\ fp' = IF o = "err" THEN "none" ELSE o
        /\ err' = CASE o = "err" -> "open"
                    [] o # "err" /\ ~p.partial /\ cs -> "unexpected"
                    [] OTHER -> "none"
        /\ pc' = IF err' = "none" THEN "loop" ELSE "idle"
        /\ rem' = p.len
  BY DEF Call
<1>2. /\ calls' = calls + 1 /\ count' = count /\ pos' = 0 /\ state' = 0
      /\ hashed' = <<>> /\ total' = total /\ pc = "idle" /\ calls < MaxCalls
  BY DEF Call, CountAtEntry
<1>3. p.len \in 0..MaxLen /\ p.data \in Seq(Bytes) /\ p.partial \in BOOLEAN
  BY PacketFacts
<1>0. StateOK
  BY StateFacts
<1> USE <1>0 DEF StateOK
<1>4. err' \in {"open", "unexpected", "none"}
  BY <1>1 DEF OutputResults
<1>5. err' = "none" => o # "err" /\ (cs => p.partial)
  BY <1>1, <1>3 DEF OutputResults
<1>6. TypeOK'
  <2>1. md' \in BOOLEAN /\ clearsig' \in BOOLEAN
    BY <1>1, Zenon
  <2>2. fp' \in {"none", "stdout", "file"}
    BY <1>1 DEF OutputResults
  <2>3. pt' \in Packets \cup {NoPacket}
    BY <1>1
  <2>4. /\ pc' \in {"idle", "loop", "close"} /\ calls' \in 0..MaxCalls
        /\ pos' \in 0..Len(pt'.data) /\ rem' \in 0..MaxLen /\ state' \in 0..2
        /\ count' \in Nat /\ hashed' \in Seq(Bytes) /\ total' \in Nat
    <3>1. pc' \in {"idle", "loop", "close"}
      BY <1>1
    <3>2. calls' \in 0..MaxCalls /\ state' \in 0..2 /\ count' \in Nat
          /\ total' \in Nat
      BY <1>2
    <3>3. pos' \in 0..Len(pt'.data) /\ rem' \in 0..MaxLen
      BY <1>1, <1>2, <1>3
    <3>4. hashed' \in Seq(Bytes)
      BY <1>2
    <3>. QED  BY <3>1, <3>2, <3>3, <3>4
  <2>5. err' \in {"none", "open", "unexpected", "read", "nomem", "toolarge",
                  "write", "close", "flush"}
    BY <1>4
  <2>. QED  BY <2>1, <2>2, <2>3, <2>4, <2>5, Zenon DEF TypeOK, NoPacket
<1>7. LimitInv'
  BY <1>2 DEF IInv, LimitInv
<1>8. DoneInv'
  BY <1>1, <1>2, <1>3, <1>5 DEF DoneInv
<1>. QED  BY <1>6, <1>7, <1>8 DEF IInv

\* One byte of the text loop (lines 185-215, 249-271).
LEMMA TextByteStep == IInv /\ TextByte => IInv'
<1> SUFFICES ASSUME IInv, TextByte PROVE IInv'
  OBVIOUS
<1>0. StateOK
  BY StateFacts
<1> USE <1>0 DEF StateOK
<1>. DEFINE c == pt.data[pos + 1]
            S == IF c = CR /\ pt.mode # "m" THEN {NoWrite} ELSE Emit(<<c>>)
<1>1. /\ TextLoop /\ TextMore /\ pos < Len(pt.data)
      /\ Hash(<<c>>) /\ pos' = pos + 1
      /\ UNCHANGED <<calls, pt, md, clearsig, fp, state>>
  BY DEF TextByte
<1>2. PICK w \in S :
        /\ Wrote(w)
        /\ rem' = IF pt.partial \/ w.err # "none" THEN rem ELSE rem - 1
  BY DEF TextByte
<1>3. c \in Bytes /\ <<c>> \in Seq(Bytes) /\ Len(<<c>>) = 1
  BY <1>0, <1>1
<1>4. WriteOK(w, 1)
  BY <1>0, <1>3, EmitFacts
<1>5. count' \in Nat /\ total' \in Nat /\ LimitInv'
  BY <1>2, <1>4, ChargeStep DEF Wrote
<1>6. ~pt.partial => rem > 0
  BY <1>1 DEF TextMore
<1>7. /\ err' = w.err /\ pc' = IF w.err = "none" THEN "loop" ELSE "idle"
  BY <1>2 DEF Wrote
<1>8. hashed' \in Seq(Bytes)
  BY <1>0, <1>1, <1>3, HashType DEF IInv, TypeOK
<1>9. TypeOK'
  <2>1. md' \in BOOLEAN /\ clearsig' \in BOOLEAN
    BY <1>1, Zenon DEF IInv, TypeOK
  <2>2. rem' \in 0..MaxLen /\ pos' \in 0..Len(pt'.data)
    BY <1>0, <1>1, <1>2, <1>6
  <2>. QED  BY <1>0, <1>1, <1>4, <1>5, <1>7, <1>8, <2>1, <2>2
              DEF IInv, TypeOK, WriteOK
<1>10. DoneInv'
  <2>1. pc' = "loop" => err' = "none" /\ (~pt.partial => pos' + rem' = pt.len)
    BY <1>0, <1>1, <1>2, <1>7 DEF IInv, DoneInv, TextLoop
  <2>2. pc' # "close" /\ ~(pc' = "loop" /\ clearsig')
    BY <1>1, <1>7 DEF TextLoop
  <2>3. pc' = "idle" => err' # "none"
    BY <1>7
  <2>. QED  BY <1>1, <2>1, <2>2, <2>3 DEF DoneInv
<1>. QED  BY <1>5, <1>9, <1>10 DEF IInv
\* A read or allocation failure jumps to leave (lines 187-192, 221-227,
\* 276-280): the call returns its error and changes nothing else.
LEMMA ErrorExit ==
  ASSUME IInv, pc' = "idle", err' \in {"read", "nomem"},
         UNCHANGED <<calls, pt, pos, rem, md, clearsig, fp, state, count,
                     hashed, total>>
  PROVE  IInv'
<1>1. md' \in BOOLEAN /\ clearsig' \in BOOLEAN
  BY Zenon DEF IInv, TypeOK
<1>2. TypeOK'
  BY <1>1 DEF IInv, TypeOK
<1>. QED  BY <1>2 DEF IInv, LimitInv, DoneInv

\* A copy loop ends without error and goes on to close the file: it has
\* consumed all the data its packet yields and, for a known length, all of
\* the declared length.
LEMMA CloseEntry ==
  ASSUME IInv, pc = "loop", pc' = "close", pos = Len(pt.data),
         ~pt.partial => rem = 0,
         UNCHANGED <<calls, pt, pos, rem, md, clearsig, fp, state, count,
                     hashed, total, err>>
  PROVE  IInv'
<1>1. md' \in BOOLEAN /\ clearsig' \in BOOLEAN
  BY Zenon DEF IInv, TypeOK
<1>2. TypeOK'
  BY <1>1 DEF IInv, TypeOK
<1>. QED  BY <1>2 DEF IInv, LimitInv, DoneInv

\* The text loop: a read failure, and the end of the loop.
LEMMA TextEndSteps == IInv /\ (TextReadFail \/ TextEnd) => IInv'
<1> SUFFICES ASSUME IInv, TextReadFail \/ TextEnd PROVE IInv'
  OBVIOUS
<1>0. StateOK
  BY StateFacts
<1> USE <1>0 DEF StateOK
<1>1. CASE TextReadFail
  BY <1>1, ErrorExit DEF TextReadFail
<1>2. CASE TextEnd
  <2>1. TextLoop /\ ~TextMore
    BY <1>2 DEF TextEnd
  <2>2. pt.partial => pos = Len(pt.data)
    BY <2>1 DEF TextMore
  <2>3. ~pt.partial => rem = 0 /\ pos = Len(pt.data)
    BY <2>1 DEF TextMore, TextLoop, IInv, DoneInv
  <2>. QED  BY <1>2, <2>1, <2>2, <2>3, CloseEntry DEF TextEnd, TextLoop
<1>. QED  BY <1>1, <1>2

\* The binary loops: read and allocation failures and the ends of the
\* known-length and the partial loop.
LEMMA BinEndSteps ==
  IInv /\ (BinReadFail \/ BinEnd \/ BinNoMem \/ BinPartEOF) => IInv'
<1> SUFFICES ASSUME IInv, BinReadFail \/ BinEnd \/ BinNoMem \/ BinPartEOF
             PROVE  IInv'
  OBVIOUS
<1>0. StateOK
  BY StateFacts
<1> USE <1>0 DEF StateOK
<1>1. CASE BinReadFail \/ BinNoMem
  BY <1>1, ErrorExit DEF BinReadFail, BinNoMem
<1>2. CASE BinEnd
  <2>1. ~pt.partial /\ rem = 0 /\ pc = "loop"
    BY <1>2 DEF BinEnd, BinLoop
  <2>2. pos = Len(pt.data)
    BY <2>1 DEF IInv, DoneInv
  <2>. QED  BY <1>2, <2>1, <2>2, CloseEntry DEF BinEnd
<1>3. CASE BinPartEOF
  <2>1. pt.partial /\ Got(Chunk) = 0 /\ pc = "loop"
    BY <1>3 DEF BinPartEOF, BinLoop
  <2>2. pos = Len(pt.data)
    BY <2>1 DEF Got, Min2
  <2>. QED  BY <1>3, <2>1, <2>2, CloseEntry DEF BinPartEOF
<1>. QED  BY <1>1, <1>2, <1>3

\* The clear-signed loop ends at EOF of a partial packet.
LEMMA ClearEndStep == IInv /\ ClearEnd => IInv'
<1> SUFFICES ASSUME IInv, ClearEnd PROVE IInv'
  OBVIOUS
<1>1. pc = "loop" /\ clearsig /\ pos = Len(pt.data)
  BY DEF ClearEnd, ClearLoop
<1>2. pt.partial
  BY <1>1 DEF IInv, DoneInv
<1>. QED  BY <1>1, <1>2, CloseEntry DEF ClearEnd

\* After the loop (lines 358-380): es_fclose and es_fflush may fail.
LEMMA CloseStep == IInv /\ Close => IInv'
<1> SUFFICES ASSUME IInv, Close PROVE IInv'
  OBVIOUS
<1>1. /\ pc = "close" /\ pc' = "idle"
      /\ err' \in {"none", "close", "flush"}
      /\ UNCHANGED <<calls, pt, pos, rem, md, clearsig, fp, state, count,
                     hashed, total>>
  BY DEF Close
<1>2. md' \in BOOLEAN /\ clearsig' \in BOOLEAN
  BY <1>1, Zenon DEF IInv, TypeOK
<1>3. TypeOK'
  BY <1>1, <1>2 DEF IInv, TypeOK
<1>4. DoneInv'
  BY <1>1 DEF IInv, DoneInv
<1>. QED  BY <1>1, <1>3, <1>4 DEF IInv, LimitInv
\* What iobuf_read gives for a request of n bytes at position p of l bytes,
\* when it gives any: at most n, at most what is left, and all that is left
\* when it gives fewer than n.
GotOK(n, l, p) ==
  /\ Min2(n, l - p) \in 1..l - p /\ Min2(n, l - p) <= n
  /\ Min2(n, l - p) < n => p + Min2(n, l - p) = l

LEMMA GotRange ==
  ASSUME NEW n \in Nat, NEW l \in Nat, NEW p \in 0..l, Min2(n, l - p) > 0
  PROVE  GotOK(n, l, p)
BY DEF GotOK, Min2

\* The bytes a chunk read takes from the packet: g of them, all bytes.
LEMMA ChunkBytes ==
  ASSUME IInv, NEW g \in 1..Len(pt.data) - pos
  PROVE  /\ SubSeq(pt.data, pos + 1, pos + g) \in Seq(Bytes)
         /\ Len(SubSeq(pt.data, pos + 1, pos + g)) = g
<1>1. StateOK
  BY StateFacts
<1>2. pos + 1 \in 1..Len(pt.data) + 1 /\ pos + g \in pos + 1 - 1..Len(pt.data)
  BY <1>1 DEF StateOK
<1>. QED  BY <1>1, <1>2, SubSeqProperties DEF StateOK

\* One chunk of a known-length binary packet (lines 216-247): at most
\* pt->len and 32768 bytes, and pt->len counts down by what was read.
LEMMA BinChunkStep == IInv /\ BinChunk => IInv'
<1> SUFFICES ASSUME IInv, BinChunk PROVE IInv'
  OBVIOUS
<1>0. StateOK
  BY StateFacts
<1> USE <1>0 DEF StateOK
<1>. DEFINE g == Got(Min2(rem, Chunk))
            b == SubSeq(pt.data, pos + 1, pos + g)
<1>1. /\ BinLoop /\ ~pt.partial /\ rem > 0 /\ g > 0
      /\ Hash(b) /\ pos' = pos + g
      /\ UNCHANGED <<calls, pt, md, clearsig, fp, state>>
  BY DEF BinChunk
<1>2. PICK w \in Emit(b) :
        /\ Wrote(w)
        /\ rem' = IF w.err # "none" THEN rem ELSE rem - g
  BY DEF BinChunk
<1>3. g \in 1..Len(pt.data) - pos /\ g <= rem
  <2>1. Min2(rem, Chunk) \in Nat /\ Min2(rem, Chunk) <= rem
    BY DEF Min2
  <2>2. GotOK(Min2(rem, Chunk), Len(pt.data), pos)
    BY <1>1, <2>1, GotRange DEF Got
  <2>. QED  BY <2>1, <2>2 DEF GotOK, Got
<1>4. b \in Seq(Bytes) /\ Len(b) = g
  BY <1>3, ChunkBytes
<1>5. WriteOK(w, g)
  BY <1>4, EmitFacts
<1>6. count' \in Nat /\ total' \in Nat /\ LimitInv'
  BY <1>2, <1>3, <1>5, ChargeStep DEF Wrote
<1>7. /\ err' = w.err /\ pc' = IF w.err = "none" THEN "loop" ELSE "idle"
  BY <1>2 DEF Wrote
<1>8. hashed' \in Seq(Bytes)
  BY <1>1, <1>4, HashType DEF IInv, TypeOK
<1>9. TypeOK'
  <2>1. md' \in BOOLEAN /\ clearsig' \in BOOLEAN
    BY <1>1, Zenon DEF IInv, TypeOK
  <2>2. rem' \in 0..MaxLen /\ pos' \in 0..Len(pt'.data)
    <3>1. rem' = rem \/ rem' = rem - g
      BY <1>2
    <3>2. pt' = pt /\ pos' = pos + g
      BY <1>1
    <3>3. rem' \in 0..MaxLen
      BY <1>3, <3>1
    <3>4. pos' \in 0..Len(pt'.data)
      BY <1>3, <3>2
    <3>. QED  BY <3>3, <3>4
  <2>3. /\ pc' \in {"idle", "loop", "close"} /\ calls' \in 0..MaxCalls
        /\ state' \in 0..2 /\ fp' \in {"none", "stdout", "file"}
        /\ pt' \in Packets \cup {NoPacket}
        /\ err' \in {"none", "open", "unexpected", "read", "nomem", "toolarge",
                     "write", "close", "flush"}
    BY <1>1, <1>5, <1>7 DEF IInv, TypeOK, WriteOK, NoPacket
  <2>. QED  BY <1>6, <1>8, <2>1, <2>2, <2>3, Zenon DEF TypeOK, NoPacket
<1>10. DoneInv'
  <2>1. pos + rem = pt.len
    BY <1>1 DEF IInv, DoneInv, BinLoop
  <2>2. pc' = "loop" => err' = "none" /\ pos' + rem' = pt'.len
    <3>1. pc' = "loop" => w.err = "none" /\ rem' = rem - g
      BY <1>2, <1>7
    <3>2. pt' = pt /\ pos' = pos + g
      BY <1>1, Zenon
    <3>. QED  BY <1>3, <1>7, <2>1, <3>1, <3>2
  <2>3. pc' # "close" /\ ~(pc' = "loop" /\ clearsig')
    BY <1>1, <1>7 DEF BinLoop
  <2>4. pc' = "idle" => err' # "none"
    BY <1>7
  <2>. QED  BY <2>2, <2>3, <2>4 DEF DoneInv
<1>. QED  BY <1>6, <1>9, <1>10 DEF IInv

\* One chunk of a partial binary packet (lines 282-307): a short read
\* ends the loop after the chunk.
LEMMA BinPartChunkStep == IInv /\ BinPartChunk => IInv'
<1> SUFFICES ASSUME IInv, BinPartChunk PROVE IInv'
  OBVIOUS
<1>0. StateOK
  BY StateFacts
<1> USE <1>0 DEF StateOK
<1>. DEFINE g == Got(Chunk)
            b == SubSeq(pt.data, pos + 1, pos + g)
<1>1. /\ BinLoop /\ pt.partial /\ g > 0
      /\ Hash(b) /\ pos' = pos + g
      /\ UNCHANGED <<calls, pt, rem, md, clearsig, fp, state>>
  BY DEF BinPartChunk
<1>2. PICK w \in Emit(b) :
        /\ count' = w.count /\ total' = total + w.out /\ err' = w.err
        /\ pc' = CASE w.err # "none" -> "idle"
                   [] w.err = "none" /\ g < Chunk -> "close"
                   [] OTHER -> "loop"
  BY DEF BinPartChunk
<1>3. g \in 1..Len(pt.data) - pos /\ (g < Chunk => pos + g = Len(pt.data))
  <2>1. GotOK(Chunk, Len(pt.data), pos)
    BY <1>1, GotRange DEF Got
  <2>. QED  BY <2>1 DEF GotOK, Got
<1>4. b \in Seq(Bytes) /\ Len(b) = g
  BY <1>3, ChunkBytes
<1>5. WriteOK(w, g)
  BY <1>4, EmitFacts
<1>6. count' \in Nat /\ total' \in Nat /\ LimitInv'
  <2>1. g \in Nat /\ count' = w.count /\ total' = total + w.out
    BY <1>2, <1>3
  <2>. QED  BY <1>5, <2>1, ChargeStep
<1>7. /\ w.err # "none" => pc' = "idle"
      /\ w.err = "none" /\ g < Chunk => pc' = "close"
      /\ w.err = "none" /\ ~(g < Chunk) => pc' = "loop"
  <2>1. w.err # "none" => pc' = "idle"
    BY <1>2
  <2>2. w.err = "none" /\ g < Chunk => pc' = "close"
    BY <1>2
  <2>3. w.err = "none" /\ ~(g < Chunk) => pc' = "loop"
    BY <1>2
  <2>. QED  BY <2>1, <2>2, <2>3
<1>8. hashed' \in Seq(Bytes)
  BY <1>1, <1>4, HashType DEF IInv, TypeOK
<1>9. TypeOK'
  <2>1. md' \in BOOLEAN /\ clearsig' \in BOOLEAN
    BY <1>1, Zenon DEF IInv, TypeOK
  <2>2. rem' \in 0..MaxLen /\ pos' \in 0..Len(pt'.data)
    BY <1>1, <1>3
  <2>3. /\ pc' \in {"idle", "loop", "close"} /\ calls' \in 0..MaxCalls
        /\ state' \in 0..2 /\ fp' \in {"none", "stdout", "file"}
        /\ pt' \in Packets \cup {NoPacket}
        /\ err' \in {"none", "open", "unexpected", "read", "nomem", "toolarge",
                     "write", "close", "flush"}
    BY <1>1, <1>2, <1>5, <1>7 DEF IInv, TypeOK, WriteOK, NoPacket
  <2>. QED  BY <1>6, <1>8, <2>1, <2>2, <2>3, Zenon DEF TypeOK, NoPacket
<1>10. DoneInv'
  <2>1. pc' \in {"loop", "close"} => err' = "none"
    BY <1>2, <1>7
  <2>2. pc' = "close" => pos' = Len(pt'.data)
    BY <1>1, <1>3, <1>7, <2>1, <1>2
  <2>3. ~(pc' = "loop" /\ clearsig') /\ pt'.partial
    BY <1>1 DEF BinLoop
  <2>4. pc' = "idle" => err' # "none"
    BY <1>2, <1>7
  <2>. QED  BY <2>1, <2>2, <2>3, <2>4 DEF DoneInv
<1>. QED  BY <1>6, <1>9, <1>10 DEF IInv
\* The line-ending state machine puts bytes and stays in its three states.
LEMMA ClearStepType ==
  ASSUME NEW st \in 0..2, NEW c \in Bytes
  PROVE  ClearStep(st, c).put \in Seq(Bytes) /\ ClearStep(st, c).st \in 0..2
<1>. DEFINE pre == IF st = 2 THEN <<CR, LF>> ELSE <<>>
            s0 == IF st = 2 THEN 0 ELSE st
<1>0. CR \in Bytes /\ LF \in Bytes /\ CR # LF
  BY DEF CR, LF, Bytes
<1>1. pre \in Seq(Bytes) /\ s0 \in 0..1
  BY <1>0
<1>2. CASE s0 = 0 /\ c = CR
  <2>1. ClearStep(st, c) = [put |-> pre, st |-> 1]
    BY <1>0, <1>2 DEF ClearStep
  <2>. QED  BY <1>1, <2>1
<1>3. CASE s0 = 0 /\ c = LF
  <2>1. ClearStep(st, c) = [put |-> pre, st |-> 2]
    BY <1>0, <1>3 DEF ClearStep
  <2>. QED  BY <1>1, <2>1
<1>4. CASE s0 = 0 /\ c \notin {CR, LF}
  <2>1. ClearStep(st, c) = [put |-> pre \o <<c>>, st |-> 0]
    BY <1>4 DEF ClearStep
  <2>. QED  BY <1>1, <2>1
<1>5. CASE s0 # 0 /\ c = LF
  <2>1. ClearStep(st, c) = [put |-> pre, st |-> 2]
    BY <1>0, <1>5 DEF ClearStep
  <2>. QED  BY <1>1, <2>1
<1>6. CASE s0 # 0 /\ c = CR
  <2>1. ClearStep(st, c) = [put |-> pre \o <<CR>>, st |-> 1]
    BY <1>0, <1>6 DEF ClearStep
  <2>. QED  BY <1>0, <1>1, <2>1
<1>7. CASE s0 # 0 /\ c \notin {CR, LF}
  <2>1. ClearStep(st, c) = [put |-> pre \o <<CR, c>>, st |-> 0]
    BY <1>7 DEF ClearStep
  <2>. QED  BY <1>0, <1>1, <2>1
<1>. QED  BY <1>2, <1>3, <1>4, <1>5, <1>6, <1>7

\* One byte of a cleartext signature (lines 320-355): written, then fed
\* through the line-ending state machine into the digest.
LEMMA ClearByteStep == IInv /\ ClearByte => IInv'
<1> SUFFICES ASSUME IInv, ClearByte PROVE IInv'
  OBVIOUS
<1>0. StateOK
  BY StateFacts
<1> USE <1>0 DEF StateOK
<1>. DEFINE c == pt.data[pos + 1]
            r == ClearStep(state, c)
<1>1. /\ ClearLoop /\ pos < Len(pt.data) /\ pos' = pos + 1
      /\ pt' = pt /\ calls' = calls /\ rem' = rem /\ fp' = fp
  BY Zenon DEF ClearByte
<1>2. md' = md /\ clearsig' = clearsig
  BY Zenon DEF ClearByte
<1>3. PICK w \in Emit(<<c>>) :
        /\ Wrote(w)
        /\ IF w.err = "none" /\ md
             THEN hashed' = hashed \o r.put /\ state' = r.st
             ELSE UNCHANGED <<hashed, state>>
  BY DEF ClearByte
<1>4. c \in Bytes /\ <<c>> \in Seq(Bytes) /\ Len(<<c>>) = 1
  BY <1>1
<1>5. r.put \in Seq(Bytes) /\ r.st \in 0..2
  BY <1>4, ClearStepType
<1>6. hashed' \in Seq(Bytes) /\ state' \in 0..2
  <2>1. CASE w.err = "none" /\ md
    <3>1. hashed' = hashed \o r.put /\ state' = r.st
      BY <1>3, <2>1
    <3>. QED  BY <1>5, <3>1
  <2>2. CASE ~(w.err = "none" /\ md)
    <3>1. hashed' = hashed /\ state' = state
      BY <1>3, <2>2
    <3>. QED  BY <3>1
  <2>. QED  BY <2>1, <2>2
<1>7. WriteOK(w, 1)
  BY <1>4, EmitFacts
<1>8. count' \in Nat /\ total' \in Nat /\ LimitInv'
  BY <1>3, <1>7, ChargeStep DEF Wrote
<1>9. err' = w.err /\ pc' = IF w.err = "none" THEN "loop" ELSE "idle"
  BY <1>3 DEF Wrote
<1>10. TypeOK'
  <2>1. md' \in BOOLEAN /\ clearsig' \in BOOLEAN
    BY <1>2, Zenon DEF IInv, TypeOK
  <2>2. rem' \in 0..MaxLen /\ pos' \in 0..Len(pt'.data)
    BY <1>1
  <2>3. /\ pc' \in {"idle", "loop", "close"} /\ calls' \in 0..MaxCalls
        /\ fp' \in {"none", "stdout", "file"}
        /\ pt' \in Packets \cup {NoPacket}
        /\ err' \in {"none", "open", "unexpected", "read", "nomem", "toolarge",
                     "write", "close", "flush"}
    BY <1>1, <1>7, <1>9 DEF IInv, TypeOK, WriteOK, NoPacket
  <2>. QED  BY <1>6, <1>8, <2>1, <2>2, <2>3, Zenon DEF TypeOK, NoPacket
<1>11. DoneInv'
  <2>1. pt.partial
    BY <1>1 DEF IInv, DoneInv, ClearLoop
  <2>2. pc' \in {"loop", "close"} => err' = "none"
    BY <1>9
  <2>3. pc' # "close" /\ pt'.partial
    BY <1>1, <1>9, <2>1
  <2>4. pc' = "idle" => err' # "none"
    BY <1>9
  <2>. QED  BY <2>2, <2>3, <2>4 DEF DoneInv
<1>. QED  BY <1>8, <1>10, <1>11 DEF IInv
LEMMA IInvInit == Init => IInv
<1> SUFFICES ASSUME Init PROVE IInv
  OBVIOUS
<1>1. pt = NoPacket /\ Len(pt.data) = 0
  BY DEF Init, NoPacket
<1>2. md \in BOOLEAN /\ clearsig \in BOOLEAN
  BY Zenon DEF Init
<1>3. TypeOK
  BY <1>1, <1>2 DEF Init, TypeOK, NoPacket
<1>. QED  BY <1>1, <1>3 DEF Init, IInv, LimitInv, DoneInv

\* Stuttering leaves every variable, and so the invariant, as it is.
LEMMA StutterStep == IInv /\ UNCHANGED vars => IInv'
<1> SUFFICES ASSUME IInv, UNCHANGED vars PROVE IInv'
  OBVIOUS
<1>1. /\ pc' = pc /\ calls' = calls /\ pt' = pt /\ pos' = pos /\ rem' = rem
      /\ md' = md /\ clearsig' = clearsig /\ fp' = fp /\ state' = state
      /\ count' = count /\ hashed' = hashed /\ total' = total /\ err' = err
  BY Zenon DEF vars
<1>2. TypeOK'
  BY <1>1, Zenon DEF IInv, TypeOK
<1>. QED  BY <1>1, <1>2 DEF IInv, LimitInv, DoneInv

LEMMA IInvStep == IInv /\ [Next]_vars => IInv'
<1> SUFFICES ASSUME IInv, [Next]_vars PROVE IInv'
  OBVIOUS
<1>1. CASE Call                  BY <1>1, CallStep
<1>2. CASE TextByte              BY <1>2, TextByteStep
<1>3. CASE TextReadFail \/ TextEnd  BY <1>3, TextEndSteps
<1>4. CASE BinChunk              BY <1>4, BinChunkStep
<1>5. CASE BinReadFail \/ BinEnd \/ BinNoMem \/ BinPartEOF
  BY <1>5, BinEndSteps
<1>6. CASE BinPartChunk          BY <1>6, BinPartChunkStep
<1>7. CASE ClearByte             BY <1>7, ClearByteStep
<1>8. CASE ClearEnd              BY <1>8, ClearEndStep
<1>9. CASE Close                 BY <1>9, CloseStep
<1>10. CASE UNCHANGED vars       BY <1>10, StutterStep
<1>. QED  BY <1>1, <1>2, <1>3, <1>4, <1>5, <1>6, <1>7, <1>8, <1>9, <1>10
          DEF Next

-----------------------------------------------------------------------------
\* handle_plaintext keeps its state well-formed across any number of calls:
\* offsets stay inside the packet, the line-ending state in 0..2, the
\* counters natural numbers and the digest input a byte string.
THEOREM TypeCorrect == Spec => []TypeOK
<1>1. IInv => TypeOK
  BY DEF IInv
<1>. QED  BY <1>1, IInvInit, IInvStep, PTL DEF Spec

\* Because the static count (line 140) is charged before every write and a
\* charge past opt.max_output fails before writing, all the plaintext
\* packets of a process together never write more than --max-output bytes
\* (checked by TLC as OutputWithinLimit).
THEOREM OutputWithinLimitThm == Spec => []OutputWithinLimit
<1>1. IInv => OutputWithinLimit
  BY DEF IInv, LimitInv, OutputWithinLimit
<1>. QED  BY <1>1, IInvInit, IInvStep, PTL DEF Spec

\* A call of handle_plaintext that returns without error has read the
\* packet to its end: the declared length of a known-length packet, all
\* the data of a partial one (lines 186-191, 221-227; checked by TLC as
\* SuccessConsumedAll).
THEOREM SuccessConsumedAllThm == Spec => []SuccessConsumedAll
<1>1. IInv => SuccessConsumedAll
  BY DEF IInv, DoneInv, SuccessConsumedAll
<1>. QED  BY <1>1, IInvInit, IInvStep, PTL DEF Spec
====
