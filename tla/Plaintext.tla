------------------------------- MODULE Plaintext -------------------------------
(***************************************************************************)
(* handle_plaintext in g10/plaintext.cpp: the copy of one literal-data     *)
(* packet to the output file and into the message digest, called once per  *)
(* plaintext packet that the packet processor meets during the life of    *)
(* the process.  Three copy loops (text, binary, clear-signed text) stream *)
(* the packet byte by byte or in 32 KiB chunks; every write first charges  *)
(* the bytes to `static off_t count` (line 140), which is never reset, and *)
(* stops the call with GPG_ERR_TOO_LARGE once opt.max_output is exceeded.  *)
(*                                                                         *)
(* Data abstraction: a byte is CR, LF or any other byte X; a packet is its *)
(* mode, whether it has partial length, its declared length and the bytes  *)
(* its iobuf actually yields (fewer than declared for a truncated packet). *)
(* Filenames, status lines and log text are left out.                      *)
(***************************************************************************)
EXTENDS Integers, Sequences

CONSTANTS
  MaxOutput,   \* opt.max_output; 0 means no limit
  Chunk,       \* the 32768-byte buffer of the binary loops
  MaxLen,      \* bound: bytes in one packet
  MaxCalls     \* bound: calls of handle_plaintext in one process

ASSUME PlaintextAssumption ==
  /\ MaxOutput \in Nat /\ Chunk \in Nat \ {0}
  /\ MaxLen \in Nat /\ MaxCalls \in Nat

CR == "cr"
LF == "lf"
X  == "x"
Bytes == {CR, LF, X}

SeqsUpTo(S, n) == UNION {[1..m -> S] : m \in 0..n}

\* PKT_plaintext: mode 'b' (binary), 't'/'u' (text; 'u' behaves as 't'),
\* 'm' (MIME text); is_partial; len; and the bytes pt->buf yields.  A packet
\* with a known length never yields more than it declares to this loop.
Packets ==
  {p \in [mode : {"b", "t", "m"}, partial : BOOLEAN, len : 0..MaxLen,
          data : SeqsUpTo(Bytes, MaxLen)] :
     IF p.partial THEN p.len = 0 ELSE Len(p.data) <= p.len}

\* get_output_file (lines 48-129): it fails (no name, the user declines to
\* overwrite, a secured file, es_fopen fails), or it returns opt.outfp or
\* es_stdout, which handle_plaintext never closes, or a file it opened.
OutputResults == {"err", "stdout", "file"}

\* Clear-signed text as hashed (lines 328-353): LF not preceded by CR
\* becomes CR LF, every other byte is kept.
Canon(s) ==
  LET f[i \in 0..Len(s)] ==
        IF i = 0 THEN <<>>
        ELSE f[i - 1] \o (IF s[i] = LF /\ (i = 1 \/ s[i - 1] # CR)
                            THEN <<CR, LF>> ELSE <<s[i]>>)
  IN  f[Len(s)]

Min2(a, b) == IF a <= b THEN a ELSE b

-----------------------------------------------------------------------------
VARIABLES
  pc,        \* "idle" between calls, "loop" in a copy loop, "close" when
             \* the loop ended without error
  calls,     \* calls of handle_plaintext so far
  pt,        \* the packet of the current call
  pos,       \* bytes taken from pt->buf
  rem,       \* pt->len, counted down by the loops of a known-length packet
  md,        \* mfx->md is set
  clearsig,  \* the clearsig argument
  fp,        \* "none" (nooutput or no file), "stdout" or "file"
  state,     \* the clearsig loop's line-ending state
  count,     \* static off_t count
  hashed,    \* history: bytes put into mfx->md by this call
  total,     \* history: bytes written to output files by all calls
  err        \* err of the current call

vars == <<pc, calls, pt, pos, rem, md, clearsig, fp, state, count, hashed,
          total, err>>

Init ==
  /\ pc = "idle" /\ calls = 0
  /\ pt = [mode |-> "b", partial |-> FALSE, len |-> 0, data |-> <<>>]
  /\ pos = 0 /\ rem = 0 /\ md = FALSE /\ clearsig = FALSE /\ fp = "none"
  /\ state = 0 /\ count = 0 /\ hashed = <<>>
  /\ total = 0 /\ err = "none"

-----------------------------------------------------------------------------
(***************************************************************************)
(* The steps of one call.  An error jumps to the label leave (lines        *)
(* 366-380), which closes an opened file without looking at the result and *)
(* flushes stdout, keeping the first error: the call returns at once.      *)
(***************************************************************************)
\* Mutant: count is a fresh local of every call.
FreshCount == 0

\* `static off_t count = 0;` (line 140): a call starts from the count the
\* earlier calls of the process left.
CountAtEntry == count

\* Entry of handle_plaintext (lines 136-183): the output file unless
\* nooutput (o = "none"), then the rejection of a clearsig packet of known
\* length.  count keeps its value from earlier calls.
Call ==
  /\ pc = "idle" /\ calls < MaxCalls
  /\ \E p \in Packets, m, cs \in BOOLEAN, o \in {"none"} \cup OutputResults :
       /\ pt' = p /\ md' = m /\ clearsig' = cs
       /\ fp' = IF o = "err" THEN "none" ELSE o
       /\ err' = CASE o = "err" -> "open"
                   [] o # "err" /\ ~p.partial /\ cs -> "unexpected"
                   [] OTHER -> "none"
       /\ pc' = IF err' = "none" THEN "loop" ELSE "idle"
       /\ rem' = p.len
  /\ calls' = calls + 1 /\ count' = CountAtEntry
  /\ pos' = 0 /\ state' = 0 /\ hashed' = <<>>
  /\ UNCHANGED total

NoWrite == [count |-> count, out |-> 0, err |-> "none"]

\* Mutant: a chunk that crosses the limit is written up to the limit
\* before the call fails.
EmitToLimit(b) ==
  IF fp = "none" THEN {NoWrite}
  ELSE LET c2 == IF MaxOutput # 0 THEN count + Len(b) ELSE count IN
       IF MaxOutput # 0 /\ c2 > MaxOutput
         THEN {[count |-> c2, out |-> IF count < MaxOutput
                                        THEN MaxOutput - count ELSE 0,
                err |-> "toolarge"]}
         ELSE {[count |-> c2, out |-> Len(b), err |-> "none"]}
                \cup {[count |-> c2, out |-> k, err |-> "write"] :
                        k \in 0..Len(b) - 1}

\* Writing the bytes b to fp: `opt.max_output && (count += len) >
\* opt.max_output` charges them first and fails the call; otherwise es_putc
\* or es_fwrite writes them, or fails after writing fewer.
Emit(b) ==
  IF fp = "none" THEN {NoWrite}
  ELSE LET c2 == IF MaxOutput # 0 THEN count + Len(b) ELSE count IN
       IF MaxOutput # 0 /\ c2 > MaxOutput
         THEN {[count |-> c2, out |-> 0, err |-> "toolarge"]}
         ELSE {[count |-> c2, out |-> Len(b), err |-> "none"]}
                \cup {[count |-> c2, out |-> k, err |-> "write"] :
                        k \in 0..Len(b) - 1}

\* The effect of a write w on the call.
Wrote(w) ==
  /\ count' = w.count /\ total' = total + w.out /\ err' = w.err
  /\ pc' = IF w.err = "none" THEN "loop" ELSE "idle"

Hash(b) == hashed' = IF md THEN hashed \o b ELSE hashed

\* Text mode, convert set and no clearsig (lines 185-215, 249-271).
TextLoop == pc = "loop" /\ pt.mode # "b" /\ ~clearsig

\* Mutant: the known-length loop also stops at the first EOF.
TextMoreEOF == pos < Len(pt.data)

\* The loop condition: `for (; pt->len; pt->len--)` for a known length,
\* `while ((c = iobuf_get(pt->buf)) != -1)` for a partial one.
TextMore == IF pt.partial THEN pos < Len(pt.data) ELSE rem > 0

\* One byte: it goes into the digest; a CR is then dropped unless the mode
\* is 'm'; anything else is written.
TextByte ==
  /\ TextLoop /\ TextMore /\ pos < Len(pt.data)
  /\ LET c == pt.data[pos + 1] IN
     /\ Hash(<<c>>)
     /\ pos' = pos + 1
     /\ \E w \in IF c = CR /\ pt.mode # "m" THEN {NoWrite} ELSE Emit(<<c>>) :
          /\ Wrote(w)
          /\ rem' = IF pt.partial \/ w.err # "none" THEN rem ELSE rem - 1
  /\ UNCHANGED <<calls, pt, md, clearsig, fp, state>>

\* iobuf_get returns -1 while pt->len bytes remain (lines 187-192).
TextReadFail ==
  /\ TextLoop /\ ~pt.partial /\ rem > 0 /\ pos = Len(pt.data)
  /\ err' = "read" /\ pc' = "idle"
  /\ UNCHANGED <<calls, pt, pos, rem, md, clearsig, fp, state, count, hashed,
                 total>>

TextEnd ==
  /\ TextLoop /\ ~TextMore
  /\ pc' = "close"
  /\ UNCHANGED <<calls, pt, pos, rem, md, clearsig, fp, state, count, hashed,
                 total, err>>

\* Binary mode (lines 216-247, 272-309).
BinLoop == pc = "loop" /\ pt.mode = "b" /\ ~clearsig

\* The bytes iobuf_read returns when asked for n: at most n, -1 (none) at
\* the end of the data.
Got(n) == Min2(n, Len(pt.data) - pos)

\* Known length: `len = pt->len > 32768 ? 32768 : pt->len`, read, digest,
\* write, `pt->len -= len`.
BinChunk ==
  /\ BinLoop /\ ~pt.partial /\ rem > 0
  /\ LET g == Got(Min2(rem, Chunk))
         b == SubSeq(pt.data, pos + 1, pos + g) IN
     /\ g > 0
     /\ Hash(b)
     /\ pos' = pos + g
     /\ \E w \in Emit(b) :
          /\ Wrote(w)
          /\ rem' = IF w.err # "none" THEN rem ELSE rem - g
  /\ UNCHANGED <<calls, pt, md, clearsig, fp, state>>

\* iobuf_read returns -1 while pt->len bytes remain (lines 221-227).
BinReadFail ==
  /\ BinLoop /\ ~pt.partial /\ rem > 0 /\ Got(Min2(rem, Chunk)) = 0
  /\ err' = "read" /\ pc' = "idle"
  /\ UNCHANGED <<calls, pt, pos, rem, md, clearsig, fp, state, count, hashed,
                 total>>

BinEnd ==
  /\ BinLoop /\ ~pt.partial /\ rem = 0
  /\ pc' = "close"
  /\ UNCHANGED <<calls, pt, pos, rem, md, clearsig, fp, state, count, hashed,
                 total, err>>

\* Partial length: xtrymalloc of the buffer fails before the first read
\* (lines 276-280).
BinNoMem ==
  /\ BinLoop /\ pt.partial /\ pos = 0
  /\ err' = "nomem" /\ pc' = "idle"
  /\ UNCHANGED <<calls, pt, pos, rem, md, clearsig, fp, state, count, hashed,
                 total>>

\* Partial length: a read of fewer than 32768 bytes sets eof_seen, which
\* ends the loop after this chunk (lines 282-307).
BinPartChunk ==
  /\ BinLoop /\ pt.partial
  /\ LET g == Got(Chunk)
         b == SubSeq(pt.data, pos + 1, pos + g) IN
     /\ g > 0
     /\ Hash(b)
     /\ pos' = pos + g
     /\ \E w \in Emit(b) :
          /\ count' = w.count /\ total' = total + w.out /\ err' = w.err
          /\ pc' = CASE w.err # "none" -> "idle"
                     [] w.err = "none" /\ g < Chunk -> "close"
                     [] OTHER -> "loop"
  /\ UNCHANGED <<calls, pt, rem, md, clearsig, fp, state>>

\* Partial length: `if (len == -1) break;` (line 290).
BinPartEOF ==
  /\ BinLoop /\ pt.partial /\ Got(Chunk) = 0
  /\ pc' = "close"
  /\ UNCHANGED <<calls, pt, pos, rem, md, clearsig, fp, state, count, hashed,
                 total, err>>

\* Clear-signed text (lines 311-356): every byte is written unchanged, and
\* the digest sees the text with a line ending held back in state until the
\* next byte shows it was not the last.
ClearLoop == pc = "loop" /\ clearsig

\* The bytes the line-ending state machine still holds back in state st.
Pending(st) == CASE st = 0 -> <<>> [] st = 1 -> <<CR>> [] st = 2 -> <<CR, LF>>

\* Mutant: in state 1 a second CR is not put for the first.
ClearStepKeepCR(st, c) ==
  LET pre == IF st = 2 THEN <<CR, LF>> ELSE <<>>
      s0 == IF st = 2 THEN 0 ELSE st
  IN  CASE s0 = 0 /\ c = CR             -> [put |-> pre, st |-> 1]
        [] s0 = 0 /\ c = LF             -> [put |-> pre, st |-> 2]
        [] s0 = 0 /\ c \notin {CR, LF} -> [put |-> pre \o <<c>>, st |-> 0]
        [] s0 # 0 /\ c = LF             -> [put |-> pre, st |-> 2]
        [] s0 # 0 /\ c = CR             -> [put |-> pre, st |-> 1]
        [] OTHER                        -> [put |-> pre \o <<CR, c>>, st |-> 0]

\* One pass of the state machine on byte c (lines 328-353): a held CR LF
\* is put first; then CR is held (state 1), LF or CR LF is held as CR LF
\* (state 2), and a held CR followed by anything else is put.
ClearStep(st, c) ==
  LET pre == IF st = 2 THEN <<CR, LF>> ELSE <<>>
      s0 == IF st = 2 THEN 0 ELSE st
  IN  CASE s0 = 0 /\ c = CR             -> [put |-> pre, st |-> 1]
        [] s0 = 0 /\ c = LF             -> [put |-> pre, st |-> 2]
        [] s0 = 0 /\ c \notin {CR, LF} -> [put |-> pre \o <<c>>, st |-> 0]
        [] s0 # 0 /\ c = LF             -> [put |-> pre, st |-> 2]
        [] s0 # 0 /\ c = CR             -> [put |-> pre \o <<CR>>, st |-> 1]
        [] OTHER                        -> [put |-> pre \o <<CR, c>>, st |-> 0]

\* One byte: written first (counted against max_output); `if (!mfx->md)
\* continue;` skips the state machine.
ClearByte ==
  /\ ClearLoop /\ pos < Len(pt.data)
  /\ LET c == pt.data[pos + 1]
         r == ClearStep(state, c) IN
     /\ pos' = pos + 1
     /\ \E w \in Emit(<<c>>) :
          /\ Wrote(w)
          /\ IF w.err = "none" /\ md
               THEN hashed' = hashed \o r.put /\ state' = r.st
               ELSE UNCHANGED <<hashed, state>>
  /\ UNCHANGED <<calls, pt, rem, md, clearsig, fp>>

\* iobuf_get returns -1: what state still holds is never hashed.
ClearEnd ==
  /\ ClearLoop /\ pos = Len(pt.data)
  /\ pc' = "close"
  /\ UNCHANGED <<calls, pt, pos, rem, md, clearsig, fp, state, count, hashed,
                 total, err>>

\* After a loop (lines 358-380): a file handle_plaintext opened is closed
\* and a failing es_fclose is the error; then es_fflush(es_stdout) may fail,
\* which is the error only if there is none yet.
Close ==
  /\ pc = "close"
  /\ \E closeOK, flushOK \in BOOLEAN :
       LET e == IF fp = "file" /\ ~closeOK THEN "close" ELSE "none" IN
       err' = IF e = "none" /\ ~flushOK THEN "flush" ELSE e
  /\ pc' = "idle"
  /\ UNCHANGED <<calls, pt, pos, rem, md, clearsig, fp, state, count, hashed,
                 total>>

Next ==
  \/ Call
  \/ TextByte \/ TextReadFail \/ TextEnd
  \/ BinChunk \/ BinReadFail \/ BinEnd
  \/ BinNoMem \/ BinPartChunk \/ BinPartEOF
  \/ ClearByte \/ ClearEnd
  \/ Close

Spec == Init /\ [][Next]_vars

-----------------------------------------------------------------------------
(***************************************************************************)
(* Properties.                                                             *)
(***************************************************************************)
TypeOK ==
  /\ pc \in {"idle", "loop", "close"} /\ calls \in 0..MaxCalls
  /\ pt \in Packets \cup {[mode |-> "b", partial |-> FALSE, len |-> 0,
                           data |-> <<>>]}
  /\ pos \in 0..Len(pt.data) /\ rem \in 0..MaxLen
  /\ md \in BOOLEAN /\ clearsig \in BOOLEAN
  /\ fp \in {"none", "stdout", "file"} /\ state \in 0..2
  /\ count \in Nat /\ hashed \in Seq(Bytes) /\ total \in Nat
  /\ err \in {"none", "open", "unexpected", "read", "nomem", "toolarge",
              "write", "close", "flush"}

\* --max-output bounds what the process writes, not what one packet
\* writes: because count is static (line 140) and every loop charges the
\* bytes before writing them, the output files of all plaintext packets
\* together never get more than opt.max_output bytes.
OutputWithinLimit == MaxOutput # 0 => total <= MaxOutput

\* The clear-signed text is hashed as canonical text with only its last
\* line ending left out (comment at line 310, "don't hash the last CR,LF"):
\* at every point of the clearsig loop, the bytes put into the digest
\* followed by what the state machine holds back are the text read so far
\* with LF turned into CR LF; so at EOF exactly one held line ending is
\* dropped, and a CR inside a line is kept.
ClearsigHashCanonical ==
  clearsig /\ md /\ err = "none" =>
    hashed \o Pending(state) = Canon(SubSeq(pt.data, 1, pos))

\* A truncated packet is an error: a call that returns without one has
\* consumed the declared length of a known-length packet and all the data
\* of a partial one (lines 186-191, 221-227).
SuccessConsumedAll ==
  pc = "idle" /\ calls > 0 /\ err = "none" =>
    /\ pos = Len(pt.data)
    /\ ~pt.partial => rem = 0

=============================================================================
