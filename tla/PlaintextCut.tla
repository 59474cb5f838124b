---------------------------- MODULE PlaintextCut ----------------------------
(***************************************************************************)
(* handle_plaintext (g10/plaintext.cpp) with one history variable, entry:  *)
(* the bytes written by all calls before the current one, recorded when   *)
(* the call starts.  total - entry is then what the current call has put   *)
(* into its output file, which lets a property speak of where a call cut   *)
(* by --max-output stops.  The steps of Plaintext are taken unchanged.     *)
(***************************************************************************)
EXTENDS Plaintext

VARIABLE entry

cutVars == <<vars, entry>>

CutInit == Init /\ entry = 0

\* Only Call leaves pc = "idle"; it starts a call and records total.
CutNext == Next /\ entry' = IF pc = "idle" THEN total ELSE entry

CutSpec == CutInit /\ [][CutNext]_cutVars

\* The bytes the current call has written.
CallOut == total - entry

\* A binary packet cut by --max-output stops at a chunk boundary: the
\* binary loops (not the clearsig loop, which writes byte by byte)
\* charge each chunk to count before es_fwrite (line 231) and fail the
\* call without writing when the charge crosses opt.max_output, so the
\* output of the call is all the chunks before the crossing one, each a
\* full chunk, and no byte of the crossing one, although that chunk was
\* read and hashed.
CutAtChunk ==
  err = "toolarge" /\ pt.mode = "b" /\ ~clearsig =>
    /\ CallOut % Chunk = 0
    /\ pos - CallOut \in 1..Chunk
=============================================================================
