----------------------------- MODULE KeyserverGet -----------------------------
(***************************************************************************)
(* Key retrieval in g10/keyserver.cpp: keyserver_get, which walks the      *)
(* descriptor array in batches; keyserver_get_chunk, which plans one batch *)
(* under the KS_GET line-length budget, sends it to dirmngr and streams    *)
(* the answer into the importer; and keyserver_retrieval_screener, which   *)
(* the importer calls on every keyblock the server returned.               *)
(*                                                                         *)
(* The server is untrusted: for every batch it may answer with any set of  *)
(* keyblocks, secret or public, of any keys.  What the model records is    *)
(* which descriptors were fetched, which batches were sent and which       *)
(* keyblocks were let through to the import.                               *)
(*                                                                         *)
(* Data abstraction: a key is a model value; a v3 key has a 16-byte and a  *)
(* v4 key a 20-byte fingerprint; ShortId gives the low 32 bits of its key  *)
(* id, so two keys may share it.  A descriptor names the key it was built  *)
(* from; an exact-name descriptor carries only the length of the name.     *)
(***************************************************************************)
EXTENDS Integers, Sequences

CONSTANTS
  Keys,        \* keys a server can return
  V3Keys,      \* keys whose fingerprint is 16 bytes (FPR16)
  ShortId(_),  \* keyid[1] of a key
  NameLens,    \* lengths of the names of exact searches
  MaxLen,      \* MAX_KS_GET_LINELEN
  Base,        \* the initial linelen, strlen("KS_GET --quick --")
  MaxDescs     \* bound: descriptors passed to keyserver_get

ASSUME GetAssumption ==
  /\ V3Keys \subseteq Keys
  /\ NameLens \subseteq Nat
  /\ MaxLen \in Nat /\ Base \in Nat
  /\ MaxDescs \in Nat \ {0}

Desc(mode, key, len) == [mode |-> mode, key |-> key, len |-> len]

(***************************************************************************)
(* The descriptor arrays keyserver_get is called with (lines 760-836,      *)
(* 968, 508): keyserver_import, keyserver_import_fprint/_keyid, refresh    *)
(* (keyidlist) and the search prompt pass key ids and fingerprints only;   *)
(* keyserver_import_name passes one exact-name descriptor alone.  No       *)
(* caller passes KEYDB_SEARCH_MODE_NONE.                                   *)
(***************************************************************************)
IdDescs ==
  {Desc("fpr20", k, 0) : k \in Keys \ V3Keys}
    \cup {Desc("fpr16", k, 0) : k \in V3Keys}
    \cup {Desc(m, k, 0) : m \in {"long", "short"}, k \in Keys}
ExactDescs == {Desc("exact", "name", n) : n \in NameLens}

SeqsUpTo(S, n) == UNION {[1..m -> S] : m \in 1..n}
Inputs == SeqsUpTo(IdDescs, MaxDescs) \cup {<<d>> : d \in ExactDescs}

\* A keyblock: its public key and subkey packets, and whether it holds a
\* secret key packet.
Blocks == [secret : BOOLEAN, keys : (SUBSET Keys) \ {{}}]

-----------------------------------------------------------------------------
(***************************************************************************)
(* keyserver_get_chunk's planning loop (lines 1089-1189).                  *)
(***************************************************************************)
\* n, the estimated length a pattern adds to the KS_GET line.
Cost(d) ==
  CASE d.mode \in {"fpr20", "fpr16"} -> 1 + 2 + 2 * 20
    [] d.mode = "long"  -> 1 + 2 + 16
    [] d.mode = "short" -> 1 + 2 + 8
    [] d.mode = "exact" -> 1 + 1 + d.len

\* The estimated length of the patterns of s.
SumCost(s) ==
  LET f[i \in 0..Len(s)] == IF i = 0 THEN 0 ELSE f[i - 1] + Cost(s[i])
  IN  f[Len(s)]

\* Mutant: the guard without `idx &&`.
BreaksAlways(d, idx) ==
  Base + SumCost(SubSeq(d, 1, idx)) + Cost(d[idx + 1]) > MaxLen

\* Mutant: linelen is never increased past the baseline.
BreaksNoSum(d, idx) == idx # 0 /\ Base + Cost(d[idx + 1]) > MaxLen

\* `if (idx && linelen + n > MAX_KS_GET_LINELEN) break;` at 0-based idx,
\* where linelen is the baseline plus the patterns of desc[0 .. idx-1].
Breaks(d, idx) ==
  idx # 0 /\ Base + SumCost(SubSeq(d, 1, idx)) + Cost(d[idx + 1]) > MaxLen

\* *r_ndesc_used: the idx at which the loop stopped.
Used(d) ==
  IF \E idx \in 0..Len(d) - 1 : Breaks(d, idx)
    THEN CHOOSE idx \in 0..Len(d) - 1 :
           Breaks(d, idx) /\ \A j \in 0..idx - 1 : ~Breaks(d, j)
    ELSE Len(d)

-----------------------------------------------------------------------------
(***************************************************************************)
(* keyserver_retrieval_screener (lines 701-752).                           *)
(***************************************************************************)
FprLen(k) == IF k \in V3Keys THEN 16 ELSE 20

\* One iteration of the inner loop: does desc[n] let key packet k through?
\* Modes other than the four id modes cannot be checked and allow import.
Match(k, d) ==
  CASE d.mode = "fpr20" -> FprLen(k) = 20 /\ d.key = k
    [] d.mode = "fpr16" -> FprLen(k) = 16 /\ d.key = k
    [] d.mode = "long"  -> d.key = k
    [] d.mode = "short" -> ShortId(d.key) = ShortId(k)
    [] OTHER -> TRUE

Screener(b, desc) ==
  /\ ~b.secret
  /\ \/ Len(desc) = 0
     \/ \E k \in b.keys, n \in 1..Len(desc) : Match(k, desc[n])

\* Mutant: screenerarg.ndesc is left 0.
ScreenArgNone(d, u) == <<>>

\* screenerarg: desc and ndesc = *r_ndesc_used (lines 1206-1207).
ScreenArg(d, u) == SubSeq(d, 1, u)

\* Mutant: the cursor is advanced one descriptor too far.
RemainingSkip(d, u) == SubSeq(d, u + 2, Len(d))

\* desc += ndesc_used; ndesc -= ndesc_used (lines 1248-1249).
Remaining(d, u) == SubSeq(d, u + 1, Len(d))

-----------------------------------------------------------------------------
VARIABLES
  input,     \* the caller's descriptor array
  rest,      \* (desc, ndesc) at the top of keyserver_get's loop
  fetched,   \* history: descriptors of the batches KS_GET answered, in order
  batches,   \* history: every batch of patterns sent to KS_GET
  imported,  \* history: keyblocks the screener let through to the import
  pc,        \* "get" in the loop, "done" when keyserver_get returns
  err        \* the error keyserver_get returns

vars == <<input, rest, fetched, batches, imported, pc, err>>

Init ==
  /\ input \in Inputs /\ rest = input
  /\ fetched = <<>> /\ batches = {} /\ imported = {}
  /\ pc = "get" /\ err = "none"

\* keyserver_get_chunk's xtrycalloc of the pattern array or xtrymalloc of a
\* pattern fails (lines 1085-1086, 1167-1171): *r_ndesc_used is still 0, the
\* error breaks keyserver_get's loop.
ChunkNoMem ==
  /\ pc = "get"
  /\ err' = "nomem" /\ pc' = "done"
  /\ UNCHANGED <<input, rest, fetched, batches, imported>>

\* Mutant: the failed batch is skipped and the loop goes on.
ChunkFailSkip ==
  /\ pc = "get"
  /\ batches' = batches \cup {SubSeq(rest, 1, Used(rest))}
  /\ rest' = Remaining(rest, Used(rest))
  /\ err' = "ksget" /\ pc' = IF rest' = <<>> THEN "done" ELSE "get"
  /\ UNCHANGED <<input, fetched, imported>>

\* The batch is planned and sent, and gpg_dirmngr_ks_get fails (1191-1196).
ChunkFail ==
  /\ pc = "get"
  /\ batches' = batches \cup {SubSeq(rest, 1, Used(rest))}
  /\ err' = "ksget" /\ pc' = "done"
  /\ UNCHANGED <<input, rest, fetched, imported>>

\* KS_GET answers with any keyblocks; import_keys_es_stream screens each one
\* (1198-1218); keyserver_get advances past the batch and stops once all
\* descriptors are used (1241-1250).
ChunkFetched ==
  LET u == Used(rest)
      batch == SubSeq(rest, 1, u)
  IN
  /\ pc = "get"
  /\ \E answer \in SUBSET Blocks :
       imported' = imported \cup {b \in answer : Screener(b, ScreenArg(rest, u))}
  /\ batches' = batches \cup {batch}
  /\ fetched' = fetched \o batch
  /\ rest' = Remaining(rest, u)
  /\ pc' = IF u >= Len(rest) THEN "done" ELSE "get"
  /\ UNCHANGED <<input, err>>

Next == ChunkNoMem \/ ChunkFail \/ ChunkFetched

\* keyserver_get is a plain loop of the calling thread: while it runs, a
\* successful KS_GET keeps being possible and eventually happens unless an
\* error ends the loop.  Errors are possible, never assumed.
Spec == Init /\ [][Next]_vars /\ WF_vars(ChunkFetched)

-----------------------------------------------------------------------------
(***************************************************************************)
(* Properties.                                                             *)
(***************************************************************************)
TypeOK ==
  /\ input \in Inputs /\ rest \in Seq(IdDescs \cup ExactDescs)
  /\ fetched \in Seq(IdDescs \cup ExactDescs)
  /\ batches \subseteq Seq(IdDescs \cup ExactDescs)
  /\ imported \subseteq Blocks
  /\ pc \in {"get", "done"} /\ err \in {"none", "nomem", "ksget"}

\* The batches planned by keyserver_get_chunk and consumed by keyserver_get
\* (spec section 8): the descriptors fetched so far, followed by those not
\* yet planned, are the caller's array, so no descriptor is skipped or
\* fetched twice; and when keyserver_get returns without error every
\* descriptor has been fetched.
FetchedInOrder ==
  /\ fetched \o rest = input
  /\ pc = "done" /\ err = "none" => fetched = input

\* No KS_GET line with more than one pattern exceeds MAX_KS_GET_LINELEN
\* (spec section 8): the line-length estimate of keyserver_get_chunk.
BatchFits ==
  \A b \in batches : Len(b) >= 2 => Base + SumCost(b) <= MaxLen

\* A rogue keyserver cannot get a key imported that the caller did not ask
\* for, nor any secret key: every keyblock let through has no secret key
\* packet and a key packet that some requested descriptor names (an exact
\* name request, which the screener cannot check, names any key).
ImportsRequested ==
  \A b \in imported :
    /\ ~b.secret
    /\ \E k \in b.keys, n \in 1..Len(input) : Match(k, input[n])

\* keyserver_get returns: every batch consumes at least one descriptor, even
\* an exact name longer than the whole KS_GET line.
Terminates == <>(pc = "done")

-----------------------------------------------------------------------------
(***************************************************************************)
(* Refinement: keyserver_get implements KeyserverGetAbstract.  A keyblock  *)
(* is permitted for a request when it holds no secret key and a key packet *)
(* that one of the requested descriptors names.  The plan of a batch, the  *)
(* batches sent and the screener's use of the batch alone are hidden;      *)
(* Blocks is substituted by the definition of the same name.              *)
(***************************************************************************)
Requested(b, req) ==
  ~b.secret /\ \E k \in b.keys, n \in 1..Len(req) : Match(k, req[n])

Abs == INSTANCE KeyserverGetAbstract
         WITH Descs <- IdDescs \cup ExactDescs,
              Errors <- {"nomem", "ksget"}, Permitted <- Requested,
              requested <- input, todo <- rest, got <- fetched,
              status <- pc,
              outcome <- err, accepted <- imported

\* keyserver_get as its callers see it: the caller's descriptors are fetched
\* in order in consecutive non-empty batches, each imported keyblock is
\* permitted for the request, the first failed KS_GET or allocation ends
\* the call with that error, and without one every descriptor is fetched.
GetRefines == Abs!Spec

=============================================================================
