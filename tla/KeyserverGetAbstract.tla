-------------------------- MODULE KeyserverGetAbstract --------------------------
(***************************************************************************)
(* What keyserver_get promises its callers (g10/keyserver.cpp, spec        *)
(* section 4.5), with the batching, the line-length estimate and the       *)
(* screener's matching rules left out: the requested descriptors are       *)
(* fetched in order, in consecutive non-empty batches; the first failure   *)
(* ends the call; a keyblock is accepted only if it is permitted for the   *)
(* request; and unless a failure ends it, the call fetches everything.     *)
(***************************************************************************)
EXTENDS Integers, Sequences

CONSTANTS
  Descs,           \* descriptors
  Blocks,          \* keyblocks a server can return
  Errors,          \* the errors a batch can end the call with
  Permitted(_, _)  \* Permitted(b, req): b may be accepted for request req

VARIABLES
  requested,  \* the descriptors of the call
  todo,       \* those not fetched yet
  got,        \* those fetched, in order
  status,     \* "get" while the call runs, "done" once it has returned
  outcome,    \* "none" or the error the call returns
  accepted    \* keyblocks handed to the import

avars == <<requested, todo, got, status, outcome, accepted>>

Init ==
  /\ requested \in Seq(Descs) /\ requested # <<>>
  /\ todo = requested /\ got = <<>>
  /\ status = "get" /\ outcome = "none" /\ accepted = {}

\* A batch of the next k descriptors is fetched; what the server answered
\* is accepted as far as it is permitted.
Fetch ==
  /\ status = "get"
  /\ \E k \in 1..Len(todo) :
       /\ got' = got \o SubSeq(todo, 1, k)
       /\ todo' = SubSeq(todo, k + 1, Len(todo))
       /\ status' = IF k = Len(todo) THEN "done" ELSE "get"
  /\ \E new \in SUBSET {b \in Blocks : Permitted(b, requested)} :
       accepted' = accepted \cup new
  /\ UNCHANGED <<requested, outcome>>

\* A batch fails: the call returns its error.
Fail ==
  /\ status = "get"
  /\ status' = "done" /\ outcome' \in Errors
  /\ UNCHANGED <<requested, todo, got, accepted>>

Next == Fetch \/ Fail

Spec == Init /\ [][Next]_avars /\ WF_avars(Fetch)

=============================================================================
