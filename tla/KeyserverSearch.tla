--------------------------- MODULE KeyserverSearch ---------------------------
(***************************************************************************)
(* The keyserver search engine of g10/keyserver.cpp: keyserver_search,     *)
(* the line callback search_line_handler it hands to the dirmngr           *)
(* transport, the colon-record parser parse_keyrec and the interactive     *)
(* prompt show_prompt.                                                     *)
(*                                                                         *)
(* The program is single threaded, but the handler is a callback: the      *)
(* transport calls it once per server line and once with NULL at end of    *)
(* stream, and it may block inside show_prompt on the user.  Both are      *)
(* modelled as separate steps (pc = "recv" waits for the server, pc =      *)
(* "prompt" for the user), so every interleaving of server lines, prompt   *)
(* answers, transport failures and successive searches is explored.        *)
(*                                                                         *)
(* Two pieces of state are function-static in the code and outlive a       *)
(* search: the parser's in-progress record `work` (parse_keyrec) and the   *)
(* prompt's `from` counter (show_prompt).  Everything in parm is zeroed    *)
(* at the start of each keyserver_search.                                  *)
(*                                                                         *)
(* Data abstraction: a descriptor is a model value of Keys; a line is a    *)
(* record saying which branch of the handler and parser it takes.  The     *)
(* fields of a pub line other than the descriptor (algorithm, size, dates, *)
(* flags) and the text of uid lines only reach print_keyrec and are left   *)
(* out; what a uid line changes is the record's display line count.        *)
(***************************************************************************)
EXTENDS Integers, Sequences

CONSTANTS
  Keys,         \* descriptors a pub line can classify to (short/long id, fpr)
  NoKey,        \* KEYDB_SEARCH_MODE_NONE: a pub token that did not classify
  InfoCounts,   \* key counts a server may declare on its info: line
  ScreenLines,  \* opt.screen_lines
  WithColons,   \* opt.with_colons
  Batch,        \* opt.batch
  MaxLines,     \* bound: server lines per search
  MaxSearches   \* bound: keyserver_search calls per process

ASSUME KeysAssumption == NoKey \notin Keys
ASSUME ConstAssumption ==
  /\ InfoCounts \subseteq Int
  /\ ScreenLines \in Nat
  /\ WithColons \in BOOLEAN /\ Batch \in BOOLEAN
  /\ MaxLines \in Nat /\ MaxSearches \in Nat

(***************************************************************************)
(* Server lines.  The version field stands for "1" (or unparsable, which  *)
(* sscanf turns into 1) and for any other number (2).                      *)
(***************************************************************************)
Line(tag, key, ver, hasCnt, cnt) ==
  [tag |-> tag, key |-> key, ver |-> ver, hasCnt |-> hasCnt, cnt |-> cnt]

InfoLines ==
  {Line("info", NoKey, v, TRUE, c) : v \in {1, 2}, c \in InfoCounts}
    \cup {Line("info", NoKey, 1, FALSE, 0)}
PubLines == {Line("pub", k, 1, FALSE, 0) : k \in Keys \cup {NoKey}}
\* "uid" with a non-empty text, and every line parse_keyrec ignores
\* (unknown tags, empty uid fields, uid lines of a dead record).
OtherLines == {Line("uid", NoKey, 1, FALSE, 0), Line("other", NoKey, 1, FALSE, 0)}
ServerLines == InfoLines \cup PubLines \cup OtherLines

(***************************************************************************)
(* struct keyrec, reduced to its descriptor and its display line count.    *)
(***************************************************************************)
NoRec == [mode |-> NoKey, lines |-> -1]        \* the NULL keyrec pointer
Fresh == [mode |-> NoKey, lines |-> 0]         \* xmalloc_clear'ed keyrec
Live(r) == r # NoRec /\ r.mode # NoKey

\* No "Keys x-y of z" header shown yet in this search.
NoHeader == [from |-> 0, to |-> 0, after |-> -1]

Results == {"none", "ok", "canceled", "unsupported", "transport", "nomem", "getfail"}

VARIABLES
  work,        \* static struct keyrec *work of parse_keyrec
  freed,       \* work points to a record parse_keyrec has xfree'd
  from,        \* static int from of show_prompt
  header,      \* history: the last "Keys x-y of z" header of this search
  count, validcount, nkeys, anyLines, numlines, eofSeen, notFound,
  descs,       \* parm->desc[0 .. ]: the descriptors written so far
  alloc,       \* parm->desc != NULL
  pc,          \* "idle", "recv", "again" (the goto again loop), "prompt"
  resume,      \* where show_prompt returns to: "mid" or "final"
  pending,     \* the keyrec being stored while a mid-listing prompt waits
  streamOpen,  \* the transport has not delivered end of stream yet
  received,    \* lines delivered in this search
  searches,    \* keyserver_search calls so far
  result,      \* what the last keyserver_search returned
  served,      \* history: live pub descriptors sent in this search, in order
  carried,     \* history: the live record parse_keyrec held when it began
  declared     \* history: the count of the info: line (0 if none)

parm == <<count, validcount, nkeys, anyLines, numlines, eofSeen, notFound,
          descs, alloc>>
vars == <<work, freed, from, header, parm, pc, resume, pending, streamOpen,
          received, searches, result, served, carried, declared>>

Elems(s) == {s[i] : i \in DOMAIN s}
InProgress == IF Live(work) THEN <<work.mode>> ELSE <<>>

-----------------------------------------------------------------------------
(***************************************************************************)
(* parse_keyrec(line) and parse_keyrec(NULL), as functions of the static   *)
(* record: the new static record and the completed record returned.        *)
(***************************************************************************)
ParseLine(l) ==
  LET w == IF work = NoRec THEN Fresh ELSE work
      base == IF w.mode # NoKey THEN Fresh ELSE w
  IN CASE l.tag = "pub" /\ l.key \in Keys ->
            [work |-> [mode |-> l.key, lines |-> base.lines + 1],
             ret  |-> IF w.mode # NoKey THEN w ELSE NoRec]
       [] l.tag = "pub" /\ l.key \notin Keys ->
            [work |-> [base EXCEPT !.mode = NoKey],
             ret  |-> IF w.mode # NoKey THEN w ELSE NoRec]
       [] l.tag = "uid" /\ w.mode # NoKey ->
            [work |-> [w EXCEPT !.lines = @ + 1], ret |-> NoRec]
       [] OTHER -> [work |-> w, ret |-> NoRec]

\* Mutant: the live record is returned but the static pointer not cleared.
ParseEOFNoClear ==
  CASE work = NoRec -> [work |-> NoRec, ret |-> NoRec, freed |-> FALSE]
    [] work # NoRec /\ work.mode = NoKey -> [work |-> work, ret |-> NoRec, freed |-> TRUE]
    [] OTHER -> [work |-> work, ret |-> work, freed |-> FALSE]

\* Lines 317-327.  A dead record is xfree'd but `work` is not reset to NULL:
\* the static pointer is left dangling (freed = TRUE).
ParseEOF ==
  CASE work = NoRec -> [work |-> NoRec, ret |-> NoRec, freed |-> FALSE]
    [] work # NoRec /\ work.mode = NoKey -> [work |-> work, ret |-> NoRec, freed |-> TRUE]
    [] OTHER -> [work |-> NoRec, ret |-> work, freed |-> FALSE]

-----------------------------------------------------------------------------
(***************************************************************************)
(* Pieces of search_line_handler.                                          *)
(***************************************************************************)
\* The handler returns an error or the final prompt returns: the transport
\* stops calling back and keyserver_search returns.
EndSearch(err) ==
  /\ pc' = "idle" /\ result' = err
  /\ resume' = "mid" /\ pending' = NoRec

\* show_prompt(desc, nkeys, shown, ...) up to its blocking read, where shown
\* is `validcount ? count : 0`: the "Keys x-y of z" header moves `from`.
Prompt(kind, shown) ==
  /\ from' = IF shown # 0 THEN nkeys + 1 ELSE from
  /\ header' = IF shown # 0
                THEN [from |-> from, to |-> nkeys,
                      after |-> IF header = NoHeader THEN 0 ELSE header.to]
                ELSE header
  /\ pc' = "prompt" /\ resume' = kind

\* Lines 652-661: account the printed record; loop if flushing after EOF.
FinishStore(r, lines0, eof) ==
  /\ numlines' = lines0 + r.lines
  /\ anyLines' = TRUE
  /\ nkeys' = nkeys + 1
  /\ pc' = IF eof THEN "again" ELSE "recv"
  /\ pending' = NoRec
  /\ UNCHANGED <<from, header, resume>>

\* Lines 606-610: no array yet; a count below 1 is replaced by 10.
NeedDefault == ~alloc /\ count < 1

\* Mutant: the array is grown only once nkeys has passed count.
FullLate == alloc /\ nkeys > count

\* Line 619: the array is full, the server sent more than it declared.
Full == alloc /\ nkeys = count

NewCount == CASE NeedDefault -> 10
              [] Full -> count + 10
              [] OTHER -> count

\* Mutant: growing the array keeps the "Keys x-y of z" total.
NewValidKeep == IF NeedDefault THEN FALSE ELSE validcount

\* Lines 609 and 634: a substituted or grown count is not the server's.
NewValid == IF NeedDefault \/ Full THEN FALSE ELSE validcount

\* Lines 604-661: save a completed keyrec in parm->desc, growing it, and
\* prompt first if it would not fit on the screen.
Store(r, eof) ==
  \/ /\ ~alloc \/ Full                          \* xtrymalloc/xtryrealloc fail
     /\ EndSearch("nomem")
     /\ UNCHANGED <<from, header, count, validcount, nkeys, anyLines, numlines,
                    descs, alloc>>
  \/ /\ count' = NewCount /\ validcount' = NewValid /\ alloc' = TRUE
     /\ descs' = Append(descs, r.mode)
     /\ IF ~WithColons /\ numlines + r.lines > ScreenLines - 1
          THEN /\ pending' = r
               /\ UNCHANGED <<nkeys, anyLines, numlines>>
               /\ Prompt("mid", IF NewValid THEN NewCount ELSE 0)
          ELSE FinishStore(r, numlines, eof)
     /\ UNCHANGED result

\* Lines 584-600 and 604: what the handler does after parse_keyrec(NULL).
AfterFlush ==
  LET f == ParseEOF IN
  /\ work' = f.work /\ freed' = f.freed
  /\ IF f.ret # NoRec
       THEN Store(f.ret, TRUE) /\ UNCHANGED notFound
     ELSE IF nkeys = 0
       THEN /\ notFound' = TRUE /\ EndSearch("ok")
            /\ UNCHANGED <<from, header, count, validcount, nkeys, anyLines, numlines,
                           descs, alloc>>
     ELSE /\ validcount' = (validcount /\ nkeys = count)
          /\ UNCHANGED <<count, nkeys, anyLines, numlines, descs, alloc, notFound>>
          /\ IF ~(WithColons /\ Batch)
               THEN /\ Prompt("final", IF validcount /\ nkeys = count THEN count ELSE 0)
                    /\ UNCHANGED <<pending, result>>
               ELSE EndSearch("ok") /\ UNCHANGED <<from, header>>

-----------------------------------------------------------------------------
Init ==
  /\ work = NoRec /\ freed = FALSE /\ from = 1 /\ header = NoHeader
  /\ count = 0 /\ validcount = FALSE /\ nkeys = 0 /\ anyLines = FALSE
  /\ numlines = 0 /\ eofSeen = FALSE /\ notFound = FALSE
  /\ descs = <<>> /\ alloc = FALSE
  /\ pc = "idle" /\ resume = "mid" /\ pending = NoRec
  /\ streamOpen = FALSE /\ received = 0 /\ searches = 0 /\ result = "none"
  /\ served = <<>> /\ carried = <<>> /\ declared = 0

\* keyserver_search with a non-empty token list (986-1017): parm is zeroed,
\* the static parser record is not.
StartSearch ==
  /\ pc = "idle" /\ searches < MaxSearches
  /\ searches' = searches + 1
  /\ count' = 0 /\ validcount' = FALSE /\ nkeys' = 0 /\ anyLines' = FALSE
  /\ numlines' = 0 /\ eofSeen' = FALSE /\ notFound' = FALSE
  /\ descs' = <<>> /\ alloc' = FALSE
  /\ pc' = "recv" /\ streamOpen' = TRUE /\ received' = 0
  /\ served' = <<>> /\ carried' = InProgress /\ declared' = 0
  /\ header' = NoHeader
  /\ UNCHANGED <<work, freed, from, resume, pending, result>>

\* search_line_handler(line) for an info: line before any record (550-578).
ReceiveInfo(l) ==
  /\ pc = "recv" /\ streamOpen /\ received < MaxLines
  /\ l.tag = "info" /\ ~anyLines
  /\ received' = received + 1
  /\ IF l.ver # 1
       THEN /\ EndSearch("unsupported")
            /\ UNCHANGED <<count, validcount, notFound, anyLines, declared>>
       ELSE /\ IF l.hasCnt
                 THEN /\ count' = IF l.cnt < 0 THEN 10 ELSE l.cnt
                      /\ notFound' = (notFound \/ l.cnt = 0)
                      /\ validcount' = (validcount \/ l.cnt > 0)
                      /\ declared' = l.cnt
                 ELSE UNCHANGED <<count, validcount, notFound, declared>>
            /\ anyLines' = TRUE
            /\ UNCHANGED <<pc, resume, pending, result>>
  /\ UNCHANGED <<work, freed, from, header, nkeys, numlines, eofSeen, descs, alloc,
                 streamOpen, searches, served, carried>>

\* search_line_handler(line) for every other line (580-582, 604-664).
ReceiveLine(l) ==
  /\ pc = "recv" /\ streamOpen /\ received < MaxLines
  /\ ~(l.tag = "info" /\ ~anyLines)
  /\ ~(freed /\ l.tag \in {"pub", "uid"})
  /\ received' = received + 1
  /\ served' = IF l.tag = "pub" /\ l.key \in Keys
                 THEN Append(served, l.key) ELSE served
  /\ LET p == ParseLine(l) IN
       /\ work' = p.work
       /\ IF p.ret # NoRec
            THEN Store(p.ret, FALSE)
            ELSE UNCHANGED <<from, header, parm, pc, resume, pending, result>>
  /\ UNCHANGED <<freed, eofSeen, notFound, streamOpen, searches, carried,
                 declared>>

\* search_line_handler(NULL): end of stream (584-586).
ReceiveEOF ==
  /\ pc = "recv" /\ streamOpen /\ ~freed
  /\ streamOpen' = FALSE /\ eofSeen' = TRUE
  /\ AfterFlush
  /\ UNCHANGED <<received, searches, served, carried, declared>>

\* parse_keyrec is entered while its static pointer refers to the record it
\* freed at the end of an earlier search, and reads work->desc.mode from
\* freed memory: at end of stream (line 320) or for a pub or uid line
\* (lines 343, 408).  What follows is undefined; the model stops in "ub".
\* End of stream can come at any time the stream is open, so the guard
\* needs no line.
ReadFreed ==
  /\ pc = "recv" /\ streamOpen /\ freed
  /\ pc' = "ub"
  /\ UNCHANGED <<work, freed, from, header, parm, resume, pending, streamOpen,
                 received, searches, result, served, carried, declared>>

\* `goto again` after a record flushed at end of stream was stored.
Again ==
  /\ pc = "again"
  /\ AfterFlush
  /\ UNCHANGED <<eofSeen, streamOpen, received, searches, served, carried,
                 declared>>

\* gpg_dirmngr_ks_search fails: no further callbacks.
TransportFail ==
  /\ pc = "recv" /\ streamOpen
  /\ EndSearch("transport")
  /\ UNCHANGED <<work, freed, from, header, parm, streamOpen, received, searches,
                 served, carried, declared>>

(***************************************************************************)
(* show_prompt after cpr_get_no_help returns (467-515).  An answer with    *)
(* more than DIM(numarray) valid numbers jumps back to the read without    *)
(* changing any state: it is a stuttering step here.                       *)
(***************************************************************************)
\* What the user's answer leaves alone.
UserFrame == UNCHANGED <<work, freed, streamOpen, received, searches, served,
                         carried, declared>>

\* Mutant: after the prompt, the handler forgets that it was flushing at end
\* of stream.
ResumeNoEof ==
  IF resume = "mid"
    THEN /\ FinishStore(pending, 0, FALSE)
         /\ UNCHANGED <<count, validcount, eofSeen, notFound, descs, alloc, result>>
    ELSE /\ EndSearch("ok")
         /\ UNCHANGED <<from, header, parm>>

\* show_prompt returned 0: continue the handler where it called show_prompt.
Resume ==
  IF resume = "mid"
    THEN /\ FinishStore(pending, 0, eofSeen)
         /\ UNCHANGED <<count, validcount, eofSeen, notFound, descs, alloc, result>>
    ELSE /\ EndSearch("ok")
         /\ UNCHANGED <<from, header, parm>>

\* 'q', 'Q' or control-D.
Quit ==
  /\ pc = "prompt"
  /\ EndSearch("canceled")
  /\ UNCHANGED <<from, header, parm>> /\ UserFrame

\* An answer whose leading number is not in 1..numdesc ("N" for next).
Skip ==
  /\ pc = "prompt"
  /\ Resume /\ UserFrame

\* Valid numbers: keyserver_get on the selected descriptors.
Select ==
  /\ pc = "prompt" /\ nkeys >= 1
  /\ \/ Resume
     \/ EndSearch("getfail") /\ UNCHANGED <<from, header, parm>>
  /\ UserFrame

-----------------------------------------------------------------------------
ServerStep ==
  \/ \E l \in ServerLines : ReceiveInfo(l) \/ ReceiveLine(l)
  \/ ReceiveEOF
  \/ ReadFreed
  \/ TransportFail

UserStep == Quit \/ Skip \/ Select

Next ==
  \/ StartSearch
  \/ ServerStep
  \/ Again
  \/ UserStep

\* The transport eventually delivers a line, end of stream or an error; the
\* user eventually answers; the handler's own loop runs.  Starting a search
\* is up to the caller and is not assumed.
Fairness == WF_vars(ServerStep) /\ WF_vars(Again) /\ WF_vars(UserStep)

Spec == Init /\ [][Next]_vars /\ Fairness

-----------------------------------------------------------------------------
(***************************************************************************)
(* Properties.                                                             *)
(***************************************************************************)
Rec == [mode : Keys \cup {NoKey}, lines : Int]

TypeOK ==
  /\ work \in Rec /\ pending \in Rec /\ freed \in BOOLEAN
  /\ from \in Int /\ count \in Int /\ nkeys \in Nat /\ numlines \in Int
  /\ validcount \in BOOLEAN /\ anyLines \in BOOLEAN /\ eofSeen \in BOOLEAN
  /\ notFound \in BOOLEAN /\ alloc \in BOOLEAN /\ streamOpen \in BOOLEAN
  /\ descs \in Seq(Keys)
  /\ pc \in {"idle", "recv", "again", "prompt", "ub"} /\ resume \in {"mid", "final"}
  /\ received \in Nat /\ searches \in Nat /\ result \in Results
  /\ served \in Seq(Keys) /\ carried \in Seq(Keys) /\ declared \in Int

\* Memory safety of the descriptor array (lines 606-637): every slot the
\* handler writes, parm->desc[parm->nkeys], lies inside the count entries
\* allocated, across the initial allocation, the +10 growth when a server
\* sends more keys than its info: line declared, and the info: line that
\* sets count before any record.
DescInBounds == alloc => Len(descs) <= count

\* The parser (parse_keyrec with its static record) and the handler's flush
\* loop at end of stream turn the stream into records faithfully: the
\* descriptors stored so far followed by the record still being parsed are
\* exactly the live pub blocks received in this search, in order, after
\* whatever record parse_keyrec still held from before the search began.
ParsedInOrder == pc \in {"recv", "again", "prompt"} => descs \o InProgress = carried \o served

\* The "Keys x-y of z" header (show_prompt, shown when validcount is set)
\* states the count of the server's info: line, and at the last prompt the
\* server sent exactly that many keys; while listing, fewer were shown.
HeaderTruthful ==
  pc = "prompt" /\ validcount =>
    /\ count = declared
    /\ resume = "final" => nkeys = declared
    /\ resume = "mid" => nkeys < declared

\* Every keyserver_search returns (or runs into the undefined behaviour of
\* NoUseAfterFree): the transport ends its stream, the user answers, and the
\* end-of-stream `goto again` loop, entered again after a prompt shown in the
\* middle of the flush, reaches the final prompt.
SearchReturns == pc \in {"recv", "again", "prompt"} ~> pc \in {"idle", "ub"}

\* parse_keyrec never reads through its static pointer after freeing the
\* record it points to (lines 317-322): a search that ends on a pub line
\* with an unclassifiable token must leave no dangling record for the next
\* search (the spec, section 4.2, keeps parser state per session).
NoUseAfterFree == pc # "ub"

\* The spec (section 4.3, section 8) says that info:1:0: marks the search
\* not-found with zero records even if later lines are present.
NotFoundHasNoRecords == notFound => nkeys = 0

\* The spec (sections 3 and 9) says no record state survives from one
\* search to the next: every descriptor offered at this search's prompts
\* came from a pub line of this search's response.
NoForeignRecords == \A i \in DOMAIN descs : descs[i] \in Elems(served)

\* The spec (section 4.3) says an info: line is recognised only as the first
\* line of the response.
InfoOnlyFirst == [][\A l \in ServerLines : ReceiveInfo(l) => received = 0]_vars

\* The spec (section 4.4) has show_prompt present "records [from, to] of
\* [total]" of this search, and (section 3) no session state surviving the
\* search: every "Keys x-y of z" header starts one past the last key of the
\* previous header of the same search, and the first at 1.  `static int
\* from` (line 462) is set at every header and never reset.
HeaderContinues == header # NoHeader => header.from = header.after + 1

=============================================================================
