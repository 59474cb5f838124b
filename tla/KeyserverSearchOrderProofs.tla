--------------------- MODULE KeyserverSearchOrderProofs ---------------------
(***************************************************************************)
(* Proofs that the search engine of KeyserverSearch lists what the server  *)
(* sent: the descriptors stored are the live pub blocks of the stream in   *)
(* order (ParsedInOrder), and the "Keys x-y of z" header states the        *)
(* server's count truthfully (HeaderTruthful), for every set of keys,      *)
(* every declared count, every screen size and every bound.  The proofs    *)
(* rest on the strengthening IInv of KeyserverSearchProofs.                *)
(***************************************************************************)
EXTENDS KeyserverSearchProofs, SequenceTheorems

\* The record r as a descriptor still to be stored: one if it is live.
Prog(r) == IF Live(r) THEN <<r.mode>> ELSE <<>>

\* A keyrec returned by parse_keyrec as the descriptors it adds (NULL none).
RetSeq(r) == IF r # NoRec THEN <<r.mode>> ELSE <<>>

\* The descriptor a line contributes to the stream's live pub blocks.
NewPub(l) == IF l.tag = "pub" /\ l.key \in Keys THEN <<l.key>> ELSE <<>>

\* Concatenation of descriptor lists is associative.  The conclusion is
\* named: the provers instantiate a lemma with it where they do not reliably
\* instantiate one with the bare equation.
AssocSeq(x, y, z) == (x \o y) \o z = x \o (y \o z)

LEMMA Assoc3 ==
  ASSUME NEW x \in Seq(Keys), NEW y \in Seq(Keys), NEW z \in Seq(Keys)
  PROVE  AssocSeq(x, y, z)
BY ConcatAssociative DEF AssocSeq

\* A record, and a record parse_keyrec returns, as descriptors.
LEMMA ProgType ==
  ASSUME NEW r \in Rec
  PROVE  /\ Prog(r) \in Seq(Keys)
         /\ r = NoRec \/ r.mode \in Keys => RetSeq(r) \in Seq(Keys)
BY KeysAssumption DEF Prog, RetSeq, Live, Rec, NoRec

\* One line through parse_keyrec: the record it returns followed by the one
\* it leaves in progress are the record that was in progress followed by
\* the line's descriptor, if it is a pub line that classified.  A pub line
\* ends the record in progress; one that did not classify starts a dead one.
LEMMA ParseLineOrder ==
  ASSUME TypeOK, NEW l \in ServerLines
  PROVE  RetSeq(ParseLine(l).ret) \o Prog(ParseLine(l).work)
           = InProgress \o NewPub(l)
<1>. DEFINE w == IF work = NoRec THEN Fresh ELSE work
            base == IF w.mode # NoKey THEN Fresh ELSE w
            p == ParseLine(l)
<1>1. l.key \in Keys \cup {NoKey} /\ l.tag \in {"info", "pub", "uid", "other"}
  BY DEF ServerLines, InfoLines, PubLines, OtherLines, Line
<1>2. /\ w \in Rec /\ (w.mode # NoKey <=> Live(work))
      /\ Live(work) => w = work
  BY KeysAssumption DEF TypeOK, Rec, Fresh, NoRec, Live
<1>3. InProgress = IF w.mode # NoKey THEN <<w.mode>> ELSE <<>>
  BY <1>2 DEF InProgress
<1>4. RetSeq(IF w.mode # NoKey THEN w ELSE NoRec) = InProgress
  BY <1>2, <1>3 DEF RetSeq, NoRec
<1>5. InProgress \in Seq(Keys)
  BY InProgressType
<1>6. CASE l.tag = "pub" /\ l.key \in Keys
  <2>1. p.work = [mode |-> l.key, lines |-> base.lines + 1]
        /\ p.ret = IF w.mode # NoKey THEN w ELSE NoRec
    BY <1>6 DEF ParseLine
  <2>2. Prog(p.work) = <<l.key>> /\ NewPub(l) = <<l.key>>
    BY <1>6, <2>1, KeysAssumption DEF Prog, Live, NoRec, NewPub
  <2>. QED  BY <1>4, <2>1, <2>2
<1>7. CASE l.tag = "pub" /\ l.key \notin Keys
  <2>1. p.work = [base EXCEPT !.mode = NoKey]
        /\ p.ret = IF w.mode # NoKey THEN w ELSE NoRec
    BY <1>7 DEF ParseLine
  <2>2. Prog(p.work) = <<>> /\ NewPub(l) = <<>>
    BY <1>7, <2>1 DEF Prog, Live, NewPub
  <2>. QED  BY <1>4, <1>5, <2>1, <2>2, ConcatEmptySeq
<1>8. CASE l.tag = "uid" /\ w.mode # NoKey
  <2>1. p.work = [w EXCEPT !.lines = @ + 1] /\ p.ret = NoRec
    BY <1>8, <1>1 DEF ParseLine
  <2>2. Prog(p.work) = InProgress
    BY <1>2, <1>3, <1>8, <2>1 DEF Prog, Live, NoRec, Rec
  <2>3. RetSeq(p.ret) = <<>> /\ NewPub(l) = <<>>
    BY <1>8, <2>1 DEF RetSeq, NewPub
  <2>. QED  BY <1>5, <2>2, <2>3, ConcatEmptySeq
<1>9. CASE ~(l.tag = "pub") /\ ~(l.tag = "uid" /\ w.mode # NoKey)
  <2>1. p.work = w /\ p.ret = NoRec
    BY <1>9 DEF ParseLine
  <2>2. Prog(p.work) = InProgress
    BY <1>2, <1>3, <2>1 DEF Prog, Live, Rec, NoRec, Fresh
  <2>3. RetSeq(p.ret) = <<>> /\ NewPub(l) = <<>>
    BY <1>9, <2>1 DEF RetSeq, NewPub
  <2>. QED  BY <1>5, <2>2, <2>3, ConcatEmptySeq
<1>. QED  BY <1>6, <1>7, <1>8, <1>9

\* parse_keyrec(NULL): the record it returns followed by the one it leaves
\* are the record that was in progress (a dead record is freed, not stored).
LEMMA ParseEOFOrder ==
  ASSUME TypeOK
  PROVE  RetSeq(ParseEOF.ret) \o Prog(ParseEOF.work) = InProgress
<1>1. InProgress \in Seq(Keys)
  BY InProgressType
<1>2. CASE work = NoRec
  BY <1>1, <1>2, ConcatEmptySeq DEF ParseEOF, RetSeq, Prog, InProgress, Live
<1>3. CASE work # NoRec /\ work.mode = NoKey
  BY <1>1, <1>3, ConcatEmptySeq DEF ParseEOF, RetSeq, Prog, InProgress, Live
<1>4. CASE work # NoRec /\ work.mode # NoKey
  <2>1. ParseEOF.ret = work /\ ParseEOF.work = NoRec
    BY <1>4 DEF ParseEOF
  <2>2. RetSeq(ParseEOF.ret) = InProgress /\ Prog(ParseEOF.work) = <<>>
    BY <1>4, <2>1 DEF RetSeq, Prog, InProgress, Live
  <2>. QED  BY <1>1, <2>2, ConcatEmptySeq
<1>. QED  BY <1>2, <1>3, <1>4

\* Saving a record in parm->desc (lines 604-661) appends its descriptor,
\* unless the allocation fails and the search ends.
LEMMA StoreOrder ==
  ASSUME IInv, NEW r \in Rec, r.mode \in Keys, NEW eof, Store(r, eof),
         pc' \in {"recv", "again", "prompt"}
  PROVE  descs' = descs \o RetSeq(r)
<1>1. descs' = Append(descs, r.mode)
  BY DEF Store, EndSearch
<1>2. RetSeq(r) = <<r.mode>>
  BY KeysAssumption DEF RetSeq, NoRec
<1>. QED  BY <1>1, <1>2, AppendIsConcat DEF IInv, TypeOK

\* The handler after parse_keyrec(NULL) (lines 584-600, 604) stores the
\* flushed record, or nothing: the stored descriptors followed by the
\* record in progress do not change.
LEMMA FlushOrder ==
  ASSUME IInv, AfterFlush, pc' \in {"recv", "again", "prompt"}
  PROVE  descs' \o InProgress' = descs \o InProgress
<1>. DEFINE f == ParseEOF
<1>1. f.work \in Rec /\ f.ret \in Rec /\ (f.ret = NoRec \/ f.ret.mode \in Keys)
  BY ParseEOFType DEF IInv
<1>2. descs' = descs \o RetSeq(f.ret)
  <2>1. CASE f.ret # NoRec
    BY <1>1, <2>1, StoreOrder DEF AfterFlush
  <2>2. CASE f.ret = NoRec
    <3>1. descs' = descs
      BY <2>2 DEF AfterFlush, EndSearch
    <3>. QED  BY <2>2, <3>1, ConcatEmptySeq DEF RetSeq, IInv, TypeOK
  <2>. QED  BY <2>1, <2>2
<1>3. InProgress' = Prog(f.work)
  BY DEF AfterFlush, InProgress, Prog
<1>4. RetSeq(f.ret) \o Prog(f.work) = InProgress \o <<>>
  BY ParseEOFOrder, InProgressType, ConcatEmptySeq DEF IInv
<1>5. RetSeq(f.ret) \in Seq(Keys) /\ Prog(f.work) \in Seq(Keys)
      /\ InProgress \in Seq(Keys) /\ descs \in Seq(Keys)
  BY <1>1, ProgType, InProgressType DEF IInv, TypeOK
<1>6. (descs \o RetSeq(f.ret)) \o Prog(f.work) = descs \o (InProgress \o <<>>)
  <2>1. (descs \o RetSeq(f.ret)) \o Prog(f.work)
          = descs \o (RetSeq(f.ret) \o Prog(f.work))
    <3>1. AssocSeq(descs, RetSeq(f.ret), Prog(f.work))
      BY <1>5, Assoc3
    <3>. QED  BY <3>1 DEF AssocSeq
  <2>. QED  BY <1>4, <2>1
<1>. QED  BY <1>2, <1>3, <1>5, <1>6, ConcatEmptySeq

\* Every step of keyserver_search, search_line_handler and show_prompt
\* keeps the descriptors stored, followed by the record in progress, equal
\* to the live pub blocks of the stream after the record carried over.
LEMMA OrderStep == IInv /\ ParsedInOrder /\ [Next]_vars => ParsedInOrder'
<1>. SUFFICES ASSUME IInv, ParsedInOrder, [Next]_vars,
                     pc' \in {"recv", "again", "prompt"}
              PROVE  descs' \o InProgress' = carried' \o served'
  BY DEF ParsedInOrder
<1>0. TypeOK /\ InProgress \in Seq(Keys)
  BY InProgressType DEF IInv
<1>1. CASE StartSearch
  <2>1. descs' = <<>> /\ carried' = InProgress /\ served' = <<>>
        /\ InProgress' = InProgress
    BY <1>1 DEF StartSearch, InProgress
  <2>. QED  BY <1>0, <2>1, ConcatEmptySeq
<1>2a. CASE \E l \in ServerLines : ReceiveInfo(l)
  <2>1. PICK l \in ServerLines : ReceiveInfo(l)
    BY <1>2a
  <2>2. /\ pc = "recv" /\ descs' = descs /\ carried' = carried
        /\ served' = served /\ InProgress' = InProgress
    BY <2>1 DEF ReceiveInfo, InProgress
  <2>. QED  BY <2>2 DEF ParsedInOrder
<1>3. CASE \E l \in ServerLines : ReceiveLine(l)
  <2>1. PICK l \in ServerLines : ReceiveLine(l)
    BY <1>3
  <2>. DEFINE q == ParseLine(l)
  <2>2. /\ q.work \in Rec /\ q.ret \in Rec
        /\ q.ret = NoRec \/ q.ret.mode \in Keys
    BY ParseLineType, <1>0
  <2>3. descs' = descs \o RetSeq(q.ret)
    <3>1. CASE q.ret # NoRec
      BY <2>1, <2>2, <3>1, StoreOrder DEF ReceiveLine
    <3>2. CASE q.ret = NoRec
      <4>1. descs' = descs
        BY <2>1, <3>2 DEF ReceiveLine, parm
      <4>. QED  BY <1>0, <3>2, <4>1, ConcatEmptySeq DEF RetSeq, TypeOK
    <3>. QED  BY <3>1, <3>2
  <2>4. l.key \in Keys \cup {NoKey}
    BY DEF ServerLines, InfoLines, PubLines, OtherLines, Line
  <2>5. NewPub(l) \in Seq(Keys) /\ served' = served \o NewPub(l)
    <3>0. served' = IF l.tag = "pub" /\ l.key \in Keys
                      THEN Append(served, l.key) ELSE served
      BY <2>1 DEF ReceiveLine
    <3>1. CASE l.tag = "pub" /\ l.key \in Keys
      BY <1>0, <3>0, <3>1, AppendIsConcat DEF NewPub, TypeOK
    <3>2. CASE ~(l.tag = "pub" /\ l.key \in Keys)
      <4>1. served' = served /\ NewPub(l) = <<>>
        BY <3>0, <3>2 DEF NewPub
      <4>. QED  BY <1>0, <4>1, ConcatEmptySeq DEF TypeOK
    <3>. QED  BY <3>1, <3>2
  <2>6. /\ pc = "recv" /\ carried' = carried
        /\ InProgress' = Prog(q.work)
    BY <2>1 DEF ReceiveLine, InProgress, Prog
  <2>7. RetSeq(q.ret) \in Seq(Keys) /\ Prog(q.work) \in Seq(Keys)
    BY <2>2, ProgType
  <2>8. descs \o InProgress = carried \o served
    BY <2>6 DEF ParsedInOrder
  <2>9. RetSeq(q.ret) \o Prog(q.work) = InProgress \o NewPub(l)
    BY <1>0, ParseLineOrder
  <2>10. (descs \o RetSeq(q.ret)) \o Prog(q.work) = carried \o (served \o NewPub(l))
    <3>1. descs \in Seq(Keys) /\ carried \in Seq(Keys) /\ served \in Seq(Keys)
          /\ InProgress \in Seq(Keys)
      BY <1>0 DEF TypeOK
    <3>2. (descs \o RetSeq(q.ret)) \o Prog(q.work)
            = descs \o (RetSeq(q.ret) \o Prog(q.work))
      <4>1. AssocSeq(descs, RetSeq(q.ret), Prog(q.work))
        BY <2>7, <3>1, Assoc3
      <4>. QED  BY <4>1 DEF AssocSeq
    <3>3. descs \o (InProgress \o NewPub(l)) = (descs \o InProgress) \o NewPub(l)
      <4>1. AssocSeq(descs, InProgress, NewPub(l))
        BY <2>5, <3>1, Assoc3
      <4>. QED  BY <4>1 DEF AssocSeq
    <3>4. (carried \o served) \o NewPub(l) = carried \o (served \o NewPub(l))
      <4>1. AssocSeq(carried, served, NewPub(l))
        BY <2>5, <3>1, Assoc3
      <4>. QED  BY <4>1 DEF AssocSeq
    <3>. QED  BY <2>8, <2>9, <3>2, <3>3, <3>4
  <2>. QED  BY <2>3, <2>5, <2>6, <2>10
<1>4. CASE ReceiveEOF \/ Again
  <2>1. /\ AfterFlush /\ pc \in {"recv", "again"}
        /\ carried' = carried /\ served' = served
    BY <1>4 DEF ReceiveEOF, Again
  <2>. QED  BY <2>1, FlushOrder DEF ParsedInOrder
<1>5. CASE ReadFreed \/ TransportFail
  BY <1>5 DEF ReadFreed, TransportFail, EndSearch
<1>6. CASE UserStep
  <2>1. /\ pc = "prompt" /\ resume = "mid"
        /\ descs' = descs /\ work' = work /\ carried' = carried
        /\ served' = served
    BY <1>6 DEF UserStep, Quit, Skip, Select, Resume, EndSearch, UserFrame,
                FinishStore
  <2>. QED  BY <2>1 DEF ParsedInOrder, InProgress
<1>7. CASE UNCHANGED vars
  BY <1>7 DEF vars, parm, ParsedInOrder, InProgress
<1>. QED  BY <1>1, <1>2a, <1>3, <1>4, <1>5, <1>6, <1>7 DEF Next, ServerStep

-----------------------------------------------------------------------------
(***************************************************************************)
(* HeaderTruthful is not inductive by itself: the header is computed when  *)
(* the prompt is entered, from a validcount that was set by the info: line *)
(* long before.  The strengthening says that validcount, once set, still   *)
(* vouches for count: count is the declared number until the array is      *)
(* grown or defaulted, which clears validcount, and validcount is only set *)
(* by the info: branch, which closes behind it (any_lines).                *)
(***************************************************************************)
HInv ==
  /\ validcount => count = declared /\ anyLines
  /\ HeaderTruthful

\* Saving a record (lines 604-661) never makes validcount vouch for a count
\* that is not the declared one, and a mid-listing prompt with a valid
\* count is shown only while fewer keys than declared have been listed.
LEMMA StoreHeader ==
  ASSUME IInv, pc \in {"recv", "again"}, validcount => count = declared,
         NEW r \in Rec, r.mode \in Keys, NEW eof, Store(r, eof),
         declared' = declared
  PROVE  /\ validcount' => count' = declared' /\ validcount
         /\ anyLines => anyLines'
         /\ HeaderTruthful'
<1> USE DEF IInv, TypeOK
<1>1. Len(descs) = nkeys /\ (alloc => Len(descs) <= count)
      /\ (~alloc => descs = <<>>)
  OBVIOUS
<1>2. CASE /\ ~alloc \/ Full
           /\ EndSearch("nomem")
           /\ UNCHANGED <<from, header, count, validcount, nkeys, anyLines,
                          numlines, descs, alloc>>
  BY <1>2 DEF EndSearch, HeaderTruthful
<1>3. CASE /\ count' = NewCount /\ validcount' = NewValid /\ alloc' = TRUE
           /\ descs' = Append(descs, r.mode)
           /\ IF ~WithColons /\ numlines + r.lines > ScreenLines - 1
                THEN /\ pending' = r
                     /\ UNCHANGED <<nkeys, anyLines, numlines>>
                     /\ Prompt("mid", IF NewValid THEN NewCount ELSE 0)
                ELSE FinishStore(r, numlines, eof)
           /\ UNCHANGED result
  <2>1. validcount' => validcount /\ ~NeedDefault /\ ~Full
    BY <1>3 DEF NewValid
  <2>2. validcount' => count' = count
    BY <1>3, <2>1 DEF NewCount, NeedDefault, Full
  <2>3. validcount' => nkeys < count
    <3>1. CASE alloc
      BY <1>1, <2>1, <3>1 DEF Full
    <3>2. CASE ~alloc
      <4>1. nkeys = 0
        BY <1>1, <3>2
      <4>. QED  BY <2>1, <3>2, <4>1 DEF NeedDefault
    <3>. QED  BY <3>1, <3>2
  <2>4. CASE ~WithColons /\ numlines + r.lines > ScreenLines - 1
    <3>1. pc' = "prompt" /\ resume' = "mid" /\ nkeys' = nkeys
          /\ anyLines' = anyLines
      BY <1>3, <2>4 DEF Prompt
    <3>. QED  BY <2>1, <2>2, <2>3, <3>1 DEF HeaderTruthful
  <2>5. CASE ~(~WithColons /\ numlines + r.lines > ScreenLines - 1)
    <3>1. pc' \in {"recv", "again"} /\ anyLines' = TRUE
      BY <1>3, <2>5 DEF FinishStore
    <3>. QED  BY <2>1, <2>2, <3>1 DEF HeaderTruthful
  <2>. QED  BY <2>4, <2>5
<1>. QED  BY <1>2, <1>3 DEF Store

\* The handler after parse_keyrec(NULL) (lines 584-600, 604): the final
\* prompt states count only if validcount still holds and nkeys = count.
LEMMA FlushHeader ==
  ASSUME IInv, HInv, pc \in {"recv", "again"}, AfterFlush,
         declared' = declared
  PROVE  HInv'
<1>. DEFINE f == ParseEOF
<1>1. f.ret \in Rec /\ (f.ret = NoRec \/ f.ret.mode \in Keys)
  BY ParseEOFType DEF IInv
<1>2. CASE f.ret # NoRec
  <2>1. Store(f.ret, TRUE)
    BY <1>2 DEF AfterFlush
  <2>. QED  BY <1>1, <1>2, <2>1, StoreHeader DEF HInv
<1>3. CASE f.ret = NoRec /\ nkeys = 0
  BY <1>3 DEF AfterFlush, EndSearch, HInv, HeaderTruthful
<1>4. CASE f.ret = NoRec /\ nkeys # 0
  <2>1. /\ validcount' = (validcount /\ nkeys = count)
        /\ UNCHANGED <<count, nkeys, anyLines>>
        /\ pc' \in {"prompt", "idle"} /\ (pc' = "prompt" => resume' = "final")
    BY <1>4 DEF AfterFlush, Prompt, EndSearch
  <2>. QED  BY <2>1 DEF HInv, HeaderTruthful
<1>. QED  BY <1>2, <1>3, <1>4

\* Every step of keyserver_search, search_line_handler and show_prompt
\* keeps validcount vouching for the declared count and the header true.
LEMMA HeaderStep == IInv /\ HInv /\ [Next]_vars => HInv'
<1> SUFFICES ASSUME IInv, HInv, [Next]_vars PROVE HInv'
  OBVIOUS
<1>0. TypeOK
  BY DEF IInv
<1>1. CASE StartSearch
  BY <1>1 DEF StartSearch, HInv, HeaderTruthful
<1>2. CASE \E l \in ServerLines : ReceiveInfo(l)
  <2>1. PICK l \in ServerLines : ReceiveInfo(l)
    BY <1>2
  <2>2. pc = "recv" /\ ~validcount
    BY <2>1 DEF ReceiveInfo, HInv
  <2>3. CASE l.ver # 1
    BY <2>1, <2>2, <2>3 DEF ReceiveInfo, EndSearch, HInv, HeaderTruthful
  <2>4. CASE l.ver = 1 /\ l.hasCnt
    <3>1. /\ count' = (IF l.cnt < 0 THEN 10 ELSE l.cnt)
          /\ validcount' = (validcount \/ l.cnt > 0)
          /\ declared' = l.cnt /\ anyLines' = TRUE /\ pc' = pc
      BY <2>1, <2>4 DEF ReceiveInfo
    <3>2. l.cnt \in Int
      <4>1. l.tag = "info"
        BY <2>1 DEF ReceiveInfo
      <4>2. CASE l \in InfoLines
        BY <4>2, ConstAssumption DEF InfoLines, Line
      <4>3. CASE l \in PubLines \cup OtherLines
        BY <4>1, <4>3 DEF PubLines, OtherLines, Line
      <4>. QED  BY <4>2, <4>3 DEF ServerLines
    <3>3. validcount' => count' = declared' /\ anyLines'
      <4>1. validcount' => l.cnt > 0
        BY <2>2, <3>1, Zenon
      <4>2. l.cnt > 0 => count' = declared'
        BY <3>1, <3>2
      <4>. QED  BY <3>1, <4>1, <4>2
    <3>4. HeaderTruthful'
      BY <2>2, <3>1 DEF HeaderTruthful
    <3>. QED  BY <3>3, <3>4 DEF HInv
  <2>5. CASE l.ver = 1 /\ ~l.hasCnt
    BY <2>1, <2>2, <2>5 DEF ReceiveInfo, HInv, HeaderTruthful
  <2>. QED  BY <2>3, <2>4, <2>5
<1>3. CASE \E l \in ServerLines : ReceiveLine(l)
  <2>1. PICK l \in ServerLines : ReceiveLine(l)
    BY <1>3
  <2>. DEFINE q == ParseLine(l)
  <2>2. q.ret \in Rec /\ (q.ret = NoRec \/ q.ret.mode \in Keys)
    BY <1>0, ParseLineType
  <2>3. pc = "recv" /\ declared' = declared
    BY <2>1 DEF ReceiveLine
  <2>4. CASE q.ret # NoRec
    <3>1. Store(q.ret, FALSE)
      BY <2>1, <2>4 DEF ReceiveLine
    <3>. QED  BY <2>2, <2>3, <2>4, <3>1, StoreHeader DEF HInv
  <2>5. CASE q.ret = NoRec
    <3>1. UNCHANGED <<parm, pc>>
      BY <2>1, <2>5 DEF ReceiveLine
    <3>. QED  BY <2>3, <3>1 DEF parm, HInv, HeaderTruthful
  <2>. QED  BY <2>4, <2>5
<1>4. CASE ReceiveEOF \/ Again
  <2>1. AfterFlush /\ pc \in {"recv", "again"} /\ declared' = declared
    BY <1>4 DEF ReceiveEOF, Again
  <2>. QED  BY <2>1, FlushHeader
<1>5. CASE ReadFreed \/ TransportFail
  BY <1>5 DEF ReadFreed, TransportFail, EndSearch, parm, HInv, HeaderTruthful
<1>6. CASE UserStep
  <2>1. /\ UNCHANGED <<count, validcount, declared>>
        /\ anyLines => anyLines'
        /\ pc' # "prompt"
    BY <1>6 DEF UserStep, Quit, Skip, Select, Resume, EndSearch, UserFrame,
                FinishStore, parm
  <2>. QED  BY <2>1 DEF HInv, HeaderTruthful
<1>7. CASE UNCHANGED vars
  BY <1>7 DEF vars, parm, HInv, HeaderTruthful
<1>. QED  BY <1>1, <1>2, <1>3, <1>4, <1>5, <1>6, <1>7 DEF Next, ServerStep

-----------------------------------------------------------------------------
\* The parser and the handler's flush loop (parse_keyrec with its static
\* record, search_line_handler, the `goto again` after end of stream) store
\* exactly the live pub blocks the server sent, in order, after the record
\* carried over from before the search: whatever the stream, the screen
\* size and the user's answers (checked by TLC as ParsedInOrder).
THEOREM ParsedInOrderThm == Spec => []ParsedInOrder
<1>1. Init => IInv /\ ParsedInOrder
  BY IInvInit DEF Init, ParsedInOrder
<1>2. IInv /\ ParsedInOrder /\ [Next]_vars => (IInv /\ ParsedInOrder)'
  BY IInvStep, OrderStep
<1>. QED  BY <1>1, <1>2, PTL DEF Spec

\* show_prompt's "Keys x-y of z" header, shown when validcount is set,
\* states the count of the server's info: line; at the final prompt that
\* many keys were listed, at a mid-listing prompt fewer (checked by TLC as
\* HeaderTruthful).
THEOREM HeaderTruthfulThm == Spec => []HeaderTruthful
<1>1. Init => IInv /\ HInv
  BY IInvInit DEF Init, HInv, HeaderTruthful
<1>2. IInv /\ HInv /\ [Next]_vars => (IInv /\ HInv)'
  BY IInvStep, HeaderStep
<1>3. HInv => HeaderTruthful
  BY DEF HInv
<1>. QED  BY <1>1, <1>2, <1>3, PTL DEF Spec

====
