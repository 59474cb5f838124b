------------------------ MODULE KeyserverSearchProofs ------------------------
(***************************************************************************)
(* Proofs about the search engine of KeyserverSearch, for every set of     *)
(* keys, every set of declared counts, every screen size and every bound.  *)
(***************************************************************************)
EXTENDS KeyserverSearch, TLAPS

(***************************************************************************)
(* Inductive strengthening of DescInBounds.  The bound alone is not        *)
(* preserved: search_line_handler writes parm->desc[parm->nkeys], so the   *)
(* proof needs that the descriptors written are nkeys (one more while a    *)
(* mid-listing prompt holds the record being stored), that no array means  *)
(* no descriptors, and that once the array exists the info: branch, which  *)
(* may lower count, is closed (any_lines is set).                          *)
(***************************************************************************)
IInv ==
  /\ TypeOK
  /\ alloc => Len(descs) <= count
  /\ ~alloc => descs = <<>>
  /\ (pc \in {"recv", "again"} \/ (pc = "prompt" /\ resume = "final"))
       => Len(descs) = nkeys
  /\ pc = "prompt" /\ resume = "mid" => Len(descs) = nkeys + 1
  /\ pc = "recv" /\ alloc => anyLines

USE KeysAssumption, ConstAssumption

\* parse_keyrec(line) leaves a keyrec (or NULL) in its static pointer and
\* returns a keyrec or NULL.
LEMMA ParseLineType ==
  ASSUME TypeOK, NEW l \in ServerLines
  PROVE  /\ ParseLine(l).work \in Rec /\ ParseLine(l).ret \in Rec
         /\ ParseLine(l).ret = NoRec \/ ParseLine(l).ret.mode \in Keys
<1> DEFINE w == IF work = NoRec THEN Fresh ELSE work
           base == IF w.mode # NoKey THEN Fresh ELSE w
<1>1. w \in Rec /\ base \in Rec
  BY DEF TypeOK, Rec, Fresh, NoRec
<1>2. l.key \in Keys \cup {NoKey}
  BY DEF ServerLines, InfoLines, PubLines, OtherLines, Line
<1>3. NoRec \in Rec
  BY DEF NoRec, Rec
<1> QED
  BY <1>1, <1>2, <1>3, KeysAssumption DEF ParseLine, Rec, NoRec

\* parse_keyrec(NULL) likewise; it sets the dangling flag or leaves it.
LEMMA ParseEOFType ==
  ASSUME TypeOK
  PROVE  /\ ParseEOF.work \in Rec /\ ParseEOF.ret \in Rec
         /\ ParseEOF.freed \in BOOLEAN
         /\ ParseEOF.ret = NoRec \/ ParseEOF.ret.mode \in Keys
BY KeysAssumption DEF TypeOK, Rec, ParseEOF, NoRec

\* The strengthening holds in the initial state.
LEMMA IInvInit == Init => IInv
<1> SUFFICES ASSUME Init PROVE IInv
  OBVIOUS
<1>1. work \in Rec /\ pending \in Rec
  BY DEF Init, Rec, NoRec
<1>2. descs \in Seq(Keys) /\ served \in Seq(Keys) /\ carried \in Seq(Keys)
  BY DEF Init
<1>3. /\ from \in Int /\ count \in Int /\ nkeys \in Nat /\ numlines \in Int
      /\ received \in Nat /\ searches \in Nat /\ declared \in Int
  BY DEF Init
<1>4. /\ freed \in BOOLEAN /\ validcount \in BOOLEAN /\ anyLines \in BOOLEAN
      /\ eofSeen \in BOOLEAN /\ notFound \in BOOLEAN /\ alloc \in BOOLEAN
      /\ streamOpen \in BOOLEAN
  BY DEF Init
<1>5. /\ pc \in {"idle", "recv", "again", "prompt", "ub"}
      /\ resume \in {"mid", "final"} /\ result \in Results
  BY DEF Init, Results
<1>6. TypeOK
  BY <1>1, <1>2, <1>3, <1>4, <1>5 DEF TypeOK
<1> QED
  BY <1>6 DEF Init, IInv

\* The variables Store leaves to its caller are typed as before.
StoreVarsOK ==
  /\ from' \in Int /\ count' \in Int /\ nkeys' \in Nat /\ numlines' \in Int
  /\ validcount' \in BOOLEAN /\ anyLines' \in BOOLEAN /\ alloc' \in BOOLEAN
  /\ descs' \in Seq(Keys) /\ pending' \in Rec /\ result' \in Results
  /\ pc' \in {"idle", "recv", "again", "prompt", "ub"}
  /\ resume' \in {"mid", "final"}

\* The conjuncts of IInv that mention only what Store assigns.
StoreInv ==
  /\ alloc' => Len(descs') <= count'
  /\ ~alloc' => descs' = <<>>
  /\ (pc' \in {"recv", "again"} \/ (pc' = "prompt" /\ resume' = "final"))
       => Len(descs') = nkeys'
  /\ pc' = "prompt" /\ resume' = "mid" => Len(descs') = nkeys' + 1
  /\ pc' = "recv" /\ alloc' => anyLines'

\* Saving a completed record in parm->desc (lines 604-661), from a state
\* where the handler has written nkeys descriptors, keeps the writes inside
\* the array: the default count of 10, the +10 growth when nkeys reaches
\* count, and the case where count descriptors still have room.
LEMMA StoreStep ==
  ASSUME IInv, pc \in {"recv", "again"}, pc = "recv" /\ alloc => anyLines,
         NEW r \in Rec, r.mode \in Keys, NEW eof \in BOOLEAN, Store(r, eof)
  PROVE  StoreVarsOK /\ StoreInv
<1> USE DEF IInv, TypeOK
<1>1. Len(descs) = nkeys
  OBVIOUS
<1>2. CASE /\ ~alloc \/ Full
           /\ EndSearch("nomem")
           /\ UNCHANGED <<from, header, count, validcount, nkeys, anyLines,
                          numlines, descs, alloc>>
  BY <1>2 DEF EndSearch, StoreVarsOK, StoreInv, Results, NoRec, Rec
<1>3. CASE /\ count' = NewCount /\ validcount' = NewValid /\ alloc' = TRUE
           /\ descs' = Append(descs, r.mode)
           /\ IF ~WithColons /\ numlines + r.lines > ScreenLines - 1
                THEN /\ pending' = r
                     /\ UNCHANGED <<nkeys, anyLines, numlines>>
                     /\ Prompt("mid", IF NewValid THEN NewCount ELSE 0)
                ELSE FinishStore(r, numlines, eof)
           /\ UNCHANGED result
  <2>1. Len(descs') = nkeys + 1 /\ descs' \in Seq(Keys)
    BY <1>1, <1>3
  <2>2. Len(descs') <= count' /\ count' \in Int
    <3>1. nkeys \in Nat /\ count \in Int
      BY <1>1
    <3>2. ~alloc => nkeys = 0
      BY <1>1
    <3>3. alloc => nkeys <= count
      BY <1>1
    <3>4. CASE NeedDefault
      BY <3>1, <3>2, <3>4, <1>3, <2>1 DEF NewCount, NeedDefault, Full
    <3>5. CASE ~NeedDefault /\ Full
      BY <3>1, <3>5, <1>3, <2>1 DEF NewCount, Full
    <3>6. CASE ~NeedDefault /\ ~Full
      BY <3>1, <3>2, <3>3, <3>6, <1>3, <2>1 DEF NewCount, NeedDefault, Full
    <3> QED
      BY <3>4, <3>5, <3>6
  <2>3. validcount' \in BOOLEAN
    BY <1>3 DEF NewValid
  <2>4. CASE ~WithColons /\ numlines + r.lines > ScreenLines - 1
    BY <1>3, <2>1, <2>2, <2>3, <2>4 DEF Prompt, StoreVarsOK, StoreInv
  <2>5. CASE ~(~WithColons /\ numlines + r.lines > ScreenLines - 1)
    <3>1. /\ numlines' = numlines + r.lines /\ anyLines' = TRUE
          /\ nkeys' = nkeys + 1 /\ pc' \in {"recv", "again"}
          /\ pending' = NoRec /\ from' = from /\ resume' = resume
          /\ result' = result
      BY <1>3, <2>5 DEF FinishStore
    <3>2. numlines' \in Int /\ pending' \in Rec
      BY <3>1 DEF Rec, NoRec
    <3> QED
      BY <1>3, <2>1, <2>2, <2>3, <3>1, <3>2 DEF StoreVarsOK, StoreInv
  <2> QED
    BY <2>4, <2>5
<1> QED
  BY <1>2, <1>3 DEF Store
\* The handler after parse_keyrec(NULL) (lines 584-600, 604): storing the
\* flushed record, reporting not-found, or the final prompt.
LEMMA FlushStep ==
  ASSUME IInv, pc \in {"recv", "again"}, pc = "recv" /\ alloc => anyLines,
         AfterFlush
  PROVE  /\ StoreVarsOK /\ StoreInv
         /\ work' \in Rec /\ freed' \in BOOLEAN /\ notFound' \in BOOLEAN
<1> USE DEF IInv
<1> DEFINE f == ParseEOF
<1>1. f.work \in Rec /\ f.ret \in Rec /\ f.freed \in BOOLEAN
      /\ (f.ret = NoRec \/ f.ret.mode \in Keys)
  BY ParseEOFType
<1>2. work' \in Rec /\ freed' \in BOOLEAN
  BY <1>1 DEF AfterFlush
<1>3. CASE f.ret # NoRec
  <2>1. Store(f.ret, TRUE) /\ notFound' = notFound
    BY <1>3 DEF AfterFlush
  <2>2. StoreVarsOK /\ StoreInv
    BY <1>1, <1>3, <2>1, StoreStep
  <2> QED
    BY <1>2, <2>1, <2>2 DEF TypeOK
<1>4. CASE f.ret = NoRec /\ nkeys = 0
  <2>1. /\ notFound' = TRUE /\ EndSearch("ok")
        /\ UNCHANGED <<from, count, validcount, nkeys, anyLines, numlines,
                       descs, alloc>>
    BY <1>4 DEF AfterFlush
  <2> QED
    BY <1>2, <2>1 DEF EndSearch, StoreVarsOK, StoreInv, TypeOK, Results, Rec, NoRec
<1>5. CASE f.ret = NoRec /\ nkeys # 0
  <2>1. /\ validcount' = (validcount /\ nkeys = count)
        /\ UNCHANGED <<count, nkeys, anyLines, numlines, descs, alloc, notFound>>
        /\ \/ /\ Prompt("final", IF validcount /\ nkeys = count THEN count ELSE 0)
              /\ UNCHANGED <<pending, result>>
           \/ EndSearch("ok") /\ UNCHANGED from
    BY <1>5 DEF AfterFlush
  <2>2. Len(descs) = nkeys
    OBVIOUS
  <2> QED
    BY <1>2, <2>1, <2>2 DEF Prompt, EndSearch, StoreVarsOK, StoreInv, TypeOK,
                           Results, Rec, NoRec
<1> QED
  BY <1>3, <1>4, <1>5
\* What every step leaves typed: the conjuncts of TypeOK that Store and the
\* flush leave to their callers.
LEMMA InProgressType ==
  ASSUME TypeOK
  PROVE  InProgress \in Seq(Keys)
BY KeysAssumption DEF TypeOK, InProgress, Live, Rec, NoRec

\* IInv' from its parts: the variables Store assigns and the others.
LEMMA Assemble ==
  ASSUME StoreVarsOK, StoreInv, work' \in Rec, freed' \in BOOLEAN,
         eofSeen' \in BOOLEAN, notFound' \in BOOLEAN, streamOpen' \in BOOLEAN,
         received' \in Nat, searches' \in Nat, served' \in Seq(Keys),
         carried' \in Seq(Keys), declared' \in Int
  PROVE  IInv'
BY DEF StoreVarsOK, StoreInv, IInv, TypeOK

\* Every step of search_line_handler, show_prompt and keyserver_search keeps
\* the strengthening.
LEMMA IInvStep == IInv /\ [Next]_vars => IInv'
<1> SUFFICES ASSUME IInv, [Next]_vars PROVE IInv'
  OBVIOUS
<1> USE DEF IInv
<1>1. CASE StartSearch
  <2>1. carried' \in Seq(Keys)
    BY <1>1, InProgressType DEF StartSearch
  <2>2. /\ count' = 0 /\ validcount' = FALSE /\ nkeys' = 0 /\ anyLines' = FALSE
        /\ numlines' = 0 /\ descs' = <<>> /\ alloc' = FALSE /\ pc' = "recv"
        /\ from' = from /\ resume' = resume /\ pending' = pending
        /\ result' = result
    BY <1>1 DEF StartSearch
  <2>3x. from' \in Int /\ count' \in Int /\ nkeys' \in Nat /\ numlines' \in Int
    BY <2>2 DEF TypeOK
  <2>3y. validcount' \in BOOLEAN /\ anyLines' \in BOOLEAN /\ alloc' \in BOOLEAN
    BY <2>2, Zenon
  <2>3z. descs' \in Seq(Keys) /\ pending' \in Rec /\ result' \in Results
    BY <2>2 DEF TypeOK
  <2>3w. pc' \in {"idle", "recv", "again", "prompt", "ub"} /\ resume' \in {"mid", "final"}
    BY <2>2 DEF TypeOK
  <2>3a. StoreVarsOK
    BY <2>3x, <2>3y, <2>3z, <2>3w DEF StoreVarsOK
  <2>3b. StoreInv
    BY <2>2 DEF StoreInv
  <2>3. StoreVarsOK /\ StoreInv
    BY <2>3a, <2>3b
  <2>4. freed' \in BOOLEAN /\ eofSeen' \in BOOLEAN /\ notFound' \in BOOLEAN
        /\ streamOpen' \in BOOLEAN
    BY <1>1, Zenon DEF StartSearch, TypeOK
  <2>5. work' \in Rec /\ received' \in Nat /\ searches' \in Nat
        /\ served' \in Seq(Keys) /\ declared' \in Int
    BY <1>1 DEF StartSearch, TypeOK
  <2> QED
    BY <2>1, <2>3, <2>4, <2>5, Assemble
<1>2. ASSUME NEW l \in ServerLines, ReceiveInfo(l) PROVE IInv'
  <2>1. l.tag = "info" => l.cnt \in Int
    <3>1. CASE l \in InfoLines
      BY <3>1 DEF InfoLines, Line
    <3>2. CASE l \in PubLines \cup OtherLines
      BY <3>2 DEF PubLines, OtherLines, Line
    <3> QED
      BY <3>1, <3>2 DEF ServerLines
  <2>2. pc = "recv" /\ ~anyLines /\ l.tag = "info"
    BY <1>2 DEF ReceiveInfo
  <2>3. ~alloc
    BY <2>2
  <2>4. CASE l.ver # 1
    <3>0. /\ pc' = "idle" /\ pending' = NoRec /\ resume' = "mid"
          /\ result' = "unsupported"
          /\ UNCHANGED <<from, count, validcount, nkeys, anyLines, numlines,
                         descs, alloc>>
      BY <1>2, <2>4 DEF ReceiveInfo, EndSearch
    <3>1. StoreVarsOK /\ StoreInv
      BY <2>3, <3>0 DEF StoreVarsOK, StoreInv, TypeOK, Results, Rec, NoRec
    <3> QED
      BY <1>2, <2>4, <3>1, Assemble DEF ReceiveInfo, TypeOK
  <2>5. CASE l.ver = 1
    <3>0. /\ l.hasCnt => /\ count' = (IF l.cnt < 0 THEN 10 ELSE l.cnt)
                           /\ validcount' = (validcount \/ l.cnt > 0)
          /\ ~l.hasCnt => count' = count /\ validcount' = validcount
          /\ anyLines' = TRUE
          /\ from' = from /\ nkeys' = nkeys /\ numlines' = numlines
          /\ descs' = descs /\ alloc' = alloc /\ pc' = pc /\ resume' = resume
          /\ pending' = pending /\ result' = result
      BY <1>2, <2>2, <2>5 DEF ReceiveInfo
    <3>1. count' \in Int
      <4>1. CASE l.hasCnt
        <5>1. l.cnt \in Int
          BY <2>1, <2>2
        <5> QED
          BY <3>0, <4>1, <5>1
      <4>2. CASE ~l.hasCnt
        BY <3>0, <4>2 DEF TypeOK
      <4> QED
        BY <4>1, <4>2
    <3>2. validcount' \in BOOLEAN /\ anyLines' \in BOOLEAN /\ alloc' \in BOOLEAN
      <4>1. CASE l.hasCnt
        BY <3>0, <4>1, Zenon DEF TypeOK
      <4>2. CASE ~l.hasCnt
        BY <3>0, <4>2, Zenon DEF TypeOK
      <4> QED
        BY <4>1, <4>2
    <3>3. StoreVarsOK
      BY <3>0, <3>1, <3>2 DEF StoreVarsOK, TypeOK
    <3>4. StoreInv
      BY <2>3, <3>0 DEF StoreInv
    <3>5. freed' \in BOOLEAN /\ eofSeen' \in BOOLEAN /\ notFound' \in BOOLEAN
          /\ streamOpen' \in BOOLEAN
      BY <1>2, <2>5, Zenon DEF ReceiveInfo, TypeOK
    <3>6. work' \in Rec /\ received' \in Nat /\ searches' \in Nat
          /\ served' \in Seq(Keys) /\ carried' \in Seq(Keys) /\ declared' \in Int
      BY <1>2, <2>1, <2>2, <2>5 DEF ReceiveInfo, TypeOK
    <3> QED
      BY <3>3, <3>4, <3>5, <3>6, Assemble
  <2> QED
    BY <2>4, <2>5
<1>3. ASSUME NEW l \in ServerLines, ReceiveLine(l) PROVE IInv'
  <2> DEFINE p == ParseLine(l)
  <2>1. /\ p.work \in Rec /\ p.ret \in Rec
        /\ p.ret = NoRec \/ p.ret.mode \in Keys
    BY ParseLineType DEF IInv
  <2>2. l.tag = "pub" /\ l.key \in Keys => served' \in Seq(Keys)
    BY <1>3 DEF ReceiveLine, TypeOK
  <2>3. served' \in Seq(Keys)
    BY <1>3, <2>2 DEF ReceiveLine, TypeOK
  <2>4. /\ work' = p.work /\ received' = received + 1
        /\ UNCHANGED <<freed, eofSeen, notFound, streamOpen, searches, carried,
                       declared>>
        /\ pc = "recv"
    BY <1>3 DEF ReceiveLine
  <2>5. CASE p.ret # NoRec
    <3>1. Store(p.ret, FALSE)
      BY <1>3, <2>5 DEF ReceiveLine
    <3>2. StoreVarsOK /\ StoreInv
      BY <2>1, <2>4, <2>5, <3>1, StoreStep
    <3> QED
      BY <2>1, <2>3, <2>4, <3>2, Assemble DEF TypeOK
  <2>6. CASE p.ret = NoRec
    <3>1. UNCHANGED <<from, parm, pc, resume, pending, result>>
      BY <1>3, <2>6 DEF ReceiveLine
    <3> QED
      BY <2>1, <2>3, <2>4, <3>1 DEF TypeOK, parm
  <2> QED
    BY <2>5, <2>6
<1>4. CASE ReceiveEOF
  <2>1. StoreVarsOK /\ StoreInv /\ work' \in Rec /\ freed' \in BOOLEAN
        /\ notFound' \in BOOLEAN
    BY <1>4, FlushStep DEF ReceiveEOF
  <2> QED
    BY <1>4, <2>1 DEF ReceiveEOF, StoreVarsOK, StoreInv, TypeOK
<1>5. CASE Again
  <2>1. StoreVarsOK /\ StoreInv /\ work' \in Rec /\ freed' \in BOOLEAN
        /\ notFound' \in BOOLEAN
    BY <1>5, FlushStep DEF Again
  <2> QED
    BY <1>5, <2>1 DEF Again, StoreVarsOK, StoreInv, TypeOK
<1>6. CASE ReadFreed
  BY <1>6 DEF ReadFreed, TypeOK, parm
<1>7. CASE TransportFail
  BY <1>7 DEF TransportFail, EndSearch, TypeOK, parm, Results, Rec, NoRec
<1>8. CASE UserStep
  <2>1. CASE resume = "mid" /\ Resume
    <3>1. FinishStore(pending, 0, eofSeen)
          /\ UNCHANGED <<count, validcount, eofSeen, notFound, descs, alloc, result>>
      BY <2>1 DEF Resume
    <3>2. /\ numlines' = 0 + pending.lines /\ anyLines' = TRUE
          /\ nkeys' = nkeys + 1 /\ pc' \in {"recv", "again"}
          /\ pending' = NoRec /\ from' = from /\ resume' = resume
      BY <3>1 DEF FinishStore
    <3>3. pc = "prompt" /\ UserFrame
      BY <1>8 DEF UserStep, Quit, Skip, Select
    <3> QED
      BY <2>1, <3>1, <3>2, <3>3 DEF UserFrame, TypeOK, Rec, NoRec
  <2>2. CASE ~(resume = "mid" /\ Resume)
    <3>1. /\ pc' = "idle" /\ pending' = NoRec /\ resume' = "mid"
          /\ result' \in Results /\ UNCHANGED <<from, parm>> /\ UserFrame
      BY <1>8, <2>2 DEF UserStep, Quit, Skip, Select, Resume, EndSearch, Results
    <3> QED
      BY <3>1 DEF UserFrame, TypeOK, parm, Rec, NoRec
  <2> QED
    BY <2>1, <2>2
<1>9. CASE UNCHANGED vars
  BY <1>9 DEF vars, parm, TypeOK
<1> QED
  BY <1>1, <1>2, <1>3, <1>4, <1>5, <1>6, <1>7, <1>8, <1>9 DEF Next, ServerStep
\* The search engine's state stays well typed in every behaviour, whatever
\* the server sends, the user answers and the transport does.
THEOREM TypeCorrect == Spec => []TypeOK
<1>1. Init => IInv
  BY IInvInit
<1>2. IInv /\ [Next]_vars => IInv'
  BY IInvStep
<1>3. IInv => TypeOK
  BY DEF IInv
<1> QED
  BY <1>1, <1>2, <1>3, PTL DEF Spec

\* Memory safety of parm->desc (search_line_handler, lines 604-637): every
\* descriptor slot written lies inside the count entries allocated, for every
\* server response, every declared count (negative, zero, too small) and
\* every screen size.
THEOREM DescInBoundsThm == Spec => []DescInBounds
<1>1. Init => IInv
  BY IInvInit
<1>2. IInv /\ [Next]_vars => IInv'
  BY IInvStep
<1>3. IInv => DescInBounds
  BY DEF IInv, DescInBounds
<1> QED
  BY <1>1, <1>2, <1>3, PTL DEF Spec
====
