------------------------------ MODULE DetachedHash ------------------------------
(***************************************************************************)
(* The hashing of the signed data of a detached signature in               *)
(* g10/plaintext.cpp: do_hash, which feeds a data stream into the digest   *)
(* MD and, with the pgp2 workaround, a CR LF canonical form of it into     *)
(* MD2; and its three callers: hash_datafiles (the files named on the      *)
(* command line, one after the other, or the file next to the signature),  *)
(* hash_datafile_by_fd, and ask_for_detached_datafile (the file next to    *)
(* the signature, else names typed at the prompt, else stdin).             *)
(*                                                                         *)
(* Data abstraction: a byte is CR, LF or any other byte X; a file is the   *)
(* bytes do_hash reads from it (after text_filter in text mode); opening   *)
(* a file yields its bytes or fails with ENOENT or another error, or opens *)
(* a file is_secured_file refuses.  Names, prompts and progress are left   *)
(* out.                                                                    *)
(***************************************************************************)
EXTENDS Integers, Sequences

CONSTANTS
  MaxFileLen,  \* bound: bytes of one file
  MaxFiles,    \* bound: files named on the command line
  MaxAsks      \* bound: names typed at the prompt

ASSUME DetachedAssumption ==
  MaxFileLen \in Nat /\ MaxFiles \in Nat \ {0} /\ MaxAsks \in Nat \ {0}

CR == "cr"
LF == "lf"
X  == "x"
Bytes == {CR, LF, X}

Contents == UNION {[1..m -> Bytes] : m \in 0..MaxFileLen}

\* iobuf_open and its checks: the file's bytes, or a failure.
Opens == {"ok", "enoent", "error", "secured"}

\* The PGP 2 canonical form the workaround aims at (comment at lines 391-392):
\* every line ending, CR LF, LF or a single CR, becomes CR LF.
Canon2(s) ==
  LET f[i \in 0..Len(s)] ==
        IF i = 0 THEN <<>>
        ELSE f[i - 1] \o (CASE s[i] = CR -> <<CR, LF>>
                            [] s[i] = LF /\ i > 1 /\ s[i - 1] = CR -> <<>>
                            [] s[i] = LF /\ ~(i > 1 /\ s[i - 1] = CR) -> <<CR, LF>>
                            [] OTHER -> <<s[i]>>)
  IN  f[Len(s)]

\* The bytes of a sequence of files, one after the other.
Concat(fs) ==
  LET f[i \in 0..Len(fs)] == IF i = 0 THEN <<>> ELSE f[i - 1] \o fs[i]
  IN  f[Len(fs)]

-----------------------------------------------------------------------------
VARIABLES
  pc,       \* "start", "open" (the next file of the list), "ask" (the
            \* prompt loop), "hash" (do_hash's loop), "done"
  entry,    \* "sigfile", "files", "fd" or "ask": which function was called
  batch,    \* opt.batch
  nfiles,   \* the number of files named
  idx,      \* files of the list tried so far
  any,      \* any, of the prompt loop
  asks,     \* names typed so far
  cur,      \* the file do_hash reads
  pos,      \* bytes do_hash has read from it
  lc,       \* lc of the pgp2 workaround: the byte before, or "none"
  md2On,    \* md2 is not NULL
  md,       \* history: the bytes put into MD
  md2,      \* history: the bytes put into MD2
  md2Base,  \* history: md2 when do_hash started
  opened,   \* history: the files handed to do_hash, in order
  rc        \* the value returned

vars == <<pc, entry, batch, nfiles, idx, any, asks, cur, pos, lc, md2On, md, md2,
          md2Base, opened, rc>>

Init ==
  /\ pc = "start" /\ entry \in {"sigfile", "files", "fd", "ask"}
  /\ batch \in BOOLEAN /\ nfiles \in 1..MaxFiles /\ md2On \in BOOLEAN
  /\ idx = 0 /\ any = FALSE /\ asks = 0 /\ cur = <<>> /\ pos = 0 /\ lc = "none"
  /\ md = <<>> /\ md2 = <<>> /\ md2Base = <<>> /\ opened = <<>>
  /\ rc = "none"

-----------------------------------------------------------------------------
\* Handing the opened file d to do_hash: lc starts at -1 in every call.
StartHash(d) ==
  /\ cur' = d /\ pos' = 0 /\ lc' = "none" /\ md2Base' = md2
  /\ opened' = Append(opened, d) /\ pc' = "hash"

Return(r) == rc' = r /\ pc' = "done"

\* hash_datafiles without files (lines 490-508): unless opt.batch, the
\* data file next to the signature is hashed if open_sigfile finds it;
\* otherwise "no signed data".
SigfileStart ==
  /\ pc = "start" /\ entry = "sigfile"
  /\ \/ batch /\ Return("nodata") /\ UNCHANGED <<cur, pos, lc, md2Base, opened>>
     \/ ~batch /\ \E found \in BOOLEAN, d \in Contents :
          IF found THEN StartHash(d) /\ UNCHANGED rc
          ELSE Return("nodata") /\ UNCHANGED <<cur, pos, lc, md2Base, opened>>
  /\ UNCHANGED <<entry, batch, nfiles, idx, any, asks, md2On, md, md2>>

FilesStart ==
  /\ pc = "start" /\ entry = "files" /\ pc' = "open"
  /\ UNCHANGED <<entry, batch, nfiles, idx, any, asks, cur, pos, lc, md2On,
                 md, md2, md2Base, opened, rc>>

\* Mutant: a file that cannot be opened is skipped.
FilesOpenSkip ==
  /\ pc = "open" /\ idx < nfiles
  /\ idx' = idx + 1
  /\ \E o \in Opens, d \in Contents :
       IF o = "ok" THEN StartHash(d)
       ELSE UNCHANGED <<pc, cur, pos, lc, md2Base, opened>>
  /\ UNCHANGED <<entry, batch, nfiles, any, asks, md2On, md, md2, rc>>

\* hash_datafiles over the list (lines 510-530): the next file is opened
\* and hashed; a file that cannot be opened, or that is a secured file,
\* ends the call with an error, after the files before it were hashed.
FilesOpen ==
  /\ pc = "open" /\ idx < nfiles
  /\ idx' = idx + 1
  /\ \E o \in Opens, d \in Contents :
       IF o = "ok" THEN StartHash(d) /\ UNCHANGED rc
       ELSE Return("open") /\ UNCHANGED <<cur, pos, lc, md2Base, opened>>
  /\ UNCHANGED <<entry, batch, nfiles, any, asks, md2On, md, md2>>

FilesDone ==
  /\ pc = "open" /\ idx = nfiles
  /\ Return("ok")
  /\ UNCHANGED <<entry, batch, nfiles, idx, any, asks, cur, pos, lc, md2On,
                 md, md2, md2Base, opened>>

\* hash_datafile_by_fd (lines 535-560): a secured descriptor, or a failing
\* iobuf_fdopen_nc, is an error.
FdStart ==
  /\ pc = "start" /\ entry = "fd"
  /\ \E o \in Opens, d \in Contents :
       IF o = "ok" THEN StartHash(d) /\ UNCHANGED rc
       ELSE Return("open") /\ UNCHANGED <<cur, pos, lc, md2Base, opened>>
  /\ UNCHANGED <<entry, batch, nfiles, idx, any, asks, md2On, md, md2>>

\* ask_for_detached_datafile (lines 427-430, 466-471): the file next to
\* the signature; else, in batch mode, stdin; else the prompt loop.
AskStart ==
  /\ pc = "start" /\ entry = "ask"
  /\ \E found \in BOOLEAN, d \in Contents :
       IF found \/ batch THEN StartHash(d)
       ELSE pc' = "ask" /\ UNCHANGED <<cur, pos, lc, md2Base, opened>>
  /\ UNCHANGED <<entry, batch, nfiles, idx, any, asks, md2On, md, md2, rc>>

\* One pass of the prompt loop (lines 430-463): an empty answer after a
\* missing file gives up; ENOENT asks again; any other failure, a secured
\* file included (errno EPERM), is the error.
AskName ==
  /\ pc = "ask"
  /\ asks' = asks + 1
  /\ \E empty \in BOOLEAN, o \in Opens, d \in Contents :
       /\ o = "enoent" => asks + 1 < MaxAsks
       /\ CASE any /\ empty ->
                 Return("general") /\ UNCHANGED <<any, cur, pos, lc, md2Base, opened>>
            [] ~(any /\ empty) /\ o = "ok" ->
                 StartHash(d) /\ UNCHANGED <<any, rc>>
            [] ~(any /\ empty) /\ o = "enoent" ->
                 any' = TRUE /\ UNCHANGED <<pc, cur, pos, lc, md2Base, opened, rc>>
            [] OTHER ->
                 Return("open") /\ UNCHANGED <<any, cur, pos, lc, md2Base, opened>>
  /\ UNCHANGED <<entry, batch, nfiles, idx, md2On, md, md2>>

\* Mutant: a byte after a single CR is put without the LF.
Md2PutNoLF(l, c) ==
  CASE c = LF /\ l = CR -> <<c>>
    [] c = LF /\ l # CR -> <<CR, c>>
    [] OTHER            -> <<c>>

\* The pgp2 workaround (lines 395-404): what goes into MD2 for byte c
\* after byte l.
Md2Put(l, c) ==
  CASE c = LF /\ l = CR -> <<c>>
    [] c = LF /\ l # CR -> <<CR, c>>
    [] c # LF /\ l = CR -> <<LF, c>>
    [] OTHER            -> <<c>>

\* do_hash's loops (lines 391-413), with md2: every byte goes into MD.
HashByte ==
  /\ pc = "hash" /\ pos < Len(cur)
  /\ LET c == cur[pos + 1] IN
     /\ md' = Append(md, c)
     /\ md2' = IF md2On THEN md2 \o Md2Put(lc, c) ELSE md2
     /\ lc' = c
  /\ pos' = pos + 1
  /\ UNCHANGED <<pc, entry, batch, nfiles, idx, any, asks, cur, md2On,
                 md2Base, opened, rc>>

\* iobuf_get returns -1: do_hash returns, the caller closes the file and
\* goes on with the next file of its list or returns 0.
HashEOF ==
  /\ pc = "hash" /\ pos = Len(cur)
  /\ IF entry = "files" THEN pc' = "open" /\ UNCHANGED rc ELSE Return("ok")
  /\ UNCHANGED <<entry, batch, nfiles, idx, any, asks, cur, pos, lc, md2On,
                 md, md2, md2Base, opened>>

Next ==
  \/ SigfileStart \/ FilesStart \/ FilesOpen \/ FilesDone \/ FdStart
  \/ AskStart \/ AskName \/ HashByte \/ HashEOF

Spec == Init /\ [][Next]_vars

-----------------------------------------------------------------------------
TypeOK ==
  /\ pc \in {"start", "open", "ask", "hash", "done"}
  /\ entry \in {"sigfile", "files", "fd", "ask"} /\ batch \in BOOLEAN
  /\ nfiles \in 1..MaxFiles /\ idx \in 0..nfiles
  /\ any \in BOOLEAN /\ asks \in 0..MaxAsks
  /\ cur \in Contents /\ pos \in 0..Len(cur) /\ lc \in Bytes \cup {"none"}
  /\ md2On \in BOOLEAN /\ md \in Seq(Bytes) /\ md2 \in Seq(Bytes)
  /\ opened \in Seq(Contents)
  /\ rc \in {"none", "ok", "nodata", "open", "general"}

\* The pgp2 workaround puts into MD2 the CR LF canonical form of what
\* do_hash has read, except for one LF it still owes after a CR: while
\* do_hash runs, MD2 followed by that LF is what it held when do_hash
\* started followed by Canon2 of the bytes read.
Md2Canonical ==
  md2On /\ pc = "hash" =>
    md2 \o (IF lc = CR THEN <<LF>> ELSE <<>>) = md2Base \o Canon2(SubSeq(cur, 1, pos))

\* A signature over several files is checked against all of them: when
\* hash_datafiles, hash_datafile_by_fd or ask_for_detached_datafile returns
\* 0, MD holds every file named, whole and in order, and nothing else.
DigestOfAllFiles ==
  pc = "done" /\ rc = "ok" =>
    /\ md = Concat(opened)
    /\ entry = "files" => Len(opened) = nfiles

\* The comment at lines 391-392: the workaround converts a single CR to
\* CR LF too, so once do_hash has returned MD2 holds Canon2 of the file.
Md2LoneCRConverted ==
  md2On /\ Len(opened) > 0 /\ pc \in {"open", "done"} /\ rc \in {"none", "ok"} =>
    md2 = md2Base \o Canon2(cur)

=============================================================================
