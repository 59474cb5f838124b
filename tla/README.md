# TLA+ verification of neopg's keyserver engine and plaintext handling

This directory holds TLA+ models of two files:
- the keyserver search and retrieval code of `src/legacy/gnupg/g10/keyserver.cpp`;
- the literal-data and detached-data hashing code of `src/legacy/gnupg/g10/plaintext.cpp`.

Each model is translated from the source. TLC configurations model-check them.
TLAPS proofs cover:
- three invariants of the search engine: the array bound, the order of the stored descriptors, and the truth of the prompt header;
- two invariants of retrieval and the refinement of retrieval into an abstract specification;
- the batch line budget of retrieval;
- the `--max-output` accounting and the completeness check of `handle_plaintext`;
- the canonical line endings hashed by the clearsig loop and by the pgp2 workaround, and the digest of all the files of a detached signature.

## 1. The system

The repository contains six source files under `src/`. Only two of them have
behaviour worth modelling:

| part | source | what it does |
|---|---|---|
| search engine | `keyserver.cpp` 230-665, 986-1060 | `keyserver_search` asks dirmngr for a KS_SEARCH, which calls `search_line_handler` once per server line and once with NULL at end of stream. The handler parses an `info:` header, feeds every other line to `parse_keyrec`, stores completed records in a growable array `parm->desc`, and shows them through `show_prompt`. `show_prompt` blocks on the user and may call `keyserver_get` on the selection. |
| retrieval | `keyserver.cpp` 701-752, 1066-1255 | `keyserver_get` walks a descriptor array in batches. `keyserver_get_chunk` plans each batch under the KS_GET line budget (950), sends it, and streams the answer into the importer. The importer calls `keyserver_retrieval_screener` on each keyblock. |
| callers of retrieval | `keyserver.cpp` 754-984 | `keyserver_import`, `keyserver_import_name/_fprint/_keyid`, and `keyserver_refresh` with its `keyidlist` build descriptor arrays and call `keyserver_get`. |
| options, URIs, export, put, fetch, LDAP | `keyserver.cpp` 102-228, 667-700, 1258-1421 | String parsing and thin dirmngr wrappers. |
| plaintext | `plaintext.cpp` 136-381 | `handle_plaintext` copies one literal data packet to the output and into the digest. It has three loops: text, binary (known or partial length) and clear-signed text. Every write is charged first to a `--max-output` counter that is function-static and never reset. The clear-signed loop hashes through a CR/LF state machine that holds back the last line ending. |
| detached data | `plaintext.cpp` 383-560 | `do_hash` feeds a stream into MD and, with the pgp2 workaround, a CR LF form of it into MD2. Three callers open the data: `hash_datafiles` (a list of files, or the file next to the signature), `hash_datafile_by_fd`, and `ask_for_detached_datafile` (which may prompt for names). |
| headers, tests | `trustdb.h`, `revocation_key_subpacket.h`, two gtest files | Declarations, one inline linear search, and serialization tests. |

How the parts interact:
- Search feeds retrieval: a valid selection at the prompt calls `keyserver_get` on the chosen descriptors.
- The server is untrusted. It decides every line of a search response and every keyblock of a retrieval answer.
- The program is single threaded, but it is callback driven. Between two handler calls, the user may be answering a prompt, and the transport may fail.

Three pieces of state outlive their call, because they are `static` inside a function:
- `parse_keyrec`'s in-progress record `work`;
- `show_prompt`'s `from`;
- `handle_plaintext`'s `count`, which lives for the whole process.

Everything in `parm` is zeroed at the start of each `keyserver_search`.

### Hard behaviours and the properties aimed at them

- **Interleaving of the server, the user and the end-of-stream flush.**
  - A prompt can interrupt the handler between two records. It can also interrupt the `goto again` loop that drains the last record after end of stream.
  - Properties: `SearchReturns`, `ParsedInOrder`, `HeaderTruthful`.
- **Server-controlled sizes.**
  - The `info:` count sizes the array. It can be 0, negative or missing, and the server may send more keys than it declared.
  - Properties: `DescInBounds`, which is also proved (§4), and `HeaderTruthful`.
- **State that outlives a search.**
  - The static parser record and a record that was freed but is still pointed to.
  - Properties: `NoForeignRecords`, `NoUseAfterFree`. Both are violated (§3).
- **Batching under a line budget, with a progress guarantee and partial failure.**
  - Properties: `BatchFits` and `FetchedInOrder`, which are also proved (§4), and `Terminates`.
- **The security filter on what a rogue keyserver returns.**
  - Property: `ImportsRequested`, which is also proved (§4).
- **What retrieval promises as a whole.**
  - Property: `GetRefines` (`KeyserverGet` implements `KeyserverGetAbstract`). Its safety part is proved (§4).
- **The header of a later search.**
  - Property: `HeaderContinues`, which is violated (§3).
- **The output limit across packets.**
  - Properties: `OutputWithinLimit`, which is also proved (§4), and `CutAtChunk`, for where a cut call's output ends.
- **Line-ending canonicalisation in the digest.**
  - The clear-signed state machine: `ClearsigHashCanonical`, which is also proved (§4).
  - The pgp2 workaround: `Md2Canonical`, which is also proved (§4), and `Md2LoneCRConverted`, which is violated (§3).
- **Partial failure of input and of a list of files.**
  - Properties: `SuccessConsumedAll`, `DigestOfAllFiles`. Both are also proved (§4).

PROJECT.json lists every hazard at its line, with the properties that cover it.

## 2. Modules

### `KeyserverSearch` — the search engine

State:
- **Static across searches:** `work` (`parse_keyrec`'s record, or `NoRec` for NULL), `freed` (`work` points to freed memory) and `from`.
- **`parm`:** `count`, `validcount`, `nkeys`, `anyLines`, `numlines`, `eofSeen`, `notFound`, `descs` (the descriptors written to `parm->desc`) and `alloc` (`parm->desc != NULL`).
- **Control:** `pc` is one of:
  - `idle`: no search running;
  - `recv`: waiting for the transport;
  - `again`: in the end-of-stream loop;
  - `prompt`: `show_prompt` is waiting for the user;
  - `ub`: undefined behaviour was reached.

  `resume` and `pending` record where the handler continues after a prompt.
- **History, for the properties only:** `served` (the valid pub lines of this search), `carried` (the record inherited from the previous search), `declared`, and `header` (the last "Keys x-y of z" header of this search, with the last number of the header before it).

Data abstraction:
- A descriptor is a model value.
- A server line is a record that says which branch of the handler and of `parse_keyrec` it takes: an `info:` line with version 1 or 2 and a count from `InfoCounts` (or no count), a `pub` line with a valid or an unclassifiable token, a `uid` line, or any other line.
- A keyrec is reduced to its descriptor and its display-line count.

Actions, one per handler entry:
- `StartSearch`;
- `ReceiveInfo(l)`;
- `ReceiveLine(l)`: `parse_keyrec` followed by `Store`, which covers array growth, the mid-listing prompt and the accounting;
- `ReceiveEOF`: `parse_keyrec(NULL)` followed by `AfterFlush`, which covers not-found, the final prompt and the store;
- `Again`: the `goto again`;
- `ReadFreed`: `parse_keyrec` entered while `work` is dangling;
- `TransportFail`;
- the user's answers `Quit`, `Skip` and `Select`. `Select` may end in a failed `keyserver_get`. Its success continues like `Skip`.

Allocation failure is a disjunct of `Store` wherever the code calls `xtrymalloc`/`xtryrealloc`. The helpers `NeedDefault`, `Full`, `NewCount` and `NewValid` are the conditions of lines 606-635.

### `KeyserverGet` — retrieval

State:
- `input`: the caller's array, chosen in `Init` from what the callers really pass. That is up to `MaxDescs` key ids and fingerprints, or one exact name. No caller passes mode NONE.
- `rest`: `desc` and `ndesc` at the top of the loop.
- `pc` and `err`.
- History: `fetched`, `batches` and `imported`.

Operators:
- `Used(d)` is `*r_ndesc_used`. It is written as the first index at which `Breaks`, the `idx && linelen + n > MAX_KS_GET_LINELEN` test, holds. `linelen` is the baseline plus `SumCost` of the prefix, a recursive function.
- `Screener` is `keyserver_retrieval_screener`. The secret-key check comes first, then a call with no descriptors accepts everything, then the tiered comparison `Match`.

Actions:
- `ChunkNoMem`: a pattern allocation fails;
- `ChunkFail`: KS_GET fails;
- `ChunkFetched`: the server answers with any set of keyblocks. Each keyblock passes the screener or is dropped, then the cursor advances.

### `KeyserverGetAbstract` — what retrieval promises

This module has no code behind it. It states what `keyserver_get` promises its callers:
- the requested descriptors are fetched in order, in consecutive non-empty batches (`Fetch`);
- a batch may import any keyblock that is `Permitted` for the request;
- a failure ends the call with its error (`Fail`);
- under weak fairness of `Fetch`, a call that does not fail fetches everything.

`KeyserverGet` instantiates it as `Abs` with this refinement mapping:
- `requested` is `input`, `todo` is `rest`, `got` is `fetched`, `status` is `pc`, `outcome` is `err`, and `accepted` is `imported`;
- `Permitted` is `Requested`: no secret key packet, and a key packet that a descriptor of the request names through `Match`.

The plan of each batch, the batches sent and the screener's restriction to the current batch are hidden. `GetRefines == Abs!Spec` is a property of the get run.

### `Plaintext` — `handle_plaintext`

Constants:
- `MaxOutput` is `opt.max_output`, where 0 means no limit;
- `Chunk` is the 32768-byte buffer of the binary loops;
- `MaxLen` and `MaxCalls` bound the packet size and the calls per process.

Data abstraction:
- A byte is `CR`, `LF` or any other byte `X`.
- A packet is its mode, whether its length is partial, its declared length, and the bytes its iobuf actually yields. A truncated packet yields fewer bytes than it declares.

State:
- `count` is the static counter;
- `pt`, `pos` and `rem` (`pt->len`) describe the packet being copied;
- `md`, `clearsig` and `fp` are the call's arguments and output;
- `state` is the clear-signed loop's line-ending state;
- `pc` and `err` are control;
- history: `hashed` (the bytes put into the digest by this call) and `total` (the bytes written by all calls).

Actions:
- `Call`: the entry checks. `get_output_file` is reduced to its outcomes. A known-length packet with `clearsig` is rejected.
- Text loop: `TextByte`, `TextReadFail`, `TextEnd`.
- Binary loops: `BinChunk`, `BinReadFail`, `BinEnd`, and for partial length `BinNoMem`, `BinPartChunk`, `BinPartEOF`.
- Clear-signed loop: `ClearByte`, `ClearEnd`.
- `Close`: the close of an opened file and the flush of stdout at `leave`.

Every write goes through `Emit`. `Emit` charges the counter before writing, exactly as `opt.max_output && (count += len) > opt.max_output` does. `CountAtEntry` is the value of `count` when a call starts. Charging first is what keeps `OutputWithinLimit`: code that wrote the chunk first would overshoot the limit. It also means a chunk that crosses the limit is charged and hashed but not written, so a cut call's output ends at a chunk boundary (`CutAtChunk`).

The code's `if`/`else` chains are translated into CASE expressions whose guards exclude each other. This applies to `Call`'s error, `ClearStep` and `BinPartChunk`'s exit, where an error leaves the loop before `eof_seen` is looked at. With overlapping guards, TLA+ leaves the choice between true arms unspecified. TLC happens to take the first arm, but no proof could use it.

### `DetachedHash` — `do_hash` and its callers

State:
- `entry` says which of the three callers runs;
- `nfiles`, `idx`, `any` and `asks` are their loop variables;
- `cur`, `pos` and `lc` describe `do_hash` on the current file;
- history: `md`, `md2`, `md2Base` (MD2 when `do_hash` started) and `opened`.

Actions:
- `SigfileStart`, `FilesStart`, `FilesOpen` and `FilesDone` model `hash_datafiles`;
- `FdStart` models `hash_datafile_by_fd`;
- `AskStart` and `AskName` model `ask_for_detached_datafile` and its prompt loop;
- `HashByte` and `HashEOF` model `do_hash`. `Md2Put` is one pass of the pgp2 workaround.

Opening a file may succeed, fail with ENOENT, fail otherwise, or open a file that `is_secured_file` refuses. `Canon2` is the CR LF form the workaround's comment promises.

### `KeyserverSearchProofs`, `KeyserverSearchOrderProofs`, `KeyserverGetProofs`, `PlaintextProofs`, `PlaintextClearsigProofs`, `DetachedHashProofs`, `ConcatFixpoint`

TLAPS proofs (§4). Each one EXTENDS the module it proves things about, together with TLAPS and the library's theorem modules. `ConcatFixpoint` models no code: it holds the lemmas about recursive functions that the other proof modules cite.

### `PlaintextCut` — where a cut call stops

This module EXTENDS `Plaintext` and adds one history variable, `entry`: the value of `total` when the current call started. `Call` is the only step that leaves `pc = "idle"`, so `CutNext` records `entry` there and takes `Next` unchanged. `CallOut == total - entry` is what the current call has written. `CutAtChunk` says that when a binary packet fails with `toolarge`, `CallOut` is a whole number of chunks and the crossing chunk, between 1 and `Chunk` bytes, was read but not written.

### `MCKeyserverSearch`, `MCKeyserverGet`

These give the constants model values and small sets. `Plaintext` and `DetachedHash` have only numeric constants, which their cfg files set directly.

## 3. Runs

| run | cfg | expect | properties |
|---|---|---|---|
| search_interactive | `KeyserverSearch.cfg` | pass (≈104k states) | DescInBounds, ParsedInOrder, HeaderTruthful, SearchReturns |
| search_batch | `KeyserverSearch_Batch.cfg` | pass (≈44k states) | DescInBounds, ParsedInOrder |
| get | `KeyserverGet.cfg` | pass (≈3.9k states) | FetchedInOrder, BatchFits, ImportsRequested, Terminates, GetRefines |
| plaintext | `Plaintext.cfg` (module `PlaintextCut`) | pass (≈142k states) | OutputWithinLimit, SuccessConsumedAll, CutAtChunk |
| plaintext_clearsig | `Plaintext_Clearsig.cfg` | pass (≈76k states) | ClearsigHashCanonical |
| detached_hash | `DetachedHash.cfg` | pass (≈42k states) | Md2Canonical, DigestOfAllFiles |
| search_uaf | `KeyserverSearch_UAF.cfg` | violation | NoUseAfterFree |
| search_foreign | `KeyserverSearch_Foreign.cfg` | violation | NoForeignRecords |
| search_notfound | `KeyserverSearch_NotFound.cfg` | violation | NotFoundHasNoRecords |
| search_infofirst | `KeyserverSearch_InfoFirst.cfg` | violation | InfoOnlyFirst |
| search_from | `KeyserverSearch_From.cfg` | violation | HeaderContinues |
| detached_lonecr | `DetachedHash_LoneCR.cfg` | violation | Md2LoneCRConverted |

### Search bounds

The search runs use:
- two keys;
- declared counts {-1, 0, 1}, so the negative, not-found and too-small cases all occur;
- a three-line screen, so a second record forces a mid-listing prompt;
- up to five server lines per search;
- two searches, so state carried from one search to the next is exercised.

With count 1 and two pub lines, the array grows. With a `uid` line, a record needs two screen lines.

### Get bounds

The get run keeps the code's pattern costs:
- 43 for a fingerprint, 19 for a long id, 11 for a short id, 2 plus the name's length for an exact name;
- baseline 17.

It scales the ceiling from 950 to 100. With that ceiling:
- two fingerprints do not fit in one batch;
- a fingerprint and a long id fit;
- three ids can fit.

So inputs of up to three descriptors produce one, two and three batches. A 90-character name is longer than a whole line.

Two keys share their short id, one of them v3, so the short-id and 16-byte fingerprint branches of the screener both matter.

### Plaintext bounds

- **`plaintext`:** a limit of 3 bytes, a 2-byte chunk, packets of up to 3 bytes, and two calls per process. A 3-byte binary packet is read as a full chunk and then a short one. Two packets exceed the limit only together, so the counter carried from the first call decides the second. The crossing chunk falls either inside the second packet, after a full chunk was written, or at its start. Code that wrote a crossing chunk up to the limit would write part of it. Every mode, partial and known length, truncated packets, and every failure occur.
- **`plaintext_clearsig`:** one clear-signed call with up to 4 bytes from {CR, LF, X}. That covers every pattern of two line endings in a row: CR CR, LF LF, CR LF, LF CR, and each at the end of the text. The limit is off so that every byte is written and hashed.
- **`detached_hash`:** files of up to 3 bytes, lists of up to 2 files, and up to 2 prompt answers. Three bytes are enough for a CR followed by LF, by CR, by X and by the end of the file.

### Fairness of the plaintext runs

The plaintext runs check only invariants, so they assume no fairness. The process stops after `MaxCalls` packets, or once a detached-data function has returned. Those runs therefore say `CHECK_DEADLOCK FALSE`.

### Findings

The six violation runs are findings, described in PROJECT.json:
- **search_uaf:** `parse_keyrec` frees a dead record at end of stream and keeps the pointer. The next search reads freed memory (line 321). This is a code bug.
- **search_foreign:** a search stopped mid-response leaves its record in the static pointer. The next search offers that record as its own first result. This is a code bug.
- **search_notfound:** `info:1:0` does not stop later records from being stored. This diverges from the spec's §8.
- **search_infofirst:** an `info:` line is honoured after pub/uid lines that stored nothing. This diverges from the spec's §4.3.
- **search_from:** `show_prompt`'s static `from` carries over into the next search. The next search's first header can read "Keys 2-1 of 1". This diverges from the spec's §4.4, and from its §3, which says no session state persists.
- **detached_lonecr:** the pgp2 workaround puts the LF owed to a single CR only when another byte follows. A file that ends in a lone CR hashes into MD2 as CR alone. The comment at lines 391-392 promises CR LF.

### Fairness

- **Search:** weak fairness on the transport's steps, the user's answers and the handler's `goto again`. A transport delivers a line, end of stream or an error, and a user eventually answers; that is the environment the code waits on. The code's own loop runs because the process runs. Starting a search is not assumed.
- **Get:** weak fairness only on `ChunkFetched`. The abstract specification has the matching weak fairness on `Fetch`, and TLC checks that one implies the other. The loop is code of the running thread, so some outcome of each iteration happens. Failures are possible but never assumed. Fairness on the whole step would let TLC force a failure out of a livelock, and that would hide the missing `idx &&` guard.

Each property of a passing run has a mutant in PROJECT.json, and TLC breaks the property under that mutant. An example is `Breaks` without `idx &&`: a name longer than the line is then never sent, and `Terminates` fails.

## 4. Proofs

`KeyserverSearchProofs` proves two theorems with TLAPS, for every value of the constants. The only assumptions are that `NoKey` is not a key, that the counts are integers, and that the booleans and bounds are typed:
- `TypeCorrect`: `Spec => []TypeOK`.
- `DescInBoundsThm`: `Spec => []DescInBounds`, which TLC also checks.

`DescInBounds` is not inductive on its own. When the handler writes `parm->desc[parm->nkeys]`, the proof needs to know how many descriptors have been written and that the `info:` branch can no longer change `count`. The strengthening `IInv`, checked with TLC before it was proved, states:
- `TypeOK`;
- `Len(descs) = nkeys` while receiving, flushing or at the final prompt, and `nkeys + 1` at a mid-listing prompt, because the record is written before the prompt;
- no array means no descriptors;
- once the array exists while receiving, `any_lines` is set.

The proof has one step per action. Two shared lemmas are cited from several actions:
- `StoreStep` proves the store path for the default of 10, the +10 growth, and room to spare.
- `FlushStep` proves the end-of-stream flush.

SMT handles the arithmetic. Zenon handles the Boolean-typed frame facts.

`KeyserverGetProofs` proves three theorems about `KeyserverGet` here, and `BatchFitsThm` below. They hold for every key set, every descriptor input and every line budget, and need no assumption beyond `GetAssumption`:
- `FetchedInOrderThm`: `Spec => []FetchedInOrder`;
- `ImportsRequestedThm`: `Spec => []ImportsRequested`;
- `GetRefinesSafety`: `Spec => Abs!Init /\ [][Abs!Next]_Abs!avars`, the safety part of `GetRefines`.

The argument rests on the lemma `UsedRange`: for a non-empty `d`, `Used(d)` is in `1..Len(d)`. This is the `idx &&` guard at work, because the first descriptor is always taken. The proof takes the least breaking index with `WFMin` and `NatLessThanWellFounded` from WellFoundedInduction, so nothing about `SumCost`'s values is needed.

The inductive invariant `IInv` states:
- the types;
- `fetched \o rest = input`;
- every imported keyblock is `Requested` for `input`;
- while the loop runs, `rest` is non-empty and there is no error;
- a return without error leaves `rest` empty.

The second conjunct is what makes the screener's verdict on the current batch a verdict on the caller's array. `ScreenedRequested` shows that a keyblock the screener lets through for the batch is `Requested`. `FetchedStep` shows that `ChunkFetched` preserves `IInv` and is an abstract `Fetch` with `k = Used(rest)`. `FailStep` shows that both failures are an abstract `Fail`.

`KeyserverSearchOrderProofs` proves two more theorems about the search engine. They rest on the `IInv` of `KeyserverSearchProofs`:
- `ParsedInOrderThm`: `Spec => []ParsedInOrder`. While a search runs, the stored descriptors followed by the record in progress are the record carried over from the previous search followed by the classified pub lines the server sent.
- `HeaderTruthfulThm`: `Spec => []HeaderTruthful`.

`ParsedInOrder` is inductive relative to `IInv`. The lemmas state what each piece of the handler does to the sequence "stored, then in progress":
- `ParseLineOrder` shows that `parse_keyrec` on one line returns the old record and keeps the new one, so that together they are the old record followed by the line's descriptor.
- `ParseEOFOrder` does the same for the end of the stream.
- `StoreOrder` and `FlushOrder` show that storing a returned record appends exactly it.

The step proof then chains associativity of `\o` (lemma `Assoc3`).

`HeaderTruthful` needs the strengthening `HInv`. It adds that a valid count (`validcount`) means the array was sized to the declared count and that an `info:` line can no longer change it. Without `HInv`, a later `info:` line could not be excluded.

`PlaintextProofs` proves three theorems about `Plaintext`, for every `--max-output`, chunk size, packet length and number of calls. The only assumption is `PlaintextAssumption`: the constants are naturals and the chunk is non-zero.
- `TypeCorrect`: `Spec => []TypeOK`.
- `OutputWithinLimitThm`: `Spec => []OutputWithinLimit`.
- `SuccessConsumedAllThm`: `Spec => []SuccessConsumedAll`.

The inductive invariant `IInv` has three parts:
- `TypeOK`;
- `LimitInv`: with a limit set, `total <= count` and `total <= MaxOutput`. `OutputWithinLimit` alone is not inductive, because a write is allowed only if the static count stays within the limit, so the count must be known to bound everything written;
- `DoneInv`: in a loop or at `close`, there is no error; for a known-length packet, `pos + rem = pt.len`; the clearsig loop runs only on partial packets; and at `close`, or after a return without error, the data is consumed.

Shared lemmas:
- `EmitFacts` shows that every outcome of `Emit` charges at least what it writes and writes only within the limit.
- `ChargeStep` turns that into `LimitInv'`.
- `ChunkBytes` gives the length of a chunk read by `SubSeq`.
- `ClearStepType` shows that the line-ending state machine stays in its three states.

There is one step lemma per action. `IInvStep` combines them.

Some definitions were changed so that proofs could reason about them: `ParseLine`, `ParseEOF`, `ParseEOFNoClear`, `Call`, `ClearStep`, `BinPartChunk`, and in `DetachedHash` `AskName`, `Md2Put` and `Canon2`. Their CASE expressions had overlapping guards, and the proofs showed that their value was then unspecified. The guards now exclude each other in the order of the code's `if`/`else` and `goto`. The state counts of every run are unchanged.

### Recursive functions

`SumCost`, `Canon`, `Canon2` and `Concat` are recursive functions: `f[0]` is a start value and `f[i]` is `f[i - 1]` combined with the i-th piece. Such a definition means the CHOOSE of a function meeting that equation, so nothing about its value is known until a function meeting the equation is shown to exist. The library's induction theorems would give this, but they take an operator parameter, which the installed provers cannot instantiate. The proofs therefore take the least counterexample instead, using `WFMin` and `NatLessThanWellFounded`.

For concatenations, `ConcatFixpoint` proves:
- `CatExists`: a function meeting the equation exists;
- `CatAgree`: two such functions agree as far as their pieces do;
- `CatStep`: one more piece appends that piece.

`KeyserverGetProofs` proves the same three facts for integer sums (`SumExists`, `SumAgree`, `SumStep`). Each model's lemmas then derive the step equation of its own function:
- `SumCostStep` for `SumCost`;
- `CanonStep` for `Canon`;
- `Canon2Step` for `Canon2`;
- `ConcatAppend` for `Concat`.

Each step equation says that one more element adds that element's piece.

### The loops' outputs

`KeyserverGetProofs` also proves `BatchFitsThm`: `Spec => []BatchFits`. `UsedBefore` shows that the planning loop passed its length check at every index before the one where it stopped. For a batch of `u >= 2` patterns, the check at index `u - 1` was not skipped by `idx &&`. It compared the baseline, plus `SumCost` of the first `u - 1` patterns, plus the cost of the last one, with the budget. By `SumCostStep`, that total is the batch's cost (`BatchOK`). `BatchFits` is then inductive relative to `IInv`. Each step adds at most the batch it plans from `rest`, which is non-empty while the loop runs.

`PlaintextClearsigProofs` proves `ClearsigHashCanonicalThm`: `Spec => []ClearsigHashCanonical`. `ClearsigHashCanonical` alone is not inductive, because the state machine's step depends on whether the byte before was a CR. The strengthening `ClearInv` adds that `state = 1` exactly when the last byte read is a CR. `ClearStepPuts` checks the machine state by state and byte by byte. What it held back, followed by the new byte's piece of `Canon`, equals what it puts followed by what it now holds back, and it ends in state 1 exactly on a CR. With `CanonStep` and associativity, every hashed byte then keeps `ClearInv`. `Call` resets it. The text and binary loops run only without clearsig. The proof rests on `IInv` of `PlaintextProofs`: in the loop there is no error yet.

`DetachedHashProofs` proves four theorems about `DetachedHash`. The assumption is `DetachedAssumption`: the bounds are naturals, and there are at least one file and one prompt. `ask_for_detached_datafile` always reads one answer, so `MaxAsks = 0` would describe no run of the code.
- `IInvariant` and `TypeCorrect`.
- `Md2CanonicalThm`: `Spec => []Md2Canonical`.
- `DigestOfAllFilesThm`: `Spec => []DigestOfAllFiles`.

Its inductive invariant `IInv` adds the following to `TypeOK`:
- outside `do_hash`, `md` is `Concat(opened)`;
- inside `do_hash` (`HashInv`), `md` is the files opened before, followed by the bytes read from the current one; `lc` is the last byte read, or `"none"` at the start; and MD2, followed by the LF it still owes after a CR, is MD2 at the start of the file followed by `Canon2` of the bytes read;
- the prompt loop runs only as the `ask` caller and below its bound;
- `rc` is unset until the caller returns;
- for `hash_datafiles`, `idx` files have been opened, and all of them once it returns successfully.

The owed LF is needed because `Md2Put` holds back a CR's line ending until it has seen the next byte.

### What is only model-checked

- the liveness properties (`SearchReturns`, `Terminates`) and the fairness part of `GetRefines`, which need fairness and ENABLED, beyond TLAPS;
- `Md2LoneCRConverted`, which the code violates (§3);
- `CutAtChunk`. Its proof would need an invariant stating that every chunk written before the current one was a full chunk.

## 5. Not modelled

- **`print_keyrec`, logging and the wording of messages:** output only.
- **Option and URI parsing, export/put/fetch/LDAP:** no interaction with the modelled state.
- **The importer and dirmngr (not in `src/`):** reduced to the screener call made on each keyblock, and to the transport's possible outcomes.
- **`get_output_file` and `text_filter` (in `plaintext.cpp` and outside `src/`):** file-name handling and the overwrite prompt are reduced to their three outcomes. The text filter is reduced to the bytes it yields.
- **The iobuf layer (not in `src/`):** `iobuf_read` returns -1 both for a read error and at the end of the data. The partial-length binary loop therefore cannot tell a failing stream from a short one, and the model cannot either.
- **`trustdb.h` and the subpacket header:** declarations. The one inline loop, `is_in_klist`, is a plain membership test.

## 6. Plan for later work

1. **A composition of search and get:** the selection at the prompt feeds `keyserver_get` on the descriptors stored by the handler.
2. **A transport fault model for search:** data after the end of stream (line 538) and the 50-key selection cap (line 487).
3. **Proofs of liveness:** `Terminates` and `SearchReturns` need a variant (the length of `rest`, the lines left) and WF reasoning. Today only TLC checks them.
