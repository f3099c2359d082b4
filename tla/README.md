# kai volume proofs in TLA+

A TLA+ development of this repository: the guest relation that is proved in SP1, the
capture tool that feeds it, and the CLI commands that talk to nodes. Paths below are
relative to the repository; `trie/`, `chunk/`, `core/`, `guest/` stand for
`prover/volume-sp1/<crate>/src/`, `lib/` for `packages/volume-proof/src/` and `cli/` for
`packages/cli/src/`.

1. [The system](#1-the-system)
2. [What is hard, and what would be right](#2-what-is-hard-and-what-would-be-right)
3. [The modules](#3-the-modules)
4. [The runs, their bounds, fairness](#4-the-runs)
5. [What is proved](#5-what-is-proved)
6. [Disagreements between code and comments](#6-disagreements-between-code-and-comments)
7. [Not modelled](#7-not-modelled)
8. [Plan](#8-plan)

## 1. The system

A *race* compares how much several tokens are traded between two block heights. Its terms
(entrants, pools, quote currency, heights) are hashed. Anyone may capture a *chunk* of the
chain, run it through the guest, and publish the resulting *journal*: the volume and the
number of swaps of each covered entrant in that chunk.

| Part | State it keeps | Operations | Talks to |
|---|---|---|---|
| Receipts-trie walk, `trie/receipts.rs`, `trie/lib.rs` | store of supplied nodes with `used` flags, stack of frames, count/max/previous key | `visit_receipts`, `Store::new/child/hashed/path_proof`, `verify_raw` | calls the chunk relation back once per receipt |
| Chunk relation, `chunk/*`, `core/volume.rs`, `core/journal.rs`, `guest/main.rs` | context, height, parent hash, totals, diagnostics | `evaluate_frames`, `visit_logs`, `qualify_v4`, `accumulate_checked`, `abi_encode` | pulls frames from the host, commits the journal |
| Race terms, `core/terms.rs`, `lib/chunk-frame.ts` 143-545 | none | `validate`, `validateTerms`, two ABI codecs | relation and capture |
| Frames, `chunk/framing.rs`, `lib/chunk-frame.ts` 108-119, 637-717 | none | `encodeFrameFile`, `decodeFrameFile`, `encodeBlockFrame`, `decodeBlockFrame`, `read_frame`, `decode_block` | capture and relation |
| Receipt trie and proofs, `lib/receipt-proof.ts`, `lib/ethereum-state-proof.ts` | the trie of one block | `ReceiptsTrie.root/hashedNodes/proof`, `verifyReceiptLog`, `verifyMerklePatriciaValue` | chunk capture, receipt capture, plans |
| Headers and RLP, `core/header.rs`, `primitives/`, `lib/nitro-header.ts` | none | `parse_nitro_header`, `item`, `list`, `encodeRobinhoodHeader`, `decodeRobinhoodHeader` | relation, walk, capture |
| SP1 host and build, `host/`, `build/` | none | run the guest, write metrics | guest |
| Chunk capture, `lib/chunk-frame.ts` 548-812, `cli/commands.ts` 616-686 | height, parent, frames; a temporary file | `captureChunkFrames`, `captureChunk` | a node, the disk |
| JSON-RPC client, `lib/rpc.ts`, `lib/bounded-json-rpc.ts` | `blocked` and `verified` endpoints, shared by all requests | `request`, `call`, `head`, `block` | nodes |
| Receipt capture and plans, `lib/receipt-capture.ts`, `cli/commands.ts` 174-315 | a block file the user keeps between commands | `captureReceiptBlock`, `buildActivityProofs`, `verifyBlock`, `planBlock`, `verifyQuoteAssets` | nodes, the trie |
| Activity qualification, `lib/activity-qualification.ts` | none | `qualifyActivitySwap`, pool ids, log decoding | plans |
| Batching, `lib/batching.ts` | the open batch | `batchActivityProofs` | plans, submit |
| Signing commands, `cli/commands.ts` 334-614, `cli/wallet.ts` | none in the process; nonces and transactions live on the network | `submitBatch`, `claimBounty`, `confirmSubmission` | nodes, contracts |
| Adapter binding and views, `cli/commands.ts` 78-172, 316-332 | none; the binding is the controller's | `resolveAdapter`, `resolveWrapper`, `inspect`, `rewards` | nodes, contracts |
| Terms hash, `lib/schema.ts` 419-463 | none | `canonicalJson`, `jsonQuote`, `termsHashOf` | published terms |
| Schemas, keystore, configuration, argument parsing | none | zod parsers, scrypt/AES, `loadPublicConfig` | user |

The three chains of interaction are: *capture*: node -> RPC client -> capture -> frame
file; *prove*: frame file -> host -> guest (relation, which calls the walk, which calls the
relation back) -> journal; *submit* (the older path): node -> receipt capture (`fetch`) ->
a file -> `verify` or `plan` -> batches -> submit -> confirm -> claim.

## 2. What is hard, and what would be right

`PROJECT.json` lists each hazard with its line and the properties that watch it. In short:

* **The walk** is fed by an untrusted host. It keeps three words (count, largest index,
  previous key) and must conclude from them that the receipts are exactly 0..m-1, for keys
  that sort differently from their indices, in a graph where equal receipts are one node,
  with small nodes inlined. *Right*: an accepted walk is dense, complete and used exactly
  the trie's nodes; an honest trie is accepted; the walk ends.
* **The relation** accumulates during a walk that may still fail, over frames that may come
  from any fork. *Right*: at most one journal; it is exact for the one segment of the chain
  the context names; uncovered slots are zero; honest chunks are not refused.
* **Capture** asks a node that may change forks between two awaits, and writes a file that
  other captures and crashes race for. *Right*: what reaches the file is what an honest
  prover would have written; the destination is never a mixture.
* **The RPC client** is one object shared by concurrent requests. *Right*: no result from
  another chain; an endpoint is skipped only because it failed lately.
* **Signing commands** broadcast through that client, which retries elsewhere when an answer
  is lost. *Right*: one transaction per command, inside the user's limits; a receipt that says
  what it is of confirms that command's submission and nothing else.
* **The trie in TypeScript** is built once for the guest to walk and once to prove single
  receipts; the proof verifier knows only a root. *Right*: what is verified is what the root
  commits to; of a list of nodes exactly the one that was built is accepted.
* **Fetch, verify, plan** are three commands with a file between them. Fetch makes four
  requests while the chain reorganises; the file may be of another block or edited; plan
  asks for the adapter three times while the controller may be rebound; and it decides
  off-chain which swap counts for whom, which the guest decides again by other code.
  *Right*: one block throughout; the same swaps, entrants and amounts as the guest; only
  bound adapters are asked.
* **Batching** is greedy at two limits. *Right*: nothing lost or reordered, batches fit, as
  few as any cut of the list needs, and no list that can be cut is refused.
* **Terms** are validated, read and written twice, in two languages. *Right*: the two agree,
  accepted terms cannot count a swap twice, and a file has one reading.
* **Frames and headers** carry their own lengths and counts. *Right*: one block, one encoding,
  and what the client writes the guest reads.
* **The terms hash** is taken of a text. *Right*: two values, two texts.

## 3. The modules

| Module | Models | Used by |
|---|---|---|
| `ReceiptKeys` | `receipt_key`, `KeyPath::push/index`: RLP of an index as nibbles, and back | `MCReceiptProof` runs it, `ReceiptsTrie` and `MCReceiptWalk` take its keys, `ReceiptWalk_proofs` proves it |
| `ReceiptsTrie` | `ReceiptsTrie` and `encodeReceipt`: build, root, `hashedNodes`, `proof` | `MCReceiptProof`; `MCReceiptWalk` walks its tries |
| `MerkleProof` | `verifyMerklePatriciaValue`, `verifyReceiptLog` | `Validation_proofs`, `MCReceiptProof` |
| `ReceiptWalk` | `visit_receipts`, `Store`, `Indices`, `path_proof`, `verify_raw` | `ReceiptWalk_proofs`, `MCReceiptWalk` |
| `VolumeTerms` | terms, receipts and logs as the relation sees them: `qualify_v4`, `validate_mask`, segments of the chain, the reference sums | `RaceVolume`, `ChunkRelation`, `ChunkCapture`, `ReceiptFetch` |
| `RaceVolume` | the abstract specification of the guest: nothing, or one exact journal | refined by `ChunkRelation` |
| `ChunkRelation` | `evaluate_frames` with `visit_logs`, `VolumeAccumulator`, diagnostics, `VolumeJournalV1::validate`, `guest/main.rs` | `ChunkRelation_proofs`, `MCChunkRelation` |
| `ChunkCapture` | `captureChunkFrames`, `captureChunk`, several processes | `ChunkCapture_proofs`, `MCChunkCapture` |
| `ReceiptFetch` | `captureReceiptBlock` under reorganisations | `ActivityProofs` |
| `ActivityProofs` | `verifyBlock`, `planBlock`, `buildActivityProofs`, `qualifyActivitySwap`, the three log indices | `ReadCommands` |
| `ReadCommands` | the commands `fetch`, `verify`, `plan`, `inspect`, `rewards` and the adapter binding | `ReadCommands_proofs`, `MCReadCommands` |
| `HttpRpc` | `HttpRpc.request/call` | `HttpRpc_proofs`, `MCSubmission` |
| `Submission` | `submitBatch`, `claimBounty`, `confirmSubmission`, `sendRawTransaction` | `Submission_proofs`, `MCSubmission` |
| `Batching` | `batchActivityProofs` | `Batching_proofs`, `MCReceiptProof` |
| `TermsValidation` | `VolumeTermsV1::validate` and `validateTerms` | `Validation_proofs`, `MCTerms`, `MCTermsValidation` |
| `TermsAbi` | `decodeTermsAbi`, `encodeTermsAbi`, `abi_decode`, `abi_encode` | `MCTerms` |
| `FrameFile` | chunk files and block frames as bytes, both directions | `MCTerms` |
| `HeaderRlp` | RLP items, lists and the 16 fields of a header, both directions | `MCTerms` |
| `TermsHash` | `canonicalJson`, `jsonQuote`, `termsHashOf` | `MCTerms` |

Abstractions common to all: hashing is injective, so a node, header or transaction *is* its
hash; RLP and ABI bytes are the values they encode; texts and formatting are left out. The
last five modules but `TermsValidation` are the exception: there the bytes are the subject.

**ReceiptWalk.** `corpus` is the argument; `stack`, `frame`, `next` are the explicit stack
and the inner loop over a branch's children; `count, max, previous` are `Indices`; `used`
the flags in `Store`; `proof, at, position, cursor` the two lookups at the end. One action
per arm of the loop (`VisitLeaf`, `VisitExtension`, `VisitBranch`, `VisitInvalid`), two for
the push loop, then `FinishWalk`, `ProbeStep/End` (`path_proof`) and `VerifyStep/End`
(`verify_raw`). Errors keep their order through `First`. `visited` is a history variable.
`Reach` is the reference meaning of a node, the keys below it, and `Hashed` the nodes it refers
to by hash, however deep: both are given by the trie equations.

**ChunkRelation.** The input is pulled frame by frame: `\E f \in Input` in `ReadContext`,
`ReadBlock` and `ReadEnd` is the host, who may put anything there or end the input. The walk
appears through what `ReceiptWalk` establishes: if the corpus is the root's whole trie, each
receipt is called back exactly once and the walk ends; otherwise `TrieFails`, before,
between or after calls. The order of calls is left open (the walk's is one of them), so what
holds here does not depend on key order. `VisitReceipt`, `VisitLog`, `FinishReceipt` are the
callback, `Commit` is `abi_encode` with its second validation. Totals and diagnostics are
bounded words with checked addition (`MaxU256`, `MaxU64`).

**ChunkCapture.** One process per running command. `GetBlock` and `GetReceipts` are what
follows each await: the node answers with any member of `BlockAnswer`, `ReceiptAnswer`, or
honestly along a chain fixed at the start. `OpenTmp`, `WriteTmp`, `Rename`, `RenameFails`
are the file; `Kill` may come anywhere.

**ReceiptsTrie, MerkleProof.** A node of the trie is the tree of its contents with its
encoded length, scaled so that some are short enough to be put inline. `MerkleProof` has one
action per kind of node; `index`, `keyIndex`, `expected` are the variables of the code's loop
and `result` what it returns. `Holds` is the reference meaning of a root: the pairs of key
and value below it. `Leads` says that a list of nodes is the way the trie goes from a root to the
value of a key; `MCReceiptProof` numbers the trees and lets TLC check (`BuiltLeads`) that each
proof `ReceiptsTrie` makes is such a way; `MCReceiptWalk` hands the nodes that
`hashedNodes` lists to the guest's walk, which is where the two implementations meet.

**ReceiptFetch, ActivityProofs, ReadCommands.** One action per request of
`captureReceiptBlock`; the node is faithful, and then answers from the branch that is
canonical at that moment, or answers anything; `Reorg` may come between any two requests.
`Files(captured)` is the file when `verify` or `plan` reads it: what fetch wrote, or the same
with one part changed. `VerifyBlock` and `PlanBlock` are pure, as they are in the code. `plan`
resolves the adapter three times and asks it for its wrapper, its metric and the quotes;
`Rebind` is another binding of the controller. `Kept` bounds the exploration: the commands
after fetch read nothing of it but its output, so they are followed after one way of fetching.
`GuestCounts` names what `VolumeTerms` counts, the definition the relation's proofs are about.

**HttpRpc.** What runs between two awaits is one step. `Try` is the rest of the loop over
the endpoints up to the next await; `Begin`, `Failure`, `TooManyLogs`, `ChainId`, `Result`,
`Null` are what an await can come back with. `Tick` is `Date.now()`. `failedAt`, `begun` and
`foreign` are history and environment.

**Submission.** Each command goes through resolve, (entitled), simulate, estimate, nonce and
send; a node may report any pending nonce, refuse, lose the answer or answer another hash. A
raw transaction is tried on the next endpoint after a lost answer, as `HttpRpc.request`
does. `Mine`, `Reorg` are the chain; `Confirm` is a whole `confirmSubmission`, for any hash the
user knows. `ReceiptsOf` are the receipts a node may have of a transaction: with its hash and
its destination or without, as the fields are optional. Success and events are left out.

**TermsValidation.** Both validators run over the same terms: the head, then slot by slot,
each with its own list of errors taken from its own source.

**TermsAbi, FrameFile, HeaderRlp, TermsHash.** `TermsAbi` has a reader per language and reads a word per
step; `ReadOrder` and `WriteOrder` are the two lists of fields as the two functions have them.
`FrameFile` is the decoders' cursor over raw bytes. `HeaderRlp` is the guest's reader, one item
per step, over any bytes or over what `encodeRobinhoodHeader` makes of an answer (`block`);
the client's own reader is an operator on the items. `TermsHash` has no state: strings are code
units, objects keep their order of insertion. `MCTerms` runs the five machines one at a time.

## 4. The runs

| Run | Asks | Bounds |
|---|---|---|
| `receipt_walk` | dense, complete, exact corpus, exclusion never fails, ends; what the client's trie lists is accepted | radix 3: one- and two-byte keys; `u64` scaled to 5 so that the count overflows; every set of seven paths, canonical keys or not, compressed or not; leaves short, malformed or empty; client's tries of 1..5 equal receipts, which share nodes; corpora with an entry missing, foreign or repeated |
| `receipt_proof` | a verified value is committed, exactly the built proof verifies, exactly the keys are read; batches cut in order, fit, are fewest, and a list that can be cut is | receipts at any of five indices in four styles (long, inline, mixed, failed); proofs whole, damaged in one place, of another key; tries no client builds; keys of two bytes of nine values, every path up to the widest. Batching: up to five proofs of three sizes, at most three per batch, ten budgets |
| `chunk_relation` | exact journal of the one segment, zero padding, diagnostics, honest chunks committed, refines `RaceVolume` | three heights, nine blocks on several forks with a forged height, three entrants of one manager, `MaxU256` = 6, `MaxU64` = 8 so that both overflow; every input |
| `read_commands` | fetch gives one block, an honest block is fetched, verify and plan are about one block and agree, plan counts what the guest counts, only bound adapters are asked | two branches of two heights, one reorganisation; three receipts with up to five logs (V4, V3, native pool, least int, failed receipt), an empty block; eight files; every pair of indices past both ends; single changes of sound candidates; three adapters, one rebinding |
| `chunk_capture` | honest frames, honest node suffices, whole destination, ends | two processes, two heights, two forks and an odd block, eight contexts, removal may fail |
| `submission` | one transaction per command, within limits, true reports; the client: no foreign result, failover only past failed endpoints | commands: two (alike, hence the symmetry), two endpoints, nonces 0..1, estimates, flags and caps on both sides of each limit. Client: three endpoints, two requests (one for a nullable method), block time 2, clock up to 5: a block starts, is shared and ends |
| `terms` | no shared slots; the validators agree; exactly the encodings (words, RLP) and the frames are read; the hash tells terms apart | validation: 2..3 entrants (3..8 in the code), heights of 3 bits, all terms two changes away from sound ones. ABI: two slots, 58 words of four 2-bit bytes, every file one word away from a sound one. Frames: every sequence of up to ten bits, lengths of two bits. Headers: all 16 fields, bytes of 12 values, every answer with one field changed, every encoding one byte changed, lost or added, a field too many or too few; lists of up to four bytes. Hash: all pairs of some 150 values over 14 strings with the characters JSON escapes |
| `terms_mirror`, `terms_hash`, `submission_exact`, `submission_confirm`, `capture_failure` | violated on purpose, see section 6 | as above |

`receipt_proof`, `submission` and `terms` hold several machines; one of them runs, the others
rest at a fixed state.

Why these are enough. In the walk, everything happens between one branch and its children
or between neighbouring keys, so two or three nibble values and four or five keys give every
shape: shared nodes, inline nodes, extension or not, branch values, odd and over-long paths.
In the relation the interesting cases need a fork below and above one block (three heights),
two slots that share an account (three entrants) and a total that overflows on its second
addition. Capture needs two processes to interfere and two heights to change forks
between. The client needs a third endpoint so that a skip and a fallback differ. A plan needs a
transaction without logs before one with logs, and a receipt that failed, for the indices to
come apart; one reorganisation, as the recheck is the last request; one rebinding, as any
later one meets the same three requests. For a decoder, one wrong word shows every check,
since words are read one by one; ten bits hold two frames, or a header and two nodes.

In `read_commands` integers have no width; the mutant `AbsoluteWrapped` stands for a width
at which the least int has no opposite. Two logs are malformed: one lacks a topic, which both
readers refuse, and one has an int128 that is not sign-extended, which the guest refuses and
viem does not look at. `PlanAgreesWithGuest` names that case (`Unread`) and no other.

**Deadlock** is not reported in any run: every system here is a computation that ends.

**Fairness.** `ReceiptWalk` assumes `WF_vars(Next)`: one thread, no waiting.
`ChunkCapture` assumes weak fairness of each process's own steps: every request is answered
or aborted after 8 seconds, everything else is synchronous; `Kill` has none. The
other modules claim safety only.

Every property has a mutant: a definition next to the modelled one (`...Once`, `...Late`,
`...Unlinked`, commented `Mutant:`) that makes a plausible mistake and is caught by it.

## 5. What is proved

Eight modules hold proofs. A theorem is about every value of the constants: any trie, chain,
list of endpoints, number of processes, order of answers.

**Assumptions.** Types of the constants, and what follows, each named where it is declared:

| Assumption | Why the code justifies it |
|---|---|
| `ReceiptWalk`: keys fit `Width`, and two indices have two keys | proved of the keys of `ReceiptKeys`, for every size of a byte and an index: `KeysMeetAssumption`. Only `ExclusionCannotFail` uses that keys differ |
| `ReceiptKeys`: a byte is two nibbles of two values or more, and a length byte fits above `Half` | 16, 8 and 0x80 |
| `ReceiptWalk`: an extension has a path and a child; an inline child is `Small` | `node()` and `child()` in `trie/lib.rs` refuse anything else |
| `ReceiptWalk`: `Reach` and `Hashed` satisfy the trie equations; `MerkleProof`: `Holds` is closed under them | they are the reference meaning, which the code never computes |
| `VolumeTerms`: a hash has one header, with one number, parent and list of receipts; pools differ and minimums are positive | hashing is injective; `VolumeTermsV1::validate` |
| `ReceiptFetch`, `ChunkCapture`, `Submission`: "no answer" is no answer, "no flag" no command | marks of the model only |
| `ReceiptFetch`: branches are of equal height, and a height on one is the block's own | which branch is canonical is all that a reorganisation changes |
| `Submission`: the controller is not the adapter, other senders are not the user | two contracts, `resolveAdapter` asks the one for the other; what another account sends is not the user's |
| `ReadCommands`: the indices in a file are whole numbers, its header some header or none | `JSON.parse` and a cast; what the files say is otherwise free |
| `ReadCommands`: entrants differ, none is the native coin or both sides of its pool, and fees are static | both validators refuse other terms: `AcceptedSlotsAreApart`, and the fee and currency rules of a slot |

**The walk** (`ReceiptWalk_proofs`)
- `AcceptedWalkIsDense`. `DenseInv` = *Rising* (every key met is at most `previous`) /\
  *Counted* (`count` = number of distinct indices met, all <= `max`) /\ *Checked* (what each
  phase has established). A new key is strictly above `previous`, so its index is new; m
  distinct naturals, all below m, are 0..m-1. The bare property is not inductive, as it says
  nothing before the end.
- `AcceptedWalkIsComplete`. `CompleteInv`: keys met, keys below the frames on the stack and
  keys below the children still to push are together `Reach[root]`. Each arm of the walk moves
  keys from one part to another.
- `AcceptedCorpusIsDetermined`. `ExactInv`: the same with nodes for keys. What is used, what is
  hashed below the stack and below the children still to push are together the root and
  `Hashed[root]`, and nothing is used that was not supplied. At the end nothing supplied is
  unused, and a list as long as its set repeats nothing.
- `ExclusionCannotFail`. `WalkedInv`: there is a set of nodes (the visited ones, which the code
  does not keep) that holds the root and is closed under children, up to the stack and to the
  loop; so every node a lookup reaches decodes and its hashed children were supplied.
  `LookupInv`: the first lookup leaves a trail of states, each leading to the next by the key
  and the proof alone, and the second goes along it. It ends without a value because the
  walk was dense and complete: a key that is found is one of 0..count-1, and `count` is not.
- `KeysAreReadBack` (`ReadsExactlyTheKeys`): a number is read back from its digits and digits from
  their number (`BytesOfDigits`, `DigitsOfBytes`), a number has one minimal length, and so a
  path is a minimal string exactly if it is a key (`KeysAreKeys`, `StringsAreKeys`). The powers
  and the sum are recursive functions; what they compute is proved at the least number it could
  fail at.
- `WalkTypeCorrect` holds `position` within the key and `cursor` within the proof, which are
  array indices in the code.

**The relation** (`ChunkRelation_proofs`; `IInv` = types, `ReadInv`: the frames pulled are the
blocks up to `height`, `VisitInv`: where the visit of a block stands)
- `CommittedSegmentIsDetermined` from `LinkInv` (headers read are linked to `before`) and
  `UniqueInv` (a segment of the context that meets the headers read meets them all the way
  down): a hash has one parent.
- `FinishedJournalEncodes` from `ZeroInv`: uncovered slots are zero throughout.
- `CommittedCountsAreExact` from `CountInv`: the counts are the cardinalities of the swaps
  among the places already visited, the volumes their sums, in any order of the calls. (That a
  sum over a set grows by the term that is added is a lemma on `MapThenSumSet`.)
- `ChunkImplementsRaceVolume`, the refinement, from all of these: `Commit` is the abstract step,
  and every other step leaves the journal alone.
- `CommittedDiagnosticsAreExact` from `DiagnosticsInv`: each counter is the size of what has
  been walked.
- `NoHonestChunkIsRejected` from `ContextInv` and from what is walked being part of the segment
  meant: every check is met, one by one, and no partial total is larger than a whole.

**Receipt proofs** (`Validation_proofs`)
- `VerifiedValuesAreCommitted`. `ReachInv`: what `expected` holds at the rest of the key, the
  root holds at the whole key. Any nodes may be handed in.
- `VerifiedLogsAreCommitted`: the same for a log of a receipt and its place.
- `OnlyTheWayIsAccepted` (`VerifiesExactlyTheBuilt`) for every trie, and every list that leads to
  the key. `WayInv`: until it is done the verifier stands on the way, at the nibble the way is at,
  and the entries read are the way's. So an entry that is not the way's is refused, a
  lookup that fails on the way's own list has met a limit or a bad receipt, and one that returns
  has come to the end of the way and of the list together.

**Terms** (`Validation_proofs`), for any number of slots and any words. `TermsInv` says of each
validator what the slots before its own have passed, and why it stopped if it has.
- `AcceptedSlotsAreApart`: two slots that passed differ, since each was compared with all before.
- `ValidatorsDifferInOneRule`: slot for slot the two lists of errors are equivalent, and so
  are the heads, but for the sum that overflows. That this sum can exceed is
  `terms_mirror`.

**Fetch, verify, plan** (`ReadCommands_proofs`, with `ReceiptFetch` and `ActivityProofs`)
- `FetchesOneBlock`, `HonestFetchSucceeds` from `FetchInv`: what each request has established of
  the header and the list, and that without a reorganisation the header is the chain's.
- `OutputsAreOfOneBlock`, `PlansVerify` from `OutputInv`: an output is what the pure functions
  give of the file, and `IndicesAgree`: the CLI's log index and the library's are the
  same function of any list of receipts.
- `OnlyBoundAdaptersAreRead` from `AdapterInv`: which of the three bindings the plan is at.
- `PlansAreWhatTheGuestCounts` (`PlanAgreesWithGuest`). By `IndicesAgree`, and because a sum over
  transactions is the same over receipts in any order, the log that the plan proves is the log
  the guest numbers. In the pool of a venue no other entrant qualifies (`OnlyItsEntrant`): its
  entrant is one side, and the quote is the other. Then the checks of `qualifyActivitySwap` and
  of `qualify_v4` are compared one by one, for a candidate (`CandidateRule`) and for the plan.

**Chunk capture** (`ChunkCapture_proofs`)
- `CapturedIsHonest`, `HonestNodeIsEnough` from `CaptureInv`: the frames of a process are the
  frames of a path of linked blocks up from the context's first parent.
- `DestinationAlwaysWhole`: a temporary file is the beginning of its own process's frames until it
  is all of them, and only then is it renamed.

**Batching** (`Batching_proofs`)
- `PlannedProofsAreKept`, `PlannedBatchesFit` from `LoopInv`: the closed batches and the open one
  together cut the proofs before `at`, and each fits.
- `NoPlanIsShorter` from `GreedyInv`: the proof after a closed batch does not fit into it. So any
  other cut starts a run after the first proof of one batch and no later than that of the next
  (`EveryBatchNeedsAStart`). Where the loop throws, some proof costs more than a batch may, and
  so does every run that holds it (`NothingFitsTooMuch`).

**The client** (`HttpRpc_proofs`)
- `ResultsOfTheChain` from *VerifiedIsTrue*: no endpoint of another chain is in `verified`, and
  what a request carries over an await was verified when it was taken.
- `FailoverHasCause` from *ClocksAgree* and *BehindFailed*: a block ends one block time after the
  failure that set it, and each endpoint behind a request's own failed lately. A URL may be
  listed twice: `loadPublicConfig` does not look.

**Signing commands** (`Submission_proofs`)
- `CommandSendsOne` from *SignsOnce*: one command signs one transaction; retries send that one.
- `BroadcastIsAccepted`, `NothingBeyondLimits` from *SeenIsSigned*: what a node has seen was
  signed by a command at its `send` step, behind all its guards.
- `ConfirmationsAreOfSubmissions` from these and *ReportInv*: of a receipt with hash and
  destination, both were compared. What was confirmed then is the transaction asked for, the
  only one of its command, and went to the adapter, where no claim goes. Of receipts that
  leave one of the two out it says nothing: see `submission_exact` and `submission_confirm`.

The type theorems are lemmas for the others and no run's property: a run that checks only
types would say little of the code.

**Only model-checked.** `Termination` (walk and capture) and `HonestIsAccepted` are liveness.
`ReadsExactlyTheEncodings` and `ReadsExactlyTheFrames` are about words and bytes read at offsets
that the bytes themselves give, and were not tried. `HashTellsTermsApart` is about recursive
operators. That the proofs `ReceiptsTrie` makes lead to their keys is evaluated by TLC
(`BuiltLeads`), since its tries are built by recursion. (Where a theorem above needs an
induction, over a number, a path, a chain or a list, it is done for that fact from the least
counterexample.)

## 6. Disagreements between code and comments

* `terms_mirror`: `validateTerms` says it mirrors the core's `validate` (`lib/chunk-frame.ts`
  247) but adds heights as bigints: a history window that ends past 2^64 - 1 is accepted, and
  refused by the guest. `ValidatorsAgree` shows that this is the only difference
  within the bounds.
* `submission_exact`: `confirmSubmission` promises a receipt "for the exact transaction"
  (`cli/commands.ts` 453), but the hash is compared only if the receipt has one (480): a receipt
  of another transaction that leaves it out is `confirmed` for any hash.
* `submission_confirm`: it also promises one "from the signer, to the adapter" (453-454), but
  `confirm` runs without a signer, so the sender is not compared, and a destination that is
  missing is not either.
* `terms_hash`: `termsHash` is said to be "the keccak256 of the RFC 8785 (JCS) canonical JSON
  encoding" (`lib/schema.ts` 28-29, 460), but `termsHashOf` keeps the low byte of each character
  (462). Two terms that differ in a character above U+00FF can have one hash;
  `HashTellsTermsApart` is therefore stated for narrower strings only.
* `capture_failure`: `README.md` 189-190 says capture "writes nothing on failure", but
  the write of the temporary file is outside the `try` that removes it.

Seen while reading, and shown by no run:

* `canonicalJson` is said to be RFC 8785 with "the shortest JSON escape form"
  (`lib/schema.ts` 420-423), but a line feed becomes `\u000a`, not `\n`. The hash is the
  same for equal values, so only another implementation of RFC 8785 would notice.
* `decodeRobinhoodHeader` says it "rejects non-canonical encodings" (`lib/nitro-header.ts` 83);
  a number with a zero before it passes as bytes. The guest refuses it.

## 7. Not modelled

* Keccak and 256-bit arithmetic: an injective function and bounded numbers. Of the encodings
  those are modelled where a second reading would be a second key, chunk or block:
  `ReceiptKeys`, `TermsAbi`, `FrameFile`, `HeaderRlp`; the RLP of receipts and trie nodes inside
  the list reader is taken as the value it encodes.
* The fixed layout of the context frame: what it carries is in `ChunkRelation` and
  `ChunkCapture`.
* `verifyEthereumAccountProof` and `verifyEthereumStorageProof` (their common core is
  `MerkleProof`), `uniswapV3PoolAddress`, `activityProofDeadline`, `assertSubmissionState` and
  the race keys of `schema.ts`: exported, called by tests or by nobody.
* The zod shapes, `loadPublicConfig`, `parseRaceKey` and the argument parser accept or refuse
  one value and keep no state.
* Keystore cryptography; the SP1 SDK, host and build scripts; the contracts. What the
  contracts answer is an environment in `ReadCommands` and `Submission`, so nothing is claimed
  about two runs of a command (the hazards at `cli/commands.ts` 435 and 567 stay without a
  property).
* `boundedJson` in `lib/rpc.ts` 45-63 is never called.

## 8. Plan

Done, in this order: the walk and its keys (most depends on them), the relation with its
abstract specification, capture, the client, submission, batching, terms; then the client's trie
and its proofs, fetch with verify and plan, the adapter binding, the ABI of the terms, the frames,
the headers and the terms hash; then the proofs of section 5.

What is left is proof, of what recursion is in: that a block frame has one reading (an invariant
over `pos` and `got` of `FrameFile`), and that a proof `ReceiptsTrie` builds leads to its key.
