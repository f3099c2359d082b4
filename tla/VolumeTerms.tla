---------------------------- MODULE VolumeTerms ----------------------------
(***************************************************************************)
(* What a chunk of the chain is worth under the terms of one race: blocks, *)
(* receipts and logs, the venues the terms name, and qualify_v4 of         *)
(* prover/volume-sp1/core/src/volume.rs, which decides what one log adds.  *)
(* No state: ChunkRelation computes with these definitions step by step,   *)
(* RaceVolume states with them, all at once, what must come out.           *)
(*                                                                         *)
(* A block IS its header hash (keccak is taken to be injective), so Parent *)
(* and Receipts are functions of it.  Receipts are numbered from 0.        *)
(***************************************************************************)
EXTENDS Integers, Sequences, FiniteSets, FiniteSetsExt

CONSTANTS
  Hash,            \* header hashes, those of no known block included
  Block,           \* the hashes of headers that exist
  Number,          \* the height a header claims
  Parent,          \* the parent hash a header claims
  Receipts,        \* a header's receipts, by its receipts root
  EntrantCount,    \* active slots of the terms' eight
  Slot,            \* all the slots
  Venue,           \* the V4 pool of each active slot
  Address, ZeroAddress, ZeroHash,
  SwapTopic,       \* topic 0 of a V4 Swap
  Topic,
  StartBlock, SnapshotBlock,
  MaxU256

Active == 0..(EntrantCount - 1)

\* A log; data tells how many words it has, whether every word (and topic 2, the
\* sender) is canonical at its declared width, and the two int128 deltas.
Log ==
  [emitter : Address, topics : Seq(Topic),
   data : [words : Nat, canonical : BOOLEAN, amount0 : Int, amount1 : Int]]

\* "malformed" is an envelope, arity, status, gas or bloom visit_logs refuses.
Receipt == [status : {"success", "failed", "malformed"}, logs : Seq(Log)]

VenueTerms ==
  [account : Address, poolId : Topic, tokenIsCurrency0 : BOOLEAN, minNotional : Nat]

ASSUME ChainAssumption ==
  /\ Block \subseteq Hash /\ ZeroHash \in Hash \ Block
  /\ Number \in [Block -> Nat] /\ Parent \in [Block -> Hash]
  /\ \A b \in Block : Receipts[b] \in Seq(Receipt)
  /\ DOMAIN Receipts = Block

\* VolumeTermsV1::validate: distinct pools, and no venue without a minimum.
ASSUME TermsAssumption ==
  /\ EntrantCount \in Nat \ {0} /\ Active \subseteq Slot /\ Slot \subseteq Nat
  /\ Venue \in [Active -> VenueTerms]
  /\ \A i, j \in Active : Venue[i].poolId = Venue[j].poolId => i = j
  /\ \A i \in Active : Venue[i].minNotional > 0
  /\ ZeroAddress \in Address
  /\ StartBlock \in Nat /\ SnapshotBlock \in Nat /\ StartBlock < SnapshotBlock
  /\ MaxU256 \in Nat

-----------------------------------------------------------------------------
\* A swap event of an account some venue of the race trades at.
Watched(log) ==
  /\ \E i \in Active : Venue[i].account = log.emitter
  /\ log.topics # <<>> /\ log.topics[1] = SwapTopic

\* The slot whose pool made the swap.
Traded(log) ==
  {i \in Active : Venue[i].account = log.emitter /\ Venue[i].poolId = log.topics[2]}

\* A watched event that is not a well-formed V4 Swap stops the whole chunk; what
\* a foreign pool of the same account puts in its data does not matter.
LogError(log) ==
  /\ Watched(log)
  /\ \/ Len(log.topics) # 3
     \/ Traded(log) # {} /\ ~(log.data.words = 6 /\ log.data.canonical)

SlotOf(log) == CHOOSE i \in Traded(log) : \A j \in Traded(log) : i <= j

\* unsigned_abs of the delta of the currency that is not the entrant's token.
QuoteAmount(log) ==
  LET delta == IF Venue[SlotOf(log)].tokenIsCurrency0 THEN log.data.amount1 ELSE log.data.amount0
  IN  IF delta < 0 THEN -delta ELSE delta

Qualifies(log) ==
  Watched(log) /\ Traded(log) # {} /\ QuoteAmount(log) >= Venue[SlotOf(log)].minNotional

-----------------------------------------------------------------------------
(***************************************************************************)
(* The context of a chunk, and the segments of the chain it can be about.  *)
(***************************************************************************)
Context ==
  [beneficiary : Address, mask : SUBSET Slot, from : Nat, to : Nat,
   before : Hash, end : Hash]

\* validate_mask: at least one slot, and active ones only.
MaskError(mask) == mask = {} \/ ~(mask \subseteq Active)

\* The context's part of VolumeJournalV1::validate.
ContextError(x) ==
  \/ MaskError(x.mask)
  \/ x.beneficiary = ZeroAddress \/ x.before = ZeroHash \/ x.end = ZeroHash
  \/ x.from >= x.to \/ x.from < StartBlock \/ x.to > SnapshotBlock

\* Blocks at every height of (from, to], each the parent of the next, from the
\* one after `before` to `end`.
Segments(c) ==
  {s \in [(c.from + 1)..c.to -> Block] :
     /\ \A h \in DOMAIN s : Number[s[h]] = h
     /\ \A h \in DOMAIN s : Parent[s[h]] = IF h = c.from + 1 THEN c.before ELSE s[h - 1]
     /\ s[c.to] = c.end}

\* The frames of an honest chunk: the context, and each block with its whole trie.
HonestFrames(x, s) ==
  <<[kind |-> "context", context |-> x]>>
    \o [k \in 1..(x.to - x.from) |-> [kind |-> "block", header |-> s[x.from + k], complete |-> TRUE]]

ReceiptIndices(b) == 0..(Len(Receipts[b]) - 1)
ReceiptAt(b, r)   == Receipts[b][r + 1]
LogAt(b, r, l)    == ReceiptAt(b, r).logs[l]

\* Where the logs of blocks s[h], h \in heights, are.
Places(s, heights) ==
  UNION {{h} \X UNION {{r} \X (1..Len(ReceiptAt(s[h], r).logs)) : r \in ReceiptIndices(s[h])} :
           h \in heights}

\* Those that count for slot i under a mask: a qualifying swap of a covered
\* entrant, in a transaction that succeeded.
Counts(mask, i, b, r, l) ==
  /\ ReceiptAt(b, r).status = "success"
  /\ Qualifies(LogAt(b, r, l))
  /\ SlotOf(LogAt(b, r, l)) = i /\ i \in mask

Swaps(mask, i, s, places) ==
  {p \in places : Counts(mask, i, s[p[1]], p[2][1], p[2][2])}

SwapCount(mask, i, s, places) == Cardinality(Swaps(mask, i, s, places))

SwapVolume(mask, i, s, places) ==
  MapThenSumSet(LAMBDA p : QuoteAmount(LogAt(s[p[1]], p[2][1], p[2][2])),
                Swaps(mask, i, s, places))
=============================================================================
