--------------------------- MODULE ActivityProofs ---------------------------
(***************************************************************************)
(* What the verify and plan commands compute from a captured block, with   *)
(* no request: verifyBlock and planBlock of packages/cli/src/commands.ts,  *)
(* buildActivityProofs and the log indices of receipt-capture.ts, and the  *)
(* off-chain rule of activity-qualification.ts.  No state.                 *)
(*                                                                         *)
(* A pool's id is its key, as a hash is what it is taken of; indices count *)
(* from 0, as in the code.                                                 *)
(***************************************************************************)
EXTENDS ReceiptFetch

CONSTANTS
  V3SwapTopic,    \* topic 0 of a V3 Swap
  NativeCurrency, \* the zero address in a pool key
  DynamicFee,     \* UNISWAP_V4_DYNAMIC_FEE_FLAG
  BadHeader       \* bytes that decode to no header

NoIndex == -1
Throws == [is |-> "error"]

Of(list, tx) == {i \in DOMAIN list : list[i].transactionIndex = tx}
LogsOf(list, tx) == list[CHOOSE i \in Of(list, tx) : TRUE].receipt.logs

\* The logs of the receipts with a lower transaction index.
Offset(list, tx) ==
  MapThenSumSet(LAMBDA i : Len(list[i].receipt.logs),
                {i \in DOMAIN list : list[i].transactionIndex < tx})

GlobalLogIndex(list, tx, local) ==
  IF Of(list, tx) # {} /\ local \in 0..(Len(LogsOf(list, tx)) - 1)
  THEN Offset(list, tx) + local
  ELSE NoIndex

\* The library's inverse, which needs the receipt to have a first log.
ReceiptLocalIndex(list, tx, global) ==
  LET first == GlobalLogIndex(list, tx, 0)
      local == global - first
      again == GlobalLogIndex(list, tx, local)
  IN  IF NoIndex \notin {first, again} /\ again = global THEN local ELSE NoIndex

\* Mutant: the offset also counts the transaction itself.
CliLocalIndexPast(list, tx, global) ==
  LET local == global - Offset(list, tx + 1)
  IN  IF Of(list, tx) # {} /\ local \in 0..(Len(LogsOf(list, tx)) - 1) THEN local ELSE NoIndex

\* The CLI's own.
CliLocalIndex(list, tx, global) ==
  LET local == global - Offset(list, tx)
  IN  IF Of(list, tx) # {} /\ local \in 0..(Len(LogsOf(list, tx)) - 1) THEN local ELSE NoIndex

\* The proof of tx built from a list and verified against a root gives the receipt only
\* if the root is the list's (MCReceiptProof!VerifiesExactlyTheBuilt).
ReadsLog(file, tx, local) ==
  /\ file.root = RootOf(file.receipts)
  /\ local # NoIndex
  /\ \E i \in Of(file.receipts, tx) :
       LET r == file.receipts[i].receipt
       IN  r.status = "success" /\ local < Len(r.logs)

(***************************************************************************)
(* verifyBlock.  Each pair names a log by its index in the block.          *)
(***************************************************************************)
\* Mutant: the receipts root is not compared with field 5 of the header.
RootUnbound(file) == TRUE

HeaderValid(file) == file.header = file.hash /\ Number[file.header] = file.number
RootBound(file)   == HeaderRoot(file.header) = file.root
PairValid(file, p) == ReadsLog(file, p.txIndex, CliLocalIndex(file.receipts, p.txIndex, p.logIndex))

\* A proof is built of every pair outside the try block.
VerifyThrows(file, pairs) ==
  \/ file.header = BadHeader
  \/ ~Buildable(file.receipts)
  \/ \E p \in pairs : Of(file.receipts, p.txIndex) = {}

VerifyBlock(file, pairs) ==
  IF VerifyThrows(file, pairs) THEN Throws
  ELSE [is |-> "verified",
        valid |-> /\ HeaderValid(file) /\ RootBound(file)
                  /\ RootOf(file.receipts) = file.root
                  /\ \A p \in pairs : PairValid(file, p)]

(***************************************************************************)
(* qualifyActivitySwap.                                                    *)
(***************************************************************************)
\* decodeV4SwapLog and decodeV3SwapLog: the amounts of a V3 log are the pool's.
Decodes(log, kind) ==
  /\ Len(log.topics) = 3
  /\ log.topics[1] = IF kind = 1 THEN SwapTopic ELSE V3SwapTopic
  /\ log.data.words = IF kind = 1 THEN 6 ELSE 5

Swap(log, kind) ==
  [poolId |-> IF kind = 1 THEN log.topics[2] ELSE log.emitter,
   sender |-> IF kind = 1 THEN log.topics[3] ELSE log.topics[2],
   amount0 |-> log.data.amount0, amount1 |-> log.data.amount1, poolPerspective |-> kind = 2]

\* An entrant's side of a pool: which currency its quote is, and the two deltas.
Side(key, token, swap) ==
  IF token = key.currency0
  THEN [quote |-> key.currency1, tokenDelta |-> swap.amount0, quoteDelta |-> swap.amount1]
  ELSE [quote |-> key.currency0, tokenDelta |-> swap.amount1, quoteDelta |-> swap.amount0]

\* Mutant: negated at its own width (three bits), where the least int has no opposite.
AbsoluteWrapped(n) == IF n < 0 /\ n # -4 THEN -n ELSE n

Absolute(n) == IF n < 0 THEN -n ELSE n

QuoteAsset(raw, wrapper) == IF raw = NativeCurrency THEN wrapper ELSE raw

\* An entrant's token is in the pool, against the quote the candidate names; the floor
\* is looked up by that asset, and is 0n only when it is not found there: one that a plan's
\* spec gives is a JSON value.  A unique buyer must also have received the token.
EntrantQualifies(token, metric, wrapper, c, swap) ==
  LET side == Side(c.key, token, swap)
      received == IF swap.poolPerspective THEN side.tokenDelta < 0 ELSE side.tokenDelta > 0
  IN  /\ token \in {c.key.currency0, c.key.currency1}
      /\ QuoteAsset(side.quote, wrapper) = c.quoteAsset
      /\ metric = 2 => received
      /\ Absolute(side.quoteDelta) >= c.minNotional

\* The first entrant that qualifies is taken.
Qualified(entrants, metric, wrapper, c, swap) ==
  {i \in DOMAIN entrants : EntrantQualifies(entrants[i], metric, wrapper, c, swap)}

FirstOf(slots) == CHOOSE i \in slots : \A j \in slots : i <= j

(***************************************************************************)
(* buildActivityProofs: any mismatch throws the whole plan.                *)
(***************************************************************************)
BundleBroken(file) ==
  \/ file.header = BadHeader
  \/ ~Buildable(file.receipts) \/ RootOf(file.receipts) # file.root
  \/ ~HeaderValid(file) \/ ~RootBound(file)

PoolError(c, log) ==
  LET id == Swap(log, c.venueKind).poolId
  IN  \/ c.venueKind = 1 /\ c.key # id
      \/ id # c.poolId \/ log.emitter # c.account
      \/ c.key.fee >= DynamicFee

QualificationError(entrants, metric, wrapper, c, log) ==
  LET swap  == Swap(log, c.venueKind)
      slots == Qualified(entrants, metric, wrapper, c, swap)
      first == FirstOf(slots)
  IN  \/ slots = {}
      \/ first - 1 # c.entrantIndex
      \/ Absolute(Side(c.key, entrants[first], swap).quoteDelta) # c.expectedQuoteAmount
      \/ swap.sender # c.expectedSender

CandidateError(file, entrants, metric, wrapper, c) ==
  LET local == ReceiptLocalIndex(file.receipts, c.txIndex, c.logIndex)
      log == LogsOf(file.receipts, c.txIndex)[local + 1]
  IN  \/ local = NoIndex
      \/ ~ReadsLog(file, c.txIndex, local)
      \/ ~Decodes(log, c.venueKind)
      \/ PoolError(c, log)
      \/ QualificationError(entrants, metric, wrapper, c, log)

\* One swap log has one key, whatever entrant it is counted for.
NaturalKey(hash, tx, global) == <<hash, tx, global>>

\* planBlock, up to the batches (module Batching): what proves each candidate, under the
\* natural key of its log.
PlanBlock(file, spec, wrapper, metric) ==
  IF BundleBroken(file) \/ \E k \in DOMAIN spec.candidates :
       CandidateError(file, spec.entrants, metric, wrapper, spec.candidates[k])
  THEN Throws
  ELSE [is |-> "planned", wrapper |-> wrapper, metric |-> metric,
        proofs |-> [k \in DOMAIN spec.candidates |->
          LET c == spec.candidates[k]
          IN  [txIndex |-> c.txIndex,
               logIndex |-> ReceiptLocalIndex(file.receipts, c.txIndex, c.logIndex),
               swapKey |-> NaturalKey(file.hash, c.txIndex, c.logIndex)]]]
=============================================================================
