--------------------------- MODULE TermsValidation ---------------------------
(***************************************************************************)
(* Who accepts the terms of a race: VolumeTermsV1::validate of             *)
(* prover/volume-sp1/core/src/terms.rs ("core"), which the guest obeys, and*)
(* validateTerms of packages/volume-proof/src/chunk-frame.ts ("cli"), which*)
(* lets a chunk be captured.  Each checks the head, then the slots in order*)
(* up to the first error.                                                  *)
(*                                                                         *)
(* An address is a number, 0 the zero address.  Hashes are injective: the  *)
(* hash of the entrants is their sequence, that of a pool key the key.     *)
(***************************************************************************)
EXTENDS Integers, Sequences

CONSTANTS
  Terms,                    \* the terms to validate
  MinEntrants, MaxEntrants, \* 3 and 8
  MaxU64,                   \* 2^64 - 1
  DynamicFee,               \* DYNAMIC_FEE_FLAG
  MaxUint256

Address == Nat
U64 == 0..MaxU64
NoPool == <<>>
PoolKeys == Address \X Address \X Nat \X Address

\* identified: account and both code hashes are not zero.
Venue ==
  [kind : {0, 1, 2}, identified : BOOLEAN, currency0 : Address, currency1 : Address,
   fee : Nat, hooks : Address, poolId : PoolKeys \cup {NoPool}, quoteAsset : Address,
   minNotional : 0..MaxUint256]

NoVenue ==
  [kind |-> 0, identified |-> FALSE, currency0 |-> 0, currency1 |-> 0, fee |-> 0, hooks |-> 0,
   poolId |-> NoPool, quoteAsset |-> 0, minNotional |-> 0]

\* profile: the chain and the header format are the ones supported; required: no required
\* address or hash is zero, nor the race id.
TermsType ==
  [profile : BOOLEAN, required : BOOLEAN, entrantCount : 0..(MaxEntrants + 1),
   entrants : Seq(Address), entrantsHash : Seq(Address), venues : Seq(Venue),
   startBlock : U64, snapshotBlock : U64, bettingCutoff : U64, confirmationBlocks : U64,
   quietBlocks : U64, submissionDeadline : U64, terminalExpiry : U64, historyWindow : U64,
   wrappedNative : Address, quoteAsset : Address, quoteDecimals : {6, 18}]

ASSUME TermsValidationAssumption ==
  /\ MinEntrants \in Nat \ {0} /\ MaxEntrants \in Nat /\ MinEntrants <= MaxEntrants
  /\ MaxU64 \in Nat /\ DynamicFee \in Nat /\ MaxUint256 \in Nat
  /\ Terms \subseteq TermsType
  /\ \A t \in Terms : Len(t.entrants) = MaxEntrants /\ Len(t.venues) = MaxEntrants

VARIABLES
  terms,
  slot,    \* what each validator checks next: 0 the head, then each slot
  verdict

termsVars == <<terms, slot, verdict>>

Validator == {"core", "cli"}

ValidateInit ==
  /\ terms \in Terms
  /\ slot = [v \in Validator |-> 0]
  /\ verdict = [v \in Validator |-> "none"]

Native == 0
PoolKey(v) == <<v.currency0, v.currency1, v.fee, v.hooks>>

-----------------------------------------------------------------------------
(***************************************************************************)
(* core                                                                    *)
(***************************************************************************)
\* checked_add
Overflows(a, b) == a + b > MaxU64

CoreTimingError(t) ==
  \/ t.startBlock >= t.snapshotBlock
  \/ t.bettingCutoff <= t.startBlock \/ t.bettingCutoff > t.snapshotBlock
  \/ t.quietBlocks = 0 \/ t.historyWindow = 0
  \/ Overflows(t.snapshotBlock, t.confirmationBlocks)
  \/ Overflows(t.submissionDeadline, t.quietBlocks)
  \/ Overflows(t.snapshotBlock, t.historyWindow)
  \/ t.snapshotBlock + t.confirmationBlocks > t.submissionDeadline
  \/ t.submissionDeadline + t.quietBlocks >= t.terminalExpiry
  \/ t.submissionDeadline >= t.snapshotBlock + t.historyWindow

CoreHeadError(t) ==
  \/ t.entrantCount \notin MinEntrants..MaxEntrants
  \/ ~t.profile \/ ~t.required
  \/ CoreTimingError(t)
  \/ \E i \in (t.entrantCount + 1)..MaxEntrants : t.entrants[i] # 0 \/ t.venues[i] # NoVenue
  \/ SubSeq(t.entrants, 1, t.entrantCount) # t.entrantsHash

\* Mutant: two slots may race for one token.
CoreSlotErrorSharing(t, i) ==
  LET token == t.entrants[i]
      v == t.venues[i]
      rawQuote == IF token = v.currency0 THEN v.currency1 ELSE v.currency0
      quote == IF rawQuote = Native THEN t.wrappedNative ELSE rawQuote
  IN  \/ token = 0
      \/ v.kind # 1 \/ ~v.identified \/ v.hooks = 0 \/ v.minNotional = 0
      \/ v.currency0 >= v.currency1 \/ token \notin {v.currency0, v.currency1}
      \/ v.fee >= DynamicFee
      \/ PoolKey(v) # v.poolId
      \/ \E j \in 1..(i - 1) : t.venues[j].poolId = v.poolId
      \/ quote # t.quoteAsset \/ v.quoteAsset # quote
      \/ rawQuote = Native /\ t.quoteDecimals # 18

CoreSlotError(t, i) ==
  LET token == t.entrants[i]
      v == t.venues[i]
      rawQuote == IF token = v.currency0 THEN v.currency1 ELSE v.currency0
      quote == IF rawQuote = Native THEN t.wrappedNative ELSE rawQuote
  IN  \/ token = 0 \/ \E j \in 1..(i - 1) : t.entrants[j] = token
      \/ v.kind # 1 \/ ~v.identified \/ v.hooks = 0 \/ v.minNotional = 0
      \/ v.currency0 >= v.currency1 \/ token \notin {v.currency0, v.currency1}
      \/ v.fee >= DynamicFee
      \/ PoolKey(v) # v.poolId
      \/ \E j \in 1..(i - 1) : t.venues[j].poolId = v.poolId
      \/ quote # t.quoteAsset \/ v.quoteAsset # quote
      \/ rawQuote = Native /\ t.quoteDecimals # 18

-----------------------------------------------------------------------------
(***************************************************************************)
(* cli.  Blocks are bigints, so nothing overflows.                         *)
(***************************************************************************)
CliTimingError(t) ==
  LET ready == t.snapshotBlock + t.confirmationBlocks
      quiet == t.submissionDeadline + t.quietBlocks
      historyEnd == t.snapshotBlock + t.historyWindow
  IN  \/ t.startBlock >= t.snapshotBlock
      \/ t.bettingCutoff \notin (t.startBlock + 1)..t.snapshotBlock
      \/ t.quietBlocks = 0 \/ t.historyWindow = 0
      \/ ready > t.submissionDeadline \/ quiet >= t.terminalExpiry
      \/ t.submissionDeadline >= historyEnd

CliHeadError(t) ==
  \/ t.entrantCount < MinEntrants \/ t.entrantCount > MaxEntrants
  \/ ~t.profile \/ ~t.required
  \/ CliTimingError(t)
  \/ \E i \in 1..MaxEntrants :
       i > t.entrantCount /\ ~(t.entrants[i] = 0 /\ t.venues[i] = NoVenue)
  \/ t.entrantsHash # SubSeq(t.entrants, 1, t.entrantCount)

Quote(t, i) ==
  LET v == t.venues[i]
  IN  IF t.entrants[i] = v.currency0 THEN v.currency1 ELSE v.currency0

\* Mutant: a token quoted in the native coin is not recognised.
CliSlotErrorWrapped(t, i) ==
  LET v == t.venues[i]
  IN  \/ t.entrants[i] \in {0} \cup {t.entrants[j] : j \in 1..(i - 1)}
      \/ v.kind # 1
      \/ ~v.identified \/ 0 \in {v.hooks, v.minNotional}
      \/ ~(v.currency0 < v.currency1) \/ t.entrants[i] \notin {v.currency0, v.currency1}
      \/ v.fee >= DynamicFee
      \/ v.poolId # PoolKey(v) \/ v.poolId \in {t.venues[j].poolId : j \in 1..(i - 1)}
      \/ {t.quoteAsset, v.quoteAsset} # {Quote(t, i)}

CliSlotError(t, i) ==
  LET v == t.venues[i]
  IN  \/ t.entrants[i] \in {0} \cup {t.entrants[j] : j \in 1..(i - 1)}
      \/ v.kind # 1
      \/ ~v.identified \/ 0 \in {v.hooks, v.minNotional}
      \/ ~(v.currency0 < v.currency1) \/ t.entrants[i] \notin {v.currency0, v.currency1}
      \/ v.fee >= DynamicFee
      \/ v.poolId # PoolKey(v) \/ v.poolId \in {t.venues[j].poolId : j \in 1..(i - 1)}
      \/ {t.quoteAsset, v.quoteAsset} #
           {IF Quote(t, i) = Native THEN t.wrappedNative ELSE Quote(t, i)}
      \/ Quote(t, i) = Native /\ t.quoteDecimals # 18

-----------------------------------------------------------------------------
HeadError(v) == IF v = "core" THEN CoreHeadError(terms) ELSE CliHeadError(terms)
SlotError(v) == IF v = "core" THEN CoreSlotError(terms, slot[v]) ELSE CliSlotError(terms, slot[v])

Conclude(v, result) == verdict' = [verdict EXCEPT ![v] = result] /\ UNCHANGED slot

MoveOn(v) == slot' = [slot EXCEPT ![v] = @ + 1] /\ UNCHANGED verdict

CheckHead(v) ==
  /\ slot[v] = 0
  /\ IF HeadError(v) THEN Conclude(v, "rejected") ELSE MoveOn(v)

CheckSlot(v) ==
  /\ slot[v] \in 1..terms.entrantCount
  /\ IF SlotError(v) THEN Conclude(v, "rejected") ELSE MoveOn(v)

Finish(v) == slot[v] > 0 /\ slot[v] > terms.entrantCount /\ Conclude(v, "accepted")

Validate ==
  /\ \E v \in Validator : verdict[v] = "none" /\ (CheckHead(v) \/ CheckSlot(v) \/ Finish(v))
  /\ UNCHANGED terms

ValidateSpec == ValidateInit /\ [][Validate]_termsVars

-----------------------------------------------------------------------------
Accepts(v) == verdict[v] = "accepted"
Done == \A v \in Validator : verdict[v] # "none"

\* Under accepted terms a swap is worth something to one entrant at most and in one
\* currency: tokens and pools are not shared, a pool is the one its key names, and trades
\* its token against the race's quote, or against the native coin where that is the quote;
\* by either validator.
SlotsDoNotShare ==
  (\E v \in Validator : Accepts(v)) =>
    /\ terms.entrantCount \in MinEntrants..MaxEntrants
    /\ \A i, j \in 1..terms.entrantCount :
         /\ i # j => terms.entrants[i] # terms.entrants[j]
         /\ i # j => PoolKey(terms.venues[i]) # PoolKey(terms.venues[j])
    /\ \A i \in 1..terms.entrantCount :
         terms.entrants[i] # Native /\ PoolKey(terms.venues[i]) = terms.venues[i].poolId
    /\ \A i \in 1..terms.entrantCount :
         LET pair == {terms.venues[i].currency0, terms.venues[i].currency1}
         IN  \/ pair = {terms.entrants[i], terms.quoteAsset}
             \/ /\ pair = {terms.entrants[i], Native}
                /\ terms.quoteAsset = terms.wrappedNative /\ terms.quoteDecimals = 18

\* Terms the guest accepts can be captured for, and beyond those the CLI accepts only
\* history windows that reach past the last height.
ValidatorsAgree ==
  Done =>
    /\ Accepts("core") => Accepts("cli")
    /\ Accepts("cli") =>
         Accepts("core") \/ terms.snapshotBlock + terms.historyWindow > MaxU64

\* "Structural terms validation, mirroring the core `VolumeTermsV1::validate`"
\* (packages/volume-proof/src/chunk-frame.ts:247).
CliMirrorsCore == Done => (Accepts("cli") <=> Accepts("core"))
=============================================================================
