------------------------------ MODULE Batching ------------------------------
(***************************************************************************)
(* batchActivityProofs of packages/volume-proof/src/batching.ts: the swap  *)
(* proofs of a block are cut into submitSwaps batches of at most           *)
(* MAX_BATCH_PROOFS proofs whose estimated gas stays within a budget.      *)
(* Each step of the machine is one round of the loop over the proofs.      *)
(***************************************************************************)
EXTENDS Integers, Sequences, FiniteSets, FiniteSetsExt

CONSTANTS
  BASE_GAS, PER_PROOF_GAS, PER_BYTE_GAS, NODE_OVERHEAD_BYTES, CALDATA_BASE_BYTES,
  MAX_BATCH_PROOFS, MIN_BUDGET,
  Input,     \* the lists of proofs it may be called with
  Budget     \* the gas budgets

\* What a receipt proof costs depends on its nodes: how many, and their bytes.
BuiltSwapProof == [nodes : Nat, bytes : Nat]

ASSUME BatchingAssumption ==
  /\ BASE_GAS \in Nat /\ PER_PROOF_GAS \in Nat /\ PER_BYTE_GAS \in Nat
  /\ NODE_OVERHEAD_BYTES \in Nat /\ CALDATA_BASE_BYTES \in Nat
  /\ MAX_BATCH_PROOFS \in Nat \ {0}
  /\ MIN_BUDGET \in Nat /\ BASE_GAS <= MIN_BUDGET
  /\ \A ps \in Input : ps \in Seq(BuiltSwapProof)
  /\ Budget \subseteq Int

VARIABLES phase, proofs, gasBudget, at, batch, batches
batchVars == <<phase, proofs, gasBudget, at, batch, batches>>

\* A batch holds positions of proofs: which of them, and in which order.
SubmitBatch == [proofs : Seq(Nat), estimatedGas : Nat]
NewBatch    == [proofs |-> <<>>, estimatedGas |-> BASE_GAS]

BatchInit ==
  /\ phase = "start"
  /\ proofs \in Input /\ gasBudget \in Budget
  /\ at = 1 /\ batch = NewBatch /\ batches = <<>>

CheckBudget ==
  /\ phase = "start"
  /\ phase' = IF gasBudget < MIN_BUDGET THEN "threw" ELSE "loop"
  /\ UNCHANGED <<proofs, gasBudget, at, batch, batches>>

Gas(i) ==
  PER_PROOF_GAS
    + (CALDATA_BASE_BYTES + proofs[i].nodes * NODE_OVERHEAD_BYTES + proofs[i].bytes) * PER_BYTE_GAS

TooBig(i) == Gas(i) + BASE_GAS > gasBudget

\* Mutants: one proof too many; the budget itself is refused.
FullLate(i)  == Len(batch.proofs) > MAX_BATCH_PROOFS \/ batch.estimatedGas + Gas(i) > gasBudget
FullEarly(i) == Len(batch.proofs) = MAX_BATCH_PROOFS \/ batch.estimatedGas + Gas(i) >= gasBudget

Full(i) == Len(batch.proofs) = MAX_BATCH_PROOFS \/ batch.estimatedGas + Gas(i) > gasBudget

Add(b, i) == [proofs |-> Append(b.proofs, i), estimatedGas |-> b.estimatedGas + Gas(i)]

NextRound == at + 1

Take ==
  /\ phase = "loop" /\ at <= Len(proofs)
  /\ IF TooBig(at)
     THEN phase' = "threw" /\ UNCHANGED <<at, batch, batches>>
     ELSE /\ IF Full(at)
             THEN batches' = Append(batches, batch) /\ batch' = Add(NewBatch, at)
             ELSE batch' = Add(batch, at) /\ UNCHANGED batches
          /\ at' = NextRound
          /\ UNCHANGED phase
  /\ UNCHANGED <<proofs, gasBudget>>

\* Mutant: the batch left open is not pushed.
LastBatchDropped == batches

LastBatch == IF batch.proofs # <<>> THEN Append(batches, batch) ELSE batches

Finish ==
  /\ phase = "loop" /\ at = Len(proofs) + 1
  /\ batches' = LastBatch
  /\ phase' = "done"
  /\ UNCHANGED <<proofs, gasBudget, at, batch>>

BatchNext == CheckBudget \/ Take \/ Finish

BatchSpec == BatchInit /\ [][BatchNext]_batchVars

-----------------------------------------------------------------------------
TypeOK ==
  /\ phase \in {"start", "loop", "done", "threw"}
  /\ proofs \in Input /\ gasBudget \in Budget
  /\ at \in 1..(Len(proofs) + 1)
  /\ batch \in SubmitBatch /\ batches \in Seq(SubmitBatch)

LastOf(b) == b.proofs[Len(b.proofs)]

Consecutive(b) == \A j \in 1..(Len(b.proofs) - 1) : b.proofs[j + 1] = b.proofs[j] + 1

\* bs cuts 1..n into runs: nonempty batches of consecutive proofs, the first from the
\* first proof, each of the others from where the one before it stops.
Cuts(bs, n) ==
  /\ \A k \in DOMAIN bs : bs[k].proofs # <<>> /\ Consecutive(bs[k])
  /\ \A k \in DOMAIN bs : bs[k].proofs[1] = IF k = 1 THEN 1 ELSE LastOf(bs[k - 1]) + 1
  /\ n = IF bs = <<>> THEN 0 ELSE LastOf(bs[Len(bs)])

\* Every proof is in exactly one batch and none is reordered: what is submitted batch by
\* batch is what was planned.
ProofsAreKept == phase = "done" => Cuts(batches, Len(proofs))

\* No batch is larger than the contract takes or dearer than the budget.
BatchesFit ==
  phase = "done" =>
    \A k \in DOMAIN batches :
      Len(batches[k].proofs) <= MAX_BATCH_PROOFS /\ batches[k].estimatedGas <= gasBudget

\* The runs that start at the given positions fit.
RunsFit(starts) ==
  \A s \in starts :
    LET run == {i \in s..Len(proofs) : \A t \in starts : ~(s < t /\ t <= i)}
    IN  Cardinality(run) <= MAX_BATCH_PROOFS /\ BASE_GAS + MapThenSumSet(Gas, run) <= gasBudget

\* No other way to cut the list in order needs fewer transactions, and a list that can be
\* cut at all, under an allowed budget, is not refused (batchActivityProofs, the greedy loop).
BatchesAreFewest ==
  phase = "done" \/ (phase = "threw" /\ gasBudget >= MIN_BUDGET) =>
    \A starts \in SUBSET (1..Len(proofs)) :
      (Len(proofs) > 0 => 1 \in starts) /\ RunsFit(starts) =>
        phase = "done" /\ Len(batches) <= Cardinality(starts)
=============================================================================
