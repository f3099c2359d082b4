--------------------------- MODULE Batching_proofs ---------------------------
(***************************************************************************)
(* Proofs about Batching: the batches cut the list of proofs into runs, in *)
(* order, each within the proof limit and the gas budget, for every list   *)
(* and every budget, and no other cut has fewer.  The induction is over    *)
(* the rounds of the loop: the invariant speaks of the closed batches and  *)
(* the open one together.                                                  *)
(***************************************************************************)
EXTENDS Batching, FiniteSetTheorems, WellFoundedInduction, TLAPS

\* The closed batches and the open one.
All == Append(batches, batch)

Fits(b) == Len(b.proofs) <= MAX_BATCH_PROOFS /\ b.estimatedGas <= gasBudget

\* What is cut so far are the proofs before at; the open batch is empty only before the
\* first round.
LoopInv ==
  /\ at = 1 => batch = NewBatch /\ batches = <<>>
  /\ at > 1 => Cuts(All, at - 1)
  /\ at > 1 => \A k \in DOMAIN All : Fits(All[k])

\* Why it throws: the budget, or a proof that no batch could hold.
ThrowsForACause ==
  phase = "threw" => gasBudget < MIN_BUDGET \/ \E i \in 1..Len(proofs) : BASE_GAS + Gas(i) > gasBudget

IInv ==
  /\ TypeOK
  /\ phase = "loop" => gasBudget >= MIN_BUDGET /\ LoopInv
  /\ phase = "start" => at = 1 /\ batch = NewBatch /\ batches = <<>>
  /\ ProofsAreKept /\ BatchesFit /\ ThrowsForACause

LEMMA GasType ==
  ASSUME TypeOK, NEW i \in 1..Len(proofs)
  PROVE  Gas(i) \in Nat
<1>1. proofs \in Seq(BuiltSwapProof) BY BatchingAssumption DEF TypeOK
<1>a. proofs[i] \in BuiltSwapProof BY <1>1
<1>2. proofs[i].nodes \in Nat /\ proofs[i].bytes \in Nat BY <1>a DEF BuiltSwapProof
<1>3. proofs[i].nodes * NODE_OVERHEAD_BYTES \in Nat BY <1>2, BatchingAssumption
<1> DEFINE overhead == proofs[i].nodes * NODE_OVERHEAD_BYTES
           bytes == CALDATA_BASE_BYTES + overhead + proofs[i].bytes
           charge == bytes * PER_BYTE_GAS
<1>4. bytes \in Nat
  <2>1. overhead \in Nat BY <1>3
  <2> HIDE DEF overhead
  <2> QED BY <2>1, <1>2, BatchingAssumption
<1>5. charge \in Nat
  <2> HIDE DEF bytes
  <2> QED BY <1>4, BatchingAssumption
<1>6. Gas(i) = PER_PROOF_GAS + charge BY DEF Gas
<1> HIDE DEF charge
<1> QED BY <1>5, <1>6, BatchingAssumption

\* Adding a proof to a batch: the sequence grows by one.
LEMMA AddType ==
  ASSUME TypeOK, NEW b \in SubmitBatch, NEW i \in 1..Len(proofs)
  PROVE  /\ Add(b, i) \in SubmitBatch
         /\ Len(Add(b, i).proofs) = Len(b.proofs) + 1
         /\ Add(b, i).estimatedGas = b.estimatedGas + Gas(i)
         /\ Add(b, i).proofs[Len(b.proofs) + 1] = i
         /\ \A j \in 1..Len(b.proofs) : Add(b, i).proofs[j] = b.proofs[j]
<1>1. Gas(i) \in Nat BY GasType
<1>2. b.proofs \in Seq(Nat) /\ b.estimatedGas \in Nat BY DEF SubmitBatch
<1> QED BY <1>1, <1>2 DEF Add, SubmitBatch

\* A run extended by the position after its last is a run.
LEMMA AddConsecutive ==
  ASSUME TypeOK, NEW b \in SubmitBatch, NEW i \in 1..Len(proofs),
         b.proofs # <<>>, Consecutive(b), i = LastOf(b) + 1
  PROVE  /\ Consecutive(Add(b, i)) /\ LastOf(Add(b, i)) = i
         /\ Add(b, i).proofs # <<>> /\ Add(b, i).proofs[1] = b.proofs[1]
<1> DEFINE a == Add(b, i)
           n == Len(b.proofs)
<1>1. b.proofs \in Seq(Nat) /\ n \in Nat \ {0} BY DEF SubmitBatch
<1>2. /\ Len(a.proofs) = n + 1 /\ a.proofs[n + 1] = i
      /\ \A j \in 1..n : a.proofs[j] = b.proofs[j]
      /\ a.proofs \in Seq(Nat)
  BY AddType DEF SubmitBatch
<1>3. b.proofs[n] + 1 = i BY DEF LastOf
<1>4. \A j \in 1..(n - 1) : b.proofs[j + 1] = b.proofs[j] + 1 BY DEF Consecutive
<1>5. ASSUME NEW j \in 1..n PROVE a.proofs[j + 1] = a.proofs[j] + 1
  <2>1. CASE j = n BY <2>1, <1>1, <1>2, <1>3
  <2>2. CASE j # n
    <3>1. j \in 1..(n - 1) /\ j + 1 \in 1..n BY <2>2, <1>1
    <3>2. a.proofs[j + 1] = b.proofs[j + 1] /\ a.proofs[j] = b.proofs[j] BY <3>1, <1>2
    <3> QED BY <3>1, <3>2, <1>4
  <2> QED BY <2>1, <2>2
<1>6. Consecutive(a)
  <2>1. Len(a.proofs) - 1 = n BY <1>1, <1>2
  <2> HIDE DEF a, n
  <2> QED BY <2>1, <1>5 DEF Consecutive
<1>7. LastOf(a) = i BY <1>2 DEF LastOf
<1>8. a.proofs # <<>> /\ a.proofs[1] = b.proofs[1] BY <1>1, <1>2
<1> HIDE DEF a
<1> QED BY <1>6, <1>7, <1>8 DEF a

\* A batch of one proof.
LEMMA AddToNew ==
  ASSUME TypeOK, NEW i \in 1..Len(proofs)
  PROVE  /\ Consecutive(Add(NewBatch, i)) /\ LastOf(Add(NewBatch, i)) = i
         /\ Add(NewBatch, i).proofs # <<>> /\ Add(NewBatch, i).proofs[1] = i
         /\ Len(Add(NewBatch, i).proofs) = 1
         /\ Add(NewBatch, i) \in SubmitBatch
         /\ Add(NewBatch, i).estimatedGas = BASE_GAS + Gas(i)
<1>1. NewBatch \in SubmitBatch /\ Len(NewBatch.proofs) = 0 /\ NewBatch.estimatedGas = BASE_GAS
  BY BatchingAssumption DEF NewBatch, SubmitBatch
<1>2. /\ Add(NewBatch, i) \in SubmitBatch
      /\ Len(Add(NewBatch, i).proofs) = Len(NewBatch.proofs) + 1
      /\ Add(NewBatch, i).estimatedGas = NewBatch.estimatedGas + Gas(i)
      /\ Add(NewBatch, i).proofs[Len(NewBatch.proofs) + 1] = i
  <2> HIDE DEF NewBatch
  <2> QED BY <1>1, AddType
<1>3. Add(NewBatch, i).proofs \in Seq(Nat) BY <1>2 DEF SubmitBatch
<1>4. Len(Add(NewBatch, i).proofs) = 1 /\ Add(NewBatch, i).proofs[1] = i BY <1>1, <1>2
<1>5. Add(NewBatch, i).estimatedGas = BASE_GAS + Gas(i) BY <1>1, <1>2
<1> QED BY <1>2, <1>3, <1>4, <1>5 DEF Consecutive, LastOf

-----------------------------------------------------------------------------
\* Appending a run that starts where the last one stops, up to m.
LEMMA CutsAppend ==
  ASSUME NEW bs \in Seq(SubmitBatch), NEW b \in SubmitBatch, NEW n \in Nat,
         Cuts(bs, n), b.proofs # <<>>, Consecutive(b), b.proofs[1] = n + 1
  PROVE  Cuts(Append(bs, b), LastOf(b))
<1> DEFINE cs == Append(bs, b)
<1>1. /\ cs \in Seq(SubmitBatch) /\ Len(cs) = Len(bs) + 1 /\ Len(bs) \in Nat
      /\ DOMAIN bs = 1..Len(bs) /\ DOMAIN cs = 1..(Len(bs) + 1)
      /\ cs[Len(bs) + 1] = b /\ \A k \in 1..Len(bs) : cs[k] = bs[k]
  OBVIOUS
<1> HIDE DEF cs
<1>2. ASSUME NEW k \in DOMAIN cs
      PROVE  /\ cs[k].proofs # <<>> /\ Consecutive(cs[k])
             /\ cs[k].proofs[1] = IF k = 1 THEN 1 ELSE LastOf(cs[k - 1]) + 1
  <2>1. CASE k \in 1..Len(bs)
    <3>1. cs[k] = bs[k] /\ (k # 1 => cs[k - 1] = bs[k - 1]) BY <2>1, <1>1
    <3>2. /\ bs[k].proofs # <<>> /\ Consecutive(bs[k])
          /\ bs[k].proofs[1] = IF k = 1 THEN 1 ELSE LastOf(bs[k - 1]) + 1
      BY <2>1, <1>1 DEF Cuts
    <3> QED BY <3>1, <3>2
  <2>2. CASE k = Len(bs) + 1
    <3>1. cs[k] = b BY <2>2, <1>1
    <3>2. CASE bs = <<>>
      <4>1. n = 0 /\ k = 1 BY <3>2, <2>2, <1>1 DEF Cuts
      <4> QED BY <4>1, <3>1
    <3>3. CASE bs # <<>>
      <4>1. Len(bs) \in 1..Len(bs) /\ k # 1 /\ k - 1 = Len(bs) BY <3>3, <2>2, <1>1
      <4>2. n = LastOf(bs[Len(bs)]) BY <3>3 DEF Cuts
      <4>3. cs[k - 1] = bs[Len(bs)] BY <4>1, <1>1
      <4> QED BY <4>1, <4>2, <4>3, <3>1
    <3> QED BY <3>2, <3>3
  <2> QED BY <2>1, <2>2, <1>1
<1>3. cs # <<>> /\ cs[Len(cs)] = b BY <1>1
<1>4. Cuts(cs, LastOf(b)) BY <1>2, <1>3 DEF Cuts
<1> QED BY <1>4 DEF cs

\* The last run may be exchanged for a longer one with the same start.
LEMMA CutsReplace ==
  ASSUME NEW bs \in Seq(SubmitBatch), NEW b \in SubmitBatch, NEW d \in SubmitBatch, NEW n \in Nat,
         Cuts(Append(bs, b), n), d.proofs # <<>>, Consecutive(d), d.proofs[1] = b.proofs[1]
  PROVE  Cuts(Append(bs, d), LastOf(d))
<1> DEFINE cs == Append(bs, b)
           ds == Append(bs, d)
<1>1. /\ Len(cs) = Len(bs) + 1 /\ Len(bs) \in Nat
      /\ DOMAIN cs = 1..(Len(bs) + 1) /\ cs[Len(bs) + 1] = b
      /\ Len(ds) = Len(bs) + 1 /\ ds \in Seq(SubmitBatch)
      /\ DOMAIN ds = 1..(Len(bs) + 1) /\ ds[Len(bs) + 1] = d
      /\ \A k \in 1..Len(bs) : cs[k] = bs[k] /\ ds[k] = bs[k]
  OBVIOUS
<1> HIDE DEF cs, ds
<1>2. ASSUME NEW k \in DOMAIN ds
      PROVE  /\ ds[k].proofs # <<>> /\ Consecutive(ds[k])
             /\ ds[k].proofs[1] = IF k = 1 THEN 1 ELSE LastOf(ds[k - 1]) + 1
  <2>1. /\ cs[k].proofs # <<>> /\ Consecutive(cs[k])
        /\ cs[k].proofs[1] = IF k = 1 THEN 1 ELSE LastOf(cs[k - 1]) + 1
    BY <1>1 DEF Cuts, cs
  <2>2. k # 1 => cs[k - 1] = ds[k - 1] BY <1>1
  <2>3. CASE k \in 1..Len(bs) BY <2>1, <2>2, <2>3, <1>1
  <2>4. CASE k = Len(bs) + 1
    <3>1. cs[k] = b /\ ds[k] = d BY <2>4, <1>1
    <3> QED BY <3>1, <2>1, <2>2
  <2> QED BY <2>3, <2>4, <1>1
<1>3. ds # <<>> /\ ds[Len(ds)] = d BY <1>1
<1>4. Cuts(ds, LastOf(d)) BY <1>2, <1>3 DEF Cuts
<1> QED BY <1>4 DEF ds

LEMMA AppendElement ==
  ASSUME NEW bs \in Seq(SubmitBatch), NEW b \in SubmitBatch, NEW k \in DOMAIN Append(bs, b)
  PROVE  Append(bs, b)[k] = b \/ (k \in DOMAIN bs /\ Append(bs, b)[k] = bs[k])
<1>1. /\ DOMAIN bs = 1..Len(bs) /\ Len(bs) \in Nat
      /\ DOMAIN Append(bs, b) = 1..(Len(bs) + 1)
      /\ \A j \in 1..Len(bs) : Append(bs, b)[j] = bs[j]
      /\ Append(bs, b)[Len(bs) + 1] = b
  OBVIOUS
<1>2. k \in 1..Len(bs) \/ k = Len(bs) + 1 BY <1>1
<1> HIDE DEF SubmitBatch
<1> QED BY <1>1, <1>2

LEMMA CutsLast ==
  ASSUME NEW bs \in Seq(SubmitBatch), NEW b \in SubmitBatch, NEW n \in Nat, Cuts(Append(bs, b), n)
  PROVE  LastOf(b) = n /\ b.proofs # <<>> /\ Consecutive(b)
<1> DEFINE cs == Append(bs, b)
<1>1. cs # <<>> /\ Len(cs) \in DOMAIN cs /\ cs[Len(cs)] = b OBVIOUS
<1> HIDE DEF cs
<1>2. Cuts(cs, n) BY DEF cs
<1> QED BY <1>1, <1>2 DEF Cuts

-----------------------------------------------------------------------------
\* The rounds of the loop.
LEMMA TakeRound ==
  ASSUME IInv, Take, ~TooBig(at)
  PROVE  /\ phase' = "loop" /\ at' = at + 1 /\ at' > 1
         /\ batch' \in SubmitBatch /\ batches' \in Seq(SubmitBatch)
         /\ Cuts(All', at) /\ \A k \in DOMAIN All' : Fits(All'[k])
<1> USE DEF IInv
<1>1. /\ phase = "loop" /\ phase' = phase /\ at' = at + 1
      /\ at \in 1..Len(proofs) /\ TypeOK /\ LoopInv
      /\ UNCHANGED <<proofs, gasBudget>>
  BY DEF Take, TypeOK, NextRound
<1>2. /\ batch \in SubmitBatch /\ batches \in Seq(SubmitBatch) /\ All \in Seq(SubmitBatch)
      /\ All # <<>> /\ gasBudget \in Int
  BY <1>1, BatchingAssumption DEF TypeOK, All
<1>3. Gas(at) \in Nat BY <1>1, GasType
<1> DEFINE first == Add(NewBatch, at)
           more == Add(batch, at)
<1>4. /\ Consecutive(first) /\ LastOf(first) = at /\ first.proofs # <<>> /\ first.proofs[1] = at
      /\ Len(first.proofs) = 1 /\ first \in SubmitBatch /\ first.estimatedGas = BASE_GAS + Gas(at)
  BY <1>1, AddToNew
<1>5. Fits(first)
  BY <1>2, <1>3, <1>4, BatchingAssumption DEF Fits, TooBig
<1>6. CASE at = 1
  <2>1. batch = NewBatch /\ batches = <<>> BY <1>1, <1>6 DEF LoopInv
  <2>2. ~Full(at)
    BY <2>1, <1>2, <1>3, BatchingAssumption DEF Full, TooBig, NewBatch
  <2>3. batch' = first /\ batches' = <<>> BY <2>1, <2>2, <1>1 DEF Take
  <2>4. Cuts(<<>>, 0) BY DEF Cuts
  <2>5. Cuts(Append(<<>>, first), LastOf(first))
    <3> HIDE DEF first
    <3>1. <<>> \in Seq(SubmitBatch) /\ first.proofs[1] = 0 + 1 BY <1>4, <1>6
    <3> QED BY <3>1, <2>4, <1>4, CutsAppend
  <2>6. All' = Append(<<>>, first) BY <2>3 DEF All
  <2>7. \A k \in DOMAIN All' : All'[k] = first
    <3>1. <<>> \in Seq(SubmitBatch) OBVIOUS
    <3> HIDE DEF first
    <3>2. \A k \in DOMAIN Append(<<>>, first) : k \notin DOMAIN <<>> BY <1>4
    <3> QED BY <3>1, <3>2, <2>6, <1>4, AppendElement
  <2>8. \A k \in DOMAIN All' : Fits(All'[k]) BY <2>7, <1>5
  <2>9. batch' \in SubmitBatch /\ batches' \in Seq(SubmitBatch) BY <2>3, <1>4
  <2>10. Cuts(All', at) BY <2>5, <2>6, <1>4
  <2>11. phase' = "loop" /\ at' = at + 1 /\ at' > 1 BY <1>1, <1>6
  <2> QED BY <2>8, <2>9, <2>10, <2>11
<1>7. CASE at # 1
  <2>1. /\ at - 1 \in Nat /\ at > 1 /\ Cuts(All, at - 1) /\ \A k \in DOMAIN All : Fits(All[k])
    BY <1>1, <1>7 DEF LoopInv
  <2>2. CASE Full(at)
    <3>1. batches' = All /\ batch' = first BY <2>2, <1>1 DEF Take, All
    <3>2. Cuts(Append(All, first), LastOf(first))
      <4>1. first.proofs[1] = (at - 1) + 1 BY <1>1, <1>4
      <4> HIDE DEF first
      <4> QED BY <4>1, <2>1, <1>2, <1>4, CutsAppend
    <3>3. All' = Append(All, first) BY <3>1 DEF All
    <3>4. \A k \in DOMAIN All' : Fits(All'[k])
      <4> HIDE DEF first
      <4>0. \A k \in DOMAIN Append(All, first) :
              Append(All, first)[k] = first \/ (k \in DOMAIN All /\ Append(All, first)[k] = All[k])
        BY <1>2, <1>4, AppendElement
      <4>1. \A k \in DOMAIN All' : All'[k] = first \/ (k \in DOMAIN All /\ All'[k] = All[k])
        BY <3>3, <4>0
      <4> QED BY <4>1, <2>1, <1>5
    <3>5. \A k \in DOMAIN All' : Fits(All'[k]) BY <3>4
    <3> QED BY <3>1, <3>2, <3>3, <3>5, <1>1, <1>2, <1>4, <2>1
  <2>3. CASE ~Full(at)
    <3>1. batches' = batches /\ batch' = more BY <2>3, <1>1 DEF Take
    <3>2. LastOf(batch) = at - 1 /\ batch.proofs # <<>> /\ Consecutive(batch)
      BY <2>1, <1>2, CutsLast DEF All
    <3>3. /\ Consecutive(more) /\ LastOf(more) = at /\ more.proofs # <<>>
          /\ more.proofs[1] = batch.proofs[1]
      BY <3>2, <1>1, <1>2, AddConsecutive
    <3>4. /\ more \in SubmitBatch /\ Len(more.proofs) = Len(batch.proofs) + 1
          /\ more.estimatedGas = batch.estimatedGas + Gas(at)
      BY <1>1, <1>2, AddType
    <3>5. Cuts(Append(batches, more), at)
      <4> HIDE DEF more
      <4> QED BY <2>1, <1>2, <3>3, <3>4, CutsReplace DEF All
    <3>6. All' = Append(batches, more) BY <3>1 DEF All
    <3>7. Fits(batch)
      <4>1. All[Len(All)] = batch /\ Len(All) \in DOMAIN All BY <1>2 DEF All
      <4> QED BY <4>1, <2>1
    <3>8. Fits(more)
      <4>1. Len(batch.proofs) \in Nat /\ batch.estimatedGas \in Nat BY <1>2 DEF SubmitBatch
      <4>2. Len(batch.proofs) # MAX_BATCH_PROOFS /\ batch.estimatedGas + Gas(at) <= gasBudget
        BY <4>1, <2>3, <1>2, <1>3 DEF Full
      <4>3. Len(batch.proofs) <= MAX_BATCH_PROOFS BY <3>7 DEF Fits
      <4> HIDE DEF more
      <4> QED BY <4>1, <4>2, <4>3, <3>4, BatchingAssumption DEF Fits
    <3>9. \A k \in DOMAIN All' : Fits(All'[k])
      <4> HIDE DEF more
      <4>1. \A k \in DOMAIN All' : All'[k] = more \/ (k \in DOMAIN batches /\ All'[k] = batches[k])
        BY <3>6, <1>2, <3>4, AppendElement
      <4>2. \A k \in DOMAIN batches : k \in DOMAIN All /\ All[k] = batches[k] BY <1>2 DEF All
      <4> QED BY <4>1, <4>2, <2>1, <3>8
    <3> QED BY <3>1, <3>4, <3>5, <3>6, <3>9, <1>1, <1>2, <2>1
  <2> QED BY <2>2, <2>3
<1> QED BY <1>6, <1>7, <1>1


LEMMA LoopStep == ASSUME IInv, [BatchNext]_batchVars PROVE IInv'
<1> USE DEF IInv
<1>1. CASE CheckBudget
  <2>1. /\ phase = "start" /\ phase' \in {"threw", "loop"}
        /\ phase' = "threw" <=> gasBudget < MIN_BUDGET
        /\ UNCHANGED <<proofs, gasBudget, at, batch, batches>>
    BY <1>1 DEF CheckBudget
  <2>2. TypeOK' BY <2>1 DEF TypeOK
  <2>3. phase' = "loop" => gasBudget' >= MIN_BUDGET
    BY <2>1, BatchingAssumption DEF TypeOK
  <2>4. LoopInv' BY <2>1 DEF LoopInv
  <2> QED BY <2>1, <2>2, <2>3, <2>4 DEF ProofsAreKept, BatchesFit, ThrowsForACause
<1>2. CASE Take /\ TooBig(at)
  <2>1. /\ phase = "loop" /\ phase' = "threw" /\ at \in 1..Len(proofs)
        /\ UNCHANGED <<proofs, gasBudget, at, batch, batches>>
    BY <1>2 DEF Take, TypeOK
  <2>2. TypeOK' BY <2>1 DEF TypeOK
  <2>3. BASE_GAS + Gas(at) > gasBudget
    <3>1. Gas(at) \in Nat BY <2>1, GasType
    <3> QED BY <3>1, <1>2, BatchingAssumption DEF TooBig
  <2>4. ThrowsForACause' BY <2>1, <2>3 DEF ThrowsForACause, Gas
  <2> QED BY <2>1, <2>2, <2>4 DEF ProofsAreKept, BatchesFit
<1>3. CASE Take /\ ~TooBig(at)
  <2>1. /\ phase = "loop" /\ at \in 1..Len(proofs) /\ UNCHANGED <<proofs, gasBudget>>
    BY <1>3 DEF Take, TypeOK
  <2>2. /\ phase' = "loop" /\ at' = at + 1 /\ at' > 1
        /\ batch' \in SubmitBatch /\ batches' \in Seq(SubmitBatch)
        /\ Cuts(All', at) /\ \A k \in DOMAIN All' : Fits(All'[k])
    BY <1>3, TakeRound
  <2>3. TypeOK'
    <3>1. Len(proofs) \in Nat BY BatchingAssumption DEF TypeOK
    <3> QED BY <3>1, <2>1, <2>2 DEF TypeOK
  <2>4. Cuts(All', at' - 1) BY <2>1, <2>2
  <2>5. (\A k \in DOMAIN All : Fits(All[k]))' BY <2>1, <2>2 DEF Fits
  <2>6. LoopInv' BY <2>2, <2>4, <2>5 DEF LoopInv
  <2> QED BY <2>1, <2>2, <2>3, <2>6 DEF ProofsAreKept, BatchesFit, ThrowsForACause
<1>4. CASE Finish
  <2>1. /\ phase = "loop" /\ phase' = "done" /\ at = Len(proofs) + 1 /\ Len(proofs) \in Nat
        /\ batches' = IF batch.proofs # <<>> THEN All ELSE batches
        /\ UNCHANGED <<proofs, gasBudget, at, batch>>
        /\ TypeOK /\ LoopInv /\ batch \in SubmitBatch /\ batches \in Seq(SubmitBatch)
    BY <1>4, BatchingAssumption DEF Finish, LastBatch, All, TypeOK
  <2>2. TypeOK' BY <2>1 DEF TypeOK, All
  <2>3. Cuts(batches', Len(proofs)) /\ \A k \in DOMAIN batches' : Fits(batches'[k])
    <3>1. CASE at = 1
      <4>1. batches' = <<>> /\ Len(proofs) = 0 BY <3>1, <2>1 DEF LoopInv, NewBatch
      <4> QED BY <4>1 DEF Cuts
    <3>2. CASE at # 1
      <4>1. at > 1 /\ at - 1 = Len(proofs) BY <3>2, <2>1
      <4>2. Cuts(All, Len(proofs)) /\ \A k \in DOMAIN All : Fits(All[k]) BY <4>1, <2>1 DEF LoopInv
      <4>3. batch.proofs # <<>> BY <4>2, <2>1, CutsLast DEF All
      <4> QED BY <4>2, <4>3, <2>1
    <3> QED BY <3>1, <3>2
  <2>4. ProofsAreKept' BY <2>1, <2>3 DEF ProofsAreKept
  <2>5. BatchesFit' BY <2>1, <2>3 DEF BatchesFit, Fits
  <2> QED BY <2>1, <2>2, <2>4, <2>5 DEF ThrowsForACause
<1>5. CASE UNCHANGED batchVars
  <2>1. TypeOK' BY <1>5 DEF TypeOK, batchVars
  <2>2. LoopInv' = LoopInv BY <1>5 DEF LoopInv, batchVars, All, Fits
  <2>3. ProofsAreKept' /\ BatchesFit' /\ ThrowsForACause'
    BY <1>5 DEF ProofsAreKept, BatchesFit, ThrowsForACause, batchVars, Gas
  <2> QED BY <1>5, <2>1, <2>2, <2>3 DEF batchVars
<1> QED BY <1>1, <1>2, <1>3, <1>4, <1>5 DEF BatchNext

LEMMA InitIInv == BatchInit => IInv
<1> SUFFICES ASSUME BatchInit PROVE IInv OBVIOUS
<1>1. NewBatch \in SubmitBatch BY BatchingAssumption DEF NewBatch, SubmitBatch
<1>2. Len(proofs) \in Nat BY BatchingAssumption DEF BatchInit
<1>3. TypeOK BY <1>1, <1>2 DEF BatchInit, TypeOK
<1> QED BY <1>3 DEF BatchInit, IInv, ProofsAreKept, BatchesFit, ThrowsForACause

LEMMA AlwaysIInv == BatchSpec => []IInv
BY InitIInv, LoopStep, PTL DEF BatchSpec

\* The variables keep their types, whatever is batched.
THEOREM BatchingTypeCorrect == BatchSpec => []TypeOK
BY AlwaysIInv, PTL DEF IInv

\* Whatever is planned is submitted: the batches cut the list of proofs into runs, in
\* order, and no proof is lost, repeated or moved.
THEOREM PlannedProofsAreKept == BatchSpec => []ProofsAreKept
BY AlwaysIInv, PTL DEF IInv

\* No batch is beyond the proof limit or the gas budget.
THEOREM PlannedBatchesFit == BatchSpec => []BatchesFit
BY AlwaysIInv, PTL DEF IInv

-----------------------------------------------------------------------------
(***************************************************************************)
(* No cut of the list needs fewer batches.  The cost of a batch is a sum   *)
(* over its run: MapThenSumSet takes the elements of a finite set away one *)
(* by one; w weighs them, and h, the sums of all subsets, is a solution of *)
(* that recursion.                                                         *)
(***************************************************************************)
\* The least number principle, as a fact about sets.
LEMMA HasLeast ==
  ASSUME NEW S \in SUBSET Nat, S # {}
  PROVE  \E m \in S : \A k \in S : m <= k
<1> DEFINE R == {ss \in Nat \X Nat : ss[1] < ss[2]}
<1>1. IsWellFoundedOn(R, Nat) BY NatLessThanWellFounded DEF OpToRel
<1>2. PICK x \in S : \A y \in S : ~(<<y, x>> \in R)
  <2> HIDE DEF R
  <2> QED BY <1>1, WFMin
<1>3. \A y \in S : ~(y < x) BY <1>2
<1> QED BY <1>3

\* Of the subsets of a finite set in some family, one loses it with any element.
LEMMA HasLeastSet ==
  ASSUME NEW S, IsFiniteSet(S), NEW Bad \in SUBSET (SUBSET S), Bad # {}
  PROVE  \E s \in Bad : \A x \in s : s \ {x} \notin Bad
<1> DEFINE sizes == {Cardinality(s) : s \in Bad}
<1>1. \A s \in Bad : IsFiniteSet(s) /\ Cardinality(s) \in Nat BY FS_Subset, FS_CardinalityType
<1>2. PICK m \in sizes : \A k \in sizes : m <= k
  <2>1. sizes \in SUBSET Nat /\ sizes # {} BY <1>1
  <2> HIDE DEF sizes
  <2> QED BY <2>1, HasLeast
<1>3. PICK s \in Bad : m = Cardinality(s) OBVIOUS
<1>4. ASSUME NEW x \in s, s \ {x} \in Bad PROVE FALSE
  <2>1. Cardinality(s \ {x}) = Cardinality(s) - 1 BY <1>1, FS_RemoveElement
  <2>2. Cardinality(s) <= Cardinality(s \ {x}) BY <1>2, <1>3, <1>4
  <2> QED BY <1>1, <2>1, <2>2
<1> QED BY <1>4

First(s) == CHOOSE x \in s : TRUE

AddFirst(w, h, s) == IF s = {} THEN 0 ELSE w[First(s)] + h[s \ {First(s)}]

Adds(h, w, S)  == \A s \in SUBSET S : h[s] = AddFirst(w, h, s)
IsSum(h, w, S) == h \in [SUBSET S -> Nat] /\ Adds(h, w, S)

LEMMA FirstIn == ASSUME NEW s, s # {} PROVE First(s) \in s
BY DEF First

\* Two solutions agree.
LEMMA SumsAgree ==
  ASSUME NEW S, IsFiniteSet(S), NEW R, S \subseteq R, NEW w, NEW g, NEW h, Adds(g, w, S), Adds(h, w, R)
  PROVE  \A s \in SUBSET S : g[s] = h[s]
<1> DEFINE Bad == {s \in SUBSET S : g[s] # h[s]}
<1> SUFFICES ASSUME Bad # {} PROVE FALSE OBVIOUS
<1>1. PICK s \in Bad : \A x \in s : s \ {x} \notin Bad
  <2>1. Bad \in SUBSET (SUBSET S) OBVIOUS
  <2> HIDE DEF Bad
  <2> QED BY <2>1, HasLeastSet
<1>2. s \in SUBSET S /\ s \in SUBSET R /\ g[s] # h[s] OBVIOUS
<1>3. g[s] = AddFirst(w, g, s) /\ h[s] = AddFirst(w, h, s) BY <1>2 DEF Adds
<1>4. s # {} BY <1>2, <1>3 DEF AddFirst
<1>5. First(s) \in s BY <1>4, FirstIn
<1>6. g[s \ {First(s)}] = h[s \ {First(s)}] BY <1>1, <1>2, <1>5
<1> QED BY <1>2, <1>3, <1>4, <1>6 DEF AddFirst

\* A solution adds any element last.
LEMMA SumsAdd ==
  ASSUME NEW S, IsFiniteSet(S), NEW w, \A x \in S : w[x] \in Nat, NEW h, IsSum(h, w, S),
         NEW s \in SUBSET S, NEW x \in s
  PROVE  h[s] = w[x] + h[s \ {x}]
<1> DEFINE Bad == {t \in SUBSET S : \E y \in t : h[t] # w[y] + h[t \ {y}]}
<1> SUFFICES ASSUME Bad # {} PROVE FALSE OBVIOUS
<1>1. PICK t \in Bad : \A y \in t : t \ {y} \notin Bad
  <2>1. Bad \in SUBSET (SUBSET S) OBVIOUS
  <2> HIDE DEF Bad
  <2> QED BY <2>1, HasLeastSet
<1>2. PICK y \in t : h[t] # w[y] + h[t \ {y}] OBVIOUS
<1>3. t \in SUBSET S /\ t # {} OBVIOUS
<1>4. PICK z \in t : z = First(t) BY <1>3, FirstIn
<1>5. h[t] = w[z] + h[t \ {z}] BY <1>3, <1>4 DEF IsSum, Adds, AddFirst
<1>6. y # z BY <1>2, <1>5
<1>7. h[t \ {z}] = w[y] + h[(t \ {z}) \ {y}]
  <2>1. t \ {z} \notin Bad /\ y \in t \ {z} /\ t \ {z} \in SUBSET S BY <1>1, <1>3, <1>6
  <2> QED BY <2>1
<1>8. h[t \ {y}] = w[z] + h[(t \ {y}) \ {z}]
  <2>1. t \ {y} \notin Bad /\ z \in t \ {y} /\ t \ {y} \in SUBSET S BY <1>1, <1>3, <1>6
  <2> QED BY <2>1
<1>9. (t \ {z}) \ {y} = (t \ {y}) \ {z} OBVIOUS
<1>10. w[y] \in Nat /\ w[z] \in Nat /\ h[(t \ {y}) \ {z}] \in Nat
  <2>1. y \in S /\ z \in S /\ (t \ {y}) \ {z} \in SUBSET S BY <1>3
  <2> QED BY <2>1 DEF IsSum
<1>11. PICK n \in Nat : n = h[(t \ {y}) \ {z}] BY <1>10
<1>12. h[t \ {z}] = w[y] + n BY <1>7, <1>9, <1>11
<1>13. h[t \ {y}] = w[z] + n BY <1>8, <1>11
<1>14. w[y] + h[t \ {y}] = w[z] + h[t \ {z}] BY <1>10, <1>12, <1>13
<1> QED BY <1>2, <1>5, <1>14

Upto(S, n) == {s \in SUBSET S : Cardinality(s) <= n}

SumsUpto(w, S, n) ==
  {h \in [Upto(S, n) -> Nat] : \A s \in Upto(S, n) : h[s] = AddFirst(w, h, s)}

LEMMA WithoutFirst ==
  ASSUME NEW S, IsFiniteSet(S), NEW n \in Nat, NEW s \in Upto(S, n), s # {}
  PROVE  First(s) \in S /\ n # 0 /\ s \ {First(s)} \in Upto(S, n - 1)
<1>1. First(s) \in s BY FirstIn
<1>2. s \in SUBSET S /\ Cardinality(s) <= n BY DEF Upto
<1>3. IsFiniteSet(s) /\ Cardinality(s) \in Nat BY <1>2, FS_Subset, FS_CardinalityType
<1>4. Cardinality(s \ {First(s)}) = Cardinality(s) - 1 /\ Cardinality(s) # 0
  BY <1>1, <1>3, FS_RemoveElement, FS_EmptySet
<1> QED BY <1>1, <1>2, <1>3, <1>4 DEF Upto

LEMMA SumsUptoExist ==
  ASSUME NEW S, IsFiniteSet(S), NEW w, \A x \in S : w[x] \in Nat, NEW n \in Nat
  PROVE  SumsUpto(w, S, n) # {}
<1> DEFINE bad == {m \in Nat : SumsUpto(w, S, m) = {}}
<1> SUFFICES ASSUME bad # {} PROVE FALSE OBVIOUS
<1>1. PICK m \in bad : \A k \in bad : m <= k
  <2>1. bad \in SUBSET Nat OBVIOUS
  <2> HIDE DEF bad
  <2> QED BY <2>1, HasLeast
<1>2. m \in Nat /\ SumsUpto(w, S, m) = {} OBVIOUS
<1>3. CASE m = 0
  <2>1. PICK h : h = [s \in Upto(S, 0) |-> 0] OBVIOUS
  <2>2. \A s \in Upto(S, 0) : s = {} BY WithoutFirst
  <2>3. h \in SumsUpto(w, S, 0) BY <2>1, <2>2 DEF SumsUpto, AddFirst
  <2> QED BY <1>2, <1>3, <2>3
<1>4. CASE m # 0
  <2>1. PICK k \in Nat : k = m - 1 BY <1>2, <1>4
  <2>2. k \notin bad
    <3> HIDE DEF bad
    <3> QED BY <1>1, <1>2, <2>1
  <2>3. PICK g \in [Upto(S, k) -> Nat] : \A s \in Upto(S, k) : g[s] = AddFirst(w, g, s)
    BY <2>2 DEF SumsUpto
  <2>4. PICK h : h = [s \in Upto(S, m) |-> AddFirst(w, g, s)] OBVIOUS
  <2>5. Upto(S, k) \subseteq Upto(S, m)
    <3> SUFFICES ASSUME NEW s \in Upto(S, k) PROVE Cardinality(s) <= m BY DEF Upto
    <3>1. Cardinality(s) \in Nat /\ Cardinality(s) <= k BY FS_Subset, FS_CardinalityType DEF Upto
    <3> QED BY <1>2, <2>1, <3>1
  <2>6. \A s \in Upto(S, k) : h[s] = g[s] BY <2>3, <2>4, <2>5
  <2>7. ASSUME NEW s \in Upto(S, m)
        PROVE  AddFirst(w, g, s) \in Nat /\ AddFirst(w, h, s) = AddFirst(w, g, s)
    <3>1. CASE s = {} BY <3>1 DEF AddFirst
    <3>2. CASE s # {}
      <4>1. First(s) \in S /\ s \ {First(s)} \in Upto(S, k) BY <1>2, <2>1, <3>2, WithoutFirst
      <4> QED BY <2>3, <2>6, <3>2, <4>1 DEF AddFirst
    <3> QED BY <3>1, <3>2
  <2>8. h \in SumsUpto(w, S, m) BY <2>4, <2>7 DEF SumsUpto
  <2> QED BY <1>2, <2>8
<1> QED BY <1>3, <1>4

LEMMA SumsExist ==
  ASSUME NEW S, IsFiniteSet(S), NEW w, \A x \in S : w[x] \in Nat
  PROVE  \E h : IsSum(h, w, S)
<1>1. PICK n \in Nat : n = Cardinality(S) BY FS_CardinalityType
<1>2. Upto(S, n) = SUBSET S
  <2> SUFFICES ASSUME NEW s \in SUBSET S PROVE Cardinality(s) <= n BY DEF Upto
  <2> QED BY <1>1, FS_Subset
<1>3. PICK h : h \in SumsUpto(w, S, n) BY SumsUptoExist
<1> QED BY <1>2, <1>3 DEF SumsUpto, IsSum, Adds

\* More elements cost no less.
LEMMA SumsGrow ==
  ASSUME NEW S, IsFiniteSet(S), NEW w, \A x \in S : w[x] \in Nat, NEW h, IsSum(h, w, S),
         NEW u \in SUBSET S, NEW s \in SUBSET u
  PROVE  h[s] <= h[u]
<1> DEFINE Bad == {t \in SUBSET S : s \subseteq t /\ ~(h[s] <= h[t])}
<1> SUFFICES ASSUME Bad # {} PROVE FALSE OBVIOUS
<1>1. PICK t \in Bad : \A y \in t : t \ {y} \notin Bad
  <2>1. Bad \in SUBSET (SUBSET S) OBVIOUS
  <2> HIDE DEF Bad
  <2> QED BY <2>1, HasLeastSet
<1>2. t \in SUBSET S /\ s \subseteq t /\ ~(h[s] <= h[t]) OBVIOUS
<1>3. \A r \in SUBSET S : h[r] \in Nat BY DEF IsSum
<1>4. h[s] \in Nat /\ h[t] \in Nat BY <1>2, <1>3
<1>5. t # s BY <1>2, <1>4
<1>6. PICK x \in t : x \notin s BY <1>2, <1>5
<1>7. t \ {x} \in SUBSET S /\ s \subseteq t \ {x} /\ w[x] \in Nat BY <1>2, <1>6
<1>8. h[s] <= h[t \ {x}] BY <1>1, <1>6, <1>7
<1>9. h[t] = w[x] + h[t \ {x}] BY <1>2, <1>6, SumsAdd
<1>10. h[t \ {x}] \in Nat BY <1>3, <1>7
<1> HIDE DEF Bad
<1> QED BY <1>2, <1>4, <1>7, <1>8, <1>9, <1>10

\* What a proof costs, and what those of a set do together.
GasOf(ps, i)  ==
  PER_PROOF_GAS
    + (CALDATA_BASE_BYTES + ps[i].nodes * NODE_OVERHEAD_BYTES + ps[i].bytes) * PER_BYTE_GAS
CostOf(ps, S) == MapThenSumSet(LAMBDA i : GasOf(ps, i), S)

\* Every proof has a cost.
Priced(ps) == ps \in Seq(BuiltSwapProof) /\ \A i \in 1..Len(ps) : GasOf(ps, i) \in Nat

AddCost(ps, f, t) ==
  IF t = {} THEN 0 ELSE LET x == CHOOSE y \in t : TRUE IN GasOf(ps, x) + f[t \ {x}]

\* What MapThenSumSet computes is a solution.
LEMMA CostIsSum ==
  ASSUME NEW R, IsFiniteSet(R), NEW S \in SUBSET R, NEW ps, NEW w,
         \A x \in R : w[x] = GasOf(ps, x) /\ w[x] \in Nat, NEW h, IsSum(h, w, R)
  PROVE  CostOf(ps, S) = h[S]
<1> DEFINE it == CHOOSE f : f = [t \in SUBSET S |-> AddCost(ps, f, t)]
<1>1. CostOf(ps, S) = it[S]
  BY DEF CostOf, MapThenSumSet, MapThenFoldSet, AddCost
<1>2. PICK g : IsSum(g, w, S)
  <2>1. IsFiniteSet(S) /\ \A x \in S : w[x] \in Nat BY FS_Subset
  <2> QED BY <2>1, SumsExist
<1>3. ASSUME NEW f, NEW t \in SUBSET S PROVE AddCost(ps, f, t) = AddFirst(w, f, t)
  BY FirstIn DEF AddCost, AddFirst, First
<1>4. g = [t \in SUBSET S |-> AddCost(ps, g, t)] BY <1>2, <1>3 DEF IsSum, Adds
<1>5. it = [t \in SUBSET S |-> AddCost(ps, it, t)] BY <1>4
<1> HIDE DEF it
<1>6. Adds(it, w, S)
  <2> SUFFICES ASSUME NEW t \in SUBSET S PROVE it[t] = AddFirst(w, it, t) BY DEF Adds
  <2>1. it[t] = AddCost(ps, it, t) BY <1>5
  <2> QED BY <1>3, <2>1
<1>7. Adds(h, w, R) /\ IsFiniteSet(S) BY FS_Subset DEF IsSum
<1>8. \A s \in SUBSET S : it[s] = h[s] BY <1>6, <1>7, SumsAgree
<1> QED BY <1>1, <1>8

LEMMA SumOfCosts ==
  ASSUME NEW ps, Priced(ps)
  PROVE  \E w : \E h :
           /\ IsFiniteSet(1..Len(ps)) /\ IsSum(h, w, 1..Len(ps))
           /\ \A i \in 1..Len(ps) : w[i] = GasOf(ps, i) /\ w[i] \in Nat
           /\ \A S \in SUBSET (1..Len(ps)) : CostOf(ps, S) = h[S]
<1>1. PICK R : R = 1..Len(ps) OBVIOUS
<1>2. IsFiniteSet(R)
  <2>1. 1 \in Int /\ Len(ps) \in Int BY DEF Priced
  <2> QED BY <1>1, <2>1, FS_Interval
<1>3. PICK w : w = [i \in R |-> GasOf(ps, i)] OBVIOUS
<1>4. \A i \in R : w[i] = GasOf(ps, i) /\ w[i] \in Nat BY <1>1, <1>3 DEF Priced
<1>5. PICK h : IsSum(h, w, R) BY <1>2, <1>4, SumsExist
<1>6. ASSUME NEW S \in SUBSET R PROVE CostOf(ps, S) = h[S]
  BY <1>2, <1>4, <1>5, CostIsSum
<1> QED BY <1>1, <1>2, <1>4, <1>5, <1>6

\* A run that takes in the next proof costs its gas more, a run of one proof its own gas,
\* and no set of proofs less than a part of it.
LEMMA CostFacts ==
  ASSUME NEW ps, Priced(ps)
  PROVE  /\ \A i \in 1..Len(ps) : CostOf(ps, i..i) = GasOf(ps, i)
         /\ \A s \in 1..Len(ps) : \A e \in 1..Len(ps) :
              s < e => CostOf(ps, s..e) = CostOf(ps, s..(e - 1)) + GasOf(ps, e)
         /\ \A T \in SUBSET (1..Len(ps)) : \A S \in SUBSET T :
              CostOf(ps, S) \in Nat /\ CostOf(ps, S) <= CostOf(ps, T)
<1>1. PICK w, h : /\ IsFiniteSet(1..Len(ps)) /\ IsSum(h, w, 1..Len(ps))
                  /\ \A i \in 1..Len(ps) : w[i] = GasOf(ps, i) /\ w[i] \in Nat
                  /\ \A S \in SUBSET (1..Len(ps)) : CostOf(ps, S) = h[S]
  BY SumOfCosts
<1>2. PICK R : R = 1..Len(ps) OBVIOUS
<1>3. Len(ps) \in Nat BY DEF Priced
<1>4. ASSUME NEW T \in SUBSET R, NEW x \in T PROVE h[T] = w[x] + h[T \ {x}]
  <2>1. IsFiniteSet(R) /\ IsSum(h, w, R) /\ \A i \in R : w[i] \in Nat BY <1>1, <1>2
  <2> QED BY <2>1, SumsAdd
<1>5. \A T \in SUBSET R : h[T] \in Nat BY <1>1, <1>2 DEF IsSum
<1>6. h[{}] = 0 BY <1>1 DEF IsSum, Adds, AddFirst
<1>7. ASSUME NEW i \in 1..Len(ps) PROVE CostOf(ps, i..i) = GasOf(ps, i)
  <2>1. i..i = {i} /\ {i} \ {i} = {} /\ {i} \in SUBSET R BY <1>2
  <2>2. h[{i}] = w[i] + h[{}] BY <1>4, <2>1
  <2> QED BY <1>1, <1>2, <1>6, <2>1, <2>2
<1>8. ASSUME NEW s \in 1..Len(ps), NEW e \in 1..Len(ps), s < e
      PROVE  CostOf(ps, s..e) = CostOf(ps, s..(e - 1)) + GasOf(ps, e)
  <2>1. /\ s..e \in SUBSET R /\ s..(e - 1) \in SUBSET R /\ e \in s..e
        /\ (s..e) \ {e} = s..(e - 1)
    BY <1>2, <1>3, <1>8
  <2>2. h[s..e] = w[e] + h[s..(e - 1)] BY <1>4, <2>1
  <2>3. h[s..(e - 1)] \in Nat /\ w[e] \in Nat /\ w[e] = GasOf(ps, e) BY <1>1, <1>5, <2>1
  <2>4. CostOf(ps, s..e) = h[s..e] /\ CostOf(ps, s..(e - 1)) = h[s..(e - 1)] BY <1>1, <1>2, <2>1
  <2> QED BY <2>2, <2>3, <2>4
<1>9. ASSUME NEW T \in SUBSET (1..Len(ps)), NEW S \in SUBSET T
      PROVE  CostOf(ps, S) \in Nat /\ CostOf(ps, S) <= CostOf(ps, T)
  <2>1. S \in SUBSET R BY <1>2
  <2>2. h[S] <= h[T]
    <3>1. IsFiniteSet(R) /\ IsSum(h, w, R) /\ \A i \in R : w[i] \in Nat BY <1>1, <1>2
    <3>2. T \in SUBSET R BY <1>2
    <3> QED BY <3>1, <3>2, SumsGrow
  <2> QED BY <1>1, <1>2, <1>5, <2>1, <2>2
<1> QED BY <1>7, <1>8, <1>9

-----------------------------------------------------------------------------
\* A batch of a run within the first n proofs, with its cost.
Sized(ps, b, n) ==
  /\ b.proofs[1] \in 1..n /\ LastOf(b) \in b.proofs[1]..n
  /\ Len(b.proofs) = LastOf(b) - b.proofs[1] + 1
  /\ b.estimatedGas = BASE_GAS + CostOf(ps, b.proofs[1]..LastOf(b))

\* A batch the proof after it did not fit in.
Closed(ps, g, b) ==
  \/ Len(b.proofs) = MAX_BATCH_PROOFS
  \/ b.estimatedGas + GasOf(ps, LastOf(b) + 1) > g

\* Batches of the first n proofs, in order, each but the last closed.
Greedy(ps, g, bs, n) ==
  /\ \A k \in DOMAIN bs : Sized(ps, bs[k], n)
  /\ \A j, k \in DOMAIN bs : j < k => LastOf(bs[j]) < bs[k].proofs[1]
  /\ \A k \in DOMAIN bs : k # Len(bs) => Closed(ps, g, bs[k])

GreedyInv ==
  /\ phase = "loop" /\ at > 1 => Greedy(proofs, gasBudget, All, at - 1)
  /\ phase = "done" => Greedy(proofs, gasBudget, batches, Len(proofs))

LEMMA ProofsPriced == ASSUME TypeOK PROVE Priced(proofs)
<1>1. proofs \in Seq(BuiltSwapProof) BY BatchingAssumption DEF TypeOK
<1>2. \A i \in 1..Len(proofs) : GasOf(proofs, i) = Gas(i) BY DEF GasOf, Gas
<1> QED BY <1>1, <1>2, GasType DEF Priced

LEMMA SizedLonger ==
  ASSUME NEW ps, NEW b, NEW n \in Nat, Sized(ps, b, n)
  PROVE  Sized(ps, b, n + 1)
<1>1. PICK f \in 1..n : f = b.proofs[1] BY DEF Sized
<1>2. PICK l \in f..n : l = LastOf(b) BY <1>1 DEF Sized
<1>3. f \in 1..(n + 1) /\ l \in f..(n + 1) BY <1>1, <1>2
<1> QED BY <1>1, <1>2, <1>3 DEF Sized

\* Opening a batch with the proof the last one had no room for.
LEMMA GreedyAppend ==
  ASSUME NEW bs \in Seq(SubmitBatch), NEW b \in SubmitBatch, NEW n \in Nat, NEW ps, NEW g,
         Greedy(ps, g, bs, n), bs # <<>> => Closed(ps, g, bs[Len(bs)]),
         Sized(ps, b, n + 1), b.proofs[1] = n + 1
  PROVE  Greedy(ps, g, Append(bs, b), n + 1)
<1>1. PICK cs : cs = Append(bs, b) OBVIOUS
<1>2. PICK m \in Nat : m = Len(bs) OBVIOUS
<1>3. /\ DOMAIN cs = 1..(m + 1) /\ Len(cs) = m + 1 /\ cs[m + 1] = b
      /\ \A k \in 1..m : cs[k] = bs[k]
      /\ DOMAIN bs = 1..m
  BY <1>1, <1>2
<1>4. ASSUME NEW k \in DOMAIN cs PROVE Sized(ps, cs[k], n + 1)
  <2>1. CASE k = m + 1 BY <1>3, <2>1
  <2>2. CASE k # m + 1
    <3>1. k \in 1..m BY <1>3, <2>2
    <3>2. Sized(ps, bs[k], n) BY <1>3, <3>1 DEF Greedy
    <3> QED BY <1>3, <3>1, <3>2, SizedLonger
  <2> QED BY <2>1, <2>2
<1>5. ASSUME NEW j \in DOMAIN cs, NEW k \in DOMAIN cs, j < k PROVE LastOf(cs[j]) < cs[k].proofs[1]
  <2>1. j \in 1..m /\ cs[j] = bs[j] BY <1>3, <1>5
  <2>2. CASE k = m + 1
    <3>1. PICK f \in 1..n : f = bs[j].proofs[1] BY <1>3, <2>1 DEF Greedy, Sized
    <3>2. LastOf(bs[j]) \in f..n BY <1>3, <2>1, <3>1 DEF Greedy, Sized
    <3> QED BY <1>3, <2>1, <2>2, <3>2
  <2>3. CASE k # m + 1
    <3>1. k \in 1..m /\ cs[k] = bs[k] BY <1>3, <2>3
    <3> QED BY <1>3, <1>5, <2>1, <3>1 DEF Greedy
  <2> QED BY <2>2, <2>3
<1>6. ASSUME NEW k \in DOMAIN cs, k # Len(cs) PROVE Closed(ps, g, cs[k])
  <2>1. k \in 1..m /\ cs[k] = bs[k] BY <1>3, <1>6
  <2>2. CASE k = m
    <3>1. bs # <<>> BY <1>2, <1>3, <2>1
    <3> QED BY <1>2, <2>1, <2>2, <3>1
  <2>3. CASE k # m BY <1>2, <1>3, <2>1, <2>3 DEF Greedy
  <2> QED BY <2>2, <2>3
<1>7. Greedy(ps, g, cs, n + 1) BY <1>4, <1>5, <1>6 DEF Greedy
<1> QED BY <1>1, <1>7

\* Taking the next proof into the open batch.
LEMMA GreedyReplace ==
  ASSUME NEW bs \in Seq(SubmitBatch), NEW b \in SubmitBatch, NEW d \in SubmitBatch,
         NEW n \in Nat, NEW ps, NEW g,
         Greedy(ps, g, Append(bs, b), n), Sized(ps, d, n + 1), d.proofs[1] = b.proofs[1]
  PROVE  Greedy(ps, g, Append(bs, d), n + 1)
<1>1. PICK cs : cs = Append(bs, b) OBVIOUS
<1>2. PICK ds : ds = Append(bs, d) OBVIOUS
<1>3. PICK m \in Nat : m = Len(bs) OBVIOUS
<1>4. /\ DOMAIN cs = 1..(m + 1) /\ Len(cs) = m + 1 /\ cs[m + 1] = b
      /\ DOMAIN ds = 1..(m + 1) /\ Len(ds) = m + 1 /\ ds[m + 1] = d
      /\ \A k \in 1..m : ds[k] = cs[k]
  BY <1>1, <1>2, <1>3
<1>5. Greedy(ps, g, cs, n) BY <1>1
<1>6. ASSUME NEW k \in DOMAIN ds PROVE Sized(ps, ds[k], n + 1)
  <2>1. CASE k = m + 1 BY <1>4, <2>1
  <2>2. CASE k # m + 1
    <3>1. k \in 1..m BY <1>4, <2>2
    <3>2. Sized(ps, cs[k], n) BY <1>4, <1>5, <3>1 DEF Greedy
    <3> QED BY <1>4, <3>1, <3>2, SizedLonger
  <2> QED BY <2>1, <2>2
<1>7. ASSUME NEW j \in DOMAIN ds, NEW k \in DOMAIN ds, j < k PROVE LastOf(ds[j]) < ds[k].proofs[1]
  <2>1. j \in 1..m /\ ds[j] = cs[j] BY <1>4, <1>7
  <2>2. LastOf(cs[j]) < cs[k].proofs[1] BY <1>4, <1>5, <1>7 DEF Greedy
  <2>3. ds[k].proofs[1] = cs[k].proofs[1]
    <3>1. CASE k = m + 1 BY <1>4, <3>1
    <3>2. CASE k # m + 1
      <4>1. k \in 1..m BY <1>4, <3>2
      <4> QED BY <1>4, <4>1
    <3> QED BY <3>1, <3>2
  <2> QED BY <2>1, <2>2, <2>3
<1>8. ASSUME NEW k \in DOMAIN ds, k # Len(ds) PROVE Closed(ps, g, ds[k])
  <2>1. k \in 1..m BY <1>4, <1>8
  <2> QED BY <1>4, <1>5, <1>8, <2>1 DEF Greedy
<1>9. Greedy(ps, g, ds, n + 1) BY <1>6, <1>7, <1>8 DEF Greedy
<1> QED BY <1>2, <1>9

\* What a round leaves behind.
LEMMA GreedyRound ==
  ASSUME IInv, GreedyInv, Take, ~TooBig(at)
  PROVE  Greedy(proofs, gasBudget, All', at)
<1>1. /\ phase = "loop" /\ at \in 1..Len(proofs) /\ TypeOK /\ LoopInv
      /\ UNCHANGED <<proofs, gasBudget>>
  BY DEF Take, TypeOK, IInv
<1>2. /\ batch \in SubmitBatch /\ batches \in Seq(SubmitBatch) /\ All \in Seq(SubmitBatch)
      /\ Len(All) = Len(batches) + 1 /\ All[Len(All)] = batch /\ All # <<>> /\ gasBudget \in Int
  BY <1>1, BatchingAssumption DEF TypeOK, All
<1>3. Priced(proofs) /\ Gas(at) = GasOf(proofs, at) /\ Gas(at) \in Nat
  BY <1>1, GasType, ProofsPriced DEF Gas, GasOf
<1>4. PICK first : first = Add(NewBatch, at) OBVIOUS
<1>5. PICK more : more = Add(batch, at) OBVIOUS
<1>6. /\ LastOf(first) = at /\ first.proofs[1] = at /\ Len(first.proofs) = 1
      /\ first \in SubmitBatch /\ first.estimatedGas = BASE_GAS + Gas(at)
  BY <1>1, <1>4, AddToNew
<1>7. Sized(proofs, first, at)
  <2>1. CostOf(proofs, at..at) = Gas(at) BY <1>1, <1>3, CostFacts
  <2> QED BY <1>1, <1>6, <2>1 DEF Sized
<1>8. CASE at = 1
  <2>1. batch = NewBatch /\ batches = <<>> BY <1>1, <1>8 DEF LoopInv
  <2>2. All' = Append(<<>>, first)
    <3>1. batches' = <<>> /\ batch' = first
      <4>1. ~Full(at)
        BY <2>1, <1>2, <1>3, BatchingAssumption DEF Full, TooBig, NewBatch
      <4> QED BY <1>4, <2>1, <4>1 DEF Take
    <3> QED BY <3>1 DEF All
  <2>3. Greedy(proofs, gasBudget, <<>>, 0) BY DEF Greedy
  <2>4. Greedy(proofs, gasBudget, Append(<<>>, first), 0 + 1)
    <3>1. <<>> \in Seq(SubmitBatch) /\ first.proofs[1] = 0 + 1 /\ Sized(proofs, first, 0 + 1)
      BY <1>6, <1>7, <1>8
    <3> QED BY <1>6, <2>3, <3>1, GreedyAppend
  <2> QED BY <1>8, <2>2, <2>4
<1>9. CASE at # 1
  <2>1. PICK n \in Nat : n = at - 1 BY <1>1
  <2>2. Greedy(proofs, gasBudget, All, n) /\ Cuts(All, n) /\ at = n + 1
    BY <1>1, <1>9, <2>1 DEF GreedyInv, LoopInv
  <2>3. LastOf(batch) = n /\ batch.proofs # <<>> /\ Consecutive(batch)
    BY <1>2, <2>2, CutsLast DEF All
  <2>4. CASE Full(at)
    <3>1. All' = Append(All, first)
      BY <1>1, <1>4, <2>4 DEF Take, All
    <3>2. Closed(proofs, gasBudget, All[Len(All)])
      <4>1. LastOf(batch) + 1 = at BY <2>2, <2>3
      <4> QED BY <1>2, <1>3, <2>4, <4>1 DEF Closed, Full
    <3> QED BY <1>2, <1>6, <1>7, <2>2, <3>1, <3>2, GreedyAppend
  <2>5. CASE ~Full(at)
    <3>1. All' = Append(batches, more) BY <1>1, <1>5, <2>5 DEF Take, All
    <3>2. /\ more \in SubmitBatch /\ Len(more.proofs) = Len(batch.proofs) + 1
          /\ more.estimatedGas = batch.estimatedGas + Gas(at)
      BY <1>1, <1>2, <1>5, AddType
    <3>3. LastOf(more) = at /\ more.proofs[1] = batch.proofs[1]
      BY <1>1, <1>2, <1>5, <2>2, <2>3, AddConsecutive
    <3>4. Sized(proofs, more, at)
      <4>1. Sized(proofs, batch, n)
        <5>1. Len(All) \in DOMAIN All BY <1>2
        <5> QED BY <1>2, <2>2, <5>1 DEF Greedy
      <4>2. PICK f \in 1..n : f = batch.proofs[1] BY <4>1 DEF Sized
      <4>3. /\ Len(batch.proofs) = n - f + 1 /\ n >= f
            /\ batch.estimatedGas = BASE_GAS + CostOf(proofs, f..n)
        BY <2>3, <4>1, <4>2 DEF Sized
      <4>4. f \in 1..Len(proofs) /\ f < at /\ at - 1 = n /\ at \in Nat BY <1>1, <2>1, <2>2, <4>2
      <4>5. CostOf(proofs, f..at) = CostOf(proofs, f..n) + Gas(at)
        BY <1>1, <1>3, <4>4, CostFacts
      <4>6. CostOf(proofs, f..n) \in Nat
        <5>1. f..n \in SUBSET (1..Len(proofs)) BY <1>1, <2>2, <4>2
        <5> QED BY <1>3, <5>1, CostFacts
      <4>7. Len(more.proofs) = at - f + 1
        <5>1. Len(more.proofs) = n - f + 1 + 1 BY <3>2, <4>3
        <5>2. at = n + 1 BY <2>2
        <5>3. f \in Nat OBVIOUS
        <5> QED BY <5>1, <5>2, <5>3
      <4>8. more.estimatedGas = BASE_GAS + CostOf(proofs, f..at)
        BY <1>3, <3>2, <4>3, <4>5, <4>6, BatchingAssumption
      <4>9. f \in 1..at /\ at \in f..at BY <2>2, <4>2
      <4> QED BY <3>3, <4>2, <4>7, <4>8, <4>9 DEF Sized
    <3> QED BY <1>2, <2>2, <3>1, <3>2, <3>3, <3>4, GreedyReplace DEF All
  <2> QED BY <2>4, <2>5
<1> QED BY <1>8, <1>9

LEMMA GreedyStep == ASSUME IInv, GreedyInv, [BatchNext]_batchVars PROVE GreedyInv'
<1>1. CASE CheckBudget
  BY <1>1 DEF CheckBudget, GreedyInv, IInv
<1>2. CASE Take /\ TooBig(at)
  BY <1>2 DEF Take, GreedyInv
<1>3. CASE Take /\ ~TooBig(at)
  <2>1. Greedy(proofs, gasBudget, All', at) BY <1>3, GreedyRound
  <2>2. phase' = "loop" /\ at' = at + 1 /\ at \in Nat /\ UNCHANGED <<proofs, gasBudget>>
    BY <1>3 DEF Take, NextRound, IInv, TypeOK
  <2>3. at' - 1 = at BY <2>2
  <2> QED BY <2>1, <2>2, <2>3 DEF GreedyInv
<1>4. CASE Finish
  <2>1. /\ phase = "loop" /\ phase' = "done" /\ at = Len(proofs) + 1 /\ Len(proofs) \in Nat
        /\ batches' = IF batch.proofs # <<>> THEN All ELSE batches
        /\ UNCHANGED <<proofs, gasBudget, at, batch>>
        /\ LoopInv /\ batch \in SubmitBatch /\ batches \in Seq(SubmitBatch)
    BY <1>4, BatchingAssumption DEF Finish, LastBatch, All, TypeOK, IInv
  <2>2. Greedy(proofs, gasBudget, batches', Len(proofs))
    <3>1. CASE at = 1
      <4>1. batches' = <<>> BY <3>1, <2>1 DEF LoopInv, NewBatch
      <4> QED BY <4>1 DEF Greedy
    <3>2. CASE at # 1
      <4>1. at > 1 /\ at - 1 = Len(proofs) BY <3>2, <2>1
      <4>2. Greedy(proofs, gasBudget, All, Len(proofs)) BY <4>1, <2>1 DEF GreedyInv
      <4>3. Cuts(All, Len(proofs)) BY <4>1, <2>1 DEF LoopInv
      <4>4. batch.proofs # <<>> BY <4>3, <2>1, CutsLast DEF All
      <4> QED BY <4>2, <4>4, <2>1
    <3> QED BY <3>1, <3>2
  <2> QED BY <2>1, <2>2 DEF GreedyInv
<1>5. CASE UNCHANGED batchVars
  BY <1>5 DEF GreedyInv, batchVars, All
<1> QED BY <1>1, <1>2, <1>3, <1>4, <1>5 DEF BatchNext

-----------------------------------------------------------------------------
(***************************************************************************)
(* Why greedy is enough: the first proof of a batch did not fit with the   *)
(* batch before it, so any cut into runs that fit starts a run after the   *)
(* first proof of the one and no later than the first proof of the other.  *)
(***************************************************************************)
\* Proofs between which no run starts are in one run, which fits.
LEMMA RunWith ==
  ASSUME TypeOK, NEW starts \in SUBSET (1..Len(proofs)), 1 \in starts, RunsFit(starts),
         NEW p \in 1..Len(proofs), NEW q \in p..Len(proofs),
         \A t \in starts : ~(p < t /\ t <= q)
  PROVE  \E run \in SUBSET (1..Len(proofs)) :
           /\ p..q \subseteq run
           /\ Cardinality(run) <= MAX_BATCH_PROOFS /\ BASE_GAS + CostOf(proofs, run) <= gasBudget
<1>1. PICK n \in Nat : n = Len(proofs) BY BatchingAssumption DEF TypeOK
<1>2. PICK s \in starts : s <= p /\ \A t \in starts : t <= p => t <= s
  <2> DEFINE below == {d \in Nat : \E t \in starts : t <= p /\ d = p - t}
  <2>1. PICK d \in below : \A x \in below : d <= x
    <3>1. p - 1 \in below OBVIOUS
    <3>2. below \in SUBSET Nat /\ below # {} BY <3>1
    <3> HIDE DEF below
    <3> QED BY <3>2, HasLeast
  <2>2. PICK s \in starts : s <= p /\ d = p - s OBVIOUS
  <2>3. ASSUME NEW t \in starts, t <= p PROVE t <= s
    <3>1. t \in Nat /\ s \in Nat BY <1>1
    <3>2. p - t \in below BY <2>3, <3>1
    <3>3. p - s <= p - t BY <2>1, <2>2, <3>2
    <3> QED BY <3>1, <3>3
  <2> QED BY <2>2, <2>3
<1>3. PICK run \in SUBSET (1..n) :
        run = {i \in s..Len(proofs) : \A t \in starts : ~(s < t /\ t <= i)}
  <2>1. s \in 1..n BY <1>1
  <2> DEFINE these == {i \in s..Len(proofs) : \A t \in starts : ~(s < t /\ t <= i)}
  <2>2. these \subseteq s..n BY <1>1
  <2>3. s..n \subseteq 1..n BY <2>1
  <2>4. these \in SUBSET (1..n) BY <2>2, <2>3
  <2> QED BY <2>4
<1>4. Cardinality(run) <= MAX_BATCH_PROOFS /\ BASE_GAS + CostOf(proofs, run) <= gasBudget
  <2>1. MapThenSumSet(Gas, run) = CostOf(proofs, run) BY DEF CostOf, Gas, GasOf
  <2> QED BY <1>3, <2>1 DEF RunsFit
<1>5. p..q \subseteq run
  <2> SUFFICES ASSUME NEW i \in p..q PROVE i \in run OBVIOUS
  <2>1. s \in 1..n /\ i \in s..n BY <1>1, <1>2
  <2>2. ASSUME NEW t \in starts, s < t, t <= i PROVE FALSE
    <3>1. t \in Nat /\ t <= q BY <1>1, <2>2
    <3> QED BY <1>2, <2>1, <2>2, <3>1
  <2> QED BY <1>1, <1>3, <2>1, <2>2
<1> QED BY <1>1, <1>4, <1>5

\* No cut has room for a proof that fits no batch.
LEMMA NothingFitsTooMuch ==
  ASSUME TypeOK, NEW starts \in SUBSET (1..Len(proofs)), 1 \in starts, RunsFit(starts),
         NEW i \in 1..Len(proofs), BASE_GAS + Gas(i) > gasBudget
  PROVE  FALSE
<1>1. i \in i..Len(proofs) /\ \A t \in starts : ~(i < t /\ t <= i)
  BY BatchingAssumption DEF TypeOK
<1>2. PICK run \in SUBSET (1..Len(proofs)) :
        i..i \subseteq run /\ BASE_GAS + CostOf(proofs, run) <= gasBudget
  BY <1>1, RunWith
<1>3. Priced(proofs) BY ProofsPriced
<1>4. CostOf(proofs, i..i) = GasOf(proofs, i) BY <1>3, CostFacts
<1>5. CostOf(proofs, i..i) <= CostOf(proofs, run) /\ CostOf(proofs, run) \in Nat
  <2>1. i..i \in SUBSET run /\ run \in SUBSET run BY <1>2
  <2> QED BY <1>3, <2>1, CostFacts
<1>6. GasOf(proofs, i) = Gas(i) BY DEF GasOf, Gas
<1>7. Gas(i) \in Nat /\ gasBudget \in Int BY GasType, BatchingAssumption DEF TypeOK
<1> QED BY <1>2, <1>4, <1>5, <1>6, <1>7, BatchingAssumption

LEMMA EveryBatchNeedsAStart ==
  ASSUME TypeOK, Cuts(batches, Len(proofs)), Greedy(proofs, gasBudget, batches, Len(proofs)),
         NEW starts \in SUBSET (1..Len(proofs)), 1 \in starts, RunsFit(starts),
         NEW k \in DOMAIN batches, k # 1
  PROVE  \E t \in starts : batches[k - 1].proofs[1] < t /\ t <= batches[k].proofs[1]
<1>1. PICK n \in Nat : n = Len(proofs) BY BatchingAssumption DEF TypeOK
<1>2. DOMAIN batches = 1..Len(batches) /\ Len(batches) \in Nat BY DEF TypeOK
<1>3. k - 1 \in DOMAIN batches /\ k - 1 # Len(batches) BY <1>2
<1>4. PICK b \in SubmitBatch : b = batches[k - 1] BY <1>2, <1>3 DEF TypeOK
<1>5. Sized(proofs, b, n) /\ Closed(proofs, gasBudget, b) BY <1>1, <1>3, <1>4 DEF Greedy
<1>6. PICK p \in 1..n : p = b.proofs[1] BY <1>5 DEF Sized
<1>7. PICK e \in p..n : e = LastOf(b) BY <1>5, <1>6 DEF Sized
<1>8. Len(b.proofs) = e - p + 1 /\ b.estimatedGas = BASE_GAS + CostOf(proofs, p..e)
  BY <1>5, <1>6, <1>7 DEF Sized
<1>9. PICK q \in 1..n : q = batches[k].proofs[1] BY <1>1 DEF Greedy, Sized
<1>10. q = e + 1 BY <1>4, <1>7, <1>9 DEF Cuts
<1> SUFFICES ASSUME \A t \in starts : ~(p < t /\ t <= q) PROVE FALSE BY <1>4, <1>6, <1>9
<1>11. PICK run \in SUBSET (1..n) :
         /\ p..q \subseteq run
         /\ Cardinality(run) <= MAX_BATCH_PROOFS /\ BASE_GAS + CostOf(proofs, run) <= gasBudget
  <2>1. p \in 1..Len(proofs) /\ q \in p..Len(proofs) BY <1>1, <1>10
  <2>2. \E run \in SUBSET (1..Len(proofs)) :
          /\ p..q \subseteq run
          /\ Cardinality(run) <= MAX_BATCH_PROOFS /\ BASE_GAS + CostOf(proofs, run) <= gasBudget
    BY <2>1, RunWith
  <2> QED BY <1>1, <2>2
<1>12. Priced(proofs) BY ProofsPriced
<1>13. Len(b.proofs) # MAX_BATCH_PROOFS
  <2>1. IsFiniteSet(run) /\ Cardinality(run) \in Nat
    <3>1. IsFiniteSet(1..n) BY FS_Interval
    <3> QED BY <3>1, FS_Subset, FS_CardinalityType
  <2>2. Cardinality(p..q) = q - p + 1
    <3>1. p \in Int /\ q \in Int /\ ~(p > q) BY <1>10
    <3> QED BY <3>1, FS_Interval
  <2>3. Cardinality(p..q) <= Cardinality(run) BY <1>11, <2>1, FS_Subset
  <2>4. q - p + 1 <= MAX_BATCH_PROOFS BY <1>11, <2>1, <2>2, <2>3, BatchingAssumption
  <2> QED BY <1>8, <1>10, <2>4, BatchingAssumption
<1>14. b.estimatedGas + GasOf(proofs, q) > gasBudget
  BY <1>5, <1>7, <1>10, <1>13 DEF Closed
<1>15. CostOf(proofs, p..q) = CostOf(proofs, p..e) + GasOf(proofs, q)
  <2>1. p \in 1..Len(proofs) /\ q \in 1..Len(proofs) /\ p < q /\ q - 1 = e BY <1>1, <1>10
  <2> QED BY <1>12, <2>1, CostFacts
<1>16. /\ CostOf(proofs, p..q) \in Nat /\ CostOf(proofs, p..q) <= CostOf(proofs, run)
       /\ CostOf(proofs, p..e) \in Nat /\ CostOf(proofs, run) \in Nat
  <2>1. /\ run \in SUBSET (1..Len(proofs)) /\ p..q \in SUBSET run
        /\ p..e \in SUBSET run /\ run \in SUBSET run
    BY <1>1, <1>10, <1>11
  <2> QED BY <1>12, <2>1, CostFacts
<1>17. GasOf(proofs, q) \in Nat /\ gasBudget \in Int
  BY <1>1, <1>12, BatchingAssumption DEF Priced, TypeOK
<1> QED BY <1>8, <1>11, <1>14, <1>15, <1>16, <1>17, BatchingAssumption

\* The start a batch is answered by.
Answers(bs, k, t) ==
  IF k = 1 THEN t = 1 ELSE bs[k - 1].proofs[1] < t /\ t <= bs[k].proofs[1]

LEMMA GreedyIsFewest == ASSUME IInv, GreedyInv PROVE BatchesAreFewest
<1>a. ASSUME phase = "threw", gasBudget >= MIN_BUDGET, NEW starts \in SUBSET (1..Len(proofs)),
             Len(proofs) > 0 => 1 \in starts, RunsFit(starts)
      PROVE  FALSE
  <2>1. TypeOK /\ gasBudget \in Int BY BatchingAssumption DEF IInv, TypeOK
  <2>2. PICK i \in 1..Len(proofs) : BASE_GAS + Gas(i) > gasBudget
    BY <1>a, <2>1, BatchingAssumption DEF IInv, ThrowsForACause
  <2>3. Len(proofs) > 0 BY <2>1, BatchingAssumption DEF TypeOK
  <2> QED BY <1>a, <2>1, <2>2, <2>3, NothingFitsTooMuch
<1> SUFFICES ASSUME phase = "done", NEW starts \in SUBSET (1..Len(proofs)),
                    Len(proofs) > 0 => 1 \in starts, RunsFit(starts)
             PROVE  Len(batches) <= Cardinality(starts)
  BY <1>a DEF BatchesAreFewest
<1>1. /\ TypeOK /\ Cuts(batches, Len(proofs))
      /\ Greedy(proofs, gasBudget, batches, Len(proofs))
  BY DEF IInv, ProofsAreKept, GreedyInv
<1>2. PICK m \in Nat : m = Len(batches) /\ DOMAIN batches = 1..m BY <1>1 DEF TypeOK
<1>3. IsFiniteSet(starts) /\ Cardinality(starts) \in Nat
  <2>1. Len(proofs) \in Nat BY <1>1, BatchingAssumption DEF TypeOK
  <2>2. IsFiniteSet(1..Len(proofs)) BY <2>1, FS_Interval
  <2> QED BY <2>2, FS_Subset, FS_CardinalityType
<1>4. CASE m = 0 BY <1>2, <1>3, <1>4
<1>5. CASE m # 0
  <2>0. \A t \in starts : t \in Nat
    <3>1. \A t \in 1..Len(proofs) : t \in Nat OBVIOUS
    <3> QED BY <3>1
  <2>1. \A k \in 1..m : batches[k].proofs[1] \in 1..Len(proofs)
    BY <1>1, <1>2 DEF Greedy, Sized
  <2>2. 1 \in starts
    <3>1. batches[1].proofs[1] \in 1..Len(proofs) BY <1>5, <2>1
    <3>2. Len(proofs) \in Nat BY <1>1, BatchingAssumption DEF TypeOK
    <3> QED BY <3>1, <3>2
  <2>3. \A k \in 1..m : \E t \in starts : Answers(batches, k, t)
    BY <1>1, <1>2, <2>2, EveryBatchNeedsAStart DEF Answers
  <2>4. PICK f : f = [k \in 1..m |-> CHOOSE t \in starts : Answers(batches, k, t)] OBVIOUS
  <2>5. \A k \in 1..m : f[k] \in starts /\ Answers(batches, k, f[k]) BY <2>3, <2>4
  <2>6. batches[1].proofs[1] = 1 BY <1>2, <1>5, <1>1 DEF Cuts
  <2>7. ASSUME NEW j \in 1..m, NEW k \in 1..m, j < k PROVE f[j] < f[k]
    <3>1. f[j] \in Nat /\ f[k] \in Nat BY <2>0, <2>5
    <3>2. PICK x \in Nat : x = batches[j].proofs[1] BY <2>1
    <3>3. PICK y \in Nat : y = batches[k - 1].proofs[1]
      <4>1. k - 1 \in 1..m BY <2>7
      <4> QED BY <2>1, <4>1
    <3>4. f[j] <= x BY <2>5, <2>6, <3>1, <3>2 DEF Answers
    <3>5. y < f[k]
      <4>1. k # 1 BY <2>7
      <4> QED BY <2>5, <3>3, <4>1 DEF Answers
    <3>6. x <= y
      <4>1. CASE j = k - 1 BY <3>2, <3>3, <4>1
      <4>2. CASE j # k - 1
        <5>1. k - 1 \in 1..m /\ j < k - 1 BY <2>7, <4>2
        <5>2. LastOf(batches[j]) < y BY <1>1, <1>2, <3>3, <5>1 DEF Greedy
        <5>3. LastOf(batches[j]) \in x..Len(proofs) BY <1>1, <1>2, <3>2 DEF Greedy, Sized
        <5> QED BY <5>2, <5>3
      <4> QED BY <4>1, <4>2
    <3> QED BY <3>1, <3>4, <3>5, <3>6
  <2>8. f \in Injection(1..m, starts)
    <3>1. f \in [1..m -> starts] BY <2>4, <2>5
    <3>2. ASSUME NEW j \in 1..m, NEW k \in 1..m, f[j] = f[k] PROVE j = k
      <4>1. f[j] \in Nat /\ f[k] \in Nat BY <2>0, <2>5
      <4>2. ~(j < k) /\ ~(k < j) BY <2>7, <3>2, <4>1
      <4> QED BY <4>2
    <3> QED BY <3>1, <3>2 DEF Injection, IsInjective
  <2>9. Cardinality(1..m) <= Cardinality(starts) BY <1>3, <2>8, FS_Injection
  <2>10. Cardinality(1..m) = m
    <3>1. 1 \in Int /\ m \in Int /\ ~(1 > m) /\ m - 1 + 1 = m BY <1>5
    <3> QED BY <3>1, FS_Interval
  <2> QED BY <1>2, <2>9, <2>10
<1> QED BY <1>4, <1>5

\* No other way to cut the list in order into batches that fit needs fewer transactions, and
\* where there is one, no error is thrown: taking each proof while it fits is the best one
\* can do (batchActivityProofs).
THEOREM NoPlanIsShorter == BatchSpec => []BatchesAreFewest
<1>1. BatchInit => GreedyInv BY DEF BatchInit, GreedyInv
<1>2. IInv /\ GreedyInv /\ [BatchNext]_batchVars => GreedyInv' BY GreedyStep
<1>3. IInv /\ GreedyInv => BatchesAreFewest BY GreedyIsFewest
<1> QED BY <1>1, <1>2, <1>3, AlwaysIInv, PTL DEF BatchSpec

=============================================================================
