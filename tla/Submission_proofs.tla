-------------------------- MODULE Submission_proofs --------------------------
(***************************************************************************)
(* Proofs about Submission: for any number of commands of one key, every   *)
(* set of plans, flags and estimates, and a chain that includes, forgets   *)
(* and reorganises as it likes.                                            *)
(*                                                                         *)
(* The invariant follows what a command signs: nothing before the last     *)
(* check, then one transaction within the limits, and what the nodes ever  *)
(* see of a command is what it has signed.                                 *)
(***************************************************************************)
EXTENDS Submission, FiniteSetTheorems, WellFoundedInduction, TLAPS

Before == {"resolve", "entitled", "simulate", "estimate", "nonce"}

\* The transactions a command can sign.
Own == [command : Command, from : {User}, to : {NoFlag, Adapter, Controller},
        gas : Nat, nonce : 0..MaxNonce]

Receipt == [tx : Own \cup Foreign, transactionHash : {NoFlag} \cup Own \cup Foreign,
            to : {NoFlag, Adapter, Controller, Stranger}]

Report == [asked : SUBSET (Own \cup Foreign), state : {"none", "broadcast", "confirmed"},
           receipt : SUBSET Receipt]

\* The type invariant: the nodes hold what some command signed, or somebody else did.
TypeOK ==
  /\ args \in [Command -> Args]
  /\ phase \in [Command -> Before \cup {"send", "broadcast", "threw"}]
  /\ to \in [Command -> {NoFlag, Adapter, Controller}]
  /\ gas \in [Command -> Nat]
  /\ signed \in [Command -> SUBSET Own]
  /\ tries \in [Command -> 0..Endpoints]
  /\ pool \subseteq Own \cup Foreign
  /\ mined \subseteq Own \cup Foreign /\ seen \subseteq Own \cup Foreign
  /\ IsFiniteSet(pool) /\ IsFiniteSet(mined)
  /\ report \in Report

\* What the first checks of a command establish ...
Permitted(c) ==
  /\ args[c].configured \in {NoFlag, Adapter}
  /\ args[c].kind = "submit" => args[c].plan.sound

\* ... and the last ones, for the gas g.
Affordable(c, g) ==
  /\ g <= Bound(c)
  /\ SpendCap # NoFlag => g * GasPrice <= SpendCap

Checked(c, where) ==
  /\ where \notin {"resolve", "threw"} => Permitted(c) /\ to[c] = Destination(c)
  /\ where \notin {"resolve", "entitled", "threw"} /\ args[c].kind = "claim" => args[c].credits
  /\ where \in {"nonce", "send", "broadcast"} => Affordable(c, gas[c])

\* The transaction a command has signed, if any, passed every check.
Sound(c, t) ==
  /\ t.command = c /\ t.to = Destination(c)
  /\ Permitted(c) /\ Affordable(c, t.gas)
  /\ args[c].kind = "claim" => args[c].credits

SignsOnce ==
  \A c \in Command :
    /\ Checked(c, phase[c])
    /\ phase[c] \in Before => signed[c] = {}
    /\ \A t, u \in signed[c] : t = u
    /\ \A t \in signed[c] : Sound(c, t)

\* The nodes have seen only what is signed, and what they hold they have seen.
SeenIsSigned ==
  /\ pool \subseteq seen /\ mined \subseteq seen
  /\ \A t \in seen : t \in Foreign \/ (t.command \in Command /\ t \in signed[t.command])
  /\ \A c \in Command : phase[c] = "broadcast" => \E t \in signed[c] : t \in seen

\* What a receipt says is compared with what was asked, and it is of a transaction once mined.
ReportInv ==
  report.state = "confirmed" =>
    \A r \in report.receipt :
      /\ r.tx \in seen
      /\ r.transactionHash # NoFlag => report.asked = {r.tx}
      /\ r.to # NoFlag => r.tx.to = Adapter

IInv == TypeOK /\ SignsOnce /\ SeenIsSigned /\ ReportInv

-----------------------------------------------------------------------------
LEMMA ArgsFacts ==
  ASSUME NEW a \in Args
  PROVE  /\ a.kind \in {"submit", "claim"}
         /\ a.kind = "submit" => /\ a.plan.estimatedGas \in Nat /\ a.plan.sound \in BOOLEAN
                                 /\ a.gasLimit = NoFlag \/ a.gasLimit \in Nat
         /\ a.kind = "claim" => a.credits \in BOOLEAN
<1>1. CASE a \in [kind : {"submit"}, plan : Plan, gasLimit : GasLimit,
                  configured : {NoFlag, Adapter, Stranger}]
  <2>1. a.kind = "submit" /\ a.plan \in Plan /\ a.gasLimit \in GasLimit BY <1>1
  <2>2. a.plan \in PlanType BY <2>1, SubmissionAssumption
  <2> QED BY <2>1, <2>2, SubmissionAssumption DEF PlanType
<1>2. CASE a \in [kind : {"claim"}, credits : BOOLEAN, configured : {NoFlag, Adapter, Stranger}]
  BY <1>2
<1> QED BY <1>1, <1>2 DEF Args

LEMMA ForeignFacts ==
  /\ IsFiniteSet(Foreign) /\ Foreign \cap Own = {}
  /\ \A t \in Foreign : t.command = NoFlag
<1>1. \A t \in Foreign : t.command = NoFlag /\ NoFlag \notin Command
  BY SubmissionAssumption DEF Foreign
<1>2. Foreign \cap Own = {} BY <1>1 DEF Own
<1>3. IsFiniteSet(Foreign)
  <2> DEFINE a == [command |-> NoFlag, from |-> Other, to |-> Stranger, gas |-> 0, nonce |-> 0]
             b == [command |-> NoFlag, from |-> Other, to |-> NoFlag, gas |-> 0, nonce |-> 0]
  <2>1. Foreign = {a, b}
    <3>1. a \in Foreign /\ b \in Foreign BY DEF Foreign
    <3>2. ASSUME NEW t \in Foreign PROVE t = a \/ t = b
      <4>1. t = [command |-> t.command, from |-> t.from, to |-> t.to, gas |-> t.gas, nonce |-> t.nonce]
        BY DEF Foreign
      <4>2. /\ t.command = NoFlag /\ t.from = Other /\ t.to \in {Stranger, NoFlag}
            /\ t.gas = 0 /\ t.nonce = 0
        BY DEF Foreign
      <4> QED BY <4>1, <4>2
    <3> HIDE DEF a, b
    <3> QED BY <3>1, <3>2
  <2>2. IsFiniteSet({a} \cup {b}) BY FS_Singleton, FS_Union
  <2> QED BY <2>1, <2>2
<1> QED BY <1>1, <1>2, <1>3

\* The least number principle, as a fact about sets.
LEMMA HasLeast ==
  ASSUME NEW S \in SUBSET Nat, S # {}
  PROVE  \E m \in S : \A k \in S : m <= k
<1> DEFINE R == {ss \in Nat \X Nat : ss[1] < ss[2]}
<1>1. IsWellFoundedOn(R, Nat) BY NatLessThanWellFounded DEF OpToRel
<1>2. PICK x \in S : \A y \in S : ~(<<y, x>> \in R)
  <2> HIDE DEF R
  <2> QED BY <1>1, WFMin
<1>3. \A y \in S : ~(y < x) BY <1>2
<1> QED BY <1>3

\* There is always a next nonce: fewer nonces are used than there are numbers up to their
\* count, so the nonces a node may report are well defined.
LEMMA PendingIsNat ==
  ASSUME TypeOK
  PROVE  Pending \subseteq Nat
<1> DEFINE used == {t \in pool \cup mined : t.from = User}
           n == Cardinality(Nonces)
           unused == {k \in 0..n : k \notin Nonces}
<1>1. IsFiniteSet(used)
  <2>1. IsFiniteSet(pool \cup mined) BY FS_Union DEF TypeOK
  <2> QED BY <2>1, FS_Subset
<1>2. IsFiniteSet(Nonces)
  <2> DEFINE f == [t \in used |-> t.nonce]
  <2>1. Nonces = {t.nonce : t \in used} BY DEF Nonces
  <2>2. f \in Surjection(used, Nonces)
    <3> HIDE DEF used
    <3> QED BY <2>1 DEF Surjection
  <2> HIDE DEF used, f
  <2> QED BY <1>1, <2>2, FS_Surjection
<1>3. n \in Nat BY <1>2, FS_CardinalityType
<1>4. unused # {}
  <2> SUFFICES ASSUME unused = {} PROVE FALSE OBVIOUS
  <2>1. 0..n \subseteq Nonces OBVIOUS
  <2>2. Cardinality(0..n) <= n BY <1>2, <2>1, FS_Subset
  <2>3. Cardinality(0..n) = n + 1 BY <1>3, FS_Interval
  <2> HIDE DEF n
  <2> QED BY <1>3, <2>2, <2>3
<1>5. Min(unused) \in unused
  <2>1. unused \in SUBSET Nat BY <1>3
  <2> HIDE DEF unused
  <2>2. PICK m \in unused : \A k \in unused : m <= k BY <1>4, <2>1, HasLeast
  <2> QED BY <2>2 DEF Min
<1> QED BY <1>3, <1>5 DEF Pending

-----------------------------------------------------------------------------
LEMMA InitIInv == Init => IInv
<1> SUFFICES ASSUME Init PROVE IInv OBVIOUS
<1>1. TypeOK
  <2>1. NoReport \in Report BY DEF NoReport, Report
  <2>2. IsFiniteSet({}) BY FS_EmptySet
  <2> QED BY <2>1, <2>2, ForeignFacts, SubmissionAssumption DEF Init, TypeOK, Before
<1>2. SignsOnce BY DEF Init, SignsOnce, Checked, Before
<1>3. SeenIsSigned BY DEF Init, SeenIsSigned
<1>4. ReportInv BY DEF Init, NoReport, ReportInv
<1> QED BY <1>1, <1>2, <1>3, <1>4 DEF IInv

\* Steps before the signature: only the command's own checks have to be established.
LEMMA CheckStep ==
  ASSUME IInv, NEW c \in Command, phase[c] \in Before,
         NEW where \in Before \cup {"threw"}, phase' = [phase EXCEPT ![c] = where],
         to' \in [Command -> {NoFlag, Adapter, Controller}], gas' \in [Command -> Nat],
         \A q \in Command \ {c} : to'[q] = to[q] /\ gas'[q] = gas[q],
         UNCHANGED <<args, signed, tries, network, report>>,
         Checked(c, where)'
  PROVE  IInv'
<1> USE DEF IInv
<1>1. UNCHANGED <<args, signed, tries, pool, mined, seen, report>> BY DEF network
<1>2. /\ phase \in [Command -> Before \cup {"send", "broadcast", "threw"}]
      /\ phase'[c] = where /\ \A q \in Command \ {c} : phase'[q] = phase[q]
  BY DEF TypeOK
<1>3. TypeOK' BY <1>1, <1>2 DEF TypeOK
<1>4. SignsOnce'
  <2> SUFFICES ASSUME NEW q \in Command
               PROVE  /\ Checked(q, phase[q])'
                      /\ phase'[q] \in Before => signed'[q] = {}
                      /\ \A t, u \in signed'[q] : t = u
                      /\ \A t \in signed'[q] : Sound(q, t)'
    BY DEF SignsOnce
  <2>1. CASE q = c BY <2>1, <1>1, <1>2 DEF SignsOnce
  <2>2. CASE q # c
    <3>1. Checked(q, phase[q]) /\ UNCHANGED <<args[q], to[q], gas[q], phase[q]>>
      BY <2>2, <1>1, <1>2 DEF SignsOnce
    <3>2. Checked(q, phase[q])'
      BY <3>1 DEF Checked, Permitted, Affordable, Bound, Destination
    <3> QED BY <3>1, <3>2, <1>1 DEF SignsOnce, Sound, Permitted, Affordable, Bound, Destination
  <2> QED BY <2>1, <2>2
<1>5. SeenIsSigned' BY <1>1, <1>2 DEF SeenIsSigned, Before
<1>6. ReportInv' BY <1>1 DEF ReportInv
<1> QED BY <1>3, <1>4, <1>5, <1>6

LEMMA ThrowStep ==
  ASSUME IInv, NEW c \in Command, phase[c] \in Before, Throw(c), UNCHANGED <<args, network, report>>
  PROVE  IInv'
<1>1. Checked(c, "threw")' BY DEF Checked
<1>2. /\ phase' = [phase EXCEPT ![c] = "threw"]
      /\ UNCHANGED <<to, gas, signed, tries>>
  BY DEF Throw, Goto
<1> QED BY <1>1, <1>2, CheckStep DEF IInv, TypeOK

\* What a command has checked so far it keeps while its destination and gas stand.
LEMMA CheckedOn ==
  ASSUME NEW c \in Command, NEW where, Checked(c, where), UNCHANGED <<args, to[c], gas[c]>>
  PROVE  Checked(c, where)'
BY DEF Checked, Permitted, Affordable, Bound, Destination

LEMMA ResolveStep ==
  ASSUME IInv, NEW c \in Command, Resolve(c), UNCHANGED <<args, report>>
  PROVE  IInv'
<1> USE DEF IInv
<1>1. phase[c] = "resolve" /\ UNCHANGED network BY DEF Resolve
<1>2. args[c] \in Args BY DEF TypeOK
<1>3. CASE Throw(c) BY <1>1, <1>3, ThrowStep DEF Before
<1>4. CASE ~Throw(c)
  <2>0. PICK where \in {"simulate", "entitled"} :
          where = IF args[c].kind = "submit" THEN "simulate" ELSE "entitled"
    OBVIOUS
  <2>1. /\ args[c].configured \in {NoFlag, Adapter}
        /\ args[c].kind = "submit" => args[c].plan.sound
        /\ to' = [to EXCEPT ![c] = Destination(c)]
        /\ phase' = [phase EXCEPT ![c] = where]
        /\ UNCHANGED <<gas, signed, tries>>
    BY <1>4, <1>2, <2>0, ArgsFacts DEF Resolve, Goto
  <2>2. to' \in [Command -> {NoFlag, Adapter, Controller}] /\ gas' \in [Command -> Nat]
    BY <2>1 DEF TypeOK, Destination
  <2>3. to'[c] = Destination(c) /\ \A q \in Command \ {c} : to'[q] = to[q] /\ gas'[q] = gas[q]
    BY <2>1 DEF TypeOK
  <2>4. Checked(c, where)' BY <2>0, <2>1, <2>3 DEF Checked, Permitted, Destination
  <2>5. where \in Before \cup {"threw"} /\ phase[c] \in Before BY <1>1 DEF Before
  <2> QED BY <1>1, <2>1, <2>2, <2>3, <2>4, <2>5, CheckStep
<1> QED BY <1>3, <1>4

LEMMA EntitledStep ==
  ASSUME IInv, NEW c \in Command, Entitled(c), UNCHANGED <<args, report>>
  PROVE  IInv'
<1> USE DEF IInv
<1>1. phase[c] = "entitled" /\ UNCHANGED network /\ phase[c] \in Before BY DEF Entitled, Before
<1>2. CASE args[c].credits
  <2>1. /\ phase' = [phase EXCEPT ![c] = "simulate"]
        /\ UNCHANGED <<to, gas, signed, tries>>
    BY <1>2 DEF Entitled, Goto
  <2>2. Checked(c, phase[c]) BY DEF SignsOnce
  <2>3. Checked(c, "simulate")'
    BY <1>1, <1>2, <2>1, <2>2 DEF Checked, Permitted, Destination
  <2> QED BY <1>1, <2>1, <2>3, CheckStep DEF TypeOK, Before
<1>3. CASE ~args[c].credits
  <2>1. Throw(c) BY <1>3 DEF Entitled
  <2> QED BY <1>1, <2>1, ThrowStep
<1> QED BY <1>2, <1>3

LEMMA SimulateStep ==
  ASSUME IInv, NEW c \in Command, Simulate(c), UNCHANGED <<args, report>>
  PROVE  IInv'
<1> USE DEF IInv
<1>1. /\ phase[c] = "simulate" /\ UNCHANGED network /\ phase[c] \in Before
      /\ phase' = [phase EXCEPT ![c] = "estimate"]
      /\ UNCHANGED <<to, gas, signed, tries>>
  BY DEF Simulate, Before, Goto
<1>2. Checked(c, phase[c]) BY DEF SignsOnce
<1>3. Checked(c, "estimate")' BY <1>1, <1>2 DEF Checked, Permitted, Destination
<1> QED BY <1>1, <1>3, CheckStep DEF TypeOK, Before

\* What passes the checks on the gas is within the limits.
LEMMA NotRefused ==
  ASSUME TypeOK, NEW c \in Command, NEW estimate \in Estimate, ~Refused(c, estimate)
  PROVE  Gas(c, estimate) \in Nat /\ Affordable(c, Gas(c, estimate))
<1> DEFINE g == Gas(c, estimate)
           fee == g * GasPrice
<1>1. args[c] \in Args /\ estimate \in Nat BY SubmissionAssumption DEF TypeOK
<1>2. g \in Nat
  <2>1. Headroom(estimate) \in Nat BY <1>1 DEF Headroom
  <2> QED BY <1>1, <2>1, ArgsFacts DEF Gas
<1>3. Bound(c) \in Nat BY <1>1, ArgsFacts, SubmissionAssumption DEF Bound
<1>4. ~(g > Bound(c)) /\ ~(SpendCap # NoFlag /\ fee > SpendCap) BY DEF Refused
<1> HIDE DEF g
<1>5. fee \in Nat BY <1>2, SubmissionAssumption
<1>6. g <= Bound(c) BY <1>2, <1>3, <1>4
<1>7. SpendCap # NoFlag => fee <= SpendCap
  <2> HIDE DEF fee
  <2> QED BY <1>4, <1>5, SubmissionAssumption
<1>8. Affordable(c, g) BY <1>6, <1>7 DEF Affordable
<1> QED BY <1>2, <1>8 DEF g

LEMMA EstimateStep ==
  ASSUME IInv, NEW c \in Command, EstimateGas(c), UNCHANGED <<args, report>>
  PROVE  IInv'
<1> USE DEF IInv
<1>1. phase[c] = "estimate" /\ UNCHANGED network /\ phase[c] \in Before BY DEF EstimateGas, Before
<1>2. PICK estimate \in Estimate :
        IF Refused(c, estimate) THEN Throw(c)
        ELSE /\ gas' = [gas EXCEPT ![c] = Gas(c, estimate)]
             /\ phase' = [phase EXCEPT ![c] = "nonce"]
             /\ UNCHANGED <<to, signed, tries>>
  BY DEF EstimateGas, Goto
<1>3. CASE Refused(c, estimate) BY <1>1, <1>2, <1>3, ThrowStep
<1>4. CASE ~Refused(c, estimate)
  <2> DEFINE g == Gas(c, estimate)
  <2>1. g \in Nat /\ Affordable(c, g) BY <1>4, NotRefused
  <2> HIDE DEF g
  <2>2. /\ gas' = [gas EXCEPT ![c] = g] /\ phase' = [phase EXCEPT ![c] = "nonce"]
        /\ UNCHANGED <<to, signed, tries>>
    BY <1>2, <1>4 DEF g
  <2>3. /\ gas' \in [Command -> Nat] /\ gas'[c] = g
        /\ \A q \in Command \ {c} : gas'[q] = gas[q]
    BY <2>1, <2>2 DEF TypeOK
  <2>4. Checked(c, phase[c]) BY DEF SignsOnce
  <2>5. Affordable(c, gas[c])' BY <2>1, <2>3 DEF Affordable, Bound
  <2>6. Checked(c, "nonce")'
    BY <1>1, <2>2, <2>4, <2>5 DEF Checked, Permitted, Destination
  <2> QED BY <1>1, <2>2, <2>3, <2>6, CheckStep DEF TypeOK, Before
<1> QED BY <1>3, <1>4

-----------------------------------------------------------------------------
\* The one step that signs: what it signs has passed every check.
LEMMA SignStep ==
  ASSUME IInv, NEW c \in Command, Sign(c), UNCHANGED <<args, report>>
  PROVE  IInv'
<1> USE DEF IInv
<1>1. /\ phase[c] = "nonce" /\ phase' = [phase EXCEPT ![c] = "send"]
      /\ UNCHANGED <<to, gas, tries, pool, mined, seen>>
  BY DEF Sign, Goto, network
<1>2. PICK nonce \in Pending : /\ nonce <= MaxNonce
                              /\ signed' = [signed EXCEPT ![c] = @ \cup {Tx(c, nonce)}]
  BY DEF Sign
<1>0. PICK t : t = Tx(c, nonce) OBVIOUS
<1>3. nonce \in 0..MaxNonce BY <1>2, PendingIsNat, SubmissionAssumption
<1>4. t \in Own
  <2>1. to[c] \in {NoFlag, Adapter, Controller} /\ gas[c] \in Nat BY DEF TypeOK
  <2> QED BY <1>0, <1>3, <2>1 DEF Own, Tx
<1>5. signed[c] = {} /\ Checked(c, "nonce") BY <1>1 DEF SignsOnce, Before
<1>6. /\ signed'[c] = {t} /\ \A q \in Command \ {c} : signed'[q] = signed[q]
      /\ signed' \in [Command -> SUBSET Own]
  BY <1>0, <1>2, <1>4, <1>5 DEF TypeOK
<1>7. phase'[c] = "send" /\ \A q \in Command \ {c} : phase'[q] = phase[q]
  BY <1>1 DEF TypeOK
<1>8. TypeOK' BY <1>1, <1>6 DEF TypeOK
<1>9. SignsOnce'
  <2>1. Sound(c, t)
    <3>1. t.command = c /\ t.to = to[c] /\ t.gas = gas[c] BY <1>0 DEF Tx
    <3> QED BY <3>1, <1>5 DEF Checked, Sound
  <2>2. ASSUME NEW q \in Command, NEW u, Sound(q, u) PROVE Sound(q, u)'
    BY <2>2 DEF Sound, Permitted, Affordable, Bound, Destination
  <2>3. ASSUME NEW q \in Command PROVE Checked(q, phase[q])'
    <3>1. Checked(q, phase[q]) /\ UNCHANGED <<args, to[q], gas[q]>> BY <1>1 DEF SignsOnce
    <3>2. CASE q # c
      <4>1. phase'[q] = phase[q] BY <3>2, <1>7
      <4> QED BY <3>1, <4>1 DEF Checked, Permitted, Affordable, Bound, Destination
    <3>3. CASE q = c
      BY <3>1, <3>3, <1>5, <1>7 DEF Checked, Permitted, Affordable, Bound, Destination
    <3> QED BY <3>2, <3>3
  <2>4. ASSUME NEW q \in Command
        PROVE  /\ phase'[q] \in Before => signed'[q] = {}
               /\ \A x, y \in signed'[q] : x = y
               /\ \A x \in signed'[q] : Sound(q, x)'
    <3>1. CASE q = c BY <3>1, <2>1, <2>2, <1>6, <1>7 DEF Before
    <3>2. CASE q # c BY <3>2, <2>2, <1>6, <1>7 DEF SignsOnce
    <3> QED BY <3>1, <3>2
  <2> QED BY <2>3, <2>4 DEF SignsOnce
<1>10. SeenIsSigned'
  <2>1. \A q \in Command : signed[q] \subseteq signed'[q] BY <1>5, <1>6
  <2>2. \A q \in Command : phase'[q] = "broadcast" => phase[q] = "broadcast" BY <1>7
  <2> QED BY <1>1, <2>1, <2>2 DEF SeenIsSigned
<1>11. ReportInv' BY <1>1 DEF ReportInv
<1> QED BY <1>8, <1>9, <1>10, <1>11

\* One attempt to send: a hash is only taken from a node that has accepted these bytes.
LEMMA SendStep ==
  ASSUME IInv, NEW c \in Command, Send(c), UNCHANGED <<args, report>>
  PROVE  IInv'
<1> USE DEF IInv
<1>1. /\ phase[c] = "send" /\ tries[c] < Endpoints
      /\ UNCHANGED <<to, gas, signed, mined>>
  BY DEF Send
<1>2. PICK t \in signed[c], accepted \in BOOLEAN :
        /\ pool' = IF accepted THEN pool \cup {t} ELSE pool
        /\ seen' = IF accepted THEN seen \cup {t} ELSE seen
        /\ tries' = [tries EXCEPT ![c] = @ + 1]
        /\ \/ \E answer \in (IF accepted THEN {t} ELSE {}) \cup Foreign :
                phase' = [phase EXCEPT ![c] = IF HashMatches(answer, t) THEN "broadcast" ELSE "threw"]
           \/ phase' = [phase EXCEPT ![c] = "threw"]
           \/ phase' = phase
  BY DEF Send, Goto, Retry
<1>3. t \in Own /\ t \notin Foreign /\ t.command = c
  <2>1. t \in Own BY <1>2 DEF TypeOK
  <2>2. t.command = c BY <1>2 DEF SignsOnce, Sound
  <2> QED BY <2>1, <2>2, ForeignFacts
<1>4. /\ phase'[c] \in {"send", "broadcast", "threw"}
      /\ phase'[c] = "broadcast" => accepted
      /\ \A q \in Command \ {c} : phase'[q] = phase[q]
      /\ phase' \in [Command -> Before \cup {"send", "broadcast", "threw"}]
  BY <1>1, <1>2, <1>3 DEF TypeOK, HashMatches
<1>5. TypeOK'
  <2>1. tries' \in [Command -> 0..Endpoints]
    <3>1. tries \in [Command -> 0..Endpoints] BY DEF TypeOK
    <3>2. tries[c] + 1 \in 0..Endpoints BY <3>1, <1>1, SubmissionAssumption
    <3> QED BY <3>1, <3>2, <1>2
  <2>2. IsFiniteSet(pool') BY <1>2, FS_AddElement DEF TypeOK
  <2>3. pool' \subseteq Own \cup Foreign /\ seen' \subseteq Own \cup Foreign BY <1>2, <1>3 DEF TypeOK
  <2> QED BY <1>1, <1>4, <2>1, <2>2, <2>3 DEF TypeOK
<1>6. SignsOnce'
  <2>1. ASSUME NEW q \in Command PROVE Checked(q, phase[q])'
    <3>1. Checked(q, phase[q]) /\ UNCHANGED <<args, to[q], gas[q]>> BY <1>1 DEF SignsOnce
    <3>2. CASE q # c
      <4>1. phase'[q] = phase[q] BY <3>2, <1>4
      <4> QED BY <3>1, <4>1 DEF Checked, Permitted, Affordable, Bound, Destination
    <3>3. CASE q = c
      BY <3>1, <3>3, <1>1, <1>4 DEF Checked, Permitted, Affordable, Bound, Destination
    <3> QED BY <3>2, <3>3
  <2>2. ASSUME NEW q \in Command, NEW u, Sound(q, u) PROVE Sound(q, u)'
    BY <2>2 DEF Sound, Permitted, Affordable, Bound, Destination
  <2>3. \A q \in Command : phase'[q] \in Before => signed[q] = {}
    BY <1>1, <1>4 DEF SignsOnce, Before
  <2> QED BY <1>1, <2>1, <2>2, <2>3 DEF SignsOnce
<1>7. SeenIsSigned'
  <2>1. pool' \subseteq seen' /\ mined' \subseteq seen' BY <1>1, <1>2 DEF SeenIsSigned
  <2>2. \A u \in seen' : u \in Foreign \/ (u.command \in Command /\ u \in signed'[u.command])
    BY <1>1, <1>2, <1>3 DEF SeenIsSigned
  <2>3. \A q \in Command : phase'[q] = "broadcast" => \E u \in signed'[q] : u \in seen'
    <3> SUFFICES ASSUME NEW q \in Command, phase'[q] = "broadcast"
                 PROVE  \E u \in signed'[q] : u \in seen'
      OBVIOUS
    <3>1. CASE q = c BY <3>1, <1>1, <1>2, <1>4
    <3>2. CASE q # c BY <3>2, <1>1, <1>2, <1>4 DEF SeenIsSigned
    <3> QED BY <3>1, <3>2
  <2> QED BY <2>1, <2>2, <2>3 DEF SeenIsSigned
<1>8. ReportInv' BY <1>2 DEF ReportInv
<1> QED BY <1>5, <1>6, <1>7, <1>8

\* The chain moves transactions that were seen, and no command takes part.
LEMMA ChainStep ==
  ASSUME IInv, NEW t \in seen, Mine(t) \/ Reorg(t), UNCHANGED <<args, cli, report>>
  PROVE  IInv'
<1> USE DEF IInv
<1>1. UNCHANGED <<phase, to, gas, signed, tries, seen>> BY DEF cli, Mine, Reorg
<1>2. /\ pool' \subseteq seen /\ mined' \subseteq seen
      /\ IsFiniteSet(pool') /\ IsFiniteSet(mined')
  <2>1. CASE Mine(t)
    BY <2>1, FS_AddElement, FS_RemoveElement DEF Mine, TypeOK, SeenIsSigned
  <2>2. CASE Reorg(t)
    BY <2>2, FS_AddElement, FS_RemoveElement DEF Reorg, TypeOK, SeenIsSigned
  <2> QED BY <2>1, <2>2
<1>3. TypeOK' BY <1>1, <1>2 DEF TypeOK
<1>4. SignsOnce'
  BY <1>1 DEF SignsOnce, Checked, Sound, Permitted, Affordable, Bound, Destination
<1>5. SeenIsSigned' BY <1>1, <1>2 DEF SeenIsSigned
<1>6. ReportInv' BY <1>1 DEF ReportInv
<1> QED BY <1>3, <1>4, <1>5, <1>6

LEMMA ConfirmStep ==
  ASSUME IInv, NEW asked \in Known, Confirm(asked), UNCHANGED <<args, cli, network>>
  PROVE  IInv'
<1> USE DEF IInv
<1>1. UNCHANGED <<phase, to, gas, signed, tries, pool, mined, seen>> BY DEF cli, network
<1>2. asked \in Own \cup Foreign BY DEF Known, TypeOK
<1>3. report' \in Report /\ ReportInv'
  <2>1. CASE report' = [asked |-> {asked}, state |-> "broadcast", receipt |-> {}]
    BY <1>2, <2>1 DEF Report, ReportInv
  <2>2. ASSUME NEW m \in mined, NEW receipt \in ReceiptsOf(m),
               ~ReceiptError(receipt, asked),
               report' = [asked |-> {asked}, state |-> "confirmed", receipt |-> {receipt}]
        PROVE  report' \in Report /\ ReportInv'
    <3>1. m \in Own \cup Foreign /\ m \in seen BY DEF TypeOK, SeenIsSigned
    <3>2. m.to \in {NoFlag, Adapter, Controller, Stranger} BY <3>1 DEF Own, Foreign
    <3>3. /\ receipt.tx = m /\ receipt.transactionHash \in {NoFlag, m}
          /\ receipt.to \in {NoFlag, m.to} /\ receipt \in Receipt
      BY <3>1, <3>2 DEF ReceiptsOf, Receipt
    <3>4. receipt.transactionHash \in {NoFlag, asked} /\ receipt.to \in {NoFlag, Adapter}
      BY <2>2 DEF ReceiptError
    <3>5. report' \in Report BY <1>2, <2>2, <3>3 DEF Report
    <3>6. ReportInv' BY <1>1, <2>2, <3>1, <3>3, <3>4 DEF ReportInv
    <3> QED BY <3>5, <3>6
  <2> QED BY <2>1, <2>2 DEF Confirm
<1>4. TypeOK' BY <1>1, <1>3 DEF TypeOK
<1>5. SignsOnce'
  BY <1>1 DEF SignsOnce, Checked, Sound, Permitted, Affordable, Bound, Destination
<1>6. SeenIsSigned' BY <1>1 DEF SeenIsSigned
<1> QED BY <1>3, <1>4, <1>5, <1>6

LEMMA IInvStep == IInv /\ [Next]_vars => IInv'
<1> SUFFICES ASSUME IInv, [Next]_vars PROVE IInv' OBVIOUS
<1>1. CASE UNCHANGED vars
  BY <1>1 DEF IInv, TypeOK, SignsOnce, Checked, Sound, Permitted, Affordable, Bound, Destination,
              SeenIsSigned, ReportInv, vars, cli, network
<1>2. ASSUME NEW c \in Command, Step(c), UNCHANGED <<args, report>>
      PROVE  IInv'
  <2>1. CASE Resolve(c) BY <2>1, <1>2, ResolveStep
  <2>2. CASE Entitled(c) BY <2>2, <1>2, EntitledStep
  <2>3. CASE Simulate(c) BY <2>3, <1>2, SimulateStep
  <2>4. CASE EstimateGas(c) BY <2>4, <1>2, EstimateStep
  <2>5. CASE Sign(c) BY <2>5, <1>2, SignStep
  <2>6. CASE Send(c) BY <2>6, <1>2, SendStep
  <2>7. CASE RpcFails(c) BY <2>7, <1>2, ThrowStep DEF RpcFails, Before
  <2> QED BY <1>2, <2>1, <2>2, <2>3, <2>4, <2>5, <2>6, <2>7 DEF Step
<1>3. ASSUME NEW t \in seen, Mine(t) \/ Reorg(t), UNCHANGED <<args, cli, report>>
      PROVE  IInv'
  BY <1>3, ChainStep
<1>4. ASSUME NEW asked \in Known, Confirm(asked), UNCHANGED <<args, cli, network>>
      PROVE  IInv'
  BY <1>4, ConfirmStep
<1> QED BY <1>1, <1>2, <1>3, <1>4 DEF Next

LEMMA IInvHolds == Spec => []IInv
BY InitIInv, IInvStep, PTL DEF Spec

-----------------------------------------------------------------------------
\* Commands and network keep their types: the nodes hold what commands signed or others
\* did, finitely many, with a nonce the command was given (submitBatch, claimBounty).
THEOREM SubmissionTypeCorrect == Spec => []TypeOK
<1>1. IInv => TypeOK BY DEF IInv
<1> QED BY <1>1, IInvHolds, PTL

\* A command puts one transaction on the network at most, however often it is tried and
\* whatever answers are lost (sendRawTransaction of wallet.ts, request of rpc.ts).
THEOREM CommandSendsOne == Spec => []OneTransactionPerCommand
<1>1. IInv => OneTransactionPerCommand
  <2> SUFFICES ASSUME IInv, NEW c \in Command PROVE Cardinality(Sent(c)) <= 1
    BY DEF OneTransactionPerCommand
  <2>1. \A t \in Sent(c) : t \in signed[c]
    BY ForeignFacts, SubmissionAssumption DEF Sent, IInv, SeenIsSigned
  <2>2. \A t, u \in Sent(c) : t = u BY <2>1 DEF IInv, SignsOnce
  <2>3. CASE Sent(c) = {} BY <2>3, FS_EmptySet
  <2>4. CASE Sent(c) # {}
    <3>1. PICK t \in Sent(c) : TRUE BY <2>4
    <3>2. Sent(c) = {t} BY <2>2, <3>1
    <3>3. Cardinality({t}) = 1 BY FS_Singleton
    <3> QED BY <3>2, <3>3
  <2> QED BY <2>3, <2>4
<1> QED BY <1>1, IInvHolds, PTL

\* `broadcast` is reported only of a transaction of this command that some node has
\* accepted (submitBatch, the comparison of the hash).
THEOREM BroadcastIsAccepted == Spec => []BroadcastWasAccepted
<1>1. IInv => BroadcastWasAccepted
  <2> SUFFICES ASSUME IInv, NEW c \in Command, phase[c] = "broadcast" PROVE Sent(c) # {}
    BY DEF BroadcastWasAccepted
  <2>1. PICK t \in signed[c] : t \in seen BY DEF IInv, SeenIsSigned
  <2>2. t.command = c BY DEF IInv, SignsOnce, Sound
  <2> QED BY <2>1, <2>2 DEF Sent
<1> QED BY <1>1, IInvHolds, PTL

\* What any node ever sees is within the spending cap and the gas bound, of a sound plan
\* or an entitled claim, and to the race's contract (submitBatch and claimBounty, the
\* checks before signing).
THEOREM NothingBeyondLimits == Spec => []SentWithinLimits
<1>1. IInv => SentWithinLimits
  <2> SUFFICES ASSUME IInv, NEW t \in seen \ Foreign
               PROVE  LET a == args[t.command]
                      IN  /\ SpendCap # NoFlag => t.gas * GasPrice <= SpendCap
                          /\ a.kind = "submit" => a.plan.sound /\ t.to = Adapter
                                                  /\ t.gas <= 2 * a.plan.estimatedGas
                          /\ a.kind = "claim" => a.credits /\ t.to = Controller /\ t.gas <= ClaimGas
                          /\ a.configured \in {NoFlag, Adapter}
    BY DEF SentWithinLimits
  <2>1. t.command \in Command /\ t \in signed[t.command] BY DEF IInv, SeenIsSigned
  <2>2. Sound(t.command, t) BY <2>1 DEF IInv, SignsOnce
  <2> QED BY <2>2 DEF Sound, Permitted, Affordable, Bound, Destination
<1> QED BY <1>1, IInvHolds, PTL

\* A confirmation by a receipt that leaves nothing out, of a transaction of the user's, is of
\* the one transaction its command has put on the network, a submission of a sound plan
\* (submitBatch and confirmSubmission).
THEOREM ConfirmationsAreOfSubmissions == Spec => []ConfirmedIsTheSubmission
<1>1. IInv => ConfirmedIsTheSubmission
  <2> SUFFICES ASSUME IInv, report.state = "confirmed", NEW t \in report.asked,
                      NEW r \in report.receipt, t.from = User,
                      r.transactionHash # NoFlag, r.to # NoFlag
               PROVE  /\ r.tx = t /\ Sent(t.command) = {t}
                      /\ args[t.command].kind = "submit" /\ args[t.command].plan.sound
    BY DEF ConfirmedIsTheSubmission
  <2>1. r.tx = t /\ t \in seen /\ t.to = Adapter BY DEF IInv, ReportInv
  <2>2. t \notin Foreign BY SubmissionAssumption DEF Foreign
  <2>3. PICK c \in Command : c = t.command /\ t \in signed[c] BY <2>1, <2>2 DEF IInv, SeenIsSigned
  <2>4. Sent(c) = {t}
    <3>1. t \in Sent(c) BY <2>1, <2>3 DEF Sent
    <3>2. \A u \in Sent(c) : u \in signed[c]
      BY ForeignFacts, SubmissionAssumption DEF Sent, IInv, SeenIsSigned
    <3>3. \A u \in Sent(c) : u = t BY <2>3, <3>2 DEF IInv, SignsOnce
    <3> QED BY <3>1, <3>3
  <2>5. t.to = Destination(c) /\ Permitted(c) BY <2>3 DEF IInv, SignsOnce, Sound
  <2>6. args[c].kind = "submit" BY <2>1, <2>5, SubmissionAssumption DEF Destination
  <2> QED BY <2>1, <2>3, <2>4, <2>5, <2>6 DEF Permitted
<1> QED BY <1>1, IInvHolds, PTL
=============================================================================
