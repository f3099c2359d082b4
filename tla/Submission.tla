----------------------------- MODULE Submission -----------------------------
(***************************************************************************)
(* The signing commands, submitBatch and claimBounty, and confirmSubmission*)
(* of packages/cli/src/commands.ts, with Signer.sendRawTransaction         *)
(* (wallet.ts) and the CLI's choice of who gets a signer (index.ts).       *)
(*                                                                         *)
(* Commands are processes of one user with one key; each await is a step.  *)
(* External: the contracts and the nodes.  A node may lag, refuse, lose    *)
(* its answer, or answer with the hash of another transaction; one that    *)
(* answers with a transaction's own hash has accepted it, and no two       *)
(* transactions of one sender and nonce are both pending or mined.         *)
(***************************************************************************)
EXTENDS Integers, Sequences, FiniteSets, FiniteSetsExt

CONSTANTS
  Command,        \* submit and claim commands run so far
  Plan,           \* the batches one may be asked to submit
  Adapter, Controller, Stranger,   \* destinations
  User, Other,    \* senders
  Estimate,       \* what eth_estimateGas may answer
  GasLimit,       \* the --gas-limit flags, NoFlag among them
  NoFlag,
  GasPrice,       \* the one --gas-price
  SpendCap,       \* config.spendCapWei, or NoFlag
  ClaimGas,       \* 500,000
  Endpoints,      \* how many HttpRpc has to try
  MaxNonce        \* bound of the nonces a node may report

\* sound: the header hashes to blockHash and every proof of the batch verifies.
PlanType == [sound : BOOLEAN, estimatedGas : Nat]

ASSUME SubmissionAssumption ==
  /\ Plan \subseteq PlanType /\ NoFlag \notin Command
  /\ Estimate \subseteq Nat /\ GasLimit \subseteq Nat \cup {NoFlag}
  /\ GasPrice \in Nat /\ SpendCap \in Nat \cup {NoFlag}
  /\ ClaimGas \in Nat /\ Endpoints \in Nat \ {0} /\ MaxNonce \in Nat
  /\ Controller # Adapter /\ User # Other

VARIABLES
  phase, args,     \* of each command
  to, gas, signed, \* its resolved destination, its gas, its signed transactions
  tries,           \* endpoints its raw transaction has been sent to
  pool, mined,     \* transactions nodes hold, and blocks of the chain
  seen,            \* every transaction a node ever accepted
  report           \* the last answer of a confirm command

cli == <<phase, to, gas, signed, tries>>
network == <<pool, mined, seen>>
vars == <<args, cli, network, report>>

Args ==
  [kind : {"submit"}, plan : Plan, gasLimit : GasLimit, configured : {NoFlag, Adapter, Stranger}]
    \cup [kind : {"claim"}, credits : BOOLEAN, configured : {NoFlag, Adapter, Stranger}]

\* A transaction is its bytes: two are the same if and only if their hashes are.
Tx(c, nonce) == [command |-> c, from |-> User, to |-> to[c], gas |-> gas[c], nonce |-> nonce]

\* Somebody else's transaction, to somewhere else or creating a contract (no `to`).
Foreign == [command : {NoFlag}, from : {Other}, to : {Stranger, NoFlag}, gas : {0}, nonce : {0}]

NoReport == [asked |-> {}, state |-> "none", receipt |-> {}]

Init ==
  /\ args \in [Command -> Args]
  /\ phase = [c \in Command |-> "resolve"]
  /\ to = [c \in Command |-> NoFlag] /\ gas = [c \in Command |-> 0]
  /\ signed = [c \in Command |-> {}] /\ tries = [c \in Command |-> 0]
  /\ pool = {} /\ mined = Foreign /\ seen = Foreign
  /\ report = NoReport

Goto(c, where) == phase' = [phase EXCEPT ![c] = where]

Throw(c) == Goto(c, "threw") /\ UNCHANGED <<to, gas, signed, tries>>

\* Any RPC call may fail.
RpcFails(c) ==
  /\ phase[c] \in {"resolve", "entitled", "simulate", "estimate", "nonce"}
  /\ Throw(c) /\ UNCHANGED network

(***************************************************************************)
(* Before signing.                                                         *)
(***************************************************************************)
Destination(c) == IF args[c].kind = "submit" THEN Adapter ELSE Controller

\* resolveAdapter, then, for submit, the header and proofs of the plan.
Resolve(c) ==
  /\ phase[c] = "resolve"
  /\ IF \/ args[c].configured \notin {NoFlag, Adapter}
        \/ args[c].kind = "submit" /\ ~args[c].plan.sound
     THEN Throw(c)
     ELSE /\ to' = [to EXCEPT ![c] = Destination(c)]
          /\ Goto(c, IF args[c].kind = "submit" THEN "simulate" ELSE "entitled")
          /\ UNCHANGED <<gas, signed, tries>>
  /\ UNCHANGED network

Entitled(c) ==
  /\ phase[c] = "entitled"
  /\ IF args[c].credits THEN Goto(c, "simulate") /\ UNCHANGED <<to, gas, signed, tries>> ELSE Throw(c)
  /\ UNCHANGED network

Simulate(c) ==
  /\ phase[c] = "simulate"
  /\ Goto(c, "estimate") /\ UNCHANGED <<to, gas, signed, tries, network>>

Headroom(estimate) == estimate + estimate \div 10

Gas(c, estimate) ==
  IF args[c].kind = "submit" /\ args[c].gasLimit # NoFlag THEN args[c].gasLimit ELSE Headroom(estimate)

Bound(c) == IF args[c].kind = "submit" THEN 2 * args[c].plan.estimatedGas ELSE ClaimGas

\* Mutant: the cap is held against the estimate alone.
RefusedByEstimate(c, estimate) ==
  Gas(c, estimate) > Bound(c) \/ (SpendCap # NoFlag /\ estimate * GasPrice > SpendCap)

Refused(c, estimate) ==
  Gas(c, estimate) > Bound(c) \/ (SpendCap # NoFlag /\ Gas(c, estimate) * GasPrice > SpendCap)

EstimateGas(c) ==
  /\ phase[c] = "estimate"
  /\ \E estimate \in Estimate :
       IF Refused(c, estimate) THEN Throw(c)
       ELSE /\ gas' = [gas EXCEPT ![c] = Gas(c, estimate)]
            /\ Goto(c, "nonce")
            /\ UNCHANGED <<to, signed, tries>>
  /\ UNCHANGED network

(***************************************************************************)
(* Signing and sending.                                                    *)
(***************************************************************************)
Nonces == {t.nonce : t \in {t \in pool \cup mined : t.from = User}}

\* A lagging node may report a nonce already used; none reports one from the future.
Pending ==
  LET unused == {n \in 0..Cardinality(Nonces) : n \notin Nonces}
  IN  0..Min(unused)

Sign(c) ==
  /\ phase[c] = "nonce"
  /\ \E nonce \in Pending :
       /\ nonce <= MaxNonce
       /\ signed' = [signed EXCEPT ![c] = @ \cup {Tx(c, nonce)}]
  /\ Goto(c, "send")
  /\ UNCHANGED <<to, gas, tries, network>>

\* The same bytes again are refused as already known, another transaction for the same
\* nonce as underpriced.
Acceptable(t) == t.nonce \notin Nonces

\* Mutant: a retry asks for a new nonce and signs again.
RetrySigningAgain(c) == Goto(c, "nonce")

\* HttpRpc sends the same bytes to the next endpoint.
Retry(c) == UNCHANGED phase

\* Mutant: whatever hash the node answers is taken.
HashIsAny(answer, t) == TRUE

HashMatches(answer, t) == answer = t

\* One attempt of eth_sendRawTransaction: accepted or not, and then answered with a
\* hash, or not (an error, or an answer that did not arrive).
Send(c) ==
  /\ phase[c] = "send" /\ tries[c] < Endpoints
  /\ \E t \in signed[c] : t.nonce = Max({x.nonce : x \in signed[c]}) /\
       \E accepted \in IF Acceptable(t) THEN BOOLEAN ELSE {FALSE} :
         /\ pool' = IF accepted THEN pool \cup {t} ELSE pool
         /\ seen' = IF accepted THEN seen \cup {t} ELSE seen
         /\ UNCHANGED mined
         /\ tries' = [tries EXCEPT ![c] = @ + 1]
         /\ \/ \E answer \in (IF accepted THEN {t} ELSE {}) \cup Foreign :
                 Goto(c, IF HashMatches(answer, t) THEN "broadcast" ELSE "threw")
            \/ IF tries[c] + 1 = Endpoints THEN Goto(c, "threw") ELSE Retry(c)
  /\ UNCHANGED <<to, gas, signed>>

Step(c) ==
  \/ Resolve(c) \/ Entitled(c) \/ Simulate(c) \/ EstimateGas(c) \/ Sign(c) \/ Send(c) \/ RpcFails(c)

(***************************************************************************)
(* The chain: inclusion, reorganisation, and a node that forgets.          *)
(***************************************************************************)
Mine(t) ==
  /\ t \in pool /\ t.nonce = Cardinality({m \in mined : m.from = User})
  /\ pool' = pool \ {t} /\ mined' = mined \cup {t} /\ UNCHANGED seen

Reorg(t) ==
  /\ t \in mined /\ t.from = User
  /\ \A m \in mined : m.from = User => m.nonce <= t.nonce
  /\ mined' = mined \ {t}
  /\ pool' \in {pool, pool \cup {t}} /\ UNCHANGED seen

(***************************************************************************)
(* confirmSubmission, for a hash the user has from anywhere and the        *)
(* adapter.  It is the CLI's: index.ts loads no signer for it, so          *)
(* the sender is not compared; nor is a hash or a destination that the     *)
(* receipt does not have.                                                  *)
(***************************************************************************)
Known == seen \cup UNION {signed[c] : c \in Command}

\* The receipts a node may have of a transaction: fields are optional.
ReceiptsOf(m) == [tx : {m}, transactionHash : {NoFlag, m}, to : {NoFlag, m.to}]

\* Mutant: the hash in the receipt is not compared.
ReceiptErrorAnyHash(receipt, asked) == receipt.to \notin {NoFlag, Adapter}

ReceiptError(receipt, asked) ==
  receipt.transactionHash \notin {NoFlag, asked} \/ receipt.to \notin {NoFlag, Adapter}

\* A node answers null, or with a receipt, of another transaction if it mixes answers up;
\* an error changes nothing.  (What the receipt tells, success and events, is left out.)
Confirm(asked) ==
  \/ report' = [asked |-> {asked}, state |-> "broadcast", receipt |-> {}]
  \/ \E m \in mined : \E receipt \in ReceiptsOf(m) :
       /\ ~ReceiptError(receipt, asked)
       /\ report' = [asked |-> {asked}, state |-> "confirmed", receipt |-> {receipt}]

Next ==
  /\ \/ \E c \in Command : Step(c) /\ UNCHANGED report
     \/ \E t \in seen : (Mine(t) \/ Reorg(t)) /\ UNCHANGED <<cli, report>>
     \/ \E asked \in Known : Confirm(asked) /\ UNCHANGED <<cli, network>>
  /\ UNCHANGED args

Spec == Init /\ [][Next]_vars

-----------------------------------------------------------------------------
Sent(c) == {t \in seen : t.command = c}

\* However often a raw transaction is tried and answers are lost, a command puts one
\* transaction on the network at most: each try sends the same bytes.
OneTransactionPerCommand == \A c \in Command : Cardinality(Sent(c)) <= 1

\* `broadcast` is only reported of a transaction some node has accepted ("The state is
\* `broadcast` only after eth_sendRawTransaction returns the accepted hash, and that hash
\* must match the signed bytes", commands.ts:364-366).
BroadcastWasAccepted ==
  \A c \in Command : phase[c] = "broadcast" => Sent(c) # {}

\* What any node ever got to see is within the limits the user set, whatever the node
\* estimated and whichever flags were given, of a sound plan, and to the race's contracts
\* ("Explicit spend caps, checked before signing", README.md:172).
SentWithinLimits ==
  \A t \in seen \ Foreign :
    LET a == args[t.command]
    IN  /\ SpendCap # NoFlag => t.gas * GasPrice <= SpendCap
        /\ a.kind = "submit" => a.plan.sound /\ t.to = Adapter /\ t.gas <= 2 * a.plan.estimatedGas
        /\ a.kind = "claim" => a.credits /\ t.to = Controller /\ t.gas <= ClaimGas
        /\ a.configured \in {NoFlag, Adapter}

\* What a confirmation is worth, by a receipt that leaves neither field out, of a transaction
\* of the user's: that one and no other is what its command has put on the network, however
\* often it was sent and even if the node mixes up its answers; and it is a submission of a
\* sound plan, never a claim (submitBatch and confirmSubmission).
ConfirmedIsTheSubmission ==
  report.state = "confirmed" =>
    \A t \in report.asked, r \in report.receipt :
      t.from = User /\ r.transactionHash # NoFlag /\ r.to # NoFlag =>
        LET a == args[t.command]
        IN  /\ r.tx = t /\ Sent(t.command) = {t}
            /\ a.kind = "submit" /\ a.plan.sound

\* "The receipt must be for the exact transaction" (commands.ts:453).
ConfirmedIsForTheTransaction ==
  report.state = "confirmed" => \A r \in report.receipt : r.tx \in report.asked

\* "... from the signer, to the adapter" (commands.ts:453-454).
ConfirmedIsFromTheSigner ==
  report.state = "confirmed" => \A r \in report.receipt : r.tx.from = User /\ r.tx.to = Adapter
=============================================================================
