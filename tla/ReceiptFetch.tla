---------------------------- MODULE ReceiptFetch ----------------------------
(***************************************************************************)
(* The fetch command: captureReceiptBlock of                               *)
(* packages/volume-proof/src/receipt-capture.ts asks the user's node for   *)
(* one block's header and receipts, in four requests between which the     *)
(* chain may reorganise.                                                   *)
(*                                                                         *)
(* A block is its header hash, as in VolumeTerms, and a receipts root is   *)
(* the set of the numbered receipts below it (ReceiptsTrie builds it, and  *)
(* MerkleProof shows what it commits to).                                  *)
(***************************************************************************)
EXTENDS VolumeTerms, SequencesExt

CONSTANTS
  Branches,      \* the chains there may be: a block at each height
  BlockAnswers,  \* what a node of the user may answer to eth_getBlockByNumber
  ListAnswers,   \* and to eth_getBlockReceipts
  Expectations,  \* expectedHash: a hash, or NoAnswer
  NoAnswer,      \* an error, null, or an answer a parser throws at
  MaxReorgs      \* bound of the reorganisations

\* header: the block the answered fields encode to; hash: the hash answered with them.
HeaderAnswer == [header : Block, hash : Hash]
\* parseRpcBlockReceipt: a receipt with the index it is answered with.
NumberedReceipt == [transactionIndex : Nat, receipt : Receipt]

\* The branches are as high as each other.
ASSUME FetchAssumption ==
  /\ \A x, y \in Branches : DOMAIN x = DOMAIN y
  /\ \A branch \in Branches : \A h \in DOMAIN branch : branch[h] \in Block /\ Number[branch[h]] = h
  /\ BlockAnswers \subseteq HeaderAnswer \cup {NoAnswer}
  /\ ListAnswers \subseteq Seq(NumberedReceipt) \cup {NoAnswer}
  /\ NoAnswer \notin HeaderAnswer \cup Seq(NumberedReceipt) \cup Block

VARIABLES
  chain, reorgs,   \* the branch that is canonical now; how often that changed
  faithful,        \* does the node tell what it sees of that chain?
  fetch,           \* where captureReceiptBlock stands
  asked, expected, \* its arguments
  header, listed,  \* the first two answers
  captured         \* what it returned, or NoAnswer

node == <<chain, reorgs>>
fetching == <<fetch, header, listed, captured>>
fetchVars == <<node, faithful, asked, expected, fetching>>

FetchInit ==
  /\ chain \in Branches /\ reorgs = 0
  /\ faithful \in BOOLEAN
  /\ asked \in DOMAIN chain /\ expected \in Expectations
  /\ fetch = "chainId" /\ header = NoAnswer /\ listed = NoAnswer /\ captured = NoAnswer

Reorg ==
  /\ fetch \in {"chainId", "header", "receipts", "recheck"} /\ reorgs < MaxReorgs
  /\ chain' \in Branches \ {chain}
  /\ reorgs' = reorgs + 1
  /\ UNCHANGED <<faithful, asked, expected, fetching>>

\* The receipts of a block, each with its index.
Indexed(b) == [i \in 1..Len(Receipts[b]) |-> [transactionIndex |-> i - 1, receipt |-> Receipts[b][i]]]

\* Mutant: the receipts are keyed by where they are in the list.
BuildableInOrder(list) == list # <<>> /\ \A i \in DOMAIN list : list[i].transactionIndex = i - 1

\* The constructor of ReceiptsTrie throws at no receipts and at an index twice.
Buildable(list) ==
  /\ list # <<>>
  /\ \A i, j \in DOMAIN list : list[i].transactionIndex = list[j].transactionIndex => i = j

RootOf(list) == Range(list)
HeaderRoot(b) == RootOf(Indexed(b))

FetchFails == fetch' = "failed" /\ UNCHANGED <<header, listed, captured>>

CheckChainId ==
  /\ fetch = "chainId"
  /\ \E same \in IF faithful THEN {TRUE} ELSE BOOLEAN :
       IF same THEN fetch' = "header" /\ UNCHANGED <<header, listed, captured>> ELSE FetchFails

GetHeader ==
  /\ fetch = "header"
  /\ \E a \in IF faithful THEN {[header |-> chain[asked], hash |-> chain[asked]]} ELSE BlockAnswers :
       IF a = NoAnswer THEN FetchFails
       ELSE header' = a /\ fetch' = "receipts" /\ UNCHANGED <<listed, captured>>

\* encodeRobinhoodHeader, the height asked for, the hash expected, the root.
BundleError(a, list) ==
  \/ a.header # a.hash
  \/ Number[a.header] # asked
  \/ expected # NoAnswer /\ expected # a.hash
  \/ ~Buildable(list) \/ RootOf(list) # HeaderRoot(a.header)

GetReceipts ==
  /\ fetch = "receipts"
  /\ \E list \in IF faithful THEN SetToSeqs(Range(Indexed(chain[asked]))) ELSE ListAnswers :
       IF list = NoAnswer THEN FetchFails
       ELSE IF BundleError(header, list) THEN FetchFails
       ELSE listed' = list /\ fetch' = "recheck" /\ UNCHANGED <<header, captured>>

\* Mutant: the closing request is not made.
ChangedNever(hash) == FALSE

Changed(hash) == hash # header.hash

\* rpc.block(blockNumber) once more.
Recheck ==
  /\ fetch = "recheck"
  /\ \E hash \in IF faithful THEN {chain[asked]} ELSE Block \cup {NoAnswer} :
       IF hash = NoAnswer THEN FetchFails
       ELSE IF Changed(hash) THEN FetchFails
       ELSE /\ fetch' = "fetched"
            /\ captured' = [header |-> header.header, hash |-> header.hash, number |-> asked,
                            root |-> HeaderRoot(header.header), receipts |-> listed]
            /\ UNCHANGED <<header, listed>>

FetchStep ==
  (CheckChainId \/ GetHeader \/ GetReceipts \/ Recheck) /\ UNCHANGED <<node, faithful, asked, expected>>

-----------------------------------------------------------------------------
\* What is captured is one block, whatever was answered: the hash is that of the header
\* at the height asked for, and the receipts are all of that block's.  Of a node that tells
\* the truth it is a block that was canonical when the command ended, however the chain
\* was reorganised between the requests (RECEIPT_CHAIN_CHANGED).
FetchedIsOneBlock ==
  [][captured' # captured =>
       LET hash == captured'.hash
       IN  /\ captured'.header = hash /\ Number[hash] = asked
           /\ Range(captured'.receipts) = Range(Indexed(hash))
           /\ Len(captured'.receipts) = Len(Receipts[hash])
           /\ faithful => hash = chain[asked]]_fetchVars

\* A truthful node on a chain that is not reorganised is enough, unless the block is not
\* the one expected or holds no receipt at all.
HonestBlockIsFetched ==
  fetch = "failed" /\ faithful /\ reorgs = 0 =>
    \/ expected \notin {NoAnswer, chain[asked]}
    \/ Receipts[chain[asked]] = <<>>
=============================================================================
