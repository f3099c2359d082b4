---------------------------- MODULE ChunkCapture ----------------------------
(***************************************************************************)
(* The capture-chunk command: captureChunkFrames of                        *)
(* packages/volume-proof/src/chunk-frame.ts asks the user's RPC for the    *)
(* blocks of a context, one await at a time, and captureChunk of           *)
(* packages/cli/src/commands.ts writes the frames to a file.               *)
(*                                                                         *)
(* The node answers as it likes: from another fork than a moment before,   *)
(* wrongly, or not at all.  Several captures may run at once, as processes *)
(* of one machine, towards the same file, and any may be killed.           *)
(***************************************************************************)
EXTENDS VolumeTerms, SequencesExt

CONSTANTS
  Process,        \* the captures running; their process ids name their temporary files
  Requested,      \* the contexts one may be asked for
  BlockAnswer,    \* what a node may answer to eth_getBlockByNumber
  ReceiptAnswer,  \* and to eth_getBlockReceipts
  NoAnswer,       \* an error, or an answer some parser throws at
  Out,            \* the destination's name
  OldFile,        \* what it held before
  Absent,         \* no such file
  UnlinkWorks     \* FALSE: the removal of a temporary file may fail too

\* header: the block the answered fields encode to; hash: the hash answered with them.
HeaderAnswer  == [header : Block, hash : Hash]
\* One receipt of an answer.
NumberedReceipt == [transactionIndex : Nat, receipt : Receipt]

ASSUME CaptureAssumption ==
  /\ Requested \subseteq Context
  /\ BlockAnswer \subseteq HeaderAnswer \cup {NoAnswer}
  /\ NoAnswer \notin HeaderAnswer \cup Seq(NumberedReceipt)
  /\ Out \notin Process
  /\ UnlinkWorks \in BOOLEAN

VARIABLES
  phase,     \* of each process
  context,   \* what each was asked for
  chain,     \* the segment an honest node follows to the end, if it is one: at most one
  height, parent,
  block,     \* the block answered last
  frames,
  file       \* what the disk holds, by name: a sequence of frames, or Absent

capture == <<height, parent, block, frames>>
vars == <<phase, context, chain, capture, file>>

\* Mutant: the temporary name does not tell two captures apart.
TmpOfAny(p) == CHOOSE q \in Process : TRUE

TmpOf(p) == p

Init ==
  /\ phase = [p \in Process |-> "start"]
  /\ context \in [Process -> Requested]
  /\ chain \in [Process -> UNION {{{}} \cup {{s} : s \in Segments(x)} : x \in Requested}]
  /\ \A p \in Process : chain[p] \subseteq Segments(context[p])
  /\ height = [p \in Process |-> context[p].from]
  /\ parent = [p \in Process |-> context[p].before]
  /\ block = [p \in Process |-> ZeroHash]
  /\ frames = [p \in Process |-> <<>>]
  /\ file = [name \in Process \cup {Out} |-> IF name = Out THEN OldFile ELSE Absent]

Goto(p, where) == phase' = [phase EXCEPT ![p] = where]

\* Mutant: what was refused is tried again.
RefuseRetried(p) == UNCHANGED <<phase, capture, file>>

\* Nothing has been written yet.
Refuse(p) == Goto(p, "refused") /\ UNCHANGED <<capture, file>>

(***************************************************************************)
(* captureChunkFrames.                                                     *)
(***************************************************************************)
\* validateChunkRange.
RangeError(x) ==
  \/ x.from >= x.to
  \/ x.from < StartBlock \/ x.to > SnapshotBlock
  \/ x.before = ZeroHash \/ x.end = ZeroHash

\* encodeContext.
EncodeError(x) == x.beneficiary = ZeroAddress \/ MaskError(x.mask) \/ RangeError(x)

Start(p) ==
  /\ phase[p] = "start"
  /\ \E sameChain \in IF chain[p] = {} THEN BOOLEAN ELSE {TRUE} :
       IF ~sameChain \/ EncodeError(context[p]) THEN Refuse(p)
       ELSE /\ Goto(p, "block")
            /\ frames' = [frames EXCEPT ![p] = <<[kind |-> "context", context |-> context[p]]>>]
            /\ UNCHANGED <<height, parent, block, file>>

HeaderAnswers(p) ==
  IF chain[p] = {} THEN BlockAnswer
  ELSE {[header |-> s[height[p] + 1], hash |-> s[height[p] + 1]] : s \in chain[p]}

BadHeader(p, a) ==
  \/ a = NoAnswer
  \/ a.hash # a.header
  \/ Number[a.header] # height[p] + 1
  \/ Parent[a.header] # parent[p]

GetBlock(p) ==
  /\ phase[p] = "block" /\ height[p] < context[p].to
  /\ \E a \in HeaderAnswers(p) :
       IF BadHeader(p, a) THEN Refuse(p)
       ELSE /\ Goto(p, "receipts")
            /\ block' = [block EXCEPT ![p] = a.header]
            /\ UNCHANGED <<height, parent, frames, file>>

Numbered(b) == [i \in 1..Len(Receipts[b]) |-> [transactionIndex |-> i - 1, receipt |-> Receipts[b][i]]]

\* An honest node may list the receipts in any order.
ReceiptAnswers(p) ==
  IF chain[p] = {} THEN ReceiptAnswer ELSE SetToSeqs(Range(Numbered(block[p])))

\* Mutant: the list is taken in the order it came.
InOrderUnsorted(a) == a

InOrder(a) ==
  LET order == CHOOSE p \in Bijection(DOMAIN a, DOMAIN a) :
                 \A i, j \in DOMAIN a :
                   i < j => a[p[i]].transactionIndex <= a[p[j]].transactionIndex
  IN  [i \in DOMAIN a |-> a[order[i]]]

\* Mutant: the receipts root is not compared.
BadReceiptsRootless(p, a) ==
  \/ a = NoAnswer
  \/ LET sorted == InOrder(a)
     IN  \E i \in DOMAIN sorted :
           sorted[i].transactionIndex # i - 1 \/ sorted[i].receipt.status = "malformed"

\* Dense indices, an envelope the guest takes, and the receipts root of the header.
BadReceipts(p, a) ==
  \/ a = NoAnswer
  \/ LET sorted == InOrder(a)
     IN  \/ \E i \in DOMAIN sorted :
              sorted[i].transactionIndex # i - 1 \/ sorted[i].receipt.status = "malformed"
         \/ sorted # Numbered(block[p])

\* The corpus of the frame is that of the receipts answered.
BlockFrame(p, a) ==
  [kind |-> "block", header |-> block[p], complete |-> InOrder(a) = Numbered(block[p])]

After(p) == [height EXCEPT ![p] = @ + 1]

GetReceipts(p) ==
  /\ phase[p] = "receipts"
  /\ \E a \in ReceiptAnswers(p) :
       IF BadReceipts(p, a) THEN Refuse(p)
       ELSE /\ Goto(p, "block")
            /\ frames' = [frames EXCEPT ![p] = Append(@, BlockFrame(p, a))]
            /\ parent' = [parent EXCEPT ![p] = block[p]]
            /\ height' = After(p)
            /\ UNCHANGED <<block, file>>

CheckEnd(p) ==
  /\ phase[p] = "block" /\ height[p] = context[p].to
  /\ IF parent[p] # context[p].end THEN Refuse(p)
     ELSE Goto(p, "captured") /\ UNCHANGED <<capture, file>>

(***************************************************************************)
(* captureChunk: the file.                                                 *)
(***************************************************************************)
Throw(p) == Goto(p, "failed") /\ UNCHANGED capture

\* writeFileSync opens the temporary file and truncates it, ...
OpenTmp(p) ==
  /\ phase[p] = "captured"
  /\ \/ Goto(p, "writing") /\ file' = [file EXCEPT ![TmpOf(p)] = <<>>] /\ UNCHANGED capture
     \/ Throw(p) /\ UNCHANGED file

\* ... and writes; any write may fail, and no handler surrounds it.
WriteTmp(p) ==
  /\ phase[p] = "writing" /\ Len(file[TmpOf(p)]) < Len(frames[p])
  /\ \/ /\ file' = [file EXCEPT ![TmpOf(p)] = Append(@, frames[p][Len(@) + 1])]
        /\ UNCHANGED <<phase, capture>>
     \/ Throw(p) /\ UNCHANGED file

Rename(p) ==
  /\ phase[p] = "writing" /\ Len(file[TmpOf(p)]) = Len(frames[p])
  /\ Goto(p, "written")
  /\ file' = [file EXCEPT ![Out] = file[TmpOf(p)], ![TmpOf(p)] = Absent]
  /\ UNCHANGED capture

\* The catch clause removes the temporary file as well as it can.
RenameFails(p) ==
  /\ phase[p] = "writing" /\ Len(file[TmpOf(p)]) = Len(frames[p])
  /\ Throw(p)
  /\ \/ file' = [file EXCEPT ![TmpOf(p)] = Absent]
     \/ ~UnlinkWorks /\ UNCHANGED file

Over == {"refused", "failed", "written", "killed"}

Kill(p) ==
  /\ phase[p] \notin Over
  /\ Goto(p, "killed")
  /\ UNCHANGED <<capture, file>>

Step(p) ==
  \/ Start(p) \/ GetBlock(p) \/ GetReceipts(p) \/ CheckEnd(p)
  \/ OpenTmp(p) \/ WriteTmp(p) \/ Rename(p) \/ RenameFails(p)

Next == \E p \in Process : (Step(p) \/ Kill(p)) /\ UNCHANGED <<context, chain>>

\* A request is answered or aborted after 8 seconds, and the rest is synchronous.
Spec == Init /\ [][Next]_vars
          /\ \A p \in Process : WF_vars(Step(p) /\ UNCHANGED <<context, chain>>)

-----------------------------------------------------------------------------
Compatible(s) ==
  \A h \in DOMAIN s : \A r \in ReceiptIndices(s[h]) : ReceiptAt(s[h], r).status # "malformed"

\* Whatever the node answers, and from however many forks, the frames that get as far
\* as the file are those of an honest prover for a segment the context names, and the
\* guest accepts the context: capture errors are not left for the prover to find.
\* (ChunkRelation!HonestChunkIsCommitted says what the guest then does with them.)
CapturedChunkIsHonest ==
  \A p \in Process :
    phase[p] \in {"captured", "writing", "written"} =>
      /\ ~ContextError(context[p])
      /\ \E s \in Segments(context[p]) :
           Compatible(s) /\ frames[p] = HonestFrames(context[p], s)

\* An honest node that stays on one chain is enough: a chunk the guest's envelope rules
\* allow is never refused, in whatever order the receipts are listed.
HonestNodeSuffices ==
  \A p \in Process : phase[p] = "refused" =>
    \A s \in chain[p] : ContextError(context[p]) \/ ~Compatible(s)

\* The destination is what it was or one whole captured chunk, whatever fails, whoever
\* is killed and however many captures run ("The output file is written atomically (tmp
\* + rename) only after every check passes", README.md:229-230).
DestinationIsWhole ==
  \/ file[Out] = OldFile
  \/ \E p \in Process : phase[p] = "written" /\ file[Out] = frames[p]

\* A capture that was not killed leaves no temporary file behind ("it writes nothing on
\* failure", README.md:189-190).
WritesNothingOnFailure ==
  \A p \in Process : phase[p] \in {"refused", "failed", "written"} => file[TmpOf(p)] = Absent

\* Every capture ends.
Termination == \A p \in Process : <>(phase[p] \in Over)
=============================================================================
