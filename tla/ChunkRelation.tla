---------------------------- MODULE ChunkRelation ----------------------------
(***************************************************************************)
(* The chunk relation the guest proves: evaluate_frames of                 *)
(* prover/volume-sp1/chunk/src/lib.rs with the reader of its framing, the  *)
(* receipt adapter, the accumulator and the journal, and the guest's main. *)
(*                                                                         *)
(* Frames are pulled one at a time from an input that may contain any of   *)
(* them (Frame) in any order and end anywhere.  The walk of one receipts   *)
(* trie is used through what module ReceiptWalk establishes: an accepted   *)
(* one calls back every receipt of the root exactly once; one over a corpus*)
(* that is not exactly the root's trie may call back any of them, and then *)
(* fails.  The order of the calls is left open.                            *)
(***************************************************************************)
EXTENDS VolumeTerms

CONSTANTS
  Frame,     \* the frames an input can hold
  NoFrame,   \* the end of the input
  MaxU64     \* the diagnostics' counters

\* "other": a frame that neither Context::decode nor decode_block and
\* parse_nitro_header accept.  complete: its nodes are exactly the trie's.
FrameType ==
  [kind : {"context"}, context : Context]
    \cup [kind : {"block"}, header : Block, complete : BOOLEAN]
    \cup [kind : {"other"}]

ASSUME FrameAssumption ==
  /\ Frame \subseteq FrameType /\ NoFrame \notin FrameType
  /\ MaxU64 \in Nat

VARIABLES
  phase,     \* where evaluate_frames stands
  c,         \* the decoded context
  read,      \* the frames pulled so far, the end of the input among them
  height, parent,
  todo,      \* receipts of the block at height not yet called back
  receipt,   \* the receipt being visited, -1 between two
  at,        \* its logs already visited
  volumes, counts,   \* VolumeAccumulator
  blocks, receipts, failed, logs,   \* Diagnostics
  journal    \* the guest's public values

position    == <<height, parent, todo, receipt, at>>
totals      == <<volumes, counts>>
diagnostics == <<blocks, receipts, failed, logs>>
vars == <<phase, c, read, position, totals, diagnostics, journal>>

\* The block being walked.
TheFrame == read[Len(read)]
Header   == TheFrame.header

JournalType ==
  [context : Context, volumeQuote : [Slot -> 0..MaxU256], swapCount : [Slot -> 0..MaxU256]]
NoJournal == [context |-> "none"]

Zeros == [i \in Slot |-> 0]
EmptyContext ==
  [beneficiary |-> ZeroAddress, mask |-> {}, from |-> 0, to |-> 0,
   before |-> ZeroHash, end |-> ZeroHash]

Init ==
  /\ phase = "context" /\ c = EmptyContext
  /\ read = <<>>
  /\ height = 0 /\ parent = ZeroHash
  /\ todo = {} /\ receipt = -1 /\ at = 0
  /\ volumes = Zeros /\ counts = Zeros
  /\ blocks = 0 /\ receipts = 0 /\ failed = 0 /\ logs = 0
  /\ journal = NoJournal

\* An error returns neither a journal nor partial totals, and the guest panics.
Fail ==
  /\ phase' = "rejected"
  /\ UNCHANGED <<c, position, totals, diagnostics, journal>>

Reject == Fail /\ UNCHANGED read

Input == Frame \cup {NoFrame}

(***************************************************************************)
(* The context frame, checked as a journal with zero totals.               *)
(***************************************************************************)
\* VolumeJournalV1::validate.
JournalError(x, volume, count) ==
  \/ ContextError(x)
  \/ \E i \in Slot \ x.mask : volume[i] # 0 \/ count[i] # 0

BadContext(f) ==
  \/ f = NoFrame \/ f.kind # "context"
  \/ JournalError(f.context, Zeros, Zeros)

ReadContext ==
  /\ phase = "context"
  /\ \E f \in Input :
       /\ read' = Append(read, f)
       /\ IF BadContext(f) THEN Fail
          ELSE /\ phase' = "blocks" /\ c' = f.context
               /\ height' = f.context.from /\ parent' = f.context.before
               /\ UNCHANGED <<todo, receipt, at, totals, diagnostics, journal>>

(***************************************************************************)
(* One block.                                                              *)
(***************************************************************************)
\* Mutant: any block of the right height.
BadBlockUnlinked(f) ==
  \/ f = NoFrame \/ f.kind # "block"
  \/ Number[f.header] # height + 1

BadBlock(f) ==
  \/ f = NoFrame \/ f.kind # "block"
  \/ Number[f.header] # height + 1
  \/ Parent[f.header] # parent

ReadBlock ==
  /\ phase = "blocks" /\ height < c.to
  /\ \E f \in Input :
       /\ read' = Append(read, f)
       /\ IF BadBlock(f) THEN Fail
          ELSE /\ phase' = "receipts"
               /\ height' = height + 1
               /\ todo' = ReceiptIndices(f.header)
               /\ UNCHANGED <<c, parent, receipt, at, totals, diagnostics, journal>>

Remaining(r) == todo \ {r}

\* The walk calls back with a receipt, and visit_logs checks its fields.
VisitReceipt ==
  /\ phase = "receipts" /\ receipt = -1
  /\ \E r \in todo :
       IF ReceiptAt(Header, r).status = "malformed" THEN Reject
       ELSE /\ receipt' = r /\ at' = 0 /\ todo' = Remaining(r)
            /\ UNCHANGED <<phase, c, read, height, parent, totals, diagnostics, journal>>

Current  == ReceiptAt(Header, receipt)
LogsLeft == phase = "receipts" /\ receipt # -1 /\ at < Len(Current.logs)
TheLog   == LogAt(Header, receipt, at + 1)

\* Mutant: every receipt contributes.
RecordsAll == TRUE

\* Only a successful receipt contributes; the logs of a failed one are parsed too.
Records == Current.status = "success"

\* Mutant: the coverage mask does not filter.
ContributesUnmasked == Records /\ Qualifies(TheLog)

Contributes == Records /\ Qualifies(TheLog) /\ SlotOf(TheLog) \in c.mask

\* Mutant: the sums are not checked.
OverflowsNever(log) == FALSE

\* accumulate_checked adds both or neither.
Overflows(log) ==
  \/ volumes[SlotOf(log)] + QuoteAmount(log) > MaxU256
  \/ counts[SlotOf(log)] + 1 > MaxU256

\* Mutant: the logs of a failed receipt are held to the same standard.
BadLogAnyStatus ==
  \/ Len(TheLog.topics) > 4
  \/ LogError(TheLog)
  \/ Contributes /\ Overflows(TheLog)

\* More than four topics stand for every log shape visit_logs refuses.
BadLog ==
  \/ Len(TheLog.topics) > 4
  \/ Records /\ LogError(TheLog)
  \/ Contributes /\ Overflows(TheLog)

VisitLog ==
  /\ LogsLeft
  /\ IF BadLog THEN Reject
     ELSE /\ at' = at + 1
          /\ IF Contributes
             THEN /\ volumes' = [volumes EXCEPT ![SlotOf(TheLog)] = @ + QuoteAmount(TheLog)]
                  /\ counts' = [counts EXCEPT ![SlotOf(TheLog)] = @ + 1]
             ELSE UNCHANGED totals
          /\ UNCHANGED <<phase, c, read, height, parent, todo, receipt, diagnostics, journal>>

\* Mutant: a failed receipt counts as soon as it has a log.
FailureLogged == IF Records \/ Current.logs = <<>> THEN 0 ELSE 1

Failure == IF Records THEN 0 ELSE 1

\* The diagnostics' counters are checked 64-bit sums as well.
FinishReceipt ==
  /\ phase = "receipts" /\ receipt # -1 /\ at = Len(Current.logs)
  /\ IF logs + at > MaxU64 \/ failed + Failure > MaxU64 THEN Reject
     ELSE /\ logs' = logs + at /\ failed' = failed + Failure
          /\ receipt' = -1 /\ at' = 0
          /\ UNCHANGED <<phase, c, read, height, parent, todo, totals, blocks, receipts, journal>>

\* A corpus that is not the root's trie is found out before, between or after calls.
TrieFails ==
  /\ phase = "receipts" /\ receipt = -1
  /\ ~TheFrame.complete
  /\ Reject

FinishBlock ==
  /\ phase = "receipts" /\ receipt = -1 /\ todo = {}
  /\ TheFrame.complete
  /\ LET n == Len(Receipts[Header])
     IN  IF receipts + n > MaxU64 \/ blocks + 1 > MaxU64 THEN Reject
         ELSE /\ receipts' = receipts + n /\ blocks' = blocks + 1
              /\ parent' = Header
              /\ phase' = "blocks"
              /\ UNCHANGED <<c, read, height, todo, receipt, at, totals, failed, logs, journal>>

(***************************************************************************)
(* The end: the last header's hash, the end of the input, the journal.     *)
(***************************************************************************)
BadEnd == parent # c.end

ReadEnd ==
  /\ phase = "blocks" /\ height = c.to
  /\ IF BadEnd THEN Reject
     ELSE \E f \in Input :
            /\ read' = Append(read, f)
            /\ IF f # NoFrame THEN Fail
               ELSE /\ phase' = "encode"
                    /\ UNCHANGED <<c, position, totals, diagnostics, journal>>

\* abi_encode validates the finished journal; the guest commits it, and only it.
Commit ==
  /\ phase = "encode"
  /\ IF JournalError(c, volumes, counts) THEN Reject
     ELSE /\ phase' = "committed"
          /\ journal' = [context |-> c, volumeQuote |-> volumes, swapCount |-> counts]
          /\ UNCHANGED <<c, read, position, totals, diagnostics>>

Next ==
  \/ ReadContext \/ ReadBlock \/ VisitReceipt \/ VisitLog \/ FinishReceipt
  \/ TrieFails \/ FinishBlock \/ ReadEnd \/ Commit

Spec == Init /\ [][Next]_vars

-----------------------------------------------------------------------------
TypeOK ==
  /\ phase \in {"context", "blocks", "receipts", "encode", "committed", "rejected"}
  /\ c \in Context
  /\ read \in Seq(Input)
  /\ height \in Nat /\ parent \in Hash
  /\ todo \subseteq Nat /\ receipt \in Nat \cup {-1} /\ at \in Nat
  /\ volumes \in [Slot -> 0..MaxU256] /\ counts \in [Slot -> 0..MaxU256]
  /\ blocks \in 0..MaxU64 /\ receipts \in 0..MaxU64
  /\ failed \in 0..MaxU64 /\ logs \in 0..MaxU64
  /\ journal \in JournalType \cup {NoJournal}
  /\ phase = "receipts" => read # <<>> /\ TheFrame \in Frame /\ TheFrame.kind = "block"

\* The headers walked so far, and where their logs are.
TheSegment == [h \in (c.from + 1)..height |-> read[h - c.from + 1].header]
AllPlaces  == Places(TheSegment, DOMAIN TheSegment)

\* A context names one segment of the chain, the one the guest was fed: no other
\* sequence of headers leads from before_hash to end_hash, so two provers that commit
\* the same context have walked the same blocks (lib.rs: "exactly hi-lo complete-block
\* frames, then require EOF").
SegmentIsDetermined ==
  phase = "committed" => Segments(c) = {TheSegment}

\* Every qualifying swap of the segment is counted exactly once, for the slot it
\* belongs to, whatever the order of the calls; nothing else is counted.
CountsAreExact ==
  phase = "committed" =>
    \A i \in Slot : journal.swapCount[i] = SwapCount(c.mask, i, TheSegment, AllPlaces)

\* Nothing the accumulator does makes the second validation, inside abi_encode, fail:
\* the slots outside the coverage mask are still zero.
JournalEncodes == phase = "encode" => ~JournalError(c, volumes, counts)

\* The diagnostics of a committed chunk tell what was traversed, the failed receipts
\* and their logs included ("Visit ALL decoded logs, including in failed receipts").
DiagnosticsAreExact ==
  phase = "committed" =>
    \A s \in Segments(c) :
      LET all == UNION {{h} \X ReceiptIndices(s[h]) : h \in DOMAIN s}
      IN  /\ blocks = c.to - c.from
          /\ receipts = Cardinality(all)
          /\ failed = Cardinality({p \in all : ReceiptAt(s[p[1]], p[2]).status = "failed"})
          /\ logs = Cardinality(Places(s, DOMAIN s))

\* The totals a segment of the chain has, all its logs at once.
Reference(x, s) ==
  LET places == Places(s, DOMAIN s)
  IN  [context     |-> x,
       volumeQuote |-> [i \in Slot |-> SwapVolume(x.mask, i, s, places)],
       swapCount   |-> [i \in Slot |-> SwapCount(x.mask, i, s, places)]]

\* A log the guest has to accept, in a receipt of that status.
SoundLog(receiptStatus, log) ==
  Len(log.topics) <= 4 /\ (receiptStatus = "success" => ~LogError(log))

SoundBlock(b) ==
  \A r \in ReceiptIndices(b) :
    LET x == ReceiptAt(b, r)
    IN  x.status # "malformed" /\ \A l \in DOMAIN x.logs : SoundLog(x.status, x.logs[l])

\* The whole input of an honest prover, for a segment of sound blocks.
HonestInput(x, s) == Append(HonestFrames(x, s), NoFrame)

Fits(x, s) ==
  /\ \A i \in Slot : Reference(x, s).volumeQuote[i] <= MaxU256
                     /\ Reference(x, s).swapCount[i] <= MaxU256
  /\ Cardinality(Places(s, DOMAIN s)) <= MaxU64
  /\ Cardinality(DOMAIN s) <= MaxU64
  /\ Cardinality(UNION {{h} \X ReceiptIndices(s[h]) : h \in DOMAIN s}) <= MaxU64

\* No honest chunk is turned away: when the relation has failed, what it had pulled
\* is not the start of an input made of a valid context, the sound blocks of a segment
\* it names, each with its whole trie, and the end, unless a total overflows.
HonestChunkIsCommitted ==
  phase = "rejected" /\ ~BadContext(read[1]) =>
    LET x == read[1].context
    IN  \A s \in Segments(x) :
          /\ \A h \in DOMAIN s : SoundBlock(s[h])
          /\ Fits(x, s)
          => ~(\A k \in DOMAIN read : k <= Len(HonestInput(x, s)) /\ read[k] = HonestInput(x, s)[k])

\* What the relation is for: see RaceVolume.
Abstract == INSTANCE RaceVolume
ImplementsRaceVolume == Abstract!Spec
=============================================================================
