--------------------------- MODULE MCChunkCapture ---------------------------
(***************************************************************************)
(* Two captures of a forked chain of two heights, asked for the same file. *)
(***************************************************************************)
EXTENDS ChunkCapture

Ok(ls)     == [status |-> "success", logs |-> ls]
Failed     == [status |-> "failed", logs |-> <<>>]
Transfer   == [emitter |-> "token", topics |-> <<"transfer">>,
               data |-> [words |-> 1, canonical |-> TRUE, amount0 |-> 0, amount1 |-> 0]]

\* a: a block of two receipts, then an empty one; b: the other way round; y2 has a
\* receipt of a type the guest does not know.
MCReceipts ==
  "a1" :> <<Ok(<<Transfer>>), Failed>> @@ "a2" :> <<>> @@ "b1" :> <<>> @@ "b2" :> <<Failed>>
  @@ "y2" :> <<[status |-> "malformed", logs |-> <<>>]>>
MCBlock  == DOMAIN MCReceipts
MCNumber == "a1" :> 1 @@ "a2" :> 2 @@ "b1" :> 1 @@ "b2" :> 2 @@ "y2" :> 2
MCParent == "a1" :> "g" @@ "a2" :> "a1" @@ "b1" :> "g" @@ "b2" :> "b1" @@ "y2" :> "a1"
MCHash   == MCBlock \cup {"g", "zero"}

MCVenue ==
  0 :> [account |-> "manager", poolId |-> "p0", tokenIsCurrency0 |-> TRUE, minNotional |-> 1]

Chunk == [beneficiary |-> "winner", mask |-> {0}, from |-> 0, to |-> 2, before |-> "g", end |-> "a2"]

\* Both forks, one that leads to the odd receipt, shorter chunks, and contexts no guest accepts.
MCRequested ==
  {Chunk, [Chunk EXCEPT !.end = "b2"], [Chunk EXCEPT !.end = "y2"],
   [Chunk EXCEPT !.from = 1, !.before = "a1"], [Chunk EXCEPT !.from = 1, !.before = "b1", !.end = "b2"],
   [Chunk EXCEPT !.mask = {1}], [Chunk EXCEPT !.to = 3], [Chunk EXCEPT !.beneficiary = "nobody"]}

MCBlockAnswer ==
  [header : MCBlock, hash : MCBlock] \cup {NoAnswer}

Backwards(s) == [i \in DOMAIN s |-> s[Len(s) + 1 - i]]
Gap == <<[transactionIndex |-> 1, receipt |-> Failed]>>
MCReceiptAnswer ==
  {Numbered(b) : b \in MCBlock} \cup {Backwards(Numbered("a1")), Tail(Numbered("a1")), Gap, NoAnswer}
==============================================================================
