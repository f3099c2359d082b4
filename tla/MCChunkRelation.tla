--------------------------- MODULE MCChunkRelation ---------------------------
(***************************************************************************)
(* A small race for the chunk relation: three entrants whose pools share   *)
(* one pool manager, a chain of three heights with forks, and every        *)
(* input over its frames.                                                  *)
(***************************************************************************)
EXTENDS ChunkRelation, TLC

Swap(pool, amount0, amount1) ==
  [emitter |-> "manager", topics |-> <<"swap", pool, "sender">>,
   data |-> [words |-> 6, canonical |-> TRUE, amount0 |-> amount0, amount1 |-> amount1]]

BadData(pool)   == [Swap(pool, 1, 1) EXCEPT !.data.canonical = FALSE]
TwoTopics       == [Swap("p0", 1, 1) EXCEPT !.topics = <<"swap", "p0">>]
FiveTopics      == [Swap("p0", 1, 1) EXCEPT !.topics = <<"other", "p0", "p0", "p0", "p0">>]
Elsewhere       == [Swap("p0", 3, 3) EXCEPT !.emitter = "other"]

Ok(ls)     == [status |-> "success", logs |-> ls]
Failed(ls) == [status |-> "failed", logs |-> ls]

\* p0 quotes its currency 1 and p1 its currency 0; both ask for at least 2, p2 for 1.
MCVenue ==
  0 :> [account |-> "manager", poolId |-> "p0", tokenIsCurrency0 |-> TRUE, minNotional |-> 2]
  @@ 1 :> [account |-> "manager", poolId |-> "p1", tokenIsCurrency0 |-> FALSE, minNotional |-> 2]
  @@ 2 :> [account |-> "manager", poolId |-> "p2", tokenIsCurrency0 |-> TRUE, minNotional |-> 1]

MCReceipts ==
  "a1" :> <<Ok(<<Swap("p0", 9, -2), Swap("p1", 3, 9)>>), Ok(<<>>), Failed(<<Swap("p0", 9, 3)>>)>>
  @@ "a2" :> <<Ok(<<Swap("p0", 9, 1), BadData("foreign"), Elsewhere>>), Failed(<<>>), Ok(<<Swap("p0", 2, 3)>>)>>
  @@ "a3" :> <<Failed(<<BadData("p0")>>)>>
  @@ "b1" :> <<Ok(<<Swap("p1", -2, 0), Swap("p2", 0, -1)>>)>>
  @@ "b2" :> <<Ok(<<Swap("p0", 0, 2), TwoTopics>>)>>
  @@ "b3" :> <<Ok(<<BadData("p1")>>), Ok(<<>>)>>
  @@ "x2" :> <<Ok(<<Elsewhere, Elsewhere, Elsewhere, Elsewhere, Swap("p0", 0, 6)>>)>>
  @@ "y2" :> <<Failed(<<FiveTopics>>), [status |-> "malformed", logs |-> <<>>]>>
  @@ "z3" :> <<>>

MCBlock  == DOMAIN MCReceipts
MCNumber == "a1" :> 1 @@ "a2" :> 2 @@ "a3" :> 3 @@ "b1" :> 1 @@ "b2" :> 2 @@ "b3" :> 3
            @@ "x2" :> 2 @@ "y2" :> 2 @@ "z3" :> 3
\* z3 claims height 3 right after a1.
MCParent == "a1" :> "g" @@ "a2" :> "a1" @@ "a3" :> "a2" @@ "b1" :> "g" @@ "b2" :> "b1"
            @@ "b3" :> "a2" @@ "x2" :> "a1" @@ "y2" :> "a1" @@ "z3" :> "a1"
MCHash   == MCBlock \cup {"g", "zero"}

Race == [beneficiary |-> "winner", mask |-> {0}, from |-> 0, to |-> 2, before |-> "g", end |-> "a2"]

MCContexts ==
  [beneficiary : {"winner"}, mask : {{0}, {1}, {0, 1}, {0, 1, 2}}, from : {0}, to : {2},
   before : {"g"}, end : {"a2", "b2", "x2", "y2"}]
  \cup [beneficiary : {"winner"}, mask : {{0, 1}}, from : {1}, to : {3},
        before : {"a1", "b1"}, end : {"a3", "b3", "z3"}]
  \cup [beneficiary : {"winner"}, mask : {{0, 1}}, from : {0}, to : {1},
        before : {"g", "b1"}, end : {"a1", "b1"}]
  \cup {[Race EXCEPT !.beneficiary = "nobody"], [Race EXCEPT !.before = "zero"],
        [Race EXCEPT !.end = "zero"], [Race EXCEPT !.mask = {}], [Race EXCEPT !.mask = {0, 3}],
        [Race EXCEPT !.to = 0], [Race EXCEPT !.to = 4]}

MCFrame ==
  [kind : {"context"}, context : MCContexts]
    \cup [kind : {"block"}, header : MCBlock, complete : BOOLEAN]
    \cup {[kind |-> "other"]}
==============================================================================
