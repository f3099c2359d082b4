--------------------------- MODULE MCReadCommands ---------------------------
(***************************************************************************)
(* Blocks of up to three receipts on two branches, a V4 pool against the   *)
(* wrapped native coin, one against the native coin and a V3 pool; three   *)
(* adapters, one of the other metric and one of another wrapper.           *)
(***************************************************************************)
EXTENDS ReadCommands

CONSTANTS
  a, b, empty, zero,                    \* blocks
  A, B, C, weth, native, manager, pool3, nobody, alice, bob,  \* addresses
  transfer, swap4, swap3,               \* topics
  X, Y, Z                               \* adapters

Key(c0, c1, fee) == [currency0 |-> c0, currency1 |-> c1, fee |-> fee]
KeyA == Key(A, weth, 1)
KeyB == Key(native, B, 1)
KeyC == Key(A, C, 1)

Log4(key, a0, a1) ==
  [emitter |-> manager, topics |-> <<swap4, key, alice>>,
   data |-> [words |-> 6, canonical |-> TRUE, amount0 |-> a0, amount1 |-> a1]]
Log3(a0, a1) ==
  [emitter |-> pool3, topics |-> <<swap3, alice, bob>>,
   data |-> [words |-> 5, canonical |-> TRUE, amount0 |-> a0, amount1 |-> a1]]
\* One whose last words are not canonical, and one with a topic too few.
Dirty == [Log4(KeyA, 1, -2) EXCEPT !.data.canonical = FALSE]
Short == [Log4(KeyA, 1, -2) EXCEPT !.topics = <<swap4, KeyA>>]
Moved ==
  [emitter |-> A, topics |-> <<transfer>>,
   data |-> [words |-> 1, canonical |-> TRUE, amount0 |-> 0, amount1 |-> 0]]

Of1(status, logs) == [status |-> status, logs |-> logs]

\* The amounts are scaled to an int of three bits: -4 has no opposite there.
MCReceipts ==
  a :> <<Of1("success", <<Moved, Log4(KeyA, 3, -2)>>),
         Of1("failed", <<Log4(KeyA, 3, -2)>>),
         Of1("success", <<Log4(KeyB, -4, 1), Log3(-1, 3)>>)>> @@
  b :> <<Of1("success", <<>>), Of1("success", <<Log4(KeyA, -1, 1), Log4(KeyC, 1, -3), Dirty, Short>>)>> @@
  empty :> <<>>
MCBlock  == DOMAIN MCReceipts
MCHash   == MCBlock \cup {zero}
MCNumber == a :> 1 @@ b :> 1 @@ empty :> 2
MCParent == a :> zero @@ b :> zero @@ empty :> a
MCBranches == {<<a, empty>>, <<b, empty>>}

MCAddress == {A, B, C, weth, native, manager, pool3, nobody, alice, bob}
MCTopic   == {transfer, swap4, swap3, alice, bob, KeyA, KeyB, KeyC}
MCVenue ==
  0 :> [account |-> manager, poolId |-> KeyA, tokenIsCurrency0 |-> TRUE, minNotional |-> 2] @@
  1 :> [account |-> manager, poolId |-> KeyB, tokenIsCurrency0 |-> FALSE, minNotional |-> 2]

MCBlockAnswers ==
  [header : {a, b}, hash : {a, b}] \cup {[header |-> empty, hash |-> empty], NoAnswer}
MCListAnswers ==
  {Indexed(a), Indexed(b), <<>>, Tail(Indexed(a)), Indexed(b) \o Indexed(b), NoAnswer}
MCExpectations == {a, NoAnswer}

\* A file may be the output of fetch, or have been changed since in one place.
MCFiles(f) ==
  {f, [f EXCEPT !.header = BadHeader], [f EXCEPT !.header = empty], [f EXCEPT !.number = 2],
   [f EXCEPT !.hash = empty], [f EXCEPT !.root = RootOf(Tail(f.receipts))],
   [f EXCEPT !.receipts = Tail(f.receipts)],
   [f EXCEPT !.receipts = Tail(f.receipts), !.root = RootOf(Tail(f.receipts))]}

\* The places of a block, and one past every end.
Places1(f) == {[txIndex |-> t, logIndex |-> l] : t \in 0..3, l \in -1..5}
Sorted(f) == f.receipts = Indexed(f.hash)
MCPairs(f) ==
  {{}} \cup {{p} : p \in Places1(f)}
    \cup {{[txIndex |-> 0, logIndex |-> 1], [txIndex |-> 2, logIndex |-> l]} : l \in 2..4}

Candidate(p, slot, key, amount) ==
  [txIndex |-> p.txIndex, logIndex |-> p.logIndex, venueKind |-> 1, poolId |-> key, account |-> manager,
   key |-> key, quoteAsset |-> weth, minNotional |-> 2, entrantIndex |-> slot,
   expectedQuoteAmount |-> amount, expectedSender |-> alice]

\* What an honest user lists of a block: every log, as a swap of either pool.
Listed(f) ==
  {Candidate(p, 0, KeyA, n) : p \in Places1(f), n \in {1, 2}}
    \cup {Candidate(p, 1, KeyB, 4) : p \in Places1(f)}

\* The same with one field changed, and the V3 swap.
Changes(c) ==
  {[c EXCEPT !.entrantIndex = 1 - @], [c EXCEPT !.expectedSender = bob], [c EXCEPT !.expectedQuoteAmount = 3],
   [c EXCEPT !.poolId = KeyC], [c EXCEPT !.poolId = KeyC, !.key = KeyC], [c EXCEPT !.account = pool3],
   [c EXCEPT !.quoteAsset = C], [c EXCEPT !.minNotional = 5], [c EXCEPT !.key.fee = 8],
   [c EXCEPT !.minNotional = 1]}
Swap3 ==
  [Candidate([txIndex |-> 2, logIndex |-> 4], 0, KeyA, 3) EXCEPT
     !.venueKind = 2, !.poolId = pool3, !.account = pool3]
SwapA == Candidate([txIndex |-> 0, logIndex |-> 1], 0, KeyA, 2)
SwapB == Candidate([txIndex |-> 2, logIndex |-> 3], 1, KeyB, 4)

Spec1(cs) == [entrants |-> <<A, B>>, candidates |-> cs]
MCSpecs(f) ==
  {Spec1(<<c>>) : c \in {SwapA, SwapB, Swap3}} \cup {Spec1(<<SwapA, SwapB>>), Spec1(<<>>)}
    \cup IF Sorted(f)
         THEN {Spec1(<<c>>) : c \in Listed(f) \cup Changes(SwapA) \cup Changes(SwapB)}
                \cup {Spec1(<<SwapA, c>>) : c \in Changes(SwapB)}
         ELSE {}

MCWrapperOf == X :> weth @@ Y :> weth @@ Z :> C
MCMetricOf  == X :> 1 @@ Y :> 2 @@ Z :> 1
MCQuoteOf   == X :> (0 :> weth @@ 1 :> weth) @@ Y :> (0 :> weth @@ 1 :> C) @@ Z :> (0 :> weth @@ 1 :> weth)
=============================================================================
