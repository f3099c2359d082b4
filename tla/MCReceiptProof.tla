--------------------------- MODULE MCReceiptProof ---------------------------
(***************************************************************************)
(* Instances of MerkleProof: the tries ReceiptsTrie builds over receipts   *)
(* at any of five indices, long enough to be hashed or short enough to be  *)
(* put inline, and the proofs it takes from them, whole or damaged: an     *)
(* entry missing, foreign, repeated, or the proof of another key.  To them *)
(* come tries no client builds.                                            *)
(*                                                                         *)
(* Beside it two machines, of which one runs: that of ReceiptKeys, which   *)
(* reads the key of a receipt from any path up to the widest, and that of  *)
(* Batching, which cuts proofs into transactions: all lists of up to five  *)
(* of three sizes, with budgets from too small for one proof to enough for *)
(* a full batch of any.                                                    *)
(***************************************************************************)
EXTENDS MerkleProof, Batching, SequencesExt

CONSTANTS
  ValueBytes, HashSize, MaxType,
  KeyBytes   \* bytes of an index the keys are read of

\* A receipt of n bytes is as long as its gas says; its only log is named after it.
SizeOf(v) == IF v = NoValue THEN 1 ELSE v.gas
T == INSTANCE ReceiptsTrie WITH ValueSize <- SizeOf

Receipts(gas, status, type) == [type |-> type, status |-> status, gas |-> gas, logs |-> <<gas>>]
Long   == Receipts(HashSize, 1, MaxType)
Failing == Receipts(HashSize + 1, 0, 0)
Tiny   == Receipts(1, 1, 0)

\* Which receipt stands at an index: all the same, all short, or some of each.
Styles == {[i \in 0..4 |-> Long], [i \in 0..4 |-> Tiny],
           [i \in 0..4 |-> IF i % 2 = 0 THEN Tiny ELSE Long],
           [i \in 0..4 |-> IF i = 3 THEN Failing ELSE Tiny]}

\* A node answers the receipts in any order; this one counts down.
ListOf(S, style) ==
  LET down == SortSeq(SetToSeq(S), LAMBDA a, b : a > b)
  IN  [k \in DOMAIN down |-> [index |-> down[k], receipt |-> style[down[k]]]]

Lists ==
  {l \in {ListOf(S, style) : S \in SUBSET (0..4), style \in Styles}
           \cup {<<[index |-> 1, receipt |-> Tiny], [index |-> 1, receipt |-> Long]>>,
                 <<[index |-> 1, receipt |-> Receipts(1, 1, MaxType + 1)]>>} : T!Buildable(l)}

Built(l) ==
  [root |-> T!Root(l), proofs |-> [i \in {l[k].index : k \in DOMAIN l} |-> T!ProofOf(l, i)]]

\* Tries no client makes: a short node behind a hash, a long one put inline, an
\* extension to nothing, a path of half a byte, a branch that ends the key, and bytes
\* that are no node.
Garbage == [kind |-> "invalid", size |-> HashSize]
Holding(via, n) == [kind |-> "ext", path |-> <<>>, size |-> HashSize, child |-> [via |-> via, node |-> n]]
ShortLeaf == T!LeafNode(T!ReceiptTrieKey(0), T!EncodeReceipt(Tiny))
LongLeaf  == T!LeafNode(T!ReceiptTrieKey(0), T!EncodeReceipt(Long))
Hollow    == T!LeafNode(T!ReceiptTrieKey(0), NoValue)
Stub      == T!LeafNode(Front(T!ReceiptTrieKey(0)), T!EncodeReceipt(Long))
Nothing   == [kind |-> "ext", path |-> <<>>, size |-> HashSize, child |-> T!NoNode]
Ending(v) == [kind |-> "branch", value |-> v, size |-> HashSize,
              children |-> [c \in Nibble |-> T!NoNode]]
LeadingTo(n) == [kind |-> "ext", path |-> T!ReceiptTrieKey(0), size |-> HashSize,
                 child |-> [via |-> "hash", node |-> n]]
Crafted ==
  {<<Holding("hash", ShortLeaf), ShortLeaf>>, <<Holding("inline", LongLeaf), LongLeaf>>,
   <<Holding("hash", LongLeaf), LongLeaf>>, <<Holding("inline", ShortLeaf), ShortLeaf>>,
   <<Holding("hash", Garbage), Garbage>>, <<Nothing, Garbage>>, <<Hollow>>, <<Stub>>}
    \cup {<<LeadingTo(Ending(v)), Ending(v)>> : v \in {NoValue, T!EncodeReceipt(Long)}}

RECURSIVE Below(_)
Below(n) == {n} \cup UNION {Below(r.node) : r \in T!ChildrenOf(n)}

RECURSIVE PairsBelow(_)
PairsBelow(n) ==
  LET under(prefix, r) == {<<prefix \o p[1], p[2]>> : p \in PairsBelow(r.node)}
      own(path) == IF n.value = NoValue THEN {} ELSE {<<path, n.value>>}
  IN  CASE n.kind = "leaf" -> own(n.path)
        [] n.kind = "ext" -> IF n.child = T!NoNode THEN {} ELSE under(n.path, n.child)
        [] n.kind = "branch" ->
             own(<<>>) \cup UNION {under(<<c>>, n.children[c]) :
                                     c \in {c \in Nibble : n.children[c] # T!NoNode}}
        [] OTHER -> {}

Values == {NoValue} \cup {T!EncodeReceipt(r) : r \in {Long, Failing, Tiny}}
MCReceipt == [v \in Values |-> IF v = NoValue THEN NoReceipt ELSE T!DecodeReceipt(v)]

\* n elements of a set in some order, half of them at a time.
RECURSIVE Pick(_, _)
Pick(S, n) ==
  IF n = 0 THEN <<>>
  ELSE IF n = 1 THEN <<CHOOSE x \in S : TRUE>>
  ELSE LET half == Pick(S, n \div 2)
       IN  half \o Pick(S \ Range(half), n - n \div 2)

\* Everything the instance needs, with the trees numbered once.
Model ==
  LET built == {Built(l) : l \in Lists}
      nodes == UNION {Below(b.root) : b \in built} \cup UNION {Range(c) : c \in Crafted}
      trees == Pick(nodes, Cardinality(nodes))
      id(n) == CHOOSE i \in DOMAIN trees : trees[i] = n
      ids(s) == [i \in DOMAIN s |-> id(s[i])]
      ref(r) == IF r = T!NoNode THEN r ELSE [via |-> r.via, node |-> id(r.node)]
      body(n) ==
        CASE n.kind = "leaf" -> [kind |-> "leaf", path |-> n.path, value |-> n.value]
          [] n.kind = "ext" -> [kind |-> "ext", path |-> n.path, child |-> ref(n.child)]
          [] n.kind = "branch" -> [kind |-> "branch", value |-> n.value,
                                   children |-> [c \in Nibble |-> ref(n.children[c])]]
          [] OTHER -> [kind |-> "invalid"]
  IN  [node  |-> DOMAIN trees,
       body  |-> [i \in DOMAIN trees |-> body(trees[i])],
       bytes |-> [i \in DOMAIN trees |-> trees[i].size],
       holds |-> [i \in DOMAIN trees |-> PairsBelow(trees[i])],
       tries |-> {[root |-> id(b.root), proofs |-> [i \in DOMAIN b.proofs |-> ids(b.proofs[i])]] :
                    b \in built},
       crafted |-> {ids(c) : c \in Crafted}]

MCNode  == LET m == Model IN m.node
MCBody  == LET m == Model IN m.body
MCBytes == LET m == Model IN m.bytes
MCSmall == LET m == Model IN {i \in m.node : m.bytes[i] < HashSize}
MCHolds == LET m == Model IN m.holds
\* A claim also tells the proof that is built of its key; the verifier does not see it.
Damaged(p, others) ==
  {p, Tail(p), Front(p), Append(p, p[1]), Append(p, Last(p))}
    \cup {ReplaceAt(p, k, n) : k \in DOMAIN p, n \in others}

MCClaims ==
  LET m == Model
      claims(t, i) ==
        [root : {t.root}, key : {T!ReceiptTrieKey(i)}, log : {1}, built : {t.proofs[i]},
         proof : Damaged(t.proofs[i], Range(t.proofs[i])) \cup Range(t.proofs)]
      absent(t, i) ==
        [root : {t.root}, key : {T!ReceiptTrieKey(i)}, log : {1}, built : {<<>>}, proof : Range(t.proofs)]
  IN  UNION {UNION {claims(t, i) : i \in DOMAIN t.proofs} : t \in m.tries}
        \cup UNION {UNION {absent(t, i) : i \in 0..4 \ DOMAIN t.proofs} : t \in m.tries}
        \cup UNION {{[root |-> c[1], key |-> T!ReceiptTrieKey(0), log |-> l, built |-> <<>>, proof |-> p] :
                       p \in {c, Front(c)}, l \in {1, 2}} : c \in m.crafted}

MCInput ==
  UNION {[1..n -> {[nodes |-> 0, bytes |-> 0], [nodes |-> 1, bytes |-> 1], [nodes |-> 2, bytes |-> 4]}] :
           n \in 0..5}

-----------------------------------------------------------------------------
VARIABLES machine, keyPath, keyRead

\* Until a key is read, as in the other machines, ReadsExactlyTheKeys says nothing.
INSTANCE ReceiptKeys WITH ValueBytes <- KeyBytes

\* What ReceiptsTrie proves of a key is the way to it.
ASSUME BuiltLeads == \A c \in Claims : c.built # <<>> => Leads(c.root, c.key, c.built)

ASSUME KeyScaleAssumption == ScaleAssumption

IdleProof ==
  /\ claim = [root |-> 1, key |-> <<>>, log |-> 1, built |-> <<>>, proof |-> <<>>]
  /\ index = 0 /\ keyIndex = 0 /\ expected = ByHash(1) /\ result = Open
IdleBatch == proofs = <<>> /\ gasBudget = 0 /\ BatchInit

MCInit ==
  \/ machine = "proof" /\ Init /\ KeyInit /\ IdleBatch
  \/ machine = "key" /\ KeyInit /\ IdleProof /\ IdleBatch
  \/ machine = "batch" /\ BatchInit /\ IdleProof /\ KeyInit

MCNext ==
  /\ UNCHANGED machine
  /\ \/ machine = "proof" /\ Next /\ UNCHANGED <<keyPath, keyRead, batchVars>>
     \/ machine = "key" /\ KeyNext /\ UNCHANGED <<vars, batchVars>>
     \/ machine = "batch" /\ BatchNext /\ UNCHANGED <<vars, keyPath, keyRead>>

MCSpec == MCInit /\ [][MCNext]_<<machine, vars, keyPath, keyRead, batchVars>>
=============================================================================
