--------------------------- MODULE MCReceiptWalk ---------------------------
(***************************************************************************)
(* Instances of ReceiptWalk.  A node is built as the tree of its contents, *)
(* so equal subtries are one node and hashing is injective by              *)
(* construction; the trees are then numbered.  The corpora are built from  *)
(* sets of trie paths, canonical keys or not, in compressed and            *)
(* uncompressed shape, and then damaged the ways a host can damage them:   *)
(* an entry missing, foreign or repeated.                                  *)
(***************************************************************************)
EXTENDS ReceiptWalk, FiniteSetsExt

CONSTANTS ValueBytes  \* bytes of an index

Keys == INSTANCE ReceiptKeys WITH keyPath <- <<>>, keyRead <- 0
MCWidth      == Keys!KeyWidth
MCReceiptKey == [i \in Index |-> Keys!KeyOf(i)]

\* One-byte keys, of the indices below 4, two-byte keys, and half a key.
Paths == {ReceiptKey[i] : i \in Index} \cup {<<0, 0>>}
\* The path whose leaf may be given a short or a bad value.
Special == {<<0, 1>>}

Leaf(path, value, short) == [kind |-> "leaf", path |-> path, value |-> value, short |-> short]
RefTo(n) == [via |-> IF n.short THEN "inline" ELSE "hash", node |-> n]

CommonPrefix(K) ==
  LET some == CHOOSE k \in K : TRUE
      len == Max({j \in 0..Len(some.path) :
                    \A k \in K : /\ Len(k.path) >= j
                                 /\ SubSeq(k.path, 1, j) = SubSeq(some.path, 1, j)})
  IN  SubSeq(some.path, 1, len)

Strip(K, j) == {[k EXCEPT !.path = SubSeq(k.path, j + 1, Len(k.path))] : k \in K}
Starting(K, c) == {k \in K : k.path # <<>> /\ Head(k.path) = c}

\* A trie holding the entries K; without compression every nibble is a branch.
RECURSIVE Build(_, _)
Build(K, compress) ==
  LET prefix == CommonPrefix(K)
      here == {k \in K : k.path = <<>>}
      sub(c) == Build(Strip(Starting(K, c), 1), compress)
  IN  IF Cardinality(K) = 1 /\ (compress \/ here = K)
      THEN LET k == CHOOSE k \in K : TRUE IN Leaf(k.path, k.value, k.short)
      ELSE IF compress /\ prefix # <<>>
      THEN [kind |-> "ext", path |-> prefix, short |-> FALSE,
            child |-> RefTo(Build(Strip(K, Len(prefix)), compress))]
      ELSE [kind |-> "branch", short |-> FALSE,
            children |-> [c \in Nibble |->
                            IF Starting(K, c) = {} THEN NoChild ELSE RefTo(sub(c))],
            value |-> IF here = {} THEN NoValue ELSE (CHOOSE k \in here : TRUE).value]

Entry(path, value, short) == [path |-> path, value |-> value, short |-> short]

Plain(P) == {Entry(p, Good, FALSE) : p \in P}

\* One special leaf is short, bad or empty.
Styles(P) ==
  {{Entry(p, IF p = s THEN v[1] ELSE Good, p = s /\ v[2]) : p \in P} :
     s \in P \cap Special, v \in {<<Good, TRUE>>, <<Malformed, FALSE>>, <<NoValue, FALSE>>}}

\* Paths no key can have: half a byte, and longer than the widest key.
Odd == {<<1>>, ReceiptKey[MaxU64] \o <<0>>}

\* An encoding that references a short node by hash, and an empty branch.
ShortLeaf  == Leaf(<<0>>, Good, TRUE)
BadHash    == [kind |-> "ext", path |-> ReceiptKey[0], short |-> FALSE,
               child |-> [via |-> "hash", node |-> Leaf(<<>>, Good, TRUE)]]
BareBranch == [kind |-> "branch", short |-> FALSE, value |-> NoValue,
               children |-> [c \in Nibble |-> NoChild]]
BadTrie    == [kind |-> "branch", short |-> FALSE, value |-> NoValue,
               children |-> [c \in Nibble |->
                  [via |-> "hash", node |-> Leaf(<<0>>, Good, c = 0)]]]

\* Bytes that are no node: the encoding of the empty trie, and a long one.
Empty   == [kind |-> "invalid", short |-> TRUE]
Garbage == [kind |-> "invalid", short |-> FALSE]
BadNode == [kind |-> "ext", path |-> ReceiptKey[0], short |-> FALSE,
            child |-> [via |-> "hash", node |-> Garbage]]

\* The tries a client builds over receipts 0..m-1, each longer than a hash, as trees
\* of this module; equal receipts share a leaf.
ReceiptSize(v) == 9
T == INSTANCE ReceiptsTrie WITH HashSize <- 9, ValueSize <- ReceiptSize, MaxType <- 2

ASuccess == [type |-> 2, status |-> 1, gas |-> 0, logs |-> <<>>]
HonestTries == {T!Root([k \in 1..m |-> [index |-> m - k, receipt |-> ASuccess]]) : m \in 1..MaxU64}

RECURSIVE Tree(_)
Tree(n) ==
  LET ref(r) == IF r = NoChild THEN r ELSE [via |-> r.via, node |-> Tree(r.node)]
  IN  CASE n.kind = "leaf" -> Leaf(n.path, Good, FALSE)
        [] n.kind = "ext" -> [kind |-> "ext", path |-> n.path, short |-> FALSE, child |-> ref(n.child)]
        [] n.kind = "branch" ->
             [kind |-> "branch", children |-> [c \in Nibble |-> ref(n.children[c])], short |-> FALSE,
              value |-> IF n.value = NoValue THEN NoValue ELSE Good]

Roots == {Build(Plain(P), c) : P \in SUBSET Paths \ {{}}, c \in BOOLEAN}
           \cup {Build(K, TRUE) : K \in UNION {Styles(P) : P \in SUBSET Paths}}
           \cup {Build(Plain({p, ReceiptKey[0]}), c) : p \in Odd, c \in BOOLEAN}
           \cup {Tree(n) : n \in HonestTries}
           \cup {BadHash, BareBranch, BadTrie, Empty, Garbage, BadNode}

RECURSIVE Nodes(_)
Children(n) ==
  CASE n.kind = "branch" -> {n.children[c] : c \in Nibble} \ {NoChild}
    [] n.kind = "ext" -> {n.child}
    [] OTHER -> {}
Nodes(n) == {n} \cup UNION {Nodes(r.node) : r \in Children(n)}

RECURSIVE HashedBelow(_)
HashedBelow(n) == UNION {(IF r.via = "hash" THEN {r.node} ELSE {}) \cup HashedBelow(r.node) :
                           r \in Children(n)}

RECURSIVE KeysBelow(_)
KeysBelow(n) ==
  CASE n.kind = "leaf" -> {n.path}
    [] n.kind = "ext" -> {n.path \o k : k \in KeysBelow(n.child.node)}
    [] n.kind = "branch" ->
         (IF n.value = NoValue THEN {} ELSE {<<>>}) \cup
         UNION {{<<c>> \o k : k \in KeysBelow(n.children[c].node)} :
                  c \in {c \in Nibble : n.children[c] # NoChild}}
    [] OTHER -> {}

\* n elements of a set in some order, half of them at a time.
RECURSIVE Pick(_, _)
Pick(S, n) ==
  IF n = 0 THEN <<>>
  ELSE IF n = 1 THEN <<CHOOSE x \in S : TRUE>>
  ELSE LET half == Pick(S, n \div 2)
       IN  half \o Pick(S \ {half[i] : i \in DOMAIN half}, n - n \div 2)

Enumerate(S) == Pick(S, Cardinality(S))

\* Everything the instance needs, with the trees numbered once.
Model ==
  LET trees == Enumerate(UNION {Nodes(r) : r \in Roots} \cup {ShortLeaf})
      id(n) == CHOOSE i \in DOMAIN trees : trees[i] = n
      ref(r) == IF r = NoChild THEN NoChild ELSE [via |-> r.via, node |-> id(r.node)]
      body(n) ==
        CASE n.kind = "leaf" -> [kind |-> "leaf", path |-> n.path, value |-> n.value]
          [] n.kind = "ext" -> [kind |-> "ext", path |-> n.path, child |-> ref(n.child)]
          [] n.kind = "branch" -> [kind |-> "branch", value |-> n.value,
                                   children |-> [c \in Nibble |-> ref(n.children[c])]]
          [] OTHER -> [kind |-> "invalid"]
  IN  [node  |-> DOMAIN trees,
       body  |-> [i \in DOMAIN trees |-> body(trees[i])],
       small |-> {i \in DOMAIN trees : trees[i].short},
       reach |-> [i \in DOMAIN trees |-> KeysBelow(trees[i])],
       hashed |-> [i \in DOMAIN trees |-> {id(n) : n \in HashedBelow(trees[i])}],
       roots |-> {id(r) : r \in Roots},
       empty |-> id(Empty),
       extra |-> id(ShortLeaf),
       honest |-> {[root |-> id(Tree(t)), nodes |-> {id(Tree(n)) : n \in T!HashedNodes(t)}] :
                     t \in HonestTries}]

MCNode == LET m == Model IN m.node
MCBody == LET m == Model IN m.body
MCSmall == LET m == Model IN m.small
MCReach == LET m == Model IN m.reach
MCEmpty == LET m == Model IN m.empty
MCHashed == LET m == Model IN m.hashed
MCHonest == LET m == Model IN m.honest

\* The encodings a root needs, and the same with one missing, added or repeated.
MCCorpora ==
  LET m == Model
      whole(r) == {r} \cup m.hashed[r]
      exact(r) == Enumerate(whole(r))
      lists(r) == {exact(r), Append(exact(r), r), Append(exact(r), m.extra)}
                    \cup {Enumerate(whole(r) \ {n}) : n \in whole(r)}
  IN  UNION {[root : {r}, nodes : lists(r)] : r \in m.roots}
        \cup {[root |-> h.root, nodes |-> Enumerate(h.nodes)] : h \in m.honest}
        \cup {[root |-> m.empty, nodes |-> <<>>]}

\* An honest host supplies what hashedNodes() gives for the receipts of a block.
Honest ==
  \/ ~Duplicated /\ [root |-> corpus.root, nodes |-> Supplied] \in MCHonest
  \/ corpus = [root |-> EmptyNode, nodes |-> <<>>]

\* The walk accepts what an honest host supplies, for every count of receipts.
HonestIsAccepted == Honest ~> phase = "accepted"
=============================================================================
