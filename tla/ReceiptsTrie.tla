---------------------------- MODULE ReceiptsTrie ----------------------------
(***************************************************************************)
(* ReceiptsTrie of packages/volume-proof/src/receipt-proof.ts: the trie a  *)
(* client builds over the receipts of one block, the encodings it puts in  *)
(* a chunk for the guest to walk, and the proof of one receipt.            *)
(*                                                                         *)
(* Nodes are the trees of their contents, so equal content is one node, as *)
(* equal encodings have one hash.  Lengths are scaled: a hash is HashSize  *)
(* bytes long, and a node that is shorter is put inline in its parent.     *)
(***************************************************************************)
EXTENDS Integers, Sequences, SequencesExt, FiniteSetsExt

CONSTANTS
  Radix, ValueBytes,  \* a nibble has Radix values, an index ValueBytes bytes
  HashSize,           \* bytes of a hash, in the scale of ValueSize
  ValueSize(_),       \* bytes of a receipt's encoding
  MaxType,            \* MAX_RECEIPT_TYPE, below the lead byte of a list
  NoValue

Keys == INSTANCE ReceiptKeys WITH keyPath <- <<>>, keyRead <- 0
Nibbles == 0..(Radix - 1)
NoNode == [via |-> "none"]

\* encodeReceipt: the lead byte is the type, or that of the list of a legacy receipt.
Encodable(r) == r.type \in 0..MaxType /\ r.status \in {0, 1}
EncodeReceipt(r) ==
  [lead |-> IF r.type = 0 THEN MaxType + 1 ELSE r.type,
   status |-> r.status, gas |-> r.gas, logs |-> r.logs]

\* decodeReceipt reads a small lead byte as a type.
DecodeReceipt(v) ==
  [type |-> IF v.lead <= MaxType THEN v.lead ELSE 0,
   status |-> v.status, gas |-> v.gas, logs |-> v.logs]

(***************************************************************************)
(* Building.  Entries are in the order of their paths.                     *)
(***************************************************************************)
\* comparePaths: a path before those it begins.
PathBefore(a, b) ==
  \E k \in 1..Len(b) :
    /\ k <= Len(a) + 1
    /\ \A j \in 1..(k - 1) : a[j] = b[j]
    /\ k <= Len(a) => a[k] < b[k]

\* sharedPrefix: how far all the paths agree from depth on.
SharedPrefix(entries, depth) ==
  LET first == entries[1].path
      agree(e, n) == \A j \in 1..n : depth + j <= Len(e.path) /\ e.path[depth + j] = first[depth + j]
      shared == {n \in 0..(Len(first) - depth) : \A i \in DOMAIN entries : agree(entries[i], n)}
  IN  CHOOSE n \in shared : \A m \in shared : m <= n

\* hexPrefix puts a flag and, in an odd path, the first nibble into one byte.
PathSize(path) == Len(path) \div 2 + 1
Least(a, b) == IF a < b THEN a ELSE b
RefSize(ref) == Least(ref.node.size, HashSize)

\* nodeReference: the hash of a node, or a node shorter than a hash itself.
Refer(n) == [via |-> IF n.size >= HashSize THEN "hash" ELSE "inline", node |-> n]

\* nodeStructure and encodeNode, of which the length matters.
LeafNode(path, value) ==
  [kind |-> "leaf", path |-> path, value |-> value, size |-> 1 + PathSize(path) + ValueSize(value)]
ExtNode(path, n) ==
  [kind |-> "ext", path |-> path, child |-> Refer(n), size |-> 1 + PathSize(path) + RefSize(Refer(n))]
BranchNode(kids, value) ==
  [kind |-> "branch", value |-> value,
   children |-> [c \in Nibbles |->
                   IF \E k \in kids : k.at = c THEN (CHOOSE k \in kids : k.at = c).ref ELSE NoNode],
   size |-> 1 + MapThenSumSet(LAMBDA k : RefSize(k.ref), kids) + (Radix - Cardinality(kids))
              + (IF value = NoValue THEN 1 ELSE ValueSize(value))]

RECURSIVE BuildNode(_, _)
BuildNode(entries, depth) ==
  LET first  == entries[1]
      shared == SharedPrefix(entries, depth)
      here   == SelectSeq(entries, LAMBDA e : Len(e.path) = depth)
      bucket(c) ==
        SelectSeq(entries, LAMBDA e : Len(e.path) > depth /\ e.path[depth + 1] = c)
      kids == {[at |-> c, ref |-> Refer(BuildNode(bucket(c), depth + 1))] :
                 c \in {c \in Nibbles : bucket(c) # <<>>}}
  IN  IF Len(entries) = 1
      THEN LeafNode(SubSeq(first.path, depth + 1, Len(first.path)), first.value)
      ELSE IF shared > 0
      THEN ExtNode(SubSeq(first.path, depth + 1, depth + shared),
                   BuildNode(entries, depth + shared))
      ELSE BranchNode(kids, IF here = <<>> THEN NoValue ELSE Last(here).value)

\* The constructor takes receipts in any order, and no index twice.
Buildable(receipts) ==
  /\ receipts # <<>>
  /\ \A i \in DOMAIN receipts : Encodable(receipts[i].receipt)
  /\ \A i, j \in DOMAIN receipts : receipts[i].index = receipts[j].index => i = j

\* receiptTrieKey: the index as a minimal quantity, in RLP.
ReceiptTrieKey(i) == Keys!KeyOf(i)

EntryOf(r) == [path |-> ReceiptTrieKey(r.index), value |-> EncodeReceipt(r.receipt)]

Root(receipts) ==
  BuildNode(SortSeq([i \in DOMAIN receipts |-> EntryOf(receipts[i])],
                    LAMBDA a, b : PathBefore(a.path, b.path)), 0)

(***************************************************************************)
(* What is taken out of it.                                                *)
(***************************************************************************)
ChildrenOf(n) ==
  CASE n.kind = "branch" -> {n.children[c] : c \in Nibbles} \ {NoNode}
    [] n.kind = "ext" -> {n.child}
    [] OTHER -> {}

\* Mutant: only the children of the root are visited.
HashedNodesShallow(n) == {n} \cup {r.node : r \in ChildrenOf(n)}

\* hashedNodes: each hashed encoding once, wherever it occurs.
RECURSIVE HashedNodes(_)
HashedNodes(n) ==
  (IF n.size >= HashSize THEN {n} ELSE {}) \cup UNION {HashedNodes(r.node) : r \in ChildrenOf(n)}

\* collectProof: every node on the way, those put inline too.
RECURSIVE CollectProof(_, _, _)
CollectProof(n, key, depth) ==
  CASE n.kind = "leaf" -> <<n>>
    [] n.kind = "ext" -> <<n>> \o CollectProof(n.child.node, key, depth + Len(n.path))
    [] n.kind = "branch" ->
         IF depth = Len(key) THEN <<n>>
         ELSE <<n>> \o CollectProof(n.children[key[depth + 1]].node, key, depth + 1)

\* proof(transactionIndex), of an index the trie was built with.
ProofOf(receipts, i) == CollectProof(Root(receipts), ReceiptTrieKey(i), 0)
=============================================================================
