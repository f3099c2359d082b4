---------------------------- MODULE ReceiptWalk ----------------------------
(***************************************************************************)
(* The complete walk of a receipts trie done inside the prover's guest:    *)
(* visit_receipts of prover/volume-sp1/trie/src/receipts.rs.               *)
(*                                                                         *)
(* Nodes form a content-addressed graph.  A node here IS its hash: keccak  *)
(* is taken to be injective, so an identifier stands for one encoding, and *)
(* Body gives what that encoding decodes to.  The walk is given a root and *)
(* an unordered corpus of encodings.  It visits every value below the root *)
(* with an explicit stack, demands that the keys met are the canonical     *)
(* keys of 0..m-1, that no corpus entry is left over, and then proves that *)
(* key m is absent: it extracts a lookup proof from the corpus             *)
(* (Store::path_proof) and verifies it independently (verify_raw).         *)
(*                                                                         *)
(* Nibbles, indices and keys are scaled: the code has Radix = 16, MaxU64 = *)
(* 2^64 - 1, Width = 18, and the keys of module ReceiptKeys.               *)
(***************************************************************************)
EXTENDS Integers, Sequences, FiniteSets

CONSTANTS
  Radix,       \* children of a branch; a byte is two nibbles
  MaxU64,      \* the largest transaction index, and the largest count
  Width,       \* nibbles of the longest key (KeyPath)
  ReceiptKey,  \* the trie key of each index
  Node,        \* every encoding that can be supplied or referenced
  EmptyNode,   \* the encoding 0x80, whose hash is the empty trie's root
  Body,        \* what each encoding decodes to
  Small,       \* the encodings shorter than 32 bytes
  Corpora,     \* the inputs: records [root, nodes]
  Reach,       \* the keys below each node: the reference meaning of a trie
  Hashed,      \* the nodes referenced by hash below each node
  NoValue,     \* an empty value field
  Good,        \* a value the receipt callback accepts
  Malformed    \* a value the receipt callback rejects

Nibble == 0..(Radix - 1)
Index  == 0..MaxU64
Value  == {NoValue, Good, Malformed}
Path   == Seq(Nibble)

NoChild == [via |-> "none"]
Child   == {NoChild} \cup [via : {"hash", "inline"}, node : Node]

NodeBody == [kind : {"leaf"}, path : Path, value : Value]
       \cup [kind : {"ext"}, path : Path, child : Child]
       \cup [kind : {"branch"}, children : [Nibble -> Child], value : Value]
       \cup [kind : {"invalid"}]

ASSUME RadixAssumption == Radix \in Nat /\ Radix > 1
ASSUME WidthAssumption == MaxU64 \in Nat /\ Width \in Nat
ASSUME KeyAssumption ==
  /\ ReceiptKey \in [Index -> Path]
  /\ \A i \in Index : Len(ReceiptKey[i]) <= Width
  /\ \A i, j \in Index : ReceiptKey[i] = ReceiptKey[j] => i = j

\* node() checks an extension's path and child before it returns one, and child()
\* takes no list of 32 bytes or more for a node put inline.
InlineIsSmall(child) == child.via = "inline" => child.node \in Small

ASSUME BodyAssumption ==
  /\ Body \in [Node -> NodeBody]
  /\ \A n \in Node :
       /\ Body[n].kind = "ext" =>
            Body[n].path # <<>> /\ Body[n].child # NoChild /\ InlineIsSmall(Body[n].child)
       /\ Body[n].kind = "branch" => \A c \in Nibble : InlineIsSmall(Body[n].children[c])

ASSUME CorporaAssumption ==
  /\ EmptyNode \in Node /\ Body[EmptyNode].kind = "invalid"
  /\ Corpora \subseteq [root : Node, nodes : Seq(Node)]

\* KeyPath::index accepts exactly the canonical keys and inverts them.
IsKey(path)    == \E i \in Index : ReceiptKey[i] = path
IndexOf(path)  == CHOOSE i \in Index : ReceiptKey[i] = path

\* The order of byte strings: lexicographic, a proper prefix first.
Lt(a, b) ==
  \E k \in 1..Len(b) :
    /\ k <= Len(a) + 1
    /\ \A j \in 1..(k - 1) : a[j] = b[j]
    /\ k <= Len(a) => a[k] < b[k]

Matches(path, key, position) ==
  /\ Len(path) <= Len(key) - position
  /\ \A j \in 1..Len(path) : path[j] = key[position + j]

VARIABLES
  corpus,    \* the input: root hash and supplied encodings
  phase,     \* where visit_receipts stands
  error,     \* the WalkError returned, or "none"
  used,      \* corpus entries reached so far
  stack,     \* frames still to visit, top first
  frame,     \* the branch whose children are being pushed
  next,      \* the next child of that branch to push, -1 when there is none
  count, max, previous,  \* struct Indices; max is -1 and previous <<>> at first
  visited,   \* history: the indices given to the callback, in order
  proof,     \* path_proof's result
  at, position, cursor   \* where a lookup stands: node, nibbles, entries consumed

indices == <<count, max, previous, visited>>
lookup  == <<proof, at, position, cursor>>
vars    == <<corpus, phase, error, used, stack, frame, next, indices, lookup>>

Supplied == {corpus.nodes[i] : i \in DOMAIN corpus.nodes}
Top      == Head(stack)
FrameType == [node : Node, prefix : Path]

TypeOK ==
  /\ corpus \in [root : Node, nodes : Seq(Node)]
  /\ phase \in {"start", "walk", "probe", "verify", "accepted", "rejected"}
  /\ used \subseteq Node
  /\ stack \in Seq(FrameType)
  /\ \A i \in DOMAIN stack : Len(stack[i].prefix) <= Width
  /\ frame \in FrameType
  /\ next \in -1..(Radix - 1)
  /\ next >= 0 => Body[frame.node].kind = "branch"
  /\ count \in Index /\ max \in Index \cup {-1}
  /\ previous \in Path /\ visited \in Seq(Index)
  /\ proof \in Seq(Node) /\ cursor \in 0..Len(proof)
  /\ at \in Node /\ position \in 0..Len(ReceiptKey[count])
  /\ phase \in {"start", "walk"} => position = 0 /\ cursor = 0
  /\ phase \in {"probe", "verify"} => proof # <<>>

Init ==
  /\ corpus \in Corpora
  /\ phase = "start" /\ error = "none"
  /\ used = {} /\ stack = <<>> /\ next = -1
  /\ frame = [node |-> corpus.root, prefix |-> <<>>]
  /\ count = 0 /\ max = -1 /\ previous = <<>> /\ visited = <<>>
  /\ proof = <<>> /\ at = corpus.root /\ position = 0 /\ cursor = 0

\* An error drops everything computed so far: the caller gets Err and no totals.
Reject(e) ==
  /\ phase' = "rejected" /\ error' = e
  /\ UNCHANGED <<corpus, used, stack, frame, next, indices, lookup>>

Accept ==
  /\ phase' = "accepted"
  /\ UNCHANGED <<corpus, error, used, stack, frame, next, indices, lookup>>

First(e, f) == IF e # "none" THEN e ELSE f

\* The ? operator: return the error, or go on.
Unless(e, step) == IF e # "none" THEN Reject(e) ELSE step

(***************************************************************************)
(* Entry: the empty root needs no walk; otherwise build the store, which   *)
(* refuses a corpus that lists an encoding twice, and push the root.       *)
(***************************************************************************)
Duplicated == \E i, j \in DOMAIN corpus.nodes : i < j /\ corpus.nodes[i] = corpus.nodes[j]

\* Mutant: a repeated entry overwrites the first one in the store.
StartErrorRepeats == IF corpus.root \notin Supplied THEN "IncompleteProof" ELSE "none"

StartError ==
  IF Duplicated THEN "DuplicateWitnessNode"
  ELSE IF corpus.root \notin Supplied THEN "IncompleteProof"
  ELSE "none"

EmptyTrie ==
  /\ phase = "start" /\ corpus.root = EmptyNode
  /\ IF corpus.nodes \in {<<>>, <<EmptyNode>>} THEN Accept ELSE Reject("TrailingProofNodes")

Start ==
  /\ phase = "start" /\ corpus.root # EmptyNode
  /\ Unless(StartError,
       /\ phase' = "walk"
       /\ used' = {corpus.root}
       /\ stack' = <<[node |-> corpus.root, prefix |-> <<>>]>>
       /\ UNCHANGED <<corpus, error, frame, next, indices, lookup>>)

(***************************************************************************)
(* One frame of the depth-first walk.                                      *)
(***************************************************************************)
ChildError(child) ==
  IF child.via = "inline" THEN "none"
  ELSE IF child.node \notin Supplied THEN "IncompleteProof"
  ELSE IF child.node \in Small THEN "NonCanonicalChildReference"
  ELSE "none"

Reached(child) == IF child.via = "hash" THEN {child.node} ELSE {}

\* KeyPath::push and append stop at the widest canonical key.
WidthError(path) == IF Len(path) > Width THEN "UnsupportedIndexWidth" ELSE "none"

RecordError(key) ==
  IF ~IsKey(key) THEN "InvalidReceiptIndex"
  ELSE IF ~Lt(previous, key) THEN "NonIncreasingKeys"
  ELSE IF count = MaxU64 THEN "CountOverflow"
  ELSE "none"

VisitError(key, value) ==
  First(RecordError(key), IF value # Good THEN "Callback" ELSE "none")

\* Indices::record, then the callback.
Record(key) ==
  /\ count' = count + 1
  /\ max' = IF IndexOf(key) > max THEN IndexOf(key) ELSE max
  /\ previous' = key
  /\ visited' = Append(visited, IndexOf(key))

Popping(kind) ==
  phase = "walk" /\ next = -1 /\ stack # <<>> /\ Body[Top.node].kind = kind

VisitLeaf ==
  /\ Popping("leaf")
  /\ LET b == Body[Top.node]
         key == Top.prefix \o b.path
     IN  Unless(First(WidthError(key), VisitError(key, b.value)),
           /\ Record(key)
           /\ stack' = Tail(stack)
           /\ UNCHANGED <<corpus, phase, error, used, frame, next, lookup>>)

VisitExtension ==
  /\ Popping("ext")
  /\ LET b == Body[Top.node]
         path == Top.prefix \o b.path
     IN  Unless(First(WidthError(path), ChildError(b.child)),
           /\ stack' = <<[node |-> b.child.node, prefix |-> path]>> \o Tail(stack)
           /\ used' = used \cup Reached(b.child)
           /\ UNCHANGED <<corpus, phase, error, frame, next, indices, lookup>>)

\* A branch first gives its own value, if it has one, then pushes its children.
Bare(b) == b.value = NoValue

BranchError(b) ==
  IF Bare(b)
  THEN IF \A c \in Nibble : b.children[c] = NoChild THEN "NonCanonicalEmptyTrie" ELSE "none"
  ELSE VisitError(Top.prefix, b.value)

VisitBranch ==
  /\ Popping("branch")
  /\ LET b == Body[Top.node]
     IN  Unless(BranchError(b),
           /\ IF Bare(b) THEN UNCHANGED indices ELSE Record(Top.prefix)
           /\ frame' = Top /\ next' = Radix - 1
           /\ stack' = Tail(stack)
           /\ UNCHANGED <<corpus, phase, error, used, lookup>>)

VisitInvalid == Popping("invalid") /\ Reject("InvalidNode")

\* Mutant: the loop does not go past a missing child.
SkipChildStays ==
  /\ phase = "walk" /\ next >= 0
  /\ Body[frame.node].children[next] = NoChild
  /\ next' = next
  /\ UNCHANGED <<corpus, phase, error, used, stack, frame, indices, lookup>>

\* The loop goes from the last child to the first, so they pop in key order.
SkipChild ==
  /\ phase = "walk" /\ next >= 0
  /\ Body[frame.node].children[next] = NoChild
  /\ next' = next - 1
  /\ UNCHANGED <<corpus, phase, error, used, stack, frame, indices, lookup>>

\* Mutant: an entry already used is not visited again.
PushChildOnce ==
  /\ phase = "walk" /\ next >= 0
  /\ LET child == Body[frame.node].children[next]
         path  == Append(frame.prefix, next)
     IN  /\ child # NoChild
         /\ Unless(First(WidthError(path), ChildError(child)),
              /\ stack' = IF child.node \in used THEN stack
                          ELSE <<[node |-> child.node, prefix |-> path]>> \o stack
              /\ used' = used \cup Reached(child)
              /\ next' = next - 1
              /\ UNCHANGED <<corpus, phase, error, frame, indices, lookup>>)

PushChild ==
  /\ phase = "walk" /\ next >= 0
  /\ LET child == Body[frame.node].children[next]
         path  == Append(frame.prefix, next)
     IN  /\ child # NoChild
         /\ Unless(First(WidthError(path), ChildError(child)),
              /\ stack' = <<[node |-> child.node, prefix |-> path]>> \o stack
              /\ used' = used \cup Reached(child)
              /\ next' = next - 1
              /\ UNCHANGED <<corpus, phase, error, frame, indices, lookup>>)

(***************************************************************************)
(* The stack is empty: density, no leftovers, then the terminal exclusion. *)
(***************************************************************************)
\* Mutant: the largest index is not compared with the count.
FinishErrorSparse ==
  IF count = 0 THEN "NonCanonicalEmptyTrie"
  ELSE IF ~(Supplied \subseteq used) THEN "UnusedWitnessNode"
  ELSE "none"

FinishError ==
  IF count = 0 THEN "NonCanonicalEmptyTrie"
  ELSE IF max # count - 1 THEN "NonDenseIndices"
  ELSE IF ~(Supplied \subseteq used) THEN "UnusedWitnessNode"
  ELSE "none"

FinishWalk ==
  /\ phase = "walk" /\ next = -1 /\ stack = <<>>
  /\ Unless(FinishError,
       /\ phase' = "probe"
       /\ proof' = <<corpus.root>> /\ at' = corpus.root /\ position' = 0
       /\ UNCHANGED <<corpus, error, used, stack, frame, next, indices, cursor>>)

NextKey == ReceiptKey[count]
NodeError == IF Body[at].kind = "invalid" THEN "InvalidNode" ELSE "none"

\* The child the lookup of the next key takes from the node it is at, if any.
Taken ==
  LET b == Body[at]
  IN  CASE b.kind = "branch" ->
             IF position = Len(NextKey) THEN NoChild ELSE b.children[NextKey[position + 1]]
        [] b.kind = "ext" -> IF Matches(b.path, NextKey, position) THEN b.child ELSE NoChild
        [] OTHER -> NoChild

\* The lookup moves to that child, past a branch's nibble or an extension's path.
Descend ==
  /\ at' = Taken.node
  /\ position' = position + (IF Body[at].kind = "ext" THEN Len(Body[at].path) ELSE 1)

\* path_proof: keep the hashed nodes on the way.
ProbeStep ==
  /\ phase = "probe" /\ Taken # NoChild
  /\ Unless(First(NodeError, ChildError(Taken)),
       /\ Descend
       /\ proof' = IF Taken.via = "hash" THEN Append(proof, Taken.node) ELSE proof
       /\ used' = used \cup Reached(Taken)
       /\ UNCHANGED <<corpus, phase, error, stack, frame, next, indices, cursor>>)

ProbeEnd ==
  /\ phase = "probe" /\ Taken = NoChild
  /\ Unless(NodeError,
       /\ phase' = "verify"
       /\ at' = proof[1] /\ position' = 0 /\ cursor' = 1
       /\ UNCHANGED <<corpus, error, used, stack, frame, next, indices, proof>>)

\* verify_raw: each hashed child must be the next entry of the proof; an inline
\* child may be repeated there, and is then consumed.
FollowError(child) ==
  IF child.via = "inline" THEN "none"
  ELSE IF cursor = Len(proof) THEN "IncompleteProof"
  ELSE IF proof[cursor + 1] # child.node THEN "HashMismatch"
  ELSE IF child.node \in Small THEN "NonCanonicalChildReference"
  ELSE "none"

\* Mutant: only a repeated inline child moves the cursor.
ConsumesInline(child) ==
  child.via = "inline" /\ cursor < Len(proof) /\ proof[cursor + 1] = child.node

Consumes(child) == cursor < Len(proof) /\ proof[cursor + 1] = child.node

VerifyStep ==
  /\ phase = "verify" /\ Taken # NoChild
  /\ Unless(First(NodeError, FollowError(Taken)),
       /\ Descend
       /\ cursor' = IF Consumes(Taken) THEN cursor + 1 ELSE cursor
       /\ UNCHANGED <<corpus, phase, error, used, stack, frame, next, indices, proof>>)

\* The lookup has stopped: is the key there?
Present ==
  LET b == Body[at]
  IN  \/ b.kind = "branch" /\ position = Len(NextKey) /\ b.value # NoValue
      \/ b.kind = "leaf" /\ Matches(b.path, NextKey, position)
                         /\ position + Len(b.path) = Len(NextKey)

VerdictError ==
  IF cursor # Len(proof) THEN "TrailingProofNodes"
  ELSE IF Present THEN "NextIndexPresent"
  ELSE "none"

VerifyEnd ==
  /\ phase = "verify" /\ Taken = NoChild
  /\ Unless(First(NodeError, VerdictError), Accept)

Next ==
  \/ EmptyTrie \/ Start
  \/ VisitLeaf \/ VisitExtension \/ VisitBranch \/ VisitInvalid
  \/ SkipChild \/ PushChild
  \/ FinishWalk \/ ProbeStep \/ ProbeEnd \/ VerifyStep \/ VerifyEnd

\* One thread runs the walk to its end; nothing else can stop it.
Spec == Init /\ [][Next]_vars /\ WF_vars(Next)

-----------------------------------------------------------------------------
(***************************************************************************)
(* What the walk promises.  Reach[n] is the reference meaning of a node:   *)
(* the keys below it, defined by what a trie is, with no order, no stack   *)
(* and no corpus.  Hashing makes the graph acyclic, so the equations below *)
(* have one solution.                                                      *)
(***************************************************************************)
Under(prefix, keys) == {prefix \o k : k \in keys}

BranchKeys(b) ==
  (IF Bare(b) THEN {} ELSE {<<>>})
    \cup UNION {Under(<<c>>, Reach[b.children[c].node]) :
                  c \in {c \in Nibble : b.children[c] # NoChild}}

ASSUME ReachAssumption ==
  /\ Reach \in [Node -> SUBSET Path]
  /\ \A n \in Node :
       LET b == Body[n]
       IN  /\ b.kind = "leaf" => Reach[n] = {b.path}
           /\ b.kind = "ext" => Reach[n] = Under(b.path, Reach[b.child.node])
           /\ b.kind = "branch" => Reach[n] = BranchKeys(b)
           /\ b.kind = "invalid" => Reach[n] = {}

ChildHashes(child) == Reached(child) \cup Hashed[child.node]

ASSUME HashedAssumption ==
  /\ Hashed \in [Node -> SUBSET Node]
  /\ \A n \in Node :
       LET b == Body[n]
       IN  /\ b.kind \in {"leaf", "invalid"} => Hashed[n] = {}
           /\ b.kind = "ext" => Hashed[n] = ChildHashes(b.child)
           /\ b.kind = "branch" => Hashed[n] =
                UNION {ChildHashes(b.children[c]) : c \in {c \in Nibble : b.children[c] # NoChild}}

Seen == {visited[i] : i \in DOMAIN visited}

\* An accepted walk has given the callback each index of 0..count-1 exactly once
\* (receipts.rs: "prove its canonical indices are exactly 0..m-1").
AcceptedIsDense ==
  phase = "accepted" =>
    /\ Len(visited) = count
    /\ Seen = 0..(count - 1)

\* An accepted walk has visited every key below the root, however often a node is
\* shared, and nothing else ("Every reference is traversed at its own path").
AcceptedIsComplete ==
  phase = "accepted" =>
    {ReceiptKey[i] : i \in Seen} = Reach[corpus.root]

\* The corpus of an accepted walk is determined by its root: the root and the
\* hashed nodes below it, each once ("Every supplied node must be reachable").
AcceptedCorpusIsExact ==
  (phase = "accepted" /\ corpus.root # EmptyNode) =>
    /\ Supplied = {corpus.root} \cup Hashed[corpus.root]
    /\ Len(corpus.nodes) = Cardinality(Supplied)

\* Once the walk is dense and complete, path_proof finds a lookup proof and
\* verify_raw accepts it as an exclusion: the two lookups never disagree.
ExclusionNeverFails == [][(phase \in {"probe", "verify"}) => (phase' # "rejected")]_vars

\* The walk ends on every input, a verdict being its only way to end.
Termination == <>(phase \in {"accepted", "rejected"})
=============================================================================
