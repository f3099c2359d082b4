---------------------------- MODULE MerkleProof ----------------------------
(***************************************************************************)
(* verifyMerklePatriciaValue of volume-proof/src/ethereum-state-proof.ts,  *)
(* and verifyReceiptLog of receipt-proof.ts on top of it: a verifier that  *)
(* knows only a root hash is handed a list of node encodings and follows   *)
(* one key through them.                                                   *)
(*                                                                         *)
(* As in ReceiptWalk a node IS its encoding: keccak and RLP are injective, *)
(* and Body is what an encoding decodes to.  A hash of a node and the node *)
(* itself put inline are the two ways an entry of the list can be what the *)
(* node before it asks for.                                                *)
(***************************************************************************)
EXTENDS Integers, Sequences, FiniteSets, FiniteSetsExt

CONSTANTS
  Radix,      \* children of a branch: 16
  Node,       \* every encoding that can be supplied or referenced
  Body,       \* what each encoding decodes to
  Small,      \* the encodings shorter than 32 bytes
  Bytes,      \* the length of each encoding
  MaxNodes, MaxBytes,  \* MAX_PROOF_NODES and MAX_PROOF_BYTES
  Claims,     \* the inputs: [root, key, proof, log], and built, which no code sees: the
              \* proof a builder would make of the key, or none
  Holds,      \* the pairs of key and value below a node: what a trie means
  Receipt,    \* what a value decodes to, by value; no receipt is a failure
  NoValue, NoReceipt

Nibble == 0..(Radix - 1)
Path   == Seq(Nibble)

ASSUME ClaimAssumption ==
  /\ Radix \in Nat /\ MaxNodes \in Nat /\ MaxBytes \in Nat /\ Bytes \in [Node -> Nat] /\ Small \subseteq Node
  /\ \A c \in Claims : c.root \in Node /\ c.key \in Path /\ c.proof \in Seq(Node) /\ c.built \in Seq(Node)

\* What is below a child, or is a node's own, is below the node, at a longer key.
Extends(prefix, child, n) ==
  child.via # "none" => \A p \in Holds[child.node] : <<prefix \o p[1], p[2]>> \in Holds[n]
Keeps(path, value, n) == value # NoValue => <<path, value>> \in Holds[n]

\* The trie equations, as far as they say what a node must hold.
ASSUME TrieAssumption ==
  \A n \in Node :
    /\ Body[n].kind \in {"leaf", "ext", "branch", "invalid"}
    /\ Body[n].kind \in {"leaf", "ext"} => Body[n].path \in Path
    /\ Body[n].kind = "leaf" => Keeps(Body[n].path, Body[n].value, n)
    /\ Body[n].kind = "ext" => Extends(Body[n].path, Body[n].child, n)
    /\ Body[n].kind = "branch" =>
         /\ Keeps(<<>>, Body[n].value, n)
         /\ \A c \in Nibble : Extends(<<c>>, Body[n].children[c], n)

VARIABLES
  claim,      \* the input
  index,      \* entries of the proof consumed
  keyIndex,   \* nibbles of the key consumed
  expected,   \* expectedNode: the reference the next entry must match
  result      \* "open", "failed", or what is returned

vars == <<claim, index, keyIndex, expected, result>>

ByHash(n)  == [via |-> "hash", node |-> n]
Inline(n)  == [via |-> "inline", node |-> n]

Open     == [at |-> "open"]
Failed   == [at |-> "failed"]
Value(v) == [at |-> "value", value |-> v]
Entry(l) == [at |-> "log", log |-> l]

\* validateProof, and the size of the key.
LimitError(c) ==
  \/ c.proof = <<>> \/ Len(c.proof) > MaxNodes \/ c.key = <<>>
  \/ MapThenSumSet(LAMBDA i : Bytes[c.proof[i]], DOMAIN c.proof) > MaxBytes

Init ==
  /\ claim \in Claims
  /\ index = 0 /\ keyIndex = 0 /\ expected = ByHash(claim.root)
  /\ result = IF LimitError(claim) THEN Failed ELSE Open

\* The root entry is hashed whatever its length, a later one when it is long.
Actual(i, n) == IF i = 1 \/ n \notin Small THEN ByHash(n) ELSE Inline(n)

\* The references node `n` may make that an entry can match: a long node put
\* inline is refused, and the empty string is the encoding of no node.
Follows(child) ==
  /\ child.via # "none"
  /\ child.via = "inline" => child.node \in Small

Here      == claim.proof[index + 1]
Remainder == SubSeq(claim.key, keyIndex + 1, Len(claim.key))
AtEnd     == keyIndex = Len(claim.key)
IsLast    == index + 1 = Len(claim.proof)

\* The next entry is there, is what was asked for, and is a node of this kind.
Reading(kind) ==
  /\ result = Open /\ index < Len(claim.proof)
  /\ Actual(index + 1, Here) = expected
  /\ Body[Here].kind = kind

Fail      == result' = Failed /\ UNCHANGED <<claim, index, keyIndex, expected>>
Return(v) == result' = Value(v) /\ UNCHANGED <<claim, index, keyIndex, expected>>

Follow(child, nibbles) ==
  IF Follows(child)
  THEN /\ expected' = child
       /\ index' = index + 1
       /\ keyIndex' = keyIndex + nibbles
       /\ UNCHANGED <<claim, result>>
  ELSE Fail

\* Mutant: entries after the one that holds the value are not looked at.
ReturnableAnywhere(v) == v # NoValue

\* A value is returned only from the last entry, and never an empty one.
Returnable(v) == v # NoValue /\ IsLast

\* A branch where the key ends gives its own value, else the child on the way.
ReadBranch ==
  /\ Reading("branch")
  /\ IF ~AtEnd THEN Follow(Body[Here].children[claim.key[keyIndex + 1]], 1)
     ELSE IF Returnable(Body[Here].value) THEN Return(Body[Here].value)
     ELSE Fail

\* sharedLength covers the whole path of the node.
Begins(path) == Len(path) <= Len(Remainder) /\ SubSeq(Remainder, 1, Len(path)) = path

\* Mutant: a leaf whose path only begins the rest of the key is taken.
LeafMatchesPrefix(path) == Begins(path)

LeafMatches(path) == Begins(path) /\ Len(path) = Len(Remainder)

ReadLeaf ==
  /\ Reading("leaf")
  /\ IF LeafMatches(Body[Here].path) /\ Returnable(Body[Here].value)
     THEN Return(Body[Here].value)
     ELSE Fail

ReadExtension ==
  /\ Reading("ext")
  /\ LET path == Body[Here].path
     IN  IF Begins(path) THEN Follow(Body[Here].child, Len(path)) ELSE Fail

\* Bytes that are no node, an entry nobody asked for, or no entry left.
Refuse ==
  /\ result = Open
  /\ \/ index = Len(claim.proof)
     \/ index < Len(claim.proof) /\ Actual(index + 1, Here) # expected
     \/ Reading("invalid")
  /\ Fail

\* verifyReceiptLog: decode the value, demand success, and take the log.
LogRefused(r, log) == r = NoReceipt \/ r.status # 1 \/ log \notin DOMAIN r.logs

ReadLog ==
  /\ result.at = "value"
  /\ LET r == Receipt[result.value]
     IN  IF LogRefused(r, claim.log) THEN Fail
         ELSE /\ result' = Entry(r.logs[claim.log])
              /\ UNCHANGED <<claim, index, keyIndex, expected>>

Next == ReadBranch \/ ReadLeaf \/ ReadExtension \/ Refuse \/ ReadLog
Spec == Init /\ [][Next]_vars

-----------------------------------------------------------------------------
(***************************************************************************)
(* What a proof proves.                                                    *)
(***************************************************************************)

\* Whatever list of nodes it is handed, the verifier returns only the value the
\* trie of that root holds at that key ("verifies an inclusion proof against a
\* receiptsRoot and returns the receipt bytes").
VerifiedIsCommitted ==
  result.at = "value" => <<claim.key, result.value>> \in Holds[claim.root]

\* From a node, `k` nibbles of the key behind it, the trie goes on by the child with `m`.
GoesOn(n, key, k, child, m) ==
  \/ Body[n].kind = "branch" /\ k < Len(key) /\ m = k + 1 /\ child = Body[n].children[key[k + 1]]
  \/ /\ Body[n].kind = "ext" /\ m = k + Len(Body[n].path) /\ m <= Len(key)
     /\ SubSeq(key, k + 1, m) = Body[n].path /\ child = Body[n].child

\* There the key ends, at a value.
EndsAt(n, key, k) ==
  /\ \/ Body[n].kind = "branch" /\ k = Len(key)
     \/ Body[n].kind = "leaf" /\ Body[n].path = SubSeq(key, k + 1, Len(key))
  /\ Body[n].value # NoValue

\* The nodes on the way from a root to the value of a key, `at` which nibble each.
IsWay(at, root, key, nodes) ==
  LET n == Len(nodes)
  IN  /\ n > 0 /\ nodes[1] = root /\ at[1] = 0
      /\ \A i \in 1..(n - 1) :
           /\ Follows(Actual(i + 1, nodes[i + 1]))
           /\ GoesOn(nodes[i], key, at[i], Actual(i + 1, nodes[i + 1]), at[i + 1])
      /\ EndsAt(nodes[n], key, at[n])

Leads(root, key, nodes) ==
  \E at \in [DOMAIN nodes -> 0..Len(key)] : IsWay(at, root, key, nodes)

\* Of every list of nodes the verifier accepts the way to the key and no other, whole and
\* in order; of that it returns the value at its end and the log that was put in, unless
\* the way is too long or the receipt is none of a success.
VerifiesExactlyTheBuilt ==
  Leads(claim.root, claim.key, claim.built) =>
    LET v == Body[claim.built[Len(claim.built)]].value
    IN  /\ result.at \in {"value", "log"} => claim.proof = claim.built
        /\ result.at = "value" => result.value = v
        /\ result.at = "log" => ~LogRefused(Receipt[v], claim.log) /\ result.log = Receipt[v].logs[claim.log]
        /\ result = Failed /\ claim.proof = claim.built =>
             LimitError(claim) \/ LogRefused(Receipt[v], claim.log)
=============================================================================
