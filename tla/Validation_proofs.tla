-------------------------- MODULE Validation_proofs --------------------------
(***************************************************************************)
(* The two checks the client library makes of what it is handed.           *)
(*                                                                         *)
(* What MerkleProof shows of every trie, every root, every key and every   *)
(* list of nodes: the verifier stays within the key and the list, and a    *)
(* value it returns is the one the trie of the root holds at the key.      *)
(* Holds is any relation closed under the trie equations (TrieAssumption), *)
(* so what is shown holds of the least one, which is what a trie means.    *)
(* And the list it accepts is the way the trie goes to the key.            *)
(*                                                                         *)
(* What TermsValidation shows of all terms: what either validator accepts  *)
(* counts a swap for one entrant at most, and they differ in one rule.     *)
(***************************************************************************)
EXTENDS MerkleProof, TermsValidation, SequenceTheorems, TLAPS

\* Both indices of the code's loop are in range, so that the tests of encodedNode and
\* of keyIndex > key.length at the head of the loop never fail.
TypeOK ==
  /\ claim \in Claims
  /\ index \in 0..Len(claim.proof)
  /\ keyIndex \in 0..Len(claim.key)

\* What the expected node holds at the rest of the key, the root holds at the key.
ReachInv ==
  result = Open =>
    \A v : <<Remainder, v>> \in Holds[expected.node] => <<claim.key, v>> \in Holds[claim.root]

\* A log is one of a successful receipt that the trie of the root holds at the key.
LogIsCommitted ==
  result.at = "log" =>
    \E v : /\ <<claim.key, v>> \in Holds[claim.root]
           /\ Receipt[v] # NoReceipt /\ Receipt[v].status = 1
           /\ claim.log \in DOMAIN Receipt[v].logs
           /\ result.log = Receipt[v].logs[claim.log]

IInv == TypeOK /\ ReachInv /\ VerifiedIsCommitted /\ LogIsCommitted

-----------------------------------------------------------------------------
(***************************************************************************)
(* The rest of a key.                                                      *)
(***************************************************************************)
Rest(key, k) == SubSeq(key, k + 1, Len(key))

LEMMA RestFacts ==
  ASSUME NEW key \in Path, NEW k \in 0..Len(key)
  PROVE  /\ Rest(key, k) \in Path /\ Len(Rest(key, k)) = Len(key) - k
         /\ \A i \in 1..(Len(key) - k) : Rest(key, k)[i] = key[k + i]
BY DEF Rest, Path

\* A path the rest begins with, and what is left behind it.
LEMMA RestSplits ==
  ASSUME NEW key \in Path, NEW k \in 0..Len(key), NEW path \in Path,
         Len(path) <= Len(key) - k,
         \A i \in 1..Len(path) : path[i] = key[k + i]
  PROVE  Rest(key, k) = path \o Rest(key, k + Len(path))
<1> DEFINE left == Rest(key, k)
           right == Rest(key, k + Len(path))
<1>1. Len(path) \in Nat /\ Len(key) \in Nat /\ k + Len(path) \in 0..Len(key) BY DEF Path
<1>2. /\ left \in Seq(Nibble) /\ Len(left) = Len(key) - k
      /\ \A i \in 1..(Len(key) - k) : left[i] = key[k + i]
  BY RestFacts DEF Path
<1>3. /\ right \in Seq(Nibble) /\ Len(right) = Len(key) - (k + Len(path))
      /\ \A i \in 1..(Len(key) - (k + Len(path))) : right[i] = key[(k + Len(path)) + i]
  BY <1>1, RestFacts DEF Path
<1> HIDE DEF left, right
<1>4. /\ path \o right \in Seq(Nibble) /\ Len(path \o right) = Len(path) + Len(right)
      /\ \A i \in 1..(Len(path) + Len(right)) :
           (path \o right)[i] = IF i <= Len(path) THEN path[i] ELSE right[i - Len(path)]
  BY <1>3, ConcatProperties DEF Path
<1>5. Len(path \o right) = Len(left) BY <1>1, <1>2, <1>3, <1>4
<1>6. ASSUME NEW i \in 1..Len(left) PROVE left[i] = (path \o right)[i]
  <2>1. i \in Int /\ 1 <= i /\ i <= Len(key) - k /\ left[i] = key[k + i] BY <1>1, <1>2
  <2>2. (path \o right)[i] = IF i <= Len(path) THEN path[i] ELSE right[i - Len(path)]
    BY <1>2, <1>4, <1>5
  <2>3. CASE i <= Len(path) BY <2>1, <2>2, <2>3, <1>1
  <2>4. CASE ~(i <= Len(path))
    <3>1. i - Len(path) \in 1..(Len(key) - (k + Len(path))) BY <2>1, <2>4, <1>1
    <3>2. right[i - Len(path)] = key[(k + Len(path)) + (i - Len(path))] BY <1>3, <3>1
    <3>3. (k + Len(path)) + (i - Len(path)) = k + i BY <2>1, <1>1
    <3> QED BY <2>1, <2>2, <2>4, <3>2, <3>3
  <2> QED BY <2>3, <2>4
<1> QED BY <1>2, <1>4, <1>5, <1>6, SeqEqual DEF left, right

LEMMA ClaimFacts ==
  ASSUME TypeOK
  PROVE  /\ claim.key \in Path /\ claim.proof \in Seq(Node)
         /\ Len(claim.key) \in Nat /\ Len(claim.proof) \in Nat
         /\ index \in Nat /\ keyIndex \in Nat /\ keyIndex <= Len(claim.key)
         /\ Remainder = Rest(claim.key, keyIndex)
<1>1. claim.key \in Path /\ claim.proof \in Seq(Node) BY ClaimAssumption DEF TypeOK
<1> QED BY <1>1 DEF TypeOK, Remainder, Rest, Path

\* The node read is the expected one, and the rest of the key is what it is asked for.
LEMMA ReadingFacts ==
  ASSUME TypeOK, NEW kind, Reading(kind)
  PROVE  /\ Here \in Node /\ expected.node = Here /\ result = Open
         /\ index + 1 \in 0..Len(claim.proof) /\ Body[Here].kind = kind
<1>1. index + 1 \in 1..Len(claim.proof) BY ClaimFacts DEF Reading
<1>2. Here \in Node BY <1>1, ClaimFacts DEF Here
<1>3. expected.node = Here BY DEF Reading, Actual, ByHash, Inline
<1> QED BY <1>1, <1>2, <1>3 DEF Reading

LEMMA FailStep ==
  ASSUME IInv, Fail
  PROVE  IInv'
BY DEF IInv, TypeOK, ReachInv, VerifiedIsCommitted, LogIsCommitted, Fail, Failed, Open,
       Remainder

\* A value of the node read is committed, whatever made it one.
LEMMA ReturnStep ==
  ASSUME IInv, result = Open, NEW v, Return(v), <<Remainder, v>> \in Holds[expected.node]
  PROVE  IInv'
<1>1. <<claim.key, v>> \in Holds[claim.root] BY DEF IInv, ReachInv
<1>2. TypeOK' BY DEF IInv, TypeOK, Return
<1>3. ReachInv' BY DEF ReachInv, Return, Value, Open
<1>4. VerifiedIsCommitted' BY <1>1 DEF VerifiedIsCommitted, Return, Value
<1>5. LogIsCommitted' BY DEF LogIsCommitted, Return, Value
<1> QED BY <1>2, <1>3, <1>4, <1>5 DEF IInv

\* A child at the end of a path that the rest of the key begins with.
LEMMA FollowStep ==
  ASSUME IInv, result = Open, NEW child, NEW path \in Path, Follow(child, Len(path)),
         index + 1 \in 0..Len(claim.proof),
         Len(path) <= Len(claim.key) - keyIndex,
         \A i \in 1..Len(path) : path[i] = claim.key[keyIndex + i],
         Extends(path, child, expected.node)
  PROVE  IInv'
<1>1. CASE ~Follows(child)
  <2>1. Fail BY <1>1 DEF Follow
  <2> QED BY <2>1, FailStep
<1>2. CASE Follows(child)
  <2>1. /\ expected' = child /\ index' = index + 1 /\ keyIndex' = keyIndex + Len(path)
        /\ claim' = claim /\ result' = result /\ child.via # "none"
    BY <1>2 DEF Follow, Follows
  <2>2. Len(path) \in Nat BY DEF Path
  <2>3. TypeOK' BY <2>1, <2>2, ClaimFacts DEF IInv, TypeOK
  <2>4. Remainder = path \o Remainder'
    <3>1. Rest(claim.key, keyIndex) = path \o Rest(claim.key, keyIndex + Len(path))
      <4>1. claim.key \in Path /\ keyIndex \in 0..Len(claim.key) BY ClaimFacts DEF IInv, TypeOK
      <4> QED BY <4>1, RestSplits
    <3>2. Remainder' = Rest(claim.key, keyIndex + Len(path)) BY <2>1 DEF Remainder, Rest
    <3> QED BY <3>1, <3>2, ClaimFacts DEF IInv
  <2>5. ReachInv'
    <3>1. ASSUME NEW v, <<Remainder', v>> \in Holds[child.node]
          PROVE  <<claim.key, v>> \in Holds[claim.root]
      <4>1. <<path \o Remainder', v>> \in Holds[expected.node]
        <5>1. PICK p : p = <<Remainder', v>> OBVIOUS
        <5>2. p[1] = Remainder' /\ p[2] = v BY <5>1
        <5>3. <<path \o p[1], p[2]>> \in Holds[expected.node] BY <2>1, <3>1, <5>1 DEF Extends
        <5> QED BY <5>2, <5>3
      <4> QED BY <2>4, <4>1 DEF IInv, ReachInv
    <3> QED BY <2>1, <3>1 DEF ReachInv
  <2>6. VerifiedIsCommitted' BY <2>1 DEF VerifiedIsCommitted, Open
  <2>7. LogIsCommitted' BY <2>1 DEF LogIsCommitted, Open
  <2> QED BY <2>3, <2>5, <2>6, <2>7 DEF IInv
<1> QED BY <1>1, <1>2

LEMMA BeginsFacts ==
  ASSUME TypeOK, NEW path \in Path, Begins(path)
  PROVE  /\ Len(path) \in Nat /\ Len(path) <= Len(claim.key) - keyIndex
         /\ \A i \in 1..Len(path) : path[i] = claim.key[keyIndex + i]
<1>1. Len(path) \in Nat BY DEF Path
<1>2. /\ Remainder \in Path /\ Len(Remainder) = Len(claim.key) - keyIndex
      /\ \A i \in 1..(Len(claim.key) - keyIndex) : Remainder[i] = claim.key[keyIndex + i]
  <2>1. claim.key \in Path /\ keyIndex \in 0..Len(claim.key) BY ClaimFacts DEF TypeOK
  <2> QED BY <2>1, RestFacts, ClaimFacts
<1>3. \A i \in 1..Len(path) : SubSeq(Remainder, 1, Len(path))[i] = Remainder[i]
  BY <1>1, <1>2 DEF Begins, Path
<1>4. Len(path) <= Len(claim.key) - keyIndex BY <1>2 DEF Begins
<1>5. SubSeq(Remainder, 1, Len(path)) = path BY DEF Begins
<1>6. ASSUME NEW i \in 1..Len(path) PROVE path[i] = claim.key[keyIndex + i]
  <2>1. path[i] = Remainder[i] BY <1>3, <1>5
  <2>2. Len(claim.key) - keyIndex \in Int BY ClaimFacts
  <2>3. i \in 1..(Len(claim.key) - keyIndex) BY <1>1, <1>4, <2>2
  <2> QED BY <1>2, <2>1, <2>3
<1> QED BY <1>1, <1>4, <1>6

-----------------------------------------------------------------------------
LEMMA ReadBranchStep ==
  ASSUME IInv, ReadBranch
  PROVE  IInv'
<1>1. TypeOK /\ Reading("branch") BY DEF IInv, ReadBranch
<1>2. /\ Here \in Node /\ expected.node = Here /\ result = Open
      /\ index + 1 \in 0..Len(claim.proof) /\ Body[Here].kind = "branch"
  BY <1>1, ReadingFacts
<1>3. CASE ~AtEnd
  <2> DEFINE c == claim.key[keyIndex + 1]
  <2>1. keyIndex + 1 \in 1..Len(claim.key) BY <1>1, <1>3, ClaimFacts DEF AtEnd
  <2>2. c \in Nibble BY <1>1, <2>1, ClaimFacts DEF Path
  <2>3. Follow(Body[Here].children[c], 1) BY <1>3 DEF ReadBranch
  <2> HIDE DEF c
  <2>4. /\ <<c>> \in Path /\ Len(<<c>>) = 1 /\ 1 <= Len(claim.key) - keyIndex
        /\ \A i \in 1..1 : <<c>>[i] = claim.key[keyIndex + i]
    <3>1. <<c>> \in Path /\ Len(<<c>>) = 1 /\ <<c>>[1] = c BY <2>2 DEF Path
    <3>2. \A i \in 1..1 : i = 1 OBVIOUS
    <3> QED BY <1>1, <2>1, <3>1, <3>2, ClaimFacts DEF c
  <2>5. Extends(<<c>>, Body[Here].children[c], Here) BY <1>2, <2>2, TrieAssumption
  <2> QED BY <1>2, <2>3, <2>4, <2>5, FollowStep
<1>4. CASE AtEnd
  <2> DEFINE v == Body[Here].value
  <2>1. CASE ~Returnable(v)
    <3>1. Fail BY <1>4, <2>1 DEF ReadBranch
    <3> QED BY <3>1, FailStep
  <2>2. CASE Returnable(v)
    <3>1. Return(v) BY <1>4, <2>2 DEF ReadBranch
    <3>2. Remainder = <<>>
      <4>1. keyIndex = Len(claim.key) BY <1>4 DEF AtEnd
      <4> QED BY <1>1, <4>1, ClaimFacts DEF Remainder, Path
    <3>3. <<<<>>, v>> \in Holds[Here] BY <1>2, <2>2, TrieAssumption DEF Keeps, Returnable
    <3> QED BY <1>2, <3>1, <3>2, <3>3, ReturnStep
  <2> QED BY <2>1, <2>2
<1> QED BY <1>3, <1>4

LEMMA ReadLeafStep ==
  ASSUME IInv, ReadLeaf
  PROVE  IInv'
<1> DEFINE path == Body[Here].path
           v == Body[Here].value
<1>1. TypeOK /\ Reading("leaf") BY DEF IInv, ReadLeaf
<1>2. /\ Here \in Node /\ expected.node = Here /\ result = Open /\ Body[Here].kind = "leaf"
  BY <1>1, ReadingFacts
<1>3. CASE ~(LeafMatches(path) /\ Returnable(v))
  <2>1. Fail BY <1>3 DEF ReadLeaf
  <2> QED BY <2>1, FailStep
<1>4. CASE LeafMatches(path) /\ Returnable(v)
  <2>1. Return(v) BY <1>4 DEF ReadLeaf
  <2>2. path \in Path BY <1>2, TrieAssumption
  <2>3. Remainder = path
    <3>1. Remainder \in Path
      <4>1. claim.key \in Path /\ keyIndex \in 0..Len(claim.key) BY <1>1, ClaimFacts DEF TypeOK
      <4> QED BY <1>1, <4>1, RestFacts, ClaimFacts
    <3>2. Len(Remainder) = Len(path) /\ SubSeq(Remainder, 1, Len(path)) = path
      BY <1>4 DEF LeafMatches, Begins
    <3> HIDE DEF path
    <3>3. SubSeq(Remainder, 1, Len(Remainder)) = Remainder BY <3>1 DEF Path
    <3> QED BY <3>2, <3>3
  <2>4. <<path, v>> \in Holds[Here] BY <1>2, <1>4, TrieAssumption DEF Keeps, Returnable
  <2> QED BY <1>2, <2>1, <2>3, <2>4, ReturnStep
<1> QED BY <1>3, <1>4

LEMMA ReadExtensionStep ==
  ASSUME IInv, ReadExtension
  PROVE  IInv'
<1> DEFINE path == Body[Here].path
<1>1. TypeOK /\ Reading("ext") BY DEF IInv, ReadExtension
<1>2. /\ Here \in Node /\ expected.node = Here /\ result = Open
      /\ index + 1 \in 0..Len(claim.proof) /\ Body[Here].kind = "ext"
  BY <1>1, ReadingFacts
<1>3. CASE ~Begins(path)
  <2>1. Fail BY <1>3 DEF ReadExtension
  <2> QED BY <2>1, FailStep
<1>4. CASE Begins(path)
  <2>1. Follow(Body[Here].child, Len(path)) BY <1>4 DEF ReadExtension
  <2>2. path \in Path /\ Extends(path, Body[Here].child, Here) BY <1>2, TrieAssumption
  <2> HIDE DEF path
  <2>3. /\ Len(path) <= Len(claim.key) - keyIndex
        /\ \A i \in 1..Len(path) : path[i] = claim.key[keyIndex + i]
    BY <1>1, <1>4, <2>2, BeginsFacts
  <2> QED BY <1>2, <2>1, <2>2, <2>3, FollowStep
<1> QED BY <1>3, <1>4

LEMMA ReadLogStep ==
  ASSUME IInv, ReadLog
  PROVE  IInv'
<1> DEFINE r == Receipt[result.value]
<1>1. <<claim.key, result.value>> \in Holds[claim.root]
  BY DEF IInv, VerifiedIsCommitted, ReadLog
<1>2. CASE LogRefused(r, claim.log)
  <2>1. Fail BY <1>2 DEF ReadLog
  <2> QED BY <2>1, FailStep
<1>3. CASE ~LogRefused(r, claim.log)
  <2>1. /\ result' = Entry(r.logs[claim.log])
        /\ UNCHANGED <<claim, index, keyIndex, expected>>
    BY <1>3 DEF ReadLog
  <2>2. TypeOK' BY <2>1 DEF IInv, TypeOK
  <2>3. ReachInv' BY <2>1 DEF ReachInv, Entry, Open
  <2>4. VerifiedIsCommitted' BY <2>1 DEF VerifiedIsCommitted, Entry
  <2>5. LogIsCommitted' BY <1>1, <1>3, <2>1 DEF LogIsCommitted, Entry, LogRefused
  <2> QED BY <2>2, <2>3, <2>4, <2>5 DEF IInv
<1> QED BY <1>2, <1>3

LEMMA InitIInv ==
  ASSUME Init
  PROVE  IInv
<1>1. claim.key \in Path /\ claim.proof \in Seq(Node) BY ClaimAssumption DEF Init
<1>2. TypeOK BY <1>1 DEF Init, TypeOK, Path
<1>3. ReachInv
  <2>1. Remainder = claim.key BY <1>1 DEF Init, Remainder, Path
  <2> QED BY <2>1 DEF Init, ReachInv, ByHash
<1>4. VerifiedIsCommitted /\ LogIsCommitted
  BY DEF Init, VerifiedIsCommitted, LogIsCommitted, Open, Failed
<1> QED BY <1>2, <1>3, <1>4 DEF IInv

LEMMA IInvStep ==
  ASSUME IInv, [Next]_vars
  PROVE  IInv'
<1>1. CASE ReadBranch BY <1>1, ReadBranchStep
<1>2. CASE ReadLeaf BY <1>2, ReadLeafStep
<1>3. CASE ReadExtension BY <1>3, ReadExtensionStep
<1>4. CASE Refuse BY <1>4, FailStep DEF Refuse
<1>5. CASE ReadLog BY <1>5, ReadLogStep
<1>6. CASE UNCHANGED vars
  BY <1>6 DEF vars, IInv, TypeOK, ReachInv, VerifiedIsCommitted, LogIsCommitted, Remainder
<1> QED BY <1>1, <1>2, <1>3, <1>4, <1>5, <1>6 DEF Next

LEMMA IInvHolds == Spec => []IInv
BY InitIInv, IInvStep, PTL DEF Spec

-----------------------------------------------------------------------------
\* The loop of verifyMerklePatriciaValue never reads past the key or the proof.
THEOREM MerkleTypeCorrect == Spec => []TypeOK
<1>1. IInv => TypeOK BY DEF IInv
<1> QED BY IInvHolds, <1>1, PTL

\* Whatever list of nodes verifyMerklePatriciaValue is handed, the value it returns is one
\* the trie of the root holds at the key.
THEOREM VerifiedValuesAreCommitted == Spec => []VerifiedIsCommitted
<1>1. IInv => VerifiedIsCommitted BY DEF IInv
<1> QED BY IInvHolds, <1>1, PTL

\* The log verifyReceiptLog returns is the one at its place in a successful receipt that
\* the trie of the root holds at the key.
THEOREM VerifiedLogsAreCommitted == Spec => []LogIsCommitted
<1>1. IInv => LogIsCommitted BY DEF IInv
<1> QED BY IInvHolds, <1>1, PTL

-----------------------------------------------------------------------------
(***************************************************************************)
(* The way to a key.  While the verifier is not done it stands on the way, *)
(* and has read what is there and nothing else.                            *)
(***************************************************************************)
OnTheWay(at) ==
  /\ index < Len(claim.built) /\ keyIndex = at[index + 1]
  /\ expected = Actual(index + 1, claim.built[index + 1])
  /\ \A i \in 1..index : claim.proof[i] = claim.built[i]

WayEnd == Body[claim.built[Len(claim.built)]].value

Concludes ==
  /\ result.at \in {"value", "log"} => claim.proof = claim.built
  /\ result.at = "value" => result.value = WayEnd
  /\ result.at = "log" =>
       ~LogRefused(Receipt[WayEnd], claim.log) /\ result.log = Receipt[WayEnd].logs[claim.log]
  /\ result = Failed /\ claim.proof = claim.built =>
       LimitError(claim) \/ LogRefused(Receipt[WayEnd], claim.log)

Way(at) == IsWay(at, claim.root, claim.key, claim.built)

WayInv == \A at : Way(at) => (result = Open => OnTheWay(at)) /\ Concludes

\* An entry that is what the way expects is the way's.
LEMMA WayFacts ==
  ASSUME TypeOK, NEW at, Way(at), OnTheWay(at), NEW kind, Reading(kind)
  PROVE  /\ Here = claim.built[index + 1] /\ Body[Here].kind = kind
         /\ claim.built \in Seq(Node) /\ claim.proof \in Seq(Node)
         /\ index \in Nat /\ index + 1 \in 1..Len(claim.built) /\ index + 1 \in 1..Len(claim.proof)
         /\ index + 1 < Len(claim.built) =>
              /\ Follows(Actual(index + 2, claim.built[index + 2]))
              /\ GoesOn(Here, claim.key, keyIndex, Actual(index + 2, claim.built[index + 2]), at[index + 2])
         /\ index + 1 = Len(claim.built) => EndsAt(Here, claim.key, keyIndex)
<1>1. /\ claim.built \in Seq(Node) /\ claim.proof \in Seq(Node) /\ index \in Nat
      /\ Len(claim.built) \in Nat /\ Len(claim.proof) \in Nat
  BY ClaimAssumption DEF TypeOK
<1>2. index < Len(claim.built) /\ index < Len(claim.proof) BY DEF OnTheWay, Reading
<1>3. index + 1 \in 1..Len(claim.built) /\ index + 1 \in 1..Len(claim.proof) BY <1>1, <1>2
<1>4. Here = claim.built[index + 1]
  BY DEF OnTheWay, Reading, Actual, ByHash, Inline
<1>5. keyIndex = at[index + 1] BY DEF OnTheWay
<1>6. ASSUME index + 1 < Len(claim.built)
      PROVE  /\ Follows(Actual(index + 2, claim.built[index + 2]))
             /\ GoesOn(Here, claim.key, keyIndex, Actual(index + 2, claim.built[index + 2]), at[index + 2])
  <2>1. index + 1 \in 1..(Len(claim.built) - 1) /\ (index + 1) + 1 = index + 2 BY <1>1, <1>6
  <2>2. \A i \in 1..(Len(claim.built) - 1) :
          /\ Follows(Actual(i + 1, claim.built[i + 1]))
          /\ GoesOn(claim.built[i], claim.key, at[i], Actual(i + 1, claim.built[i + 1]), at[i + 1])
    BY DEF Way, IsWay
  <2> QED BY <1>4, <1>5, <2>1, <2>2
<1>7. index + 1 = Len(claim.built) => EndsAt(Here, claim.key, keyIndex)
  BY <1>4, <1>5 DEF Way, IsWay
<1> QED BY <1>1, <1>3, <1>4, <1>6, <1>7 DEF Reading

\* One entry on: the child is the next of the way.
LEMMA WayFollow ==
  ASSUME TypeOK, WayInv, result = Open, NEW child, NEW m, Follow(child, m), NEW kind, Reading(kind),
         \A at : Way(at) => /\ index + 1 < Len(claim.built)
                           /\ child = Actual(index + 2, claim.built[index + 2])
                           /\ keyIndex + m = at[index + 2]
  PROVE  WayInv'
<1>1. claim' = claim
  BY DEF Follow, Fail
<1>2. SUFFICES ASSUME NEW at, Way(at) PROVE (result' = Open => OnTheWay(at)') /\ Concludes'
  BY <1>1 DEF WayInv, Way
<1>3. OnTheWay(at) BY <1>2 DEF WayInv
<1>4. /\ Here = claim.built[index + 1] /\ index \in Nat /\ index + 1 < Len(claim.built)
      /\ Follows(Actual(index + 2, claim.built[index + 2]))
  BY <1>2, <1>3, WayFacts
<1>5. /\ expected' = child /\ index' = index + 1 /\ keyIndex' = keyIndex + m /\ result' = Open
  BY <1>2, <1>4 DEF Follow
<1>6. index' + 1 = index + 2 BY <1>4, <1>5
<1>7. \A i \in 1..index' : claim.proof[i] = claim.built[i]
  <2>1. \A i \in 1..index' : i \in 1..index \/ i = index + 1 BY <1>4, <1>5
  <2> QED BY <1>3, <1>4, <2>1 DEF OnTheWay, Here
<1>8. OnTheWay(at)' BY <1>1, <1>2, <1>4, <1>5, <1>6, <1>7 DEF OnTheWay
<1>9. Concludes' BY <1>5 DEF Concludes, Open, Failed
<1> QED BY <1>8, <1>9

\* Where the way ends, its value is returned if it is the last entry, and if it is not the
\* list is another.
LEMMA WayConcludes ==
  ASSUME TypeOK, WayInv, result = Open, NEW kind, Reading(kind),
         \A at : Way(at) => index + 1 = Len(claim.built),
         \/ Fail /\ (~IsLast \/ \A at : ~Way(at))
         \/ Return(Body[Here].value) /\ IsLast
  PROVE  WayInv'
<1>1. claim' = claim BY DEF Fail, Return
<1>2. SUFFICES ASSUME NEW at, Way(at) PROVE (result' = Open => OnTheWay(at)') /\ Concludes'
  BY <1>1 DEF WayInv, Way
<1>3. OnTheWay(at) BY <1>2 DEF WayInv
<1>4. /\ Here = claim.built[index + 1] /\ index \in Nat /\ index + 1 = Len(claim.built)
      /\ claim.built \in Seq(Node) /\ claim.proof \in Seq(Node)
  BY <1>2, <1>3, WayFacts
<1>5. CASE Fail /\ ~IsLast
  <2>1. claim.proof # claim.built BY <1>4, <1>5 DEF IsLast
  <2> QED BY <1>1, <1>5, <2>1 DEF Fail, Failed, Open, Concludes
<1>6. CASE Return(Body[Here].value) /\ IsLast
  <2>1. Len(claim.proof) = Len(claim.built) BY <1>4, <1>6 DEF IsLast
  <2>2. \A i \in 1..Len(claim.built) : claim.proof[i] = claim.built[i]
    <3>1. \A i \in 1..Len(claim.built) : i \in 1..index \/ i = index + 1 BY <1>4
    <3> QED BY <1>3, <1>4, <3>1 DEF OnTheWay, Here
  <2>3. claim.proof = claim.built
    <3>1. \A s, t \in Seq(Node) : Len(s) = Len(t) /\ (\A i \in 1..Len(t) : s[i] = t[i]) => s = t
      OBVIOUS
    <3> QED BY <1>4, <2>1, <2>2, <3>1
  <2>4. result' = Value(WayEnd) BY <1>4, <1>6 DEF Return, WayEnd
  <2> QED BY <1>1, <2>3, <2>4 DEF Value, Open, Failed, Concludes, WayEnd
<1> QED BY <1>2, <1>5, <1>6

LEMMA WayBranch ==
  ASSUME TypeOK, WayInv, ReadBranch
  PROVE  WayInv'
<1>1. Reading("branch") /\ result = Open BY DEF ReadBranch, Reading
<1>2. /\ keyIndex \in Nat /\ Len(claim.key) \in Nat /\ keyIndex <= Len(claim.key) BY ClaimFacts
<1>3. ASSUME NEW at, Way(at)
      PROVE  IF AtEnd
             THEN index + 1 = Len(claim.built) /\ Body[Here].value # NoValue
             ELSE /\ index + 1 < Len(claim.built) /\ keyIndex + 1 = at[index + 2]
                  /\ Body[Here].children[claim.key[keyIndex + 1]] = Actual(index + 2, claim.built[index + 2])
  <2>1. OnTheWay(at) BY <1>1, <1>3 DEF WayInv
  <2>2. /\ Body[Here].kind = "branch" /\ index \in Nat /\ index + 1 \in 1..Len(claim.built)
        /\ index + 1 < Len(claim.built) =>
             GoesOn(Here, claim.key, keyIndex, Actual(index + 2, claim.built[index + 2]), at[index + 2])
        /\ index + 1 = Len(claim.built) => EndsAt(Here, claim.key, keyIndex)
    BY <1>1, <1>3, <2>1, WayFacts
  <2>3. index + 1 < Len(claim.built) \/ index + 1 = Len(claim.built) BY <2>2
  <2> QED BY <1>2, <2>2, <2>3 DEF GoesOn, EndsAt, AtEnd
<1>4. CASE ~AtEnd
  <2>1. Follow(Body[Here].children[claim.key[keyIndex + 1]], 1) BY <1>4 DEF ReadBranch
  <2> QED BY <1>1, <1>3, <1>4, <2>1, WayFollow
<1>5. CASE AtEnd
  <2>1. CASE Returnable(Body[Here].value)
    <3>1. Return(Body[Here].value) /\ IsLast BY <1>5, <2>1 DEF ReadBranch, Returnable
    <3> QED BY <1>1, <1>3, <1>5, <3>1, WayConcludes
  <2>2. CASE ~Returnable(Body[Here].value)
    <3>1. Fail BY <1>5, <2>2 DEF ReadBranch
    <3>2. ~IsLast \/ \A at : ~Way(at) BY <1>3, <1>5, <2>2 DEF Returnable
    <3> QED BY <1>1, <1>3, <1>5, <3>1, <3>2, WayConcludes
  <2> QED BY <2>1, <2>2
<1> QED BY <1>4, <1>5

LEMMA WayLeaf ==
  ASSUME TypeOK, WayInv, ReadLeaf
  PROVE  WayInv'
<1>1. Reading("leaf") /\ result = Open BY DEF ReadLeaf, Reading
<1>2. ASSUME NEW at, Way(at)
      PROVE  /\ index + 1 = Len(claim.built)
             /\ LeafMatches(Body[Here].path) /\ Body[Here].value # NoValue
  <2>1. OnTheWay(at) BY <1>1, <1>2 DEF WayInv
  <2>2. /\ Body[Here].kind = "leaf" /\ index \in Nat /\ index + 1 \in 1..Len(claim.built)
        /\ index + 1 < Len(claim.built) =>
             GoesOn(Here, claim.key, keyIndex, Actual(index + 2, claim.built[index + 2]), at[index + 2])
        /\ index + 1 = Len(claim.built) => EndsAt(Here, claim.key, keyIndex)
    BY <1>1, <1>2, <2>1, WayFacts
  <2>3. index + 1 = Len(claim.built) BY <2>2 DEF GoesOn
  <2>4. Body[Here].path = Remainder /\ Body[Here].value # NoValue BY <2>2, <2>3 DEF EndsAt, Remainder
  <2>5. Remainder \in Path
    <3>1. claim.key \in Path /\ keyIndex \in 0..Len(claim.key) BY ClaimFacts DEF TypeOK
    <3> QED BY <3>1, RestFacts, ClaimFacts
  <2>6. Len(Remainder) <= Len(Remainder) /\ SubSeq(Remainder, 1, Len(Remainder)) = Remainder
    BY <2>5 DEF Path
  <2> QED BY <2>3, <2>4, <2>6 DEF LeafMatches, Begins
<1>3. CASE LeafMatches(Body[Here].path) /\ Returnable(Body[Here].value)
  <2>1. Return(Body[Here].value) /\ IsLast BY <1>3 DEF ReadLeaf, Returnable
  <2> QED BY <1>1, <1>2, <2>1, WayConcludes
<1>4. CASE ~(LeafMatches(Body[Here].path) /\ Returnable(Body[Here].value))
  <2>1. Fail BY <1>4 DEF ReadLeaf
  <2>2. ~IsLast \/ \A at : ~Way(at) BY <1>2, <1>4 DEF Returnable
  <2> QED BY <1>1, <1>2, <2>1, <2>2, WayConcludes
<1> QED BY <1>3, <1>4

LEMMA WayExtension ==
  ASSUME TypeOK, WayInv, ReadExtension
  PROVE  WayInv'
<1> DEFINE path == Body[Here].path
<1>1. Reading("ext") /\ result = Open BY DEF ReadExtension, Reading
<1>2. Here \in Node /\ path \in Path BY <1>1, ReadingFacts, TrieAssumption
<1>3. ASSUME NEW at, Way(at)
      PROVE  /\ index + 1 < Len(claim.built) /\ keyIndex + Len(path) = at[index + 2]
             /\ Body[Here].child = Actual(index + 2, claim.built[index + 2])
             /\ Begins(path)
  <2>1. OnTheWay(at) BY <1>1, <1>3 DEF WayInv
  <2>2. /\ Body[Here].kind = "ext" /\ index \in Nat /\ index + 1 \in 1..Len(claim.built)
        /\ index + 1 < Len(claim.built) =>
             GoesOn(Here, claim.key, keyIndex, Actual(index + 2, claim.built[index + 2]), at[index + 2])
        /\ index + 1 = Len(claim.built) => EndsAt(Here, claim.key, keyIndex)
    BY <1>1, <1>3, <2>1, WayFacts
  <2>3. index + 1 < Len(claim.built) BY <2>2 DEF EndsAt
  <2>4. /\ at[index + 2] = keyIndex + Len(path) /\ keyIndex + Len(path) <= Len(claim.key)
        /\ SubSeq(claim.key, keyIndex + 1, keyIndex + Len(path)) = path
        /\ Body[Here].child = Actual(index + 2, claim.built[index + 2])
    BY <2>2, <2>3 DEF GoesOn
  <2>5. /\ Remainder \in Path /\ Len(Remainder) = Len(claim.key) - keyIndex
        /\ \A i \in 1..(Len(claim.key) - keyIndex) : Remainder[i] = claim.key[keyIndex + i]
    <3>1. claim.key \in Path /\ keyIndex \in 0..Len(claim.key) BY ClaimFacts DEF TypeOK
    <3> QED BY <3>1, RestFacts, ClaimFacts
  <2> HIDE DEF path
  <2>6. PICK n \in Nat : n = Len(path) BY <1>2 DEF Path
  <2>7. n <= Len(Remainder) BY <2>4, <2>5, <2>6, ClaimFacts
  <2>8. \A i \in 1..n : path[i] = claim.key[keyIndex + i]
    <3>1. \A key \in Path : \A k \in Nat : k + n <= Len(key) =>
            \A i \in 1..n : SubSeq(key, k + 1, k + n)[i] = key[k + i]
      BY <2>6 DEF Path
    <3>2. /\ claim.key \in Path /\ keyIndex \in Nat /\ keyIndex + n <= Len(claim.key)
          /\ SubSeq(claim.key, keyIndex + 1, keyIndex + n) = path
      BY <2>4, <2>6, ClaimFacts DEF TypeOK
    <3>3. PICK key \in Path, k \in Nat : key = claim.key /\ k = keyIndex BY <3>2
    <3>4. k + n <= Len(key) /\ SubSeq(key, k + 1, k + n) = path BY <3>2, <3>3
    <3>5. \A i \in 1..n : SubSeq(key, k + 1, k + n)[i] = key[k + i] BY <3>1, <3>3, <3>4
    <3> QED BY <3>3, <3>4, <3>5
  <2>9. SubSeq(Remainder, 1, n) = path
    <3>1. /\ SubSeq(Remainder, 1, n) \in Path /\ Len(SubSeq(Remainder, 1, n)) = n
          /\ \A i \in 1..n : SubSeq(Remainder, 1, n)[i] = Remainder[i]
      BY <2>5, <2>6, <2>7 DEF Path
    <3>2. \A i \in 1..n : SubSeq(Remainder, 1, n)[i] = path[i]
      <4> SUFFICES ASSUME NEW i \in 1..n PROVE Remainder[i] = path[i] BY <3>1
      <4>1. i \in 1..(Len(claim.key) - keyIndex) BY <2>5, <2>6, <2>7, ClaimFacts
      <4> QED BY <2>5, <2>8, <4>1
    <3>3. \A s, t \in Path : Len(s) = Len(t) /\ (\A i \in 1..Len(t) : s[i] = t[i]) => s = t
      BY DEF Path
    <3> QED BY <1>2, <2>6, <3>1, <3>2, <3>3
  <2> QED BY <2>3, <2>4, <2>6, <2>7, <2>9 DEF Begins
<1>4. CASE Begins(path)
  <2>1. Follow(Body[Here].child, Len(path)) BY <1>4 DEF ReadExtension
  <2> QED BY <1>1, <1>3, <2>1, WayFollow
<1>5. CASE ~Begins(path)
  <2>1. Fail BY <1>5 DEF ReadExtension
  <2>2. \A at : ~Way(at) BY <1>3, <1>5
  <2> QED BY <1>1, <2>1, <2>2, WayConcludes
<1> QED BY <1>4, <1>5

\* What is refused before it is read is not on the way.
LEMMA WayRefuse ==
  ASSUME TypeOK, WayInv, Refuse
  PROVE  WayInv'
<1>1. result = Open /\ Fail BY DEF Refuse
<1>2. claim' = claim /\ result' = Failed BY <1>1 DEF Fail
<1>3. SUFFICES ASSUME NEW at, Way(at), claim.proof = claim.built PROVE FALSE
  BY <1>2 DEF WayInv, Way, Concludes, Failed, Open
<1>4. OnTheWay(at) BY <1>1, <1>3 DEF WayInv
<1>5. index # Len(claim.proof) /\ Actual(index + 1, Here) = expected
  <2>1. index \in Nat /\ Len(claim.proof) \in Nat BY ClaimFacts
  <2> QED BY <1>3, <1>4, <2>1 DEF OnTheWay, Here
<1>6. Reading("invalid") BY <1>5 DEF Refuse
<1>7. Body[Here].kind = "invalid" /\ (GoesOn(Here, claim.key, keyIndex,
        Actual(index + 2, claim.built[index + 2]), at[index + 2]) \/ EndsAt(Here, claim.key, keyIndex))
  <2>1. \/ index + 1 < Len(claim.built) \/ index + 1 = Len(claim.built)
    BY <1>3, <1>4, <1>6, WayFacts
  <2> QED BY <1>3, <1>4, <1>6, <2>1, WayFacts
<1> QED BY <1>7 DEF GoesOn, EndsAt

LEMMA WayLog ==
  ASSUME WayInv, ReadLog
  PROVE  WayInv'
<1> DEFINE r == Receipt[result.value]
<1>1. claim' = claim BY DEF ReadLog, Fail
<1>2. SUFFICES ASSUME NEW at, Way(at) PROVE (result' = Open => OnTheWay(at)') /\ Concludes'
  BY <1>1 DEF WayInv, Way
<1>3. result.at = "value" /\ claim.proof = claim.built /\ result.value = WayEnd
  BY <1>2 DEF ReadLog, WayInv, Concludes
<1>4. CASE LogRefused(r, claim.log)
  <2>1. result' = Failed BY <1>4 DEF ReadLog, Fail
  <2> QED BY <1>1, <1>3, <1>4, <2>1 DEF Concludes, WayEnd, Failed, Open
<1>5. CASE ~LogRefused(r, claim.log)
  <2>1. result' = Entry(r.logs[claim.log]) BY <1>5 DEF ReadLog
  <2> QED BY <1>1, <1>3, <1>5, <2>1 DEF Concludes, WayEnd, Entry, Failed, Open
<1> QED BY <1>4, <1>5

LEMMA InitWayInv ==
  ASSUME Init
  PROVE  WayInv
<1>1. claim \in Claims /\ index = 0 /\ keyIndex = 0 /\ expected = ByHash(claim.root) BY DEF Init
<1>2. ASSUME NEW at, Way(at), result = Open PROVE OnTheWay(at)
  <2>1. Len(claim.built) > 0 /\ claim.built[1] = claim.root /\ at[1] = 0 BY <1>2 DEF Way, IsWay
  <2> QED BY <1>1, <2>1 DEF OnTheWay, Actual
<1>3. Concludes BY DEF Init, Concludes, Open, Failed
<1> QED BY <1>2, <1>3 DEF WayInv

LEMMA WayInvStep ==
  ASSUME TypeOK, WayInv, [Next]_vars
  PROVE  WayInv'
<1>1. CASE UNCHANGED vars
  <2>1. /\ claim' = claim /\ index' = index /\ keyIndex' = keyIndex /\ expected' = expected
        /\ result' = result
    BY <1>1 DEF vars
  <2> QED BY <2>1 DEF WayInv, Way, OnTheWay, Concludes, WayEnd
<1> QED BY <1>1, WayBranch, WayLeaf, WayExtension, WayRefuse, WayLog DEF Next

\* In every trie: of all lists of nodes the verifier accepts the way to the key alone,
\* and it accepts that.
THEOREM OnlyTheWayIsAccepted == Spec => []VerifiesExactlyTheBuilt
<1>1. WayInv => VerifiesExactlyTheBuilt
  <2> SUFFICES ASSUME WayInv, NEW at, Way(at) PROVE Concludes
    BY DEF VerifiesExactlyTheBuilt, Leads, Way, Concludes, WayEnd
  <2> QED BY DEF WayInv
<1>2. IInv => TypeOK BY DEF IInv
<1>3. Init => WayInv BY InitWayInv
<1>4. TypeOK /\ WayInv /\ [Next]_vars => WayInv' BY WayInvStep
<1> QED BY IInvHolds, <1>1, <1>2, <1>3, <1>4, PTL DEF Spec

-----------------------------------------------------------------------------
(***************************************************************************)
(* The two validators of terms.  Each check of a slot is the same check,   *)
(* and the checks of the head differ in one: the invariant says what each  *)
(* validator has established, and the rest is arithmetic.                  *)
(***************************************************************************)
\* What a validator has passed, and why it stopped.
Passed(v) ==
  /\ slot[v] > 0 => ~HeadError(v)
  /\ \A i \in 1..terms.entrantCount :
       i < slot[v] => ~(IF v = "core" THEN CoreSlotError(terms, i) ELSE CliSlotError(terms, i))

Verdict(v) ==
  /\ verdict[v] = "accepted" => slot[v] > terms.entrantCount
  /\ verdict[v] = "rejected" =>
       \/ slot[v] = 0 /\ HeadError(v)
       \/ slot[v] \in 1..terms.entrantCount /\ SlotError(v)

TermsTypeOK ==
  /\ terms \in Terms
  /\ slot \in [Validator -> Nat]
  /\ verdict \in [Validator -> {"none", "accepted", "rejected"}]

TermsInv ==
  /\ TermsTypeOK
  /\ \A v \in Validator : Passed(v) /\ Verdict(v)

LEMMA TermsFields ==
  ASSUME NEW t \in Terms
  PROVE  /\ t.entrantCount \in Nat
         /\ t.startBlock \in U64 /\ t.snapshotBlock \in U64 /\ t.bettingCutoff \in U64
         /\ t.confirmationBlocks \in U64 /\ t.quietBlocks \in U64
         /\ t.submissionDeadline \in U64 /\ t.terminalExpiry \in U64 /\ t.historyWindow \in U64
         /\ t.entrants \in Seq(Nat) /\ Len(t.entrants) = MaxEntrants
         /\ t.venues \in Seq(Venue) /\ Len(t.venues) = MaxEntrants
<1>1. t \in TermsType BY TermsValidationAssumption
<1>2. t.entrantCount \in Nat BY <1>1, TermsValidationAssumption DEF TermsType
<1> QED BY <1>1, <1>2, TermsValidationAssumption DEF TermsType, Address

LEMMA SlotFields ==
  ASSUME NEW t \in Terms, NEW i \in 1..MaxEntrants
  PROVE  t.venues[i].currency0 \in Nat /\ t.venues[i].currency1 \in Nat /\ t.entrants[i] \in Nat
<1>1. t.entrants \in Seq(Nat) /\ t.venues \in Seq(Venue) /\ i \in 1..Len(t.venues) /\ i \in 1..Len(t.entrants)
  BY TermsFields
<1>2. t.venues[i] \in Venue BY <1>1
<1>3. t.entrants[i] \in Nat BY <1>1
<1>4. t.venues[i].currency0 \in Nat /\ t.venues[i].currency1 \in Nat BY <1>2 DEF Venue, Address
<1> QED BY <1>3, <1>4

LEMMA SlotChecksAgree ==
  ASSUME NEW t \in Terms, NEW i \in 1..MaxEntrants
  PROVE  CoreSlotError(t, i) <=> CliSlotError(t, i)
<1> PICK v : v = t.venues[i] OBVIOUS
<1> PICK token : token = t.entrants[i] OBVIOUS
<1> PICK raw : raw = Quote(t, i) OBVIOUS
<1> PICK quote : quote = IF raw = Native THEN t.wrappedNative ELSE raw OBVIOUS
<1>1. v.currency0 >= v.currency1 <=> ~(v.currency0 < v.currency1) BY SlotFields
<1>2. raw = IF token = v.currency0 THEN v.currency1 ELSE v.currency0 BY DEF Quote
<1>3. CoreSlotError(t, i) <=>
        \/ token = 0 \/ \E j \in 1..(i - 1) : t.entrants[j] = token
        \/ v.kind # 1 \/ ~v.identified \/ v.hooks = 0 \/ v.minNotional = 0
        \/ v.currency0 >= v.currency1 \/ token \notin {v.currency0, v.currency1}
        \/ v.fee >= DynamicFee
        \/ PoolKey(v) # v.poolId
        \/ \E j \in 1..(i - 1) : t.venues[j].poolId = v.poolId
        \/ quote # t.quoteAsset \/ v.quoteAsset # quote
        \/ raw = Native /\ t.quoteDecimals # 18
  BY <1>2, Zenon DEF CoreSlotError
<1>4. CliSlotError(t, i) <=>
        \/ token \in {0} \cup {t.entrants[j] : j \in 1..(i - 1)}
        \/ v.kind # 1
        \/ ~v.identified \/ 0 \in {v.hooks, v.minNotional}
        \/ ~(v.currency0 < v.currency1) \/ token \notin {v.currency0, v.currency1}
        \/ v.fee >= DynamicFee
        \/ v.poolId # PoolKey(v) \/ v.poolId \in {t.venues[j].poolId : j \in 1..(i - 1)}
        \/ {t.quoteAsset, v.quoteAsset} # {quote}
        \/ raw = Native /\ t.quoteDecimals # 18
  BY Zenon DEF CliSlotError
<1>5. {t.quoteAsset, v.quoteAsset} = {quote} <=> quote = t.quoteAsset /\ v.quoteAsset = quote
  OBVIOUS
<1>6. token \in {0} \cup {t.entrants[j] : j \in 1..(i - 1)} <=>
        token = 0 \/ \E j \in 1..(i - 1) : t.entrants[j] = token
  OBVIOUS
<1>7. v.poolId \in {t.venues[j].poolId : j \in 1..(i - 1)} <=>
        \E j \in 1..(i - 1) : t.venues[j].poolId = v.poolId
  OBVIOUS
<1> QED BY <1>1, <1>3, <1>4, <1>5, <1>6, <1>7, Zenon

LEMMA HeadChecksDiffer ==
  ASSUME NEW t \in Terms
  PROVE  /\ CliHeadError(t) => CoreHeadError(t)
         /\ CoreHeadError(t) => CliHeadError(t) \/ t.snapshotBlock + t.historyWindow > MaxU64
<1>1. MaxU64 \in Nat /\ MinEntrants \in Nat /\ MaxEntrants \in Nat BY TermsValidationAssumption
<1>2. /\ t.startBlock \in 0..MaxU64 /\ t.snapshotBlock \in 0..MaxU64 /\ t.bettingCutoff \in 0..MaxU64
      /\ t.confirmationBlocks \in 0..MaxU64 /\ t.quietBlocks \in 0..MaxU64
      /\ t.submissionDeadline \in 0..MaxU64 /\ t.terminalExpiry \in 0..MaxU64
      /\ t.historyWindow \in 0..MaxU64
  BY TermsFields DEF U64
<1>3. /\ CliTimingError(t) => CoreTimingError(t)
      /\ CoreTimingError(t) => CliTimingError(t) \/ t.snapshotBlock + t.historyWindow > MaxU64
  BY <1>1, <1>2 DEF CliTimingError, CoreTimingError, Overflows
<1>4. (\E i \in (t.entrantCount + 1)..MaxEntrants : t.entrants[i] # 0 \/ t.venues[i] # NoVenue) <=>
      (\E i \in 1..MaxEntrants :
         i > t.entrantCount /\ ~(t.entrants[i] = 0 /\ t.venues[i] = NoVenue))
  BY <1>1, TermsFields
<1>5. t.entrantCount \notin MinEntrants..MaxEntrants <=>
        t.entrantCount < MinEntrants \/ t.entrantCount > MaxEntrants
  BY <1>1, TermsFields
<1> QED BY <1>3, <1>4, <1>5 DEF CliHeadError, CoreHeadError


-----------------------------------------------------------------------------
LEMMA ValidateInitInv == ASSUME ValidateInit PROVE TermsInv
BY DEF ValidateInit, TermsInv, TermsTypeOK, Passed, Verdict

\* A validator that goes on, or stops, leaves the other where it was.
LEMMA MovedOn ==
  ASSUME TermsInv, NEW v \in Validator, verdict[v] = "none", MoveOn(v), UNCHANGED terms,
         \/ slot[v] = 0 /\ ~HeadError(v)
         \/ slot[v] \in 1..terms.entrantCount /\ ~SlotError(v)
  PROVE  TermsInv'
<1> USE DEF TermsInv
<1>1. /\ slot' = [slot EXCEPT ![v] = slot[v] + 1] /\ verdict' = verdict /\ terms' = terms
  BY DEF MoveOn
<1>2. TermsTypeOK' BY <1>1 DEF TermsTypeOK
<1>3. ASSUME NEW w \in Validator, w # v PROVE Passed(w)' /\ Verdict(w)'
  <2>1. slot'[w] = slot[w] /\ verdict'[w] = verdict[w] BY <1>1, <1>3 DEF TermsTypeOK
  <2> QED BY <1>1, <2>1 DEF Passed, Verdict, HeadError, SlotError
<1>4. slot[v] \in Nat /\ slot'[v] = slot[v] + 1 /\ verdict'[v] = "none" BY <1>1 DEF TermsTypeOK
<1>5. Verdict(v)' BY <1>4 DEF Verdict
<1>6. HeadError(v)' <=> HeadError(v) BY <1>1 DEF HeadError
<1>7. ~HeadError(v) BY <1>4 DEF Passed
<1>8. ASSUME NEW i \in 1..terms.entrantCount, i < slot'[v]
      PROVE  ~(IF v = "core" THEN CoreSlotError(terms, i) ELSE CliSlotError(terms, i))
  <2>1. i < slot[v] \/ i = slot[v] BY <1>4, <1>8
  <2>2. CASE i < slot[v] BY <2>2 DEF Passed
  <2>3. CASE i = slot[v] BY <2>3 DEF SlotError
  <2> QED BY <2>1, <2>2, <2>3
<1>9. Passed(v)' BY <1>1, <1>6, <1>7, <1>8 DEF Passed
<1> QED BY <1>2, <1>3, <1>5, <1>9

LEMMA Concluded ==
  ASSUME TermsInv, NEW v \in Validator, NEW r \in {"accepted", "rejected"}, Conclude(v, r),
         UNCHANGED terms,
         r = "accepted" => slot[v] > terms.entrantCount,
         r = "rejected" => \/ slot[v] = 0 /\ HeadError(v)
                           \/ slot[v] \in 1..terms.entrantCount /\ SlotError(v)
  PROVE  TermsInv'
<1> USE DEF TermsInv
<1>1. verdict' = [verdict EXCEPT ![v] = r] /\ slot' = slot /\ terms' = terms BY DEF Conclude
<1>2. TermsTypeOK' BY <1>1 DEF TermsTypeOK
<1>3. \A w \in Validator : verdict'[w] = IF w = v THEN r ELSE verdict[w] BY <1>1 DEF TermsTypeOK
<1>4. ASSUME NEW w \in Validator PROVE Passed(w)' /\ Verdict(w)'
  BY <1>1, <1>3 DEF Passed, Verdict, HeadError, SlotError
<1> QED BY <1>2, <1>4

LEMMA ValidateStep ==
  ASSUME TermsInv, [Validate]_termsVars
  PROVE  TermsInv'
<1>1. CASE UNCHANGED termsVars
  BY <1>1 DEF termsVars, TermsInv, TermsTypeOK, Passed, Verdict, HeadError, SlotError
<1>2. CASE Validate
  <2>1. PICK v \in Validator : verdict[v] = "none" /\ (CheckHead(v) \/ CheckSlot(v) \/ Finish(v))
    BY <1>2 DEF Validate
  <2>2. UNCHANGED terms BY <1>2 DEF Validate
  <2>3. CASE CheckHead(v) BY <2>1, <2>2, <2>3, MovedOn, Concluded DEF CheckHead
  <2>4. CASE CheckSlot(v) BY <2>1, <2>2, <2>4, MovedOn, Concluded DEF CheckSlot
  <2>5. CASE Finish(v) BY <2>2, <2>5, Concluded DEF Finish
  <2> QED BY <2>1, <2>3, <2>4, <2>5
<1> QED BY <1>1, <1>2

LEMMA TermsInvHolds == ValidateSpec => []TermsInv
BY ValidateInitInv, ValidateStep, PTL DEF ValidateSpec

\* What an accepting validator has checked, in the words of the core.
LEMMA AcceptedSlots ==
  ASSUME TermsInv, NEW v \in Validator, Accepts(v)
  PROVE  /\ ~HeadError(v) /\ terms.entrantCount \in MinEntrants..MaxEntrants
         /\ terms.entrantCount \in Nat
         /\ \A i \in 1..terms.entrantCount : ~CoreSlotError(terms, i) /\ ~CliSlotError(terms, i)
<1> USE DEF TermsInv
<1>1. terms \in Terms /\ slot[v] \in Nat /\ slot[v] > terms.entrantCount
  BY DEF Accepts, Verdict, TermsTypeOK
<1>2. MinEntrants \in Nat /\ MaxEntrants \in Nat /\ terms.entrantCount \in Nat
  BY <1>1, TermsFields, TermsValidationAssumption
<1>3. ~HeadError(v) BY <1>1, <1>2 DEF Passed
<1>4. terms.entrantCount \in MinEntrants..MaxEntrants
  BY <1>2, <1>3 DEF HeadError, CoreHeadError, CliHeadError, Validator
<1>5. ASSUME NEW i \in 1..terms.entrantCount PROVE ~CoreSlotError(terms, i) /\ ~CliSlotError(terms, i)
  <2>1. i \in 1..MaxEntrants /\ i < slot[v] BY <1>1, <1>2, <1>4
  <2> QED BY <1>1, <2>1, SlotChecksAgree DEF Passed
<1> QED BY <1>2, <1>3, <1>4, <1>5

\* No list of terms that VolumeTermsV1::validate or validateTerms accepts lets a swap be
\* worth something to two entrants, or be counted in two currencies.
THEOREM AcceptedSlotsAreApart == ValidateSpec => []SlotsDoNotShare
<1>1. TermsInv => SlotsDoNotShare
  <2> SUFFICES ASSUME TermsInv, NEW v \in Validator, Accepts(v)
               PROVE  /\ terms.entrantCount \in MinEntrants..MaxEntrants
                      /\ \A i, j \in 1..terms.entrantCount :
                           /\ i # j => terms.entrants[i] # terms.entrants[j]
                           /\ i # j => PoolKey(terms.venues[i]) # PoolKey(terms.venues[j])
                      /\ \A i \in 1..terms.entrantCount :
                           terms.entrants[i] # Native /\ PoolKey(terms.venues[i]) = terms.venues[i].poolId
                      /\ \A i \in 1..terms.entrantCount :
                           LET pair == {terms.venues[i].currency0, terms.venues[i].currency1}
                           IN  \/ pair = {terms.entrants[i], terms.quoteAsset}
                               \/ /\ pair = {terms.entrants[i], Native}
                                  /\ terms.quoteAsset = terms.wrappedNative /\ terms.quoteDecimals = 18
    BY DEF SlotsDoNotShare
  <2> DEFINE n == terms.entrantCount
  <2>1. n \in MinEntrants..MaxEntrants /\ n \in Nat /\ \A i \in 1..n : ~CoreSlotError(terms, i)
    BY AcceptedSlots
  <2>2. ASSUME NEW i \in 1..n
        PROVE  terms.entrants[i] # Native /\ PoolKey(terms.venues[i]) = terms.venues[i].poolId
    BY <2>1 DEF CoreSlotError, Native
  <2>3. ASSUME NEW i \in 1..n, NEW j \in 1..n, j < i
        PROVE  /\ terms.entrants[i] # terms.entrants[j]
               /\ terms.venues[i].poolId # terms.venues[j].poolId
    <3>1. j \in 1..(i - 1) BY <2>1, <2>3
    <3> QED BY <2>1, <3>1 DEF CoreSlotError
  <2>4. ASSUME NEW i \in 1..n, NEW j \in 1..n, i # j
        PROVE  /\ terms.entrants[i] # terms.entrants[j]
               /\ PoolKey(terms.venues[i]) # PoolKey(terms.venues[j])
    <3>1. i < j \/ j < i BY <2>1, <2>4
    <3> QED BY <2>2, <2>3, <3>1
  <2>5. ASSUME NEW i \in 1..n
        PROVE  LET pair == {terms.venues[i].currency0, terms.venues[i].currency1}
               IN  \/ pair = {terms.entrants[i], terms.quoteAsset}
                   \/ /\ pair = {terms.entrants[i], Native}
                      /\ terms.quoteAsset = terms.wrappedNative /\ terms.quoteDecimals = 18
    <3>1. ~CoreSlotError(terms, i) BY <2>1
    <3> QED BY <3>1 DEF CoreSlotError
  <2> HIDE DEF n
  <2> QED BY <2>1, <2>2, <2>4, <2>5 DEF n
<1> QED BY TermsInvHolds, <1>1, PTL

\* Of any terms: what the guest accepts the CLI accepts, and what only the CLI accepts has a
\* history window that reaches past the last height.
THEOREM ValidatorsDifferInOneRule == ValidateSpec => []ValidatorsAgree
<1>1. TermsInv => ValidatorsAgree
  <2> SUFFICES ASSUME TermsInv, Done
               PROVE  /\ Accepts("core") => Accepts("cli")
                      /\ Accepts("cli") =>
                           Accepts("core") \/ terms.snapshotBlock + terms.historyWindow > MaxU64
    BY DEF ValidatorsAgree
  <2>1. terms \in Terms /\ "core" \in Validator /\ "cli" \in Validator
    BY DEF TermsInv, TermsTypeOK, Validator
  <2>2. ASSUME NEW v \in Validator, ~Accepts(v)
        PROVE  HeadError(v) \/ (slot[v] \in 1..terms.entrantCount /\ SlotError(v))
    BY <2>2 DEF TermsInv, TermsTypeOK, Verdict, Done, Accepts
  <2>3. (HeadError("core") <=> CoreHeadError(terms)) /\ (HeadError("cli") <=> CliHeadError(terms))
    BY DEF HeadError
  <2>4. /\ SlotError("core") <=> CoreSlotError(terms, slot["core"])
        /\ SlotError("cli") <=> CliSlotError(terms, slot["cli"])
    BY DEF SlotError
  <2>5. CASE Accepts("core") /\ ~Accepts("cli")
    BY <2>1, <2>2, <2>3, <2>4, <2>5, AcceptedSlots, HeadChecksDiffer
  <2>6. CASE Accepts("cli") /\ ~Accepts("core")
    BY <2>1, <2>2, <2>3, <2>4, <2>6, AcceptedSlots, HeadChecksDiffer
  <2> QED BY <2>5, <2>6
<1> QED BY TermsInvHolds, <1>1, PTL

=============================================================================
