------------------------- MODULE ReceiptWalk_proofs -------------------------
(***************************************************************************)
(* Proofs about the receipts-trie walk, for every alphabet, width and set  *)
(* of corpora: the order of keys, types, density, completeness, the corpus *)
(* used exactly, and the terminal exclusion, which cannot fail.  Last come *)
(* the keys themselves, which meet what the walk assumes of them.          *)
(***************************************************************************)
EXTENDS ReceiptWalk, FiniteSetTheorems, FunctionTheorems, SequenceTheorems,
        WellFoundedInduction, TLAPS

\* The keys, and the path they are read back from.
CONSTANT ValueBytes
VARIABLES keyPath, keyRead
INSTANCE ReceiptKeys

-----------------------------------------------------------------------------
(***************************************************************************)
(* The order of keys.                                                      *)
(***************************************************************************)
\* A path is a sequence of integers.
LEMMA PathIsIntegers ==
  ASSUME NEW a \in Path
  PROVE  Len(a) \in Nat /\ \A i \in 1..Len(a) : a[i] \in Int
<1>1. \A x \in Nibble : x \in Int
  BY RadixAssumption DEF Nibble
<1>2. \A i \in 1..Len(a) : a[i] \in Nibble
  BY DEF Path
<1> QED BY <1>1, <1>2 DEF Path

\* No key precedes itself.
LEMMA LtIrreflexive == ASSUME NEW a \in Path PROVE ~Lt(a, a)
<1> SUFFICES ASSUME Lt(a, a) PROVE FALSE
  OBVIOUS
<1>1. PICK k \in 1..Len(a) : a[k] < a[k]
  BY PathIsIntegers DEF Lt
<1>2. a[k] \in Int
  BY PathIsIntegers
<1> QED BY <1>1, <1>2

\* Byte strings are ordered transitively.
LEMMA LtTransitive ==
  ASSUME NEW a \in Path, NEW b \in Path, NEW c \in Path, Lt(a, b), Lt(b, c)
  PROVE  Lt(a, c)
<1>1. PICK k1 \in 1..Len(b) : /\ k1 <= Len(a) + 1
                              /\ \A j \in 1..(k1 - 1) : a[j] = b[j]
                              /\ k1 <= Len(a) => a[k1] < b[k1]
  BY DEF Lt
<1>2. PICK k2 \in 1..Len(c) : /\ k2 <= Len(b) + 1
                              /\ \A j \in 1..(k2 - 1) : b[j] = c[j]
                              /\ k2 <= Len(b) => b[k2] < c[k2]
  BY DEF Lt
<1> DEFINE k == IF k1 <= k2 THEN k1 ELSE k2
<1>3. Len(a) \in Nat /\ Len(b) \in Nat /\ Len(c) \in Nat
  BY PathIsIntegers
<1>4. /\ \A i \in 1..Len(a) : a[i] \in Int
      /\ \A i \in 1..Len(b) : b[i] \in Int
      /\ \A i \in 1..Len(c) : c[i] \in Int
  BY PathIsIntegers
<1>5. k \in 1..Len(c) /\ k <= Len(a) + 1
  BY <1>1, <1>2, <1>3
<1>6. \A j \in 1..(k - 1) : a[j] = c[j]
  BY <1>1, <1>2, <1>3
<1>7. k <= Len(a) => a[k] < c[k]
  <2> SUFFICES ASSUME k <= Len(a) PROVE a[k] < c[k]
    OBVIOUS
  <2>0. a[k] \in Int /\ b[k] \in Int /\ c[k] \in Int
    BY <1>1, <1>2, <1>3, <1>4, <1>5
  <2>1. CASE k1 < k2
    BY <2>0, <2>1, <1>1, <1>2, <1>3
  <2>2. CASE k1 = k2
    BY <2>0, <2>2, <1>1, <1>2, <1>3
  <2>3. CASE k2 < k1
    BY <2>0, <2>3, <1>1, <1>2, <1>3
  <2> QED BY <2>1, <2>2, <2>3, <1>1, <1>2
<1> QED BY <1>5, <1>6, <1>7 DEF Lt

-----------------------------------------------------------------------------
(***************************************************************************)
(* Type correctness.                                                       *)
(***************************************************************************)
\* A child that was found in a decoded node names a node.
LEMMA ChildNode ==
  ASSUME NEW child \in Child, child # NoChild
  PROVE  child.node \in Node
BY DEF Child

LEMMA BodyTypes ==
  ASSUME NEW n \in Node
  PROVE  /\ Body[n].kind = "leaf" => Body[n].path \in Path
         /\ Body[n].kind = "ext" =>
              /\ Body[n].path \in Path
              /\ Body[n].child \in Child /\ Body[n].child # NoChild
         /\ Body[n].kind = "branch" => Body[n].children \in [Nibble -> Child]
<1>1. Body[n] \in NodeBody
  BY BodyAssumption
<1> QED BY <1>1, BodyAssumption DEF NodeBody

\* Popping the stack, and pushing one frame on it.
LEMMA StackTypes ==
  ASSUME NEW S, NEW s \in Seq(S), s # <<>>
  PROVE  Head(s) \in S /\ Tail(s) \in Seq(S)
OBVIOUS

LEMMA PushTypes ==
  ASSUME NEW S, NEW s \in Seq(S), NEW x \in S
  PROVE  /\ <<x>> \o s \in Seq(S)
         /\ Len(<<x>> \o s) = Len(s) + 1
         /\ (<<x>> \o s)[1] = x
         /\ \A i \in 1..Len(s) : (<<x>> \o s)[i + 1] = s[i]
OBVIOUS

Shallow(s) == \A i \in DOMAIN s : Len(s[i].prefix) <= Width

LEMMA ShallowTail ==
  ASSUME NEW s \in Seq(FrameType), s # <<>>, Shallow(s)
  PROVE  Shallow(Tail(s)) /\ Len(Head(s).prefix) <= Width
BY DEF Shallow

LEMMA ShallowPush ==
  ASSUME NEW s \in Seq(FrameType), Shallow(s), NEW f \in FrameType, Len(f.prefix) <= Width
  PROVE  Shallow(<<f>> \o s)
BY DEF Shallow

LEMMA NibbleOfNext == ASSUME NEW n \in -1..(Radix - 1), n >= 0 PROVE n \in Nibble
BY RadixAssumption DEF Nibble

\* The keys are paths.
LEMMA KeyTypes ==
  ASSUME NEW i \in Index
  PROVE  ReceiptKey[i] \in Path /\ Len(ReceiptKey[i]) \in Nat
BY KeyAssumption DEF Path

LEMMA InitType == Init => TypeOK
<1> SUFFICES ASSUME Init PROVE TypeOK
  OBVIOUS
<1>1. corpus.root \in Node
  BY CorporaAssumption DEF Init
<1>2. count \in Index /\ position \in 0..Len(ReceiptKey[count])
  BY WidthAssumption, KeyTypes DEF Init, Index
<1> QED
  BY <1>1, <1>2, CorporaAssumption, RadixAssumption DEF Init, TypeOK, FrameType, Path

\* The index recorded for a key is an index, and the count stays one.
LEMMA RecordTypes ==
  ASSUME TypeOK, NEW key \in Path, RecordError(key) = "none", Record(key)
  PROVE  /\ IndexOf(key) \in Index /\ ReceiptKey[IndexOf(key)] = key
         /\ count' \in Index /\ max' \in Index \cup {-1}
         /\ previous' \in Path /\ visited' \in Seq(Index)
<1>1. IsKey(key)
  BY DEF RecordError
<1>2. IndexOf(key) \in Index /\ ReceiptKey[IndexOf(key)] = key
  BY <1>1 DEF IsKey, IndexOf
<1>3. visited' \in Seq(Index)
  BY <1>2, AppendProperties DEF Record, TypeOK
<1>4. count' \in Index
  BY WidthAssumption DEF RecordError, Record, TypeOK, Index
<1> QED BY <1>2, <1>3, <1>4 DEF Record, TypeOK

LEMMA LeafType == TypeOK /\ VisitLeaf => TypeOK'
<1> SUFFICES ASSUME TypeOK, VisitLeaf PROVE TypeOK'
  OBVIOUS
<1> DEFINE b == Body[Top.node]
           key == Top.prefix \o b.path
           e == First(WidthError(key), VisitError(key, b.value))
<1>0. Top \in FrameType /\ Tail(stack) \in Seq(FrameType) /\ Shallow(Tail(stack))
  BY StackTypes, ShallowTail DEF VisitLeaf, Popping, TypeOK, Top, Shallow
<1>1. b.path \in Path
  BY <1>0, BodyTypes DEF VisitLeaf, Popping, FrameType
<1>2. key \in Path
  BY <1>0, <1>1 DEF FrameType, Path
<1>3. CASE e # "none"
  <2>1. Reject(e)
    BY <1>3 DEF VisitLeaf, Unless
  <2> QED BY <2>1 DEF Reject, TypeOK, indices, lookup
<1>4. CASE e = "none"
  <2>1. RecordError(key) = "none"
    BY <1>4 DEF First, VisitError
  <2>2. /\ Record(key) /\ stack' = Tail(stack)
        /\ UNCHANGED <<corpus, phase, used, frame, next, lookup>>
    BY <1>4 DEF VisitLeaf, Unless
  <2>3. /\ count' \in Index /\ max' \in Index \cup {-1}
        /\ previous' \in Path /\ visited' \in Seq(Index)
    BY <1>2, <2>1, <2>2, RecordTypes
  <2>4. position' \in 0..Len(ReceiptKey[count'])
    BY <2>2, <2>3, KeyTypes DEF VisitLeaf, Popping, TypeOK, lookup
  <2> QED BY <2>2, <2>3, <2>4, <1>0 DEF TypeOK, lookup, Shallow
<1> QED BY <1>3, <1>4

\* A path that passed the width check fits in a key.
LEMMA FittingPath ==
  ASSUME NEW path \in Path, WidthError(path) = "none"
  PROVE  Len(path) <= Width
BY WidthAssumption, PathIsIntegers DEF WidthError

LEMMA ExtensionType == TypeOK /\ VisitExtension => TypeOK'
<1> SUFFICES ASSUME TypeOK, VisitExtension PROVE TypeOK'
  OBVIOUS
<1> DEFINE b == Body[Top.node]
           path == Top.prefix \o b.path
           f == [node |-> b.child.node, prefix |-> path]
           e == First(WidthError(path), ChildError(b.child))
<1>0. Top \in FrameType /\ Tail(stack) \in Seq(FrameType) /\ Shallow(Tail(stack))
  BY StackTypes, ShallowTail DEF VisitExtension, Popping, TypeOK, Top, Shallow
<1>1. b.path \in Path /\ b.child.node \in Node
  BY <1>0, BodyTypes, ChildNode DEF VisitExtension, Popping, FrameType
<1>2. path \in Path
  BY <1>0, <1>1 DEF FrameType, Path
<1>3. CASE e # "none"
  <2>1. Reject(e)
    BY <1>3 DEF VisitExtension, Unless
  <2> QED BY <2>1 DEF Reject, TypeOK, indices, lookup
<1>4. CASE e = "none"
  <2>1. Len(path) <= Width
    BY <1>2, <1>4, FittingPath DEF First
  <2>2. f \in FrameType /\ Len(f.prefix) <= Width
    BY <2>1, <1>1, <1>2 DEF FrameType
  <2>3. /\ stack' = <<f>> \o Tail(stack) /\ used' = used \cup Reached(b.child)
        /\ UNCHANGED <<corpus, phase, frame, next, indices, lookup>>
    BY <1>4 DEF VisitExtension, Unless
  <2>4. stack' \in Seq(FrameType) /\ Shallow(stack')
    BY <2>2, <2>3, <1>0, PushTypes, ShallowPush
  <2>5. used' \subseteq Node
    BY <2>3, <1>1 DEF TypeOK, Reached
  <2> HIDE DEF f
  <2> QED BY <2>3, <2>4, <2>5 DEF TypeOK, lookup, indices, Shallow
<1> QED BY <1>3, <1>4

LEMMA BranchType == TypeOK /\ VisitBranch => TypeOK'
<1> SUFFICES ASSUME TypeOK, VisitBranch PROVE TypeOK'
  OBVIOUS
<1> DEFINE b == Body[Top.node]
           e == BranchError(b)
<1>a. Top \in FrameType /\ Tail(stack) \in Seq(FrameType) /\ Shallow(Tail(stack))
  BY StackTypes, ShallowTail DEF VisitBranch, Popping, TypeOK, Top, Shallow
<1>0. /\ Top \in FrameType /\ Top.prefix \in Path
      /\ Tail(stack) \in Seq(FrameType) /\ Shallow(Tail(stack))
  BY <1>a DEF FrameType
<1>1. CASE e # "none"
  <2>1. Reject(e)
    BY <1>1 DEF VisitBranch, Unless
  <2> QED BY <2>1 DEF Reject, TypeOK, indices, lookup
<1>2. CASE e = "none"
  <2>1. /\ IF Bare(b) THEN UNCHANGED indices ELSE Record(Top.prefix)
        /\ frame' = Top /\ next' = Radix - 1 /\ stack' = Tail(stack)
        /\ UNCHANGED <<corpus, phase, used, lookup>>
    BY <1>2 DEF VisitBranch, Unless
  <2>2. /\ count' \in Index /\ max' \in Index \cup {-1}
        /\ previous' \in Path /\ visited' \in Seq(Index)
    <3>1. CASE Bare(b)
      BY <2>1, <3>1 DEF TypeOK, indices
    <3>2. CASE ~Bare(b)
      <4>1. RecordError(Top.prefix) = "none"
        BY <3>2, <1>2 DEF BranchError, VisitError, First
      <4> QED BY <4>1, <3>2, <2>1, <1>0, RecordTypes
    <3> QED BY <3>1, <3>2
  <2>3. next' \in -1..(Radix - 1) /\ Body[frame'.node].kind = "branch"
    BY <2>1, RadixAssumption DEF VisitBranch, Popping
  <2>4. position' \in 0..Len(ReceiptKey[count'])
    BY <2>1, <2>2, KeyTypes DEF VisitBranch, Popping, TypeOK, lookup
  <2> QED BY <2>1, <2>2, <2>3, <2>4, <1>0 DEF TypeOK, lookup, Shallow
<1> QED BY <1>1, <1>2

LEMMA SkipType == TypeOK /\ SkipChild => TypeOK'
<1> SUFFICES ASSUME TypeOK, SkipChild PROVE TypeOK'
  OBVIOUS
<1>1. next' \in -1..(Radix - 1) /\ next' < next
  BY RadixAssumption DEF SkipChild, TypeOK
<1> QED BY <1>1 DEF SkipChild, TypeOK, indices, lookup

LEMMA PushType == TypeOK /\ PushChild => TypeOK'
<1> SUFFICES ASSUME TypeOK, PushChild PROVE TypeOK'
  OBVIOUS
<1> DEFINE child == Body[frame.node].children[next]
           path  == Append(frame.prefix, next)
           f == [node |-> child.node, prefix |-> path]
           e == First(WidthError(path), ChildError(child))
<1>1. next \in Nibble /\ Body[frame.node].kind = "branch" /\ frame \in FrameType
  BY NibbleOfNext DEF PushChild, TypeOK
<1>2. child \in Child /\ child.node \in Node
  BY <1>1, BodyTypes, ChildNode DEF PushChild, FrameType
<1>3. path \in Path
  BY <1>1 DEF FrameType, Path
<1>4. CASE e # "none"
  <2>1. Reject(e)
    BY <1>4 DEF PushChild, Unless
  <2> QED BY <2>1 DEF Reject, TypeOK, indices, lookup
<1>5. CASE e = "none"
  <2>1. Len(path) <= Width
    BY <1>3, <1>5, FittingPath DEF First
  <2>2. f \in FrameType /\ Len(f.prefix) <= Width
    BY <2>1, <1>2, <1>3 DEF FrameType
  <2>3. /\ stack' = <<f>> \o stack /\ used' = used \cup Reached(child)
        /\ next' = next - 1
        /\ UNCHANGED <<corpus, phase, frame, indices, lookup>>
    BY <1>5 DEF PushChild, Unless
  <2>4. stack' \in Seq(FrameType) /\ Shallow(stack')
    BY <2>2, <2>3, PushTypes, ShallowPush DEF TypeOK, Shallow
  <2>5. used' \subseteq Node
    BY <2>3, <1>2 DEF TypeOK, Reached
  <2>6. next' \in -1..(Radix - 1) /\ next' < next
    BY <2>3, RadixAssumption DEF TypeOK, PushChild
  <2> HIDE DEF f
  <2> QED BY <2>3, <2>4, <2>5, <2>6 DEF TypeOK, lookup, indices, Shallow
<1> QED BY <1>4, <1>5

\* The child a lookup takes is one of the children of the node it is at, and
\* taking it stays within the key.
LEMMA TakenTypes ==
  ASSUME TypeOK, Taken # NoChild, Descend
  PROVE  Taken \in Child /\ at' \in Node /\ position' \in 0..Len(NextKey)
<1>0. NextKey \in Path /\ Len(NextKey) \in Nat
  BY KeyTypes DEF NextKey, TypeOK
<1>1. at \in Node /\ position \in 0..Len(NextKey)
  BY DEF TypeOK, NextKey
<1>2. Body[at].kind \in {"branch", "ext"}
  BY DEF Taken
<1>3. CASE Body[at].kind = "ext"
  <2>1. Taken = Body[at].child /\ Matches(Body[at].path, NextKey, position)
    BY <1>3 DEF Taken
  <2>2. Body[at].path \in Path /\ Len(Body[at].path) \in Nat
    BY <1>1, <1>3, BodyTypes, PathIsIntegers
  <2>3. position' \in 0..Len(NextKey)
    BY <2>1, <2>2, <1>0, <1>1, <1>3 DEF Descend, Matches
  <2>4. Taken \in Child
    BY <2>1, <1>1, <1>3, BodyTypes
  <2> QED BY <2>3, <2>4, ChildNode DEF Descend
<1>4. CASE Body[at].kind = "branch"
  <2>1. position # Len(NextKey) /\ Taken = Body[at].children[NextKey[position + 1]]
    BY <1>4 DEF Taken
  <2>2. NextKey[position + 1] \in Nibble
    BY <2>1, <1>0, <1>1 DEF Path
  <2>3. Taken \in Child
    BY <2>1, <2>2, <1>1, <1>4, BodyTypes
  <2>4. position' \in 0..Len(NextKey)
    BY <2>1, <1>0, <1>1, <1>4 DEF Descend
  <2> QED BY <2>3, <2>4, ChildNode DEF Descend
<1> QED BY <1>2, <1>3, <1>4

LEMMA RejectType == ASSUME NEW e, TypeOK, Reject(e) PROVE TypeOK'
BY DEF Reject, TypeOK, indices, lookup

LEMMA EntryType == TypeOK /\ (EmptyTrie \/ Start) => TypeOK'
<1> SUFFICES ASSUME TypeOK, EmptyTrie \/ Start PROVE TypeOK'
  OBVIOUS
<1>1. CASE EmptyTrie
  <2>1. CASE Accept
    BY <2>1 DEF Accept, TypeOK, indices, lookup
  <2> QED BY <1>1, <2>1, RejectType DEF EmptyTrie
<1>2. CASE Start
  <2> DEFINE f == [node |-> corpus.root, prefix |-> <<>>]
  <2>1. CASE StartError = "none"
    <3>1. /\ phase' = "walk" /\ used' = {corpus.root} /\ stack' = <<f>>
          /\ UNCHANGED <<corpus, error, frame, next, indices, lookup>>
      BY <1>2, <2>1 DEF Start, Unless
    <3>2. f \in FrameType /\ Len(f.prefix) = 0
      BY DEF FrameType, TypeOK, Path
    <3>3. stack' \in Seq(FrameType) /\ Shallow(stack')
      BY <3>1, <3>2, WidthAssumption DEF Shallow
    <3> HIDE DEF f
    <3> QED BY <3>1, <3>3, <1>2 DEF TypeOK, indices, lookup, Shallow, Start
  <2>2. CASE StartError # "none"
    BY <1>2, <2>2, RejectType DEF Start, Unless
  <2> QED BY <2>1, <2>2
<1> QED BY <1>1, <1>2

LEMMA FinishType == TypeOK /\ FinishWalk => TypeOK'
<1> SUFFICES ASSUME TypeOK, FinishWalk PROVE TypeOK'
  OBVIOUS
<1>1. CASE FinishError = "none"
  <2>1. /\ phase' = "probe"
        /\ proof' = <<corpus.root>> /\ at' = corpus.root /\ position' = 0
        /\ UNCHANGED <<corpus, error, used, stack, frame, next, indices, cursor>>
    BY <1>1 DEF FinishWalk, Unless
  <2>2. cursor' \in 0..Len(proof')
    BY <2>1 DEF FinishWalk, TypeOK
  <2>3. position' \in 0..Len(ReceiptKey[count'])
    BY <2>1, KeyTypes DEF TypeOK, indices
  <2> QED BY <2>1, <2>2, <2>3 DEF TypeOK, indices
<1>2. CASE FinishError # "none"
  BY <1>2, RejectType DEF FinishWalk, Unless
<1> QED BY <1>1, <1>2

LEMMA ProbeType == TypeOK /\ (ProbeStep \/ ProbeEnd) => TypeOK'
<1> SUFFICES ASSUME TypeOK, ProbeStep \/ ProbeEnd PROVE TypeOK'
  OBVIOUS
<1>1. CASE ProbeStep
  <2> DEFINE e == First(NodeError, ChildError(Taken))
  <2>1. CASE e = "none"
    <3>1. /\ Descend
          /\ proof' = IF Taken.via = "hash" THEN Append(proof, Taken.node) ELSE proof
          /\ used' = used \cup Reached(Taken)
          /\ UNCHANGED <<corpus, phase, error, stack, frame, next, indices, cursor>>
      BY <1>1, <2>1 DEF ProbeStep, Unless
    <3>2. Taken \in Child /\ Taken.node \in Node /\ at' \in Node /\ position' \in 0..Len(NextKey)
      BY <1>1, <3>1, TakenTypes DEF ProbeStep, Descend
    <3>3. /\ proof' \in Seq(Node) /\ cursor' \in 0..Len(proof') /\ proof' # <<>>
      <4>1. proof \in Seq(Node) /\ cursor \in 0..Len(proof) /\ proof # <<>>
        BY <1>1 DEF ProbeStep, TypeOK
      <4>2. CASE Taken.via = "hash"
        BY <4>1, <4>2, <3>1, <3>2, AppendProperties
      <4>3. CASE Taken.via # "hash"
        BY <4>1, <4>3, <3>1
      <4> QED BY <4>2, <4>3
    <3>4. used' \subseteq Node
      BY <3>1, <3>2 DEF Reached, TypeOK
    <3> QED BY <3>1, <3>2, <3>3, <3>4, <1>1 DEF TypeOK, indices, NextKey, ProbeStep
  <2>2. CASE e # "none"
    <3>1. Reject(e)
      BY <1>1, <2>2 DEF ProbeStep, Unless
    <3> QED BY <3>1, RejectType
  <2> QED BY <2>1, <2>2
<1>2. CASE ProbeEnd
  <2>1. CASE NodeError = "none"
    <3>1. /\ phase' = "verify" /\ at' = proof[1] /\ position' = 0 /\ cursor' = 1
          /\ UNCHANGED <<corpus, error, used, stack, frame, next, indices, proof>>
      BY <1>2, <2>1 DEF ProbeEnd, Unless
    <3>2. proof # <<>> /\ proof \in Seq(Node)
      BY <1>2 DEF ProbeEnd, TypeOK
    <3>3. proof[1] \in Node /\ 1 \in 0..Len(proof)
      BY <3>2
    <3>4. 0 \in 0..Len(ReceiptKey[count])
      BY KeyTypes DEF TypeOK
    <3> QED BY <3>1, <3>2, <3>3, <3>4 DEF TypeOK, indices
  <2>2. CASE NodeError # "none"
    BY <1>2, <2>2, RejectType DEF ProbeEnd, Unless
  <2> QED BY <2>1, <2>2
<1> QED BY <1>1, <1>2

LEMMA VerifyType == TypeOK /\ (VerifyStep \/ VerifyEnd) => TypeOK'
<1> SUFFICES ASSUME TypeOK, VerifyStep \/ VerifyEnd PROVE TypeOK'
  OBVIOUS
<1>1. CASE VerifyStep
  <2> DEFINE e == First(NodeError, FollowError(Taken))
  <2>1. CASE e = "none"
    <3>1. /\ Descend
          /\ cursor' = IF Consumes(Taken) THEN cursor + 1 ELSE cursor
          /\ UNCHANGED <<corpus, phase, error, used, stack, frame, next, indices, proof>>
      BY <1>1, <2>1 DEF VerifyStep, Unless
    <3>2. at' \in Node /\ position' \in 0..Len(NextKey)
      BY <1>1, <3>1, TakenTypes DEF VerifyStep
    <3>3. cursor' \in 0..Len(proof)
      BY <3>1 DEF TypeOK, Consumes
    <3> QED BY <3>1, <3>2, <3>3, <1>1 DEF TypeOK, indices, NextKey, VerifyStep
  <2>2. CASE e # "none"
    <3>1. Reject(e)
      BY <1>1, <2>2 DEF VerifyStep, Unless
    <3> QED BY <3>1, RejectType
  <2> QED BY <2>1, <2>2
<1>2. CASE VerifyEnd
  <2> DEFINE e == First(NodeError, VerdictError)
  <2>1. CASE e = "none"
    <3>1. Accept
      BY <1>2, <2>1 DEF VerifyEnd, Unless
    <3> QED BY <3>1 DEF Accept, TypeOK, indices, lookup
  <2>2. CASE e # "none"
    <3>1. Reject(e)
      BY <1>2, <2>2 DEF VerifyEnd, Unless
    <3> QED BY <3>1, RejectType
  <2> QED BY <2>1, <2>2
<1> QED BY <1>1, <1>2

LEMMA NextType == TypeOK /\ [Next]_vars => TypeOK'
<1> SUFFICES ASSUME TypeOK, [Next]_vars PROVE TypeOK'
  OBVIOUS
<1>1. CASE VisitInvalid
  BY <1>1, RejectType DEF VisitInvalid
<1>2. CASE UNCHANGED vars
  BY <1>2 DEF vars, TypeOK, indices, lookup
<1> QED
  BY <1>1, <1>2, EntryType, LeafType, ExtensionType, BranchType, SkipType, PushType,
     FinishType, ProbeType, VerifyType DEF Next

\* The walk never leaves its types: the stack holds paths no longer than a key,
\* the count stays a u64, and the lookups index the key and the proof in range.
THEOREM WalkTypeCorrect == Spec => []TypeOK
BY InitType, NextType, PTL DEF Spec

-----------------------------------------------------------------------------
(***************************************************************************)
(* Density.  Nothing stores the indices met: the code relies on the strict *)
(* order of the keys for uniqueness, and on the largest index against the  *)
(* count for density.  The invariant says what those three words know.     *)
(***************************************************************************)
\* previous is the greatest key met so far.
Rising == \A s \in Seen : ReceiptKey[s] = previous \/ Lt(ReceiptKey[s], previous)

\* count counts distinct indices, and max bounds them.
Counted ==
  /\ IsFiniteSet(Seen) /\ Cardinality(Seen) = count /\ Len(visited) = count
  /\ \A s \in Seen : s <= max

\* What each phase has established.
Checked ==
  /\ phase = "start" => visited = <<>> /\ count = 0
  /\ phase \in {"probe", "verify"} => max = count - 1
  /\ phase = "accepted" => count = 0 \/ max = count - 1

DenseInv == Rising /\ Counted /\ Checked

LEMMA SeenIndices == TypeOK => Seen \subseteq Index
BY DEF TypeOK, Seen

\* A recorded index was not met before, and takes its place in the order.
LEMMA RecordDense ==
  ASSUME TypeOK, Rising, Counted, NEW key \in Path, RecordError(key) = "none", Record(key)
  PROVE  Rising' /\ Counted'
<1> DEFINE idx == IndexOf(key)
<1>1. idx \in Index /\ ReceiptKey[idx] = key
  BY RecordTypes
<1>2. Lt(previous, key) /\ previous \in Path
  BY DEF RecordError, TypeOK
<1>3. /\ visited' = Append(visited, idx) /\ visited \in Seq(Index)
      /\ count' = count + 1 /\ previous' = key
      /\ max' = IF idx > max THEN idx ELSE max
  BY DEF Record, TypeOK
<1>4. Seen' = Seen \cup {idx}
  <2>1. /\ DOMAIN visited' = 1..(Len(visited) + 1)
        /\ DOMAIN visited = 1..Len(visited) /\ Len(visited) \in Nat
        /\ \A i \in 1..Len(visited) : visited'[i] = visited[i]
        /\ visited'[Len(visited) + 1] = idx
    BY <1>1, <1>3
  <2> HIDE DEF idx
  <2> QED BY <2>1 DEF Seen
<1>5. \A s \in Seen : Lt(ReceiptKey[s], key)
  <2> SUFFICES ASSUME NEW s \in Seen PROVE Lt(ReceiptKey[s], key)
    OBVIOUS
  <2>1. ReceiptKey[s] \in Path
    BY SeenIndices, KeyTypes
  <2> QED BY <2>1, <1>2, LtTransitive DEF Rising
<1>6. idx \notin Seen
  BY <1>1, <1>5, LtIrreflexive
<1>7. Rising'
  BY <1>1, <1>3, <1>4, <1>5 DEF Rising
<1>8. IsFiniteSet(Seen') /\ Cardinality(Seen') = count'
  BY <1>3, <1>4, <1>6, FS_AddElement DEF Counted
<1>9. Len(visited') = count'
  BY <1>1, <1>3 DEF Counted
<1>10. \A s \in Seen' : s <= max'
  <2>1. \A s \in Seen : s \in Int
    BY SeenIndices DEF Index
  <2>2. max \in Int /\ idx \in Int
    BY <1>1 DEF TypeOK, Index
  <2> HIDE DEF idx
  <2> QED BY <2>1, <2>2, <1>3, <1>4 DEF Counted
<1> QED BY <1>7, <1>8, <1>9, <1>10 DEF Counted

LEMMA InitDense == Init => DenseInv
<1> SUFFICES ASSUME Init PROVE DenseInv
  OBVIOUS
<1>1. Seen = {} /\ visited = <<>> /\ Len(visited) = 0
  BY DEF Init, Seen
<1> QED BY <1>1, FS_EmptySet DEF Init, DenseInv, Rising, Counted, Checked

LEMMA RejectDense == ASSUME NEW e, DenseInv, Reject(e) PROVE DenseInv'
BY DEF Reject, DenseInv, Rising, Counted, Checked, Seen, indices

LEMMA AcceptDense ==
  ASSUME DenseInv, Accept, count = 0 \/ max = count - 1 PROVE DenseInv'
BY DEF Accept, DenseInv, Rising, Counted, Checked, Seen, indices

\* A step of the walk that leaves the indices alone.
LEMMA SameDense ==
  ASSUME DenseInv, UNCHANGED indices, phase' \in {"walk", "probe", "verify"},
         phase' \in {"probe", "verify"} => max = count - 1
  PROVE  DenseInv'
BY DEF DenseInv, Rising, Counted, Checked, Seen, indices

LEMMA RecordStepDense ==
  ASSUME TypeOK, DenseInv, NEW key \in Path, RecordError(key) = "none", Record(key),
         phase' = "walk"
  PROVE  DenseInv'
BY RecordDense DEF DenseInv, Checked

LEMMA LeafKey ==
  ASSUME TypeOK, Popping("leaf")
  PROVE  Top.prefix \o Body[Top.node].path \in Path
<1>1. Top \in FrameType
  BY StackTypes DEF Popping, TypeOK, Top
<1>2. Body[Top.node].path \in Path
  BY <1>1, BodyTypes DEF Popping, FrameType
<1> QED BY <1>1, <1>2 DEF FrameType, Path

LEMMA WalkDense ==
  TypeOK /\ DenseInv /\ (VisitLeaf \/ VisitExtension \/ VisitBranch \/ SkipChild \/ PushChild)
    => DenseInv'
<1> SUFFICES ASSUME TypeOK, DenseInv,
                    VisitLeaf \/ VisitExtension \/ VisitBranch \/ SkipChild \/ PushChild
             PROVE  DenseInv'
  OBVIOUS
<1>1. CASE VisitLeaf
  <2> DEFINE b == Body[Top.node]
             key == Top.prefix \o b.path
             e == First(WidthError(key), VisitError(key, b.value))
  <2>1. CASE e # "none"
    <3>1. Reject(e)
      BY <1>1, <2>1 DEF VisitLeaf, Unless
    <3> QED BY <3>1, RejectDense
  <2>2. CASE e = "none"
    <3>1. key \in Path
      BY <1>1, LeafKey DEF VisitLeaf
    <3>2. RecordError(key) = "none"
      BY <2>2 DEF First, VisitError
    <3>3. Record(key) /\ phase' = "walk"
      BY <1>1, <2>2 DEF VisitLeaf, Unless, Popping
    <3> QED BY <3>1, <3>2, <3>3, RecordStepDense
  <2> QED BY <2>1, <2>2
<1>2. CASE VisitExtension
  <2> DEFINE b == Body[Top.node]
             e == First(WidthError(Top.prefix \o b.path), ChildError(b.child))
  <2>1. CASE e # "none"
    <3>1. Reject(e)
      BY <1>2, <2>1 DEF VisitExtension, Unless
    <3> QED BY <3>1, RejectDense
  <2>2. CASE e = "none"
    <3>1. UNCHANGED indices /\ phase' = "walk"
      BY <1>2, <2>2 DEF VisitExtension, Unless, Popping
    <3> QED BY <3>1, SameDense
  <2> QED BY <2>1, <2>2
<1>3. CASE VisitBranch
  <2> DEFINE b == Body[Top.node]
             e == BranchError(b)
  <2>0. Top.prefix \in Path
    <3>1. Top \in FrameType
      BY <1>3, StackTypes DEF VisitBranch, Popping, TypeOK, Top
    <3> QED BY <3>1 DEF FrameType
  <2>1. CASE e # "none"
    <3>1. Reject(e)
      BY <1>3, <2>1 DEF VisitBranch, Unless
    <3> QED BY <3>1, RejectDense
  <2>2. CASE e = "none" /\ Bare(b)
    <3>1. UNCHANGED indices /\ phase' = "walk"
      BY <1>3, <2>2 DEF VisitBranch, Unless, Popping
    <3> QED BY <3>1, SameDense
  <2>3. CASE e = "none" /\ ~Bare(b)
    <3>1. RecordError(Top.prefix) = "none"
      BY <2>3 DEF BranchError, VisitError, First
    <3>2. Record(Top.prefix) /\ phase' = "walk"
      BY <1>3, <2>3 DEF VisitBranch, Unless, Popping
    <3> QED BY <2>0, <3>1, <3>2, RecordStepDense
  <2> QED BY <2>1, <2>2, <2>3
<1>4. CASE SkipChild
  <2>1. UNCHANGED indices /\ phase' = "walk"
    BY <1>4 DEF SkipChild
  <2> QED BY <2>1, SameDense
<1>5. CASE PushChild
  <2> DEFINE child == Body[frame.node].children[next]
             e == First(WidthError(Append(frame.prefix, next)), ChildError(child))
  <2>1. CASE e # "none"
    <3>1. Reject(e)
      BY <1>5, <2>1 DEF PushChild, Unless
    <3> QED BY <3>1, RejectDense
  <2>2. CASE e = "none"
    <3>1. UNCHANGED indices /\ phase' = "walk"
      BY <1>5, <2>2 DEF PushChild, Unless
    <3> QED BY <3>1, SameDense
  <2> QED BY <2>1, <2>2
<1> QED BY <1>1, <1>2, <1>3, <1>4, <1>5

LEMMA EdgesDense ==
  TypeOK /\ DenseInv /\ (EmptyTrie \/ Start \/ VisitInvalid \/ FinishWalk) => DenseInv'
<1> SUFFICES ASSUME TypeOK, DenseInv, EmptyTrie \/ Start \/ VisitInvalid \/ FinishWalk
             PROVE  DenseInv'
  OBVIOUS
<1>1. CASE EmptyTrie
  <2>1. count = 0
    BY <1>1 DEF EmptyTrie, DenseInv, Checked
  <2> QED BY <1>1, <2>1, AcceptDense, RejectDense DEF EmptyTrie
<1>2. CASE Start
  <2>1. CASE StartError = "none"
    <3>1. UNCHANGED indices /\ phase' = "walk"
      BY <1>2, <2>1 DEF Start, Unless
    <3> QED BY <3>1, SameDense
  <2>2. CASE StartError # "none"
    BY <1>2, <2>2, RejectDense DEF Start, Unless
  <2> QED BY <2>1, <2>2
<1>3. CASE VisitInvalid
  BY <1>3, RejectDense DEF VisitInvalid
<1>4. CASE FinishWalk
  <2>1. CASE FinishError = "none"
    <3>1. UNCHANGED indices /\ phase' = "probe"
      BY <1>4, <2>1 DEF FinishWalk, Unless
    <3>2. max = count - 1
      BY <2>1 DEF FinishError
    <3> QED BY <3>1, <3>2, SameDense
  <2>2. CASE FinishError # "none"
    BY <1>4, <2>2, RejectDense DEF FinishWalk, Unless
  <2> QED BY <2>1, <2>2
<1> QED BY <1>1, <1>2, <1>3, <1>4

LEMMA LookupDense ==
  DenseInv /\ (ProbeStep \/ ProbeEnd \/ VerifyStep \/ VerifyEnd) => DenseInv'
<1> SUFFICES ASSUME DenseInv, ProbeStep \/ ProbeEnd \/ VerifyStep \/ VerifyEnd
             PROVE  DenseInv'
  OBVIOUS
<1>0. phase \in {"probe", "verify"} /\ max = count - 1
  BY DEF ProbeStep, ProbeEnd, VerifyStep, VerifyEnd, DenseInv, Checked
<1>1. CASE \E e : Reject(e)
  BY <1>1, RejectDense
<1>2. CASE UNCHANGED indices /\ phase' \in {"probe", "verify"}
  BY <1>0, <1>2, SameDense
<1>3. CASE Accept
  BY <1>0, <1>3, AcceptDense
<1>4. \/ \E e : Reject(e)
      \/ UNCHANGED indices /\ phase' \in {"probe", "verify"}
      \/ Accept
  <2>1. CASE ProbeStep
    BY <2>1 DEF ProbeStep, Unless
  <2>2. CASE ProbeEnd
    BY <2>2 DEF ProbeEnd, Unless
  <2>3. CASE VerifyStep
    BY <2>3 DEF VerifyStep, Unless
  <2>4. CASE VerifyEnd
    BY <2>4 DEF VerifyEnd, Unless
  <2> QED BY <2>1, <2>2, <2>3, <2>4
<1> QED BY <1>1, <1>2, <1>3, <1>4

LEMMA NextDense == TypeOK /\ DenseInv /\ [Next]_vars => DenseInv'
<1> SUFFICES ASSUME TypeOK, DenseInv, [Next]_vars PROVE DenseInv'
  OBVIOUS
<1>1. CASE UNCHANGED vars
  BY <1>1 DEF vars, indices, DenseInv, Rising, Counted, Checked, Seen
<1> QED BY <1>1, WalkDense, EdgesDense, LookupDense DEF Next

\* The three words kept by Indices are enough: distinct indices, all of them
\* at most count - 1, and count of them, are 0..count-1.
LEMMA DenseIsInterval == TypeOK /\ DenseInv => AcceptedIsDense
<1> SUFFICES ASSUME TypeOK, DenseInv, phase = "accepted" PROVE AcceptedIsDense
  BY DEF AcceptedIsDense
<1>1. Len(visited) = count /\ IsFiniteSet(Seen) /\ Cardinality(Seen) = count
  BY DEF DenseInv, Counted
<1>2. count \in Nat
  BY DEF TypeOK, Index
<1>3. CASE count = 0
  <2>1. Seen = {}
    BY <1>1, <1>3, FS_EmptySet
  <2> QED BY <2>1, <1>1, <1>3 DEF AcceptedIsDense
<1>4. CASE count # 0
  <2>1. Seen \subseteq 0..(count - 1)
    BY <1>2, <1>4, SeenIndices DEF DenseInv, Counted, Checked, Index
  <2>2. IsFiniteSet(0..(count - 1)) /\ Cardinality(0..(count - 1)) = count
    <3>1. 0 \in Int /\ count - 1 \in Int /\ ~(0 > count - 1) /\ (count - 1) - 0 + 1 = count
      BY <1>2, <1>4
    <3> QED BY <3>1, FS_Interval
  <2>3. Seen = 0..(count - 1)
    BY <2>1, <2>2, <1>1, FS_Subset
  <2> QED BY <2>3, <1>1 DEF AcceptedIsDense
<1> QED BY <1>3, <1>4

\* An accepted walk has given the callback each index of 0..count-1 exactly
\* once, for every trie, corpus, alphabet and key encoding: the strict order of
\* the raw keys and one comparison of the largest index replace a set of them.
THEOREM AcceptedWalkIsDense == Spec => []AcceptedIsDense
<1>1. Init => TypeOK /\ DenseInv
  BY InitType, InitDense
<1>2. TypeOK /\ DenseInv /\ [Next]_vars => (TypeOK /\ DenseInv)'
  BY NextType, NextDense
<1> QED BY <1>1, <1>2, DenseIsInterval, PTL DEF Spec

-----------------------------------------------------------------------------
(***************************************************************************)
(* Completeness.  At every moment the keys already visited, those below    *)
(* the frames on the stack and those below the children still to push are  *)
(* together all the keys of the trie.  A node met twice counts once per    *)
(* frame, which is why the walk must not skip what it has seen.            *)
(***************************************************************************)
Covered(f) == Under(f.prefix, Reach[f.node])
Pending(s) == UNION {Covered(s[i]) : i \in DOMAIN s}
ChildKeys(prefix, b, c) == Under(Append(prefix, c), Reach[b.children[c].node])
ToPush(prefix, b, n) ==
  UNION {ChildKeys(prefix, b, c) : c \in {c \in Nibble : c <= n /\ b.children[c] # NoChild}}
Loop == ToPush(frame.prefix, Body[frame.node], next)
Met == {ReceiptKey[i] : i \in Seen}

CompleteInv ==
  /\ phase = "start" => visited = <<>> /\ next = -1
  /\ phase = "walk" => Met \cup Pending(stack) \cup Loop = Reach[corpus.root]
  /\ phase \in {"probe", "verify", "accepted"} => Met = Reach[corpus.root]

LEMMA ReachPaths == ASSUME NEW n \in Node PROVE Reach[n] \subseteq Path
BY ReachAssumption

LEMMA PendingPush ==
  ASSUME NEW s \in Seq(FrameType), NEW f \in FrameType
  PROVE  Pending(<<f>> \o s) = Covered(f) \cup Pending(s)
<1> DEFINE t == <<f>> \o s
<1>1. /\ DOMAIN t = 1..(Len(s) + 1) /\ DOMAIN s = 1..Len(s) /\ Len(s) \in Nat
      /\ t[1] = f /\ \A i \in 1..Len(s) : t[i + 1] = s[i]
  OBVIOUS
<1> HIDE DEF t
<1>2. \A i \in DOMAIN t : i = 1 \/ (i - 1 \in DOMAIN s /\ t[i] = s[i - 1])
  BY <1>1
<1>3. \A i \in DOMAIN s : i + 1 \in DOMAIN t /\ t[i + 1] = s[i]
  BY <1>1
<1>4. 1 \in DOMAIN t /\ t[1] = f
  BY <1>1
<1>5. Pending(t) \subseteq Covered(f) \cup Pending(s)
  BY <1>2, <1>4 DEF Pending
<1>6. Covered(f) \cup Pending(s) \subseteq Pending(t)
  BY <1>3, <1>4 DEF Pending
<1> QED BY <1>5, <1>6 DEF t

LEMMA PendingPop ==
  ASSUME NEW s \in Seq(FrameType), s # <<>>
  PROVE  Pending(s) = Covered(Head(s)) \cup Pending(Tail(s))
<1>1. Head(s) \in FrameType /\ Tail(s) \in Seq(FrameType) /\ s = <<Head(s)>> \o Tail(s)
  OBVIOUS
<1> QED BY <1>1, PendingPush

LEMMA PendingEmpty == Pending(<<>>) = {}
BY DEF Pending

\* Keys below a prefix, one level at a time.
LEMMA UnderEmpty == ASSUME NEW S, S \subseteq Path PROVE Under(<<>>, S) = S
<1>1. \A k \in S : <<>> \o k = k
  BY DEF Path
<1> QED BY <1>1 DEF Under

LEMMA UnderOne == ASSUME NEW p \in Path, NEW q \in Path PROVE Under(p, {q}) = {p \o q}
BY DEF Under

LEMMA UnderUnder ==
  ASSUME NEW p \in Path, NEW q \in Path, NEW S, S \subseteq Path
  PROVE  Under(p, Under(q, S)) = Under(p \o q, S)
<1>1. \A k \in S : p \o (q \o k) = (p \o q) \o k
  BY ConcatAssociative DEF Path
<1>2. \A x : x \in Under(p, Under(q, S)) <=> \E k \in S : x = p \o (q \o k)
  BY DEF Under
<1>3. \A x : x \in Under(p \o q, S) <=> \E k \in S : x = (p \o q) \o k
  BY DEF Under
<1>4. \A x : x \in Under(p, Under(q, S)) <=> x \in Under(p \o q, S)
  BY <1>1, <1>2, <1>3
<1> QED BY <1>4

LEMMA UnderUnions ==
  ASSUME NEW p, NEW C, NEW f
  PROVE  Under(p, UNION {f[c] : c \in C}) = UNION {Under(p, f[c]) : c \in C}
<1>1. \A x : x \in Under(p, UNION {f[c] : c \in C})
             <=> \E c \in C : \E k \in f[c] : x = p \o k
  BY DEF Under
<1>2. \A x : x \in UNION {Under(p, f[c]) : c \in C}
             <=> \E c \in C : \E k \in f[c] : x = p \o k
  BY DEF Under
<1>3. \A x : x \in Under(p, UNION {f[c] : c \in C})
             <=> x \in UNION {Under(p, f[c]) : c \in C}
  BY <1>1, <1>2
<1> QED BY <1>3

LEMMA UnderUnion ==
  ASSUME NEW p \in Path, NEW S, NEW T
  PROVE  Under(p, S \cup T) = Under(p, S) \cup Under(p, T)
BY DEF Under

\* What a branch covers: its own key if it has a value, and its children's.
LEMMA BranchCovers ==
  ASSUME NEW n \in Node, Body[n].kind = "branch", NEW p \in Path
  PROVE  Under(p, Reach[n]) =
           (IF Bare(Body[n]) THEN {} ELSE {p}) \cup ToPush(p, Body[n], Radix - 1)
<1> DEFINE b == Body[n]
           own == IF Bare(b) THEN {} ELSE {<<>>}
           C == {c \in Nibble : b.children[c] # NoChild}
           sub == [c \in C |-> Under(<<c>>, Reach[b.children[c].node])]
<1>1. Reach[n] = own \cup UNION {sub[c] : c \in C}
  <2>1. Reach[n] = BranchKeys(b)
    BY ReachAssumption
  <2>2. \A c \in C : sub[c] = Under(<<c>>, Reach[b.children[c].node])
    OBVIOUS
  <2>3. UNION {sub[c] : c \in C} = UNION {Under(<<c>>, Reach[b.children[c].node]) : c \in C}
    BY <2>2
  <2> QED BY <2>1, <2>3 DEF BranchKeys
<1>2. Under(p, own) = IF Bare(b) THEN {} ELSE {p}
  <2>1. p \o <<>> = p
    BY DEF Path
  <2> QED BY <2>1 DEF Under
<1>3. \A c \in C : Under(p, sub[c]) = ChildKeys(p, b, c)
  <2> SUFFICES ASSUME NEW c \in C PROVE Under(p, sub[c]) = ChildKeys(p, b, c)
    OBVIOUS
  <2>1. b.children[c] \in Child /\ b.children[c].node \in Node
    BY BodyTypes, ChildNode
  <2>2. <<c>> \in Path /\ p \o <<c>> = Append(p, c)
    BY DEF Path
  <2>3. Reach[b.children[c].node] \subseteq Path
    BY <2>1, ReachPaths
  <2>4. Under(p, Under(<<c>>, Reach[b.children[c].node]))
          = Under(p \o <<c>>, Reach[b.children[c].node])
    BY <2>2, <2>3, UnderUnder
  <2> QED BY <2>2, <2>4 DEF ChildKeys
<1>4. Under(p, UNION {sub[c] : c \in C}) = UNION {Under(p, sub[c]) : c \in C}
  <2> HIDE DEF C, sub
  <2> QED BY UnderUnions
<1>5. C = {c \in Nibble : c <= Radix - 1 /\ b.children[c] # NoChild}
  BY RadixAssumption DEF Nibble
<1>6. UNION {Under(p, sub[c]) : c \in C} = ToPush(p, b, Radix - 1)
  BY <1>3, <1>5 DEF ToPush
<1>7. Under(p, Reach[n]) = Under(p, own) \cup Under(p, UNION {sub[c] : c \in C})
  <2> HIDE DEF own, C, sub
  <2> QED BY <1>1, UnderUnion
<1> QED BY <1>2, <1>4, <1>6, <1>7

LEMMA RecordMet ==
  ASSUME TypeOK, NEW key \in Path, RecordError(key) = "none", Record(key)
  PROVE  Met' = Met \cup {key}
<1> DEFINE idx == IndexOf(key)
<1>1. idx \in Index /\ ReceiptKey[idx] = key
  BY RecordTypes
<1>2. visited' = Append(visited, idx) /\ visited \in Seq(Index)
  BY DEF Record, TypeOK
<1>3. /\ DOMAIN visited' = 1..(Len(visited) + 1)
      /\ DOMAIN visited = 1..Len(visited) /\ Len(visited) \in Nat
      /\ \A i \in 1..Len(visited) : visited'[i] = visited[i]
      /\ visited'[Len(visited) + 1] = idx
  BY <1>1, <1>2
<1> HIDE DEF idx
<1>4. Seen' = Seen \cup {idx}
  BY <1>3 DEF Seen
<1> QED BY <1>1, <1>4 DEF Met

LEMMA InitComplete == Init => CompleteInv
BY DEF Init, CompleteInv

LEMMA RejectComplete == ASSUME NEW e, CompleteInv, Reject(e) PROVE CompleteInv'
BY DEF Reject, CompleteInv

\* No child left to push.
LEMMA NothingToPush == ASSUME NEW p, NEW b PROVE ToPush(p, b, -1) = {}
<1>1. \A c \in Nibble : ~(c <= -1)
  BY RadixAssumption DEF Nibble
<1> QED BY <1>1 DEF ToPush

LEMMA PoppedFrame ==
  ASSUME TypeOK, NEW kind, Popping(kind)
  PROVE  /\ Top \in FrameType /\ Top.prefix \in Path /\ Top.node \in Node
         /\ Tail(stack) \in Seq(FrameType) /\ Body[Top.node].kind = kind
         /\ phase = "walk" /\ Loop = {}
         /\ Pending(stack) = Covered(Top) \cup Pending(Tail(stack))
<1>1. Top \in FrameType /\ Tail(stack) \in Seq(FrameType)
  BY StackTypes DEF Popping, TypeOK, Top
<1>2. Loop = {}
  BY NothingToPush DEF Loop, Popping
<1>3. Pending(stack) = Covered(Top) \cup Pending(Tail(stack))
  BY PendingPop DEF Popping, TypeOK, Top
<1> QED BY <1>1, <1>2, <1>3 DEF Popping, FrameType

LEMMA StartComplete == TypeOK /\ CompleteInv /\ Start => CompleteInv'
<1> SUFFICES ASSUME TypeOK, CompleteInv, Start PROVE CompleteInv'
  OBVIOUS
<1>1. CASE StartError # "none"
  BY <1>1, RejectComplete DEF Start, Unless
<1>2. CASE StartError = "none"
  <2> DEFINE f == [node |-> corpus.root, prefix |-> <<>>]
  <2>1. /\ phase' = "walk" /\ stack' = <<f>>
        /\ UNCHANGED <<corpus, frame, next, indices>>
    BY <1>2 DEF Start, Unless
  <2>2. corpus.root \in Node /\ f \in FrameType
    BY DEF TypeOK, FrameType, Path
  <2>3. Met' = {} /\ next' = -1
    BY <2>1 DEF Start, CompleteInv, indices, Met, Seen
  <2>4. Loop' = {}
    BY <2>3, NothingToPush DEF Loop
  <2>5. Covered(f) = Reach[corpus.root]
    BY <2>2, ReachPaths, UnderEmpty DEF Covered
  <2>6. Pending(stack') = Covered(f)
    <3>1. stack' = <<f>> \o <<>> /\ <<>> \in Seq(FrameType)
      BY <2>1, <2>2
    <3> QED BY <3>1, <2>2, PendingPush, PendingEmpty
  <2> HIDE DEF f
  <2> QED BY <2>1, <2>3, <2>4, <2>5, <2>6 DEF CompleteInv
<1> QED BY <1>1, <1>2

LEMMA LeafComplete == TypeOK /\ CompleteInv /\ VisitLeaf => CompleteInv'
<1> SUFFICES ASSUME TypeOK, CompleteInv, VisitLeaf PROVE CompleteInv'
  OBVIOUS
<1> DEFINE b == Body[Top.node]
           key == Top.prefix \o b.path
           e == First(WidthError(key), VisitError(key, b.value))
<1>0. Popping("leaf") /\ key \in Path
  BY LeafKey DEF VisitLeaf
<1>1. CASE e # "none"
  <2>1. Reject(e)
    BY <1>1 DEF VisitLeaf, Unless
  <2> QED BY <2>1, RejectComplete
<1>2. CASE e = "none"
  <2>1. RecordError(key) = "none"
    BY <1>2 DEF First, VisitError
  <2>2. /\ Record(key) /\ stack' = Tail(stack)
        /\ UNCHANGED <<corpus, phase, frame, next>>
    BY <1>2 DEF VisitLeaf, Unless
  <2>3. Met' = Met \cup {key}
    BY <1>0, <2>1, <2>2, RecordMet
  <2>4. Covered(Top) = {key}
    <3>1. Top.prefix \in Path /\ b.path \in Path /\ Reach[Top.node] = {b.path}
      BY <1>0, PoppedFrame, BodyTypes, ReachAssumption
    <3> QED BY <3>1, UnderOne DEF Covered
  <2>5. Loop' = Loop
    BY <2>2 DEF Loop
  <2> HIDE DEF key
  <2> QED BY <1>0, <2>2, <2>3, <2>4, <2>5, PoppedFrame DEF CompleteInv
<1> QED BY <1>1, <1>2

LEMMA ExtensionComplete == TypeOK /\ CompleteInv /\ VisitExtension => CompleteInv'
<1> SUFFICES ASSUME TypeOK, CompleteInv, VisitExtension PROVE CompleteInv'
  OBVIOUS
<1> DEFINE b == Body[Top.node]
           path == Top.prefix \o b.path
           f == [node |-> b.child.node, prefix |-> path]
           e == First(WidthError(path), ChildError(b.child))
<1>0. Popping("ext") /\ Top.prefix \in Path /\ Top.node \in Node
  BY PoppedFrame DEF VisitExtension
<1>1. CASE e # "none"
  <2>1. Reject(e)
    BY <1>1 DEF VisitExtension, Unless
  <2> QED BY <2>1, RejectComplete
<1>2. CASE e = "none"
  <2>1. /\ stack' = <<f>> \o Tail(stack)
        /\ UNCHANGED <<corpus, phase, frame, next, indices>>
    BY <1>2 DEF VisitExtension, Unless
  <2>2. b.path \in Path /\ b.child.node \in Node /\ b.kind = "ext"
    BY <1>0, BodyTypes, ChildNode DEF Popping
  <2>3. path \in Path /\ f \in FrameType
    BY <1>0, <2>2 DEF FrameType, Path
  <2>4. Covered(f) = Covered(Top)
    <3>1. Reach[Top.node] = Under(b.path, Reach[b.child.node])
      BY <1>0, <2>2, ReachAssumption
    <3>2. Under(Top.prefix, Under(b.path, Reach[b.child.node])) = Under(path, Reach[b.child.node])
      BY <1>0, <2>2, ReachPaths, UnderUnder
    <3> QED BY <3>1, <3>2 DEF Covered
  <2>5. Pending(stack') = Pending(stack)
    BY <1>0, <2>1, <2>3, <2>4, PoppedFrame, PendingPush
  <2>6. Met' = Met /\ Loop' = Loop
    BY <2>1 DEF Met, Seen, Loop, indices
  <2> QED BY <1>0, <2>1, <2>5, <2>6 DEF CompleteInv, Popping
<1> QED BY <1>1, <1>2

LEMMA BranchComplete == TypeOK /\ CompleteInv /\ VisitBranch => CompleteInv'
<1> SUFFICES ASSUME TypeOK, CompleteInv, VisitBranch PROVE CompleteInv'
  OBVIOUS
<1> DEFINE b == Body[Top.node]
           e == BranchError(b)
           own == IF Bare(b) THEN {} ELSE {Top.prefix}
<1>0. Popping("branch") /\ Top.prefix \in Path /\ Top.node \in Node
  BY PoppedFrame DEF VisitBranch
<1>1. CASE e # "none"
  <2>1. Reject(e)
    BY <1>1 DEF VisitBranch, Unless
  <2> QED BY <2>1, RejectComplete
<1>2. CASE e = "none"
  <2>1. /\ IF Bare(b) THEN UNCHANGED indices ELSE Record(Top.prefix)
        /\ frame' = Top /\ next' = Radix - 1 /\ stack' = Tail(stack)
        /\ UNCHANGED <<corpus, phase>>
    BY <1>2 DEF VisitBranch, Unless
  <2>2. Met' = Met \cup own
    <3>1. CASE Bare(b)
      BY <2>1, <3>1 DEF Met, Seen, indices
    <3>2. CASE ~Bare(b)
      <4>1. RecordError(Top.prefix) = "none"
        BY <3>2, <1>2 DEF BranchError, VisitError, First
      <4> QED BY <1>0, <2>1, <3>2, <4>1, RecordMet
    <3> QED BY <3>1, <3>2
  <2>3. Loop' = ToPush(Top.prefix, b, Radix - 1)
    BY <2>1 DEF Loop
  <2>4. Covered(Top) = own \cup Loop'
    BY <1>0, <2>3, BranchCovers DEF Covered, Popping
  <2> HIDE DEF own
  <2>5. Met \cup Pending(stack) = Reach[corpus.root]
    BY <1>0, PoppedFrame DEF CompleteInv
  <2>6. Met' \cup Pending(stack') \cup Loop' = Met \cup Pending(stack)
    BY <1>0, <2>1, <2>2, <2>4, PoppedFrame
  <2> QED BY <1>0, <2>1, <2>5, <2>6 DEF CompleteInv, Popping
<1> QED BY <1>1, <1>2

LEMMA LoopComplete == TypeOK /\ CompleteInv /\ (SkipChild \/ PushChild) => CompleteInv'
<1> SUFFICES ASSUME TypeOK, CompleteInv, SkipChild \/ PushChild PROVE CompleteInv'
  OBVIOUS
<1> DEFINE b == Body[frame.node]
           child == b.children[next]
           path == Append(frame.prefix, next)
           f == [node |-> child.node, prefix |-> path]
           e == First(WidthError(path), ChildError(child))
<1>0. /\ phase = "walk" /\ next \in Nibble /\ b.kind = "branch"
      /\ frame \in FrameType /\ frame.prefix \in Path /\ frame.node \in Node
  BY NibbleOfNext DEF SkipChild, PushChild, TypeOK, FrameType
<1>1. \A c \in Nibble : c <= next <=> c = next \/ c <= next - 1
  BY <1>0, RadixAssumption DEF Nibble
<1>2. CASE SkipChild
  <2>1. child = NoChild /\ next' = next - 1
        /\ UNCHANGED <<corpus, phase, stack, frame, indices>>
    BY <1>2 DEF SkipChild
  <2>2. Loop' = Loop
    BY <1>1, <2>1 DEF Loop, ToPush
  <2>3. Met' = Met
    BY <2>1 DEF Met, Seen, indices
  <2> QED BY <1>0, <2>1, <2>2, <2>3 DEF CompleteInv
<1>3. CASE PushChild /\ e # "none"
  <2>1. Reject(e)
    BY <1>3 DEF PushChild, Unless
  <2> QED BY <2>1, RejectComplete
<1>4. CASE PushChild /\ e = "none"
  <2>1. /\ child # NoChild /\ stack' = <<f>> \o stack /\ next' = next - 1
        /\ UNCHANGED <<corpus, phase, frame, indices>>
    BY <1>4 DEF PushChild, Unless
  <2>2. child \in Child /\ child.node \in Node
    BY <1>0, <2>1, BodyTypes, ChildNode
  <2>3. f \in FrameType
    BY <1>0, <2>2 DEF FrameType, Path
  <2>4. Covered(f) = ChildKeys(frame.prefix, b, next)
    BY DEF Covered, ChildKeys
  <2>5. Pending(stack') = Covered(f) \cup Pending(stack)
    BY <2>1, <2>3, PendingPush DEF TypeOK
  <2>6. Loop = Covered(f) \cup Loop'
    <3> DEFINE C(n) == {c \in Nibble : c <= n /\ b.children[c] # NoChild}
    <3>1. C(next) = {next} \cup C(next - 1)
      BY <1>0, <1>1, <2>1
    <3>2. Loop = UNION {ChildKeys(frame.prefix, b, c) : c \in C(next)}
      BY DEF Loop, ToPush
    <3>3. Loop' = UNION {ChildKeys(frame.prefix, b, c) : c \in C(next - 1)}
      BY <2>1 DEF Loop, ToPush
    <3> HIDE DEF C, f
    <3> QED BY <2>4, <3>1, <3>2, <3>3
  <2>7. Met' = Met
    BY <2>1 DEF Met, Seen, indices
  <2> HIDE DEF f
  <2> QED BY <1>0, <2>1, <2>5, <2>6, <2>7 DEF CompleteInv
<1> QED BY <1>2, <1>3, <1>4

LEMMA FinishComplete ==
  TypeOK /\ DenseInv /\ CompleteInv /\ (EmptyTrie \/ FinishWalk) => CompleteInv'
<1> SUFFICES ASSUME TypeOK, DenseInv, CompleteInv, EmptyTrie \/ FinishWalk
             PROVE  CompleteInv'
  OBVIOUS
<1>1. CASE EmptyTrie
  <2>1. Met = {} /\ Reach[corpus.root] = {}
    BY <1>1, CorporaAssumption, ReachAssumption
       DEF EmptyTrie, CompleteInv, Met, Seen, DenseInv, Checked
  <2>2. CASE Accept
    BY <2>1, <2>2 DEF Accept, CompleteInv, Met, Seen, indices
  <2> QED BY <1>1, <2>2, RejectComplete DEF EmptyTrie
<1>2. CASE FinishWalk
  <2>1. CASE FinishError # "none"
    BY <1>2, <2>1, RejectComplete DEF FinishWalk, Unless
  <2>2. CASE FinishError = "none"
    <3>1. phase = "walk" /\ Pending(stack) = {} /\ Loop = {}
      BY <1>2, PendingEmpty, NothingToPush DEF FinishWalk, Loop
    <3>2. phase' = "probe" /\ UNCHANGED <<corpus, indices>>
      BY <1>2, <2>2 DEF FinishWalk, Unless
    <3> QED BY <3>1, <3>2 DEF CompleteInv, Met, Seen, indices
  <2> QED BY <2>1, <2>2
<1> QED BY <1>1, <1>2

LEMMA LookupComplete ==
  CompleteInv /\ (VisitInvalid \/ ProbeStep \/ ProbeEnd \/ VerifyStep \/ VerifyEnd)
    => CompleteInv'
<1> SUFFICES ASSUME CompleteInv,
                    VisitInvalid \/ ProbeStep \/ ProbeEnd \/ VerifyStep \/ VerifyEnd
             PROVE  CompleteInv'
  OBVIOUS
<1>1. CASE \E e : Reject(e)
  BY <1>1, RejectComplete
<1>2. CASE /\ phase \in {"probe", "verify"}
           /\ phase' \in {"probe", "verify", "accepted"} /\ UNCHANGED <<corpus, indices>>
  BY <1>2 DEF CompleteInv, Met, Seen, indices
<1>3. CASE VisitInvalid
  BY <1>1, <1>3 DEF VisitInvalid
<1>4. CASE ProbeStep
  BY <1>1, <1>2, <1>4 DEF ProbeStep, Unless
<1>5. CASE ProbeEnd
  BY <1>1, <1>2, <1>5 DEF ProbeEnd, Unless
<1>6. CASE VerifyStep
  BY <1>1, <1>2, <1>6 DEF VerifyStep, Unless
<1>7. CASE VerifyEnd
  BY <1>1, <1>2, <1>7 DEF VerifyEnd, Unless, Accept
<1> QED BY <1>3, <1>4, <1>5, <1>6, <1>7

LEMMA NextComplete == TypeOK /\ DenseInv /\ CompleteInv /\ [Next]_vars => CompleteInv'
<1> SUFFICES ASSUME TypeOK, DenseInv, CompleteInv, [Next]_vars PROVE CompleteInv'
  OBVIOUS
<1>1. CASE UNCHANGED vars
  BY <1>1 DEF vars, indices, CompleteInv, Met, Seen, Loop
<1> QED
  BY <1>1, StartComplete, LeafComplete, ExtensionComplete, BranchComplete, LoopComplete,
     FinishComplete, LookupComplete DEF Next

\* An accepted walk has visited exactly the keys below the root, for every trie
\* and every sharing of its nodes: no receipt is skipped, none is invented.
THEOREM AcceptedWalkIsComplete == Spec => []AcceptedIsComplete
<1>1. Init => TypeOK /\ DenseInv /\ CompleteInv
  BY InitType, InitDense, InitComplete
<1>2. TypeOK /\ DenseInv /\ CompleteInv /\ [Next]_vars => (TypeOK /\ DenseInv /\ CompleteInv)'
  BY NextType, NextDense, NextComplete
<1>3. CompleteInv => AcceptedIsComplete
  BY DEF CompleteInv, AcceptedIsComplete, Met
<1> QED BY <1>1, <1>2, <1>3, PTL DEF Spec

-----------------------------------------------------------------------------
(***************************************************************************)
(* The corpus.  What the walk has used, with the hashed nodes below the    *)
(* frames on the stack and below the children still to push, is at every   *)
(* moment the root and all the hashed nodes below it.  Nothing is used     *)
(* that was not supplied, and at the end nothing supplied is left unused.  *)
(***************************************************************************)
HashedBelow(s) == UNION {Hashed[s[i].node] : i \in DOMAIN s}
HashedChildren(b, n) ==
  UNION {ChildHashes(b.children[c]) : c \in {c \in Nibble : c <= n /\ b.children[c] # NoChild}}
LoopHashes == HashedChildren(Body[frame.node], next)
Whole == {corpus.root} \cup Hashed[corpus.root]

ExactInv ==
  /\ phase = "start" => next = -1
  /\ phase = "walk" =>
       /\ ~Duplicated /\ used \subseteq Supplied
       /\ used \cup HashedBelow(stack) \cup LoopHashes = Whole
  /\ phase \in {"probe", "verify", "accepted"} /\ corpus.root # EmptyNode =>
       ~Duplicated /\ Supplied = Whole

LEMMA HashedPush ==
  ASSUME NEW s \in Seq(FrameType), NEW f \in FrameType
  PROVE  HashedBelow(<<f>> \o s) = Hashed[f.node] \cup HashedBelow(s)
<1> DEFINE t == <<f>> \o s
<1>1. /\ DOMAIN t = 1..(Len(s) + 1) /\ DOMAIN s = 1..Len(s) /\ Len(s) \in Nat
      /\ t[1] = f /\ \A i \in 1..Len(s) : t[i + 1] = s[i]
  OBVIOUS
<1> HIDE DEF t
<1>2. \A i \in DOMAIN t : i = 1 \/ (i - 1 \in DOMAIN s /\ t[i] = s[i - 1])
  BY <1>1
<1>3. \A i \in DOMAIN s : i + 1 \in DOMAIN t /\ t[i + 1] = s[i]
  BY <1>1
<1>4. 1 \in DOMAIN t /\ t[1] = f
  BY <1>1
<1>5. HashedBelow(t) \subseteq Hashed[f.node] \cup HashedBelow(s)
  BY <1>2, <1>4 DEF HashedBelow
<1>6. Hashed[f.node] \cup HashedBelow(s) \subseteq HashedBelow(t)
  BY <1>3, <1>4 DEF HashedBelow
<1> QED BY <1>5, <1>6 DEF t

LEMMA HashedPop ==
  ASSUME NEW s \in Seq(FrameType), s # <<>>
  PROVE  HashedBelow(s) = Hashed[Head(s).node] \cup HashedBelow(Tail(s))
<1>1. Head(s) \in FrameType /\ Tail(s) \in Seq(FrameType) /\ s = <<Head(s)>> \o Tail(s)
  OBVIOUS
<1> QED BY <1>1, HashedPush

LEMMA HashedEmpty == HashedBelow(<<>>) = {}
BY DEF HashedBelow

LEMMA NoChildHashes == ASSUME NEW b PROVE HashedChildren(b, -1) = {}
<1>1. \A c \in Nibble : ~(c <= -1)
  BY RadixAssumption DEF Nibble
<1> QED BY <1>1 DEF HashedChildren

LEMMA AllChildHashes ==
  ASSUME NEW n \in Node, Body[n].kind = "branch"
  PROVE  HashedChildren(Body[n], Radix - 1) = Hashed[n]
<1>1. {c \in Nibble : Body[n].children[c] # NoChild}
        = {c \in Nibble : c <= Radix - 1 /\ Body[n].children[c] # NoChild}
  BY RadixAssumption DEF Nibble
<1> QED BY <1>1, HashedAssumption DEF HashedChildren

LEMMA PoppedHashes ==
  ASSUME TypeOK, NEW kind, Popping(kind)
  PROVE  /\ Top.node \in Node /\ Body[Top.node].kind = kind /\ phase = "walk"
         /\ Tail(stack) \in Seq(FrameType) /\ LoopHashes = {}
         /\ HashedBelow(stack) = Hashed[Top.node] \cup HashedBelow(Tail(stack))
<1>1. HashedBelow(stack) = Hashed[Top.node] \cup HashedBelow(Tail(stack))
  BY HashedPop DEF Popping, TypeOK, Top
<1> QED BY <1>1, PoppedFrame, NoChildHashes DEF Popping, LoopHashes

\* A child that was found referenced by hash was supplied.
LEMMA ReachedIsSupplied ==
  ASSUME NEW child \in Child, child # NoChild, ChildError(child) = "none"
  PROVE  Reached(child) \subseteq Supplied
BY DEF ChildError, Reached, Child

LEMMA InitExact == Init => ExactInv
BY DEF Init, ExactInv

LEMMA RejectExact == ASSUME NEW e, ExactInv, Reject(e) PROVE ExactInv'
BY DEF Reject, ExactInv

\* A step of the walk that moves hashed nodes from what is below the stack and
\* the loop to what is used.
LEMMA SameExact ==
  ASSUME ExactInv, phase = "walk", phase' = "walk", corpus' = corpus,
         used' \subseteq Supplied,
         used' \cup HashedBelow(stack') \cup LoopHashes'
           = used \cup HashedBelow(stack) \cup LoopHashes
  PROVE  ExactInv'
BY DEF ExactInv, Duplicated, Supplied, Whole

LEMMA StartExact == TypeOK /\ ExactInv /\ Start => ExactInv'
<1> SUFFICES ASSUME TypeOK, ExactInv, Start PROVE ExactInv'
  OBVIOUS
<1>1. CASE StartError # "none"
  BY <1>1, RejectExact DEF Start, Unless
<1>2. CASE StartError = "none"
  <2> DEFINE f == [node |-> corpus.root, prefix |-> <<>>]
  <2>1. /\ phase' = "walk" /\ used' = {corpus.root} /\ stack' = <<f>>
        /\ UNCHANGED <<corpus, frame, next>>
    BY <1>2 DEF Start, Unless
  <2>2. f \in FrameType /\ f.node = corpus.root
    BY DEF TypeOK, FrameType, Path
  <2>3. LoopHashes' = {}
    BY <2>1, NoChildHashes DEF Start, ExactInv, LoopHashes
  <2>4. HashedBelow(stack') = Hashed[corpus.root]
    <3>1. stack' = <<f>> \o <<>> /\ <<>> \in Seq(FrameType)
      BY <2>1, <2>2
    <3> QED BY <3>1, <2>2, HashedPush, HashedEmpty
  <2>5. ~Duplicated /\ corpus.root \in Supplied
    BY <1>2 DEF StartError
  <2> HIDE DEF f
  <2> QED BY <2>1, <2>3, <2>4, <2>5 DEF ExactInv, Duplicated, Supplied, Whole
<1> QED BY <1>1, <1>2

LEMMA LeafExact == TypeOK /\ ExactInv /\ VisitLeaf => ExactInv'
<1> SUFFICES ASSUME TypeOK, ExactInv, VisitLeaf PROVE ExactInv'
  OBVIOUS
<1> DEFINE b == Body[Top.node]
           key == Top.prefix \o b.path
           e == First(WidthError(key), VisitError(key, b.value))
<1>1. CASE e # "none"
  <2>1. Reject(e)
    BY <1>1 DEF VisitLeaf, Unless
  <2> QED BY <2>1, RejectExact
<1>2. CASE e = "none"
  <2>1. /\ stack' = Tail(stack) /\ UNCHANGED <<corpus, phase, used, frame, next>>
    BY <1>2 DEF VisitLeaf, Unless
  <2>2. Popping("leaf") /\ phase = "walk" /\ Hashed[Top.node] = {}
    BY PoppedHashes, HashedAssumption DEF VisitLeaf
  <2>3. HashedBelow(stack') = HashedBelow(stack) /\ LoopHashes' = LoopHashes
    BY <2>1, <2>2, PoppedHashes DEF LoopHashes
  <2> QED BY <2>1, <2>2, <2>3, SameExact DEF ExactInv
<1> QED BY <1>1, <1>2

LEMMA ExtensionExact == TypeOK /\ ExactInv /\ VisitExtension => ExactInv'
<1> SUFFICES ASSUME TypeOK, ExactInv, VisitExtension PROVE ExactInv'
  OBVIOUS
<1> DEFINE b == Body[Top.node]
           path == Top.prefix \o b.path
           f == [node |-> b.child.node, prefix |-> path]
           e == First(WidthError(path), ChildError(b.child))
<1>0. Popping("ext") /\ Top.node \in Node /\ b.kind = "ext" /\ phase = "walk"
  BY PoppedHashes DEF VisitExtension
<1>1. CASE e # "none"
  <2>1. Reject(e)
    BY <1>1 DEF VisitExtension, Unless
  <2> QED BY <2>1, RejectExact
<1>2. CASE e = "none"
  <2>1. /\ stack' = <<f>> \o Tail(stack) /\ used' = used \cup Reached(b.child)
        /\ UNCHANGED <<corpus, phase, frame, next>>
    BY <1>2 DEF VisitExtension, Unless
  <2>2. b.path \in Path /\ b.child \in Child /\ b.child # NoChild /\ b.child.node \in Node
    BY <1>0, BodyTypes, ChildNode
  <2>3. f \in FrameType /\ f.node = b.child.node
    BY <1>0, <2>2, PoppedFrame DEF FrameType, Path
  <2>4. Reached(b.child) \subseteq Supplied
    BY <1>2, <2>2, ReachedIsSupplied DEF First
  <2>5. Hashed[Top.node] = Reached(b.child) \cup Hashed[b.child.node]
    BY <1>0, HashedAssumption DEF ChildHashes
  <2>6. HashedBelow(stack') = Hashed[b.child.node] \cup HashedBelow(Tail(stack))
    BY <1>0, <2>1, <2>3, HashedPush, PoppedHashes
  <2>7. LoopHashes' = LoopHashes
    BY <2>1 DEF LoopHashes
  <2> HIDE DEF f
  <2>8. used' \cup HashedBelow(stack') \cup LoopHashes'
          = used \cup HashedBelow(stack) \cup LoopHashes
    BY <1>0, <2>1, <2>5, <2>6, <2>7, PoppedHashes
  <2> QED BY <1>0, <2>1, <2>4, <2>8, SameExact DEF ExactInv
<1> QED BY <1>1, <1>2

LEMMA BranchExact == TypeOK /\ ExactInv /\ VisitBranch => ExactInv'
<1> SUFFICES ASSUME TypeOK, ExactInv, VisitBranch PROVE ExactInv'
  OBVIOUS
<1> DEFINE b == Body[Top.node]
           e == BranchError(b)
<1>0. Popping("branch") /\ Top.node \in Node /\ b.kind = "branch" /\ phase = "walk"
  BY PoppedHashes DEF VisitBranch
<1>1. CASE e # "none"
  <2>1. Reject(e)
    BY <1>1 DEF VisitBranch, Unless
  <2> QED BY <2>1, RejectExact
<1>2. CASE e = "none"
  <2>1. /\ frame' = Top /\ next' = Radix - 1 /\ stack' = Tail(stack)
        /\ UNCHANGED <<corpus, phase, used>>
    BY <1>2 DEF VisitBranch, Unless
  <2>2. LoopHashes' = Hashed[Top.node]
    BY <1>0, <2>1, AllChildHashes DEF LoopHashes
  <2>3. used' \cup HashedBelow(stack') \cup LoopHashes'
          = used \cup HashedBelow(stack) \cup LoopHashes
    BY <1>0, <2>1, <2>2, PoppedHashes
  <2> QED BY <1>0, <2>1, <2>3, SameExact DEF ExactInv
<1> QED BY <1>1, <1>2

LEMMA LoopExact == TypeOK /\ ExactInv /\ (SkipChild \/ PushChild) => ExactInv'
<1> SUFFICES ASSUME TypeOK, ExactInv, SkipChild \/ PushChild PROVE ExactInv'
  OBVIOUS
<1> DEFINE b == Body[frame.node]
           child == b.children[next]
           path == Append(frame.prefix, next)
           f == [node |-> child.node, prefix |-> path]
           e == First(WidthError(path), ChildError(child))
           C(n) == {c \in Nibble : c <= n /\ b.children[c] # NoChild}
<1>0. /\ phase = "walk" /\ next \in Nibble /\ b.kind = "branch"
      /\ frame \in FrameType /\ frame.prefix \in Path /\ frame.node \in Node
  BY NibbleOfNext DEF SkipChild, PushChild, TypeOK, FrameType
<1>1. \A c \in Nibble : c <= next <=> c = next \/ c <= next - 1
  BY <1>0, RadixAssumption DEF Nibble
<1>2. CASE SkipChild
  <2>1. child = NoChild /\ next' = next - 1 /\ UNCHANGED <<corpus, phase, used, stack, frame>>
    BY <1>2 DEF SkipChild
  <2>2. C(next) = C(next - 1)
    BY <1>1, <2>1
  <2>3. LoopHashes' = LoopHashes
    BY <2>1, <2>2 DEF LoopHashes, HashedChildren
  <2> QED BY <1>0, <2>1, <2>3, SameExact DEF ExactInv
<1>3. CASE PushChild /\ e # "none"
  <2>1. Reject(e)
    BY <1>3 DEF PushChild, Unless
  <2> QED BY <2>1, RejectExact
<1>4. CASE PushChild /\ e = "none"
  <2>1. /\ child # NoChild /\ stack' = <<f>> \o stack /\ next' = next - 1
        /\ used' = used \cup Reached(child)
        /\ UNCHANGED <<corpus, phase, frame>>
    BY <1>4 DEF PushChild, Unless
  <2>2. child \in Child /\ child.node \in Node
    BY <1>0, <2>1, BodyTypes, ChildNode
  <2>3. f \in FrameType /\ f.node = child.node
    BY <1>0, <2>2 DEF FrameType, Path
  <2>4. Reached(child) \subseteq Supplied
    BY <1>4, <2>1, <2>2, ReachedIsSupplied DEF First
  <2>5. HashedBelow(stack') = Hashed[child.node] \cup HashedBelow(stack)
    BY <2>1, <2>3, HashedPush DEF TypeOK
  <2>6. LoopHashes = Reached(child) \cup Hashed[child.node] \cup LoopHashes'
    <3>1. C(next) = {next} \cup C(next - 1)
      BY <1>0, <1>1, <2>1
    <3>2. LoopHashes = UNION {ChildHashes(b.children[c]) : c \in C(next)}
      BY DEF LoopHashes, HashedChildren
    <3>3. LoopHashes' = UNION {ChildHashes(b.children[c]) : c \in C(next - 1)}
      BY <2>1 DEF LoopHashes, HashedChildren
    <3>4. ChildHashes(b.children[next]) = Reached(child) \cup Hashed[child.node]
      BY DEF ChildHashes
    <3> HIDE DEF C, f
    <3> QED BY <3>1, <3>2, <3>3, <3>4
  <2> HIDE DEF f
  <2>7. used' \cup HashedBelow(stack') \cup LoopHashes'
          = used \cup HashedBelow(stack) \cup LoopHashes
    BY <2>1, <2>5, <2>6
  <2> QED BY <1>0, <2>1, <2>4, <2>7, SameExact DEF ExactInv
<1> QED BY <1>2, <1>3, <1>4

LEMMA FinishExact == TypeOK /\ ExactInv /\ (EmptyTrie \/ FinishWalk) => ExactInv'
<1> SUFFICES ASSUME TypeOK, ExactInv, EmptyTrie \/ FinishWalk PROVE ExactInv'
  OBVIOUS
<1>1. CASE EmptyTrie
  <2>1. CASE Accept
    BY <1>1, <2>1 DEF EmptyTrie, Accept, ExactInv
  <2> QED BY <1>1, <2>1, RejectExact DEF EmptyTrie
<1>2. CASE FinishWalk
  <2>1. CASE FinishError # "none"
    BY <1>2, <2>1, RejectExact DEF FinishWalk, Unless
  <2>2. CASE FinishError = "none"
    <3>1. phase = "walk" /\ HashedBelow(stack) = {} /\ LoopHashes = {}
      BY <1>2, HashedEmpty, NoChildHashes DEF FinishWalk, LoopHashes
    <3>2. Supplied \subseteq used
      BY <2>2 DEF FinishError
    <3>3. phase' = "probe" /\ corpus' = corpus
      BY <1>2, <2>2 DEF FinishWalk, Unless
    <3>4. ~Duplicated /\ Supplied = Whole
      BY <3>1, <3>2 DEF ExactInv
    <3> QED BY <3>3, <3>4 DEF ExactInv, Duplicated, Supplied, Whole
  <2> QED BY <2>1, <2>2
<1> QED BY <1>1, <1>2

LEMMA LookupExact ==
  ExactInv /\ (VisitInvalid \/ ProbeStep \/ ProbeEnd \/ VerifyStep \/ VerifyEnd) => ExactInv'
<1> SUFFICES ASSUME ExactInv, VisitInvalid \/ ProbeStep \/ ProbeEnd \/ VerifyStep \/ VerifyEnd
             PROVE  ExactInv'
  OBVIOUS
<1>1. CASE \E e : Reject(e)
  BY <1>1, RejectExact
<1>2. CASE /\ phase \in {"probe", "verify"}
           /\ phase' \in {"probe", "verify", "accepted"} /\ corpus' = corpus
  BY <1>2 DEF ExactInv, Duplicated, Supplied, Whole
<1>3. CASE VisitInvalid
  BY <1>1, <1>3 DEF VisitInvalid
<1>4. CASE ProbeStep
  BY <1>1, <1>2, <1>4 DEF ProbeStep, Unless
<1>5. CASE ProbeEnd
  BY <1>1, <1>2, <1>5 DEF ProbeEnd, Unless
<1>6. CASE VerifyStep
  BY <1>1, <1>2, <1>6 DEF VerifyStep, Unless
<1>7. CASE VerifyEnd
  BY <1>1, <1>2, <1>7 DEF VerifyEnd, Unless, Accept
<1> QED BY <1>3, <1>4, <1>5, <1>6, <1>7

LEMMA NextExact == TypeOK /\ ExactInv /\ [Next]_vars => ExactInv'
<1> SUFFICES ASSUME TypeOK, ExactInv, [Next]_vars PROVE ExactInv'
  OBVIOUS
<1>1. CASE UNCHANGED vars
  BY <1>1 DEF vars, ExactInv, Duplicated, Supplied, Whole, LoopHashes
<1> QED
  BY <1>1, StartExact, LeafExact, ExtensionExact, BranchExact, LoopExact, FinishExact,
     LookupExact DEF Next

\* A list without repetition is as long as the set of its elements.
LEMMA ListedOnce ==
  ASSUME TypeOK, ~Duplicated
  PROVE  Len(corpus.nodes) = Cardinality(Supplied)
<1> DEFINE f == corpus.nodes
           n == Len(f)
<1>1. f \in Seq(Node) /\ n \in Nat /\ DOMAIN f = 1..n
  BY DEF TypeOK
<1>2. \A i, j \in 1..n : f[i] = f[j] => i = j
  <2> SUFFICES ASSUME NEW i \in 1..n, NEW j \in 1..n, f[i] = f[j], i # j PROVE FALSE
    OBVIOUS
  <2>1. i < j \/ j < i
    BY <1>1
  <2> QED BY <2>1, <1>1 DEF Duplicated
<1>3. f \in [1..n -> Supplied] /\ \A x \in Supplied : \E i \in 1..n : f[i] = x
  BY <1>1 DEF Supplied
<1> HIDE DEF f, n
<1>4. f \in Bijection(1..n, Supplied)
  BY <1>2, <1>3, Fun_IsBij
<1> QED BY <1>1, <1>4, FS_CountingElements DEF ExistsBijection, f, n

\* The corpus of an accepted walk is determined by its root, for every trie: the
\* root and the hashed nodes below it, each listed once.  No other witness of the
\* same block's receipts is accepted.
THEOREM AcceptedCorpusIsDetermined == Spec => []AcceptedCorpusIsExact
<1>1. Init => TypeOK /\ ExactInv
  BY InitType, InitExact
<1>2. TypeOK /\ ExactInv /\ [Next]_vars => (TypeOK /\ ExactInv)'
  BY NextType, NextExact
<1>3. TypeOK /\ ExactInv => AcceptedCorpusIsExact
  BY ListedOnce DEF ExactInv, AcceptedCorpusIsExact, Whole
<1> QED BY <1>1, <1>2, <1>3, PTL DEF Spec

-----------------------------------------------------------------------------
(***************************************************************************)
(* The terminal exclusion.  After the walk, no lookup can fail: every node *)
(* a lookup can come to was visited, so it decodes and its children were   *)
(* found; and the second lookup goes through the states of the first, in   *)
(* step with the proof that the first wrote.                               *)
(*                                                                         *)
(* The visited nodes are not stored.  The invariant says that there is a   *)
(* set of them, closed up to the frames on the stack and to the children   *)
(* that the loop has still to push.                                        *)
(***************************************************************************)
OnStack(s) == {s[i].node : i \in DOMAIN s}

FoundIn(child, S) == child # NoChild => ChildError(child) = "none" /\ child.node \in S

\* The node decodes; its children above the k-th were found and are in S.
ChildrenIn(n, S, k) ==
  /\ Body[n].kind # "invalid"
  /\ Body[n].kind = "ext" => FoundIn(Body[n].child, S)
  /\ Body[n].kind = "branch" => \A c \in Nibble : c > k => FoundIn(Body[n].children[c], S)

Left(n) == IF n = frame.node THEN next ELSE -1

Explored(D) ==
  /\ corpus.root \in D \cup OnStack(stack)
  /\ \A n \in D : ChildrenIn(n, D \cup OnStack(stack), Left(n))

Closed(D) == \A n \in D : ChildrenIn(n, D, -1)

WalkedInv ==
  /\ phase = "start" => next = -1
  /\ phase = "walk" => \E D \in SUBSET Node : Explored(D)
  /\ phase \in {"probe", "verify"} =>
       \E D \in SUBSET Node : corpus.root \in D /\ Closed(D)

LEMMA OnStackPush ==
  ASSUME NEW s \in Seq(FrameType), NEW f \in FrameType
  PROVE  OnStack(<<f>> \o s) = {f.node} \cup OnStack(s)
<1> DEFINE t == <<f>> \o s
<1>1. /\ DOMAIN t = 1..(Len(s) + 1) /\ DOMAIN s = 1..Len(s) /\ Len(s) \in Nat
      /\ t[1] = f /\ \A i \in 1..Len(s) : t[i + 1] = s[i]
  OBVIOUS
<1> HIDE DEF t
<1>2. \A i \in DOMAIN t : i = 1 \/ (i - 1 \in DOMAIN s /\ t[i] = s[i - 1])
  BY <1>1
<1>3. \A i \in DOMAIN s : i + 1 \in DOMAIN t /\ t[i + 1] = s[i]
  BY <1>1
<1>4. 1 \in DOMAIN t /\ t[1] = f
  BY <1>1
<1>5. OnStack(t) \subseteq {f.node} \cup OnStack(s)
  BY <1>2, <1>4 DEF OnStack
<1>6. {f.node} \cup OnStack(s) \subseteq OnStack(t)
  BY <1>3, <1>4 DEF OnStack
<1> QED BY <1>5, <1>6 DEF t

LEMMA OnStackPop ==
  ASSUME NEW s \in Seq(FrameType), s # <<>>
  PROVE  OnStack(s) = {Head(s).node} \cup OnStack(Tail(s))
<1>1. Head(s) \in FrameType /\ Tail(s) \in Seq(FrameType) /\ s = <<Head(s)>> \o Tail(s)
  OBVIOUS
<1> QED BY <1>1, OnStackPush

LEMMA OnStackEmpty == OnStack(<<>>) = {}
BY DEF OnStack

\* Finding more nodes, or asking about fewer children, keeps what was found.
LEMMA ChildrenMore ==
  ASSUME NEW n, NEW S, NEW T, S \subseteq T, NEW k \in Int, NEW m \in Int, k <= m,
         ChildrenIn(n, S, k)
  PROVE  ChildrenIn(n, T, m)
<1>1. \A c \in Nibble : c > m => c > k
  BY RadixAssumption DEF Nibble
<1> QED BY <1>1 DEF ChildrenIn, FoundIn

LEMMA LeftTypes == TypeOK => \A n : Left(n) \in Int /\ Left(n) >= -1
BY RadixAssumption DEF TypeOK, Left

LEMMA InitWalked == Init => WalkedInv
BY DEF Init, WalkedInv

LEMMA RejectWalked == ASSUME NEW e, WalkedInv, Reject(e) PROVE WalkedInv'
BY DEF Reject, WalkedInv

\* The loop is not running: nothing is left of any node.
LEMMA NothingLeft == ASSUME TypeOK, next = -1 PROVE \A n : Left(n) = -1
BY DEF Left

\* A popped node joins the visited ones, once its children are dealt with.
LEMMA VisitWalked ==
  ASSUME TypeOK, WalkedInv, phase = "walk", phase' = "walk", next = -1, stack # <<>>,
         corpus' = corpus, next' \in -1..(Radix - 1), Top.node \in Node,
         next' = -1 \/ frame'.node = Top.node,
         OnStack(Tail(stack)) \subseteq OnStack(stack'),
         \A D : ChildrenIn(Top.node, D \cup OnStack(stack'), next')
  PROVE  WalkedInv'
<1>1. PICK D \in SUBSET Node : Explored(D)
  BY DEF WalkedInv
<1>e. PICK E : E = D \cup {Top.node}
  OBVIOUS
<1> DEFINE T == E \cup OnStack(stack')
           left(n) == IF n = frame'.node THEN next' ELSE -1
<1>2. D \cup OnStack(stack) \subseteq T
  BY <1>e, OnStackPop DEF TypeOK, Top
<1>3. \A n : Left(n) = -1
  BY NothingLeft
<1>4. ASSUME NEW n \in E PROVE ChildrenIn(n, T, left(n))
  <2>1. left(n) \in Int /\ left(n) >= -1
    BY RadixAssumption
  <2>2. CASE n = Top.node
    <3>1. left(n) = next'
      BY <2>2
    <3> QED BY <1>e, <2>2, <3>1
  <2>3. CASE n # Top.node
    <3>1. ChildrenIn(n, D \cup OnStack(stack), -1)
      BY <1>1, <1>3, <1>e, <2>3 DEF Explored
    <3> HIDE DEF T, left
    <3> QED BY <1>2, <2>1, <3>1, ChildrenMore
  <2> QED BY <2>2, <2>3
<1>5. corpus.root \in T
  BY <1>1, <1>2 DEF Explored
<1>6. Explored(E)'
  <2>1. /\ OnStack(stack)' = OnStack(stack') /\ corpus'.root = corpus.root
        /\ \A n : Left(n)' = left(n)
    BY DEF OnStack, Left
  <2>2. \A n, S, k : ChildrenIn(n, S, k)' <=> ChildrenIn(n, S, k)
    BY DEF ChildrenIn, FoundIn, ChildError, Supplied
  <2> HIDE DEF left
  <2> QED BY <1>4, <1>5, <2>1, <2>2 DEF Explored
<1>7. E \in SUBSET Node
  BY <1>1, <1>e
<1> QED BY <1>6, <1>7 DEF WalkedInv

\* What was found of a node does not depend on the walk, only on the corpus.
LEMMA SameChildren ==
  ASSUME corpus' = corpus
  PROVE  \A n, S, k : ChildrenIn(n, S, k)' <=> ChildrenIn(n, S, k)
BY DEF ChildrenIn, FoundIn, ChildError, Supplied

LEMMA StartWalked == TypeOK /\ WalkedInv /\ Start => WalkedInv'
<1> SUFFICES ASSUME TypeOK, WalkedInv, Start PROVE WalkedInv'
  OBVIOUS
<1>1. CASE StartError # "none"
  BY <1>1, RejectWalked DEF Start, Unless
<1>2. CASE StartError = "none"
  <2> DEFINE f == [node |-> corpus.root, prefix |-> <<>>]
  <2>1. /\ phase' = "walk" /\ stack' = <<f>> /\ corpus' = corpus
    BY <1>2 DEF Start, Unless
  <2>2. 1 \in DOMAIN stack' /\ stack'[1].node = corpus.root
    BY <2>1
  <2>3. corpus'.root \in OnStack(stack)'
    BY <2>1, <2>2 DEF OnStack
  <2>4. Explored({})'
    BY <2>3 DEF Explored
  <2> QED BY <2>1, <2>4 DEF WalkedInv
<1> QED BY <1>1, <1>2

LEMMA LeafWalked == TypeOK /\ WalkedInv /\ VisitLeaf => WalkedInv'
<1> SUFFICES ASSUME TypeOK, WalkedInv, VisitLeaf PROVE WalkedInv'
  OBVIOUS
<1> DEFINE b == Body[Top.node]
           key == Top.prefix \o b.path
           e == First(WidthError(key), VisitError(key, b.value))
<1>1. CASE e # "none"
  <2>1. Reject(e)
    BY <1>1 DEF VisitLeaf, Unless
  <2> QED BY <2>1, RejectWalked
<1>2. CASE e = "none"
  <2>1. stack' = Tail(stack) /\ UNCHANGED <<corpus, phase, frame, next>>
    BY <1>2 DEF VisitLeaf, Unless
  <2>2. Popping("leaf") /\ Top.node \in Node /\ b.kind = "leaf" /\ phase = "walk"
    BY PoppedFrame DEF VisitLeaf
  <2>3. next = -1 /\ stack # <<>> /\ next' \in -1..(Radix - 1)
    BY <2>1, <2>2 DEF Popping, TypeOK
  <2>4. \A D : ChildrenIn(Top.node, D \cup OnStack(stack'), next')
    BY <2>2 DEF ChildrenIn
  <2> QED BY <2>1, <2>2, <2>3, <2>4, VisitWalked
<1> QED BY <1>1, <1>2

LEMMA ExtensionWalked == TypeOK /\ WalkedInv /\ VisitExtension => WalkedInv'
<1> SUFFICES ASSUME TypeOK, WalkedInv, VisitExtension PROVE WalkedInv'
  OBVIOUS
<1> DEFINE b == Body[Top.node]
           path == Top.prefix \o b.path
           f == [node |-> b.child.node, prefix |-> path]
           e == First(WidthError(path), ChildError(b.child))
<1>0. Popping("ext") /\ Top.node \in Node /\ b.kind = "ext" /\ phase = "walk"
  BY PoppedFrame DEF VisitExtension
<1>1. CASE e # "none"
  <2>1. Reject(e)
    BY <1>1 DEF VisitExtension, Unless
  <2> QED BY <2>1, RejectWalked
<1>2. CASE e = "none"
  <2>1. stack' = <<f>> \o Tail(stack) /\ UNCHANGED <<corpus, phase, frame, next>>
    BY <1>2 DEF VisitExtension, Unless
  <2>2. b.path \in Path /\ b.child \in Child /\ b.child # NoChild /\ b.child.node \in Node
    BY <1>0, BodyTypes, ChildNode
  <2>3. f \in FrameType /\ f.node = b.child.node
    BY <1>0, <2>2, PoppedFrame DEF FrameType, Path
  <2>4. next = -1 /\ stack # <<>> /\ next' \in -1..(Radix - 1)
    BY <1>0, <2>1 DEF Popping, TypeOK
  <2>5. OnStack(stack') = {b.child.node} \cup OnStack(Tail(stack))
    BY <1>0, <2>1, <2>3, OnStackPush, PoppedFrame
  <2>6. ChildError(b.child) = "none"
    BY <1>2 DEF First
  <2>7. \A D : ChildrenIn(Top.node, D \cup OnStack(stack'), next')
    BY <1>0, <2>5, <2>6 DEF ChildrenIn, FoundIn
  <2> QED BY <1>0, <2>1, <2>4, <2>5, <2>7, VisitWalked
<1> QED BY <1>1, <1>2

LEMMA BranchWalked == TypeOK /\ WalkedInv /\ VisitBranch => WalkedInv'
<1> SUFFICES ASSUME TypeOK, WalkedInv, VisitBranch PROVE WalkedInv'
  OBVIOUS
<1> DEFINE b == Body[Top.node]
           e == BranchError(b)
<1>0. Popping("branch") /\ Top.node \in Node /\ b.kind = "branch" /\ phase = "walk"
  BY PoppedFrame DEF VisitBranch
<1>1. CASE e # "none"
  <2>1. Reject(e)
    BY <1>1 DEF VisitBranch, Unless
  <2> QED BY <2>1, RejectWalked
<1>2. CASE e = "none"
  <2>1. /\ frame' = Top /\ next' = Radix - 1 /\ stack' = Tail(stack)
        /\ UNCHANGED <<corpus, phase>>
    BY <1>2 DEF VisitBranch, Unless
  <2>2. next = -1 /\ stack # <<>> /\ next' \in -1..(Radix - 1)
    BY <1>0, <2>1, RadixAssumption DEF Popping
  <2>3. \A c \in Nibble : ~(c > next')
    BY <2>1, RadixAssumption DEF Nibble
  <2>4. \A D : ChildrenIn(Top.node, D \cup OnStack(stack'), next')
    BY <1>0, <2>3 DEF ChildrenIn
  <2> QED BY <1>0, <2>1, <2>2, <2>4, VisitWalked
<1> QED BY <1>1, <1>2

LEMMA LoopWalked == TypeOK /\ WalkedInv /\ (SkipChild \/ PushChild) => WalkedInv'
<1> SUFFICES ASSUME TypeOK, WalkedInv, SkipChild \/ PushChild PROVE WalkedInv'
  OBVIOUS
<1> DEFINE b == Body[frame.node]
           child == b.children[next]
           path == Append(frame.prefix, next)
           f == [node |-> child.node, prefix |-> path]
           e == First(WidthError(path), ChildError(child))
<1>a. /\ phase = "walk" /\ next \in Nibble /\ b.kind = "branch"
      /\ frame \in FrameType /\ frame.prefix \in Path /\ frame.node \in Node
  BY NibbleOfNext DEF SkipChild, PushChild, TypeOK, FrameType
<1>0. /\ phase = "walk" /\ next \in Nibble /\ next \in Int /\ b.kind = "branch"
      /\ frame \in FrameType /\ frame.prefix \in Path /\ frame.node \in Node
  BY <1>a, RadixAssumption DEF Nibble
<1>1. CASE PushChild /\ e # "none"
  <2>1. Reject(e)
    BY <1>1 DEF PushChild, Unless
  <2> QED BY <2>1, RejectWalked
<1>2. CASE SkipChild \/ e = "none"
  <2>1. next' = next - 1 /\ UNCHANGED <<corpus, phase, frame>>
    BY <1>2 DEF SkipChild, PushChild, Unless
  <2>2. PICK D \in SUBSET Node : Explored(D)
    BY <1>0 DEF WalkedInv
  <2> DEFINE S == D \cup OnStack(stack)
             T == D \cup OnStack(stack')
  <2>3. S \subseteq T /\ FoundIn(child, T)
    <3>1. CASE SkipChild
      BY <3>1 DEF SkipChild, FoundIn
    <3>2. CASE PushChild /\ e = "none"
      <4>1. child # NoChild /\ stack' = <<f>> \o stack
        BY <3>2 DEF PushChild, Unless
      <4>2. child \in Child /\ child.node \in Node
        BY <1>0, <4>1, BodyTypes, ChildNode
      <4>3. f \in FrameType /\ f.node = child.node
        BY <1>0, <4>2 DEF FrameType, Path
      <4>4. OnStack(stack') = {child.node} \cup OnStack(stack)
        BY <4>1, <4>3, OnStackPush DEF TypeOK
      <4>5. ChildError(child) = "none"
        BY <3>2 DEF First
      <4> QED BY <4>4, <4>5 DEF FoundIn
    <3> QED BY <1>2, <3>1, <3>2
  <2>4. ASSUME NEW n \in D PROVE ChildrenIn(n, T, IF n = frame.node THEN next - 1 ELSE -1)
    <3>1. ChildrenIn(n, T, Left(n))
      <4>1. ChildrenIn(n, S, Left(n)) /\ Left(n) \in Int
        BY <1>0, <2>2 DEF Explored, Left
      <4> HIDE DEF S, T
      <4> QED BY <2>3, <4>1, ChildrenMore
    <3>2. CASE n # frame.node
      BY <3>1, <3>2 DEF Left
    <3>3. CASE n = frame.node
      <4>1. \A c \in Nibble : c > next - 1 => c = next \/ c > next
        BY <1>0, RadixAssumption DEF Nibble
      <4>2. ChildrenIn(frame.node, T, next)
        BY <3>1, <3>3 DEF Left
      <4> HIDE DEF T
      <4>3. ChildrenIn(frame.node, T, next - 1)
        BY <1>0, <2>3, <4>1, <4>2 DEF ChildrenIn
      <4> QED BY <3>3, <4>3
    <3> QED BY <3>2, <3>3
  <2>5. corpus.root \in T
    BY <2>2, <2>3 DEF Explored
  <2>6. Explored(D)'
    <3>1. /\ OnStack(stack)' = OnStack(stack') /\ corpus'.root = corpus.root
          /\ \A n : Left(n)' = IF n = frame.node THEN next - 1 ELSE -1
      BY <2>1 DEF OnStack, Left
    <3>2. \A n, U, k : ChildrenIn(n, U, k)' <=> ChildrenIn(n, U, k)
      BY <2>1, SameChildren
    <3> QED BY <2>4, <2>5, <3>1, <3>2 DEF Explored
  <2> QED BY <1>0, <2>1, <2>6 DEF WalkedInv
<1> QED BY <1>1, <1>2

LEMMA FinishWalked == TypeOK /\ WalkedInv /\ (EmptyTrie \/ FinishWalk) => WalkedInv'
<1> SUFFICES ASSUME TypeOK, WalkedInv, EmptyTrie \/ FinishWalk PROVE WalkedInv'
  OBVIOUS
<1>1. CASE EmptyTrie
  <2>1. CASE Accept
    BY <2>1 DEF Accept, WalkedInv
  <2> QED BY <1>1, <2>1, RejectWalked DEF EmptyTrie
<1>2. CASE FinishWalk
  <2>1. CASE FinishError # "none"
    BY <1>2, <2>1, RejectWalked DEF FinishWalk, Unless
  <2>2. CASE FinishError = "none"
    <3>1. PICK D \in SUBSET Node : Explored(D)
      BY <1>2 DEF FinishWalk, WalkedInv
    <3>2. OnStack(stack) = {} /\ \A n : Left(n) = -1
      BY <1>2, OnStackEmpty, NothingLeft DEF FinishWalk
    <3>3. corpus.root \in D /\ Closed(D)
      BY <3>1, <3>2 DEF Explored, Closed
    <3>4. phase' = "probe" /\ corpus' = corpus
      BY <1>2, <2>2 DEF FinishWalk, Unless
    <3>5. corpus'.root \in D /\ Closed(D)'
      BY <3>3, <3>4, SameChildren DEF Closed
    <3> QED BY <3>4, <3>5 DEF WalkedInv
  <2> QED BY <2>1, <2>2
<1> QED BY <1>1, <1>2

LEMMA LookupWalked ==
  WalkedInv /\ (VisitInvalid \/ ProbeStep \/ ProbeEnd \/ VerifyStep \/ VerifyEnd) => WalkedInv'
<1> SUFFICES ASSUME WalkedInv, VisitInvalid \/ ProbeStep \/ ProbeEnd \/ VerifyStep \/ VerifyEnd
             PROVE  WalkedInv'
  OBVIOUS
<1>1. CASE \E e : Reject(e)
  BY <1>1, RejectWalked
<1>2. CASE /\ phase \in {"probe", "verify"}
           /\ phase' \in {"probe", "verify", "accepted"} /\ corpus' = corpus
  <2>1. PICK D \in SUBSET Node : corpus.root \in D /\ Closed(D)
    BY <1>2 DEF WalkedInv
  <2>2. corpus'.root \in D /\ Closed(D)'
    BY <1>2, <2>1, SameChildren DEF Closed
  <2> QED BY <1>2, <2>2 DEF WalkedInv
<1>3. CASE VisitInvalid
  BY <1>1, <1>3 DEF VisitInvalid
<1>4. CASE ProbeStep
  BY <1>1, <1>2, <1>4 DEF ProbeStep, Unless
<1>5. CASE ProbeEnd
  BY <1>1, <1>2, <1>5 DEF ProbeEnd, Unless
<1>6. CASE VerifyStep
  BY <1>1, <1>2, <1>6 DEF VerifyStep, Unless
<1>7. CASE VerifyEnd
  BY <1>1, <1>2, <1>7 DEF VerifyEnd, Unless, Accept
<1> QED BY <1>3, <1>4, <1>5, <1>6, <1>7

LEMMA NextWalked == TypeOK /\ WalkedInv /\ [Next]_vars => WalkedInv'
<1> SUFFICES ASSUME TypeOK, WalkedInv, [Next]_vars PROVE WalkedInv'
  OBVIOUS
<1>1. CASE UNCHANGED vars
  <2>1. /\ corpus' = corpus /\ phase' = phase /\ stack' = stack
        /\ frame' = frame /\ next' = next
    BY <1>1 DEF vars
  <2>2. \A D : Explored(D)' <=> Explored(D)
    BY <2>1, SameChildren DEF Explored, OnStack, Left
  <2>3. \A D : Closed(D)' <=> Closed(D)
    BY <2>1, SameChildren DEF Closed
  <2> QED BY <2>1, <2>2, <2>3 DEF WalkedInv
<1> QED
  BY <1>1, StartWalked, LeafWalked, ExtensionWalked, BranchWalked, LoopWalked, FinishWalked,
     LookupWalked DEF Next

(***************************************************************************)
(* The states of a lookup: the node, the nibbles of the key behind it, and *)
(* the entries of the proof used so far.  The first lookup leaves a trail  *)
(* of them, each leading to the next by the key and the proof alone; the   *)
(* second one starts at its start.                                         *)
(***************************************************************************)
LookupState == [node : Node, pos : Nat, cursor : Nat]
Here(c) == [node |-> at, pos |-> position, cursor |-> c]
RootState == [node |-> corpus.root, pos |-> 0, cursor |-> 1]

TakenAt(n, pos) ==
  LET b == Body[n]
  IN  CASE b.kind = "branch" ->
             IF pos = Len(NextKey) THEN NoChild ELSE b.children[NextKey[pos + 1]]
        [] b.kind = "ext" -> IF Matches(b.path, NextKey, pos) THEN b.child ELSE NoChild
        [] OTHER -> NoChild

After(r) ==
  [node   |-> TakenAt(r.node, r.pos).node,
   pos    |-> r.pos + (IF Body[r.node].kind = "ext" THEN Len(Body[r.node].path) ELSE 1),
   cursor |-> IF TakenAt(r.node, r.pos).via = "hash" THEN r.cursor + 1 ELSE r.cursor]

Moves(r, R) ==
  /\ TakenAt(r.node, r.pos) # NoChild
  /\ TakenAt(r.node, r.pos).via = "hash" =>
       r.cursor < Len(proof) /\ proof[r.cursor + 1] = TakenAt(r.node, r.pos).node
  /\ After(r) \in R

Stops(r) == TakenAt(r.node, r.pos) = NoChild /\ r.cursor = Len(proof)

\* What the trie holds below a state, it holds below the root at that position.
InTrie(r) ==
  /\ r.pos <= Len(NextKey) /\ r.cursor \in 1..Len(proof)
  /\ \A k \in Reach[r.node] : SubSeq(NextKey, 1, r.pos) \o k \in Reach[corpus.root]

\* The proof starts with the root, and lists no node that belongs inline.
ProofShape ==
  /\ proof # <<>> /\ proof[1] = corpus.root
  /\ \A i \in 2..Len(proof) : proof[i] \notin Small

Trail(D, R) ==
  /\ corpus.root \in D /\ Closed(D) /\ RootState \in R
  /\ \A r \in R : r.node \in D /\ InTrie(r)

LookupInv ==
  /\ phase \in {"probe", "verify"} => ProofShape
  /\ phase = "probe" =>
       \E D \in SUBSET Node, R \in SUBSET LookupState :
         Trail(D, R) /\ Here(Len(proof)) \in R
           /\ \A r \in R : r = Here(Len(proof)) \/ Moves(r, R)
  /\ phase = "verify" =>
       \E D \in SUBSET Node, R \in SUBSET LookupState :
         Trail(D, R) /\ Here(cursor) \in R /\ \A r \in R : Stops(r) \/ Moves(r, R)

LEMMA TakenHere == Taken = TakenAt(at, position)
BY DEF Taken, TakenAt

LEMMA NextKeyTypes == TypeOK => NextKey \in Path /\ Len(NextKey) \in Nat
BY KeyTypes DEF TypeOK, NextKey

\* The child taken from a visited node was found, and is a visited node.
LEMMA TakenIsFound ==
  ASSUME TypeOK, NEW D \in SUBSET Node, Closed(D), NEW n \in D, NEW pos \in 0..Len(NextKey),
         TakenAt(n, pos) # NoChild
  PROVE  /\ TakenAt(n, pos) \in Child /\ TakenAt(n, pos).node \in D
         /\ ChildError(TakenAt(n, pos)) = "none"
         /\ pos + (IF Body[n].kind = "ext" THEN Len(Body[n].path) ELSE 1) \in 0..Len(NextKey)
<1>1. n \in Node /\ ChildrenIn(n, D, -1) /\ NextKey \in Path /\ Len(NextKey) \in Nat
  BY NextKeyTypes DEF Closed
<1>2. Body[n].kind \in {"branch", "ext"}
  BY DEF TakenAt
<1>3. CASE Body[n].kind = "ext"
  <2>1. TakenAt(n, pos) = Body[n].child /\ Matches(Body[n].path, NextKey, pos)
    BY <1>3 DEF TakenAt
  <2>2. Body[n].path \in Path /\ Len(Body[n].path) \in Nat /\ Body[n].child \in Child
    BY <1>1, <1>3, BodyTypes, PathIsIntegers
  <2>3. FoundIn(Body[n].child, D)
    BY <1>1, <1>3 DEF ChildrenIn
  <2>4. pos + Len(Body[n].path) \in 0..Len(NextKey)
    BY <2>1, <2>2, <1>1 DEF Matches
  <2> QED BY <1>3, <2>1, <2>2, <2>3, <2>4 DEF FoundIn
<1>4. CASE Body[n].kind = "branch"
  <2>1. pos # Len(NextKey) /\ TakenAt(n, pos) = Body[n].children[NextKey[pos + 1]]
    BY <1>4 DEF TakenAt
  <2>2. NextKey[pos + 1] \in Nibble
    BY <1>1, <2>1 DEF Path
  <2>3. TakenAt(n, pos) \in Child
    BY <1>1, <1>4, <2>1, <2>2, BodyTypes
  <2>4. NextKey[pos + 1] > -1
    BY <2>2, RadixAssumption DEF Nibble
  <2>5. FoundIn(TakenAt(n, pos), D)
    BY <1>1, <1>4, <2>1, <2>2, <2>4 DEF ChildrenIn
  <2>6. pos + 1 \in 0..Len(NextKey)
    BY <1>1, <2>1
  <2> QED BY <1>4, <2>3, <2>5, <2>6 DEF FoundIn
<1> QED BY <1>2, <1>3, <1>4

\* The first nibbles of a key, as many of them.
LEMMA PrefixTypes ==
  ASSUME NEW key \in Seq(Nibble), NEW n \in 0..Len(key)
  PROVE  /\ SubSeq(key, 1, n) \in Seq(Nibble) /\ Len(SubSeq(key, 1, n)) = n
         /\ \A i \in 1..n : SubSeq(key, 1, n)[i] = key[i]
<1>1. Len(key) \in Nat /\ n \in Nat /\ n \in Int /\ n <= Len(key)
  OBVIOUS
<1>2. \A i \in 1..n : key[i] \in Nibble
  BY <1>1, ElementOfSeq
<1>3. /\ SubSeq(key, 1, n) \in Seq(Nibble)
      /\ Len(SubSeq(key, 1, n)) = IF 1 <= n THEN n - 1 + 1 ELSE 0
      /\ \A i \in 1..(n - 1 + 1) : SubSeq(key, 1, n)[i] = key[1 + i - 1]
  BY <1>1, <1>2, SubSeqProperties
<1>4. (IF 1 <= n THEN n - 1 + 1 ELSE 0) = n /\ n - 1 + 1 = n /\ \A i \in 1..n : 1 + i - 1 = i
  BY <1>1
<1> QED BY <1>3, <1>4

\* A longer prefix of a key is the shorter one and the nibbles between.
LEMMA PrefixStep ==
  ASSUME NEW key \in Seq(Nibble), NEW n \in 0..Len(key), NEW p \in Seq(Nibble),
         n + Len(p) <= Len(key), \A j \in 1..Len(p) : p[j] = key[n + j],
         NEW k \in Seq(Nibble)
  PROVE  SubSeq(key, 1, n + Len(p)) \o k = SubSeq(key, 1, n) \o (p \o k)
<1> DEFINE s == SubSeq(key, 1, n)
           t == SubSeq(key, 1, n + Len(p))
<1>1. Len(key) \in Nat /\ n \in Nat /\ Len(p) \in Nat /\ n + Len(p) \in 0..Len(key)
  OBVIOUS
<1>2. s \in Seq(Nibble) /\ Len(s) = n /\ \A i \in 1..n : s[i] = key[i]
  BY PrefixTypes
<1>3. /\ t \in Seq(Nibble) /\ Len(t) = n + Len(p)
      /\ \A i \in 1..(n + Len(p)) : t[i] = key[i]
  BY <1>1, PrefixTypes
<1> HIDE DEF s, t
<1>4. /\ s \o p \in Seq(Nibble) /\ Len(s \o p) = n + Len(p)
      /\ \A i \in 1..(n + Len(p)) : (s \o p)[i] = IF i <= n THEN s[i] ELSE p[i - n]
  BY <1>2, ConcatProperties
<1>5. \A i \in 1..(n + Len(p)) : t[i] = (s \o p)[i]
  <2> SUFFICES ASSUME NEW i \in 1..(n + Len(p)) PROVE t[i] = (s \o p)[i]
    OBVIOUS
  <2>1. CASE i <= n
    <3>1. i \in 1..n
      BY <1>1, <2>1
    <3> QED BY <2>1, <3>1, <1>2, <1>3, <1>4
  <2>2. CASE ~(i <= n)
    <3>1. i - n \in 1..Len(p) /\ n + (i - n) = i
      BY <1>1, <2>2
    <3>2. p[i - n] = key[i]
      BY <3>1
    <3> QED BY <2>2, <3>2, <1>3, <1>4
  <2> QED BY <2>1, <2>2
<1>6. t = s \o p
  BY <1>3, <1>4, <1>5, SeqEqual
<1>7. (s \o p) \o k = s \o (p \o k)
  <2>1. s \in Seq(Nibble)
    BY <1>2
  <2> QED BY <2>1, ConcatAssociative
<1> QED BY <1>6, <1>7 DEF s, t

\* A key below the child taken is a key below the node, behind what was matched.
Continued(n, pos, q, k) ==
  \E m \in Reach[n] : SubSeq(NextKey, 1, q) \o k = SubSeq(NextKey, 1, pos) \o m

LEMMA ReachBelow ==
  ASSUME TypeOK, NEW n \in Node, NEW pos \in 0..Len(NextKey), TakenAt(n, pos) # NoChild,
         NEW k \in Reach[TakenAt(n, pos).node], k \in Path,
         NEW q, q = pos + (IF Body[n].kind = "ext" THEN Len(Body[n].path) ELSE 1),
         q \in 0..Len(NextKey)
  PROVE  Continued(n, pos, q, k)
<1>1. Len(NextKey) \in Nat /\ NextKey \in Seq(Nibble) /\ k \in Seq(Nibble)
  BY NextKeyTypes DEF Path
<1>2. Body[n].kind \in {"branch", "ext"}
  BY DEF TakenAt
<1>3. CASE Body[n].kind = "ext"
  <2> DEFINE p == Body[n].path
  <2>1. TakenAt(n, pos) = Body[n].child /\ Matches(p, NextKey, pos) /\ q = pos + Len(p)
    BY <1>3 DEF TakenAt
  <2>2. p \in Seq(Nibble) /\ Len(p) \in Nat
    BY <1>3, BodyTypes, PathIsIntegers DEF Path
  <2>3. p \o k \in Reach[n]
    BY <1>3, <2>1, ReachAssumption DEF Under
  <2>4. pos + Len(p) <= Len(NextKey) /\ \A j \in 1..Len(p) : p[j] = NextKey[pos + j]
    BY <2>1, <2>2, <1>1 DEF Matches
  <2> HIDE DEF p
  <2>5. SubSeq(NextKey, 1, pos + Len(p)) \o k = SubSeq(NextKey, 1, pos) \o (p \o k)
    BY <1>1, <2>2, <2>4, PrefixStep
  <2> QED BY <2>1, <2>3, <2>5 DEF Continued
<1>4. CASE Body[n].kind = "branch"
  <2> DEFINE c == NextKey[pos + 1]
             b == Body[n]
  <2>1. pos # Len(NextKey) /\ TakenAt(n, pos) = b.children[c] /\ q = pos + 1
    BY <1>4 DEF TakenAt
  <2>2. c \in Nibble
    BY <1>1, <2>1
  <2>3. <<c>> \o k \in Reach[n]
    <3>1. <<c>> \o k \in Under(<<c>>, Reach[b.children[c].node])
      BY <2>1 DEF Under
    <3>2. Reach[n] = BranchKeys(b)
      BY <1>4, ReachAssumption
    <3> QED BY <2>1, <2>2, <3>1, <3>2 DEF BranchKeys
  <2>4. /\ <<c>> \in Seq(Nibble) /\ Len(<<c>>) = 1
        /\ \A j \in 1..Len(<<c>>) : <<c>>[j] = NextKey[pos + j]
    BY <2>2
  <2>5. pos + Len(<<c>>) <= Len(NextKey)
    BY <1>1, <2>1
  <2> HIDE DEF c
  <2>6. SubSeq(NextKey, 1, pos + Len(<<c>>)) \o k = SubSeq(NextKey, 1, pos) \o (<<c>> \o k)
    BY <1>1, <2>4, <2>5, PrefixStep
  <2> QED BY <2>1, <2>3, <2>4, <2>6 DEF Continued
<1> QED BY <1>2, <1>3, <1>4

LEMMA PrefixWhole ==
  ASSUME NEW key \in Seq(Nibble)
  PROVE  SubSeq(key, 1, Len(key)) = key
<1>1. Len(key) \in Nat /\ Len(key) \in 0..Len(key)
  OBVIOUS
<1>2. /\ SubSeq(key, 1, Len(key)) \in Seq(Nibble) /\ Len(SubSeq(key, 1, Len(key))) = Len(key)
      /\ \A i \in 1..Len(key) : SubSeq(key, 1, Len(key))[i] = key[i]
  BY <1>1, PrefixTypes
<1> QED BY <1>2, SeqEqual

LEMMA PrefixNone ==
  ASSUME NEW key, NEW k \in Seq(Nibble)
  PROVE  SubSeq(key, 1, 0) \o k = k
<1>1. SubSeq(key, 1, 0) = <<>>
  BY SubSeqEmpty
<1> QED BY <1>1, ConcatEmptySeq

\* A child put inline is a short encoding.
LEMMA TakenIsSmall ==
  ASSUME NEW n \in Node, NEW pos \in 0..Len(NextKey), TypeOK,
         TakenAt(n, pos) # NoChild, TakenAt(n, pos).via = "inline"
  PROVE  TakenAt(n, pos).node \in Small
<1>1. NextKey \in Seq(Nibble) /\ Len(NextKey) \in Nat
  BY NextKeyTypes DEF Path
<1>2. CASE Body[n].kind = "ext"
  <2>1. TakenAt(n, pos) = Body[n].child
    BY <1>2 DEF TakenAt
  <2> QED BY <1>2, <2>1, BodyAssumption DEF InlineIsSmall
<1>3. CASE Body[n].kind = "branch"
  <2>1. pos # Len(NextKey) /\ TakenAt(n, pos) = Body[n].children[NextKey[pos + 1]]
    BY <1>3 DEF TakenAt
  <2>2. NextKey[pos + 1] \in Nibble
    BY <1>1, <2>1
  <2> QED BY <1>3, <2>1, <2>2, BodyAssumption DEF InlineIsSmall
<1> QED BY <1>2, <1>3 DEF TakenAt

\* A state of the trail that moves on, moves to a state of the same kind.
LEMMA AfterTypes ==
  ASSUME TypeOK, NEW D \in SUBSET Node, Closed(D), NEW r \in LookupState,
         r.node \in D, InTrie(r), TakenAt(r.node, r.pos) # NoChild
  PROVE  /\ After(r) \in LookupState /\ After(r).node \in D
         /\ After(r).pos <= Len(NextKey)
         /\ \A k \in Reach[After(r).node] :
              SubSeq(NextKey, 1, After(r).pos) \o k \in Reach[corpus.root]
<1> DEFINE t == TakenAt(r.node, r.pos)
           q == r.pos + (IF Body[r.node].kind = "ext" THEN Len(Body[r.node].path) ELSE 1)
<1>1. r.pos \in 0..Len(NextKey) /\ Len(NextKey) \in Nat /\ r.cursor \in Nat
  BY NextKeyTypes DEF InTrie, LookupState
<1>2. t \in Child /\ t.node \in D /\ q \in 0..Len(NextKey)
  BY <1>1, TakenIsFound
<1>3. After(r).node = t.node /\ After(r).pos = q
  BY DEF After
<1>4. After(r).cursor \in Nat
  BY <1>1 DEF After
<1>5. After(r) \in LookupState
  <2>1. After(r) = [node |-> t.node, pos |-> q, cursor |-> After(r).cursor]
    BY DEF After
  <2>2. t.node \in Node /\ q \in Nat
    BY <1>1, <1>2
  <2> HIDE DEF t, q
  <2> QED BY <1>4, <2>1, <2>2 DEF LookupState
<1>6. ASSUME NEW k \in Reach[t.node]
      PROVE  SubSeq(NextKey, 1, q) \o k \in Reach[corpus.root]
  <2>1. k \in Path
    BY <1>2, ReachPaths
  <2>2. PICK m \in Reach[r.node] : SubSeq(NextKey, 1, q) \o k = SubSeq(NextKey, 1, r.pos) \o m
    <3>1. PICK n \in Node : n = r.node
      OBVIOUS
    <3>2. PICK pos \in 0..Len(NextKey) : pos = r.pos
      BY <1>1
    <3>3. PICK p \in 0..Len(NextKey) : p = q
      BY <1>2
    <3>4. /\ TakenAt(n, pos) # NoChild /\ k \in Reach[TakenAt(n, pos).node]
          /\ p = pos + (IF Body[n].kind = "ext" THEN Len(Body[n].path) ELSE 1)
      BY <3>1, <3>2, <3>3
    <3> HIDE DEF t, q
    <3>5. Continued(n, pos, p, k)
      BY <2>1, <3>4, ReachBelow
    <3> QED BY <3>1, <3>2, <3>3, <3>5 DEF Continued
  <2> QED BY <2>2 DEF InTrie
<1> HIDE DEF t, q
<1>7. q <= Len(NextKey)
  BY <1>1, <1>2
<1> QED BY <1>2, <1>3, <1>5, <1>6, <1>7

LEMMA InitLookup == Init => LookupInv
BY DEF Init, LookupInv

LEMMA RejectLookup == ASSUME NEW e, Reject(e) PROVE LookupInv'
BY DEF Reject, LookupInv

\* What a lookup sees depends on the count, which the lookups leave alone.
LEMMA SameLookup ==
  ASSUME UNCHANGED <<corpus, indices>>
  PROVE  /\ NextKey' = NextKey /\ RootState' = RootState
         /\ \A n, pos : TakenAt(n, pos)' = TakenAt(n, pos)
         /\ \A r : After(r)' = After(r)
         /\ \A D : Closed(D)' <=> Closed(D)
<1>1. NextKey' = NextKey
  BY DEF indices, NextKey
<1>2. RootState' = RootState
  BY DEF RootState
<1>3. \A n, pos : TakenAt(n, pos)' = TakenAt(n, pos)
  BY <1>1 DEF TakenAt
<1>4. \A r : After(r)' = After(r)
  BY <1>3 DEF After
<1>5. \A D : Closed(D)' <=> Closed(D)
  BY SameChildren DEF Closed
<1> QED BY <1>1, <1>2, <1>3, <1>4, <1>5

\* The first lookup starts at the root, with the root as its proof.
LEMMA FinishLookup ==
  TypeOK /\ WalkedInv /\ FinishWalk => LookupInv'
<1> SUFFICES ASSUME TypeOK, WalkedInv, FinishWalk PROVE LookupInv'
  OBVIOUS
<1>1. CASE FinishError # "none"
  BY <1>1, RejectLookup DEF FinishWalk, Unless
<1>2. CASE FinishError = "none"
  <2>1. /\ phase' = "probe" /\ proof' = <<corpus.root>> /\ at' = corpus.root /\ position' = 0
        /\ UNCHANGED <<corpus, indices>>
    BY <1>2 DEF FinishWalk, Unless
  <2>2. TypeOK' /\ WalkedInv'
    BY NextType, FinishWalked DEF Next
  <2>3. PICK D \in SUBSET Node : corpus.root \in D /\ Closed(D)'
    BY <2>1, <2>2 DEF WalkedInv
  <2>4. PICK R : R = {RootState}
    OBVIOUS
  <2>5. Len(proof') = 1 /\ proof'[1] = corpus.root /\ proof' # <<>>
    BY <2>1
  <2>6. Here(Len(proof))' = RootState
    BY <2>1, <2>5 DEF Here, RootState
  <2>7. corpus.root \in Node /\ RootState \in LookupState
    BY DEF TypeOK, RootState, LookupState
  <2>8. NextKey' = NextKey /\ NextKey \in Seq(Nibble) /\ Len(NextKey) \in Nat
        /\ RootState' = RootState
    BY <2>1, NextKeyTypes, SameLookup DEF Path
  <2>9. InTrie(RootState)'
    <3>1. RootState.pos = 0 /\ RootState.cursor = 1 /\ RootState.node = corpus.root
      BY DEF RootState
    <3>2. ASSUME NEW k \in Reach[corpus.root]
          PROVE  SubSeq(NextKey, 1, 0) \o k \in Reach[corpus.root]
      BY <2>7, ReachPaths, PrefixNone DEF Path
    <3> QED BY <2>1, <2>5, <2>8, <3>1, <3>2 DEF InTrie
  <2>10. \A r \in R : InTrie(r)' /\ r.node \in D
    <3>1. RootState.node \in D
      BY <2>3 DEF RootState
    <3>2. PICK s : s = RootState
      OBVIOUS
    <3>3. InTrie(s)'
      BY <2>8, <2>9, <3>2
    <3> QED BY <2>4, <3>1, <3>2, <3>3
  <2>11. Trail(D, R)'
    BY <2>1, <2>3, <2>4, <2>8, <2>10 DEF Trail
  <2>12. ProofShape'
    BY <2>1, <2>5 DEF ProofShape
  <2>13. \A r \in R : r = Here(Len(proof))'
    BY <2>4, <2>6
  <2>14. Here(Len(proof))' \in R /\ R \in SUBSET LookupState
    BY <2>4, <2>6, <2>7
  <2> QED BY <2>1, <2>11, <2>12, <2>13, <2>14 DEF LookupInv
<1> QED BY <1>1, <1>2

\* A step of the first lookup adds the state it comes to, and the proof entry that
\* leads there.
LEMMA ProbeLookup == TypeOK /\ LookupInv /\ ProbeStep => LookupInv'
<1> SUFFICES ASSUME TypeOK, LookupInv, ProbeStep PROVE LookupInv'
  OBVIOUS
<1> DEFINE e == First(NodeError, ChildError(Taken))
<1>1. CASE e # "none"
  BY <1>1, RejectLookup DEF ProbeStep, Unless
<1>2. CASE e = "none"
  <2>1. /\ Descend /\ phase = "probe" /\ phase' = "probe" /\ Taken # NoChild
        /\ proof' = IF Taken.via = "hash" THEN Append(proof, Taken.node) ELSE proof
        /\ UNCHANGED <<corpus, indices>>
    BY <1>2 DEF ProbeStep, Unless
  <2>2. PICK D \in SUBSET Node, R \in SUBSET LookupState :
          /\ Trail(D, R) /\ Here(Len(proof)) \in R
          /\ \A r \in R : r = Here(Len(proof)) \/ Moves(r, R)
    BY <2>1 DEF LookupInv
  <2>3. PICK h : h = Here(Len(proof))
    OBVIOUS
  <2>4. PICK n : n = After(h)
    OBVIOUS
  <2>5. PICK Q : Q = R \cup {n}
    OBVIOUS
  <2>6. /\ h \in LookupState /\ h.node = at /\ h.pos = position /\ h.cursor = Len(proof)
        /\ h.node \in D /\ InTrie(h) /\ TakenAt(h.node, h.pos) = Taken /\ Closed(D)
    BY <2>2, <2>3, TakenHere DEF Here, Trail
  <2>7. /\ n \in LookupState /\ n.node \in D /\ n.pos <= Len(NextKey)
        /\ \A k \in Reach[n.node] : SubSeq(NextKey, 1, n.pos) \o k \in Reach[corpus.root]
    BY <2>1, <2>4, <2>6, AfterTypes
  <2>8. proof \in Seq(Node) /\ proof # <<>> /\ Len(proof) \in Nat /\ Len(proof) >= 1
        /\ Taken.node \in Node
    <3>1. proof \in Seq(Node) /\ proof # <<>>
      BY <2>1 DEF TypeOK
    <3>2. Taken.node \in Node
      BY <2>1, TakenTypes DEF Descend
    <3> QED BY <3>1, <3>2
  <2>9. /\ Len(proof') \in Nat /\ Len(proof') >= Len(proof) /\ proof' # <<>>
        /\ \A i \in 1..Len(proof) : proof'[i] = proof[i]
        /\ Taken.via = "hash" =>
             Len(proof') = Len(proof) + 1 /\ proof'[Len(proof) + 1] = Taken.node
        /\ Taken.via # "hash" => proof' = proof
    <3>1. CASE Taken.via = "hash"
      BY <2>1, <2>8, <3>1, AppendProperties
    <3>2. CASE Taken.via # "hash"
      BY <2>1, <2>8, <3>2
    <3> QED BY <3>1, <3>2
  <2>10. n = Here(Len(proof))' /\ n.cursor = Len(proof')
    <3>1. Taken.via = "hash" => n.cursor = Len(proof) + 1
      BY <2>4, <2>6 DEF After
    <3>2. Taken.via # "hash" => n.cursor = Len(proof)
      BY <2>4, <2>6 DEF After
    <3>3. n.cursor = Len(proof')
      BY <2>9, <3>1, <3>2
    <3>4. n = [node |-> Taken.node,
               pos |-> position + (IF Body[at].kind = "ext" THEN Len(Body[at].path) ELSE 1),
               cursor |-> n.cursor]
      BY <2>4, <2>6 DEF After
    <3> QED BY <2>1, <3>3, <3>4 DEF Here, Descend
  <2>11. /\ NextKey' = NextKey /\ RootState' = RootState
         /\ \A m, pos : TakenAt(m, pos)' = TakenAt(m, pos)
         /\ \A r : After(r)' = After(r)
         /\ Closed(D)'
    BY <2>1, <2>6, SameLookup
  <2>12. InTrie(n)'
    BY <2>1, <2>7, <2>8, <2>9, <2>10, <2>11 DEF InTrie
  <2>13. ASSUME NEW r \in R PROVE InTrie(r)'
    <3>1. InTrie(r)
      BY <2>2 DEF Trail
    <3>2. r.cursor \in 1..Len(proof')
      BY <2>8, <2>9, <3>1 DEF InTrie
    <3> QED BY <2>1, <2>11, <3>1, <3>2 DEF InTrie
  <2>14. Trail(D, Q)'
    <3>1. corpus'.root \in D /\ RootState' \in Q /\ \A r \in R : r.node \in D
      BY <2>1, <2>2, <2>5, <2>11 DEF Trail
    <3> QED BY <2>5, <2>7, <2>11, <2>12, <2>13, <3>1 DEF Trail
  <2>15. Moves(h, Q)'
    <3>1. After(h)' \in Q
      BY <2>4, <2>5, <2>11
    <3>2. TakenAt(h.node, h.pos)' = Taken
      BY <2>6, <2>11
    <3>3. Taken.via = "hash" =>
            h.cursor < Len(proof') /\ proof'[h.cursor + 1] = Taken.node
      BY <2>6, <2>8, <2>9
    <3> QED BY <2>1, <3>1, <3>2, <3>3 DEF Moves
  <2>16. ASSUME NEW r \in R, Moves(r, R) PROVE Moves(r, Q)'
    <3>1. r.cursor \in 1..Len(proof)
      BY <2>2 DEF Trail, InTrie
    <3>2. After(r)' \in Q /\ TakenAt(r.node, r.pos)' = TakenAt(r.node, r.pos)
      BY <2>5, <2>11, <2>16 DEF Moves
    <3>3. r.cursor < Len(proof) =>
            r.cursor < Len(proof') /\ proof'[r.cursor + 1] = proof[r.cursor + 1]
      <4>1. r.cursor < Len(proof) => r.cursor + 1 \in 1..Len(proof)
        BY <2>8, <3>1
      <4> QED BY <2>8, <2>9, <3>1, <4>1
    <3> QED BY <2>16, <3>2, <3>3 DEF Moves
  <2>17. \A r \in Q : r = Here(Len(proof))' \/ Moves(r, Q)'
    BY <2>2, <2>3, <2>5, <2>10, <2>15, <2>16
  <2>18. ProofShape'
    <3>1. ProofShape
      BY <2>1 DEF LookupInv
    <3>2. proof'[1] = corpus.root
      BY <2>8, <2>9, <3>1 DEF ProofShape
    <3>3. Taken.via = "hash" => Taken.node \notin Small
      BY <1>2 DEF First, ChildError
    <3>4. ASSUME NEW i \in 2..Len(proof') PROVE proof'[i] \notin Small
      <4>1. CASE i \in 2..Len(proof)
        BY <2>8, <2>9, <3>1, <4>1 DEF ProofShape
      <4>2. CASE ~(i \in 2..Len(proof))
        <5>1. Taken.via = "hash" /\ i = Len(proof) + 1
          BY <2>8, <2>9, <4>2
        <5> QED BY <2>9, <3>3, <5>1
      <4> QED BY <4>1, <4>2
    <3> QED BY <2>1, <2>9, <3>2, <3>4 DEF ProofShape
  <2>19. Q \in SUBSET LookupState /\ Here(Len(proof))' \in Q
    BY <2>2, <2>5, <2>7, <2>10
  <2> QED BY <2>1, <2>14, <2>17, <2>18, <2>19 DEF LookupInv
<1> QED BY <1>1, <1>2

\* The second lookup starts where the first one did.
LEMMA ProbeEndLookup == TypeOK /\ LookupInv /\ ProbeEnd => LookupInv'
<1> SUFFICES ASSUME TypeOK, LookupInv, ProbeEnd PROVE LookupInv'
  OBVIOUS
<1>1. CASE NodeError # "none"
  BY <1>1, RejectLookup DEF ProbeEnd, Unless
<1>2. CASE NodeError = "none"
  <2>1. /\ phase = "probe" /\ phase' = "verify" /\ Taken = NoChild
        /\ at' = proof[1] /\ position' = 0 /\ cursor' = 1
        /\ UNCHANGED <<corpus, indices, proof>>
    BY <1>2 DEF ProbeEnd, Unless
  <2>2. PICK D \in SUBSET Node, R \in SUBSET LookupState :
          /\ Trail(D, R) /\ Here(Len(proof)) \in R
          /\ \A r \in R : r = Here(Len(proof)) \/ Moves(r, R)
    BY <2>1 DEF LookupInv
  <2>3. ProofShape
    BY <2>1 DEF LookupInv
  <2>4. /\ NextKey' = NextKey /\ RootState' = RootState
        /\ \A m, pos : TakenAt(m, pos)' = TakenAt(m, pos)
        /\ \A r : After(r)' = After(r)
        /\ Closed(D)' <=> Closed(D)
    BY <2>1, SameLookup
  <2>5. Trail(D, R)'
    <3>1. \A r \in R : InTrie(r)'
      BY <2>1, <2>2, <2>4 DEF Trail, InTrie
    <3> QED BY <2>1, <2>2, <2>4, <3>1 DEF Trail
  <2>6. Here(cursor)' = RootState
    BY <2>1, <2>3 DEF Here, RootState, ProofShape
  <2>7. Here(cursor)' \in R
    BY <2>2, <2>6 DEF Trail
  <2>8. ASSUME NEW r \in R PROVE Stops(r)' \/ Moves(r, R)'
    <3>1. CASE r = Here(Len(proof))
      <4>1. TakenAt(r.node, r.pos) = NoChild /\ r.cursor = Len(proof)
        BY <2>1, <3>1, TakenHere DEF Here
      <4>2. Stops(r)'
        BY <2>1, <2>4, <4>1 DEF Stops
      <4> QED BY <4>2
    <3>2. CASE Moves(r, R)
      <4>1. Moves(r, R)'
        BY <2>1, <2>4, <3>2 DEF Moves
      <4> QED BY <4>1
    <3> QED BY <2>2, <3>1, <3>2
  <2>9. ProofShape'
    BY <2>1, <2>3 DEF ProofShape
  <2> QED BY <2>1, <2>5, <2>7, <2>8, <2>9 DEF LookupInv
<1> QED BY <1>1, <1>2

\* The second lookup finds the next entry of the proof whenever it needs one, and
\* never takes an entry for an inline child.
LEMMA FollowsTrail ==
  ASSUME TypeOK, LookupInv, phase = "verify", Taken # NoChild
  PROVE  /\ FollowError(Taken) = "none"
         /\ Consumes(Taken) <=> Taken.via = "hash"
<1>1. PICK D \in SUBSET Node, R \in SUBSET LookupState :
        Trail(D, R) /\ Here(cursor) \in R /\ \A r \in R : Stops(r) \/ Moves(r, R)
  BY DEF LookupInv
<1>2. PICK h : h = Here(cursor)
  OBVIOUS
<1>3. /\ h \in R /\ h.node = at /\ h.pos = position /\ h.cursor = cursor
      /\ h.node \in D /\ InTrie(h) /\ Closed(D) /\ TakenAt(h.node, h.pos) = Taken
  BY <1>1, <1>2, TakenHere DEF Here, Trail
<1>4. Moves(h, R)
  BY <1>1, <1>3 DEF Stops
<1>5. cursor \in 1..Len(proof) /\ Len(proof) \in Nat
  BY <1>3 DEF InTrie, TypeOK
<1>6. ProofShape
  BY DEF LookupInv
<1>7. Taken \in Child /\ ChildError(Taken) = "none"
  <2>1. h.node \in D /\ h.pos \in 0..Len(NextKey)
    BY <1>3 DEF TypeOK, NextKey
  <2> QED BY <1>3, <2>1, TakenIsFound
<1>8. CASE Taken.via = "hash"
  <2>1. cursor < Len(proof) /\ proof[cursor + 1] = Taken.node
    BY <1>3, <1>4, <1>8 DEF Moves
  <2>2. Taken.node \notin Small
    BY <1>7, <1>8 DEF ChildError
  <2>3. cursor # Len(proof)
    BY <1>5, <2>1
  <2> QED BY <1>8, <2>1, <2>2, <2>3 DEF FollowError, Consumes
<1>9. CASE Taken.via = "inline"
  <2>1. Taken.node \in Small
    <3>1. at \in Node /\ position \in 0..Len(NextKey) /\ Taken = TakenAt(at, position)
      BY TakenHere DEF TypeOK, NextKey
    <3> QED BY <1>9, <3>1, TakenIsSmall
  <2>2. cursor < Len(proof) => cursor + 1 \in 2..Len(proof)
    BY <1>5
  <2>3. ~Consumes(Taken)
    BY <1>6, <2>1, <2>2 DEF Consumes, ProofShape
  <2> QED BY <1>9, <2>3 DEF FollowError
<1> QED BY <1>7, <1>8, <1>9 DEF Child

LEMMA VerifyLookup == TypeOK /\ LookupInv /\ (VerifyStep \/ VerifyEnd) => LookupInv'
<1> SUFFICES ASSUME TypeOK, LookupInv, VerifyStep \/ VerifyEnd PROVE LookupInv'
  OBVIOUS
<1>1. CASE \E e : Reject(e)
  BY <1>1, RejectLookup
<1>2. CASE VerifyEnd
  <2>1. CASE Accept
    BY <2>1 DEF Accept, LookupInv
  <2> QED BY <1>1, <1>2, <2>1 DEF VerifyEnd, Unless
<1>3. CASE VerifyStep /\ First(NodeError, FollowError(Taken)) = "none"
  <2>1. /\ phase = "verify" /\ phase' = "verify" /\ Taken # NoChild /\ Descend
        /\ cursor' = IF Consumes(Taken) THEN cursor + 1 ELSE cursor
        /\ UNCHANGED <<corpus, indices, proof>>
    BY <1>3 DEF VerifyStep, Unless
  <2>2. PICK D \in SUBSET Node, R \in SUBSET LookupState :
          Trail(D, R) /\ Here(cursor) \in R /\ \A r \in R : Stops(r) \/ Moves(r, R)
    BY <2>1 DEF LookupInv
  <2>3. /\ NextKey' = NextKey /\ RootState' = RootState
        /\ \A m, pos : TakenAt(m, pos)' = TakenAt(m, pos)
        /\ \A r : After(r)' = After(r)
        /\ Closed(D)' <=> Closed(D)
    BY <2>1, SameLookup
  <2>4. Trail(D, R)'
    <3>1. \A r \in R : InTrie(r)'
      BY <2>1, <2>2, <2>3 DEF Trail, InTrie
    <3> QED BY <2>1, <2>2, <2>3, <3>1 DEF Trail
  <2>5. \A r \in R : Stops(r)' \/ Moves(r, R)'
    <3>1. \A r \in R : Stops(r)' <=> Stops(r)
      BY <2>1, <2>3 DEF Stops
    <3>2. \A r \in R : Moves(r, R)' <=> Moves(r, R)
      BY <2>1, <2>3 DEF Moves
    <3> QED BY <2>2, <3>1, <3>2
  <2>6. Here(cursor)' \in R
    <3>1. PICK h : h = Here(cursor)
      OBVIOUS
    <3>2. /\ h \in R /\ h.node = at /\ h.pos = position /\ h.cursor = cursor
          /\ TakenAt(h.node, h.pos) = Taken
      BY <2>2, <3>1, TakenHere DEF Here
    <3>3. After(h) \in R
      BY <2>1, <2>2, <3>2 DEF Stops, Moves
    <3>4. cursor' = IF Taken.via = "hash" THEN cursor + 1 ELSE cursor
      BY <2>1, FollowsTrail
    <3>5. After(h) = [node |-> Taken.node,
                      pos |-> position + (IF Body[at].kind = "ext" THEN Len(Body[at].path) ELSE 1),
                      cursor |-> IF Taken.via = "hash" THEN cursor + 1 ELSE cursor]
      BY <3>2 DEF After
    <3> QED BY <2>1, <3>3, <3>4, <3>5 DEF Here, Descend
  <2>7. ProofShape'
    BY <2>1 DEF LookupInv, ProofShape
  <2> QED BY <2>1, <2>4, <2>5, <2>6, <2>7 DEF LookupInv
<1> QED BY <1>1, <1>2, <1>3 DEF VerifyStep, Unless

LEMMA NextLookup == TypeOK /\ WalkedInv /\ LookupInv /\ [Next]_vars => LookupInv'
<1> SUFFICES ASSUME TypeOK, WalkedInv, LookupInv, [Next]_vars PROVE LookupInv'
  OBVIOUS
<1>1. CASE UNCHANGED vars
  <2>1. /\ UNCHANGED <<corpus, indices>> /\ phase' = phase /\ proof' = proof
        /\ at' = at /\ position' = position /\ cursor' = cursor
    BY <1>1 DEF vars, lookup
  <2>2. /\ NextKey' = NextKey /\ RootState' = RootState
        /\ \A n, pos : TakenAt(n, pos)' = TakenAt(n, pos)
        /\ \A r : After(r)' = After(r)
        /\ \A D : Closed(D)' <=> Closed(D)
    BY <2>1, SameLookup
  <2>3. \A r : /\ InTrie(r)' <=> InTrie(r)
               /\ Stops(r)' <=> Stops(r)
    BY <2>1, <2>2 DEF InTrie, Stops
  <2>4. \A r, R : Moves(r, R)' <=> Moves(r, R)
    BY <2>1, <2>2 DEF Moves
  <2>5. \A D, R : Trail(D, R)' <=> Trail(D, R)
    BY <2>1, <2>2, <2>3 DEF Trail
  <2>6. Here(Len(proof))' = Here(Len(proof)) /\ Here(cursor)' = Here(cursor)
    BY <2>1 DEF Here
  <2>7. ProofShape' <=> ProofShape
    BY <2>1 DEF ProofShape
  <2> QED BY <2>1, <2>3, <2>4, <2>5, <2>6, <2>7 DEF LookupInv
<1>2. CASE phase' \in {"walk", "accepted", "rejected"}
  BY <1>2 DEF LookupInv
<1>3. CASE EmptyTrie \/ Start \/ VisitLeaf \/ VisitExtension \/ VisitBranch \/ VisitInvalid
             \/ SkipChild \/ PushChild
  <2>1. phase' \in {"walk", "accepted", "rejected"}
    BY <1>3 DEF EmptyTrie, Start, VisitLeaf, VisitExtension, VisitBranch, VisitInvalid, SkipChild,
                PushChild, Popping, Unless, Reject, Accept
  <2> QED BY <1>2, <2>1
<1> QED BY <1>1, <1>3, FinishLookup, ProbeLookup, ProbeEndLookup, VerifyLookup DEF Next

\* The next key is not in a trie whose keys are those of 0..count-1.
LEMMA NextKeyIsAbsent ==
  ASSUME TypeOK, DenseInv, CompleteInv, phase \in {"probe", "verify"}
  PROVE  NextKey \notin Reach[corpus.root]
<1> SUFFICES ASSUME NextKey \in Reach[corpus.root] PROVE FALSE
  OBVIOUS
<1>1. PICK i \in Seen : ReceiptKey[i] = ReceiptKey[count]
  BY DEF CompleteInv, Met, NextKey
<1>2. i \in Index /\ count \in Index /\ i <= max /\ max = count - 1
  BY SeenIndices DEF DenseInv, Counted, Checked, TypeOK
<1>3. i = count
  BY <1>1, <1>2, KeyAssumption
<1>4. count \in Int
  BY <1>2 DEF Index
<1> QED BY <1>2, <1>3, <1>4

\* Where the second lookup stops, the proof is used up and the key is not there.
LEMMA LookupEndsAbsent ==
  ASSUME TypeOK, DenseInv, CompleteInv, LookupInv, phase = "verify", Taken = NoChild
  PROVE  VerdictError = "none"
<1>1. PICK D \in SUBSET Node, R \in SUBSET LookupState :
        Trail(D, R) /\ Here(cursor) \in R /\ \A r \in R : Stops(r) \/ Moves(r, R)
  BY DEF LookupInv
<1>2. PICK h : h = Here(cursor)
  OBVIOUS
<1>3. /\ h \in R /\ h.node = at /\ h.pos = position /\ h.cursor = cursor /\ InTrie(h)
      /\ TakenAt(h.node, h.pos) = NoChild
  BY <1>1, <1>2, TakenHere DEF Here, Trail
<1>4. cursor = Len(proof)
  BY <1>1, <1>3 DEF Stops, Moves
<1>5. NextKey \notin Reach[corpus.root]
  BY NextKeyIsAbsent
<1>6. /\ at \in Node /\ position \in 0..Len(NextKey)
      /\ NextKey \in Seq(Nibble) /\ Len(NextKey) \in Nat
  BY NextKeyTypes DEF TypeOK, NextKey, Path
<1>7. \A k \in Reach[at] : SubSeq(NextKey, 1, position) \o k \in Reach[corpus.root]
  BY <1>3 DEF InTrie
<1>8. SubSeq(NextKey, 1, Len(NextKey)) = NextKey
  BY <1>6, PrefixWhole
<1>9. ASSUME Body[at].kind = "branch", position = Len(NextKey), Body[at].value # NoValue
      PROVE  FALSE
  <2>1. <<>> \in Reach[at]
    BY <1>6, <1>9, ReachAssumption DEF BranchKeys, Bare
  <2>2. NextKey \o <<>> = NextKey
    BY <1>6, ConcatEmptySeq
  <2> QED BY <1>5, <1>7, <1>8, <1>9, <2>1, <2>2
<1>10. ASSUME Body[at].kind = "leaf", Matches(Body[at].path, NextKey, position),
              position + Len(Body[at].path) = Len(NextKey)
       PROVE  FALSE
  <2> DEFINE p == Body[at].path
  <2>1. p \in Seq(Nibble) /\ p \in Reach[at]
    BY <1>6, <1>10, BodyTypes, ReachAssumption DEF Path
  <2>2. \A j \in 1..Len(p) : p[j] = NextKey[position + j]
    BY <1>10 DEF Matches
  <2>3. position + Len(p) = Len(NextKey)
    BY <1>10
  <2> HIDE DEF p
  <2>4. <<>> \in Seq(Nibble) /\ position + Len(p) <= Len(NextKey)
    BY <1>6, <2>3
  <2>5. SubSeq(NextKey, 1, position + Len(p)) \o <<>> = SubSeq(NextKey, 1, position) \o (p \o <<>>)
    BY <1>6, <2>1, <2>2, <2>4, PrefixStep
  <2>6. p \o <<>> = p /\ NextKey \o <<>> = NextKey
    BY <1>6, <2>1, ConcatEmptySeq
  <2>7. NextKey = SubSeq(NextKey, 1, position) \o p
    BY <1>8, <2>3, <2>5, <2>6
  <2> QED BY <1>5, <1>7, <2>1, <2>7
<1>11. ~Present
  BY <1>9, <1>10 DEF Present
<1> QED BY <1>4, <1>11 DEF VerdictError

\* No step of the two lookups rejects.
LEMMA LookupSucceeds ==
  ASSUME TypeOK, DenseInv, CompleteInv, LookupInv, phase \in {"probe", "verify"}, Next
  PROVE  phase' # "rejected"
<1>1. PICK D \in SUBSET Node : at \in D /\ Closed(D)
  <2>1. CASE phase = "probe"
    <3>1. PICK D \in SUBSET Node, R \in SUBSET LookupState :
            Trail(D, R) /\ Here(Len(proof)) \in R
      BY <2>1 DEF LookupInv
    <3>2. Here(Len(proof)).node = at
      BY DEF Here
    <3> QED BY <3>1, <3>2 DEF Trail
  <2>2. CASE phase = "verify"
    <3>1. PICK D \in SUBSET Node, R \in SUBSET LookupState :
            Trail(D, R) /\ Here(cursor) \in R
      BY <2>2 DEF LookupInv
    <3>2. Here(cursor).node = at
      BY DEF Here
    <3> QED BY <3>1, <3>2 DEF Trail
  <2> QED BY <2>1, <2>2
<1>2. NodeError = "none"
  BY <1>1 DEF Closed, ChildrenIn, NodeError
<1>3. Taken # NoChild => ChildError(Taken) = "none"
  <2>1. position \in 0..Len(NextKey)
    BY DEF TypeOK, NextKey
  <2> QED BY <1>1, <2>1, TakenIsFound, TakenHere
<1>4. CASE ProbeStep
  BY <1>2, <1>3, <1>4 DEF ProbeStep, Unless, First
<1>5. CASE ProbeEnd
  BY <1>2, <1>5 DEF ProbeEnd, Unless
<1>6. CASE VerifyStep
  BY <1>2, <1>6, FollowsTrail DEF VerifyStep, Unless, First
<1>7. CASE VerifyEnd
  BY <1>2, <1>7, LookupEndsAbsent DEF VerifyEnd, Unless, First, Accept
<1> QED
  BY <1>4, <1>5, <1>6, <1>7 DEF Next, EmptyTrie, Start, VisitLeaf, VisitExtension, VisitBranch,
     VisitInvalid, SkipChild, PushChild, FinishWalk, Popping

\* Once the walk is dense and complete the terminal exclusion always succeeds, for
\* every trie with canonical keys that differ: the corpus holds a lookup proof of the
\* next key, and the independent verifier reads it to its end and finds nothing.
THEOREM ExclusionCannotFail == Spec => ExclusionNeverFails
<1> DEFINE IInv == TypeOK /\ DenseInv /\ CompleteInv /\ WalkedInv /\ LookupInv
<1>1. Init => IInv
  BY InitType, InitDense, InitComplete, InitWalked, InitLookup
<1>2. IInv /\ [Next]_vars => IInv'
  BY NextType, NextDense, NextComplete, NextWalked, NextLookup
<1>3. IInv /\ [Next]_vars => [(phase \in {"probe", "verify"}) => (phase' # "rejected")]_vars
  BY LookupSucceeds
<1> QED BY <1>1, <1>2, <1>3, PTL DEF Spec, ExclusionNeverFails

-----------------------------------------------------------------------------
(***************************************************************************)
(* The keys of module ReceiptKeys.  What its recursive functions compute    *)
(* holds by the least number it could fail at: induction over numbers, by   *)
(* the well-foundedness of their order.                                     *)
(***************************************************************************)
\* Of some numbers one is the least.
LEMMA HasLeast ==
  ASSUME NEW S \in SUBSET Nat, S # {}
  PROVE  \E n \in S : \A k \in S : n <= k
<1> DEFINE R == {ss \in Nat \X Nat : ss[1] < ss[2]}
<1>1. IsWellFoundedOn(R, Nat) BY NatLessThanWellFounded DEF OpToRel
<1>2. PICK x \in S : \A y \in S : ~(<<y, x>> \in R)
  <2> HIDE DEF R
  <2> QED BY <1>1, WFMin
<1>3. \A y \in S : ~(y < x) BY <1>2
<1> QED BY <1>3

\* What starts with a and goes on by F, as a function.
LEMMA Recursion ==
  ASSUME NEW F \in [Nat -> [Nat -> Nat]], NEW a \in Nat
  PROVE  \E f \in [Nat -> Nat] : f[0] = a /\ \A n \in Nat : f[n + 1] = F[n][f[n]]
<1> DEFINE Goes(m, p) == p \in [0..m -> Nat] /\ p[0] = a /\ \A n \in 0..(m - 1) : p[n + 1] = F[n][p[n]]
<1>1. ASSUME NEW m \in Nat, NEW p, NEW q, Goes(m, p), Goes(m + 1, q)
      PROVE  p[m] = q[m]
  <2> DEFINE Bad == {n \in 0..m : p[n] # q[n]}
  <2> SUFFICES ASSUME Bad # {} PROVE FALSE
    <3>1. m \in 0..m OBVIOUS
    <3> QED BY <3>1
  <2>1. PICK n \in Bad : \A l \in Bad : n <= l
    <3>1. Bad \in SUBSET Nat OBVIOUS
    <3> HIDE DEF Bad
    <3> QED BY <3>1, HasLeast
  <2>2. n \in 0..m /\ p[n] # q[n] /\ n # 0
    <3>1. n \in 0..m /\ p[n] # q[n] OBVIOUS
    <3>2. p[0] = a /\ q[0] = a BY <1>1
    <3> QED BY ONLY <3>1, <3>2
  <2>3. n - 1 \in 0..(m - 1) /\ n - 1 \in 0..((m + 1) - 1) /\ n - 1 \in 0..m /\ n - 1 \notin Bad
    BY <2>1, <2>2
  <2>4. p[n - 1] = q[n - 1] BY <2>3
  <2>5. p[(n - 1) + 1] = F[n - 1][p[n - 1]] /\ q[(n - 1) + 1] = F[n - 1][q[n - 1]]
    <3>1. PICK i \in 0..(m - 1) : i = n - 1 BY <2>3
    <3>2. i \in 0..((m + 1) - 1) OBVIOUS
    <3>3. p[i + 1] = F[i][p[i]] BY <1>1
    <3>4. q[i + 1] = F[i][q[i]] BY <1>1, <3>2
    <3> QED BY ONLY <3>1, <3>3, <3>4
  <2>6. (n - 1) + 1 = n BY <2>2
  <2> QED BY <2>2, <2>4, <2>5, <2>6
<1>2. ASSUME NEW m \in Nat PROVE \E p : Goes(m, p)
  <2> DEFINE Bad == {l \in Nat : ~\E p : Goes(l, p)}
  <2> SUFFICES ASSUME Bad # {} PROVE FALSE OBVIOUS
  <2>1. PICK l \in Bad : \A k \in Bad : l <= k
    <3>1. Bad \in SUBSET Nat OBVIOUS
    <3> HIDE DEF Bad
    <3> QED BY <3>1, HasLeast
  <2>2. l # 0
    <3>1. Goes(0, [n \in 0..0 |-> a]) OBVIOUS
    <3> QED BY <3>1
  <2>3. l \in Nat /\ l - 1 \in Nat /\ l - 1 \notin Bad
    <3>1. l \in Nat /\ l - 1 \in Nat BY <2>2
    <3>2. l - 1 \in Bad => l <= l - 1 BY <2>1
    <3> HIDE DEF Bad
    <3> QED BY <3>1, <3>2
  <2>4. PICK p : Goes(l - 1, p) BY <2>3
  <2> DEFINE goal == F[l - 1][p[l - 1]]
             q == [n \in 0..l |-> IF n = l THEN goal ELSE p[n]]
  <2>5. goal \in Nat
    <3>1. l - 1 \in 0..(l - 1) BY <2>3
    <3>2. p[l - 1] \in Nat BY <2>4, <3>1
    <3> QED BY <2>3, <3>2
  <2>6. ASSUME NEW n \in 0..(l - 1) PROVE q[n] = p[n] /\ q[n] \in Nat
    <3>1. n \in 0..l /\ n # l BY <2>3
    <3> HIDE DEF goal
    <3> QED BY <2>4, <3>1
  <2>7. q \in [0..l -> Nat]
    <3>1. ASSUME NEW n \in 0..l PROVE (IF n = l THEN goal ELSE p[n]) \in Nat
      <4>1. CASE n = l BY <2>5, <4>1
      <4>2. CASE n # l
        <5>1. n \in 0..(l - 1) BY <2>3, <4>2
        <5> QED BY <2>4, <4>2, <5>1
      <4> QED BY <4>1, <4>2
    <3> QED BY <3>1
  <2>8. q[0] = a BY <2>3, <2>4, <2>6
  <2>9. ASSUME NEW n \in 0..(l - 1) PROVE q[n + 1] = F[n][q[n]]
    <3>1. CASE n = l - 1
      <4>1. q[n + 1] = goal BY <2>3, <3>1
      <4> QED BY <2>6, <3>1, <4>1
    <3>2. CASE n # l - 1
      <4>1. n \in 0..((l - 1) - 1) /\ n + 1 \in 0..(l - 1) BY <2>3, <3>2
      <4>2. p[n + 1] = F[n][p[n]] BY <2>4, <4>1
      <4> QED BY <2>6, <4>1, <4>2
    <3> QED BY <3>1, <3>2
  <2>10. Goes(l, q)
    <3> HIDE DEF q
    <3> QED BY <2>7, <2>8, <2>9
  <2> QED BY <2>10
<1> DEFINE upTo(m) == CHOOSE p : Goes(m, p)
           whole == [n \in Nat |-> upTo(n)[n]]
<1> HIDE DEF Goes
<1>3. ASSUME NEW m \in Nat PROVE Goes(m, upTo(m)) BY <1>2
<1> HIDE DEF upTo
<1>4. ASSUME NEW m \in Nat
      PROVE  upTo(m)[m] \in Nat /\ upTo(m + 1)[m + 1] = F[m][upTo(m)[m]]
  <2>1. m + 1 \in Nat /\ m \in 0..m /\ m \in 0..((m + 1) - 1) OBVIOUS
  <2>2. PICK p, q : p = upTo(m) /\ q = upTo(m + 1) OBVIOUS
  <2>3. Goes(m, p) /\ Goes(m + 1, q) BY <1>3, <2>1, <2>2
  <2>4. p[m] = q[m] BY <1>1, <2>3
  <2>5. p[m] \in Nat /\ q[m + 1] = F[m][q[m]] BY <2>1, <2>3 DEF Goes
  <2> QED BY <2>2, <2>4, <2>5
<1>5. upTo(0)[0] = a BY <1>3 DEF Goes
<1>6. whole \in [Nat -> Nat] /\ whole[0] = a BY <1>4, <1>5
<1>7. ASSUME NEW n \in Nat PROVE whole[n + 1] = F[n][whole[n]]
  <2>1. whole[n] = upTo(n)[n] /\ whole[n + 1] = upTo(n + 1)[n + 1] OBVIOUS
  <2> QED BY <1>4, <2>1
<1> QED BY <1>6, <1>7

\* The recursive definition of Power has a solution.
LEMMA PowerFacts ==
  ASSUME Radix \in Nat
  PROVE  Power \in [Nat -> Nat] /\ Power[0] = 1 /\ \A n \in Nat : Power[n + 1] = Radix * Power[n]
<1> DEFINE F == [n \in Nat |-> [k \in Nat |-> Radix * k]]
<1>1. F \in [Nat -> [Nat -> Nat]] OBVIOUS
<1>2. \A n, k \in Nat : F[n][k] = Radix * k OBVIOUS
<1> HIDE DEF F
<1>3. PICK f \in [Nat -> Nat] : f[0] = 1 /\ \A n \in Nat : f[n + 1] = F[n][f[n]]
  <2>1. 1 \in Nat OBVIOUS
  <2> QED BY ONLY <1>1, <2>1, Recursion
<1> DEFINE Is(g) == g = [n \in Nat |-> IF n = 0 THEN 1 ELSE Radix * g[n - 1]]
<1>4. Is(f)
  <2>1. ASSUME NEW n \in Nat PROVE f[n] = IF n = 0 THEN 1 ELSE Radix * f[n - 1]
    <3>1. CASE n = 0 BY <1>3, <3>1
    <3>2. CASE n # 0
      <4>1. n - 1 \in Nat /\ (n - 1) + 1 = n BY <3>2
      <4>2. f[(n - 1) + 1] = F[n - 1][f[n - 1]] BY <1>3, <4>1
      <4>3. f[n - 1] \in Nat BY <1>3, <4>1
      <4> QED BY <1>2, <3>2, <4>1, <4>2, <4>3
    <3> QED BY <3>1, <3>2
  <2> QED BY <1>3, <2>1
<1>5. Power = CHOOSE g : Is(g) BY DEF Power
<1>6. Is(Power) BY <1>4, <1>5
<1> HIDE DEF Is
<1>7. \A n \in Nat : Power[n] = IF n = 0 THEN 1 ELSE Radix * Power[n - 1] BY <1>6 DEF Is
<1>8. Power = [n \in Nat |-> Power[n]] BY <1>6 DEF Is
<1>9. Power[0] = 1 /\ \A n \in Nat : Power[n + 1] = Radix * Power[n]
  <2>1. ASSUME NEW n \in Nat PROVE Power[n + 1] = Radix * Power[n]
    <3>1. n + 1 \in Nat /\ n + 1 # 0 /\ (n + 1) - 1 = n OBVIOUS
    <3> QED BY <1>7, <3>1
  <2> QED BY <1>7, <2>1
<1>10. \A n \in Nat : Power[n] = f[n]
  <2> DEFINE Bad == {n \in Nat : Power[n] # f[n]}
  <2> SUFFICES ASSUME Bad # {} PROVE FALSE OBVIOUS
  <2>1. PICK n \in Bad : \A l \in Bad : n <= l
    BY HasLeast, Bad \in SUBSET Nat
  <2>2. n # 0 BY <1>3, <1>9
  <2>3. n - 1 \in Nat /\ n - 1 \notin Bad BY <2>1, <2>2
  <2>4. Power[n - 1] = f[n - 1] BY <2>3
  <2>5. f[(n - 1) + 1] = F[n - 1][f[n - 1]] /\ f[n - 1] \in Nat BY <1>3, <2>3
  <2>6. Power[(n - 1) + 1] = Radix * Power[n - 1] BY <1>9, <2>3
  <2>7. (n - 1) + 1 = n /\ F[n - 1][f[n - 1]] = Radix * f[n - 1] BY <1>2, <2>3, <2>5
  <2>8. Power[n] # f[n] OBVIOUS
  <2> QED BY <2>4, <2>5, <2>6, <2>7, <2>8
<1> QED BY <1>8, <1>9, <1>10


\* Division by a product, and of a number that was put together.
LEMMA DivideTwice ==
  ASSUME NEW a \in Nat, NEW b \in Nat \ {0}, NEW c \in Nat \ {0}
  PROVE  a \div (b * c) = (a \div b) \div c
OBVIOUS

\* A quotient and a remainder are had back from what they make up.
LEMMA DivideBack ==
  ASSUME NEW a \in Nat, NEW b \in Nat \ {0}, NEW c \in Nat, c < b
  PROVE  (a * b + c) \div b = a /\ (a * b + c) % b = c
OBVIOUS

\* Every number is its quotient and its remainder.
LEMMA DivideFacts ==
  ASSUME NEW a \in Nat, NEW b \in Nat \ {0}
  PROVE  /\ a \div b \in Nat /\ a % b \in 0..(b - 1)
         /\ (a \div b) * b + (a % b) = a
OBVIOUS

\* What follows of the sizes of a byte and of a length byte.
LEMMA ScaleFacts ==
  ASSUME ScaleAssumption
  PROVE  /\ Radix \in Nat /\ Radix > 1 /\ ByteBase \in Nat /\ ByteBase > Radix
         /\ Half \in Nat /\ Half >= 2 /\ 2 * Half <= ByteBase /\ Half + ValueBytes < ByteBase
         /\ ValueBytes \in Nat /\ ValueBytes > 0
<1>1. Radix \in Nat /\ Radix > 1 /\ ValueBytes \in Nat /\ ValueBytes > 0 /\ Half + ValueBytes < ByteBase
  BY DEF ScaleAssumption
<1>2. ByteBase \in Nat /\ ByteBase >= 4 /\ ByteBase > Radix
  <2>1. \A r \in Nat : r > 1 => r * r >= 4 /\ r * r > r OBVIOUS
  <2> QED BY <1>1, <2>1 DEF ByteBase
<1>3. \A b \in Nat : b >= 4 => b \div 2 \in Nat /\ b \div 2 >= 2 /\ 2 * (b \div 2) <= b OBVIOUS
<1> QED BY <1>1, <1>2, <1>3 DEF Half

\* Powers are positive and grow.
LEMMA PowersGrow ==
  ASSUME ScaleAssumption
  PROVE  /\ \A n \in Nat : Power[n] \in Nat \ {0}
         /\ Power[0] = 1 /\ Power[1] = Radix /\ Power[2] = ByteBase
         /\ \A n \in Nat : Power[n + 1] = Radix * Power[n]
         /\ \A m, n \in Nat : m <= n => Power[m] <= Power[n]
<1>1. /\ Radix \in Nat /\ Radix > 1 BY ScaleFacts
<1>2. Power \in [Nat -> Nat] /\ Power[0] = 1 /\ \A n \in Nat : Power[n + 1] = Radix * Power[n]
  BY <1>1, PowerFacts
<1>3. \A n \in Nat : Power[n] # 0
  <2> DEFINE Bad == {n \in Nat : Power[n] = 0}
  <2> SUFFICES ASSUME Bad # {} PROVE FALSE OBVIOUS
  <2>1. PICK n \in Bad : \A l \in Bad : n <= l
    <3>1. Bad \in SUBSET Nat OBVIOUS
    <3> HIDE DEF Bad
    <3> QED BY <3>1, HasLeast
  <2>2. n \in Nat /\ Power[n] = 0 /\ n # 0 BY <1>2
  <2>3. n - 1 \in Nat /\ ~(n <= n - 1) BY <2>2
  <2>4. Power[n - 1] \in Nat /\ Power[n - 1] # 0 BY <1>2, <2>1, <2>3
  <2>5. Power[(n - 1) + 1] = Radix * Power[n - 1] /\ (n - 1) + 1 = n BY <1>2, <2>3
  <2> QED BY <1>1, <2>2, <2>4, <2>5
<1>4. ASSUME NEW m \in Nat PROVE \A n \in Nat : m <= n => Power[m] <= Power[n]
  <2> DEFINE Bad == {n \in Nat : m <= n /\ ~(Power[m] <= Power[n])}
  <2> SUFFICES ASSUME Bad # {} PROVE FALSE OBVIOUS
  <2>1. PICK n \in Bad : \A l \in Bad : n <= l
    <3>1. Bad \in SUBSET Nat OBVIOUS
    <3> HIDE DEF Bad
    <3> QED BY <3>1, HasLeast
  <2>2. n \in Nat /\ m <= n /\ ~(Power[m] <= Power[n]) /\ n # m BY <1>2
  <2>3. n - 1 \in Nat /\ m <= n - 1 /\ ~(n <= n - 1) BY <2>2
  <2>4. Power[m] <= Power[n - 1] /\ Power[n - 1] \in Nat /\ Power[m] \in Nat BY <1>2, <2>1, <2>3
  <2>5. Power[(n - 1) + 1] = Radix * Power[n - 1] /\ (n - 1) + 1 = n BY <1>2, <2>3
  <2>6. \A r, x \in Nat : r > 1 => x <= r * x OBVIOUS
  <2>7. Power[n - 1] <= Power[n] BY <1>1, <2>4, <2>5, <2>6
  <2>8. Power[n] \in Nat BY <1>2, <2>2
  <2> QED BY <2>2, <2>4, <2>7, <2>8
<1>5. Power[1] = Radix
  <2>1. Power[0 + 1] = Radix * Power[0] BY <1>2
  <2> QED BY <1>1, <1>2, <2>1
<1>6. Power[2] = ByteBase
  <2>1. Power[1 + 1] = Radix * Power[1] BY <1>2
  <2> QED BY <1>5, <2>1 DEF ByteBase
<1> QED BY <1>2, <1>3, <1>4, <1>5, <1>6

\* A byte further down, a byte less.
LEMMA NextByte ==
  ASSUME ScaleAssumption, NEW n \in Nat
  PROVE  /\ Power[n + 2] = ByteBase * Power[n] /\ Power[n + 2] = Power[n] * ByteBase
         /\ \A i \in Nat : i \div Power[n + 1] = (i \div Power[n]) \div Radix
         /\ \A i \in Nat : i \div Power[n + 2] = (i \div Power[n]) \div ByteBase
         /\ \A i \in Nat : i \div Power[n + 2] = (i \div ByteBase) \div Power[n]
<1>1. Radix \in Nat \ {0} /\ ByteBase \in Nat \ {0} /\ Power[n] \in Nat \ {0} BY ScaleFacts, PowersGrow
<1>2. Power[n + 1] = Radix * Power[n] BY PowersGrow
<1>3. Power[(n + 1) + 1] = Radix * Power[n + 1] /\ (n + 1) + 1 = n + 2 BY PowersGrow
<1>4. Power[n + 2] = Radix * (Radix * Power[n]) BY <1>2, <1>3
<1>5. \A r, x \in Nat : r * (r * x) = (r * r) * x /\ (r * r) * x = x * (r * r) /\ r * x = x * r OBVIOUS
<1>6. Power[n + 2] = ByteBase * Power[n] /\ Power[n + 2] = Power[n] * ByteBase
  BY <1>1, <1>4, <1>5 DEF ByteBase
<1>7. Power[n + 1] = Power[n] * Radix BY <1>1, <1>2, <1>5
<1> QED BY <1>1, <1>6, <1>7, DivideTwice

\* What BigEndian goes through.
Reads(bytes, sum) ==
  /\ sum \in [0..Len(bytes) -> Nat] /\ sum[0] = 0
  /\ \A j \in 1..Len(bytes) : sum[j] = sum[j - 1] * ByteBase + bytes[j]

\* Two sums that go through the same bytes end alike.
LEMMA ReadsInOneWay ==
  ASSUME ScaleAssumption, NEW bytes, Len(bytes) \in Nat, NEW p, NEW q, Reads(bytes, p), Reads(bytes, q)
  PROVE  p[Len(bytes)] = q[Len(bytes)]
<1> DEFINE Bad == {n \in 0..Len(bytes) : p[n] # q[n]}
<1> SUFFICES ASSUME Bad # {} PROVE FALSE OBVIOUS
<1>1. PICK n \in Bad : \A l \in Bad : n <= l
  <2>1. Bad \in SUBSET Nat OBVIOUS
  <2> HIDE DEF Bad
  <2> QED BY <2>1, HasLeast
<1>2. n \in 0..Len(bytes) /\ p[n] # q[n] /\ n # 0
  <2>1. n \in 0..Len(bytes) /\ p[n] # q[n] OBVIOUS
  <2>2. p[0] = 0 /\ q[0] = 0 BY DEF Reads
  <2> QED BY ONLY <2>1, <2>2
<1>3. n \in 1..Len(bytes) /\ n - 1 \in 0..Len(bytes) /\ ~(n <= n - 1) BY <1>2
<1>4. p[n - 1] = q[n - 1] BY <1>1, <1>3
<1>5. p[n] = p[n - 1] * ByteBase + bytes[n] /\ q[n] = q[n - 1] * ByteBase + bytes[n]
  BY <1>3 DEF Reads
<1> QED BY <1>2, <1>4, <1>5

\* BigEndian is the end of such a sum.
LEMMA BigEndianReads ==
  ASSUME ScaleAssumption, NEW bytes \in Seq(Nat)
  PROVE  \E sum : Reads(bytes, sum) /\ BigEndian(bytes) = sum[Len(bytes)]
<1> DEFINE n == Len(bytes)
           F == [k \in Nat |-> [x \in Nat |-> x * ByteBase + (IF k + 1 \in 1..n THEN bytes[k + 1] ELSE 0)]]
           Is(g) == g = [j \in 0..n |-> IF j = 0 THEN 0 ELSE g[j - 1] * ByteBase + bytes[j]]
<1>1. n \in Nat /\ ByteBase \in Nat /\ \A j \in 1..n : bytes[j] \in Nat BY ScaleFacts
<1>2. F \in [Nat -> [Nat -> Nat]] BY <1>1
<1>3. \A k, x \in Nat : k + 1 \in 1..n => F[k][x] = x * ByteBase + bytes[k + 1] OBVIOUS
<1> HIDE DEF F
<1>4. PICK f \in [Nat -> Nat] : f[0] = 0 /\ \A k \in Nat : f[k + 1] = F[k][f[k]]
  <2>1. 0 \in Nat OBVIOUS
  <2> QED BY ONLY <1>2, <2>1, Recursion
<1> DEFINE g == [j \in 0..n |-> f[j]]
<1>5. \A j \in 1..n : f[j] = f[j - 1] * ByteBase + bytes[j]
  <2> SUFFICES ASSUME NEW j \in 1..n PROVE f[j] = f[j - 1] * ByteBase + bytes[j] OBVIOUS
  <2>1. j - 1 \in Nat /\ (j - 1) + 1 = j BY <1>1
  <2>2. f[j - 1] \in Nat /\ f[(j - 1) + 1] = F[j - 1][f[j - 1]] BY <1>4, <2>1
  <2> QED BY <1>3, <2>1, <2>2
<1>6. Is(g)
  <2>1. ASSUME NEW j \in 0..n PROVE g[j] = IF j = 0 THEN 0 ELSE g[j - 1] * ByteBase + bytes[j]
    <3>1. CASE j = 0 BY <1>4, <3>1
    <3>2. CASE j # 0
      <4>1. j \in 1..n /\ j - 1 \in 0..n BY <1>1, <3>2
      <4> QED BY <1>5, <3>2, <4>1
    <3> QED BY <3>1, <3>2
  <2>2. g = [j \in 0..n |-> g[j]] OBVIOUS
  <2> HIDE DEF g, n
  <2> QED BY <2>1, <2>2
<1>7. BigEndian(bytes) = (CHOOSE h : Is(h))[n] BY DEF BigEndian
<1> DEFINE sum == CHOOSE h : Is(h)
<1>8. Is(sum) BY <1>6
<1> HIDE DEF sum, Is
<1>9. Reads(bytes, g)
  <2>1. g \in [0..n -> Nat] BY <1>1, <1>4
  <2>2. g[0] = 0 BY <1>1, <1>4
  <2>3. ASSUME NEW j \in 1..n PROVE g[j] = g[j - 1] * ByteBase + bytes[j]
    <3>1. j \in 0..n /\ j - 1 \in 0..n BY <1>1
    <3> QED BY <1>5, <3>1
  <2> HIDE DEF g
  <2> QED BY <2>1, <2>2, <2>3 DEF Reads
<1>10. sum = [j \in 0..n |-> IF j = 0 THEN 0 ELSE sum[j - 1] * ByteBase + bytes[j]] BY <1>8 DEF Is
<1>11. \A j \in 0..n : sum[j] = g[j]
  <2> DEFINE Bad == {j \in 0..n : sum[j] # g[j]}
  <2> SUFFICES ASSUME Bad # {} PROVE FALSE OBVIOUS
  <2>1. PICK j \in Bad : \A l \in Bad : j <= l
    <3>1. Bad \in SUBSET Nat BY <1>1
    <3> HIDE DEF Bad
    <3> QED BY <3>1, HasLeast
  <2> HIDE DEF g
  <2>2. j \in 0..n /\ sum[j] # g[j] OBVIOUS
  <2>3. sum[j] = IF j = 0 THEN 0 ELSE sum[j - 1] * ByteBase + bytes[j] BY <1>10, <2>2
  <2>4. j # 0 BY <1>9, <2>2, <2>3 DEF Reads
  <2>5. j \in 1..n /\ j - 1 \in 0..n /\ ~(j <= j - 1) BY <1>1, <2>2, <2>4
  <2>6. sum[j - 1] = g[j - 1] BY <2>1, <2>5
  <2>7. g[j] = g[j - 1] * ByteBase + bytes[j] BY <1>9, <2>5 DEF Reads
  <2> QED BY <2>2, <2>3, <2>4, <2>6, <2>7
<1>12. BigEndian(bytes) = g[n] BY <1>1, <1>7, <1>11 DEF sum
<1> QED BY <1>9, <1>12

\* The bytes of a path, taken two nibbles at a time.
BytesIn(p, n) == [j \in 1..n |-> ByteAt(p, j)]

\* Bytes are made of nibbles and stay below ByteBase.
LEMMA BytesInFacts ==
  ASSUME ScaleAssumption, NEW n \in Nat, NEW p \in Seq(Nibble), Len(p) >= 2 * n
  PROVE  /\ BytesIn(p, n) \in Seq(Nat) /\ Len(BytesIn(p, n)) = n
         /\ \A j \in 1..n :
              /\ p[2 * j - 1] \in Nibble /\ p[2 * j] \in Nibble
              /\ BytesIn(p, n)[j] = p[2 * j - 1] * Radix + p[2 * j]
              /\ BytesIn(p, n)[j] \in 0..(ByteBase - 1)
<1>1. Radix \in Nat /\ Radix > 1 BY ScaleFacts
<1>2. ASSUME NEW j \in 1..n
      PROVE  /\ p[2 * j - 1] \in Nibble /\ p[2 * j] \in Nibble
             /\ ByteAt(p, j) \in 0..(ByteBase - 1)
  <2>1. 2 * j - 1 \in 1..Len(p) /\ 2 * j \in 1..Len(p) OBVIOUS
  <2>2. p[2 * j - 1] \in Nibble /\ p[2 * j] \in Nibble BY <2>1
  <2>3. \A r \in Nat : \A x, y \in 0..(r - 1) : x * r + y \in 0..(r * r - 1)
    <3> SUFFICES ASSUME NEW r \in Nat, NEW x \in 0..(r - 1), NEW y \in 0..(r - 1)
                 PROVE  x * r + y \in 0..(r * r - 1) OBVIOUS
    <3>1. (x + 1) * r <= r * r /\ (x + 1) * r = x * r + r /\ x * r >= 0 /\ x * r \in Int OBVIOUS
    <3> QED BY <3>1
  <2> QED BY <1>1, <2>2, <2>3 DEF Nibble, ByteAt, ByteBase
<1>3. ByteBase \in Nat BY ScaleFacts
<1>4. BytesIn(p, n) = [j \in 1..n |-> ByteAt(p, j)] BY DEF BytesIn
<1>5. BytesIn(p, n) \in Seq(Nat) /\ Len(BytesIn(p, n)) = n
  <2>1. \A j \in 1..n : ByteAt(p, j) \in Nat BY <1>2, <1>3
  <2> QED BY <1>4, <2>1
<1> QED BY <1>2, <1>4, <1>5 DEF ByteAt

\* What a big-endian sum is below, and how its high bytes are had back.
LEMMA SumFacts ==
  ASSUME ScaleAssumption, NEW bytes, Len(bytes) \in Nat, NEW sum, Reads(bytes, sum),
         \A j \in 1..Len(bytes) : bytes[j] \in 0..(ByteBase - 1)
  PROVE  /\ sum[Len(bytes)] \in Nat /\ sum[Len(bytes)] < Power[2 * Len(bytes)]
         /\ \A j \in 1..Len(bytes) :
              /\ sum[Len(bytes)] \div Power[2 * (Len(bytes) - j)] = sum[j - 1] * ByteBase + bytes[j]
              /\ sum[j - 1] \in Nat
         /\ Len(bytes) > 0 /\ bytes[1] # 0 => sum[Len(bytes)] >= Power[2 * (Len(bytes) - 1)]
<1>1. PICK n \in Nat : n = Len(bytes) OBVIOUS
<1>2. ByteBase \in Nat \ {0} BY ScaleFacts
<1>3. /\ \A j \in 0..n : sum[j] \in Nat
      /\ sum[0] = 0 /\ \A j \in 1..n : sum[j] = sum[j - 1] * ByteBase + bytes[j]
      /\ \A j \in 1..n : bytes[j] \in 0..(ByteBase - 1)
  BY <1>1 DEF Reads
<1>4. \A k \in Nat : Power[k] \in Nat \ {0} BY PowersGrow
<1>5. \A j \in 0..n : sum[j] < Power[2 * j]
  <2> DEFINE Bad == {j \in 0..n : ~(sum[j] < Power[2 * j])}
  <2> SUFFICES ASSUME Bad # {} PROVE FALSE OBVIOUS
  <2>1. PICK j \in Bad : \A l \in Bad : j <= l
    <3>1. Bad \in SUBSET Nat OBVIOUS
    <3> HIDE DEF Bad
    <3> QED BY <3>1, HasLeast
  <2>2. j \in 0..n /\ ~(sum[j] < Power[2 * j]) OBVIOUS
  <2>3. j # 0
    <3>1. Power[2 * 0] = 1 BY PowersGrow
    <3> QED BY <1>3, <2>2, <3>1
  <2>4. j \in 1..n /\ j - 1 \in 0..n /\ ~(j <= j - 1) BY <2>2, <2>3
  <2>5. sum[j - 1] < Power[2 * (j - 1)] BY <2>1, <2>4
  <2>6. PICK k \in Nat, s \in Nat, P \in Nat, b \in 0..(ByteBase - 1) :
          k = 2 * (j - 1) /\ s = sum[j - 1] /\ P = Power[k] /\ b = bytes[j]
    <3>1. 2 * (j - 1) \in Nat BY <2>4
    <3> QED BY <1>3, <1>4, <2>4, <3>1
  <2>7. Power[k + 2] = P * ByteBase /\ k + 2 = 2 * j BY <2>4, <2>6, NextByte
  <2>8. s + 1 <= P /\ sum[j] = s * ByteBase + b
    <3>1. s < P BY ONLY <2>5, <2>6
    <3>2. sum[j] = s * ByteBase + b BY ONLY <1>3, <2>4, <2>6
    <3> QED BY <3>1, <3>2
  <2>9. \A c \in Nat : \A x, y \in Nat : x + 1 <= y => x * c + c <= y * c
    <3> SUFFICES ASSUME NEW c \in Nat, NEW x \in Nat, NEW y \in Nat, x + 1 <= y PROVE x * c + c <= y * c
      OBVIOUS
    <3>1. PICK d \in Nat : y = x + 1 + d
      <4>1. y - (x + 1) \in Nat OBVIOUS
      <4> QED BY <4>1
    <3>2. y * c = x * c + c + d * c /\ d * c \in Nat /\ x * c \in Nat BY <3>1
    <3> QED BY <3>2
  <2>10. s * ByteBase + ByteBase <= P * ByteBase BY <1>2, <2>6, <2>8, <2>9
  <2>11. sum[j] < Power[2 * j]
    <3>1. PICK x \in Nat : x = s * ByteBase BY <1>2
    <3>2. sum[j] = x + b /\ x + ByteBase <= Power[2 * j] /\ Power[2 * j] \in Nat
      BY <1>4, <2>7, <2>8, <2>10, <3>1
    <3> QED BY <1>2, <3>2
  <2> QED BY <2>2, <2>11
<1>6. \A d \in 0..n : sum[n] \div Power[2 * d] = sum[n - d]
  <2> DEFINE Bad == {d \in 0..n : sum[n] \div Power[2 * d] # sum[n - d]}
  <2> SUFFICES ASSUME Bad # {} PROVE FALSE OBVIOUS
  <2>1. PICK d \in Bad : \A l \in Bad : d <= l
    <3>1. Bad \in SUBSET Nat OBVIOUS
    <3> HIDE DEF Bad
    <3> QED BY <3>1, HasLeast
  <2>2. d \in 0..n /\ sum[n] \div Power[2 * d] # sum[n - d] OBVIOUS
  <2>3. d # 0
    <3>1. Power[2 * 0] = 1 /\ n - 0 = n BY PowersGrow
    <3>2. sum[n] \in Nat BY <1>3
    <3>3. sum[n] \div 1 = sum[n] BY <3>2
    <3> QED BY <2>2, <3>1, <3>3
  <2>4. d - 1 \in 0..n /\ ~(d <= d - 1) /\ n - d \in 0..n /\ (n - d) + 1 \in 1..n BY <2>2, <2>3
  <2>5. sum[n] \div Power[2 * (d - 1)] = sum[n - (d - 1)] BY <2>1, <2>4
  <2>6. PICK k \in Nat, m \in 1..n : k = 2 * (d - 1) /\ m = (n - d) + 1
    <3>1. 2 * (d - 1) \in Nat BY <2>4
    <3> QED BY <2>4, <3>1
  <2>7. k + 2 = 2 * d /\ n - (d - 1) = m /\ m - 1 = n - d BY <2>2, <2>6
  <2>8. sum[n] \in Nat BY <1>3
  <2>9. sum[n] \div Power[2 * d] = sum[m] \div ByteBase
    <3>1. sum[n] \div Power[k + 2] = (sum[n] \div Power[k]) \div ByteBase BY <2>8, NextByte
    <3> QED BY ONLY <2>5, <2>6, <2>7, <3>1
  <2>10. sum[m - 1] \in Nat /\ bytes[m] \in Nat /\ bytes[m] < ByteBase
         /\ sum[m] = sum[m - 1] * ByteBase + bytes[m]
    <3>1. m - 1 \in 0..n BY <2>6
    <3>2. sum[m - 1] \in Nat BY <1>3, <3>1
    <3>3. bytes[m] \in 0..(ByteBase - 1) /\ sum[m] = sum[m - 1] * ByteBase + bytes[m] BY <1>3
    <3>4. bytes[m] \in Nat /\ bytes[m] < ByteBase BY ONLY <1>2, <3>3
    <3> QED BY <3>2, <3>3, <3>4
  <2>11. sum[m] \div ByteBase = sum[m - 1] BY <1>2, <2>10, DivideBack
  <2> QED BY <2>2, <2>7, <2>9, <2>11
<1>7. \A j \in 1..n : /\ sum[n] \div Power[2 * (n - j)] = sum[j - 1] * ByteBase + bytes[j]
                      /\ sum[j - 1] \in Nat
  <2> SUFFICES ASSUME NEW j \in 1..n
               PROVE  /\ sum[n] \div Power[2 * (n - j)] = sum[j - 1] * ByteBase + bytes[j]
                      /\ sum[j - 1] \in Nat
    OBVIOUS
  <2>1. n - j \in 0..n /\ n - (n - j) = j /\ j - 1 \in 0..n OBVIOUS
  <2> QED BY <1>3, <1>6, <2>1
<1>8. n > 0 /\ bytes[1] # 0 => sum[n] >= Power[2 * (n - 1)]
  <2> SUFFICES ASSUME n > 0, bytes[1] # 0 PROVE sum[n] >= Power[2 * (n - 1)] OBVIOUS
  <2>1. n - 1 \in Nat /\ 2 * (n - 1) \in Nat /\ 1 \in 1..n OBVIOUS
  <2>2. PICK P \in Nat \ {0} : P = Power[2 * (n - 1)] BY <1>4, <2>1
  <2>3. sum[n] \div P = sum[1 - 1] * ByteBase + bytes[1] BY <1>7, <2>1, <2>2
  <2>4. sum[1 - 1] * ByteBase + bytes[1] = bytes[1] /\ bytes[1] \in Nat BY <1>2, <1>3, <2>1
  <2>5. sum[n] \in Nat /\ sum[n] \div P # 0 BY <1>3, <2>3, <2>4
  <2>6. \A x \in Nat : x < P => x \div P = 0 OBVIOUS
  <2>7. ~(sum[n] < P) BY <2>5, <2>6
  <2> QED BY <2>2, <2>5, <2>7
<1>9. sum[n] \in Nat /\ sum[n] < Power[2 * n] BY <1>3, <1>5
<1> QED BY <1>1, <1>7, <1>8, <1>9

\* The digits of what a path reads as are the path.
LEMMA DigitsOfBytes ==
  ASSUME ScaleAssumption, NEW n \in Nat, NEW p \in Seq(Nibble), Len(p) = 2 * n
  PROVE  /\ BigEndian(BytesIn(p, n)) \in Nat /\ BigEndian(BytesIn(p, n)) < Power[2 * n]
         /\ Digits(BigEndian(BytesIn(p, n)), n) = p
         /\ n > 0 /\ BytesIn(p, n)[1] # 0 => BigEndian(BytesIn(p, n)) >= Power[2 * (n - 1)]
<1> DEFINE bytes == BytesIn(p, n)
<1>1. /\ bytes \in Seq(Nat) /\ Len(bytes) = n
      /\ \A j \in 1..n :
           /\ p[2 * j - 1] \in Nibble /\ p[2 * j] \in Nibble
           /\ bytes[j] = p[2 * j - 1] * Radix + p[2 * j]
           /\ bytes[j] \in 0..(ByteBase - 1)
  BY BytesInFacts
<1> HIDE DEF bytes
<1>2. PICK sum : Reads(bytes, sum) /\ BigEndian(bytes) = sum[Len(bytes)] BY <1>1, BigEndianReads
<1>3. PICK v : v = BigEndian(bytes) OBVIOUS
<1>4. /\ v \in Nat /\ v < Power[2 * n]
      /\ \A j \in 1..n : /\ v \div Power[2 * (n - j)] = sum[j - 1] * ByteBase + bytes[j]
                         /\ sum[j - 1] \in Nat
      /\ n > 0 /\ bytes[1] # 0 => v >= Power[2 * (n - 1)]
  BY <1>1, <1>2, <1>3, SumFacts
<1>5. Radix \in Nat \ {0} BY ScaleFacts
<1>6. ASSUME NEW j \in 1..n
      PROVE  /\ (v \div Power[2 * n - 2 * j]) % Radix = p[2 * j]
             /\ (v \div Power[2 * n - (2 * j - 1)]) % Radix = p[2 * j - 1]
  <2>1. PICK k \in Nat : k = 2 * (n - j)
    <3>1. 2 * (n - j) \in Nat OBVIOUS
    <3> QED BY <3>1
  <2>2. 2 * n - 2 * j = k /\ 2 * n - (2 * j - 1) = k + 1 BY <2>1
  <2>3. PICK x \in Nibble, y \in Nibble, s \in Nat : x = p[2 * j - 1] /\ y = p[2 * j] /\ s = sum[j - 1]
    BY <1>1, <1>4
  <2>4. x \in Nat /\ y \in Nat /\ x < Radix /\ y < Radix BY <1>5, <2>3 DEF Nibble
  <2>5. v \div Power[k] = s * (Radix * Radix) + (x * Radix + y) BY <1>1, <1>4, <2>1, <2>3 DEF ByteBase
  <2>6. PICK h \in Nat : h = s * Radix + x
    <3>1. s * Radix + x \in Nat BY <1>5, <2>4
    <3> QED BY <3>1
  <2>7. \A r, a, b, c \in Nat : a * (r * r) + (b * r + c) = (a * r + b) * r + c OBVIOUS
  <2>8. v \div Power[k] = h * Radix + y BY <1>5, <2>4, <2>5, <2>6, <2>7
  <2>9. (v \div Power[k]) % Radix = y BY <1>5, <2>4, <2>8, DivideBack
  <2>10. v \div Power[k + 1] = (v \div Power[k]) \div Radix BY <1>4, NextByte
  <2>11. v \div Power[k + 1] = h BY <1>5, <2>4, <2>8, <2>10, DivideBack
  <2>12. h % Radix = x BY <1>5, <2>4, <2>6, DivideBack
  <2> QED BY <2>2, <2>3, <2>9, <2>11, <2>12
<1>7. ASSUME NEW i \in 1..(2 * n) PROVE (v \div Power[2 * n - i]) % Radix = p[i]
  <2>1. PICK j \in 1..n : i = 2 * j \/ i = 2 * j - 1
    <3>1. (i + 1) \div 2 \in 1..n /\ (i = 2 * ((i + 1) \div 2) \/ i = 2 * ((i + 1) \div 2) - 1) OBVIOUS
    <3> QED BY <3>1
  <2> QED BY <1>6, <2>1
<1>8. Digits(v, n) = p
  <2>1. p = [i \in 1..(2 * n) |-> p[i]] OBVIOUS
  <2>2. Digits(v, n) = [i \in 1..(2 * n) |-> (v \div Power[2 * n - i]) % Radix] BY DEF Digits
  <2> QED BY <1>7, <2>1, <2>2
<1> QED BY <1>3, <1>4, <1>8 DEF bytes

\* The low byte of a number, from its two nibbles.
LEMMA ByteOfNibbles ==
  ASSUME ScaleAssumption, NEW y \in Nat
  PROVE  /\ (y \div Radix) % Radix \in Nibble /\ y % Radix \in Nibble
         /\ y = (y \div ByteBase) * ByteBase + (((y \div Radix) % Radix) * Radix + (y % Radix))
<1>1. PICK r \in Nat \ {0} : r = Radix BY ScaleFacts
<1>2. PICK h \in Nat, l \in 0..(r - 1) : h = y \div r /\ l = y % r /\ h * r + l = y BY DivideFacts
<1>3. PICK g \in Nat, m \in 0..(r - 1) : g = h \div r /\ m = h % r /\ g * r + m = h BY DivideFacts
<1>4. y \div (r * r) = g BY <1>2, <1>3, DivideTwice
<1>5. \A a, b, c, d \in Nat : (a * d + b) * d + c = a * (d * d) + (b * d + c) OBVIOUS
<1>6. y = g * (r * r) + (m * r + l)
  <2>1. m \in Nat /\ l \in Nat /\ y = (g * r + m) * r + l BY <1>2, <1>3
  <2> QED BY ONLY <2>1, <1>5, g \in Nat, r \in Nat
<1> QED BY <1>1, <1>2, <1>3, <1>4, <1>6 DEF Nibble, ByteBase

\* What the digits of a number read as is the number.
LEMMA BytesOfDigits ==
  ASSUME ScaleAssumption, NEW x \in Nat, NEW n \in Nat, x < Power[2 * n]
  PROVE  /\ Digits(x, n) \in Seq(Nibble) /\ Len(Digits(x, n)) = 2 * n
         /\ BigEndian(BytesIn(Digits(x, n), n)) = x
         /\ n > 0 => ByteAt(Digits(x, n), 1) = x \div Power[2 * (n - 1)]
<1> DEFINE p == Digits(x, n)
           bytes == BytesIn(p, n)
<1>1. Radix \in Nat \ {0} /\ ByteBase \in Nat \ {0} BY ScaleFacts
<1>2. \A k \in Nat : Power[k] \in Nat \ {0} /\ x \div Power[k] \in Nat BY PowersGrow, DivideFacts
<1>3. p = [i \in 1..(2 * n) |-> (x \div Power[2 * n - i]) % Radix] BY DEF Digits
<1>4. p \in Seq(Nibble) /\ Len(p) = 2 * n
  <2>1. ASSUME NEW i \in 1..(2 * n) PROVE (x \div Power[2 * n - i]) % Radix \in Nibble
    <3>1. PICK y \in Nat : y = x \div Power[2 * n - i]
      <4>1. 2 * n - i \in Nat OBVIOUS
      <4> QED BY <1>2, <4>1
    <3> QED BY <3>1, ByteOfNibbles
  <2> HIDE DEF p
  <2> QED BY <1>3, <2>1
<1> HIDE DEF p
<1>5. bytes \in Seq(Nat) /\ Len(bytes) = n /\ \A j \in 1..n : bytes[j] = p[2 * j - 1] * Radix + p[2 * j]
  <2>1. Len(p) >= 2 * n BY <1>4
  <2> QED BY ONLY ScaleAssumption, n \in Nat, <1>4, <2>1, BytesInFacts DEF bytes
<1> HIDE DEF bytes
<1>6. ASSUME NEW j \in 1..n
      PROVE  /\ x \div Power[2 * (n - j)] = (x \div Power[2 * (n - (j - 1))]) * ByteBase + bytes[j]
             /\ bytes[j] = p[2 * j - 1] * Radix + p[2 * j]
  <2>1. PICK k \in Nat : k = 2 * (n - j)
    <3>1. 2 * (n - j) \in Nat OBVIOUS
    <3> QED BY <3>1
  <2>2. /\ 2 * n - 2 * j = k /\ 2 * n - (2 * j - 1) = k + 1 /\ 2 * (n - (j - 1)) = k + 2
        /\ 2 * j \in 1..(2 * n) /\ 2 * j - 1 \in 1..(2 * n)
    BY <2>1
  <2>3. PICK y \in Nat : y = x \div Power[k] BY <1>2
  <2>4. x \div Power[k + 1] = y \div Radix /\ x \div Power[k + 2] = y \div ByteBase BY <2>3, NextByte
  <2>5. p[2 * j] = y % Radix /\ p[2 * j - 1] = (y \div Radix) % Radix BY <1>3, <2>2, <2>3, <2>4
  <2>6. y = (y \div ByteBase) * ByteBase + (((y \div Radix) % Radix) * Radix + (y % Radix)) BY ByteOfNibbles
  <2>7. bytes[j] = p[2 * j - 1] * Radix + p[2 * j] BY <1>5
  <2>8. y = (y \div ByteBase) * ByteBase + bytes[j] BY ONLY <2>5, <2>6, <2>7
  <2> QED BY ONLY <2>1, <2>2, <2>3, <2>4, <2>7, <2>8
<1>7. x \div Power[2 * n] = 0
  <2>1. \A a, b \in Nat : a < b => a \div b = 0 OBVIOUS
  <2>2. 2 * n \in Nat OBVIOUS
  <2> QED BY <1>2, <2>1, <2>2
<1>8. PICK sum : Reads(bytes, sum) /\ BigEndian(bytes) = sum[Len(bytes)] BY <1>5, BigEndianReads
<1>9. \A j \in 0..n : sum[j] = x \div Power[2 * (n - j)]
  <2> DEFINE Bad == {j \in 0..n : sum[j] # x \div Power[2 * (n - j)]}
  <2> SUFFICES ASSUME Bad # {} PROVE FALSE OBVIOUS
  <2>1. PICK j \in Bad : \A l \in Bad : j <= l
    <3>1. Bad \in SUBSET Nat OBVIOUS
    <3> HIDE DEF Bad
    <3> QED BY <3>1, HasLeast
  <2>2. j \in 0..n /\ sum[j] # x \div Power[2 * (n - j)] OBVIOUS
  <2>3. j # 0
    <3>1. sum[0] = 0 /\ 2 * (n - 0) = 2 * n BY <1>8 DEF Reads
    <3> QED BY <1>7, <2>2, <3>1
  <2>4. j \in 1..n /\ j - 1 \in 0..n /\ ~(j <= j - 1) BY <2>2, <2>3
  <2>5. sum[j - 1] = x \div Power[2 * (n - (j - 1))] BY <2>1, <2>4
  <2>6. sum[j] = sum[j - 1] * ByteBase + bytes[j] BY <1>5, <1>8, <2>4 DEF Reads
  <2> QED BY <1>6, <2>2, <2>4, <2>5, <2>6
<1>10. BigEndian(bytes) = x
  <2>1. sum[n] = x \div Power[2 * (n - n)] BY <1>9
  <2>2. 2 * (n - n) = 0 /\ x \div 1 = x OBVIOUS
  <2> QED BY <1>5, <1>8, <2>1, <2>2, PowersGrow
<1>11. n > 0 => ByteAt(p, 1) = x \div Power[2 * (n - 1)]
  <2> SUFFICES ASSUME n > 0 PROVE ByteAt(p, 1) = x \div Power[2 * (n - 1)] OBVIOUS
  <2>1. 1 \in 1..n /\ 2 * (n - (1 - 1)) = 2 * n OBVIOUS
  <2>2. x \div Power[2 * (n - 1)] = 0 * ByteBase + bytes[1] /\ bytes[1] = p[2 * 1 - 1] * Radix + p[2 * 1]
    BY <1>6, <1>7, <2>1
  <2>3. bytes[1] \in Nat BY <1>5, <2>1
  <2> QED BY <1>1, <2>2, <2>3 DEF ByteAt
<1> QED BY <1>4, <1>10, <1>11 DEF bytes, p

\* One byte, as nibbles and back.
LEMMA OneByte ==
  ASSUME ScaleAssumption, NEW x \in 0..(ByteBase - 1)
  PROVE  Digits(x, 1) \in Seq(Nibble) /\ Len(Digits(x, 1)) = 2 /\ ByteAt(Digits(x, 1), 1) = x
<1>1. x \in Nat /\ x < Power[2 * 1] BY ScaleFacts, PowersGrow
<1>2. PICK n \in Nat : n = 1 /\ n > 0 /\ 2 * n = 2 /\ 2 * (n - 1) = 0 OBVIOUS
<1>3. x < Power[2 * n] BY <1>1, <1>2
<1>4. /\ Digits(x, n) \in Seq(Nibble) /\ Len(Digits(x, n)) = 2 * n
      /\ ByteAt(Digits(x, n), 1) = x \div Power[2 * (n - 1)]
  BY <1>1, <1>2, <1>3, BytesOfDigits
<1>5. x \div Power[2 * (n - 1)] = x
  <2>1. x \div 1 = x BY <1>1
  <2> QED BY <1>2, <2>1, PowersGrow
<1> QED BY <1>2, <1>4, <1>5

\* The digits of a byte of a path are its nibbles.
LEMMA NibblesOfByte ==
  ASSUME ScaleAssumption, NEW p \in Seq(Nibble), Len(p) >= 2
  PROVE  ByteAt(p, 1) \in 0..(ByteBase - 1) /\ Digits(ByteAt(p, 1), 1) = <<p[1], p[2]>>
<1>1. PICK q \in Seq(Nibble) : q = <<p[1], p[2]>>
  <2>1. p[1] \in Nibble /\ p[2] \in Nibble OBVIOUS
  <2>2. \A a, b \in Nibble : <<a, b>> \in Seq(Nibble) OBVIOUS
  <2> QED BY <2>1, <2>2
<1>2. Len(q) = 2 /\ q[1] = p[1] /\ q[2] = p[2] BY <1>1
<1>3. ByteAt(q, 1) = ByteAt(p, 1) BY <1>2 DEF ByteAt
<1>4. BytesIn(q, 1)[1] = ByteAt(q, 1) BY DEF BytesIn
<1>5. /\ BytesIn(q, 1) \in Seq(Nat) /\ Len(BytesIn(q, 1)) = 1 /\ BytesIn(q, 1)[1] \in 0..(ByteBase - 1)
      /\ Digits(BigEndian(BytesIn(q, 1)), 1) = q
  <2>1. PICK n \in Nat : n = 1 OBVIOUS
  <2>2. Len(q) >= 2 * n /\ Len(q) = 2 * n /\ 1 \in 1..n BY <1>2, <2>1
  <2>3. BytesIn(q, n) \in Seq(Nat) /\ Len(BytesIn(q, n)) = n /\ BytesIn(q, n)[1] \in 0..(ByteBase - 1)
    BY <2>2, BytesInFacts
  <2>4. Digits(BigEndian(BytesIn(q, n)), n) = q BY <2>2, DigitsOfBytes
  <2> QED BY <2>1, <2>3, <2>4
<1>7. PICK sum : Reads(BytesIn(q, 1), sum) /\ BigEndian(BytesIn(q, 1)) = sum[1] BY <1>5, BigEndianReads
<1>8. sum[1] = 0 * ByteBase + BytesIn(q, 1)[1]
  <2>1. 1 \in 1..Len(BytesIn(q, 1)) /\ 1 - 1 = 0 BY <1>5
  <2>2. sum[0] = 0 BY <1>7 DEF Reads
  <2>3. sum[1] = sum[1 - 1] * ByteBase + BytesIn(q, 1)[1] BY <1>7, <2>1 DEF Reads
  <2> QED BY <2>1, <2>2, <2>3
<1>9. BigEndian(BytesIn(q, 1)) = ByteAt(q, 1) BY <1>4, <1>5, <1>7, <1>8, ScaleFacts
<1> QED BY <1>1, <1>3, <1>4, <1>5, <1>9

-----------------------------------------------------------------------------
(***************************************************************************)
(* Keys.                                                                   *)
(***************************************************************************)
\* BytesOf is the one length a number has, and an index has one.
LEMMA BytesOfFacts ==
  ASSUME ScaleAssumption, NEW i \in Nat, i > 0
  PROVE  /\ i <= IndexMax =>
              BytesOf(i) \in 1..ValueBytes /\ Power[2 * (BytesOf(i) - 1)] <= i /\ i < Power[2 * BytesOf(i)]
         /\ \A b \in 1..ValueBytes :
              Power[2 * (b - 1)] <= i /\ i < Power[2 * b] => BytesOf(i) = b /\ i <= IndexMax
<1> DEFINE Fits(b) == Power[2 * (b - 1)] <= i /\ i < Power[2 * b]
<1>1. ValueBytes \in Nat /\ ValueBytes > 0 BY ScaleFacts
<1>2. \A n \in Nat : Power[n] \in Nat \ {0} BY PowersGrow
<1>3. \A m, n \in Nat : m <= n => Power[m] <= Power[n] BY PowersGrow
<1>4. Power[2 * ValueBytes] \in Nat \ {0} /\ IndexMax = Power[2 * ValueBytes] - 1
  <2>1. 2 * ValueBytes \in Nat BY <1>1
  <2> QED BY <1>2, <2>1 DEF IndexMax
<1>5. ASSUME i <= IndexMax PROVE \E b \in 1..ValueBytes : Fits(b)
  <2> DEFINE Above == {b \in Nat : i < Power[2 * b]}
  <2>1. ValueBytes \in Above BY <1>1, <1>4, <1>5
  <2>2. PICK b \in Above : \A l \in Above : b <= l
    <3>1. Above \in SUBSET Nat /\ Above # {} BY <2>1
    <3> HIDE DEF Above
    <3> QED BY <3>1, HasLeast
  <2>3. b \in Nat /\ i < Power[2 * b] /\ b <= ValueBytes BY <2>1, <2>2
  <2>4. b # 0
    <3>1. Power[2 * 0] = 1 BY PowersGrow
    <3> QED BY <2>3, <3>1
  <2>5. b - 1 \in Nat /\ ~(b <= b - 1) /\ 2 * (b - 1) \in Nat BY <2>3, <2>4
  <2>6. ~(i < Power[2 * (b - 1)]) BY <2>2, <2>5
  <2>7. Power[2 * (b - 1)] \in Nat BY <1>2, <2>5
  <2>8. b \in 1..ValueBytes BY <1>1, <2>3, <2>4
  <2> QED BY <2>3, <2>6, <2>7, <2>8
<1>6. ASSUME NEW b \in 1..ValueBytes, Fits(b), NEW c \in 1..ValueBytes, Fits(c) PROVE b = c
  <2>1. \A m, n \in 1..ValueBytes : Fits(m) /\ Fits(n) => ~(m < n)
    <3> SUFFICES ASSUME NEW m \in 1..ValueBytes, NEW n \in 1..ValueBytes, Fits(m), Fits(n), m < n
                 PROVE FALSE OBVIOUS
    <3>1. 2 * m \in Nat /\ 2 * (n - 1) \in Nat /\ 2 * m <= 2 * (n - 1) BY <1>1
    <3>2. Power[2 * m] <= Power[2 * (n - 1)] BY <1>3, <3>1
    <3>3. Power[2 * m] \in Nat /\ Power[2 * (n - 1)] \in Nat BY <1>2, <3>1
    <3> QED BY <3>2, <3>3
  <2>2. ~(b < c) /\ ~(c < b) BY <1>6, <2>1
  <2> QED BY <1>1, <2>2
<1>7. ASSUME NEW b \in 1..ValueBytes, Fits(b) PROVE BytesOf(i) = b /\ i <= IndexMax
  <2>1. \A c \in 1..ValueBytes : Fits(c) => c = b BY <1>6, <1>7
  <2>2. BytesOf(i) = CHOOSE c \in 1..ValueBytes : Fits(c) BY DEF BytesOf
  <2>3. BytesOf(i) = b BY <1>7, <2>1, <2>2
  <2>4. 2 * b \in Nat /\ 2 * ValueBytes \in Nat /\ 2 * b <= 2 * ValueBytes BY <1>1
  <2>5. Power[2 * b] <= Power[2 * ValueBytes] /\ Power[2 * b] \in Nat BY <1>2, <1>3, <2>4
  <2>6. i < Power[2 * b] BY <1>7
  <2> QED BY <1>4, <2>3, <2>5, <2>6
<1>8. i <= IndexMax => BytesOf(i) \in 1..ValueBytes /\ Fits(BytesOf(i))
  <2> SUFFICES ASSUME i <= IndexMax PROVE BytesOf(i) \in 1..ValueBytes /\ Fits(BytesOf(i)) OBVIOUS
  <2>1. PICK b \in 1..ValueBytes : Fits(b) BY <1>5
  <2>2. BytesOf(i) = b BY <1>7, <2>1
  <2> QED BY <2>1, <2>2
<1> QED BY <1>7, <1>8

\* An index holds one byte at least.
LEMMA IndexMaxFacts ==
  ASSUME ScaleAssumption
  PROVE  IndexMax \in Nat /\ ByteBase <= IndexMax + 1
<1>1. ValueBytes \in Nat /\ ValueBytes > 0 BY ScaleFacts
<1>2. 2 * ValueBytes \in Nat /\ 2 <= 2 * ValueBytes BY <1>1
<1>3. Power[2 * ValueBytes] \in Nat \ {0} /\ Power[2] <= Power[2 * ValueBytes] BY <1>2, PowersGrow
<1> QED BY <1>3, PowersGrow, ScaleFacts DEF IndexMax

\* The digits of a length, and of the number behind it.
LEMMA Prefixed ==
  ASSUME ScaleAssumption, NEW x \in 0..(ByteBase - 1), NEW q \in Seq(Nibble), NEW n \in Nat, Len(q) = 2 * n
  PROVE  \E p \in Seq(Nibble) :
           /\ p = Digits(x, 1) \o q /\ Len(p) = 2 + 2 * n /\ p # <<>>
           /\ ByteAt(p, 1) = x /\ \A j \in 1..n : ByteAt(p, j + 1) = ByteAt(q, j)
<1> DEFINE d == Digits(x, 1)
           p == d \o q
<1>1. d \in Seq(Nibble) /\ Len(d) = 2 /\ ByteAt(d, 1) = x BY OneByte
<1> HIDE DEF d
<1>2. /\ p \in Seq(Nibble) /\ Len(p) = 2 + 2 * n
      /\ \A i \in 1..(2 + 2 * n) : p[i] = IF i <= 2 THEN d[i] ELSE q[i - 2]
  <2>1. /\ p \in Seq(Nibble) /\ Len(p) = Len(d) + Len(q)
        /\ \A i \in 1..(Len(d) + Len(q)) : p[i] = IF i <= Len(d) THEN d[i] ELSE q[i - Len(d)]
    BY <1>1, ConcatProperties
  <2> HIDE DEF p
  <2> QED BY <1>1, <2>1
<1> HIDE DEF p
<1>3. p[1] = d[1] /\ p[2] = d[2]
  <2>1. 1 \in 1..(2 + 2 * n) /\ 2 \in 1..(2 + 2 * n) OBVIOUS
  <2> QED BY <1>2, <2>1
<1>4. ByteAt(p, 1) = x BY <1>1, <1>3 DEF ByteAt
<1>5. ASSUME NEW j \in 1..n PROVE ByteAt(p, j + 1) = ByteAt(q, j)
  <2>1. /\ 2 * (j + 1) - 1 \in 1..(2 + 2 * n) /\ 2 * (j + 1) \in 1..(2 + 2 * n)
        /\ (2 * (j + 1) - 1) - 2 = 2 * j - 1 /\ 2 * (j + 1) - 2 = 2 * j
        /\ ~(2 * (j + 1) - 1 <= 2) /\ ~(2 * (j + 1) <= 2)
    OBVIOUS
  <2>2. p[2 * (j + 1) - 1] = q[2 * j - 1] /\ p[2 * (j + 1)] = q[2 * j] BY <1>2, <2>1
  <2> QED BY <2>2 DEF ByteAt
<1>6. p # <<>>
  <2>1. \A t \in Seq(Nibble) : t = <<>> => Len(t) = 0 OBVIOUS
  <2> QED BY <1>2, <2>1
<1>7. p = d \o q BY DEF p
<1> QED BY <1>2, <1>4, <1>5, <1>6, <1>7 DEF d

\* The payload of a path with a length byte, and of a single byte.
LEMMA PayloadBehind ==
  ASSUME NEW p, NEW q, NEW n \in Nat, Len(p) = 2 + 2 * n,
         \A j \in 1..n : ByteAt(p, j + 1) = ByteAt(q, j),
         n = 0 => ~(ByteAt(p, 1) < Half)
  PROVE  Payload(p) = BytesIn(q, n)
<1>1. Len(p) \div 2 = n + 1 /\ (n + 1) - 1 = n OBVIOUS
<1>2. Payload(p) = [j \in 1..n |-> ByteAt(p, j + 1)] BY <1>1 DEF Payload
<1> QED BY <1>2 DEF BytesIn

\* A byte below Half is its own payload.
LEMMA ShortPayload ==
  ASSUME NEW p, Len(p) = 2, ByteAt(p, 1) < Half
  PROVE  Payload(p) = <<ByteAt(p, 1)>> /\ Payload(p) = BytesIn(p, 1)
<1>1. Len(p) \div 2 = 1 OBVIOUS
<1>2. Payload(p) = <<ByteAt(p, 1)>> BY <1>1 DEF Payload
<1>3. \A x : <<x>> = [j \in 1..1 |-> x] OBVIOUS
<1>4. BytesIn(p, 1) = [j \in 1..1 |-> ByteAt(p, 1)] BY DEF BytesIn
<1> QED BY <1>2, <1>3, <1>4

\* receipt_key gives each index a key that reads as a minimal string, of that index.
LEMMA KeysAreKeys ==
  ASSUME ScaleAssumption, NEW i \in 0..IndexMax
  PROVE  /\ KeyOf(i) \in Seq(Nibble) /\ Len(KeyOf(i)) <= KeyWidth
         /\ IsString(KeyOf(i)) /\ Minimal(Payload(KeyOf(i)))
         /\ BigEndian(Payload(KeyOf(i))) = i
<1>1. i \in Nat /\ i <= IndexMax BY IndexMaxFacts
<1>2. /\ Half \in Nat /\ Half >= 2 /\ Half + ValueBytes < ByteBase /\ ByteBase \in Nat
      /\ ValueBytes \in Nat /\ ValueBytes > 0
  BY ScaleFacts
<1>3. KeyWidth \in Nat /\ KeyWidth >= 4 /\ KeyWidth = 2 + 2 * ValueBytes BY <1>2 DEF KeyWidth
<1>4. CASE i = 0
  <2>1. Half \in 0..(ByteBase - 1) BY <1>2
  <2>2. PICK p : p = Digits(Half, 1) /\ p = KeyOf(i) BY <1>4 DEF KeyOf
  <2>3. p \in Seq(Nibble) /\ Len(p) = 2 /\ ByteAt(p, 1) = Half BY <2>1, <2>2, OneByte
  <2>4. p # <<>> /\ Len(p) % 2 = 0 /\ Len(p) \div 2 = 1
    <3>1. \A t \in Seq(Nibble) : t = <<>> => Len(t) = 0 OBVIOUS
    <3> QED BY <2>3, <3>1
  <2>5. IsString(p) BY <1>2, <2>3, <2>4 DEF IsString
  <2>6. PICK q \in Seq(Nibble), n \in Nat : q = <<>> /\ n = 0 /\ Len(q) = 2 * n /\ 2 * n = 0
    <3>1. <<>> \in Seq(Nibble) /\ Len(<<>>) = 2 * 0 OBVIOUS
    <3> QED BY <3>1
  <2>7. Payload(p) = BytesIn(q, n)
    <3>1. Len(p) = 2 + 2 * n /\ ~(ByteAt(p, 1) < Half) BY <1>2, <2>3, <2>6
    <3>2. \A j \in 1..n : ByteAt(p, j + 1) = ByteAt(q, j) BY <2>6
    <3> QED BY <3>1, <3>2, PayloadBehind
  <2>8. BytesIn(q, n) = <<>> BY <2>6 DEF BytesIn
  <2>9. BigEndian(BytesIn(q, n)) = 0
    <3>1. BigEndian(BytesIn(q, n)) \in Nat /\ BigEndian(BytesIn(q, n)) < Power[2 * n]
      BY <2>6, DigitsOfBytes
    <3>2. Power[2 * n] = 1 BY <2>6, PowersGrow
    <3> QED BY <3>1, <3>2
  <2>10. Minimal(Payload(p)) BY <2>7, <2>8 DEF Minimal
  <2>11. Len(p) <= KeyWidth BY <1>3, <2>3
  <2>12. BigEndian(Payload(p)) = i BY ONLY <1>4, <2>7, <2>9
  <2> QED BY ONLY <2>2, <2>3, <2>5, <2>10, <2>11, <2>12
<1>5. CASE i # 0 /\ i < Half
  <2>1. i \in 0..(ByteBase - 1) BY <1>1, <1>2, <1>5
  <2>2. PICK p : p = Digits(i, 1) /\ p = KeyOf(i) BY <1>5 DEF KeyOf
  <2>3. p \in Seq(Nibble) /\ Len(p) = 2 /\ ByteAt(p, 1) = i BY <2>1, <2>2, OneByte
  <2>4. p # <<>> /\ Len(p) % 2 = 0 /\ Len(p) \div 2 = 1
    <3>1. \A t \in Seq(Nibble) : t = <<>> => Len(t) = 0 OBVIOUS
    <3> QED BY <2>3, <3>1
  <2>5. IsString(p) BY <1>5, <2>3, <2>4 DEF IsString
  <2>6. Payload(p) = <<i>> /\ Payload(p) = BytesIn(p, 1) BY <1>5, <2>3, ShortPayload
  <2>7. Minimal(Payload(p)) BY <1>5, <2>6 DEF Minimal
  <2>8. BigEndian(BytesIn(p, 1)) = i
    <3>1. PICK n \in Nat : n = 1 /\ 2 * n = 2 OBVIOUS
    <3>2. i < Power[2 * n] BY <2>1, <1>2, <3>1, PowersGrow
    <3>3. BigEndian(BytesIn(Digits(i, n), n)) = i BY <1>1, <3>2, BytesOfDigits
    <3> QED BY <2>2, <3>1, <3>3
  <2> QED BY <1>3, <2>2, <2>3, <2>5, <2>6, <2>7, <2>8
<1>6. CASE ~(i < Half)
  <2>1. i > 0 BY <1>1, <1>2, <1>6
  <2>2. PICK b \in 1..ValueBytes : b = BytesOf(i) /\ Power[2 * (b - 1)] <= i /\ i < Power[2 * b]
    BY <1>1, <2>1, BytesOfFacts
  <2>3. b \in Nat /\ b > 0 /\ Half + b \in 0..(ByteBase - 1) BY <1>2, <2>2
  <2>4. PICK q : q = Digits(i, b) OBVIOUS
  <2>5. /\ q \in Seq(Nibble) /\ Len(q) = 2 * b /\ BigEndian(BytesIn(q, b)) = i
        /\ ByteAt(q, 1) = i \div Power[2 * (b - 1)]
    BY <1>1, <2>2, <2>3, <2>4, BytesOfDigits
  <2>6. PICK x \in 0..(ByteBase - 1) : x = Half + b BY <2>3
  <2>6a. PICK p \in Seq(Nibble) :
           /\ p = Digits(x, 1) \o q /\ Len(p) = 2 + 2 * b /\ p # <<>>
           /\ ByteAt(p, 1) = x /\ \A j \in 1..b : ByteAt(p, j + 1) = ByteAt(q, j)
    BY ONLY ScaleAssumption, <2>3, <2>5, <2>6, Prefixed
  <2>7. KeyOf(i) = p BY <1>6, <2>1, <2>2, <2>4, <2>6, <2>6a DEF KeyOf
  <2>8. /\ p \in Seq(Nibble) /\ Len(p) = 2 + 2 * b /\ p # <<>>
        /\ ByteAt(p, 1) = Half + b /\ \A j \in 1..b : ByteAt(p, j + 1) = ByteAt(q, j)
    BY <2>6, <2>6a
  <2>9. Len(p) % 2 = 0 /\ Len(p) \div 2 = b + 1 BY <2>3, <2>8
  <2>10. b = 1 => ByteAt(p, 2) >= Half
    <3> SUFFICES ASSUME b = 1 PROVE ByteAt(p, 2) >= Half OBVIOUS
    <3>1. ByteAt(p, 1 + 1) = ByteAt(q, 1) BY <2>8
    <3>2. Power[2 * (b - 1)] = 1 /\ i \div 1 = i
      <4>1. 2 * (b - 1) = 0 OBVIOUS
      <4> QED BY <1>1, <4>1, PowersGrow
    <3> QED BY <1>1, <1>2, <1>6, <2>5, <3>1, <3>2
  <2>11. IsString(p)
    <3>1. b + 1 = 2 => ByteAt(p, 2) >= Half BY <2>3, <2>10
    <3>2. ByteAt(p, 1) = Half + ((b + 1) - 1) BY <1>2, <2>3, <2>8
    <3> QED BY <2>8, <2>9, <3>1, <3>2 DEF IsString
  <2>12. Payload(p) = BytesIn(q, b)
    <3>1. b = 0 => ~(ByteAt(p, 1) < Half) BY <2>3
    <3> QED BY <2>3, <2>8, <3>1, PayloadBehind
  <2>13. Minimal(Payload(p))
    <3>1. 1 \in 1..b BY <2>3
    <3>2. BytesIn(q, b)[1] = ByteAt(q, 1) BY <3>1 DEF BytesIn
    <3>3. PICK P \in Nat \ {0} : P = Power[2 * (b - 1)]
      <4>1. 2 * (b - 1) \in Nat BY <2>3
      <4> QED BY <4>1, PowersGrow
    <3>4. i \div P # 0
      <4>1. P <= i BY <2>2, <3>3
      <4>2. \A y, z \in Nat : y > 0 /\ y <= z => z \div y # 0 OBVIOUS
      <4> QED BY <1>1, <4>1, <4>2
    <3> QED BY <2>5, <2>12, <3>2, <3>3, <3>4 DEF Minimal
  <2>14. Len(p) <= KeyWidth BY <1>2, <1>3, <2>2, <2>8
  <2> QED BY <2>5, <2>7, <2>8, <2>11, <2>12, <2>13, <2>14
<1> QED BY <1>4, <1>5, <1>6


\* A path without its first byte.
LEMMA Behind ==
  ASSUME ScaleAssumption, NEW p \in Seq(Nibble), NEW n \in Nat, Len(p) = 2 + 2 * n
  PROVE  \E q \in Seq(Nibble) :
           /\ Len(q) = 2 * n /\ p = Digits(ByteAt(p, 1), 1) \o q
           /\ \A j \in 1..n : ByteAt(p, j + 1) = ByteAt(q, j)
<1> DEFINE q == [i \in 1..(2 * n) |-> p[i + 2]]
           d == <<p[1], p[2]>>
<1>1. \A i \in 1..(2 + 2 * n) : p[i] \in Nibble BY ElementOfSeq
<1>2. q \in Seq(Nibble) /\ Len(q) = 2 * n
  <2>1. 2 * n \in Nat /\ \A i \in 1..(2 * n) : i + 2 \in 1..(2 + 2 * n) OBVIOUS
  <2>2. \A i \in 1..(2 * n) : p[i + 2] \in Nibble BY <1>1, <2>1
  <2> QED BY <2>1, <2>2
<1>3. d \in Seq(Nibble) /\ Len(d) = 2 /\ d[1] = p[1] /\ d[2] = p[2]
  <2>1. p[1] \in Nibble /\ p[2] \in Nibble BY <1>1
  <2> QED BY <2>1
<1>4. Digits(ByteAt(p, 1), 1) = d
  <2>1. Len(p) >= 2 OBVIOUS
  <2> QED BY <2>1, NibblesOfByte
<1>5. \A i \in 1..(2 * n) : q[i] = p[i + 2] OBVIOUS
<1> HIDE DEF d, q
<1>6. p = d \o q
  <2> DEFINE r == d \o q
  <2>1. /\ r \in Seq(Nibble) /\ Len(r) = 2 + 2 * n
        /\ \A i \in 1..(2 + 2 * n) : r[i] = IF i <= 2 THEN d[i] ELSE q[i - 2]
    <3>1. /\ r \in Seq(Nibble) /\ Len(r) = Len(d) + Len(q)
          /\ \A i \in 1..(Len(d) + Len(q)) : r[i] = IF i <= Len(d) THEN d[i] ELSE q[i - Len(d)]
      BY <1>2, <1>3, ConcatProperties
    <3> HIDE DEF r
    <3> QED BY <1>2, <1>3, <3>1
  <2> HIDE DEF r
  <2>2. ASSUME NEW i \in 1..(2 + 2 * n) PROVE r[i] = p[i]
    <3>1. CASE i = 1 BY <1>3, <2>1, <3>1
    <3>2. CASE i = 2 BY <1>3, <2>1, <3>2
    <3>3. CASE i > 2
      <4>1. i - 2 \in 1..(2 * n) /\ (i - 2) + 2 = i /\ ~(i <= 2) BY <3>3
      <4> QED BY <1>5, <2>1, <4>1
    <3> QED BY <3>1, <3>2, <3>3
  <2>3. p = r BY <2>1, <2>2, SeqEqual
  <2> QED BY <2>3 DEF r
<1>7. ASSUME NEW j \in 1..n PROVE ByteAt(p, j + 1) = ByteAt(q, j)
  <2>1. /\ 2 * j - 1 \in 1..(2 * n) /\ 2 * j \in 1..(2 * n)
        /\ 2 * (j + 1) - 1 = (2 * j - 1) + 2 /\ 2 * (j + 1) = 2 * j + 2
    OBVIOUS
  <2>2. q[2 * j - 1] = p[2 * (j + 1) - 1] /\ q[2 * j] = p[2 * (j + 1)] BY <1>5, <2>1
  <2> QED BY <2>2 DEF ByteAt
<1> QED BY <1>2, <1>4, <1>6, <1>7


\* A minimal string that fits in a KeyPath is the key of the index it reads as.
LEMMA StringsAreKeys ==
  ASSUME ScaleAssumption, NEW p \in Seq(Nibble), Len(p) <= KeyWidth,
         IsString(p), Minimal(Payload(p))
  PROVE  BigEndian(Payload(p)) \in 0..IndexMax /\ KeyOf(BigEndian(Payload(p))) = p
<1>1. /\ Half \in Nat /\ Half >= 2 /\ 2 * Half <= ByteBase /\ Half + ValueBytes < ByteBase
      /\ ByteBase \in Nat /\ ValueBytes \in Nat /\ ValueBytes > 0
  BY ScaleFacts
<1>2. PICK m \in Nat : m \in 0..ValueBytes /\ Len(p) = 2 + 2 * m /\ Len(p) \div 2 = m + 1
  <2>1. Len(p) \in Nat /\ Len(p) # 0 /\ Len(p) % 2 = 0
    <3>1. p # <<>> /\ Len(p) % 2 = 0 BY DEF IsString
    <3>2. Len(p) \in Nat /\ (Len(p) = 0 => p = <<>>) BY EmptySeq
    <3> QED BY <3>1, <3>2
  <2>2. Len(p) <= 2 + 2 * ValueBytes BY <1>1 DEF KeyWidth
  <2>3. PICK l \in Nat : l = Len(p) BY <2>1
  <2>4. l # 0 /\ l % 2 = 0 /\ l <= 2 + 2 * ValueBytes BY <2>1, <2>2, <2>3
  <2>5. (l \div 2) - 1 \in Nat /\ (l \div 2) - 1 \in 0..ValueBytes /\ l = 2 + 2 * ((l \div 2) - 1) BY <1>1, <2>4
  <2> QED BY <2>3, <2>5
<1>3. PICK x \in 0..(ByteBase - 1) : x = ByteAt(p, 1) BY <1>2, NibblesOfByte
<1>4. ASSUME m = 0 PROVE p = Digits(x, 1)
  <2>1. Len(p) = 2 BY <1>2, <1>4
  <2>2. Digits(x, 1) = <<p[1], p[2]>>
    <3>1. Len(p) >= 2 BY <2>1
    <3> QED BY <1>3, <3>1, NibblesOfByte
  <2>3. p = <<p[1], p[2]>> BY <2>1
  <2> QED BY <2>2, <2>3
<1>5. IndexMax \in Nat /\ ByteBase <= IndexMax + 1 BY IndexMaxFacts
<1>6. CASE m = 0 /\ x < Half
  <2>1. Payload(p) = <<x>> /\ Payload(p) = BytesIn(p, 1)
    <3>1. Len(p) = 2 BY <1>2, <1>6
    <3> QED BY <1>3, <1>6, <3>1, ShortPayload
  <2>2. x # 0 BY <2>1 DEF Minimal
  <2>3. BigEndian(BytesIn(p, 1)) = x
    <3>1. PICK n \in Nat : n = 1 /\ 2 * n = 2 OBVIOUS
    <3>2. x \in Nat /\ x < Power[2 * n] BY <1>1, <3>1, PowersGrow
    <3>3. BigEndian(BytesIn(Digits(x, n), n)) = x BY <3>2, BytesOfDigits
    <3> QED BY <1>4, <1>6, <3>1, <3>3
  <2>4. KeyOf(x) = p BY <1>4, <1>6, <2>2 DEF KeyOf
  <2>5. x \in 0..IndexMax BY <1>1, <1>5
  <2> QED BY <2>1, <2>3, <2>4, <2>5
<1>7. CASE ~(m = 0 /\ x < Half)
  <2>1. x = Half + m /\ (m = 1 => ByteAt(p, 2) >= Half)
    <3>1. \/ m + 1 = 1 /\ x < Half
          \/ x = Half + ((m + 1) - 1) /\ (m + 1 = 2 => ByteAt(p, 2) >= Half)
      BY <1>2, <1>3 DEF IsString
    <3> QED BY <1>1, <1>7, <3>1
  <2>2. PICK q \in Seq(Nibble) :
          /\ Len(q) = 2 * m /\ p = Digits(x, 1) \o q
          /\ \A j \in 1..m : ByteAt(p, j + 1) = ByteAt(q, j)
    BY ONLY ScaleAssumption, <1>2, <1>3, Behind
  <2>3. Payload(p) = BytesIn(q, m)
    <3>1. m = 0 => ~(ByteAt(p, 1) < Half) BY <1>3, <1>7
    <3> QED BY ONLY <1>2, <2>2, <3>1, PayloadBehind
  <2>4. PICK v \in Nat :
          /\ v = BigEndian(BytesIn(q, m)) /\ v < Power[2 * m] /\ Digits(v, m) = q
          /\ m > 0 /\ BytesIn(q, m)[1] # 0 => v >= Power[2 * (m - 1)]
    <3>1. m \in Nat BY <1>1
    <3> QED BY <2>2, <3>1, DigitsOfBytes
  <2>5. CASE m = 0
    <3>1. v = 0
      <4>1. 2 * m = 0 BY <2>5
      <4>2. Power[0] = 1 BY PowersGrow
      <4>3. v < 1 BY ONLY <2>4, <4>1, <4>2
      <4> QED BY <4>3
    <3>2. p = Digits(Half, 1) BY <1>1, <1>4, <2>1, <2>5
    <3>3. KeyOf(v) = p BY <3>1, <3>2 DEF KeyOf
    <3>4. v \in 0..IndexMax BY <1>5, <3>1
    <3> QED BY <2>3, <2>4, <3>3, <3>4
  <2>6. CASE m # 0
    <3>1. m \in 1..ValueBytes /\ m \in Nat BY <1>1, <1>2, <2>6
    <3>2. BytesIn(q, m)[1] # 0
      <4>1. Len(BytesIn(q, m)) = m BY <2>2, <3>1, BytesInFacts
      <4>2. BytesIn(q, m) # <<>> BY <3>1, <4>1
      <4> QED BY <2>3, <4>2 DEF Minimal
    <3>3. v >= Power[2 * (m - 1)] BY <2>4, <3>1, <3>2
    <3>4. PICK P \in Nat \ {0} : P = Power[2 * (m - 1)]
      <4>1. 2 * (m - 1) \in Nat BY <3>1
      <4> QED BY <4>1, PowersGrow
    <3>5. v > 0 BY <3>3, <3>4
    <3>6. BytesOf(v) = m /\ v <= IndexMax BY <2>4, <3>1, <3>3, <3>5, BytesOfFacts
    <3>7. v >= Half
      <4>1. CASE m = 1
        <5>1. v < ByteBase
          <6>1. 2 * m = 2 BY <4>1
          <6> QED BY <2>4, <6>1, PowersGrow
        <5>2. v \in 0..(ByteBase - 1) BY <1>1, <5>1
        <5>3. ByteAt(Digits(v, 1), 1) = v BY <5>2, OneByte
        <5>4. ByteAt(q, 1) = v BY <2>4, <4>1, <5>3
        <5>5. ByteAt(p, 2) = ByteAt(q, 1)
          <6>1. 1 \in 1..m /\ 1 + 1 = 2 BY <4>1
          <6> QED BY <2>2, <6>1
        <5> QED BY <2>1, <4>1, <5>4, <5>5
      <4>2. CASE m # 1
        <5>1. 2 \in Nat /\ 2 * (m - 1) \in Nat /\ 2 <= 2 * (m - 1) BY <3>1, <4>2
        <5>2. Power[2] = ByteBase /\ Power[2] <= Power[2 * (m - 1)] BY <5>1, PowersGrow
        <5> QED BY <1>1, <3>3, <3>4, <5>2
      <4> QED BY <4>1, <4>2
    <3>8. KeyOf(v) = Digits(Half + m, 1) \o q
      <4>1. ~(v = 0) /\ ~(v < Half) BY <1>1, <3>5, <3>7
      <4> QED BY <2>4, <3>6, <4>1 DEF KeyOf
    <3>9. KeyOf(v) = p BY <2>1, <2>2, <3>8
    <3>10. v \in 0..IndexMax BY <1>5, <3>6
    <3> QED BY <2>3, <2>4, <3>9, <3>10
  <2> QED BY <2>5, <2>6
<1> QED BY <1>6, <1>7


\* The keys the walk is given meet what it assumes of them (KeyAssumption): they are
\* paths, none longer than a KeyPath holds, and no two indices share one.
THEOREM KeysMeetAssumption ==
  ASSUME ScaleAssumption
  PROVE  /\ KeyTable \in [0..IndexMax -> Seq(Nibble)]
         /\ \A i \in 0..IndexMax : Len(KeyTable[i]) <= KeyWidth
         /\ \A i, j \in 0..IndexMax : KeyTable[i] = KeyTable[j] => i = j
<1>1. ASSUME NEW i \in 0..IndexMax
      PROVE  KeyTable[i] = KeyOf(i) /\ KeyOf(i) \in Seq(Nibble) /\ Len(KeyTable[i]) <= KeyWidth
  BY KeysAreKeys DEF KeyTable
<1>2. ASSUME NEW i \in 0..IndexMax, NEW j \in 0..IndexMax, KeyTable[i] = KeyTable[j]
      PROVE  i = j
  <2>1. BigEndian(Payload(KeyOf(i))) = i BY KeysAreKeys
  <2>2. BigEndian(Payload(KeyOf(j))) = j BY KeysAreKeys
  <2>3. KeyOf(i) = KeyOf(j) BY <1>1, <1>2
  <2> QED BY <2>1, <2>2, <2>3
<1>3. KeyTable \in [0..IndexMax -> Seq(Nibble)]
  <2>1. \A i \in 0..IndexMax : KeyOf(i) \in Seq(Nibble) BY <1>1
  <2> QED BY <2>1 DEF KeyTable
<1> QED BY <1>1, <1>2, <1>3

\* What KeyPath keeps: its nibbles, within its width, and what it read of them.
KeyInv ==
  /\ keyPath \in Seq(Nibble) /\ Len(keyPath) <= KeyWidth
  /\ ReadsExactlyTheKeys

\* A step of KeyPath preserves the invariant.
LEMMA KeyStep == ASSUME ScaleAssumption, KeyInv, [KeyNext]_keyVars PROVE KeyInv'
<1>1. KeyWidth \in Nat BY ScaleFacts DEF KeyWidth
<1>2. IndexMax \in Nat BY IndexMaxFacts
<1>3. ASSUME NEW c \in 0..(Radix - 1), PushNibble(c) PROVE KeyInv'
  <2>1. keyPath' \in Seq(Nibble) /\ Len(keyPath') = Len(keyPath) + 1
    BY <1>3 DEF KeyInv, PushNibble, Nibble
  <2>2. Len(keyPath') <= KeyWidth BY <1>1, <1>3, <2>1 DEF KeyInv, PushNibble
  <2>3. keyRead' = -1 BY <1>3 DEF PushNibble, Unread
  <2>4. ReadsExactlyTheKeys' BY <2>3 DEF ReadsExactlyTheKeys, NoKey, Unsupported
  <2> QED BY <2>1, <2>2, <2>4 DEF KeyInv
<1>4. ASSUME TooWide PROVE KeyInv'
  <2>1. keyRead' = -2 /\ keyPath' = keyPath /\ Len(keyPath) = KeyWidth
    BY <1>4 DEF TooWide, Unsupported
  <2>2. \A i \in 0..IndexMax : Len(KeyTable[i]) <= Len(keyPath) BY <2>1, KeysMeetAssumption
  <2>3. ReadsExactlyTheKeys' BY <2>1, <2>2 DEF ReadsExactlyTheKeys, NoKey, Unsupported
  <2> QED BY <2>1, <2>3 DEF KeyInv
<1>5. ASSUME ReadKey PROVE KeyInv'
  <2>1. /\ keyPath' = keyPath /\ keyPath \in Seq(Nibble) /\ Len(keyPath) <= KeyWidth
        /\ keyRead' = IF IsString(keyPath) /\ Minimal(Payload(keyPath))
                      THEN BigEndian(Payload(keyPath)) ELSE -3
    BY <1>5 DEF ReadKey, NoKey, KeyInv
  <2>2. CASE IsString(keyPath) /\ Minimal(Payload(keyPath))
    <3>1. PICK v : v = BigEndian(Payload(keyPath)) OBVIOUS
    <3>2. v \in 0..IndexMax /\ KeyOf(v) = keyPath BY ONLY ScaleAssumption, <2>1, <2>2, <3>1, StringsAreKeys
    <3>3. KeyTable[v] = keyPath BY <3>2 DEF KeyTable
    <3>4. keyRead' = v BY <2>1, <2>2, <3>1
    <3>5. ReadsExactlyTheKeys'
      BY <1>2, <2>1, <3>2, <3>3, <3>4 DEF ReadsExactlyTheKeys, NoKey, Unsupported
    <3> QED BY <2>1, <3>5 DEF KeyInv
  <2>3. CASE ~(IsString(keyPath) /\ Minimal(Payload(keyPath)))
    <3>1. keyRead' = -3 BY <2>1, <2>3
    <3>2. ASSUME NEW i \in 0..IndexMax PROVE KeyTable[i] # keyPath
      <4>1. IsString(KeyOf(i)) /\ Minimal(Payload(KeyOf(i))) BY KeysAreKeys
      <4>2. KeyTable[i] = KeyOf(i) BY DEF KeyTable
      <4> QED BY <2>3, <4>1, <4>2
    <3>3. ReadsExactlyTheKeys'
      BY <2>1, <3>1, <3>2 DEF ReadsExactlyTheKeys, NoKey, Unsupported
    <3> QED BY <2>1, <3>3 DEF KeyInv
  <2> QED BY <2>2, <2>3
<1>6. ASSUME UNCHANGED keyVars PROVE KeyInv'
  BY <1>6 DEF keyVars, KeyInv, ReadsExactlyTheKeys
<1> QED BY <1>3, <1>4, <1>5, <1>6 DEF KeyNext

\* KeyPath: what index() reads from the nibbles pushed is the index whose canonical key
\* they are; what it refuses, and what is too wide to push, is no key.
THEOREM KeysAreReadBack ==
  ASSUME ScaleAssumption PROVE KeySpec => []ReadsExactlyTheKeys
<1>1. KeyInit => KeyInv
  <2> SUFFICES ASSUME KeyInit PROVE KeyInv OBVIOUS
  <2>1. keyPath = <<>> /\ keyRead = -1 BY DEF KeyInit, Unread
  <2>2. ReadsExactlyTheKeys BY <2>1 DEF ReadsExactlyTheKeys, NoKey, Unsupported
  <2>3. KeyWidth \in Nat BY ScaleFacts DEF KeyWidth
  <2>4. keyPath \in Seq(Nibble) /\ Len(keyPath) = 0 BY <2>1
  <2> QED BY <2>2, <2>3, <2>4 DEF KeyInv
<1>2. KeyInv /\ [KeyNext]_keyVars => KeyInv' BY KeyStep
<1>3. KeyInv => ReadsExactlyTheKeys BY DEF KeyInv
<1> QED BY <1>1, <1>2, <1>3, PTL DEF KeySpec
=============================================================================
