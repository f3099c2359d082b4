------------------------- MODULE ChunkCapture_proofs -------------------------
(***************************************************************************)
(* Proofs about ChunkCapture: for every chain, context, node and number of *)
(* captures that run at once.                                              *)
(*                                                                         *)
(* While a capture runs its frames are those of a path of linked blocks    *)
(* from the context's parent to the height reached; the path of an honest  *)
(* node is the segment it follows.  The destination is only ever changed   *)
(* by a rename of a file that holds all the frames.                        *)
(***************************************************************************)
EXTENDS ChunkCapture, FiniteSetTheorems, SequenceTheorems, WellFoundedInduction, TLAPS

Frame == [kind : {"context"}, context : Context]
           \cup [kind : {"block"}, header : Block, complete : BOOLEAN]

Underway == {"block", "receipts", "captured", "writing", "written"}

\* The type invariant: a name of the disk holds frames, or what it held at the start.
TypeOK ==
  /\ phase \in [Process -> {"start", "refused", "failed", "killed"} \cup Underway]
  /\ context \in [Process -> Requested]
  /\ DOMAIN chain = Process
  /\ \A p \in Process : chain[p] \subseteq Segments(context[p]) /\ \A s, t \in chain[p] : s = t
  /\ height \in [Process -> Nat]
  /\ parent \in [Process -> Hash] /\ block \in [Process -> Hash]
  /\ frames \in [Process -> Seq(Frame)]
  /\ file \in [Process \cup {Out} -> Seq(Frame) \cup {OldFile, Absent}]

ContextFrame(x) == [kind |-> "context", context |-> x]
WholeBlock(b) == [kind |-> "block", header |-> b, complete |-> TRUE]

\* The blocks of s link the context's parent to height h.
Links(x, s, h) ==
  /\ s \in [(x.from + 1)..h -> Block]
  /\ \A k \in DOMAIN s : Number[s[k]] = k
  /\ \A k \in DOMAIN s : Parent[s[k]] = IF k = x.from + 1 THEN x.before ELSE s[k - 1]
  /\ Compatible(s)

Tip(x, s, h) == IF h = x.from THEN x.before ELSE s[h]

\* f holds the context and the blocks of s up to height h.
Holds(f, x, s, h) ==
  /\ Len(f) = 1 + (h - x.from) /\ f[1] = ContextFrame(x)
  /\ \A k \in (x.from + 1)..h : f[1 + (k - x.from)] = WholeBlock(s[k])

\* What process p has captured, as a path; an honest node's is its segment.
Path(p, s) ==
  /\ Links(context[p], s, height[p]) /\ parent[p] = Tip(context[p], s, height[p])
  /\ Holds(frames[p], context[p], s, height[p])
  /\ \A t \in chain[p] : \A k \in DOMAIN s : s[k] = t[k]

Followed(p) ==
  /\ ~ContextError(context[p])
  /\ height[p] \in context[p].from..context[p].to
  /\ \E s \in [(context[p].from + 1)..height[p] -> Block] : Path(p, s)

\* The block answered last continues the path.
NextBlock(p) ==
  /\ height[p] < context[p].to
  /\ block[p] \in Block /\ Number[block[p]] = height[p] + 1 /\ Parent[block[p]] = parent[p]
  /\ \A t \in chain[p] : block[p] = t[height[p] + 1]

CaptureOf(p) ==
  /\ phase[p] = "start" => /\ height[p] = context[p].from /\ parent[p] = context[p].before
                           /\ frames[p] = <<>>
  /\ phase[p] \in Underway => Followed(p)
  /\ phase[p] = "receipts" => NextBlock(p)
  /\ phase[p] \in {"captured", "writing", "written"} =>
       height[p] = context[p].to /\ parent[p] = context[p].end

\* A file being written is the beginning of its process's frames.
WriteOf(p) ==
  phase[p] = "writing" =>
    /\ file[p] \in Seq(Frame) /\ Len(file[p]) <= Len(frames[p])
    /\ \A k \in 1..Len(file[p]) : file[p][k] = frames[p][k]

\* No honest chunk was refused.
Blameless(p) == \A s \in chain[p] : ContextError(context[p]) \/ ~Compatible(s)

CaptureInv == \A p \in Process : CaptureOf(p) /\ WriteOf(p)

IInv == TypeOK /\ CaptureInv /\ DestinationIsWhole /\ HonestNodeSuffices

-----------------------------------------------------------------------------
(***************************************************************************)
(* Sorting what an honest node lists gives the receipts in order.          *)
(***************************************************************************)
\* The least number principle, as a fact about sets.
LEMMA HasLeast ==
  ASSUME NEW S \in SUBSET Nat, S # {}
  PROVE  \E m \in S : \A k \in S : m <= k
<1> DEFINE R == {ss \in Nat \X Nat : ss[1] < ss[2]}
<1>1. IsWellFoundedOn(R, Nat) BY NatLessThanWellFounded DEF OpToRel
<1>2. PICK x \in S : \A y \in S : ~(<<y, x>> \in R)
  <2> HIDE DEF R
  <2> QED BY <1>1, WFMin
<1>3. \A y \in S : ~(y < x) BY <1>2
<1> QED BY <1>3

\* A function of 1..n into itself that grows is the identity.
LEMMA GrowingIsIdentity ==
  ASSUME NEW n \in Nat, NEW f \in [1..n -> 1..n],
         \A i, j \in 1..n : i < j => f[i] < f[j]
  PROVE  \A i \in 1..n : f[i] = i
<1>1. \A i \in 1..n : f[i] >= i
  <2> DEFINE low == {i \in 1..n : f[i] < i}
  <2> SUFFICES ASSUME low # {} PROVE FALSE OBVIOUS
  <2>1. low \in SUBSET Nat OBVIOUS
  <2>2. PICK m \in low : \A k \in low : m <= k
    <3> HIDE DEF low
    <3> QED BY <2>1, HasLeast
  <2>3. m \in 1..n /\ f[m] \in 1..n /\ f[m] < m OBVIOUS
  <2>4. m - 1 \in 1..n /\ m - 1 < m BY <2>3
  <2>5. f[m - 1] < f[m] /\ f[m - 1] \in 1..n BY <2>3, <2>4
  <2>6. m - 1 \in low BY <2>3, <2>4, <2>5
  <2> QED BY <2>2, <2>3, <2>6
<1>2. \A i \in 1..n : f[i] <= i
  <2> DEFINE high == {d \in 0..(n - 1) : f[n - d] > n - d}
  <2>1. high = {}
    <3> SUFFICES ASSUME high # {} PROVE FALSE OBVIOUS
    <3>1. high \in SUBSET Nat OBVIOUS
    <3>2. PICK d \in high : \A k \in high : d <= k
      <4> HIDE DEF high
      <4> QED BY <3>1, HasLeast
    <3>3. d \in 0..(n - 1) /\ n - d \in 1..n /\ f[n - d] \in 1..n /\ f[n - d] > n - d OBVIOUS
    <3>4. d # 0 BY <3>3
    <3>5. (n - d) + 1 \in 1..n /\ n - d < (n - d) + 1 BY <3>3, <3>4
    <3>6. f[n - d] < f[(n - d) + 1] /\ f[(n - d) + 1] \in 1..n BY <3>3, <3>5
    <3>7. d - 1 \in 0..(n - 1) /\ n - (d - 1) = (n - d) + 1 BY <3>3, <3>4
    <3>8. d - 1 \in high BY <3>3, <3>6, <3>7
    <3> HIDE DEF high
    <3>9. d <= d - 1 BY <3>2, <3>8
    <3> QED BY <3>3, <3>9
  <2>2. ASSUME NEW i \in 1..n PROVE f[i] <= i
    <3>1. n - i \in 0..(n - 1) /\ n - (n - i) = i /\ f[i] \in 1..n OBVIOUS
    <3>2. ~(f[n - (n - i)] > n - (n - i)) BY <2>1, <3>1
    <3> QED BY <3>1, <3>2
  <2> QED BY <2>2
<1>3. \A i \in 1..n : f[i] \in 1..n OBVIOUS
<1> QED BY <1>1, <1>2, <1>3

LEMMA NumberedFacts ==
  ASSUME NEW b \in Block
  PROVE  /\ Len(Receipts[b]) \in Nat
         /\ DOMAIN Numbered(b) = 1..Len(Receipts[b])
         /\ Numbered(b) \in Seq(NumberedReceipt)
         /\ \A i \in 1..Len(Receipts[b]) : /\ Numbered(b)[i].transactionIndex = i - 1
                                          /\ Numbered(b)[i].receipt = Receipts[b][i]
<1>1. Receipts[b] \in Seq(Receipt) BY ChainAssumption
<1>2. ASSUME NEW i \in 1..Len(Receipts[b]) PROVE Numbered(b)[i] \in NumberedReceipt
  BY <1>1 DEF Numbered, NumberedReceipt
<1>3. Len(Receipts[b]) \in Nat /\ DOMAIN Numbered(b) = 1..Len(Receipts[b]) BY <1>1 DEF Numbered
<1>4. Numbered(b) \in [1..Len(Receipts[b]) -> NumberedReceipt]
  <2>1. Numbered(b) = [i \in 1..Len(Receipts[b]) |-> Numbered(b)[i]] BY DEF Numbered
  <2> HIDE DEF Numbered
  <2> QED BY <1>2, <2>1
<1>5. Numbered(b) \in Seq(NumberedReceipt) BY <1>3, <1>4
<1> QED BY <1>3, <1>5 DEF Numbered

\* Whatever order the list is in.
LEMMA ListedInOrder ==
  ASSUME NEW b \in Block, NEW a \in SetToSeqs(Range(Numbered(b)))
  PROVE  InOrder(a) = Numbered(b) /\ a \in Seq(NumberedReceipt)
<1> DEFINE n == Len(Receipts[b])
           N == Numbered(b)
           D == 1..n
<1>1. /\ n \in Nat /\ DOMAIN N = D /\ N \in Seq(NumberedReceipt)
      /\ \A i \in D : N[i].transactionIndex = i - 1
  BY NumberedFacts
<1>2. IsFiniteSet(D) /\ Cardinality(D) = n BY <1>1, FS_Interval
<1> HIDE DEF n, N
<1>3. Cardinality(Range(N)) = n
  <2>1. N \in Bijection(D, Range(N))
    BY <1>1 DEF Bijection, Injection, Surjection, IsInjective, Range
  <2> QED BY <1>2, <2>1, FS_Bijection DEF ExistsBijection
<1>4. a \in [D -> Range(N)] /\ \A i, j \in D : i # j => a[i] # a[j]
  BY <1>3 DEF SetToSeqs, N
<1>5. a \in Seq(NumberedReceipt)
  <2>1. Range(N) \subseteq NumberedReceipt BY <1>1 DEF Range
  <2>2. a \in [D -> NumberedReceipt] BY <1>4, <2>1
  <2> QED BY <1>1, <2>2
<1> DEFINE q == [i \in D |-> a[i].transactionIndex + 1]
<1>6. ASSUME NEW i \in D PROVE q[i] \in D /\ a[i] = N[q[i]] /\ a[i].transactionIndex = q[i] - 1
  <2>1. PICK k \in D : a[i] = N[k] BY <1>1, <1>4 DEF Range
  <2>2. q[i] = k BY <1>1, <2>1
  <2> QED BY <1>1, <2>1, <2>2
<1>7. q \in Bijection(D, D)
  <2>1. q \in [D -> D]
    <3>1. q = [i \in D |-> q[i]] OBVIOUS
    <3> HIDE DEF q
    <3> QED BY <1>6, <3>1
  <2> HIDE DEF q
  <2>2. \A i, j \in D : q[i] = q[j] => i = j BY <1>4, <1>6
  <2>3. q \in Injection(D, D) BY <2>1, <2>2 DEF Injection, IsInjective
  <2>4. q \in Surjection(D, D) BY <1>2, <2>3, FS_Injection
  <2> QED BY <2>3, <2>4 DEF Bijection
<1> HIDE DEF q
<1>8. \A i, j \in D : q[i] = q[j] => i = j
  BY <1>7 DEF Bijection, Injection, IsInjective
<1> DEFINE Sorts(p) == \A i, j \in D : i < j => a[p[i]].transactionIndex <= a[p[j]].transactionIndex
           order == CHOOSE p \in Bijection(D, D) : Sorts(p)
<1>9. \E p \in Bijection(D, D) : Sorts(p)
  <2> DEFINE r == [k \in D |-> CHOOSE i \in D : q[i] = k]
  <2>1. ASSUME NEW k \in D PROVE r[k] \in D /\ q[r[k]] = k
    BY <1>7 DEF Bijection, Surjection
  <2>2. r \in [D -> D]
    <3>1. r = [k \in D |-> r[k]] OBVIOUS
    <3> HIDE DEF r
    <3> QED BY <2>1, <3>1
  <2> HIDE DEF r
  <2>3. \A k, l \in D : r[k] = r[l] => k = l BY <2>1
  <2>4. \A i \in D : \E k \in D : r[k] = i BY <1>6, <1>8, <2>1
  <2>5. r \in Bijection(D, D)
    BY <2>2, <2>3, <2>4 DEF Bijection, Injection, Surjection, IsInjective
  <2>6. ASSUME NEW i \in D PROVE a[r[i]].transactionIndex = i - 1 BY <2>1, <1>6
  <2>7. Sorts(r) BY <2>6, <1>1
  <2> QED BY <2>5, <2>7
<1>10. order \in Bijection(D, D) /\ Sorts(order)
  <2> HIDE DEF Sorts
  <2> QED BY <1>9
<1>11. DOMAIN a = D /\ InOrder(a) = [i \in D |-> a[order[i]]] BY <1>4 DEF InOrder
<1> HIDE DEF order
<1>12. \A i \in D : order[i] \in D BY <1>10 DEF Bijection, Injection
<1> DEFINE f == [i \in D |-> q[order[i]]]
<1>13. f \in [D -> D] BY <1>6, <1>12
<1>14. ASSUME NEW i \in D, NEW j \in D, i < j PROVE f[i] < f[j]
  <2>1. order[i] \in D /\ order[j] \in D /\ f[i] = q[order[i]] /\ f[j] = q[order[j]] BY <1>12
  <2>2. q[order[i]] - 1 <= q[order[j]] - 1 BY <1>10, <1>14, <1>6, <2>1
  <2>3. i # j BY <1>14, <1>1
  <2>4. order[i] # order[j] BY <1>10, <2>3 DEF Bijection, Injection, IsInjective
  <2>5. q[order[i]] # q[order[j]] BY <1>8, <2>1, <2>4
  <2>6. q[order[i]] \in Int /\ q[order[j]] \in Int BY <1>6, <2>1, <1>1
  <2> QED BY <2>1, <2>2, <2>5, <2>6
<1>15. \A i \in D : f[i] = i
  <2> HIDE DEF f
  <2> QED BY <1>1, <1>13, <1>14, GrowingIsIdentity
<1>16. \A i \in D : a[order[i]] = N[i] BY <1>6, <1>12, <1>15
<1>17. InOrder(a) = N BY <1>1, <1>11, <1>16
<1> QED BY <1>5, <1>17 DEF N

-----------------------------------------------------------------------------
(***************************************************************************)
(* Steps of one process leave the others where they are.                   *)
(***************************************************************************)
LEMMA ContextFacts ==
  ASSUME TypeOK, NEW p \in Process
  PROVE  /\ context[p] \in Context
         /\ context[p].from \in Nat /\ context[p].to \in Nat
         /\ context[p].before \in Hash /\ context[p].end \in Hash
BY CaptureAssumption DEF TypeOK, Context

LEMMA Unmoved ==
  ASSUME NEW q, CaptureOf(q), UNCHANGED <<context, chain, phase[q], height[q], parent[q], block[q], frames[q]>>
  PROVE  CaptureOf(q)'
<1>1. ASSUME Followed(q) PROVE Followed(q)'
  <2>1. PICK s \in [(context[q].from + 1)..height[q] -> Block] : Path(q, s) BY <1>1 DEF Followed
  <2>2. Path(q, s)' BY <2>1 DEF Path
  <2>3. ~ContextError(context[q]) /\ height[q] \in context[q].from..context[q].to
    BY <1>1 DEF Followed
  <2> QED BY <2>1, <2>2, <2>3 DEF Followed
<1>2. NextBlock(q) => NextBlock(q)' BY DEF NextBlock
<1> QED BY <1>1, <1>2 DEF CaptureOf

LEMMA WriteUnmoved ==
  ASSUME NEW q, WriteOf(q), UNCHANGED <<phase[q], frames[q], file[q]>>
  PROVE  WriteOf(q)'
BY DEF WriteOf

LEMMA PhaseTypes ==
  ASSUME TypeOK, NEW p, NEW where \in {"start", "refused", "failed", "killed"} \cup Underway,
         phase' = [phase EXCEPT ![p] = where], UNCHANGED <<context, chain>>,
         height' \in [Process -> Nat], parent' \in [Process -> Hash],
         block' \in [Process -> Hash], frames' \in [Process -> Seq(Frame)],
         file' \in [Process \cup {Out} -> Seq(Frame) \cup {OldFile, Absent}]
  PROVE  TypeOK'
<1>1. phase' \in [Process -> {"start", "refused", "failed", "killed"} \cup Underway] BY DEF TypeOK
<1>2. /\ context' \in [Process -> Requested] /\ DOMAIN chain' = Process
      /\ \A q \in Process : chain'[q] \subseteq Segments(context'[q]) /\ \A s, t \in chain'[q] : s = t
  BY DEF TypeOK
<1> QED BY <1>1, <1>2 DEF TypeOK

\* What captureChunkFrames does touches no file.
LEMMA CaptureStep ==
  ASSUME IInv, NEW p \in Process, phase[p] \in {"start", "block", "receipts"},
         NEW where \in {"refused", "block", "receipts", "captured"},
         phase' = [phase EXCEPT ![p] = where],
         UNCHANGED <<context, chain, file>>,
         height' \in [Process -> Nat], parent' \in [Process -> Hash],
         block' \in [Process -> Hash], frames' \in [Process -> Seq(Frame)],
         \A q \in Process \ {p} : UNCHANGED <<height[q], parent[q], block[q], frames[q]>>,
         CaptureOf(p)', where = "refused" => Blameless(p)
  PROVE  IInv'
<1> USE DEF IInv
<1>1. phase'[p] = where /\ \A q \in Process \ {p} : phase'[q] = phase[q]
  BY DEF TypeOK
<1>2. TypeOK'
  <2>1. file' \in [Process \cup {Out} -> Seq(Frame) \cup {OldFile, Absent}] BY DEF TypeOK
  <2> QED BY <2>1, PhaseTypes DEF Underway
<1>3. CaptureInv'
  <2> SUFFICES ASSUME NEW q \in Process PROVE CaptureOf(q)' /\ WriteOf(q)' BY DEF CaptureInv
  <2>1. CASE q = p BY <2>1, <1>1 DEF WriteOf
  <2>2. CASE q # p BY <2>2, <1>1, Unmoved, WriteUnmoved DEF CaptureInv
  <2> QED BY <2>1, <2>2
<1>4. DestinationIsWhole' BY <1>1 DEF DestinationIsWhole
<1>5. HonestNodeSuffices' BY <1>1 DEF HonestNodeSuffices, Blameless
<1> QED BY <1>2, <1>3, <1>4, <1>5

LEMMA RefuseStep ==
  ASSUME IInv, NEW p \in Process, phase[p] \in {"start", "block", "receipts"}, Refuse(p),
         UNCHANGED <<context, chain>>, Blameless(p)
  PROVE  IInv'
<1>1. /\ phase' = [phase EXCEPT ![p] = "refused"]
      /\ UNCHANGED <<height, parent, block, frames, file>>
  BY DEF Refuse, Goto, capture
<1>2. phase'[p] = "refused" BY <1>1 DEF IInv, TypeOK
<1>3. CaptureOf(p)' BY <1>2 DEF CaptureOf, Underway
<1> QED BY <1>1, <1>3, CaptureStep DEF IInv, TypeOK

\* captureChunk: the frames stand, and only this process's file and the destination change.
LEMMA FileStep ==
  ASSUME IInv, NEW p \in Process, phase[p] \in {"captured", "writing"},
         NEW where \in {"writing", "failed", "written"},
         phase' = [phase EXCEPT ![p] = where],
         UNCHANGED <<context, chain, height, parent, block, frames>>,
         file' \in [Process \cup {Out} -> Seq(Frame) \cup {OldFile, Absent}],
         \A q \in Process \ {p} : file'[q] = file[q],
         WriteOf(p)',
         file'[Out] = file[Out] \/ (where = "written" /\ file'[Out] = frames[p])
  PROVE  IInv'
<1> USE DEF IInv
<1>1. phase'[p] = where /\ \A q \in Process \ {p} : phase'[q] = phase[q]
  BY DEF TypeOK
<1>2. TypeOK'
  <2>1. /\ height' \in [Process -> Nat] /\ parent' \in [Process -> Hash]
        /\ block' \in [Process -> Hash] /\ frames' \in [Process -> Seq(Frame)]
    BY DEF TypeOK
  <2> QED BY <2>1, PhaseTypes DEF Underway
<1>3. CaptureInv'
  <2> SUFFICES ASSUME NEW q \in Process PROVE CaptureOf(q)' /\ WriteOf(q)' BY DEF CaptureInv
  <2>1. CASE q = p
    <3>1. Followed(p) /\ height[p] = context[p].to /\ parent[p] = context[p].end
      BY DEF CaptureInv, CaptureOf, Underway
    <3>2. Followed(p)' BY <3>1 DEF Followed, Path
    <3> QED BY <2>1, <1>1, <3>1, <3>2 DEF CaptureOf
  <2>2. CASE q # p BY <2>2, <1>1, Unmoved, WriteUnmoved DEF CaptureInv
  <2> QED BY <2>1, <2>2
<1>4. DestinationIsWhole'
  <2>1. CASE file'[Out] = file[Out] BY <2>1, <1>1 DEF DestinationIsWhole
  <2>2. CASE where = "written" /\ file'[Out] = frames[p] BY <2>2, <1>1 DEF DestinationIsWhole
  <2> QED BY <2>1, <2>2
<1>5. HonestNodeSuffices' BY <1>1 DEF HonestNodeSuffices
<1> QED BY <1>2, <1>3, <1>4, <1>5

LEMMA KillStep ==
  ASSUME IInv, NEW p \in Process, Kill(p), UNCHANGED <<context, chain>>
  PROVE  IInv'
<1> USE DEF IInv
<1>1. /\ phase[p] \notin Over /\ phase' = [phase EXCEPT ![p] = "killed"]
      /\ UNCHANGED <<height, parent, block, frames, file>>
  BY DEF Kill, Goto, capture
<1>2. phase'[p] = "killed" /\ \A q \in Process \ {p} : phase'[q] = phase[q]
  BY <1>1 DEF TypeOK
<1>3. TypeOK' BY <1>1 DEF TypeOK
<1>4. CaptureInv'
  <2> SUFFICES ASSUME NEW q \in Process PROVE CaptureOf(q)' /\ WriteOf(q)' BY DEF CaptureInv
  <2>1. CASE q = p BY <2>1, <1>2 DEF CaptureOf, WriteOf, Underway
  <2>2. CASE q # p BY <2>2, <1>1, <1>2, Unmoved, WriteUnmoved DEF CaptureInv
  <2> QED BY <2>1, <2>2
<1>5. DestinationIsWhole' BY <1>1, <1>2 DEF DestinationIsWhole, Over
<1>6. HonestNodeSuffices' BY <1>1, <1>2 DEF HonestNodeSuffices
<1> QED BY <1>3, <1>4, <1>5, <1>6

-----------------------------------------------------------------------------
(***************************************************************************)
(* captureChunkFrames, step by step.                                       *)
(***************************************************************************)
\* The CLI refuses the contexts that the guest refuses.
LEMMA EncodeErrorIsContextError ==
  ASSUME NEW x \in Context
  PROVE  EncodeError(x) <=> ContextError(x)
BY DEF EncodeError, ContextError, RangeError

LEMMA StartStep ==
  ASSUME IInv, NEW p \in Process, Start(p), UNCHANGED <<context, chain>>
  PROVE  IInv'
<1> USE DEF IInv
<1> DEFINE x == context[p]
<1>1. /\ phase[p] = "start" /\ height[p] = x.from /\ parent[p] = x.before
      /\ x \in Context /\ x.from \in Nat /\ x.to \in Nat
  BY ContextFacts DEF Start, CaptureInv, CaptureOf
<1>2. PICK sameChain \in (IF chain[p] = {} THEN BOOLEAN ELSE {TRUE}) :
        IF ~sameChain \/ EncodeError(x) THEN Refuse(p)
        ELSE /\ phase' = [phase EXCEPT ![p] = "block"]
             /\ frames' = [frames EXCEPT ![p] = <<ContextFrame(x)>>]
             /\ UNCHANGED <<height, parent, block, file>>
  BY DEF Start, Goto, ContextFrame
<1>3. CASE ~sameChain \/ EncodeError(x)
  <2>1. Refuse(p) BY <1>2, <1>3
  <2>2. Blameless(p)
    <3>1. CASE chain[p] = {} BY <3>1 DEF Blameless
    <3>2. CASE chain[p] # {}
      <4>1. EncodeError(x) BY <1>2, <1>3, <3>2
      <4> QED BY <4>1, <1>1, EncodeErrorIsContextError DEF Blameless
    <3> QED BY <3>1, <3>2
  <2> QED BY <1>1, <2>1, <2>2, RefuseStep
<1>4. CASE ~(~sameChain \/ EncodeError(x))
  <2>1. /\ phase' = [phase EXCEPT ![p] = "block"]
        /\ frames' = [frames EXCEPT ![p] = <<ContextFrame(x)>>]
        /\ UNCHANGED <<height, parent, block, file>>
    BY <1>2, <1>4
  <2>2. ~ContextError(x) BY <1>1, <1>4, EncodeErrorIsContextError
  <2>3. <<ContextFrame(x)>> \in Seq(Frame) BY <1>1 DEF Frame, ContextFrame
  <2>4. frames' \in [Process -> Seq(Frame)] /\ phase'[p] = "block"
        /\ frames'[p] = <<ContextFrame(x)>>
        /\ \A q \in Process \ {p} : frames'[q] = frames[q]
    BY <2>1, <2>3 DEF TypeOK
  <2> DEFINE s == [k \in (x.from + 1)..x.from |-> CHOOSE b \in Block : TRUE]
  <2>5. (x.from + 1)..x.from = {} BY <1>1
  <2>6. s \in [(x.from + 1)..x.from -> Block] /\ DOMAIN s = {} BY <2>5
  <2> HIDE DEF s
  <2>7. Links(x, s, x.from) BY <2>5, <2>6 DEF Links, Compatible
  <2>8. Holds(<<ContextFrame(x)>>, x, s, x.from) BY <1>1, <2>5 DEF Holds
  <2>9. Followed(p)'
    <3>1. x.from < x.to BY <2>2, <1>1 DEF ContextError
    <3>2. x' = x /\ height'[p] = x.from /\ parent'[p] = x.before BY <2>1, <1>1
    <3> HIDE DEF x
    <3>3. /\ ~ContextError(x') /\ height'[p] \in x.from..x.to
      BY <3>1, <3>2, <2>2, <1>1
    <3> QED BY <3>2, <3>3, <2>4, <2>6, <2>7, <2>8 DEF Followed, Path, Tip, x
  <2>10. CaptureOf(p)' BY <2>4, <2>9 DEF CaptureOf
  <2> QED BY <1>1, <2>1, <2>4, <2>10, CaptureStep DEF TypeOK
<1> QED BY <1>3, <1>4

LEMMA SegmentFacts ==
  ASSUME NEW x \in Context, NEW s \in Segments(x), NEW k \in (x.from + 1)..x.to
  PROVE  /\ s[k] \in Block /\ Number[s[k]] = k
         /\ Parent[s[k]] = IF k = x.from + 1 THEN x.before ELSE s[k - 1]
         /\ DOMAIN s = (x.from + 1)..x.to
BY DEF Segments

LEMMA GetBlockStep ==
  ASSUME IInv, NEW p \in Process, GetBlock(p), UNCHANGED <<context, chain>>
  PROVE  IInv'
<1> USE DEF IInv
<1> DEFINE x == context[p]
           h == height[p]
<1>1. /\ phase[p] = "block" /\ h < x.to /\ Followed(p)
      /\ x \in Context /\ x.from \in Nat /\ x.to \in Nat
  BY ContextFacts DEF GetBlock, CaptureInv, CaptureOf, Underway
<1>2. PICK a \in HeaderAnswers(p) :
        IF BadHeader(p, a) THEN Refuse(p)
        ELSE /\ phase' = [phase EXCEPT ![p] = "receipts"]
             /\ block' = [block EXCEPT ![p] = a.header]
             /\ UNCHANGED <<height, parent, frames, file>>
  BY DEF GetBlock, Goto
<1>3. PICK s \in [(x.from + 1)..h -> Block] : Path(p, s) BY <1>1 DEF Followed
<1>4. h \in x.from..x.to /\ h \in Nat /\ h + 1 \in (x.from + 1)..x.to BY <1>1 DEF Followed, TypeOK
<1>5. ASSUME NEW t \in chain[p]
      PROVE  /\ a = [header |-> t[h + 1], hash |-> t[h + 1]]
             /\ ~BadHeader(p, a)
  <2>1. a = [header |-> t[h + 1], hash |-> t[h + 1]] BY <1>2 DEF HeaderAnswers, TypeOK
  <2>2. t \in Segments(x) BY DEF TypeOK
  <2>3. /\ t[h + 1] \in Block /\ Number[t[h + 1]] = h + 1
        /\ Parent[t[h + 1]] = IF h + 1 = x.from + 1 THEN x.before ELSE t[h]
    BY <1>1, <1>4, <2>2, SegmentFacts
  <2>4. parent[p] = IF h = x.from THEN x.before ELSE t[h]
    <3>1. h # x.from => h \in (x.from + 1)..h BY <1>1, <1>4
    <3> QED BY <1>3, <3>1 DEF Path, Tip
  <2>5. a \in HeaderAnswer BY <2>1, <2>3, ChainAssumption DEF HeaderAnswer
  <2> QED BY <1>1, <1>4, <2>1, <2>3, <2>4, <2>5, CaptureAssumption DEF BadHeader
<1>6. CASE BadHeader(p, a)
  <2>1. Blameless(p) BY <1>5, <1>6 DEF Blameless
  <2> QED BY <1>1, <1>2, <1>6, <2>1, RefuseStep
<1>7. CASE ~BadHeader(p, a)
  <2>1. /\ phase' = [phase EXCEPT ![p] = "receipts"]
        /\ block' = [block EXCEPT ![p] = a.header]
        /\ UNCHANGED <<height, parent, frames, file>>
    BY <1>2, <1>7
  <2>2. a.header \in Block /\ Number[a.header] = h + 1 /\ Parent[a.header] = parent[p]
    <3>1. a.header \in Block
      <4>1. CASE chain[p] = {} BY <4>1, <1>2, <1>7, CaptureAssumption DEF HeaderAnswers, BadHeader, HeaderAnswer
      <4>2. CASE chain[p] # {}
        <5>1. PICK t \in chain[p] : TRUE BY <4>2
        <5>2. t \in Segments(x) BY DEF TypeOK
        <5> QED BY <1>1, <1>4, <1>5, <5>1, <5>2, SegmentFacts
      <4> QED BY <4>1, <4>2
    <3> QED BY <3>1, <1>7 DEF BadHeader
  <2>3. block' \in [Process -> Hash] /\ phase'[p] = "receipts" /\ block'[p] = a.header
        /\ \A q \in Process \ {p} : block'[q] = block[q]
    BY <2>1, <2>2, ChainAssumption DEF TypeOK
  <2>4. Followed(p)'
    <3>1. Path(p, s)' BY <1>3, <2>1 DEF Path
    <3>2. ~ContextError(x) BY <1>1 DEF Followed
    <3> QED BY <1>3, <1>4, <2>1, <3>1, <3>2 DEF Followed
  <2>5. NextBlock(p)' BY <1>1, <1>5, <2>1, <2>2, <2>3 DEF NextBlock
  <2>6. CaptureOf(p)' BY <2>3, <2>4, <2>5 DEF CaptureOf
  <2> QED BY <1>1, <2>1, <2>3, <2>6, CaptureStep DEF TypeOK
<1> QED BY <1>6, <1>7

\* A path and its frames grow by one block.
Longer(x, s, h, b) == [k \in (x.from + 1)..(h + 1) |-> IF k = h + 1 THEN b ELSE s[k]]

LEMMA PathGrows ==
  ASSUME NEW x \in Context, NEW h \in Nat, x.from <= h,
         NEW s \in [(x.from + 1)..h -> Block], Links(x, s, h),
         NEW f \in Seq(Frame), Holds(f, x, s, h),
         NEW b \in Block, Number[b] = h + 1, Parent[b] = Tip(x, s, h),
         \A r \in ReceiptIndices(b) : ReceiptAt(b, r).status # "malformed"
  PROVE  /\ Links(x, Longer(x, s, h, b), h + 1) /\ Tip(x, Longer(x, s, h, b), h + 1) = b
         /\ Holds(Append(f, WholeBlock(b)), x, Longer(x, s, h, b), h + 1)
<1> DEFINE u == [k \in (x.from + 1)..(h + 1) |-> IF k = h + 1 THEN b ELSE s[k]]
<1>1. x.from \in Nat /\ h \in Nat BY DEF Context
<1>2. /\ \A k \in (x.from + 1)..h : k \in (x.from + 1)..(h + 1) /\ u[k] = s[k]
      /\ h + 1 \in (x.from + 1)..(h + 1) /\ u[h + 1] = b
  BY <1>1
<1>3. \A k \in (x.from + 1)..(h + 1) : k = h + 1 \/ k \in (x.from + 1)..h BY <1>1
<1>4. u \in [(x.from + 1)..(h + 1) -> Block] BY <1>1
<1> HIDE DEF u
<1>5. ASSUME NEW k \in (x.from + 1)..(h + 1)
      PROVE  /\ Number[u[k]] = k
             /\ Parent[u[k]] = IF k = x.from + 1 THEN x.before ELSE u[k - 1]
             /\ \A r \in ReceiptIndices(u[k]) : ReceiptAt(u[k], r).status # "malformed"
  <2>1. CASE k = h + 1
    <3>1. h # x.from => h \in (x.from + 1)..h BY <1>1
    <3>2. k - 1 = h BY <2>1, <1>1
    <3> QED BY <1>1, <1>2, <2>1, <3>1, <3>2 DEF Tip
  <2>2. CASE k \in (x.from + 1)..h
    <3>1. k # x.from + 1 => k - 1 \in (x.from + 1)..h BY <1>1, <2>2
    <3> QED BY <1>2, <2>2, <3>1 DEF Links, Compatible
  <2> QED BY <1>3, <2>1, <2>2
<1>6. Links(x, u, h + 1) BY <1>4, <1>5 DEF Links, Compatible
<1>7. Tip(x, u, h + 1) = b BY <1>1, <1>2 DEF Tip
<1>8. Holds(Append(f, WholeBlock(b)), x, u, h + 1)
  <2> DEFINE g == Append(f, WholeBlock(b))
  <2>1. PICK n \in Nat : n = x.from BY <1>1
  <2>2. PICK l \in Nat : l = Len(f) OBVIOUS
  <2>3. l = 1 + (h - n) /\ n <= h BY <2>1, <2>2 DEF Holds
  <2>4. /\ f[1] = ContextFrame(x)
        /\ \A k \in (n + 1)..h : f[1 + (k - n)] = WholeBlock(s[k])
    BY <2>1 DEF Holds
  <2>5. /\ Len(g) = l + 1 /\ g[l + 1] = WholeBlock(b)
        /\ \A k \in 1..l : g[k] = f[k]
    BY <2>2
  <2> HIDE DEF g
  <2>6. l >= 1 /\ l + 1 = 1 + ((h + 1) - n) BY <2>3
  <2>7. Len(g) = 1 + ((h + 1) - n) /\ g[1] = ContextFrame(x) BY <2>4, <2>5, <2>6
  <2>8. ASSUME NEW k \in (n + 1)..(h + 1)
        PROVE  g[1 + (k - n)] = WholeBlock(u[k])
    <3>1. CASE k = h + 1
      <4>1. 1 + (k - n) = l + 1 BY <3>1, <2>3
      <4> QED BY <3>1, <4>1, <1>2, <2>5
    <3>2. CASE k \in (n + 1)..h
      <4>1. 1 + (k - n) \in 1..l BY <3>2, <2>3
      <4>2. u[k] = s[k] BY <3>2, <2>1, <1>2
      <4>3. f[1 + (k - n)] = WholeBlock(s[k]) BY <3>2, <2>4
      <4>4. g[1 + (k - n)] = f[1 + (k - n)] BY <4>1, <2>5
      <4> QED BY <4>2, <4>3, <4>4
    <3> QED BY <3>1, <3>2
  <2> QED BY <2>1, <2>7, <2>8 DEF Holds, g
<1> QED BY <1>6, <1>7, <1>8 DEF Longer, u

LEMMA GetReceiptsStep ==
  ASSUME IInv, NEW p \in Process, GetReceipts(p), UNCHANGED <<context, chain>>
  PROVE  IInv'
<1> USE DEF IInv
<1>1. PICK x : x = context[p] OBVIOUS
<1>2. PICK h : h = height[p] OBVIOUS
<1>3. PICK b : b = block[p] OBVIOUS
<1>4. /\ phase[p] = "receipts" /\ Followed(p) /\ NextBlock(p)
      /\ x \in Context /\ x.from \in Nat /\ x.to \in Nat
  BY <1>1, ContextFacts DEF GetReceipts, CaptureInv, CaptureOf, Underway
<1>5. PICK a \in ReceiptAnswers(p) :
        IF BadReceipts(p, a) THEN Refuse(p)
        ELSE /\ phase' = [phase EXCEPT ![p] = "block"]
             /\ frames' = [frames EXCEPT ![p] = Append(@, BlockFrame(p, a))]
             /\ parent' = [parent EXCEPT ![p] = b]
             /\ height' = [height EXCEPT ![p] = @ + 1]
             /\ UNCHANGED <<block, file>>
  BY <1>3 DEF GetReceipts, Goto, After
<1>6. PICK s \in [(x.from + 1)..h -> Block] : Path(p, s) BY <1>1, <1>2, <1>4 DEF Followed
<1>7. h \in x.from..x.to /\ h \in Nat /\ h < x.to BY <1>1, <1>2, <1>4 DEF Followed, NextBlock, TypeOK
<1>8. /\ b \in Block /\ Number[b] = h + 1 /\ Parent[b] = parent[p]
      /\ \A t \in chain[p] : b = t[h + 1]
  BY <1>2, <1>3, <1>4 DEF NextBlock
<1>9. /\ DOMAIN Numbered(b) = 1..Len(Receipts[b]) /\ Len(Receipts[b]) \in Nat
      /\ \A i \in 1..Len(Receipts[b]) : /\ Numbered(b)[i].transactionIndex = i - 1
                                       /\ Numbered(b)[i].receipt = Receipts[b][i]
  BY <1>8, NumberedFacts
<1>10. CASE BadReceipts(p, a)
  <2>1. ASSUME NEW t \in chain[p] PROVE ~Compatible(t)
    <3>1. a \in SetToSeqs(Range(Numbered(b))) BY <1>3, <1>5 DEF ReceiptAnswers
    <3>2. InOrder(a) = Numbered(b) /\ a # NoAnswer
      BY <3>1, <1>8, ListedInOrder, CaptureAssumption
    <3>3. \E i \in 1..Len(Receipts[b]) : Receipts[b][i].status = "malformed"
      BY <3>2, <1>3, <1>9, <1>10 DEF BadReceipts
    <3>4. PICK i \in 1..Len(Receipts[b]) : Receipts[b][i].status = "malformed" BY <3>3
    <3>5. i - 1 \in ReceiptIndices(b) /\ ReceiptAt(b, i - 1) = Receipts[b][i]
      BY <3>4, <1>9 DEF ReceiptIndices, ReceiptAt
    <3>6. h + 1 \in DOMAIN t
      <4>1. t \in Segments(x) BY <1>1 DEF TypeOK
      <4> QED BY <4>1, <1>4, <1>7, SegmentFacts
    <3> QED BY <1>8, <3>4, <3>5, <3>6 DEF Compatible
  <2>2. Blameless(p) BY <2>1 DEF Blameless
  <2> QED BY <1>4, <1>5, <1>10, <2>2, RefuseStep
<1>11. CASE ~BadReceipts(p, a)
  <2>1. PICK g : g = Append(frames[p], WholeBlock(b)) OBVIOUS
  <2>2. InOrder(a) = Numbered(b) BY <1>3, <1>11 DEF BadReceipts
  <2>3. \A r \in ReceiptIndices(b) : ReceiptAt(b, r).status # "malformed"
    <3> SUFFICES ASSUME NEW r \in ReceiptIndices(b) PROVE ReceiptAt(b, r).status # "malformed"
      OBVIOUS
    <3>1. r + 1 \in 1..Len(Receipts[b]) BY <1>9 DEF ReceiptIndices
    <3>2. Numbered(b)[r + 1].receipt.status # "malformed" BY <2>2, <3>1, <1>9, <1>11 DEF BadReceipts
    <3> QED BY <3>1, <3>2, <1>9 DEF ReceiptAt
  <2>4. BlockFrame(p, a) = WholeBlock(b) BY <2>2, <1>3 DEF BlockFrame, WholeBlock
  <2>5. WholeBlock(b) \in Frame BY <1>8 DEF WholeBlock, Frame
  <2>6. frames[p] \in Seq(Frame) /\ g \in Seq(Frame)
    <3>1. frames[p] \in Seq(Frame) BY DEF TypeOK
    <3> QED BY <3>1, <2>1, <2>5
  <2>7. /\ phase' = [phase EXCEPT ![p] = "block"] /\ frames' = [frames EXCEPT ![p] = g]
        /\ parent' = [parent EXCEPT ![p] = b] /\ height' = [height EXCEPT ![p] = h + 1]
        /\ UNCHANGED <<block, file>>
    BY <1>2, <1>5, <1>11, <2>1, <2>4
  <2>8. /\ phase'[p] = "block" /\ frames'[p] = g /\ parent'[p] = b /\ height'[p] = h + 1
        /\ frames' \in [Process -> Seq(Frame)] /\ parent' \in [Process -> Hash]
        /\ height' \in [Process -> Nat]
        /\ \A q \in Process \ {p} : UNCHANGED <<height[q], parent[q], block[q], frames[q]>>
    BY <1>7, <1>8, <2>6, <2>7, ChainAssumption DEF TypeOK
  <2> DEFINE u == [k \in (x.from + 1)..(h + 1) |-> IF k = h + 1 THEN b ELSE s[k]]
  <2>9. /\ Links(x, s, h) /\ parent[p] = Tip(x, s, h) /\ Holds(frames[p], x, s, h)
        /\ \A t \in chain[p] : \A k \in DOMAIN s : s[k] = t[k]
    BY <1>1, <1>2, <1>6 DEF Path
  <2>10. /\ u \in [(x.from + 1)..(h + 1) -> Block]
         /\ Links(x, u, h + 1) /\ Tip(x, u, h + 1) = b /\ Holds(g, x, u, h + 1)
    <3>1. x.from <= h BY <1>7, <1>4
    <3>2. Parent[b] = Tip(x, s, h) /\ Number[b] = h + 1 BY <1>8, <2>9
    <3>3. u = Longer(x, s, h, b) BY DEF Longer
    <3> HIDE DEF u
    <3>4. frames[p] \in Seq(Frame) /\ x \in Context /\ h \in Nat /\ b \in Block
      BY <1>4, <1>7, <1>8, <2>6
    <3>5. PICK f \in Seq(Frame) : f = frames[p] BY <3>4
    <3>6. Links(x, s, h) /\ Holds(f, x, s, h) BY <2>9, <3>5
    <3>7. s \in [(x.from + 1)..h -> Block] OBVIOUS
    <3>8. /\ Links(x, u, h + 1) /\ Tip(x, u, h + 1) = b
          /\ Holds(Append(f, WholeBlock(b)), x, u, h + 1)
      BY <1>8, <2>3, <3>1, <3>2, <3>3, <3>4, <3>6, <3>7, PathGrows
    <3>9. u \in [(x.from + 1)..(h + 1) -> Block] BY <3>8 DEF Links
    <3> QED BY <2>1, <3>5, <3>8, <3>9
  <2>11. \A t \in chain[p] : \A k \in DOMAIN u : u[k] = t[k]
    <3> SUFFICES ASSUME NEW t \in chain[p], NEW k \in (x.from + 1)..(h + 1) PROVE u[k] = t[k]
      OBVIOUS
    <3>1. CASE k = h + 1 BY <3>1, <1>8
    <3>2. CASE k # h + 1
      <4>1. k \in DOMAIN s BY <3>2, <1>4, <1>6, <1>7
      <4> QED BY <3>2, <4>1, <2>9
    <3> QED BY <3>1, <3>2
  <2> HIDE DEF u
  <2>12. Followed(p)'
    <3>1. ~ContextError(x) BY <1>1, <1>4 DEF Followed
    <3>2. x = context'[p] /\ chain'[p] = chain[p] BY <1>1
    <3>3. h + 1 \in x.from..x.to BY <1>4, <1>7
    <3>4. Path(p, u)' BY <2>8, <2>10, <2>11, <3>2 DEF Path
    <3> QED BY <2>8, <2>10, <3>1, <3>2, <3>3, <3>4 DEF Followed
  <2>13. CaptureOf(p)' BY <2>8, <2>12 DEF CaptureOf
  <2> QED BY <1>4, <2>7, <2>8, <2>13, CaptureStep DEF TypeOK
<1> QED BY <1>10, <1>11

LEMMA CheckEndStep ==
  ASSUME IInv, NEW p \in Process, CheckEnd(p), UNCHANGED <<context, chain>>
  PROVE  IInv'
<1> USE DEF IInv
<1> DEFINE x == context[p]
<1>1. /\ phase[p] = "block" /\ Followed(p) /\ height[p] = x.to
      /\ x \in Context /\ x.from \in Nat /\ x.to \in Nat
  BY ContextFacts DEF CheckEnd, CaptureInv, CaptureOf, Underway
<1>2. CASE parent[p] # x.end
  <2>1. Refuse(p) BY <1>2 DEF CheckEnd
  <2>2. chain[p] = {}
    <3> SUFFICES ASSUME NEW t \in chain[p] PROVE FALSE OBVIOUS
    <3>1. t \in Segments(x) BY DEF TypeOK
    <3>2. t[x.to] = x.end BY <3>1 DEF Segments
    <3>3. PICK s \in [(x.from + 1)..x.to -> Block] : Path(p, s) BY <1>1 DEF Followed
    <3>4. x.from < x.to BY <1>1 DEF Followed, ContextError
    <3>5. x.to \in DOMAIN s BY <1>1, <3>3, <3>4
    <3>6. s[x.to] = t[x.to] BY <3>3, <3>5 DEF Path
    <3>7. parent[p] = s[x.to] BY <1>1, <3>3, <3>4 DEF Path, Tip
    <3> QED BY <1>2, <3>2, <3>6, <3>7
  <2>3. Blameless(p) BY <2>2 DEF Blameless
  <2> QED BY <1>1, <2>1, <2>3, RefuseStep
<1>3. CASE parent[p] = x.end
  <2>1. /\ phase' = [phase EXCEPT ![p] = "captured"]
        /\ UNCHANGED <<height, parent, block, frames, file>>
    BY <1>3 DEF CheckEnd, Goto, capture
  <2>2. phase'[p] = "captured" BY <2>1 DEF TypeOK
  <2>3. Followed(p)' BY <1>1, <2>1 DEF Followed, Path
  <2>4. CaptureOf(p)' BY <1>1, <1>3, <2>1, <2>2, <2>3 DEF CaptureOf
  <2> QED BY <1>1, <2>1, <2>4, CaptureStep DEF TypeOK
<1> QED BY <1>2, <1>3

-----------------------------------------------------------------------------
(***************************************************************************)
(* captureChunk, step by step.                                             *)
(***************************************************************************)
LEMMA OpenTmpStep ==
  ASSUME IInv, NEW p \in Process, OpenTmp(p), UNCHANGED <<context, chain>>
  PROVE  IInv'
<1> USE DEF IInv
<1>1. phase[p] = "captured" /\ UNCHANGED <<height, parent, block, frames>>
  BY DEF OpenTmp, Throw, capture
<1>2. CASE phase' = [phase EXCEPT ![p] = "writing"] /\ file' = [file EXCEPT ![p] = <<>>]
  <2>1. /\ file' \in [Process \cup {Out} -> Seq(Frame) \cup {OldFile, Absent}]
        /\ file'[p] = <<>> /\ file'[Out] = file[Out]
        /\ \A q \in Process \ {p} : file'[q] = file[q]
    BY <1>2, CaptureAssumption DEF TypeOK
  <2>2. WriteOf(p)'
    <3>1. frames'[p] \in Seq(Frame) BY <1>1 DEF TypeOK
    <3>2. file'[p] \in Seq(Frame) /\ Len(file'[p]) <= Len(frames'[p]) BY <2>1, <3>1
    <3> QED BY <2>1, <3>2 DEF WriteOf
  <2> QED BY <1>1, <1>2, <2>1, <2>2, FileStep
<1>3. CASE phase' = [phase EXCEPT ![p] = "failed"] /\ UNCHANGED file
  <2>1. phase'[p] = "failed" BY <1>3 DEF TypeOK
  <2>2. WriteOf(p)' BY <2>1 DEF WriteOf
  <2> QED BY <1>1, <1>3, <2>2, FileStep DEF TypeOK
<1> QED BY <1>2, <1>3 DEF OpenTmp, Throw, Goto, TmpOf

LEMMA WriteTmpStep ==
  ASSUME IInv, NEW p \in Process, WriteTmp(p), UNCHANGED <<context, chain>>
  PROVE  IInv'
<1> USE DEF IInv
<1>1. phase[p] = "writing" /\ UNCHANGED <<height, parent, block, frames>>
  BY DEF WriteTmp, Throw, capture
<1>2. CASE UNCHANGED phase /\ file' = [file EXCEPT ![p] = Append(@, frames[p][Len(@) + 1])]
  <2>1. PICK f : f = file[p] OBVIOUS
  <2>2. PICK l : l = Len(f) OBVIOUS
  <2>3. /\ f \in Seq(Frame) /\ l \in Nat /\ l < Len(frames[p])
        /\ \A k \in 1..l : f[k] = frames[p][k]
    BY <1>1, <2>1, <2>2 DEF WriteTmp, TmpOf, CaptureInv, WriteOf, TypeOK
  <2>4. frames[p] \in Seq(Frame) /\ l + 1 \in 1..Len(frames[p])
    <3>1. frames[p] \in Seq(Frame) /\ Len(frames[p]) \in Nat BY DEF TypeOK
    <3> QED BY <2>3, <3>1
  <2>5. PICK e \in Frame : e = frames[p][l + 1] BY <2>4
  <2>6. PICK g : g = Append(f, e) OBVIOUS
  <2>7. /\ g \in Seq(Frame) /\ Len(g) = l + 1 /\ g[l + 1] = e
        /\ \A k \in 1..l : g[k] = f[k]
    BY <2>2, <2>3, <2>5, <2>6
  <2>8. file' = [file EXCEPT ![p] = g] BY <1>2, <2>1, <2>2, <2>5, <2>6 DEF TypeOK
  <2>9. /\ file' \in [Process \cup {Out} -> Seq(Frame) \cup {OldFile, Absent}]
        /\ file'[p] = g /\ file'[Out] = file[Out]
        /\ \A q \in Process \ {p} : file'[q] = file[q]
    BY <2>7, <2>8, CaptureAssumption DEF TypeOK
  <2>10. WriteOf(p)'
    <3>1. \A k \in 1..(l + 1) : k = l + 1 \/ k \in 1..l BY <2>3
    <3>2. \A k \in 1..(l + 1) : g[k] = frames[p][k] BY <2>3, <2>5, <2>7, <3>1
    <3>3. l + 1 <= Len(frames[p]) BY <2>4
    <3> QED BY <1>1, <2>7, <2>9, <3>2, <3>3 DEF WriteOf
  <2>11. phase' = [phase EXCEPT ![p] = "writing"] BY <1>1, <1>2 DEF TypeOK
  <2> QED BY <1>1, <2>9, <2>10, <2>11, FileStep
<1>3. CASE phase' = [phase EXCEPT ![p] = "failed"] /\ UNCHANGED file
  <2>1. phase'[p] = "failed" BY <1>3 DEF TypeOK
  <2>2. WriteOf(p)' BY <2>1 DEF WriteOf
  <2> QED BY <1>1, <1>3, <2>2, FileStep DEF TypeOK
<1> QED BY <1>2, <1>3 DEF WriteTmp, Throw, Goto, TmpOf

LEMMA RenameStep ==
  ASSUME IInv, NEW p \in Process, Rename(p), UNCHANGED <<context, chain>>
  PROVE  IInv'
<1> USE DEF IInv
<1>1. /\ phase[p] = "writing" /\ UNCHANGED <<height, parent, block, frames>>
      /\ phase' = [phase EXCEPT ![p] = "written"]
      /\ file' = [file EXCEPT ![Out] = file[p], ![p] = Absent]
      /\ Len(file[p]) = Len(frames[p])
  BY DEF Rename, Goto, TmpOf, capture
<1>2. file[p] = frames[p]
  <2>1. /\ file[p] \in Seq(Frame) /\ \A k \in 1..Len(file[p]) : file[p][k] = frames[p][k]
        /\ frames[p] \in Seq(Frame)
    BY <1>1 DEF CaptureInv, WriteOf, TypeOK
  <2> QED BY <1>1, <2>1
<1>3. /\ file' \in [Process \cup {Out} -> Seq(Frame) \cup {OldFile, Absent}]
      /\ file'[Out] = frames[p]
      /\ \A q \in Process \ {p} : file'[q] = file[q]
  BY <1>1, <1>2, CaptureAssumption DEF TypeOK
<1>4. WriteOf(p)' BY <1>1 DEF WriteOf, TypeOK
<1> QED BY <1>1, <1>3, <1>4, FileStep

LEMMA RenameFailsStep ==
  ASSUME IInv, NEW p \in Process, RenameFails(p), UNCHANGED <<context, chain>>
  PROVE  IInv'
<1> USE DEF IInv
<1>1. /\ phase[p] = "writing" /\ UNCHANGED <<height, parent, block, frames>>
      /\ phase' = [phase EXCEPT ![p] = "failed"]
      /\ file' = [file EXCEPT ![p] = Absent] \/ UNCHANGED file
  BY DEF RenameFails, Throw, Goto, TmpOf, capture
<1>2. /\ file' \in [Process \cup {Out} -> Seq(Frame) \cup {OldFile, Absent}]
      /\ file'[Out] = file[Out]
      /\ \A q \in Process \ {p} : file'[q] = file[q]
  BY <1>1, CaptureAssumption DEF TypeOK
<1>3. WriteOf(p)' BY <1>1 DEF WriteOf, TypeOK
<1> QED BY <1>1, <1>2, <1>3, FileStep

-----------------------------------------------------------------------------
LEMMA InitIInv == Init => IInv
<1> SUFFICES ASSUME Init PROVE IInv OBVIOUS
<1> USE DEF Init
<1>1. TypeOK
  <2>1. \A p \in Process : context[p] \in Context BY CaptureAssumption
  <2>2. height \in [Process -> Nat] /\ parent \in [Process -> Hash] BY <2>1 DEF Context
  <2>3. DOMAIN chain = Process OBVIOUS
  <2>4. ASSUME NEW p \in Process
        PROVE  chain[p] \subseteq Segments(context[p]) /\ \A s, t \in chain[p] : s = t
    BY <2>4
  <2>5. block \in [Process -> Hash] BY ChainAssumption
  <2>6. frames \in [Process -> Seq(Frame)] OBVIOUS
  <2>7. file \in [Process \cup {Out} -> Seq(Frame) \cup {OldFile, Absent}] OBVIOUS
  <2>8. phase \in [Process -> {"start", "refused", "failed", "killed"} \cup Underway] OBVIOUS
  <2> QED BY <2>2, <2>3, <2>4, <2>5, <2>6, <2>7, <2>8 DEF TypeOK
<1>2. CaptureInv BY DEF CaptureInv, CaptureOf, WriteOf, Underway
<1>3. DestinationIsWhole BY DEF DestinationIsWhole
<1>4. HonestNodeSuffices BY DEF HonestNodeSuffices
<1> QED BY <1>1, <1>2, <1>3, <1>4 DEF IInv

LEMMA IInvStep == IInv /\ [Next]_vars => IInv'
<1> SUFFICES ASSUME IInv, [Next]_vars PROVE IInv' OBVIOUS
<1>1. CASE UNCHANGED vars
  <2>1. UNCHANGED <<phase, context, chain, height, parent, block, frames, file>>
    BY <1>1 DEF vars, capture
  <2>2. TypeOK' BY <2>1 DEF IInv, TypeOK
  <2>3. CaptureInv'
    <3> SUFFICES ASSUME NEW p \in Process PROVE CaptureOf(p)' /\ WriteOf(p)' BY DEF CaptureInv
    <3> QED BY <2>1, Unmoved, WriteUnmoved DEF IInv, CaptureInv
  <2> QED BY <2>1, <2>2, <2>3 DEF IInv, DestinationIsWhole, HonestNodeSuffices
<1>2. ASSUME NEW p \in Process, Step(p) \/ Kill(p), UNCHANGED <<context, chain>> PROVE IInv'
  BY <1>2, StartStep, GetBlockStep, GetReceiptsStep, CheckEndStep, OpenTmpStep, WriteTmpStep,
     RenameStep, RenameFailsStep, KillStep DEF Step
<1> QED BY <1>1, <1>2 DEF Next

LEMMA IInvHolds == Spec => []IInv
BY InitIInv, IInvStep, PTL DEF Spec

\* The type invariant.
THEOREM CaptureTypeCorrect == Spec => []TypeOK
<1>1. IInv => TypeOK BY DEF IInv
<1> QED BY IInvHolds, <1>1, PTL

\* A whole path to the end is an honest prover's chunk.
LEMMA WholePath ==
  ASSUME NEW x \in Context, x.from < x.to,
         NEW s \in [(x.from + 1)..x.to -> Block], Links(x, s, x.to), x.end = Tip(x, s, x.to),
         NEW f \in Seq(Frame), Holds(f, x, s, x.to)
  PROVE  s \in Segments(x) /\ Compatible(s) /\ f = HonestFrames(x, s)
<1>1. PICK n \in Nat : n = x.from BY DEF Context
<1>2. PICK m \in Nat : m = x.to BY DEF Context
<1>3. n < m BY <1>1, <1>2
<1>4. s[m] = x.end BY <1>1, <1>2, <1>3 DEF Tip
<1>5. s \in Segments(x) /\ Compatible(s) BY <1>2, <1>4 DEF Segments, Links
<1> DEFINE c == <<ContextFrame(x)>>
           w == [k \in 1..(m - n) |-> WholeBlock(s[n + k])]
<1>6. HonestFrames(x, s) = c \o w BY <1>1, <1>2 DEF HonestFrames, ContextFrame, WholeBlock
<1>7. m - n \in Nat BY <1>3
<1>8. \A k \in 1..(m - n) : WholeBlock(s[n + k]) \in Frame
  <2> SUFFICES ASSUME NEW k \in 1..(m - n) PROVE WholeBlock(s[n + k]) \in Frame OBVIOUS
  <2>1. n + k \in (n + 1)..m BY <1>3
  <2>2. s[n + k] \in Block BY <2>1, <1>1, <1>2
  <2> QED BY <2>2 DEF WholeBlock, Frame
<1>9. w \in Seq(Frame) /\ Len(w) = m - n /\ \A k \in 1..(m - n) : w[k] = WholeBlock(s[n + k])
  BY <1>7, <1>8
<1>10. c \in Seq(Frame) /\ Len(c) = 1 /\ c[1] = ContextFrame(x) BY DEF Frame, ContextFrame
<1> HIDE DEF w, c
<1>11. PICK g : g = c \o w OBVIOUS
<1>12. /\ Len(g) = 1 + (m - n) /\ g[1] = ContextFrame(x) /\ g \in Seq(Frame)
       /\ \A k \in 2..(1 + (m - n)) : g[k] = w[k - 1]
  <2>1. /\ g \in Seq(Frame) /\ Len(g) = Len(c) + Len(w)
        /\ \A k \in 1..(Len(c) + Len(w)) : g[k] = IF k <= Len(c) THEN c[k] ELSE w[k - Len(c)]
    BY <1>9, <1>10, <1>11, ConcatProperties
  <2>2. PICK l \in Nat : l = m - n BY <1>7
  <2>3. \A k \in 1..(1 + l) : g[k] = IF k <= 1 THEN c[k] ELSE w[k - 1]
    BY <1>9, <1>10, <2>1, <2>2
  <2>4. 1 \in 1..(1 + l) /\ \A k \in 2..(1 + l) : k \in 1..(1 + l) /\ ~(k <= 1) BY <2>2
  <2>5. g[1] = c[1] /\ \A k \in 2..(1 + l) : g[k] = w[k - 1] BY <2>3, <2>4
  <2> QED BY <1>9, <1>10, <2>1, <2>2, <2>5
<1>13. /\ Len(f) = 1 + (m - n) /\ f[1] = ContextFrame(x)
       /\ \A k \in (n + 1)..m : f[1 + (k - n)] = WholeBlock(s[k])
  BY <1>1, <1>2 DEF Holds
<1>14. ASSUME NEW k \in 1..(1 + (m - n)) PROVE f[k] = g[k]
  <2>1. CASE k = 1 BY <2>1, <1>12, <1>13
  <2>2. CASE k # 1
    <3>1. /\ k \in 2..(1 + (m - n)) /\ k - 1 \in 1..(m - n) /\ n + (k - 1) \in (n + 1)..m
          /\ 1 + ((n + (k - 1)) - n) = k
      BY <2>2, <1>3
    <3>2. g[k] = WholeBlock(s[n + (k - 1)]) BY <3>1, <1>9, <1>12
    <3>3. f[1 + ((n + (k - 1)) - n)] = WholeBlock(s[n + (k - 1)]) BY <3>1, <1>13
    <3> QED BY <3>1, <3>2, <3>3
  <2> QED BY <2>1, <2>2
<1>15. f = g
  <2>1. Len(f) = Len(g) /\ \A k \in 1..Len(f) : f[k] = g[k] BY <1>12, <1>13, <1>14
  <2> QED BY <2>1, <1>12
<1> QED BY <1>5, <1>6, <1>11, <1>15

\* However many forks the answers come from, the frames that reach the file are those
\* of an honest prover for a segment the context names.
THEOREM CapturedIsHonest == Spec => []CapturedChunkIsHonest
<1>1. IInv => CapturedChunkIsHonest
  <2> SUFFICES ASSUME IInv, NEW p \in Process, phase[p] \in {"captured", "writing", "written"}
               PROVE  /\ ~ContextError(context[p])
                      /\ \E s \in Segments(context[p]) :
                           Compatible(s) /\ frames[p] = HonestFrames(context[p], s)
    BY DEF CapturedChunkIsHonest
  <2>1. PICK x : x = context[p] OBVIOUS
  <2>2. /\ Followed(p) /\ height[p] = x.to /\ parent[p] = x.end
        /\ x \in Context /\ frames[p] \in Seq(Frame)
    BY <2>1, ContextFacts DEF IInv, TypeOK, CaptureInv, CaptureOf, Underway
  <2>3. PICK s \in [(x.from + 1)..x.to -> Block] : Path(p, s) BY <2>1, <2>2 DEF Followed
  <2>4. ~ContextError(x) /\ x.from < x.to BY <2>1, <2>2 DEF Followed, ContextError, Context
  <2>5. s \in Segments(x) /\ Compatible(s) /\ frames[p] = HonestFrames(x, s)
    BY <2>1, <2>2, <2>3, <2>4, WholePath DEF Path
  <2> QED BY <2>1, <2>4, <2>5
<1> QED BY IInvHolds, <1>1, PTL

\* A node that stays on one chain is never refused a chunk the guest's envelope rules
\* allow, in whatever order it lists the receipts of a block.
THEOREM HonestNodeIsEnough == Spec => []HonestNodeSuffices
<1>1. IInv => HonestNodeSuffices BY DEF IInv
<1> QED BY IInvHolds, <1>1, PTL

\* The destination holds what it held or one whole chunk, whoever writes or is killed.
THEOREM DestinationAlwaysWhole == Spec => []DestinationIsWhole
<1>1. IInv => DestinationIsWhole BY DEF IInv
<1> QED BY IInvHolds, <1>1, PTL

=============================================================================
