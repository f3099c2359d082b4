------------------------ MODULE ChunkRelation_proofs ------------------------
(***************************************************************************)
(* What holds of the chunk relation for every chain, every race's terms    *)
(* and every input: its types, that a committed context names exactly one  *)
(* segment of the chain, that uncovered slots stay zero, that the journal  *)
(* publishes that segment's totals and no others (the relation implements  *)
(* RaceVolume), that its diagnostics are exact, and that no honest input   *)
(* is turned away.                                                         *)
(***************************************************************************)
EXTENDS ChunkRelation, TLAPS, FiniteSetTheorems, SequenceTheorems, WellFoundedInduction

Running == phase \in {"blocks", "receipts", "encode", "committed"}

\* Once the context is accepted it stays one a journal may carry, and the frames
\* pulled after it are the blocks up to the height reached.
ReadInv ==
  /\ phase = "context" => read = <<>>
  /\ Running =>
    /\ ~JournalError(c, Zeros, Zeros)
    /\ height \in c.from..c.to
    /\ Len(read) >= height - c.from + 1
    /\ phase \in {"blocks", "receipts"} => Len(read) = height - c.from + 1
    /\ phase \in {"encode", "committed"} => height = c.to
    /\ phase = "receipts" => height > c.from
    /\ \A k \in 2..(height - c.from + 1) : read[k] \in Frame /\ read[k].kind = "block"

Linked(s, lo, hi, before) ==
  \A h \in (lo + 1)..hi :
    /\ Number[s[h]] = h
    /\ Parent[s[h]] = IF h = lo + 1 THEN before ELSE s[h - 1]

\* Where the chain of parents stands: at the block finished last.
Tip == IF phase = "receipts" THEN height - 1 ELSE height

LinkInv ==
  Running =>
    /\ Linked(TheSegment, c.from, height, c.before)
    /\ parent = IF Tip = c.from THEN c.before ELSE TheSegment[Tip]
    /\ phase \in {"encode", "committed"} => parent = c.end

\* Any other linked sequence of headers that meets the one read meets it all the way down.
SameBelow(s) ==
  height > c.from /\ s[height] = TheSegment[height] =>
    \A h \in (c.from + 1)..height : s[h] = TheSegment[h]

UniqueInv == Running => \A s \in Segments(c) : SameBelow(s)

\* Where the visit of the current block stands.
VisitInv ==
  /\ phase \in {"context", "blocks", "encode", "committed"} => todo = {} /\ receipt = -1
  /\ phase = "receipts" =>
       /\ todo \subseteq ReceiptIndices(Header)
       /\ receipt # -1 =>
            /\ receipt \in ReceiptIndices(Header) \ todo
            /\ at \in 0..Len(Current.logs)

ZeroInv ==
  /\ phase = "context" => volumes = Zeros /\ counts = Zeros
  /\ Running => \A i \in Slot \ c.mask : volumes[i] = 0 /\ counts[i] = 0

\* The places already visited.
Done ==
  {p \in AllPlaces :
     \/ p[1] < height
     \/ p[2][1] \notin todo \cup {receipt}
     \/ p[2][1] = receipt /\ p[2][2] <= at}

Counted(i) == Swaps(c.mask, i, TheSegment, Done)

\* What a swap is worth, and what those of a set are together.
Amount(s, p)   == QuoteAmount(LogAt(s[p[1]], p[2][1], p[2][2]))
VolumeOf(s, S) == MapThenSumSet(LAMBDA p : Amount(s, p), S)

CountInv ==
  /\ phase = "context" => volumes = Zeros /\ counts = Zeros
  /\ Running => \A i \in Slot :
       /\ IsFiniteSet(Counted(i))
       /\ counts[i] = Cardinality(Counted(i))
       /\ volumes[i] = VolumeOf(TheSegment, Counted(i))

JournalInv ==
  journal = IF phase = "committed"
            THEN [context |-> c, volumeQuote |-> volumes, swapCount |-> counts]
            ELSE NoJournal

IInv == TypeOK /\ ReadInv /\ VisitInv

-----------------------------------------------------------------------------
(***************************************************************************)
(* Sums over a finite set: MapThenSumSet takes its elements away one by    *)
(* one.  w weighs the elements; h, the sums of all subsets, is a solution  *)
(* of that recursion.                                                      *)
(***************************************************************************)
\* The least number principle, as a fact about sets.
LEMMA HasLeast ==
  ASSUME NEW S \in SUBSET Nat, S # {}
  PROVE  \E m \in S : \A k \in S : m <= k
<1> DEFINE R == {ss \in Nat \X Nat : ss[1] < ss[2]}
<1>1. IsWellFoundedOn(R, Nat) BY NatLessThanWellFounded DEF OpToRel
<1>2. PICK x \in S : \A y \in S : ~(<<y, x>> \in R)
  <2> HIDE DEF R
  <2> QED BY <1>1, WFMin
<1>3. \A y \in S : ~(y < x) BY <1>2
<1> QED BY <1>3

\* Of the subsets of a finite set in some family, one loses it with any element.
LEMMA HasLeastSet ==
  ASSUME NEW S, IsFiniteSet(S), NEW Bad \in SUBSET (SUBSET S), Bad # {}
  PROVE  \E s \in Bad : \A x \in s : s \ {x} \notin Bad
<1> DEFINE sizes == {Cardinality(s) : s \in Bad}
<1>1. \A s \in Bad : IsFiniteSet(s) /\ Cardinality(s) \in Nat BY FS_Subset, FS_CardinalityType
<1>2. PICK m \in sizes : \A k \in sizes : m <= k
  <2>1. sizes \in SUBSET Nat /\ sizes # {} BY <1>1
  <2> HIDE DEF sizes
  <2> QED BY <2>1, HasLeast
<1>3. PICK s \in Bad : m = Cardinality(s) OBVIOUS
<1>4. ASSUME NEW x \in s, s \ {x} \in Bad PROVE FALSE
  <2>1. Cardinality(s \ {x}) = Cardinality(s) - 1 BY <1>1, FS_RemoveElement
  <2>2. Cardinality(s) <= Cardinality(s \ {x}) BY <1>2, <1>3, <1>4
  <2> QED BY <1>1, <2>1, <2>2
<1> QED BY <1>4

First(s) == CHOOSE x \in s : TRUE

AddFirst(w, h, s) == IF s = {} THEN 0 ELSE w[First(s)] + h[s \ {First(s)}]

Adds(h, w, S)  == \A s \in SUBSET S : h[s] = AddFirst(w, h, s)
IsSum(h, w, S) == h \in [SUBSET S -> Nat] /\ Adds(h, w, S)

LEMMA FirstIn == ASSUME NEW s, s # {} PROVE First(s) \in s
BY DEF First

\* Two solutions agree.
LEMMA SumsAgree ==
  ASSUME NEW S, IsFiniteSet(S), NEW R, S \subseteq R, NEW w, NEW g, NEW h, Adds(g, w, S), Adds(h, w, R)
  PROVE  \A s \in SUBSET S : g[s] = h[s]
<1> DEFINE Bad == {s \in SUBSET S : g[s] # h[s]}
<1> SUFFICES ASSUME Bad # {} PROVE FALSE OBVIOUS
<1>1. PICK s \in Bad : \A x \in s : s \ {x} \notin Bad
  <2>1. Bad \in SUBSET (SUBSET S) OBVIOUS
  <2> HIDE DEF Bad
  <2> QED BY <2>1, HasLeastSet
<1>2. s \in SUBSET S /\ s \in SUBSET R /\ g[s] # h[s] OBVIOUS
<1>3. g[s] = AddFirst(w, g, s) /\ h[s] = AddFirst(w, h, s) BY <1>2 DEF Adds
<1>4. s # {} BY <1>2, <1>3 DEF AddFirst
<1>5. First(s) \in s BY <1>4, FirstIn
<1>6. g[s \ {First(s)}] = h[s \ {First(s)}] BY <1>1, <1>2, <1>5
<1> QED BY <1>2, <1>3, <1>4, <1>6 DEF AddFirst

\* A solution adds any element last.
LEMMA SumsAdd ==
  ASSUME NEW S, IsFiniteSet(S), NEW w, \A x \in S : w[x] \in Nat, NEW h, IsSum(h, w, S),
         NEW s \in SUBSET S, NEW x \in s
  PROVE  h[s] = w[x] + h[s \ {x}]
<1> DEFINE Bad == {t \in SUBSET S : \E y \in t : h[t] # w[y] + h[t \ {y}]}
<1> SUFFICES ASSUME Bad # {} PROVE FALSE OBVIOUS
<1>1. PICK t \in Bad : \A y \in t : t \ {y} \notin Bad
  <2>1. Bad \in SUBSET (SUBSET S) OBVIOUS
  <2> HIDE DEF Bad
  <2> QED BY <2>1, HasLeastSet
<1>2. PICK y \in t : h[t] # w[y] + h[t \ {y}] OBVIOUS
<1>3. t \in SUBSET S /\ t # {} OBVIOUS
<1>4. PICK z \in t : z = First(t) BY <1>3, FirstIn
<1>5. h[t] = w[z] + h[t \ {z}] BY <1>3, <1>4 DEF IsSum, Adds, AddFirst
<1>6. y # z BY <1>2, <1>5
<1>7. h[t \ {z}] = w[y] + h[(t \ {z}) \ {y}]
  <2>1. t \ {z} \notin Bad /\ y \in t \ {z} /\ t \ {z} \in SUBSET S BY <1>1, <1>3, <1>6
  <2> QED BY <2>1
<1>8. h[t \ {y}] = w[z] + h[(t \ {y}) \ {z}]
  <2>1. t \ {y} \notin Bad /\ z \in t \ {y} /\ t \ {y} \in SUBSET S BY <1>1, <1>3, <1>6
  <2> QED BY <2>1
<1>9. (t \ {z}) \ {y} = (t \ {y}) \ {z} OBVIOUS
<1>10. w[y] \in Nat /\ w[z] \in Nat /\ h[(t \ {y}) \ {z}] \in Nat
  <2>1. y \in S /\ z \in S /\ (t \ {y}) \ {z} \in SUBSET S BY <1>3
  <2> QED BY <2>1 DEF IsSum
<1>11. PICK n \in Nat : n = h[(t \ {y}) \ {z}] BY <1>10
<1>12. h[t \ {z}] = w[y] + n BY <1>7, <1>9, <1>11
<1>13. h[t \ {y}] = w[z] + n BY <1>8, <1>11
<1>14. w[y] + h[t \ {y}] = w[z] + h[t \ {z}] BY <1>10, <1>12, <1>13
<1> QED BY <1>2, <1>5, <1>14

Upto(S, n) == {s \in SUBSET S : Cardinality(s) <= n}

SumsUpto(w, S, n) ==
  {h \in [Upto(S, n) -> Nat] : \A s \in Upto(S, n) : h[s] = AddFirst(w, h, s)}

LEMMA WithoutFirst ==
  ASSUME NEW S, IsFiniteSet(S), NEW n \in Nat, NEW s \in Upto(S, n), s # {}
  PROVE  First(s) \in S /\ n # 0 /\ s \ {First(s)} \in Upto(S, n - 1)
<1>1. First(s) \in s BY FirstIn
<1>2. s \in SUBSET S /\ Cardinality(s) <= n BY DEF Upto
<1>3. IsFiniteSet(s) /\ Cardinality(s) \in Nat BY <1>2, FS_Subset, FS_CardinalityType
<1>4. Cardinality(s \ {First(s)}) = Cardinality(s) - 1 /\ Cardinality(s) # 0
  BY <1>1, <1>3, FS_RemoveElement, FS_EmptySet
<1> QED BY <1>1, <1>2, <1>3, <1>4 DEF Upto

LEMMA SumsUptoExist ==
  ASSUME NEW S, IsFiniteSet(S), NEW w, \A x \in S : w[x] \in Nat, NEW n \in Nat
  PROVE  SumsUpto(w, S, n) # {}
<1> DEFINE bad == {m \in Nat : SumsUpto(w, S, m) = {}}
<1> SUFFICES ASSUME bad # {} PROVE FALSE OBVIOUS
<1>1. PICK m \in bad : \A k \in bad : m <= k
  <2>1. bad \in SUBSET Nat OBVIOUS
  <2> HIDE DEF bad
  <2> QED BY <2>1, HasLeast
<1>2. m \in Nat /\ SumsUpto(w, S, m) = {} OBVIOUS
<1>3. CASE m = 0
  <2>1. PICK h : h = [s \in Upto(S, 0) |-> 0] OBVIOUS
  <2>2. \A s \in Upto(S, 0) : s = {} BY WithoutFirst
  <2>3. h \in SumsUpto(w, S, 0) BY <2>1, <2>2 DEF SumsUpto, AddFirst
  <2> QED BY <1>2, <1>3, <2>3
<1>4. CASE m # 0
  <2>1. PICK k \in Nat : k = m - 1 BY <1>2, <1>4
  <2>2. k \notin bad
    <3> HIDE DEF bad
    <3> QED BY <1>1, <1>2, <2>1
  <2>3. PICK g \in [Upto(S, k) -> Nat] : \A s \in Upto(S, k) : g[s] = AddFirst(w, g, s)
    BY <2>2 DEF SumsUpto
  <2>4. PICK h : h = [s \in Upto(S, m) |-> AddFirst(w, g, s)] OBVIOUS
  <2>5. Upto(S, k) \subseteq Upto(S, m)
    <3> SUFFICES ASSUME NEW s \in Upto(S, k) PROVE Cardinality(s) <= m BY DEF Upto
    <3>1. Cardinality(s) \in Nat /\ Cardinality(s) <= k BY FS_Subset, FS_CardinalityType DEF Upto
    <3> QED BY <1>2, <2>1, <3>1
  <2>6. \A s \in Upto(S, k) : h[s] = g[s] BY <2>3, <2>4, <2>5
  <2>7. ASSUME NEW s \in Upto(S, m)
        PROVE  AddFirst(w, g, s) \in Nat /\ AddFirst(w, h, s) = AddFirst(w, g, s)
    <3>1. CASE s = {} BY <3>1 DEF AddFirst
    <3>2. CASE s # {}
      <4>1. First(s) \in S /\ s \ {First(s)} \in Upto(S, k) BY <1>2, <2>1, <3>2, WithoutFirst
      <4> QED BY <2>3, <2>6, <3>2, <4>1 DEF AddFirst
    <3> QED BY <3>1, <3>2
  <2>8. h \in SumsUpto(w, S, m) BY <2>4, <2>7 DEF SumsUpto
  <2> QED BY <1>2, <2>8
<1> QED BY <1>3, <1>4

LEMMA SumsExist ==
  ASSUME NEW S, IsFiniteSet(S), NEW w, \A x \in S : w[x] \in Nat
  PROVE  \E h : IsSum(h, w, S)
<1>1. PICK n \in Nat : n = Cardinality(S) BY FS_CardinalityType
<1>2. Upto(S, n) = SUBSET S
  <2> SUFFICES ASSUME NEW s \in SUBSET S PROVE Cardinality(s) <= n BY DEF Upto
  <2> QED BY <1>1, FS_Subset
<1>3. PICK h : h \in SumsUpto(w, S, n) BY SumsUptoExist
<1> QED BY <1>2, <1>3 DEF SumsUpto, IsSum, Adds

\* More elements add up to no less.
LEMMA SumsGrow ==
  ASSUME NEW S, IsFiniteSet(S), NEW w, \A x \in S : w[x] \in Nat, NEW h, IsSum(h, w, S),
         NEW u \in SUBSET S, NEW s \in SUBSET u
  PROVE  h[s] <= h[u]
<1> DEFINE Bad == {t \in SUBSET S : s \subseteq t /\ ~(h[s] <= h[t])}
<1> SUFFICES ASSUME Bad # {} PROVE FALSE OBVIOUS
<1>1. PICK t \in Bad : \A y \in t : t \ {y} \notin Bad
  <2>1. Bad \in SUBSET (SUBSET S) OBVIOUS
  <2> HIDE DEF Bad
  <2> QED BY <2>1, HasLeastSet
<1>2. t \in SUBSET S /\ s \subseteq t /\ ~(h[s] <= h[t]) OBVIOUS
<1>3. \A r \in SUBSET S : h[r] \in Nat BY DEF IsSum
<1>4. h[s] \in Nat /\ h[t] \in Nat BY <1>2, <1>3
<1>5. t # s BY <1>2, <1>4
<1>6. PICK x \in t : x \notin s BY <1>2, <1>5
<1>7. t \ {x} \in SUBSET S /\ s \subseteq t \ {x} /\ w[x] \in Nat BY <1>2, <1>6
<1>8. h[s] <= h[t \ {x}] BY <1>1, <1>6, <1>7
<1>9. h[t] = w[x] + h[t \ {x}] BY <1>2, <1>6, SumsAdd
<1>10. h[t \ {x}] \in Nat BY <1>3, <1>7
<1> HIDE DEF Bad
<1> QED BY <1>2, <1>4, <1>7, <1>8, <1>9, <1>10

\* What MapThenSumSet computes is such a solution.
AddAmount(sg, f, t) ==
  IF t = {} THEN 0 ELSE LET x == CHOOSE y \in t : TRUE IN Amount(sg, x) + f[t \ {x}]

LEMMA VolumeIsSum ==
  ASSUME NEW S, IsFiniteSet(S), NEW sg, NEW w, \A x \in S : w[x] = Amount(sg, x) /\ w[x] \in Nat,
         NEW R, IsFiniteSet(R), S \subseteq R, NEW h, IsSum(h, w, R), \A x \in R : w[x] \in Nat
  PROVE  VolumeOf(sg, S) = h[S]
<1> DEFINE it == CHOOSE f : f = [t \in SUBSET S |-> AddAmount(sg, f, t)]
<1>1. VolumeOf(sg, S) = it[S]
  BY DEF VolumeOf, MapThenSumSet, MapThenFoldSet, AddAmount
<1>2. PICK g : IsSum(g, w, S) BY SumsExist
<1>3. ASSUME NEW f, NEW t \in SUBSET S PROVE AddAmount(sg, f, t) = AddFirst(w, f, t)
  BY FirstIn DEF AddAmount, AddFirst, First
<1>4. g = [t \in SUBSET S |-> AddAmount(sg, g, t)] BY <1>2, <1>3 DEF IsSum, Adds
<1>5. it = [t \in SUBSET S |-> AddAmount(sg, it, t)] BY <1>4
<1> HIDE DEF it
<1>6. Adds(it, w, S)
  <2> SUFFICES ASSUME NEW t \in SUBSET S PROVE it[t] = AddFirst(w, it, t) BY DEF Adds
  <2>1. it[t] = AddAmount(sg, it, t) BY <1>5
  <2> QED BY <1>3, <2>1
<1>7. Adds(h, w, R) BY DEF IsSum
<1>8. \A s \in SUBSET S : it[s] = h[s] BY <1>6, <1>7, SumsAgree
<1> QED BY <1>1, <1>8

LEMMA VolumeFacts ==
  ASSUME NEW S, IsFiniteSet(S), NEW sg, NEW q, q \notin S,
         \A x \in S \cup {q} : Amount(sg, x) \in Nat
  PROVE  /\ VolumeOf(sg, S) \in Nat
         /\ VolumeOf(sg, S \cup {q}) = VolumeOf(sg, S) + Amount(sg, q)
<1> DEFINE R == S \cup {q}
<1>1. IsFiniteSet(R) BY FS_AddElement
<1>2. PICK w : w = [x \in R |-> Amount(sg, x)] OBVIOUS
<1>3. \A x \in R : w[x] = Amount(sg, x) /\ w[x] \in Nat BY <1>2
<1>4. S \subseteq R /\ q \in R /\ R \ {q} = S OBVIOUS
<1> HIDE DEF R
<1>5. PICK h : IsSum(h, w, R) BY <1>1, <1>3, SumsExist
<1>6. VolumeOf(sg, S) = h[S] BY <1>1, <1>3, <1>4, <1>5, VolumeIsSum
<1>7. VolumeOf(sg, R) = h[R] BY <1>1, <1>3, <1>5, VolumeIsSum
<1>8. h[R] = w[q] + h[R \ {q}]
  <2>1. R \in SUBSET R OBVIOUS
  <2> QED BY <1>1, <1>3, <1>4, <1>5, <2>1, SumsAdd
<1>9. h[S] \in Nat /\ w[q] \in Nat BY <1>3, <1>4, <1>5 DEF IsSum
<1>10. VolumeOf(sg, R) = VolumeOf(sg, S) + Amount(sg, q)
  <2>1. h[R] = w[q] + h[S] BY <1>4, <1>8
  <2>2. w[q] = Amount(sg, q) BY <1>3, <1>4
  <2> QED BY <1>6, <1>7, <1>9, <2>1, <2>2
<1>11. VolumeOf(sg, S) \in Nat BY <1>6, <1>9
<1> QED BY <1>10, <1>11 DEF R

LEMMA VolumeEmpty == ASSUME NEW sg PROVE VolumeOf(sg, {}) = 0
<1>1. PICK w : w = [x \in {} |-> 0] OBVIOUS
<1>2. IsFiniteSet({}) BY FS_EmptySet
<1>3. PICK h : IsSum(h, w, {}) BY <1>2, SumsExist
<1>4. VolumeOf(sg, {}) = h[{}] BY <1>2, <1>3, VolumeIsSum
<1> QED BY <1>3, <1>4 DEF IsSum, Adds, AddFirst

\* The sum depends on what the places of the set are worth and on nothing else.
LEMMA VolumeSame ==
  ASSUME NEW S, IsFiniteSet(S), NEW r, NEW s,
         \A x \in S : Amount(r, x) = Amount(s, x) /\ Amount(s, x) \in Nat
  PROVE  VolumeOf(r, S) = VolumeOf(s, S)
<1>1. PICK w : w = [x \in S |-> Amount(s, x)] OBVIOUS
<1>2. PICK h : IsSum(h, w, S) BY <1>1, SumsExist
<1>3. VolumeOf(r, S) = h[S] BY <1>1, <1>2, VolumeIsSum
<1>4. VolumeOf(s, S) = h[S] BY <1>1, <1>2, VolumeIsSum
<1> QED BY <1>3, <1>4

LEMMA VolumeGrows ==
  ASSUME NEW R, IsFiniteSet(R), NEW sg, \A x \in R : Amount(sg, x) \in Nat, NEW S \in SUBSET R
  PROVE  /\ VolumeOf(sg, S) \in Nat /\ VolumeOf(sg, R) \in Nat
         /\ VolumeOf(sg, S) <= VolumeOf(sg, R)
<1>1. PICK w : w = [x \in R |-> Amount(sg, x)] OBVIOUS
<1>2. \A x \in R : w[x] = Amount(sg, x) /\ w[x] \in Nat BY <1>1
<1>3. PICK h : IsSum(h, w, R) BY <1>2, SumsExist
<1>4. IsFiniteSet(S) BY FS_Subset
<1>5. \A x \in S : w[x] = Amount(sg, x) /\ w[x] \in Nat BY <1>2
<1>6. VolumeOf(sg, S) = h[S] BY <1>2, <1>3, <1>4, <1>5, VolumeIsSum
<1>7. VolumeOf(sg, R) = h[R] BY <1>2, <1>3, VolumeIsSum
<1>8. h[S] <= h[R] BY <1>2, <1>3, SumsGrow
<1>9. R \in SUBSET R OBVIOUS
<1>10. h[S] \in Nat /\ h[R] \in Nat BY <1>3, <1>9 DEF IsSum
<1> QED BY <1>6, <1>7, <1>8, <1>10

-----------------------------------------------------------------------------
LEMMA LogType ==
  ASSUME NEW b \in Block, NEW r \in ReceiptIndices(b)
  PROVE  /\ ReceiptAt(b, r) \in Receipt
         /\ Len(ReceiptAt(b, r).logs) \in Nat
         /\ \A l \in 1..Len(ReceiptAt(b, r).logs) : LogAt(b, r, l) \in Log
<1>1. Receipts[b] \in Seq(Receipt)
  BY ChainAssumption
<1>2. r + 1 \in 1..Len(Receipts[b])
  BY <1>1 DEF ReceiptIndices
<1>3. ReceiptAt(b, r) \in Receipt
  BY <1>1, <1>2 DEF ReceiptAt
<1>4. ReceiptAt(b, r).logs \in Seq(Log)
  BY <1>3 DEF Receipt
<1> QED
  BY <1>3, <1>4 DEF LogAt

LEMMA QuoteAmountType ==
  ASSUME NEW log \in Log
  PROVE  QuoteAmount(log) \in Nat
BY DEF QuoteAmount, Log

\* A walk under way has a block to walk.
LEMMA HeaderType ==
  ASSUME IInv, phase = "receipts"
  PROVE  /\ Header \in Block
         /\ TheFrame = read[height - c.from + 1]
         /\ Header = TheSegment[height]
<1>1. /\ Len(read) = height - c.from + 1 /\ height > c.from
      /\ TheFrame \in Frame /\ TheFrame.kind = "block"
      /\ height \in Nat /\ c.from \in Nat
  BY DEF IInv, ReadInv, TypeOK, Running, Context
<1>2. Header \in Block
  BY <1>1, FrameAssumption DEF Header, FrameType
<1> QED
  BY <1>1, <1>2 DEF TheFrame, Header, TheSegment

\* What the next log is, and what it does to the totals.
LEMMA LogStep ==
  ASSUME IInv, LogsLeft
  PROVE  /\ TheLog \in Log
         /\ receipt \in ReceiptIndices(Header) /\ at + 1 \in 1..Len(Current.logs)
         /\ Contributes => SlotOf(TheLog) \in Slot /\ QuoteAmount(TheLog) \in Nat
<1>1. Header \in Block /\ receipt \in ReceiptIndices(Header) /\ at \in 0..Len(Current.logs)
  BY HeaderType DEF LogsLeft, IInv, VisitInv
<1>2. Len(Current.logs) \in Nat
  BY <1>1, LogType DEF Current
<1>3. at + 1 \in 1..Len(Current.logs)
  BY <1>1, <1>2 DEF LogsLeft
<1>4. TheLog \in Log
  BY <1>1, <1>3, LogType DEF TheLog, Current
<1>5. Contributes => SlotOf(TheLog) \in Slot
  BY DEF Contributes, IInv, TypeOK, Context
<1> QED
  BY <1>1, <1>3, <1>4, <1>5, QuoteAmountType

LEMMA InitIInv == Init => IInv
BY ChainAssumption, TermsAssumption, FrameAssumption
   DEF Init, IInv, TypeOK, ReadInv, VisitInv, Running, EmptyContext, Context, Zeros, Input
\* A failure keeps everything else as it was.
LEMMA FailIInv == ASSUME IInv, Fail, read' \in Seq(Input) PROVE IInv'
BY DEF IInv, TypeOK, ReadInv, VisitInv, Running, Fail, position, totals, diagnostics

LEMMA ReadContextIInv == ASSUME IInv, ReadContext PROVE IInv'
<1>1. PICK f \in Input : /\ read' = Append(read, f)
                         /\ \/ Fail
                            \/ /\ ~BadContext(f)
                               /\ phase' = "blocks" /\ c' = f.context
                               /\ height' = f.context.from /\ parent' = f.context.before
                               /\ UNCHANGED <<todo, receipt, at, totals, diagnostics, journal>>
  BY DEF ReadContext
<1>2. read' \in Seq(Input)
  BY <1>1 DEF IInv, TypeOK
<1>3. CASE Fail
  BY <1>2, <1>3, FailIInv
<1>4. CASE ~Fail
  <2>1. f \in Frame /\ f.kind = "context" /\ ~JournalError(f.context, Zeros, Zeros)
    BY <1>1, <1>4 DEF BadContext, Input
  <2>2. f.context \in Context
    BY <2>1, FrameAssumption DEF FrameType
  <2>3. c' \in Context /\ height' \in Nat /\ parent' \in Hash
    BY <1>1, <1>4, <2>2 DEF Context
  <2>4. f.context.from < f.context.to /\ f.context.from \in Nat /\ f.context.to \in Nat
    BY <2>1, <2>2 DEF JournalError, ContextError, Context
  <2>5. phase = "context" /\ read = <<>> /\ todo = {} /\ receipt = -1 /\ Len(read') = 1
    BY <1>1 DEF ReadContext, IInv, ReadInv, VisitInv
  <2>6. TypeOK'
    BY <1>1, <1>2, <1>4, <2>3 DEF IInv, TypeOK, totals, diagnostics
  <2>7. ReadInv'
    BY <1>1, <1>4, <2>1, <2>4, <2>5 DEF ReadInv, Running
  <2>8. VisitInv'
    BY <1>1, <1>4, <2>5 DEF VisitInv
  <2> QED
    BY <2>6, <2>7, <2>8 DEF IInv
<1> QED
  BY <1>3, <1>4

LEMMA ReadBlockIInv == ASSUME IInv, ReadBlock PROVE IInv'
<1>1. PICK f \in Input : /\ read' = Append(read, f)
                         /\ \/ Fail
                            \/ /\ ~BadBlock(f)
                               /\ phase' = "receipts" /\ height' = height + 1
                               /\ todo' = ReceiptIndices(f.header)
                               /\ UNCHANGED <<c, parent, receipt, at, totals, diagnostics, journal>>
  BY DEF ReadBlock
<1>2. read' \in Seq(Input) /\ Len(read') = Len(read) + 1 /\ read'[Len(read')] = f
      /\ \A k \in 1..Len(read) : read'[k] = read[k]
  BY <1>1 DEF IInv, TypeOK
<1>3. CASE Fail
  BY <1>2, <1>3, FailIInv
<1>4. CASE ~Fail
  <2>1. f \in Frame /\ f.kind = "block"
    BY <1>1, <1>4 DEF BadBlock, Input
  <2>2. /\ Len(read) = height - c.from + 1 /\ height >= c.from /\ height < c.to
        /\ c.from \in Nat /\ c.to \in Nat /\ height \in Nat /\ receipt = -1
    BY DEF ReadBlock, IInv, ReadInv, VisitInv, TypeOK, Running, Context
  <2>3. f.header \in Block /\ TheFrame' = f /\ Header' = f.header
    BY <1>2, <2>1, FrameAssumption DEF FrameType, TheFrame, Header
  <2>4. todo' \subseteq Nat
    BY <1>1, <1>4, <2>3, ChainAssumption DEF ReceiptIndices
  <2>5. TypeOK'
    <3>1. read' # <<>> /\ phase' = "receipts" /\ TheFrame' \in Frame /\ TheFrame'.kind = "block"
      BY <1>1, <1>2, <1>4, <2>1, <2>3
    <3>2. height' \in Nat /\ c' = c /\ parent' = parent /\ receipt' = receipt /\ at' = at
          /\ UNCHANGED <<volumes, counts, blocks, receipts, failed, logs, journal>>
      BY <1>1, <1>4, <2>2 DEF totals, diagnostics
    <3> QED
      BY <1>2, <2>4, <3>1, <3>2 DEF IInv, TypeOK
  <2>6. ReadInv'
    <3>1. \A k \in 2..(height' - c'.from + 1) : read'[k] \in Frame /\ read'[k].kind = "block"
      BY <1>1, <1>2, <1>4, <2>1, <2>2 DEF ReadBlock, IInv, ReadInv, Running
    <3>2. ~JournalError(c, Zeros, Zeros)'
      BY <1>1, <1>4 DEF ReadBlock, IInv, ReadInv, Running
    <3>3. /\ height' \in c'.from..c'.to /\ Len(read') = height' - c'.from + 1
          /\ height' > c'.from /\ phase' = "receipts"
      BY <1>1, <1>2, <1>4, <2>2
    <3> QED
      BY <3>1, <3>2, <3>3 DEF ReadInv
  <2>7. VisitInv'
    BY <1>1, <1>4, <2>2, <2>3 DEF VisitInv
  <2> QED
    BY <2>5, <2>6, <2>7 DEF IInv
<1> QED
  BY <1>3, <1>4

\* Steps inside a block leave the frames, and so the block, alone.
LEMMA SameFrames ==
  ASSUME UNCHANGED <<read, height, c>>
  PROVE  UNCHANGED <<TheFrame, Header, TheSegment, AllPlaces>>
BY DEF TheFrame, Header, TheSegment, AllPlaces, Places

LEMMA VisitReceiptIInv == ASSUME IInv, VisitReceipt PROVE IInv'
<1>1. CASE Fail
  BY <1>1, FailIInv DEF VisitReceipt, Reject, IInv, TypeOK
<1>2. CASE ~Fail
  <2>1. PICK r \in todo :
          /\ receipt' = r /\ at' = 0 /\ todo' = todo \ {r}
          /\ UNCHANGED <<phase, c, read, height, parent, totals, diagnostics, journal>>
    BY <1>2 DEF VisitReceipt, Reject, Remaining
  <2>2. Header \in Block /\ todo \subseteq ReceiptIndices(Header) /\ r \in Nat
    BY HeaderType DEF VisitReceipt, IInv, VisitInv, TypeOK
  <2>3. Len(ReceiptAt(Header, r).logs) \in Nat
    BY <2>2, LogType
  <2>4. TypeOK' /\ ReadInv'
    BY <2>1, <2>2, SameFrames DEF IInv, TypeOK, ReadInv, Running, totals, diagnostics
  <2>5. VisitInv'
    BY <2>1, <2>2, <2>3, SameFrames DEF VisitInv, VisitReceipt, Current
  <2> QED
    BY <2>4, <2>5 DEF IInv
<1> QED
  BY <1>1, <1>2

LEMMA VisitLogIInv == ASSUME IInv, VisitLog PROVE IInv'
<1>1. CASE Fail
  BY <1>1, FailIInv DEF VisitLog, Reject, IInv, TypeOK
<1>2. CASE ~Fail
  <2>1. /\ ~BadLog /\ at' = at + 1
        /\ IF Contributes
           THEN /\ volumes' = [volumes EXCEPT ![SlotOf(TheLog)] = @ + QuoteAmount(TheLog)]
                /\ counts' = [counts EXCEPT ![SlotOf(TheLog)] = @ + 1]
           ELSE UNCHANGED totals
        /\ UNCHANGED <<phase, c, read, height, parent, todo, receipt, diagnostics, journal>>
    BY <1>2 DEF VisitLog, Reject
  <2>2. LogsLeft /\ phase = "receipts" /\ receipt # -1
    BY DEF VisitLog, LogsLeft
  <2>3. volumes' \in [Slot -> 0..MaxU256] /\ counts' \in [Slot -> 0..MaxU256]
    <3>1. CASE Contributes
      <4>1. /\ volumes[SlotOf(TheLog)] + QuoteAmount(TheLog) \in 0..MaxU256
            /\ counts[SlotOf(TheLog)] + 1 \in 0..MaxU256
        <5> DEFINE slot == SlotOf(TheLog)  amount == QuoteAmount(TheLog)
        <5>1. /\ slot \in Slot /\ amount \in Nat
              /\ ~(volumes[slot] + amount > MaxU256) /\ ~(counts[slot] + 1 > MaxU256)
          BY <2>1, <2>2, <3>1, LogStep DEF BadLog, Overflows
        <5>2. volumes[slot] \in 0..MaxU256 /\ counts[slot] \in 0..MaxU256 /\ MaxU256 \in Nat
          BY <5>1, TermsAssumption DEF IInv, TypeOK
        <5> QED
          BY <5>1, <5>2
      <4> QED
        BY <2>1, <2>2, <3>1, <4>1, LogStep DEF IInv, TypeOK
    <3>2. CASE ~Contributes
      BY <2>1, <3>2 DEF totals, IInv, TypeOK
    <3> QED
      BY <3>1, <3>2
  <2>4. TypeOK' /\ ReadInv'
    BY <2>1, <2>3, SameFrames DEF IInv, TypeOK, ReadInv, Running, diagnostics
  <2>5. VisitInv'
    <3>1. at + 1 \in 0..Len(Current.logs) /\ Current' = Current
      BY <2>1, <2>2, LogStep, SameFrames DEF Current
    <3> QED
      BY <2>1, <2>2, <3>1, SameFrames DEF VisitInv, IInv
  <2> QED
    BY <2>4, <2>5 DEF IInv
<1> QED
  BY <1>1, <1>2

LEMMA FinishReceiptIInv == ASSUME IInv, FinishReceipt PROVE IInv'
<1>1. CASE Fail
  BY <1>1, FailIInv DEF FinishReceipt, Reject, IInv, TypeOK
<1>2. CASE ~Fail
  <2>1. /\ logs + at <= MaxU64 /\ failed + Failure <= MaxU64
        /\ logs' = logs + at /\ failed' = failed + Failure
        /\ receipt' = -1 /\ at' = 0
        /\ UNCHANGED <<phase, c, read, height, parent, todo, totals, blocks, receipts, journal>>
    BY <1>2, FrameAssumption DEF FinishReceipt, Reject, IInv, TypeOK, Failure
  <2>2. logs' \in 0..MaxU64 /\ failed' \in 0..MaxU64
    BY <2>1, FrameAssumption DEF IInv, TypeOK, Failure
  <2>3. TypeOK' /\ ReadInv'
    BY <2>1, <2>2, SameFrames DEF IInv, TypeOK, ReadInv, Running, totals
  <2>4. VisitInv'
    BY <2>1, SameFrames DEF IInv, VisitInv
  <2> QED
    BY <2>3, <2>4 DEF IInv
<1> QED
  BY <1>1, <1>2

LEMMA TrieFailsIInv == ASSUME IInv, TrieFails PROVE IInv'
BY FailIInv DEF TrieFails, Reject, IInv, TypeOK

LEMMA FinishBlockIInv == ASSUME IInv, FinishBlock PROVE IInv'
<1>1. CASE Fail
  BY <1>1, FailIInv DEF FinishBlock, Reject, IInv, TypeOK
<1>2. CASE ~Fail
  <2>1. Header \in Block /\ Len(Receipts[Header]) \in Nat
    BY HeaderType, ChainAssumption DEF FinishBlock
  <2>2. /\ receipts' = receipts + Len(Receipts[Header]) /\ blocks' = blocks + 1
        /\ receipts' <= MaxU64 /\ blocks' <= MaxU64
        /\ parent' = Header /\ phase' = "blocks"
        /\ UNCHANGED <<c, read, height, todo, receipt, at, totals, failed, logs, journal>>
    BY <1>2, <2>1, FrameAssumption DEF FinishBlock, Reject, IInv, TypeOK
  <2>3. receipts' \in 0..MaxU64 /\ blocks' \in 0..MaxU64 /\ parent' \in Hash
    BY <2>1, <2>2, FrameAssumption, ChainAssumption DEF IInv, TypeOK
  <2>4. TypeOK'
    BY <2>2, <2>3 DEF IInv, TypeOK, totals
  <2>5. ReadInv' /\ VisitInv'
    BY <2>2, SameFrames DEF FinishBlock, IInv, ReadInv, VisitInv, Running
  <2> QED
    BY <2>4, <2>5 DEF IInv
<1> QED
  BY <1>1, <1>2

LEMMA ReadEndIInv == ASSUME IInv, ReadEnd PROVE IInv'
<1>1. CASE Fail
  <2>1. read' = read \/ \E f \in Input : read' = Append(read, f)
    BY DEF ReadEnd, Reject
  <2>2. read' \in Seq(Input)
    <3>1. CASE read' = read
      BY <3>1 DEF IInv, TypeOK
    <3>2. CASE \E f \in Input : read' = Append(read, f)
      BY <3>2 DEF IInv, TypeOK
    <3> QED
      BY <2>1, <3>1, <3>2
  <2> QED
    BY <1>1, <2>2, FailIInv
<1>2. CASE ~Fail
  <2>1. PICK f \in Input :
          /\ read' = Append(read, f) /\ phase' = "encode"
          /\ UNCHANGED <<c, position, totals, diagnostics, journal>>
    BY <1>2 DEF ReadEnd, Reject
  <2>2. /\ read' \in Seq(Input) /\ Len(read') = Len(read) + 1
        /\ \A k \in 1..Len(read) : read'[k] = read[k]
    BY <2>1 DEF IInv, TypeOK
  <2>3. TypeOK'
    BY <2>1, <2>2 DEF IInv, TypeOK, position, totals, diagnostics
  <2>4. ReadInv'
    <3>1. /\ Len(read) = height - c.from + 1 /\ c.from \in Nat /\ height \in Nat
          /\ height = c.to
      BY DEF ReadEnd, IInv, ReadInv, Running, TypeOK, Context
    <3> QED
      BY <2>1, <2>2, <3>1 DEF ReadEnd, IInv, ReadInv, Running, position
  <2>5. VisitInv'
    BY <2>1 DEF ReadEnd, IInv, VisitInv, position
  <2> QED
    BY <2>3, <2>4, <2>5 DEF IInv
<1> QED
  BY <1>1, <1>2

LEMMA CommitIInv == ASSUME IInv, Commit PROVE IInv'
<1>1. CASE Fail
  BY <1>1, FailIInv DEF Commit, Reject, IInv, TypeOK
<1>2. CASE ~Fail
  <2>1. /\ phase' = "committed"
        /\ journal' = [context |-> c, volumeQuote |-> volumes, swapCount |-> counts]
        /\ UNCHANGED <<c, read, position, totals, diagnostics>>
    BY <1>2 DEF Commit, Reject
  <2>2. journal' \in JournalType
    BY <2>1 DEF JournalType, IInv, TypeOK
  <2>3. TypeOK' /\ ReadInv' /\ VisitInv'
    BY <2>1, <2>2, SameFrames
       DEF Commit, IInv, TypeOK, ReadInv, VisitInv, Running, position, totals, diagnostics
  <2> QED
    BY <2>3 DEF IInv
<1> QED
  BY <1>1, <1>2

LEMMA StutterIInv == ASSUME IInv, UNCHANGED vars PROVE IInv'
<1>1. UNCHANGED <<TheFrame, Header, Current>>
  BY DEF vars, position, TheFrame, Header, Current
<1> QED
  BY <1>1 DEF IInv, TypeOK, ReadInv, VisitInv, Running, vars, position, totals, diagnostics

LEMMA NextIInv == ASSUME IInv, [Next]_vars PROVE IInv'
BY ReadContextIInv, ReadBlockIInv, VisitReceiptIInv, VisitLogIInv, FinishReceiptIInv,
   TrieFailsIInv, FinishBlockIInv, ReadEndIInv, CommitIInv, StutterIInv DEF Next

\* The relation keeps its types on every input: its four checked counters and its two
\* arrays of totals never exceed their widths, and a block is there while it is walked.
THEOREM ChunkTypeCorrect == Spec => []TypeOK
<1>1. IInv /\ [Next]_vars => IInv'
  BY NextIInv
<1>2. IInv => TypeOK
  BY DEF IInv
<1> QED
  BY InitIInv, <1>1, <1>2, PTL DEF Spec

-----------------------------------------------------------------------------
(***************************************************************************)
(* The segment.                                                            *)
(***************************************************************************)
LEMMA InnerStep ==
  ASSUME VisitReceipt \/ VisitLog \/ FinishReceipt \/ TrieFails \/ UNCHANGED vars
  PROVE  phase' = "rejected" \/ UNCHANGED <<phase, c, read, height, parent>>
BY DEF VisitReceipt, VisitLog, FinishReceipt, TrieFails, vars, position, Reject, Fail

LEMMA ReadContextStep ==
  ASSUME ReadContext
  PROVE  \/ phase' = "rejected"
         \/ /\ phase = "context" /\ phase' = "blocks"
            /\ height' = c'.from /\ parent' = c'.before
            /\ UNCHANGED <<todo, receipt, at, totals, diagnostics, journal>>
BY DEF ReadContext, Fail

\* What a pulled block adds to the segment.
LEMMA ReadBlockStep ==
  ASSUME IInv, ReadBlock
  PROVE  \/ phase' = "rejected"
         \/ /\ phase = "blocks" /\ phase' = "receipts"
            /\ height' = height + 1 /\ height \in Nat /\ c.from \in Nat /\ c.to \in Nat
            /\ height >= c.from /\ height + 1 <= c.to
            /\ UNCHANGED <<c, parent, receipt, at, totals, diagnostics, journal>>
            /\ Header' \in Block /\ todo' = ReceiptIndices(Header')
            /\ Number[Header'] = height + 1 /\ Parent[Header'] = parent
            /\ TheSegment' = [h \in (c.from + 1)..(height + 1) |->
                                IF h = height + 1 THEN Header' ELSE TheSegment[h]]
<1>1. PICK f \in Input : /\ read' = Append(read, f)
                         /\ \/ Fail
                            \/ /\ ~BadBlock(f)
                               /\ phase' = "receipts" /\ height' = height + 1
                               /\ todo' = ReceiptIndices(f.header)
                               /\ UNCHANGED <<c, parent, receipt, at, totals, diagnostics, journal>>
  BY DEF ReadBlock
<1>2. CASE Fail
  BY <1>2 DEF Fail
<1>3. CASE ~Fail
  <2>1. /\ phase = "blocks" /\ height \in Nat /\ c.from \in Nat /\ c.to \in Nat
        /\ height >= c.from /\ height + 1 <= c.to /\ Len(read) = height - c.from + 1
        /\ read \in Seq(Input)
    BY DEF ReadBlock, IInv, ReadInv, TypeOK, Running, Context
  <2>2. f \in Frame /\ f.kind = "block" /\ Number[f.header] = height + 1 /\ Parent[f.header] = parent
    BY <1>1, <1>3 DEF BadBlock, Input
  <2>3. /\ Len(read') = Len(read) + 1 /\ read'[Len(read) + 1] = f
        /\ \A k \in 1..Len(read) : read'[k] = read[k]
    BY <1>1, <2>1
  <2>4. f.header \in Block /\ Header' = f.header
    BY <2>2, <2>3, FrameAssumption DEF FrameType, Header, TheFrame
  <2>5. TheSegment' = [h \in (c.from + 1)..(height + 1) |->
                         IF h = height + 1 THEN f.header ELSE TheSegment[h]]
    <3>1. c' = c /\ height' = height + 1
      BY <1>1, <1>3
    <3>2. ASSUME NEW h \in (c.from + 1)..(height + 1)
          PROVE  read'[h - c.from + 1].header = IF h = height + 1 THEN f.header ELSE TheSegment[h]
      <4>1. CASE h = height + 1
        BY <2>1, <2>3, <4>1
      <4>2. CASE h # height + 1
        <5>1. h - c.from + 1 \in 1..Len(read) /\ h \in (c.from + 1)..height
          BY <2>1, <4>2
        <5> QED
          BY <2>3, <4>2, <5>1 DEF TheSegment
      <4> QED
        BY <4>1, <4>2
    <3> QED
      BY <3>1, <3>2 DEF TheSegment
  <2> QED
    BY <1>1, <1>3, <2>1, <2>2, <2>4, <2>5
<1> QED
  BY <1>2, <1>3

LEMMA InitLink == Init => LinkInv /\ UniqueInv
BY DEF Init, LinkInv, UniqueInv, Running

LEMMA LinkStep == ASSUME IInv, LinkInv, [Next]_vars PROVE LinkInv'
<1>1. CASE phase' = "rejected"
  BY <1>1 DEF LinkInv, Running
<1>2. CASE ReadContext /\ phase' # "rejected"
  <2>1. phase' = "blocks" /\ height' = c'.from /\ parent' = c'.before /\ c'.from \in Nat
    BY <1>2, NextIInv, ReadContextStep DEF IInv, TypeOK, Context
  <2> QED
    BY <2>1 DEF LinkInv, Linked, Tip
<1>3. CASE ReadBlock /\ phase' # "rejected"
  <2>1. \A h \in (c.from + 1)..(height + 1) :
          /\ Number[TheSegment'[h]] = h
          /\ Parent[TheSegment'[h]] = IF h = c.from + 1 THEN c.before ELSE TheSegment'[h - 1]
    <3>1. parent = IF height = c.from THEN c.before ELSE TheSegment[height]
      BY <1>3, ReadBlockStep DEF LinkInv, Running, Tip
    <3>2. Linked(TheSegment, c.from, height, c.before)
      BY <1>3, ReadBlockStep DEF LinkInv, Running
    <3>3. TAKE h \in (c.from + 1)..(height + 1)
    <3>4. /\ height \in Nat /\ c.from \in Nat /\ height >= c.from
          /\ Number[Header'] = height + 1 /\ Parent[Header'] = parent
          /\ TheSegment' = [k \in (c.from + 1)..(height + 1) |->
                              IF k = height + 1 THEN Header' ELSE TheSegment[k]]
      BY <1>3, ReadBlockStep
    <3>5. CASE h = height + 1
      <4>1. TheSegment'[h] = Header' /\ (h # c.from + 1 => TheSegment'[h - 1] = TheSegment[height])
        BY <3>4, <3>5
      <4> QED
        BY <3>1, <3>4, <3>5, <4>1
    <3>6. CASE h # height + 1
      <4>1. /\ h \in (c.from + 1)..height /\ TheSegment'[h] = TheSegment[h]
            /\ (h # c.from + 1 => TheSegment'[h - 1] = TheSegment[h - 1])
        BY <3>4, <3>6
      <4> QED
        BY <3>2, <4>1 DEF Linked
    <3> QED
      BY <3>5, <3>6
  <2>2. parent' = IF Tip' = c'.from THEN c'.before ELSE TheSegment'[Tip']
    BY <1>3, ReadBlockStep DEF LinkInv, Running, Tip
  <2> QED
    BY <1>3, <2>1, <2>2, ReadBlockStep DEF LinkInv, Linked
<1>4. CASE FinishBlock /\ phase' # "rejected"
  <2>1. /\ phase = "receipts" /\ phase' = "blocks" /\ parent' = Header
        /\ UNCHANGED <<read, height, c>>
    BY <1>4 DEF FinishBlock, Reject, Fail
  <2>2. Header = TheSegment[height] /\ height # c.from
    BY <2>1, HeaderType DEF IInv, ReadInv, Running, TypeOK, Context
  <2> QED
    BY <2>1, <2>2, SameFrames DEF LinkInv, Running, Tip
<1>5. CASE ReadEnd /\ phase' # "rejected"
  <2>1. /\ phase = "blocks" /\ phase' = "encode" /\ parent = c.end
        /\ UNCHANGED <<c, height, parent>>
    BY <1>5 DEF ReadEnd, Reject, Fail, BadEnd, position
  <2>2. TheSegment' = TheSegment
    <3>1. PICK f \in Input : read' = Append(read, f)
      BY <1>5 DEF ReadEnd, Reject, Fail
    <3>2. /\ read \in Seq(Input) /\ Len(read) = height - c.from + 1
          /\ height \in Nat /\ c.from \in Nat
      BY <2>1 DEF IInv, TypeOK, ReadInv, Running, Context
    <3>3. \A h \in (c.from + 1)..height : read'[h - c.from + 1] = read[h - c.from + 1]
      BY <3>1, <3>2
    <3> QED
      BY <2>1, <3>3 DEF TheSegment
  <2> QED
    BY <2>1, <2>2 DEF LinkInv, Running, Tip
<1>6. CASE Commit /\ phase' # "rejected"
  BY <1>6, SameFrames DEF Commit, Reject, Fail, LinkInv, Running, Tip, position
<1>7. CASE VisitReceipt \/ VisitLog \/ FinishReceipt \/ TrieFails \/ UNCHANGED vars
  BY <1>1, <1>7, InnerStep, SameFrames DEF LinkInv, Running, Tip
<1> QED
  BY <1>1, <1>2, <1>3, <1>4, <1>5, <1>6, <1>7 DEF Next
LEMMA UniqueStep == ASSUME IInv, LinkInv, UniqueInv, [Next]_vars PROVE UniqueInv'
<1>1. CASE phase' = "rejected"
  BY <1>1 DEF UniqueInv, Running
<1>2. CASE ReadContext /\ phase' # "rejected"
  <2>1. height' = c'.from /\ c'.from \in Nat
    BY <1>2, NextIInv, ReadContextStep DEF IInv, TypeOK, Context
  <2> QED
    BY <2>1 DEF UniqueInv, SameBelow
<1>3. CASE ReadBlock /\ phase' # "rejected"
  <2> SUFFICES ASSUME NEW s \in Segments(c'), s[height'] = TheSegment'[height'],
                      NEW h \in (c'.from + 1)..height'
               PROVE  s[h] = TheSegment'[h]
    BY DEF UniqueInv, SameBelow
  <2>1. /\ c' = c /\ height' = height + 1 /\ height \in Nat /\ c.from \in Nat /\ c.to \in Nat
        /\ height >= c.from /\ height + 1 <= c.to /\ Running
        /\ TheSegment' = [k \in (c.from + 1)..(height + 1) |->
                            IF k = height + 1 THEN Header' ELSE TheSegment[k]]
        /\ Parent[Header'] = parent /\ phase = "blocks"
    BY <1>3, ReadBlockStep DEF Running
  <2>2. CASE h = height + 1
    BY <2>1, <2>2
  <2>3. CASE h # height + 1
    <3>1. h \in (c.from + 1)..height /\ TheSegment'[h] = TheSegment[h] /\ height > c.from
      BY <2>1, <2>3
    <3>2. parent = TheSegment[height]
      BY <2>1, <3>1 DEF LinkInv, Tip
    <3>3. Parent[s[height + 1]] = s[height]
      <4>1. s \in Segments(c) /\ height + 1 \in (c.from + 1)..c.to /\ height + 1 # c.from + 1
        BY <2>1, <3>1
      <4>2. Parent[s[height + 1]] = s[(height + 1) - 1]
        BY <4>1 DEF Segments
      <4> QED
        BY <2>1, <4>2
    <3>4. s[height + 1] = Header'
      BY <2>1
    <3>5. s[height] = TheSegment[height]
      BY <2>1, <3>2, <3>3, <3>4
    <3>6. SameBelow(s)
      BY <2>1 DEF UniqueInv
    <3> QED
      BY <3>1, <3>5, <3>6 DEF SameBelow
  <2> QED
    BY <2>2, <2>3
<1>4. CASE ReadEnd /\ phase' # "rejected"
  <2>1. PICK f \in Input : read' = Append(read, f)
    BY <1>4 DEF ReadEnd, Reject, Fail
  <2>2. /\ read \in Seq(Input) /\ Len(read) = height - c.from + 1 /\ Running
        /\ height \in Nat /\ c.from \in Nat /\ UNCHANGED <<c, height>>
    BY <1>4 DEF ReadEnd, Reject, Fail, IInv, TypeOK, ReadInv, Running, Context, position
  <2>3. \A h \in (c.from + 1)..height : read'[h - c.from + 1] = read[h - c.from + 1]
    BY <2>1, <2>2
  <2>4. TheSegment' = TheSegment
    BY <2>2, <2>3 DEF TheSegment
  <2> QED
    BY <2>2, <2>4 DEF UniqueInv, SameBelow
<1>5. CASE FinishBlock \/ Commit
  BY <1>1, <1>5, SameFrames
     DEF FinishBlock, Commit, Reject, Fail, UniqueInv, SameBelow, Running, position
<1>6. CASE VisitReceipt \/ VisitLog \/ FinishReceipt \/ TrieFails \/ UNCHANGED vars
  BY <1>1, <1>6, InnerStep, SameFrames DEF UniqueInv, SameBelow, Running
<1> QED
  BY <1>1, <1>2, <1>3, <1>4, <1>5, <1>6 DEF Next

LEMMA SegmentDetermined == IInv /\ LinkInv /\ UniqueInv => SegmentIsDetermined
<1> SUFFICES ASSUME IInv, LinkInv, UniqueInv, phase = "committed"
             PROVE  Segments(c) = {TheSegment}
  BY DEF SegmentIsDetermined
<1>1. /\ height = c.to /\ c.from \in Nat /\ c.to \in Nat /\ c.from < c.to /\ Running
      /\ \A k \in 2..(height - c.from + 1) : read[k] \in Frame /\ read[k].kind = "block"
  BY DEF IInv, ReadInv, TypeOK, Running, Context, JournalError, ContextError
<1>2. TheSegment \in [(c.from + 1)..c.to -> Block]
  <2>1. ASSUME NEW h \in (c.from + 1)..c.to PROVE read[h - c.from + 1].header \in Block
    <3>1. h - c.from + 1 \in 2..(height - c.from + 1)
      BY <1>1
    <3> QED
      BY <1>1, <3>1, FrameAssumption DEF FrameType
  <2> QED
    BY <1>1, <2>1 DEF TheSegment
<1>3. TheSegment[c.to] = c.end
  BY <1>1 DEF LinkInv, Tip
<1>4. TheSegment \in Segments(c)
  BY <1>1, <1>2, <1>3 DEF Segments, LinkInv, Linked
<1>5. ASSUME NEW s \in Segments(c) PROVE s = TheSegment
  <2>1. s \in [(c.from + 1)..c.to -> Block] /\ s[c.to] = c.end
    BY DEF Segments
  <2>2. \A h \in (c.from + 1)..c.to : s[h] = TheSegment[h]
    BY <1>1, <1>3, <2>1 DEF UniqueInv, SameBelow
  <2>3. /\ s = [h \in (c.from + 1)..c.to |-> s[h]]
        /\ TheSegment = [h \in (c.from + 1)..c.to |-> TheSegment[h]]
    BY <1>2, <2>1
  <2> QED
    BY <2>2, <2>3
<1> QED
  BY <1>4, <1>5

\* A committed context names exactly one segment of the chain: the blocks the guest
\* was fed.  No forged, skipped, repeated or reordered block can stand in for another.
THEOREM CommittedSegmentIsDetermined == Spec => []SegmentIsDetermined
<1>1. Init => IInv /\ LinkInv /\ UniqueInv
  BY InitIInv, InitLink
<1>2. IInv /\ LinkInv /\ UniqueInv /\ [Next]_vars => (IInv /\ LinkInv /\ UniqueInv)'
  BY NextIInv, LinkStep, UniqueStep
<1> QED
  BY <1>1, <1>2, SegmentDetermined, PTL DEF Spec

-----------------------------------------------------------------------------
(***************************************************************************)
(* The totals.                                                             *)
(***************************************************************************)
LEMMA InitZero == Init => ZeroInv
BY DEF Init, ZeroInv, Running

LEMMA ZeroStep == ASSUME IInv, ZeroInv, [Next]_vars PROVE ZeroInv'
<1>1. CASE phase' = "rejected"
  BY <1>1 DEF ZeroInv, Running
<1>2. CASE ReadContext /\ phase' # "rejected"
  BY <1>2, ReadContextStep DEF ZeroInv, Zeros, totals
<1>3. CASE VisitLog /\ phase' # "rejected"
  <2>1. /\ IF Contributes
           THEN /\ volumes' = [volumes EXCEPT ![SlotOf(TheLog)] = @ + QuoteAmount(TheLog)]
                /\ counts' = [counts EXCEPT ![SlotOf(TheLog)] = @ + 1]
           ELSE UNCHANGED totals
        /\ UNCHANGED <<phase, c>>
    BY <1>3 DEF VisitLog, Reject, Fail
  <2>2. phase = "receipts"
    BY <1>3 DEF VisitLog, LogsLeft
  <2>3. Contributes => SlotOf(TheLog) \in c.mask
    BY DEF Contributes
  <2> QED
    BY <2>1, <2>2, <2>3 DEF ZeroInv, Running, totals, IInv, TypeOK
<1>4. CASE ReadBlock \/ VisitReceipt \/ FinishReceipt \/ TrieFails \/ FinishBlock \/ ReadEnd
           \/ Commit \/ UNCHANGED vars
  <2>1. phase' = "rejected" \/ (UNCHANGED <<c, totals>> /\ (Running' => Running) /\ phase' # "context")
        \/ UNCHANGED <<c, totals, phase>>
    BY <1>4 DEF ReadBlock, VisitReceipt, FinishReceipt, TrieFails, FinishBlock, ReadEnd, Commit,
                vars, position, Reject, Fail, Running
  <2> QED
    BY <1>1, <2>1 DEF ZeroInv, Running, totals
<1> QED
  BY <1>1, <1>2, <1>3, <1>4 DEF Next

\* The journal that was valid with zero totals is valid with the final ones, so the
\* validation inside abi_encode never fails after the work is done.
THEOREM FinishedJournalEncodes == Spec => []JournalEncodes
<1>1. Init => IInv /\ ZeroInv
  BY InitIInv, InitZero
<1>2. IInv /\ ZeroInv /\ [Next]_vars => (IInv /\ ZeroInv)'
  BY NextIInv, ZeroStep
<1>3. IInv /\ ZeroInv => JournalEncodes
  BY DEF IInv, ReadInv, ZeroInv, Running, JournalEncodes, JournalError, ContextError
<1> QED
  BY <1>1, <1>2, <1>3, PTL DEF Spec

IsPlace(s, heights, p) ==
  \E h \in heights : \E r \in ReceiptIndices(s[h]) :
    \E l \in 1..Len(ReceiptAt(s[h], r).logs) : p = <<h, <<r, l>>>>

LEMMA PlacesAre ==
  ASSUME NEW s, NEW heights, NEW p
  PROVE  p \in Places(s, heights) <=> IsPlace(s, heights, p)
<1> DEFINE inner(h) == UNION {{r} \X (1..Len(ReceiptAt(s[h], r).logs)) : r \in ReceiptIndices(s[h])}
<1>1. p \in Places(s, heights) <=> \E h \in heights : p \in {h} \X inner(h)
  BY DEF Places
<1>2. \A h, x : x \in inner(h) <=>
        \E r \in ReceiptIndices(s[h]) : x \in {r} \X (1..Len(ReceiptAt(s[h], r).logs))
  OBVIOUS
<1>3. \A h, r : \A x : x \in {r} \X (1..Len(ReceiptAt(s[h], r).logs)) <=>
        \E l \in 1..Len(ReceiptAt(s[h], r).logs) : x = <<r, l>>
  OBVIOUS
<1> HIDE DEF inner
<1>4. \A h : p \in {h} \X inner(h) <=> \E x \in inner(h) : p = <<h, x>>
  OBVIOUS
<1> QED
  BY <1>1, <1>2, <1>3, <1>4 DEF IsPlace

\* A place is a height, a receipt of its block and a log of that receipt.
LEMMA PlaceIs ==
  \A p : p \in AllPlaces <=> IsPlace(TheSegment, (c.from + 1)..height, p)
<1>1. DOMAIN TheSegment = (c.from + 1)..height
  BY DEF TheSegment
<1> QED
  BY <1>1, PlacesAre DEF AllPlaces

LEMMA PlaceIsNext ==
  \A p : p \in AllPlaces' <=> IsPlace(TheSegment', (c'.from + 1)..height', p)
<1>1. DOMAIN TheSegment' = (c'.from + 1)..height'
  BY DEF TheSegment
<1>2. AllPlaces' = Places(TheSegment', DOMAIN TheSegment')
  BY DEF AllPlaces, Places
<1> QED
  BY <1>1, <1>2, PlacesAre

\* Between two receipts with none left, everything has been visited.
LEMMA AllDone ==
  ASSUME todo = {}, receipt = -1
  PROVE  Done = AllPlaces
<1>1. ASSUME NEW p \in AllPlaces PROVE p[2][1] \notin todo \cup {receipt}
  <2>1. PICK h \in (c.from + 1)..height : \E r \in ReceiptIndices(TheSegment[h]) :
               \E l \in 1..Len(ReceiptAt(TheSegment[h], r).logs) : p = <<h, <<r, l>>>>
    BY PlaceIs DEF IsPlace
  <2>2. p[2][1] \in ReceiptIndices(TheSegment[h])
    BY <2>1
  <2> QED
    BY <2>2 DEF ReceiptIndices
<1> QED
  BY <1>1 DEF Done

\* Every place of the segment is worth a natural number.
LEMMA AmountType ==
  ASSUME IInv, Running, NEW p \in AllPlaces
  PROVE  Amount(TheSegment, p) \in Nat
<1>1. PICK h \in (c.from + 1)..height : \E r \in ReceiptIndices(TheSegment[h]) :
             \E l \in 1..Len(ReceiptAt(TheSegment[h], r).logs) : p = <<h, <<r, l>>>>
  BY PlaceIs DEF IsPlace
<1>2. PICK r \in ReceiptIndices(TheSegment[h]) :
             \E l \in 1..Len(ReceiptAt(TheSegment[h], r).logs) : p = <<h, <<r, l>>>>
  BY <1>1
<1>3. PICK l \in 1..Len(ReceiptAt(TheSegment[h], r).logs) : p = <<h, <<r, l>>>>
  BY <1>2
<1>4. TheSegment[h] \in Block
  <2>1. height \in Nat /\ c.from \in Nat BY DEF IInv, TypeOK, Context
  <2>2. h - c.from + 1 \in 2..(height - c.from + 1) BY <2>1
  <2>3. read[h - c.from + 1] \in Frame /\ read[h - c.from + 1].kind = "block"
    BY <2>2 DEF IInv, ReadInv
  <2> QED BY <2>3, FrameAssumption DEF TheSegment, FrameType
<1>5. p[1] = h /\ p[2][1] = r /\ p[2][2] = l BY <1>3
<1>6. LogAt(TheSegment[h], r, l) \in Log BY <1>4, LogType
<1> QED BY <1>5, <1>6, QuoteAmountType DEF Amount

LEMMA SameCount ==
  ASSUME CountInv, Running, UNCHANGED <<c, totals, TheSegment, Done>>, phase' # "context"
  PROVE  CountInv'
<1>1. \A i \in Slot : Counted(i)' = Counted(i)
  BY DEF Counted, Swaps, Counts
<1>2. \A i \in Slot : VolumeOf(TheSegment, Counted(i))' = VolumeOf(TheSegment, Counted(i))
  BY <1>1
<1> QED
  BY <1>1, <1>2 DEF CountInv, totals

LEMMA CountReadContext == ASSUME IInv, CountInv, ReadContext, phase' # "rejected" PROVE CountInv'
<1>1. /\ phase' = "blocks" /\ height' = c'.from /\ c'.from \in Nat
      /\ counts' = Zeros /\ volumes' = Zeros
  BY NextIInv, ReadContextStep DEF IInv, TypeOK, Context, CountInv, totals, Next
<1>2. AllPlaces' = {}
  BY <1>1, PlaceIsNext DEF IsPlace
<1>3. \A i \in Slot : Counted(i)' = {}
  BY <1>2 DEF Counted, Swaps, Done
<1>4. \A i \in Slot : VolumeOf(TheSegment, Counted(i))' = 0
  BY <1>3, VolumeEmpty
<1> QED
  BY <1>1, <1>3, <1>4, FS_EmptySet DEF CountInv, Zeros

LEMMA CountReadBlock == ASSUME IInv, CountInv, ReadBlock, phase' # "rejected" PROVE CountInv'
<1>1. /\ phase = "blocks" /\ phase' = "receipts"
      /\ height' = height + 1 /\ height \in Nat /\ c.from \in Nat
      /\ height >= c.from
      /\ UNCHANGED <<c, receipt, at, volumes, counts>>
      /\ Header' \in Block /\ todo' = ReceiptIndices(Header')
      /\ TheSegment' = [h \in (c.from + 1)..(height + 1) |->
                          IF h = height + 1 THEN Header' ELSE TheSegment[h]]
      /\ todo = {} /\ receipt = -1
  BY ReadBlockStep DEF IInv, VisitInv, totals
<1>2. Done = AllPlaces
  BY <1>1, AllDone
<1>3. ASSUME NEW p \in AllPlaces PROVE p \in Done' /\ TheSegment'[p[1]] = TheSegment[p[1]]
  <2>1. PICK h \in (c.from + 1)..height : \E r \in ReceiptIndices(TheSegment[h]) :
               \E l \in 1..Len(ReceiptAt(TheSegment[h], r).logs) : p = <<h, <<r, l>>>>
    BY PlaceIs DEF IsPlace
  <2>2. TheSegment'[h] = TheSegment[h] /\ h \in (c'.from + 1)..height' /\ h < height' /\ p[1] = h
    BY <1>1, <2>1
  <2>3. p \in AllPlaces'
    BY <2>1, <2>2, PlaceIsNext DEF IsPlace
  <2> QED
    BY <2>2, <2>3 DEF Done
<1>4. ASSUME NEW p \in Done' PROVE p \in AllPlaces
  <2>1. PICK h \in (c'.from + 1)..height' : \E r \in ReceiptIndices(TheSegment'[h]) :
               \E l \in 1..Len(ReceiptAt(TheSegment'[h], r).logs) : p = <<h, <<r, l>>>>
    BY PlaceIsNext DEF Done, IsPlace
  <2>2. PICK r \in ReceiptIndices(TheSegment'[h]) :
               \E l \in 1..Len(ReceiptAt(TheSegment'[h], r).logs) : p = <<h, <<r, l>>>>
    BY <2>1
  <2>3. p[1] = h /\ p[2][1] = r /\ r # -1
    BY <2>2 DEF ReceiptIndices
  <2>4. h # height + 1
    <3>1. SUFFICES ASSUME h = height + 1 PROVE FALSE
      OBVIOUS
    <3>2. TheSegment'[h] = Header' /\ r \in todo' /\ r # receipt'
      BY <1>1, <2>2, <2>3, <3>1
    <3> QED
      BY <1>1, <2>3, <3>1, <3>2 DEF Done
  <2>5. h \in (c.from + 1)..height /\ TheSegment'[h] = TheSegment[h]
    BY <1>1, <2>4
  <2> QED
    BY <2>2, <2>5, PlaceIs DEF IsPlace
<1>5. \A i \in Slot : Counted(i)' = Counted(i)
  <2>1. Done' = AllPlaces
    BY <1>3, <1>4
  <2>2. \A p \in AllPlaces : TheSegment'[p[1]] = TheSegment[p[1]]
    BY <1>3
  <2>3. \A i \in Slot : Swaps(c.mask, i, TheSegment', AllPlaces) = Swaps(c.mask, i, TheSegment, AllPlaces)
    BY <2>2 DEF Swaps
  <2> QED
    BY <1>1, <1>2, <2>1, <2>3 DEF Counted, Swaps
<1>6. ASSUME NEW i \in Slot
      PROVE  VolumeOf(TheSegment, Counted(i))' = VolumeOf(TheSegment, Counted(i))
  <2>1. IsFiniteSet(Counted(i)) BY <1>1 DEF CountInv, Running
  <2>2. \A p \in Counted(i) : /\ Amount(TheSegment', p) = Amount(TheSegment, p)
                              /\ Amount(TheSegment, p) \in Nat
    <3> SUFFICES ASSUME NEW p \in Counted(i)
                 PROVE  /\ Amount(TheSegment', p) = Amount(TheSegment, p)
                        /\ Amount(TheSegment, p) \in Nat
      OBVIOUS
    <3>1. p \in AllPlaces BY DEF Counted, Swaps, Done
    <3>2. Amount(TheSegment, p) \in Nat BY <1>1, <3>1, AmountType DEF Running
    <3>3. TheSegment'[p[1]] = TheSegment[p[1]] BY <1>3, <3>1
    <3> QED BY <3>2, <3>3 DEF Amount
  <2>3. VolumeOf(TheSegment', Counted(i)) = VolumeOf(TheSegment, Counted(i))
    BY <2>1, <2>2, VolumeSame
  <2> QED BY <1>5, <2>3
<1> QED
  BY <1>1, <1>5, <1>6 DEF CountInv, Running

LEMMA CountVisitReceipt == ASSUME IInv, CountInv, VisitReceipt, phase' # "rejected" PROVE CountInv'
<1>1. PICK r \in todo :
        /\ receipt' = r /\ at' = 0 /\ todo' = todo \ {r}
        /\ UNCHANGED <<phase, c, read, height, totals>>
  BY DEF VisitReceipt, Reject, Fail, Remaining
<1>2. phase = "receipts" /\ receipt = -1
  BY DEF VisitReceipt
<1>3. UNCHANGED <<TheSegment, AllPlaces>>
  BY <1>1, SameFrames
<1>4. ASSUME NEW p \in AllPlaces PROVE p \in Done' <=> p \in Done
  <2>1. PICK h \in (c.from + 1)..height : \E x \in ReceiptIndices(TheSegment[h]) :
               \E l \in 1..Len(ReceiptAt(TheSegment[h], x).logs) : p = <<h, <<x, l>>>>
    BY PlaceIs DEF IsPlace
  <2>2. p[2][1] # -1 /\ p[2][2] >= 1 /\ p[2][2] \in Int
    BY <2>1 DEF ReceiptIndices
  <2> QED
    BY <1>1, <1>2, <1>3, <2>2 DEF Done
<1>5. Done' = Done
  BY <1>3, <1>4 DEF Done
<1> QED
  BY <1>1, <1>2, <1>3, <1>5, SameCount DEF Running

LEMMA CountFinishReceipt == ASSUME IInv, CountInv, FinishReceipt, phase' # "rejected" PROVE CountInv'
<1>1. /\ receipt' = -1 /\ at' = 0 /\ phase = "receipts" /\ receipt # -1 /\ at = Len(Current.logs)
      /\ UNCHANGED <<phase, c, read, height, todo, totals>>
  BY DEF FinishReceipt, Reject, Fail
<1>2. /\ UNCHANGED <<TheSegment, AllPlaces>> /\ Header = TheSegment[height]
      /\ receipt \notin todo
  BY <1>1, SameFrames, HeaderType DEF IInv, VisitInv
<1>3. ASSUME NEW p \in AllPlaces PROVE p \in Done' <=> p \in Done
  <2>1. PICK h \in (c.from + 1)..height : \E x \in ReceiptIndices(TheSegment[h]) :
               \E l \in 1..Len(ReceiptAt(TheSegment[h], x).logs) : p = <<h, <<x, l>>>>
    BY PlaceIs DEF IsPlace
  <2>2. PICK x \in ReceiptIndices(TheSegment[h]) :
               \E l \in 1..Len(ReceiptAt(TheSegment[h], x).logs) : p = <<h, <<x, l>>>>
    BY <2>1
  <2>3. p[1] = h /\ p[2][1] = x /\ x # -1 /\ p[2][2] \in 1..Len(ReceiptAt(TheSegment[h], x).logs)
    BY <2>2 DEF ReceiptIndices
  <2>4. h = height /\ x = receipt => p[2][2] <= at
    BY <1>1, <1>2, <2>3 DEF Current
  <2>5. h \in Int /\ height \in Int /\ h <= height
    BY DEF IInv, TypeOK
  <2> QED
    BY <1>1, <1>2, <2>3, <2>4, <2>5 DEF Done
<1>4. Done' = Done
  BY <1>2, <1>3 DEF Done
<1> QED
  BY <1>1, <1>2, <1>4, SameCount DEF Running

\* A log is visited: one more place is done, and one more swap counted if it counts.
LEMMA CountVisitLog == ASSUME IInv, CountInv, VisitLog, phase' # "rejected" PROVE CountInv'
<1> DEFINE q == <<height, <<receipt, at + 1>>>>
<1>1. /\ at' = at + 1
      /\ IF Contributes
         THEN /\ counts' = [counts EXCEPT ![SlotOf(TheLog)] = @ + 1]
              /\ volumes' = [volumes EXCEPT ![SlotOf(TheLog)] = @ + QuoteAmount(TheLog)]
         ELSE counts' = counts /\ volumes' = volumes
      /\ UNCHANGED <<phase, c, read, height, todo, receipt>>
  BY DEF VisitLog, Reject, Fail, totals
<1>2. LogsLeft /\ phase = "receipts" /\ receipt # -1
  BY DEF VisitLog, LogsLeft
<1>3. /\ UNCHANGED <<TheSegment, AllPlaces>> /\ Header = TheSegment[height]
      /\ receipt \notin todo /\ receipt \in ReceiptIndices(Header)
      /\ at \in Nat /\ at + 1 \in 1..Len(Current.logs)
      /\ height \in (c.from + 1)..height
  <2>1. UNCHANGED <<TheSegment, AllPlaces>> /\ Header = TheSegment[height]
    BY <1>1, <1>2, SameFrames, HeaderType
  <2>2. receipt \notin todo /\ receipt \in ReceiptIndices(Header)
    BY <1>2 DEF IInv, VisitInv
  <2>3. at \in Nat /\ at + 1 \in 1..Len(Current.logs)
    BY <1>2, LogStep DEF IInv, TypeOK
  <2>4. height > c.from /\ height \in Nat /\ c.from \in Nat
    BY <1>2 DEF IInv, TypeOK, ReadInv, Running, Context
  <2> QED
    BY <2>1, <2>2, <2>3, <2>4
<1>4. q \in AllPlaces
  BY <1>3, PlaceIs DEF Current, IsPlace
<1>5. q \in Done' /\ q \notin Done
  BY <1>1, <1>3, <1>4 DEF Done
<1>6. ASSUME NEW p \in AllPlaces, p # q PROVE p \in Done' <=> p \in Done
  <2>1. PICK h \in (c.from + 1)..height : \E x \in ReceiptIndices(TheSegment[h]) :
               \E l \in 1..Len(ReceiptAt(TheSegment[h], x).logs) : p = <<h, <<x, l>>>>
    BY PlaceIs DEF IsPlace
  <2>2. PICK x \in ReceiptIndices(TheSegment[h]) :
               \E l \in 1..Len(ReceiptAt(TheSegment[h], x).logs) : p = <<h, <<x, l>>>>
    BY <2>1
  <2>3. PICK l \in 1..Len(ReceiptAt(TheSegment[h], x).logs) : p = <<h, <<x, l>>>>
    BY <2>2
  <2>4. p[1] = h /\ p[2][1] = x /\ p[2][2] = l /\ l \in Int
    BY <2>3
  <2>5. h \in Int /\ height \in Int /\ h <= height
    BY DEF IInv, TypeOK
  <2>6. CASE h < height
    BY <1>1, <1>3, <2>4, <2>6 DEF Done
  <2>7. CASE h = height
    <3>1. x = receipt => l # at + 1
      BY <1>6, <2>3, <2>7
    <3>2. x = receipt => (l <= at + 1 <=> l <= at)
      BY <1>3, <2>4, <3>1
    <3> QED
      BY <1>1, <1>3, <2>4, <2>5, <2>7, <3>2 DEF Done
  <2> QED
    BY <2>5, <2>6, <2>7
<1>7. Done' = Done \cup {q}
  BY <1>3, <1>4, <1>5, <1>6 DEF Done
<1>8. \A i \in Slot : Counts(c.mask, i, TheSegment[height], receipt, at + 1)
                      <=> Contributes /\ SlotOf(TheLog) = i
  BY <1>3 DEF Counts, Contributes, Records, Current, TheLog
<1>9. \A i \in Slot : Counted(i)' = IF Contributes /\ SlotOf(TheLog) = i
                                     THEN Counted(i) \cup {q} ELSE Counted(i)
  <2>1. \A i \in Slot : Counted(i)' = Swaps(c.mask, i, TheSegment, Done \cup {q})
    BY <1>1, <1>3, <1>7 DEF Counted, Swaps
  <2>2. q[1] = height /\ q[2][1] = receipt /\ q[2][2] = at + 1
    OBVIOUS
  <2>3. ASSUME NEW i \in Slot
        PROVE  Swaps(c.mask, i, TheSegment, Done \cup {q})
                 = IF Contributes /\ SlotOf(TheLog) = i THEN Counted(i) \cup {q} ELSE Counted(i)
    <3> HIDE DEF q
    <3> QED
      BY <1>8, <2>2 DEF Swaps, Counted
  <2> QED
    BY <2>1, <2>3
<1>10. ASSUME NEW i \in Slot
       PROVE  /\ IsFiniteSet(Counted(i)') /\ counts'[i] = Cardinality(Counted(i)')
              /\ volumes'[i] = VolumeOf(TheSegment, Counted(i)')
  <2>1. /\ IsFiniteSet(Counted(i)) /\ counts[i] = Cardinality(Counted(i))
        /\ volumes[i] = VolumeOf(TheSegment, Counted(i))
        /\ q \notin Counted(i)
    BY <1>2, <1>5 DEF CountInv, Running, Counted, Swaps
  <2>2. /\ IsFiniteSet(Counted(i) \cup {q})
        /\ Cardinality(Counted(i) \cup {q}) = Cardinality(Counted(i)) + 1
    BY <2>1, FS_AddElement
  <2>5. /\ Amount(TheSegment, q) = QuoteAmount(TheLog)
        /\ VolumeOf(TheSegment, Counted(i) \cup {q}) =
             VolumeOf(TheSegment, Counted(i)) + Amount(TheSegment, q)
    <3>1. q[1] = height /\ q[2][1] = receipt /\ q[2][2] = at + 1 OBVIOUS
    <3>2. Counted(i) \cup {q} \subseteq AllPlaces BY <1>4 DEF Counted, Swaps, Done
    <3> HIDE DEF q
    <3>3. Amount(TheSegment, q) = QuoteAmount(TheLog) BY <1>3, <3>1 DEF Amount, TheLog
    <3>4. \A p \in Counted(i) \cup {q} : Amount(TheSegment, p) \in Nat
      BY <1>2, <3>2, AmountType DEF Running
    <3> QED BY <2>1, <3>3, <3>4, VolumeFacts
  <2>3. CASE Contributes /\ SlotOf(TheLog) = i
    BY <1>1, <1>9, <2>1, <2>2, <2>3, <2>5 DEF IInv, TypeOK
  <2>4. CASE ~(Contributes /\ SlotOf(TheLog) = i)
    BY <1>1, <1>9, <2>1, <2>4 DEF IInv, TypeOK
  <2> QED
    BY <2>3, <2>4
<1> QED
  BY <1>1, <1>2, <1>3, <1>10 DEF CountInv

LEMMA CountOther ==
  ASSUME IInv, CountInv, FinishBlock \/ ReadEnd \/ Commit \/ UNCHANGED vars, phase' # "rejected"
  PROVE  CountInv'
<1>1. CASE UNCHANGED vars
  BY <1>1, SameFrames DEF vars, position, totals, CountInv, Running, Counted, Swaps, Done
<1>2. CASE FinishBlock \/ Commit
  <2>1. UNCHANGED <<read, height, c, todo, receipt, at, totals>> /\ Running /\ phase' # "context"
    BY <1>2 DEF FinishBlock, Commit, Reject, Fail, Running, position
  <2>2. UNCHANGED <<TheSegment, Done>>
    BY <2>1, SameFrames DEF Done
  <2> QED
    BY <2>1, <2>2, SameCount
<1>3. CASE ReadEnd
  <2>1. PICK f \in Input : read' = Append(read, f)
    BY <1>3 DEF ReadEnd, Reject, Fail
  <2>2. /\ read \in Seq(Input) /\ Len(read) = height - c.from + 1 /\ Running /\ phase' # "context"
        /\ height \in Nat /\ c.from \in Nat
        /\ UNCHANGED <<c, height, todo, receipt, at, totals>>
    BY <1>3 DEF ReadEnd, Reject, Fail, IInv, TypeOK, ReadInv, Running, Context, position
  <2>3. \A h \in (c.from + 1)..height : read'[h - c.from + 1] = read[h - c.from + 1]
    BY <2>1, <2>2
  <2>4. TheSegment' = TheSegment
    BY <2>2, <2>3 DEF TheSegment
  <2>5. Done' = Done
    BY <2>2, <2>4 DEF Done, AllPlaces, Places
  <2> QED
    BY <2>2, <2>4, <2>5, SameCount
<1> QED
  BY <1>1, <1>2, <1>3

LEMMA CountStep == ASSUME IInv, CountInv, [Next]_vars PROVE CountInv'
<1>1. CASE phase' = "rejected"
  BY <1>1 DEF CountInv, Running
<1>2. CASE phase' # "rejected"
  <2>1. TrieFails => phase' = "rejected"
    BY DEF TrieFails, Reject, Fail
  <2> QED
    BY <1>2, <2>1, CountReadContext, CountReadBlock, CountVisitReceipt, CountVisitLog,
       CountFinishReceipt, CountOther DEF Next
<1> QED
  BY <1>1, <1>2

LEMMA JournalStep == ASSUME JournalInv, [Next]_vars PROVE JournalInv'
BY DEF JournalInv, Next, ReadContext, ReadBlock, VisitReceipt, VisitLog, FinishReceipt, TrieFails,
       FinishBlock, ReadEnd, Commit, Reject, Fail, vars, totals, LogsLeft

\* The journal's swap counts are exact for every chain and every order of the calls:
\* the qualifying swaps of the segment, each once, and no other log.
THEOREM CommittedCountsAreExact == Spec => []CountsAreExact
<1>1. Init => IInv /\ CountInv /\ JournalInv
  BY InitIInv DEF Init, CountInv, JournalInv, Running
<1>2. IInv /\ CountInv /\ JournalInv /\ [Next]_vars => (IInv /\ CountInv /\ JournalInv)'
  BY NextIInv, CountStep, JournalStep
<1>3. IInv /\ CountInv /\ JournalInv => CountsAreExact
  BY AllDone DEF IInv, VisitInv, CountInv, JournalInv, CountsAreExact, SwapCount, Counted, Running
<1> QED
  BY <1>1, <1>2, <1>3, PTL DEF Spec

-----------------------------------------------------------------------------
(***************************************************************************)
(* The relation implements RaceVolume: the only step that changes the      *)
(* journal publishes the totals of the segment its context names.          *)
(***************************************************************************)
FullInv == IInv /\ LinkInv /\ UniqueInv /\ ZeroInv /\ CountInv /\ JournalInv

LEMMA FullInvHolds == Spec => []FullInv
<1>1. Init => FullInv
  BY InitIInv, InitLink, InitZero DEF FullInv, Init, CountInv, JournalInv, Running
<1>2. FullInv /\ [Next]_vars => FullInv'
  BY NextIInv, LinkStep, UniqueStep, ZeroStep, CountStep, JournalStep DEF FullInv
<1> QED
  BY <1>1, <1>2, PTL DEF Spec

\* RaceVolume means by its terms what the relation means.
LEMMA SameTerms ==
  /\ Abstract!Active = Active
  /\ \A x : Abstract!Segments(x) = Segments(x)
  /\ \A s, heights : Abstract!Places(s, heights) = Places(s, heights)
  /\ \A mask, i, s, places :
       /\ Abstract!SwapCount(mask, i, s, places) = SwapCount(mask, i, s, places)
       /\ Abstract!SwapVolume(mask, i, s, places) = SwapVolume(mask, i, s, places)
<1>1. Abstract!Active = Active BY DEF Abstract!Active, Active
<1>2. \A x : Abstract!Segments(x) = Segments(x) BY DEF Abstract!Segments, Segments
<1>3. \A s, heights : Abstract!Places(s, heights) = Places(s, heights)
  BY DEF Abstract!Places, Places, Abstract!ReceiptIndices, ReceiptIndices, Abstract!ReceiptAt, ReceiptAt
<1>4. \A mask, i, s, places : Abstract!Swaps(mask, i, s, places) = Swaps(mask, i, s, places)
  BY DEF Abstract!Swaps, Swaps, Abstract!Counts, Counts, Abstract!ReceiptAt, ReceiptAt,
         Abstract!LogAt, LogAt, Abstract!Qualifies, Qualifies, Abstract!Watched, Watched,
         Abstract!Traded, Traded, Abstract!SlotOf, SlotOf, Abstract!QuoteAmount, QuoteAmount,
         Abstract!Active, Active
<1>5. \A mask, i, s, places :
        Abstract!SwapCount(mask, i, s, places) = SwapCount(mask, i, s, places)
  <2>1. \A S : Abstract!Cardinality(S) = Cardinality(S)
    BY DEF Abstract!Cardinality, Cardinality
  <2> QED BY <1>4, <2>1 DEF Abstract!SwapCount, SwapCount
<1>6. \A mask, i, s, places :
        Abstract!SwapVolume(mask, i, s, places) = SwapVolume(mask, i, s, places)
  <2>1. ASSUME NEW mask, NEW i, NEW s, NEW places, NEW S, S = Swaps(mask, i, s, places)
        PROVE  Abstract!SwapVolume(mask, i, s, places) = SwapVolume(mask, i, s, places)
    <3>1. Abstract!Swaps(mask, i, s, places) = S BY <1>4, <2>1
    <3> QED
      BY <2>1, <3>1, Zenon
      DEF Abstract!SwapVolume, SwapVolume, Abstract!ReceiptAt, ReceiptAt, Abstract!LogAt, LogAt,
          Abstract!QuoteAmount, QuoteAmount, Abstract!SlotOf, SlotOf, Abstract!Traded, Traded,
          Abstract!Active, Active, Abstract!MapThenSumSet, MapThenSumSet,
          Abstract!MapThenFoldSet, MapThenFoldSet
  <2> QED BY <2>1
<1> QED BY <1>1, <1>2, <1>3, <1>5, <1>6

\* Only Commit changes the journal.
LEMMA JournalChanges ==
  ASSUME JournalInv, JournalInv', [Next]_vars, journal' # journal
  PROVE  phase = "encode" /\ phase' = "committed" /\ c' = c
BY DEF JournalInv, Next, ReadContext, ReadBlock, VisitReceipt, VisitLog, FinishReceipt, TrieFails,
       FinishBlock, ReadEnd, Commit, Reject, Fail, vars, totals, LogsLeft

\* A committed journal is one RaceVolume may publish.
LEMMA CommittedIsPublished ==
  ASSUME FullInv, phase = "committed"
  PROVE  /\ journal # NoJournal
         /\ Abstract!Names(journal.context)
         /\ \E s \in Segments(journal.context) : journal = Reference(journal.context, s)
         /\ \A i \in Slot : journal.volumeQuote[i] <= MaxU256 /\ journal.swapCount[i] <= MaxU256
<1>1. journal = [context |-> c, volumeQuote |-> volumes, swapCount |-> counts]
  BY DEF FullInv, JournalInv
<1>2. /\ c \in Context
      /\ volumes \in [Slot -> 0..MaxU256] /\ counts \in [Slot -> 0..MaxU256]
  BY DEF FullInv, IInv, TypeOK
<1>3. journal # NoJournal
  <2>1. "volumeQuote" \in DOMAIN journal BY <1>1
  <2>2. "volumeQuote" \notin DOMAIN NoJournal BY DEF NoJournal
  <2> QED BY <2>1, <2>2
<1>4. Abstract!Names(c)
  <2>1. ~ContextError(c) BY DEF FullInv, IInv, ReadInv, Running, JournalError
  <2>2. c.from \in Nat /\ c.to \in Nat BY <1>2 DEF Context
  <2>3. StartBlock \in Nat /\ SnapshotBlock \in Nat BY TermsAssumption
  <2> QED BY <2>1, <2>2, <2>3, SameTerms DEF Abstract!Names, ContextError, MaskError
<1>5. Segments(c) = {TheSegment}
  BY SegmentDetermined DEF FullInv, SegmentIsDetermined
<1>6. Done = AllPlaces BY AllDone DEF FullInv, IInv, VisitInv
<1>7. ASSUME NEW i \in Slot
      PROVE  /\ counts[i] = SwapCount(c.mask, i, TheSegment, AllPlaces)
             /\ volumes[i] = SwapVolume(c.mask, i, TheSegment, AllPlaces)
  <2>1. counts[i] = Cardinality(Counted(i)) /\ volumes[i] = VolumeOf(TheSegment, Counted(i))
    BY DEF FullInv, CountInv, Running
  <2>2. Counted(i) = Swaps(c.mask, i, TheSegment, AllPlaces) BY <1>6 DEF Counted
  <2> QED BY <2>1, <2>2 DEF SwapCount, SwapVolume, VolumeOf, Amount
<1>8. journal = Reference(c, TheSegment)
  <2>1. volumes = [i \in Slot |-> SwapVolume(c.mask, i, TheSegment, AllPlaces)] BY <1>2, <1>7
  <2>2. counts = [i \in Slot |-> SwapCount(c.mask, i, TheSegment, AllPlaces)] BY <1>2, <1>7
  <2> QED BY <1>1, <2>1, <2>2 DEF Reference, AllPlaces
<1>9. ASSUME NEW i \in Slot PROVE volumes[i] <= MaxU256 /\ counts[i] <= MaxU256
  <2>1. volumes[i] \in 0..MaxU256 /\ counts[i] \in 0..MaxU256 BY <1>2
  <2> QED BY <2>1, TermsAssumption
<1> QED
  BY <1>1, <1>3, <1>4, <1>5, <1>8, <1>9

\* The guest implements its contract: whatever the host feeds it, for every chain, terms
\* and width of the sums, it publishes nothing or the exact volumes and swap counts of the
\* one segment its context names.
THEOREM ChunkImplementsRaceVolume == Spec => ImplementsRaceVolume
<1>1. Init => Abstract!Init
  BY DEF Init, Abstract!Init, NoJournal, Abstract!NoJournal
<1>2. ASSUME FullInv, FullInv', [Next]_vars PROVE [Abstract!Publish]_journal
  <2>1. SUFFICES ASSUME journal' # journal PROVE Abstract!Publish
    OBVIOUS
  <2>2. phase = "encode" /\ phase' = "committed"
    BY <1>2, <2>1, JournalChanges DEF FullInv
  <2>3. journal = NoJournal
    BY <1>2, <2>2 DEF FullInv, JournalInv
  <2>4. (/\ journal # NoJournal
         /\ Abstract!Names(journal.context)
         /\ \E s \in Segments(journal.context) : journal = Reference(journal.context, s)
         /\ \A i \in Slot : journal.volumeQuote[i] <= MaxU256 /\ journal.swapCount[i] <= MaxU256)'
    <3>1. (FullInv /\ phase = "committed" =>
           /\ journal # NoJournal
           /\ Abstract!Names(journal.context)
           /\ \E s \in Segments(journal.context) : journal = Reference(journal.context, s)
           /\ \A i \in Slot : journal.volumeQuote[i] <= MaxU256 /\ journal.swapCount[i] <= MaxU256)'
      BY CommittedIsPublished, PTL
    <3> QED BY <1>2, <2>2, <3>1
  <2> QED
    BY <2>3, <2>4, SameTerms DEF Abstract!Publish, NoJournal, Abstract!NoJournal, Reference
<1> QED
  BY <1>1, <1>2, FullInvHolds, PTL DEF Spec, ImplementsRaceVolume, Abstract!Spec

-----------------------------------------------------------------------------
(***************************************************************************)
(* The diagnostics.                                                        *)
(***************************************************************************)
\* The receipts of the segment, by height and index.
AllReceipts == UNION {{h} \X ReceiptIndices(TheSegment[h]) : h \in DOMAIN TheSegment}

\* Those of the blocks finished, of all the receipts finished those that failed, and the
\* logs of the receipts finished.
ReceiptsBelow == {p \in AllReceipts : p[1] <= Tip}
FailedDone ==
  {p \in AllReceipts : /\ p[1] < height \/ p[2] \notin todo \cup {receipt}
                       /\ ReceiptAt(TheSegment[p[1]], p[2]).status = "failed"}
LogsDone == {p \in AllPlaces : p[1] < height \/ p[2][1] \notin todo \cup {receipt}}

DiagnosticsInv ==
  /\ phase = "context" => blocks = 0 /\ receipts = 0 /\ failed = 0 /\ logs = 0
  /\ phase = "receipts" /\ receipt # -1 => Current.status # "malformed"
  /\ Running =>
       /\ blocks = Tip - c.from
       /\ IsFiniteSet(ReceiptsBelow) /\ receipts = Cardinality(ReceiptsBelow)
       /\ IsFiniteSet(FailedDone) /\ failed = Cardinality(FailedDone)
       /\ IsFiniteSet(LogsDone) /\ logs = Cardinality(LogsDone)

IsReceipt(s, lo, hi, p) ==
  \E h \in (lo + 1)..hi : \E r \in ReceiptIndices(s[h]) : p = <<h, r>>

LEMMA ReceiptsAre ==
  \A p : p \in AllReceipts <=> IsReceipt(TheSegment, c.from, height, p)
<1>1. DOMAIN TheSegment = (c.from + 1)..height BY DEF TheSegment
<1>2. \A h, p : p \in {h} \X ReceiptIndices(TheSegment[h]) <=>
                \E r \in ReceiptIndices(TheSegment[h]) : p = <<h, r>>
  OBVIOUS
<1> QED BY <1>1, <1>2 DEF AllReceipts, IsReceipt

LEMMA ReceiptsAreNext ==
  \A p : p \in AllReceipts' <=> IsReceipt(TheSegment', c'.from, height', p)
<1>1. DOMAIN TheSegment' = (c'.from + 1)..height' BY DEF TheSegment
<1>2. \A h, p : p \in {h} \X ReceiptIndices(TheSegment'[h]) <=>
                \E r \in ReceiptIndices(TheSegment'[h]) : p = <<h, r>>
  OBVIOUS
<1> QED BY <1>1, <1>2 DEF AllReceipts, IsReceipt

\* The sizes of the intervals that number receipts and logs, and of two disjoint sets.
LEMMA SizeUpTo ==
  ASSUME NEW k \in Nat
  PROVE  /\ IsFiniteSet(1..k) /\ Cardinality(1..k) = k
         /\ IsFiniteSet(0..(k - 1)) /\ Cardinality(0..(k - 1)) = k
<1>1. ASSUME NEW a \in Int, NEW b \in Int
      PROVE  IsFiniteSet(a..b) /\ Cardinality(a..b) = IF a > b THEN 0 ELSE b - a + 1
  BY FS_Interval
<1>2. 0 \in Int /\ 1 \in Int /\ k \in Int /\ k - 1 \in Int OBVIOUS
<1>3. IsFiniteSet(1..k) /\ Cardinality(1..k) = IF 1 > k THEN 0 ELSE k - 1 + 1 BY <1>1, <1>2
<1>4. IsFiniteSet(0..(k - 1)) /\ Cardinality(0..(k - 1)) = IF 0 > k - 1 THEN 0 ELSE k - 1 - 0 + 1
  BY <1>1, <1>2
<1>5. (IF 1 > k THEN 0 ELSE k - 1 + 1) = k /\ (IF 0 > k - 1 THEN 0 ELSE k - 1 - 0 + 1) = k
  OBVIOUS
<1> QED BY <1>3, <1>4, <1>5

LEMMA SizeOfDisjoint ==
  ASSUME NEW S, NEW T, IsFiniteSet(S), IsFiniteSet(T), S \cap T = {}
  PROVE  IsFiniteSet(S \cup T) /\ Cardinality(S \cup T) = Cardinality(S) + Cardinality(T)
<1>1. Cardinality(S) \in Nat /\ Cardinality(T) \in Nat BY FS_CardinalityType
<1>2. Cardinality(S \cap T) = 0 BY FS_EmptySet
<1>3. /\ IsFiniteSet(S \cup T)
      /\ Cardinality(S \cup T) = Cardinality(S) + Cardinality(T) - Cardinality(S \cap T)
  BY FS_Union
<1> QED BY <1>1, <1>2, <1>3

\* Nothing is finished: the sets and the counters stay.
LEMMA SameDiagnostics ==
  ASSUME DiagnosticsInv, Running,
         UNCHANGED <<c, diagnostics, Tip, ReceiptsBelow, FailedDone, LogsDone>>,
         phase' # "context",
         phase' = "receipts" /\ receipt' # -1 => Current'.status # "malformed"
  PROVE  DiagnosticsInv'
BY DEF DiagnosticsInv, diagnostics

LEMMA DiagReadContext ==
  ASSUME IInv, DiagnosticsInv, ReadContext, phase' # "rejected"
  PROVE  DiagnosticsInv'
<1>1. /\ phase = "context" /\ phase' = "blocks" /\ height' = c'.from /\ c'.from \in Nat
      /\ UNCHANGED diagnostics
  BY NextIInv, ReadContextStep DEF IInv, TypeOK, Context, Next
<1>2. AllPlaces' = {} BY <1>1, PlaceIsNext DEF IsPlace
<1>3. AllReceipts' = {} BY <1>1, ReceiptsAreNext DEF IsReceipt
<1>4. ReceiptsBelow' = {} /\ FailedDone' = {} /\ LogsDone' = {}
  BY <1>2, <1>3 DEF ReceiptsBelow, FailedDone, LogsDone
<1>5. blocks' = 0 /\ receipts' = 0 /\ failed' = 0 /\ logs' = 0
  BY <1>1 DEF DiagnosticsInv, diagnostics
<1> QED BY <1>1, <1>4, <1>5, FS_EmptySet DEF DiagnosticsInv, Tip

LEMMA DiagReadBlock ==
  ASSUME IInv, DiagnosticsInv, ReadBlock, phase' # "rejected"
  PROVE  DiagnosticsInv'
<1>1. /\ phase = "blocks" /\ phase' = "receipts"
      /\ height' = height + 1 /\ height \in Nat /\ c.from \in Nat /\ height >= c.from
      /\ UNCHANGED <<c, receipt, diagnostics>>
      /\ todo' = ReceiptIndices(Header')
      /\ TheSegment' = [h \in (c.from + 1)..(height + 1) |->
                          IF h = height + 1 THEN Header' ELSE TheSegment[h]]
      /\ todo = {} /\ receipt = -1
  BY ReadBlockStep DEF IInv, VisitInv
<1>2. Tip = height /\ Tip' = height BY <1>1 DEF Tip
<1>3. \A h \in (c.from + 1)..height : TheSegment'[h] = TheSegment[h] BY <1>1
<1>4. TheSegment'[height + 1] = Header' BY <1>1
<1>5. ASSUME NEW p
      PROVE  p \in AllReceipts' <=>
               p \in AllReceipts \/ \E r \in ReceiptIndices(Header') : p = <<height + 1, r>>
  <2>1. \A h : h \in (c'.from + 1)..height' <=> h \in (c.from + 1)..height \/ h = height + 1
    BY <1>1
  <2>2. IsReceipt(TheSegment', c'.from, height', p) <=>
          \/ IsReceipt(TheSegment, c.from, height, p)
          \/ \E r \in ReceiptIndices(Header') : p = <<height + 1, r>>
    BY <1>3, <1>4, <2>1 DEF IsReceipt
  <2> QED BY <2>2, ReceiptsAre, ReceiptsAreNext
<1>6. ASSUME NEW p \in AllReceipts
      PROVE  p[1] \in Int /\ p[1] <= height /\ TheSegment'[p[1]] = TheSegment[p[1]] /\ p[2] # -1
  <2>1. PICK h \in (c.from + 1)..height : \E r \in ReceiptIndices(TheSegment[h]) : p = <<h, r>>
    BY ReceiptsAre DEF IsReceipt
  <2> QED BY <1>1, <1>3, <2>1 DEF ReceiptIndices
<1>7. ASSUME NEW p \in AllReceipts', p \notin AllReceipts
      PROVE  p[1] = height + 1 /\ p[2] \in todo'
  BY <1>1, <1>5, <1>7
<1>8. ReceiptsBelow' = ReceiptsBelow
  BY <1>1, <1>2, <1>5, <1>6, <1>7 DEF ReceiptsBelow
<1>9. FailedDone' = FailedDone
  <2>1. ASSUME NEW p PROVE p \in FailedDone' <=> p \in FailedDone
    <3>1. CASE p \in AllReceipts
      BY <1>1, <1>5, <1>6, <3>1 DEF FailedDone
    <3>2. CASE p \notin AllReceipts
      BY <1>1, <1>7, <3>2 DEF FailedDone
    <3> QED BY <3>1, <3>2
  <2>2. FailedDone' \subseteq AllReceipts' /\ FailedDone \subseteq AllReceipts BY DEF FailedDone
  <2> QED BY <2>1, <2>2
<1>10. ASSUME NEW p
       PROVE  p \in AllPlaces' <=>
                \/ p \in AllPlaces
                \/ \E r \in ReceiptIndices(Header') :
                     \E l \in 1..Len(ReceiptAt(Header', r).logs) : p = <<height + 1, <<r, l>>>>
  <2>1. \A h : h \in (c'.from + 1)..height' <=> h \in (c.from + 1)..height \/ h = height + 1
    BY <1>1
  <2>2. IsPlace(TheSegment', (c'.from + 1)..height', p) <=>
          \/ IsPlace(TheSegment, (c.from + 1)..height, p)
          \/ \E r \in ReceiptIndices(Header') :
               \E l \in 1..Len(ReceiptAt(Header', r).logs) : p = <<height + 1, <<r, l>>>>
    BY <1>3, <1>4, <2>1 DEF IsPlace
  <2> QED BY <2>2, PlaceIs, PlaceIsNext
<1>11. ASSUME NEW p \in AllPlaces PROVE p[1] \in Int /\ p[1] <= height /\ p[2][1] # -1
  <2>1. PICK h \in (c.from + 1)..height : \E r \in ReceiptIndices(TheSegment[h]) :
               \E l \in 1..Len(ReceiptAt(TheSegment[h], r).logs) : p = <<h, <<r, l>>>>
    BY PlaceIs DEF IsPlace
  <2> QED BY <1>1, <2>1 DEF ReceiptIndices
<1>12. ASSUME NEW p \in AllPlaces', p \notin AllPlaces
       PROVE  p[1] = height + 1 /\ p[2][1] \in todo'
  BY <1>1, <1>10, <1>12
<1>13. LogsDone' = LogsDone
  <2>1. ASSUME NEW p PROVE p \in LogsDone' <=> p \in LogsDone
    <3>1. CASE p \in AllPlaces
      BY <1>1, <1>10, <1>11, <3>1 DEF LogsDone
    <3>2. CASE p \notin AllPlaces
      BY <1>1, <1>12, <3>2 DEF LogsDone
    <3> QED BY <3>1, <3>2
  <2>2. LogsDone' \subseteq AllPlaces' /\ LogsDone \subseteq AllPlaces BY DEF LogsDone
  <2> QED BY <2>1, <2>2
<1> QED BY <1>1, <1>2, <1>8, <1>9, <1>13, SameDiagnostics DEF Running

LEMMA DiagVisitReceipt ==
  ASSUME IInv, DiagnosticsInv, VisitReceipt, phase' # "rejected"
  PROVE  DiagnosticsInv'
<1>1. PICK r \in todo :
        /\ receipt' = r /\ todo' = todo \ {r} /\ ReceiptAt(Header, r).status # "malformed"
        /\ UNCHANGED <<phase, c, read, height, diagnostics>>
  BY DEF VisitReceipt, Reject, Fail, Remaining
<1>2. phase = "receipts" /\ receipt = -1 BY DEF VisitReceipt
<1>3. UNCHANGED <<TheSegment, AllPlaces, Header>> BY <1>1, SameFrames
<1>4. AllReceipts' = AllReceipts BY <1>3 DEF AllReceipts
<1>5. ASSUME NEW p \in AllReceipts PROVE p[2] # -1
  BY ReceiptsAre DEF IsReceipt, ReceiptIndices
<1>6. ASSUME NEW p \in AllPlaces PROVE p[2][1] # -1
  <2>1. PICK h \in (c.from + 1)..height : \E x \in ReceiptIndices(TheSegment[h]) :
               \E l \in 1..Len(ReceiptAt(TheSegment[h], x).logs) : p = <<h, <<x, l>>>>
    BY PlaceIs DEF IsPlace
  <2> QED BY <2>1 DEF ReceiptIndices
<1>7. \A x : x # -1 => (x \notin todo' \cup {receipt'} <=> x \notin todo \cup {receipt})
  BY <1>1, <1>2
<1>8. ReceiptsBelow' = ReceiptsBelow /\ Tip' = Tip BY <1>1, <1>4 DEF ReceiptsBelow, Tip
<1>9. FailedDone' = FailedDone BY <1>1, <1>3, <1>4, <1>5, <1>7 DEF FailedDone
<1>10. LogsDone' = LogsDone BY <1>1, <1>3, <1>6, <1>7 DEF LogsDone
<1>11. Current'.status # "malformed" BY <1>1, <1>3 DEF Current
<1> QED BY <1>1, <1>2, <1>8, <1>9, <1>10, <1>11, SameDiagnostics DEF Running

\* What finishing the receipt or the block at hand adds.
LogsAtHand     == {height} \X ({receipt} \X (1..Len(Current.logs)))
FailureAtHand  == IF Current.status = "failed" THEN {<<height, receipt>>} ELSE {}
ReceiptsAtHand == {height} \X ReceiptIndices(Header)

LEMMA AtHand ==
  ASSUME IInv, phase = "receipts"
  PROVE  /\ height \in Nat /\ c.from \in Nat /\ height \in (c.from + 1)..height
         /\ Header = TheSegment[height] /\ Header \in Block
         /\ receipt # -1 => receipt \notin todo /\ receipt \in ReceiptIndices(Header)
         /\ receipt # -1 => Current \in Receipt /\ Len(Current.logs) \in Nat
         /\ Len(Receipts[Header]) \in Nat
<1>1. height \in Nat /\ c.from \in Nat /\ height \in (c.from + 1)..height
  BY DEF IInv, TypeOK, ReadInv, Running, Context
<1>2. Header = TheSegment[height] /\ Header \in Block BY HeaderType
<1>3. receipt # -1 => receipt \notin todo /\ receipt \in ReceiptIndices(Header)
  BY DEF IInv, VisitInv
<1>4. receipt # -1 => Current \in Receipt /\ Len(Current.logs) \in Nat
  BY <1>2, <1>3, LogType DEF Current
<1>5. Len(Receipts[Header]) \in Nat
  <2>1. Receipts[Header] \in Seq(Receipt) BY <1>2, ChainAssumption
  <2> QED BY <2>1
<1> QED BY <1>1, <1>2, <1>3, <1>4, <1>5

LEMMA LogsAreAtHand ==
  ASSUME IInv, phase = "receipts", receipt # -1
  PROVE  /\ LogsAtHand \subseteq AllPlaces
         /\ IsFiniteSet(LogsAtHand) /\ Cardinality(LogsAtHand) = Len(Current.logs)
         /\ \A p \in AllPlaces :
              /\ p[1] \in Int /\ p[1] <= height /\ p[2][1] # -1
              /\ p \in LogsAtHand <=> p[1] = height /\ p[2][1] = receipt
<1>1. ASSUME NEW p \in AllPlaces
      PROVE  /\ p[1] \in Int /\ p[1] <= height /\ p[2][1] # -1
             /\ p \in LogsAtHand <=> p[1] = height /\ p[2][1] = receipt
  <2>1. PICK h \in (c.from + 1)..height : \E x \in ReceiptIndices(TheSegment[h]) :
               \E l \in 1..Len(ReceiptAt(TheSegment[h], x).logs) : p = <<h, <<x, l>>>>
    BY PlaceIs DEF IsPlace
  <2>2. PICK x \in ReceiptIndices(TheSegment[h]) :
               \E l \in 1..Len(ReceiptAt(TheSegment[h], x).logs) : p = <<h, <<x, l>>>>
    BY <2>1
  <2>3. PICK l \in 1..Len(ReceiptAt(TheSegment[h], x).logs) : p = <<h, <<x, l>>>>
    BY <2>2
  <2>4. p[1] = h /\ p[2][1] = x /\ x # -1 BY <2>3 DEF ReceiptIndices
  <2>5. p \in LogsAtHand <=> h = height /\ x = receipt /\ l \in 1..Len(Current.logs)
    BY <2>3 DEF LogsAtHand
  <2>6. h = height /\ x = receipt => l \in 1..Len(Current.logs) BY AtHand, <2>3 DEF Current
  <2> QED BY AtHand, <2>4, <2>5, <2>6
<1>2. ASSUME NEW p \in LogsAtHand PROVE p \in AllPlaces
  <2>1. PICK l \in 1..Len(Current.logs) : p = <<height, <<receipt, l>>>> BY DEF LogsAtHand
  <2>2. l \in 1..Len(ReceiptAt(TheSegment[height], receipt).logs) BY AtHand, <2>1 DEF Current
  <2>3. IsPlace(TheSegment, (c.from + 1)..height, p) BY AtHand, <2>1, <2>2 DEF IsPlace
  <2> QED BY <2>3, PlaceIs
<1>3. IsFiniteSet(LogsAtHand) /\ Cardinality(LogsAtHand) = Len(Current.logs)
  <2>1. PICK n \in Nat : n = Len(Current.logs) BY AtHand
  <2>2. IsFiniteSet(1..n) /\ Cardinality(1..n) = n BY SizeUpTo
  <2>3. IsFiniteSet({receipt}) /\ Cardinality({receipt}) = 1 BY FS_Singleton
  <2>4. IsFiniteSet({height}) /\ Cardinality({height}) = 1 BY FS_Singleton
  <2>5. IsFiniteSet({receipt} \X (1..n)) /\ Cardinality({receipt} \X (1..n)) = 1 * n
    BY <2>2, <2>3, FS_Product
  <2>6. /\ IsFiniteSet({height} \X ({receipt} \X (1..n)))
        /\ Cardinality({height} \X ({receipt} \X (1..n))) = 1 * (1 * n)
    BY <2>4, <2>5, FS_Product
  <2> QED BY <2>1, <2>6 DEF LogsAtHand
<1> QED BY <1>1, <1>2, <1>3

LEMMA ReceiptsAreAtHand ==
  ASSUME IInv, phase = "receipts"
  PROVE  /\ ReceiptsAtHand \subseteq AllReceipts
         /\ IsFiniteSet(ReceiptsAtHand) /\ Cardinality(ReceiptsAtHand) = Len(Receipts[Header])
         /\ \A p \in AllReceipts :
              /\ p[1] \in Int /\ p[1] <= height /\ p[2] # -1
              /\ p \in ReceiptsAtHand <=> p[1] = height
              /\ p = <<height, receipt>> <=> p[1] = height /\ p[2] = receipt
<1>1. ASSUME NEW p \in AllReceipts
      PROVE  /\ p[1] \in Int /\ p[1] <= height /\ p[2] # -1
             /\ p \in ReceiptsAtHand <=> p[1] = height
             /\ p = <<height, receipt>> <=> p[1] = height /\ p[2] = receipt
  <2>1. PICK h \in (c.from + 1)..height : \E r \in ReceiptIndices(TheSegment[h]) : p = <<h, r>>
    BY ReceiptsAre DEF IsReceipt
  <2>2. PICK r \in ReceiptIndices(TheSegment[h]) : p = <<h, r>> BY <2>1
  <2>3. p \in ReceiptsAtHand <=> h = height BY AtHand, <2>2 DEF ReceiptsAtHand
  <2> QED BY AtHand, <2>2, <2>3 DEF ReceiptIndices
<1>2. ASSUME NEW p \in ReceiptsAtHand PROVE p \in AllReceipts
  <2>1. PICK r \in ReceiptIndices(Header) : p = <<height, r>> BY DEF ReceiptsAtHand
  <2>2. IsReceipt(TheSegment, c.from, height, p) BY AtHand, <2>1 DEF IsReceipt
  <2> QED BY <2>2, ReceiptsAre
<1>3. IsFiniteSet(ReceiptsAtHand) /\ Cardinality(ReceiptsAtHand) = Len(Receipts[Header])
  <2>1. PICK n \in Nat : n = Len(Receipts[Header]) BY AtHand
  <2>2. IsFiniteSet(0..(n - 1)) /\ Cardinality(0..(n - 1)) = n BY SizeUpTo
  <2>3. IsFiniteSet({height}) /\ Cardinality({height}) = 1 BY FS_Singleton
  <2>4. /\ IsFiniteSet({height} \X (0..(n - 1)))
        /\ Cardinality({height} \X (0..(n - 1))) = 1 * n
    BY <2>2, <2>3, FS_Product
  <2> QED BY <2>1, <2>4 DEF ReceiptsAtHand, ReceiptIndices
<1> QED BY <1>1, <1>2, <1>3

LEMMA FailureIsAtHand ==
  ASSUME IInv, DiagnosticsInv, phase = "receipts", receipt # -1
  PROVE  /\ FailureAtHand \subseteq AllReceipts
         /\ IsFiniteSet(FailureAtHand) /\ Cardinality(FailureAtHand) = Failure
         /\ \A p \in AllReceipts :
              p \in FailureAtHand <=>
                p[1] = height /\ p[2] = receipt /\ Current.status = "failed"
<1>1. Current.status \in {"success", "failed"} BY AtHand DEF DiagnosticsInv, Receipt
<1>2. <<height, receipt>> \in AllReceipts
  <2>1. IsReceipt(TheSegment, c.from, height, <<height, receipt>>) BY AtHand DEF IsReceipt
  <2> QED BY <2>1, ReceiptsAre
<1>3. \A p \in AllReceipts :
        p \in FailureAtHand <=> p[1] = height /\ p[2] = receipt /\ Current.status = "failed"
  BY ReceiptsAreAtHand DEF FailureAtHand
<1>4. IsFiniteSet(FailureAtHand) /\ Cardinality(FailureAtHand) = Failure
  BY <1>1, FS_Singleton, FS_EmptySet DEF FailureAtHand, Failure, Records
<1>5. FailureAtHand \subseteq AllReceipts BY <1>2 DEF FailureAtHand
<1> QED BY <1>3, <1>4, <1>5

\* None of it is counted yet.
LEMMA NotYetCounted ==
  ASSUME IInv, DiagnosticsInv, phase = "receipts"
  PROVE  /\ receipt # -1 => LogsDone \cap LogsAtHand = {} /\ FailedDone \cap FailureAtHand = {}
         /\ ReceiptsBelow \cap ReceiptsAtHand = {}
<1>1. ASSUME receipt # -1 PROVE LogsDone \cap LogsAtHand = {}
  BY <1>1, AtHand, LogsAreAtHand DEF LogsDone
<1>2. ASSUME receipt # -1 PROVE FailedDone \cap FailureAtHand = {}
  BY <1>2, AtHand, FailureIsAtHand DEF FailedDone
<1>3. ReceiptsBelow \cap ReceiptsAtHand = {}
  BY AtHand, ReceiptsAreAtHand DEF ReceiptsBelow, Tip
<1> QED BY <1>1, <1>2, <1>3

\* A receipt is finished: its logs are added, and it is if it failed.
LEMMA DiagFinishReceipt ==
  ASSUME IInv, DiagnosticsInv, FinishReceipt, phase' # "rejected"
  PROVE  DiagnosticsInv'
<1>1. /\ receipt' = -1 /\ phase = "receipts" /\ receipt # -1 /\ at = Len(Current.logs)
      /\ logs' = logs + at /\ failed' = failed + Failure
      /\ UNCHANGED <<phase, c, read, height, todo, blocks, receipts>>
  BY DEF FinishReceipt, Reject, Fail
<1>2. UNCHANGED <<TheSegment, AllPlaces, Header>> /\ Header = TheSegment[height] /\ receipt \notin todo
  BY <1>1, SameFrames, AtHand
<1>3. AllReceipts' = AllReceipts BY <1>2 DEF AllReceipts
<1>4. LogsDone' = LogsDone \cup LogsAtHand
  <2>1. ASSUME NEW p \in AllPlaces PROVE p \in LogsDone' <=> p \in LogsDone \/ p \in LogsAtHand
    <3>1. /\ p[1] \in Int /\ p[1] <= height /\ p[2][1] # -1 /\ height \in Nat
          /\ p \in LogsAtHand <=> p[1] = height /\ p[2][1] = receipt
      BY <1>1, LogsAreAtHand, AtHand
    <3>2. p \in LogsDone <=> p[1] < height \/ p[2][1] \notin todo \cup {receipt} BY DEF LogsDone
    <3>3. p \in LogsDone' <=> p[1] < height \/ p[2][1] \notin todo \cup {-1}
      BY <1>1, <1>2 DEF LogsDone
    <3> QED BY <1>2, <3>1, <3>2, <3>3
  <2>2. LogsDone' \subseteq AllPlaces /\ LogsDone \subseteq AllPlaces BY <1>2 DEF LogsDone
  <2>3. LogsAtHand \subseteq AllPlaces BY <1>1, LogsAreAtHand
  <2> QED BY <2>1, <2>2, <2>3
<1>5. FailedDone' = FailedDone \cup FailureAtHand
  <2>1. ASSUME NEW p \in AllReceipts
        PROVE  p \in FailedDone' <=> p \in FailedDone \/ p \in FailureAtHand
    <3>1. /\ p[1] \in Int /\ p[1] <= height /\ p[2] # -1 /\ height \in Nat
      BY <1>1, ReceiptsAreAtHand, AtHand
    <3>2. p \in FailedDone <=>
            /\ p[1] < height \/ p[2] \notin todo \cup {receipt}
            /\ ReceiptAt(TheSegment[p[1]], p[2]).status = "failed"
      BY DEF FailedDone
    <3>3. p \in FailedDone' <=>
            /\ p[1] < height \/ p[2] \notin todo \cup {-1}
            /\ ReceiptAt(TheSegment[p[1]], p[2]).status = "failed"
      BY <1>1, <1>2, <1>3 DEF FailedDone
    <3>4. p \in FailureAtHand <=> p[1] = height /\ p[2] = receipt /\ Current.status = "failed"
      BY <1>1, FailureIsAtHand
    <3>5. p[1] = height /\ p[2] = receipt =>
            ReceiptAt(TheSegment[p[1]], p[2]).status = Current.status
      BY <1>2 DEF Current
    <3> QED BY <1>2, <3>1, <3>2, <3>3, <3>4, <3>5
  <2>2. FailedDone' \subseteq AllReceipts /\ FailedDone \subseteq AllReceipts BY <1>3 DEF FailedDone
  <2>3. FailureAtHand \subseteq AllReceipts BY <1>1, FailureIsAtHand
  <2> QED BY <2>1, <2>2, <2>3
<1>6. /\ IsFiniteSet(LogsDone) /\ logs = Cardinality(LogsDone)
      /\ IsFiniteSet(FailedDone) /\ failed = Cardinality(FailedDone)
      /\ IsFiniteSet(ReceiptsBelow) /\ receipts = Cardinality(ReceiptsBelow)
      /\ blocks = Tip - c.from
  BY <1>1 DEF DiagnosticsInv, Running
<1>7. IsFiniteSet(LogsDone') /\ logs' = Cardinality(LogsDone')
  <2>1. /\ IsFiniteSet(LogsAtHand) /\ Cardinality(LogsAtHand) = at /\ LogsDone \cap LogsAtHand = {}
    BY <1>1, LogsAreAtHand, NotYetCounted
  <2>2. /\ IsFiniteSet(LogsDone \cup LogsAtHand)
        /\ Cardinality(LogsDone \cup LogsAtHand) = Cardinality(LogsDone) + Cardinality(LogsAtHand)
    BY <1>6, <2>1, SizeOfDisjoint
  <2> QED BY <1>1, <1>4, <1>6, <2>1, <2>2
<1>8. IsFiniteSet(FailedDone') /\ failed' = Cardinality(FailedDone')
  <2>1. /\ IsFiniteSet(FailureAtHand) /\ Cardinality(FailureAtHand) = Failure
        /\ FailedDone \cap FailureAtHand = {}
    BY <1>1, FailureIsAtHand, NotYetCounted
  <2>2. /\ IsFiniteSet(FailedDone \cup FailureAtHand)
        /\ Cardinality(FailedDone \cup FailureAtHand) =
             Cardinality(FailedDone) + Cardinality(FailureAtHand)
    BY <1>6, <2>1, SizeOfDisjoint
  <2> QED BY <1>1, <1>5, <1>6, <2>1, <2>2
<1>9. ReceiptsBelow' = ReceiptsBelow /\ Tip' = Tip BY <1>1, <1>3 DEF ReceiptsBelow, Tip
<1> QED BY <1>1, <1>6, <1>7, <1>8, <1>9 DEF DiagnosticsInv

\* A block is finished: its receipts are added.
LEMMA DiagFinishBlock ==
  ASSUME IInv, DiagnosticsInv, FinishBlock, phase' # "rejected"
  PROVE  DiagnosticsInv'
<1>1. /\ phase = "receipts" /\ receipt = -1 /\ todo = {} /\ phase' = "blocks"
      /\ receipts' = receipts + Len(Receipts[Header]) /\ blocks' = blocks + 1
      /\ UNCHANGED <<c, read, height, todo, receipt, failed, logs>>
  BY DEF FinishBlock, Reject, Fail
<1>2. UNCHANGED <<TheSegment, AllPlaces>> BY <1>1, SameFrames
<1>3. AllReceipts' = AllReceipts BY <1>2 DEF AllReceipts
<1>4. Tip = height - 1 /\ Tip' = height /\ height \in Nat /\ c.from \in Nat
  BY <1>1, AtHand DEF Tip
<1>5. ReceiptsBelow' = ReceiptsBelow \cup ReceiptsAtHand
  <2>1. ASSUME NEW p \in AllReceipts
        PROVE  p \in ReceiptsBelow' <=> p \in ReceiptsBelow \/ p \in ReceiptsAtHand
    <3>1. p[1] \in Int /\ p[1] <= height /\ (p \in ReceiptsAtHand <=> p[1] = height)
      BY <1>1, ReceiptsAreAtHand
    <3> QED BY <1>3, <1>4, <3>1 DEF ReceiptsBelow
  <2>2. ReceiptsAtHand \subseteq AllReceipts BY <1>1, ReceiptsAreAtHand
  <2>3. ReceiptsBelow' \subseteq AllReceipts /\ ReceiptsBelow \subseteq AllReceipts
    BY <1>3 DEF ReceiptsBelow
  <2> QED BY <2>1, <2>2, <2>3
<1>6. /\ IsFiniteSet(LogsDone) /\ logs = Cardinality(LogsDone)
      /\ IsFiniteSet(FailedDone) /\ failed = Cardinality(FailedDone)
      /\ IsFiniteSet(ReceiptsBelow) /\ receipts = Cardinality(ReceiptsBelow)
      /\ blocks = Tip - c.from
  BY <1>1 DEF DiagnosticsInv, Running
<1>7. UNCHANGED <<LogsDone, FailedDone>> BY <1>1, <1>2, <1>3 DEF LogsDone, FailedDone
<1>8. IsFiniteSet(ReceiptsBelow') /\ receipts' = Cardinality(ReceiptsBelow')
  <2>1. /\ IsFiniteSet(ReceiptsAtHand) /\ Cardinality(ReceiptsAtHand) = Len(Receipts[Header])
        /\ ReceiptsBelow \cap ReceiptsAtHand = {}
    BY <1>1, ReceiptsAreAtHand, NotYetCounted
  <2>2. /\ IsFiniteSet(ReceiptsBelow \cup ReceiptsAtHand)
        /\ Cardinality(ReceiptsBelow \cup ReceiptsAtHand) =
             Cardinality(ReceiptsBelow) + Cardinality(ReceiptsAtHand)
    BY <1>6, <2>1, SizeOfDisjoint
  <2> QED BY <1>1, <1>5, <1>6, <2>1, <2>2
<1>9. blocks' = Tip' - c'.from BY <1>1, <1>4, <1>6
<1> QED BY <1>1, <1>6, <1>7, <1>8, <1>9 DEF DiagnosticsInv

LEMMA DiagOther ==
  ASSUME IInv, DiagnosticsInv, VisitLog \/ ReadEnd \/ Commit \/ UNCHANGED vars, phase' # "rejected"
  PROVE  DiagnosticsInv'
<1>1. CASE phase = "context"
  BY <1>1 DEF DiagnosticsInv, Running, VisitLog, LogsLeft, ReadEnd, Commit, vars, diagnostics
<1>2. CASE phase # "context"
  <2>1. /\ UNCHANGED <<c, height, todo, receipt, diagnostics>> /\ Running /\ phase' # "context"
        /\ phase' = "receipts" <=> phase = "receipts"
    BY <1>2 DEF VisitLog, LogsLeft, ReadEnd, Commit, vars, position, Reject, Fail, Running, IInv, TypeOK
  <2>2. UNCHANGED <<TheSegment, AllPlaces>> /\ (phase = "receipts" => UNCHANGED Current)
    <3>1. CASE ReadEnd
      <4>1. PICK f \in Input : read' = Append(read, f)
        BY <3>1 DEF ReadEnd, Reject, Fail
      <4>2. /\ read \in Seq(Input) /\ Len(read) = height - c.from + 1 /\ phase # "receipts"
            /\ height \in Nat /\ c.from \in Nat
        BY <3>1 DEF ReadEnd, IInv, TypeOK, ReadInv, Running, Context
      <4>3. \A h \in (c.from + 1)..height : read'[h - c.from + 1] = read[h - c.from + 1]
        BY <4>1, <4>2
      <4>4. TheSegment' = TheSegment BY <2>1, <4>3 DEF TheSegment
      <4> QED BY <4>2, <4>4 DEF AllPlaces, Places
    <3>2. CASE ~ReadEnd
      <4>1. UNCHANGED read
        BY <1>2, <3>2 DEF VisitLog, Commit, vars, Reject, Fail
      <4> QED BY <2>1, <4>1, SameFrames DEF Current
    <3> QED BY <3>1, <3>2
  <2>3. AllReceipts' = AllReceipts BY <2>2 DEF AllReceipts
  <2>4. UNCHANGED <<Tip, ReceiptsBelow, FailedDone, LogsDone>>
    BY <2>1, <2>2, <2>3 DEF Tip, ReceiptsBelow, FailedDone, LogsDone
  <2>5. phase' = "receipts" /\ receipt' # -1 => Current'.status # "malformed"
    BY <2>1, <2>2 DEF DiagnosticsInv
  <2> QED BY <2>1, <2>4, <2>5, SameDiagnostics
<1> QED BY <1>1, <1>2

LEMMA DiagnosticsStep ==
  ASSUME IInv, DiagnosticsInv, [Next]_vars
  PROVE  DiagnosticsInv'
<1>1. CASE phase' = "rejected"
  BY <1>1 DEF DiagnosticsInv, Running
<1>2. CASE phase' # "rejected"
  <2>1. TrieFails => phase' = "rejected" BY DEF TrieFails, Reject, Fail
  <2> QED
    BY <1>2, <2>1, DiagReadContext, DiagReadBlock, DiagVisitReceipt, DiagFinishReceipt,
       DiagFinishBlock, DiagOther DEF Next
<1> QED BY <1>1, <1>2

\* The diagnostics of a committed chunk are the sizes of what was traversed, for every
\* chain and order of the calls; no failed receipt or log of one is left out.
THEOREM CommittedDiagnosticsAreExact == Spec => []DiagnosticsAreExact
<1>1. Init => DiagnosticsInv BY DEF Init, DiagnosticsInv, Running
<1>2. FullInv /\ DiagnosticsInv => DiagnosticsAreExact
  <2> SUFFICES ASSUME FullInv, DiagnosticsInv, phase = "committed", NEW s \in Segments(c)
               PROVE  LET all == UNION {{h} \X ReceiptIndices(s[h]) : h \in DOMAIN s}
                      IN  /\ blocks = c.to - c.from
                          /\ receipts = Cardinality(all)
                          /\ failed = Cardinality({p \in all : ReceiptAt(s[p[1]], p[2]).status = "failed"})
                          /\ logs = Cardinality(Places(s, DOMAIN s))
    BY DEF DiagnosticsAreExact
  <2>1. s = TheSegment BY SegmentDetermined DEF FullInv, SegmentIsDetermined
  <2>2. height = c.to /\ Tip = height /\ todo = {} /\ receipt = -1 /\ c.from \in Nat /\ c.to \in Nat
    BY DEF FullInv, IInv, ReadInv, VisitInv, Running, Tip, TypeOK, Context
  <2>3. ReceiptsBelow = AllReceipts
    <3>1. \A p \in AllReceipts : p[1] <= height BY <2>2, ReceiptsAre DEF IsReceipt
    <3> QED BY <2>2, <3>1 DEF ReceiptsBelow
  <2>4. FailedDone = {p \in AllReceipts : ReceiptAt(TheSegment[p[1]], p[2]).status = "failed"}
    <3>1. \A p \in AllReceipts : p[2] # -1 BY ReceiptsAre DEF IsReceipt, ReceiptIndices
    <3> QED BY <2>2, <3>1 DEF FailedDone
  <2>5. LogsDone = AllPlaces
    <3>1. \A p \in AllPlaces : p[2][1] # -1
      <4> SUFFICES ASSUME NEW p \in AllPlaces PROVE p[2][1] # -1 OBVIOUS
      <4>1. PICK h \in (c.from + 1)..height : \E x \in ReceiptIndices(TheSegment[h]) :
                   \E l \in 1..Len(ReceiptAt(TheSegment[h], x).logs) : p = <<h, <<x, l>>>>
        BY PlaceIs DEF IsPlace
      <4> QED BY <4>1 DEF ReceiptIndices
    <3> QED BY <2>2, <3>1 DEF LogsDone
  <2>6. /\ blocks = Tip - c.from /\ receipts = Cardinality(ReceiptsBelow)
        /\ failed = Cardinality(FailedDone) /\ logs = Cardinality(LogsDone)
    BY DEF DiagnosticsInv, Running
  <2> QED BY <2>1, <2>2, <2>3, <2>4, <2>5, <2>6 DEF AllReceipts, AllPlaces
<1>3. FullInv /\ DiagnosticsInv /\ [Next]_vars => DiagnosticsInv'
  BY DiagnosticsStep DEF FullInv
<1> QED BY <1>1, <1>2, <1>3, FullInvHolds, PTL DEF Spec

-----------------------------------------------------------------------------
(***************************************************************************)
(* No honest chunk is turned away.  What is walked so far is a part of the *)
(* segment the prover meant, so no counter or total is beyond what it is   *)
(* for the whole segment, and no check fails.                              *)
(***************************************************************************)
EveryReceipt(s) == UNION {{h} \X ReceiptIndices(s[h]) : h \in DOMAIN s}
EveryPlace(s)   == Places(s, DOMAIN s)

\* The frames pulled begin an input of sound blocks that fits.
Honest(frames, x, s) ==
  /\ s \in Segments(x) /\ \A h \in DOMAIN s : SoundBlock(s[h])
  /\ Fits(x, s)
  /\ \A k \in DOMAIN frames :
       k <= Len(HonestInput(x, s)) /\ frames[k] = HonestInput(x, s)[k]

\* The context in force is the one pulled first.
ContextInv == Running => c = read[1].context /\ ~BadContext(read[1])

LEMMA UnionFinite ==
  ASSUME NEW D, IsFiniteSet(D), NEW f, \A d \in D : IsFiniteSet(f[d])
  PROVE  IsFiniteSet(UNION {f[d] : d \in D})
<1>1. PICK T : T = {f[d] : d \in D} OBVIOUS
<1>2. PICK g : g = [d \in D |-> f[d]] OBVIOUS
<1>3. g \in Surjection(D, T) BY <1>1, <1>2 DEF Surjection
<1>4. IsFiniteSet(T) BY <1>3, FS_Surjection
<1>5. \A S \in T : IsFiniteSet(S) BY <1>1
<1>6. IsFiniteSet(UNION T) BY <1>4, <1>5, FS_UNION
<1> QED BY <1>1, <1>6

LEMMA BlockFinite ==
  ASSUME NEW b \in Block
  PROVE  /\ IsFiniteSet(ReceiptIndices(b))
         /\ IsFiniteSet(UNION {{r} \X (1..Len(ReceiptAt(b, r).logs)) : r \in ReceiptIndices(b)})
<1>1. IsFiniteSet(ReceiptIndices(b))
  <2>1. Receipts[b] \in Seq(Receipt) BY ChainAssumption
  <2>2. PICK n \in Nat : n = Len(Receipts[b]) BY <2>1
  <2>3. IsFiniteSet(0..(n - 1)) BY SizeUpTo
  <2> QED BY <2>2, <2>3 DEF ReceiptIndices
<1>2. PICK f : f = [r \in ReceiptIndices(b) |-> {r} \X (1..Len(ReceiptAt(b, r).logs))] OBVIOUS
<1>3. ASSUME NEW r \in ReceiptIndices(b) PROVE IsFiniteSet(f[r])
  <2>1. PICK n \in Nat : n = Len(ReceiptAt(b, r).logs) BY LogType
  <2>2. IsFiniteSet(1..n) BY SizeUpTo
  <2>3. IsFiniteSet({r}) BY FS_Singleton
  <2>4. IsFiniteSet({r} \X (1..n)) BY <2>2, <2>3, FS_Product
  <2> QED BY <1>2, <2>1, <2>4
<1>4. IsFiniteSet(UNION {f[r] : r \in ReceiptIndices(b)}) BY <1>1, <1>3, UnionFinite
<1>5. {f[r] : r \in ReceiptIndices(b)}
        = {{r} \X (1..Len(ReceiptAt(b, r).logs)) : r \in ReceiptIndices(b)}
  BY <1>2
<1> QED BY <1>1, <1>4, <1>5

LEMMA SegmentFinite ==
  ASSUME NEW x \in Context, NEW s \in Segments(x)
  PROVE  /\ IsFiniteSet(DOMAIN s) /\ DOMAIN s = (x.from + 1)..x.to
         /\ \A h \in DOMAIN s : s[h] \in Block
         /\ IsFiniteSet(EveryReceipt(s)) /\ IsFiniteSet(EveryPlace(s))
<1>1. DOMAIN s = (x.from + 1)..x.to /\ \A h \in DOMAIN s : s[h] \in Block BY DEF Segments
<1>2. PICK D : D = DOMAIN s OBVIOUS
<1>3. IsFiniteSet(D)
  <2>1. x.from + 1 \in Int /\ x.to \in Int BY DEF Context
  <2> QED BY <1>1, <1>2, <2>1, FS_Interval
<1>4. \A h \in D : IsFiniteSet({h}) BY FS_Singleton
<1>5. IsFiniteSet(EveryReceipt(s))
  <2>1. PICK f : f = [h \in D |-> {h} \X ReceiptIndices(s[h])] OBVIOUS
  <2>2. ASSUME NEW h \in D PROVE IsFiniteSet(f[h])
    <3>1. IsFiniteSet(ReceiptIndices(s[h])) BY <1>1, <1>2, BlockFinite
    <3> QED BY <1>4, <2>1, <3>1, FS_Product
  <2>3. IsFiniteSet(UNION {f[h] : h \in D}) BY <1>3, <2>2, UnionFinite
  <2>4. {f[h] : h \in D} = {{h} \X ReceiptIndices(s[h]) : h \in D} BY <2>1
  <2> QED BY <1>2, <2>3, <2>4 DEF EveryReceipt
<1>6. IsFiniteSet(EveryPlace(s))
  <2>1. PICK f : f = [h \in D |->
                        {h} \X UNION {{r} \X (1..Len(ReceiptAt(s[h], r).logs)) :
                                        r \in ReceiptIndices(s[h])}]
    OBVIOUS
  <2>2. ASSUME NEW h \in D PROVE IsFiniteSet(f[h])
    <3>1. IsFiniteSet(UNION {{r} \X (1..Len(ReceiptAt(s[h], r).logs)) :
                               r \in ReceiptIndices(s[h])})
      BY <1>1, <1>2, BlockFinite
    <3> QED BY <1>4, <2>1, <3>1, FS_Product
  <2>3. IsFiniteSet(UNION {f[h] : h \in D}) BY <1>3, <2>2, UnionFinite
  <2>4. {f[h] : h \in D}
          = {{h} \X UNION {{r} \X (1..Len(ReceiptAt(s[h], r).logs)) :
                             r \in ReceiptIndices(s[h])} : h \in D}
    BY <2>1
  <2> QED BY <1>2, <2>3, <2>4 DEF EveryPlace, Places
<1> QED BY <1>1, <1>2, <1>3, <1>5, <1>6

\* An honest input, frame by frame.
LEMMA InputIs ==
  ASSUME NEW x \in Context, x.from <= x.to, NEW s
  PROVE  /\ Len(HonestInput(x, s)) = x.to - x.from + 2
         /\ HonestInput(x, s)[1] = [kind |-> "context", context |-> x]
         /\ HonestInput(x, s)[x.to - x.from + 2] = NoFrame
         /\ \A h \in (x.from + 1)..x.to :
              HonestInput(x, s)[h - x.from + 1] =
                [kind |-> "block", header |-> s[h], complete |-> TRUE]
<1>1. PICK n \in Nat : n = x.to - x.from BY DEF Context
<1>2. x.from \in Nat /\ x.to \in Nat BY DEF Context
<1>3. PICK ctx : ctx = [kind |-> "context", context |-> x] OBVIOUS
<1> DEFINE Blk(k) == [kind |-> "block", header |-> s[x.from + k], complete |-> TRUE]
           w == [k \in 1..n |-> Blk(k)]
           A == {ctx} \cup {Blk(k) : k \in 1..n}
<1>4. PICK bs : bs = w OBVIOUS
<1>5. HonestInput(x, s) = Append(<<ctx>> \o bs, NoFrame)
  BY <1>1, <1>3, <1>4 DEF HonestInput, HonestFrames
<1>6. bs \in Seq(A) /\ Len(bs) = n
  <2>1. \A k \in 1..n : Blk(k) \in A OBVIOUS
  <2> HIDE DEF A, Blk
  <2>2. w \in Seq(A) /\ Len(w) = n BY <2>1
  <2> QED BY <1>4, <2>2
<1>7. \A k \in 1..n : bs[k] = [kind |-> "block", header |-> s[x.from + k], complete |-> TRUE]
  BY <1>4
<1>8. <<ctx>> \in Seq(A) /\ Len(<<ctx>>) = 1 /\ <<ctx>>[1] = ctx
  <2>1. ctx \in A OBVIOUS
  <2> HIDE DEF A
  <2> QED BY <2>1
<1> HIDE DEF w, A
<1>9. PICK fs \in Seq(A) : /\ fs = <<ctx>> \o bs /\ Len(fs) = n + 1 /\ fs[1] = ctx
                           /\ \A k \in 1..n : fs[k + 1] = bs[k]
  <2>1. PICK c1 : c1 = <<ctx>> /\ c1 \in Seq(A) /\ Len(c1) = 1 /\ c1[1] = ctx BY <1>8
  <2>a. PICK fs : fs = c1 \o bs OBVIOUS
  <2>2. /\ fs \in Seq(A) /\ Len(fs) = Len(c1) + Len(bs)
        /\ \A k \in 1..(Len(c1) + Len(bs)) :
             fs[k] = IF k <= Len(c1) THEN c1[k] ELSE bs[k - Len(c1)]
    BY <1>6, <2>1, <2>a, ConcatProperties
  <2>3. \A k \in 1..(1 + n) : fs[k] = IF k <= 1 THEN c1[k] ELSE bs[k - 1] BY <1>6, <2>1, <2>2
  <2>4. Len(fs) = n + 1 BY <1>6, <2>1, <2>2
  <2>5. fs[1] = ctx BY <2>1, <2>3
  <2>6. ASSUME NEW k \in 1..n PROVE fs[k + 1] = bs[k]
    <3>1. k + 1 \in 1..(1 + n) /\ ~(k + 1 <= 1) /\ (k + 1) - 1 = k OBVIOUS
    <3> QED BY <2>3, <3>1
  <2> QED BY <2>1, <2>a, <2>2, <2>4, <2>5, <2>6
<1>10. /\ Len(Append(fs, NoFrame)) = n + 2 /\ Append(fs, NoFrame)[n + 2] = NoFrame
       /\ \A k \in 1..(n + 1) : Append(fs, NoFrame)[k] = fs[k]
  BY <1>9
<1>11. PICK is : is = HonestInput(x, s) OBVIOUS
<1>12. /\ Len(is) = n + 2 /\ is[n + 2] = NoFrame /\ is[1] = ctx
       /\ \A k \in 1..n : is[k + 1] = bs[k]
  <2>1. \A k \in 1..n : k + 1 \in 1..(n + 1) OBVIOUS
  <2> QED BY <1>5, <1>9, <1>10, <1>11, <2>1
<1>13. ASSUME NEW h \in (x.from + 1)..x.to
       PROVE  is[h - x.from + 1] = [kind |-> "block", header |-> s[h], complete |-> TRUE]
  <2>1. PICK k \in 1..n : k = h - x.from BY <1>1, <1>2
  <2>2. h = x.from + k /\ h - x.from + 1 = k + 1 BY <1>2, <2>1
  <2> QED BY <1>7, <1>12, <2>2
<1> QED BY <1>1, <1>3, <1>11, <1>12, <1>13

LEMMA ContextStep == ASSUME IInv, ContextInv, [Next]_vars PROVE ContextInv'
<1>1. CASE phase' = "rejected" BY <1>1 DEF ContextInv, Running
<1>2. CASE ReadContext /\ phase' # "rejected"
  <2>1. PICK f \in Input : read' = Append(read, f) /\ ~BadContext(f) /\ c' = f.context
    BY <1>2 DEF ReadContext, Fail
  <2>2. read = <<>> BY <1>2 DEF ReadContext, IInv, ReadInv
  <2>3. read'[1] = f BY <2>1, <2>2
  <2> QED BY <2>1, <2>3 DEF ContextInv, BadContext
<1>3. CASE ~ReadContext /\ phase' # "rejected"
  <2>1. Running' => Running /\ c' = c /\ (read' = read \/ \E f \in Input : read' = Append(read, f))
    BY <1>3 DEF Next, ReadBlock, VisitReceipt, VisitLog, LogsLeft, FinishReceipt, TrieFails,
                FinishBlock, ReadEnd, Commit, Reject, Fail, vars, Running
  <2>2. Running => read \in Seq(Input) /\ Len(read) >= 1
    <3>1. Running => Len(read) >= height - c.from + 1 /\ height >= c.from /\ height \in Nat
                     /\ c.from \in Nat /\ read \in Seq(Input)
      BY DEF IInv, ReadInv, TypeOK, Context
    <3> QED BY <3>1
  <2>3. Running' => read'[1] = read[1] BY <2>1, <2>2
  <2> QED BY <2>1, <2>3 DEF ContextInv, BadContext
<1> QED BY <1>1, <1>2, <1>3

\* What an honest prover's input has let through is the start of the segment.
LEMMA HonestReads ==
  ASSUME IInv, Running, NEW s, Honest(read, c, s)
  PROVE  /\ \A h \in (c.from + 1)..height : TheSegment[h] = s[h]
         /\ phase = "receipts" => TheFrame.complete
<1>1. /\ c \in Context /\ c.from \in Nat /\ c.to \in Nat /\ c.from < c.to
      /\ height \in c.from..c.to /\ height \in Nat /\ read \in Seq(Input)
      /\ Len(read) >= height - c.from + 1
  BY DEF IInv, ReadInv, TypeOK, Context, JournalError, ContextError
<1>2. \A h \in (c.from + 1)..c.to :
        HonestInput(c, s)[h - c.from + 1] = [kind |-> "block", header |-> s[h], complete |-> TRUE]
  <2>1. c \in Context /\ c.from <= c.to BY <1>1
  <2> QED BY <2>1, InputIs
<1>3. ASSUME NEW h \in (c.from + 1)..height
      PROVE  read[h - c.from + 1].header = s[h] /\ read[h - c.from + 1].complete
  <2>1. h - c.from + 1 \in DOMAIN read /\ h \in (c.from + 1)..c.to BY <1>1
  <2>2. read[h - c.from + 1] = HonestInput(c, s)[h - c.from + 1] BY <2>1 DEF Honest
  <2>3. read[h - c.from + 1] = [kind |-> "block", header |-> s[h], complete |-> TRUE]
    BY <1>2, <2>1, <2>2
  <2> QED BY <2>3
<1>4. \A h \in (c.from + 1)..height : TheSegment[h] = s[h]
  <2>1. \A h \in (c.from + 1)..height : TheSegment[h] = read[h - c.from + 1].header
    BY DEF TheSegment
  <2> QED BY <1>3, <2>1
<1>5. ASSUME phase = "receipts" PROVE TheFrame.complete
  <2>1. TheFrame = read[height - c.from + 1] /\ height \in (c.from + 1)..height
    BY <1>5, HeaderType, AtHand
  <2>2. read[height - c.from + 1].complete BY <1>3, <2>1
  <2> QED BY <2>1, <2>2
<1> QED BY <1>4, <1>5

\* It is a part of the segment.
LEMMA HonestPart ==
  ASSUME IInv, Running, NEW s, Honest(read, c, s)
  PROVE  /\ DOMAIN s = (c.from + 1)..c.to
         /\ AllReceipts \subseteq EveryReceipt(s) /\ AllPlaces \subseteq EveryPlace(s)
         /\ \A p \in AllPlaces : TheSegment[p[1]] = s[p[1]]
<1>1. /\ c \in Context /\ c.from \in Nat /\ c.to \in Nat /\ height \in c.from..c.to /\ height \in Nat
  BY DEF IInv, ReadInv, TypeOK, Context
<1>2. DOMAIN s = (c.from + 1)..c.to BY DEF Honest, Segments
<1>3. \A h \in (c.from + 1)..height : TheSegment[h] = s[h] /\ h \in DOMAIN s
  BY <1>1, <1>2, HonestReads
<1>4. ASSUME NEW p \in AllReceipts PROVE p \in EveryReceipt(s)
  <2>1. PICK h \in (c.from + 1)..height : \E r \in ReceiptIndices(TheSegment[h]) : p = <<h, r>>
    BY ReceiptsAre DEF IsReceipt
  <2>2. p \in {h} \X ReceiptIndices(s[h]) /\ h \in DOMAIN s BY <1>3, <2>1
  <2> QED BY <2>2 DEF EveryReceipt
<1>5. ASSUME NEW p \in AllPlaces PROVE p \in EveryPlace(s) /\ TheSegment[p[1]] = s[p[1]]
  <2>1. PICK h \in (c.from + 1)..height : \E r \in ReceiptIndices(TheSegment[h]) :
               \E l \in 1..Len(ReceiptAt(TheSegment[h], r).logs) : p = <<h, <<r, l>>>>
    BY PlaceIs DEF IsPlace
  <2>2. TheSegment[h] = s[h] /\ h \in DOMAIN s /\ p[1] = h BY <1>3, <2>1
  <2>3. IsPlace(s, DOMAIN s, p) BY <2>1, <2>2 DEF IsPlace
  <2> QED BY <2>2, <2>3, PlacesAre DEF EveryPlace
<1> QED BY <1>2, <1>4, <1>5

\* The log at hand is not counted yet.
LEMMA NextPlace ==
  ASSUME IInv, LogsLeft
  PROVE  LET q == <<height, <<receipt, at + 1>>>>
         IN  /\ q \in AllPlaces /\ q \notin Done
             /\ Amount(TheSegment, q) = QuoteAmount(TheLog)
             /\ \A i \in Slot : Counts(c.mask, i, TheSegment[height], receipt, at + 1)
                                  <=> Contributes /\ SlotOf(TheLog) = i
<1>1. /\ phase = "receipts" /\ receipt # -1 /\ at \in Nat /\ at + 1 \in 1..Len(Current.logs)
  BY LogStep DEF LogsLeft, IInv, TypeOK
<1>2. /\ height \in (c.from + 1)..height /\ Header = TheSegment[height] /\ height \in Nat
      /\ receipt \notin todo /\ receipt \in ReceiptIndices(Header)
  BY <1>1, AtHand
<1>3. PICK q : q = <<height, <<receipt, at + 1>>>> OBVIOUS
<1>4. q \in AllPlaces BY <1>1, <1>2, <1>3, PlaceIs DEF Current, IsPlace
<1>5. q \notin Done BY <1>1, <1>2, <1>3 DEF Done
<1>6. Amount(TheSegment, q) = QuoteAmount(TheLog) BY <1>2, <1>3 DEF Amount, TheLog
<1>7. \A i \in Slot : Counts(c.mask, i, TheSegment[height], receipt, at + 1)
                      <=> Contributes /\ SlotOf(TheLog) = i
  BY <1>2 DEF Counts, Contributes, Records, Current, TheLog
<1> QED BY <1>3, <1>4, <1>5, <1>6, <1>7

\* What pulling a frame makes of the frames pulled.
LEMMA Pulled ==
  ASSUME NEW s \in Seq(Input), NEW f \in Input, NEW t, t = Append(s, f)
  PROVE  /\ Len(s) \in Nat /\ DOMAIN t = 1..(Len(s) + 1) /\ DOMAIN s = 1..Len(s)
         /\ Len(s) + 1 \in DOMAIN t /\ t[Len(s) + 1] = f
         /\ \A k \in DOMAIN s : k \in DOMAIN t /\ t[k] = s[k]
<1>1. t \in Seq(Input) /\ Len(t) = Len(s) + 1 /\ Len(s) \in Nat OBVIOUS
<1>2. DOMAIN t = 1..Len(t) /\ DOMAIN s = 1..Len(s) BY <1>1
<1>3. t[Len(s) + 1] = f /\ \A k \in 1..Len(s) : t[k] = s[k] OBVIOUS
<1> QED BY <1>1, <1>2, <1>3

LEMMA ReadBlockHonest ==
  ASSUME IInv, LinkInv, ReadBlock, NEW s, Honest(read, c, s), Honest(read', c, s)
  PROVE  phase' # "rejected"
<1>1. PICK f \in Input : read' = Append(read, f) /\ (phase' = "rejected" => BadBlock(f))
  BY DEF ReadBlock, Fail
<1>2. /\ phase = "blocks" /\ Running /\ c \in Context /\ c.from \in Nat /\ c.to \in Nat
      /\ height \in c.from..c.to /\ height < c.to /\ read \in Seq(Input)
      /\ Len(read) = height - c.from + 1
  BY DEF ReadBlock, IInv, ReadInv, TypeOK, Context, Running
<1>3. PICK h \in (c.from + 1)..c.to : h = height + 1 BY <1>2
<1>4. f = [kind |-> "block", header |-> s[h], complete |-> TRUE]
  <2>1. HonestInput(c, s)[h - c.from + 1] = [kind |-> "block", header |-> s[h], complete |-> TRUE]
    <3>1. c \in Context /\ c.from <= c.to BY <1>2
    <3> QED BY <3>1, InputIs
  <2>2. h - c.from + 1 = Len(read) + 1 BY <1>2, <1>3
  <2>3. Len(read) + 1 \in DOMAIN read' /\ read'[Len(read) + 1] = f
    <3>1. PICK t : t = read' OBVIOUS
    <3>2. t = Append(read, f) /\ read \in Seq(Input) BY <1>1, <1>2, <3>1
    <3> QED BY <3>1, <3>2, Pulled
  <2>4. read'[Len(read) + 1] = HonestInput(c, s)[Len(read) + 1] BY <2>3 DEF Honest
  <2> QED BY <2>1, <2>2, <2>3, <2>4
<1>5. /\ s[h] \in Block /\ Number[s[h]] = h
      /\ Parent[s[h]] = IF h = c.from + 1 THEN c.before ELSE s[h - 1]
  BY DEF Honest, Segments
<1>6. f # NoFrame
  <2>1. f \in FrameType BY <1>4, <1>5 DEF FrameType
  <2> QED BY <2>1, FrameAssumption
<1>7. parent = IF height = c.from THEN c.before ELSE s[height]
  <2>1. parent = IF height = c.from THEN c.before ELSE TheSegment[height]
    BY <1>2 DEF LinkInv, Tip
  <2>2. height # c.from => height \in (c.from + 1)..height BY <1>2
  <2> QED BY <1>2, <2>1, <2>2, HonestReads
<1>8. Number[f.header] = height + 1 BY <1>3, <1>4, <1>5
<1>9. Parent[f.header] = parent
  <2>1. h = c.from + 1 <=> height = c.from BY <1>2, <1>3
  <2>2. h - 1 = height BY <1>2, <1>3
  <2> QED BY <1>4, <1>5, <1>7, <2>1, <2>2
<1>10. ~BadBlock(f) BY <1>4, <1>6, <1>8, <1>9 DEF BadBlock
<1> QED BY <1>1, <1>10

\* The block at hand is one of the segment, and sound.
LEMMA HonestBlock ==
  ASSUME IInv, phase = "receipts", NEW s, Honest(read, c, s)
  PROVE  Header = s[height] /\ SoundBlock(Header) /\ TheFrame.complete
<1>1. Running BY DEF Running
<1>2. height \in (c.from + 1)..height /\ Header = TheSegment[height] BY AtHand
<1>3. height \in c.from..c.to /\ c.from \in Nat /\ c.to \in Nat
  BY <1>1 DEF IInv, ReadInv, TypeOK, Context
<1>4. height \in (c.from + 1)..c.to BY <1>2, <1>3
<1>5. height \in DOMAIN s BY <1>4 DEF Honest, Segments
<1>6. TheSegment[height] = s[height] /\ TheFrame.complete BY <1>1, <1>2, HonestReads
<1> QED BY <1>2, <1>5, <1>6 DEF Honest

LEMMA VisitReceiptHonest ==
  ASSUME IInv, VisitReceipt, NEW s, Honest(read, c, s)
  PROVE  phase' # "rejected"
<1>1. phase = "receipts" BY DEF VisitReceipt
<1>2. todo \subseteq ReceiptIndices(Header) BY <1>1 DEF IInv, VisitInv
<1>3. \A r \in todo : ReceiptAt(Header, r).status # "malformed"
  BY <1>1, <1>2, HonestBlock DEF SoundBlock
<1> QED BY <1>1, <1>3 DEF VisitReceipt

LEMMA VisitLogHonest ==
  ASSUME IInv, CountInv, VisitLog, NEW s, Honest(read, c, s)
  PROVE  phase' # "rejected"
<1>1. LogsLeft /\ phase = "receipts" /\ receipt # -1 BY DEF VisitLog, LogsLeft
<1>2. Running BY <1>1 DEF Running
<1>3. /\ receipt \in ReceiptIndices(Header) /\ at + 1 \in 1..Len(Current.logs) /\ TheLog \in Log
      /\ Contributes => SlotOf(TheLog) \in Slot /\ QuoteAmount(TheLog) \in Nat
  BY <1>1, LogStep
<1>4. Len(TheLog.topics) <= 4 /\ (Records => ~LogError(TheLog))
  <2>1. SoundBlock(Header) BY <1>1, HonestBlock
  <2>2. Current \in Receipt BY <1>1, AtHand
  <2>3. at + 1 \in DOMAIN Current.logs BY <1>3, <2>2 DEF Receipt
  <2>4. SoundLog(Current.status, Current.logs[at + 1]) BY <1>3, <2>1, <2>3 DEF SoundBlock, Current
  <2>5. TheLog = Current.logs[at + 1] BY DEF TheLog, LogAt, Current
  <2> QED BY <2>4, <2>5 DEF SoundLog, Records
<1>5. ASSUME Contributes PROVE ~Overflows(TheLog)
  <2>1. PICK i \in Slot : i = SlotOf(TheLog) BY <1>3, <1>5
  <2>2. PICK q : q = <<height, <<receipt, at + 1>>>> OBVIOUS
  <2>3. /\ q \in AllPlaces /\ q \notin Done /\ Amount(TheSegment, q) = QuoteAmount(TheLog)
        /\ Counts(c.mask, i, TheSegment[height], receipt, at + 1)
    BY <1>1, <1>5, <2>1, <2>2, NextPlace
  <2>4. PICK W : W = Swaps(c.mask, i, s, EveryPlace(s)) OBVIOUS
  <2>5. /\ IsFiniteSet(Counted(i)) /\ counts[i] = Cardinality(Counted(i))
        /\ volumes[i] = VolumeOf(TheSegment, Counted(i))
    BY <1>2 DEF CountInv
  <2>6. PICK V : V = Counted(i) \cup {q} OBVIOUS
  <2>7. V \subseteq AllPlaces /\ q \notin Counted(i)
    BY <2>3, <2>6 DEF Counted, Swaps, Done
  <2>8. V \subseteq W
    <3>1. \A p \in Counted(i) : Counts(c.mask, i, TheSegment[p[1]], p[2][1], p[2][2])
      BY DEF Counted, Swaps
    <3>2. q[1] = height /\ q[2][1] = receipt /\ q[2][2] = at + 1 BY <2>2
    <3>3. \A p \in V : Counts(c.mask, i, TheSegment[p[1]], p[2][1], p[2][2])
      BY <2>3, <2>6, <3>1, <3>2
    <3>4. \A p \in V : p \in EveryPlace(s) /\ TheSegment[p[1]] = s[p[1]] BY <1>2, <2>7, HonestPart
    <3> QED BY <2>4, <3>3, <3>4 DEF Swaps
  <2>9. IsFiniteSet(W) /\ \A p \in W : Amount(s, p) \in Nat
    <3>1. c \in Context /\ s \in Segments(c) BY DEF IInv, TypeOK, Honest
    <3>2. IsFiniteSet(EveryPlace(s)) /\ \A h \in DOMAIN s : s[h] \in Block BY <3>1, SegmentFinite
    <3>3. W \subseteq EveryPlace(s) BY <2>4 DEF Swaps
    <3>4. ASSUME NEW p \in EveryPlace(s) PROVE Amount(s, p) \in Nat
      <4>1. PICK h \in DOMAIN s : \E r \in ReceiptIndices(s[h]) :
              \E l \in 1..Len(ReceiptAt(s[h], r).logs) : p = <<h, <<r, l>>>>
        BY PlacesAre DEF EveryPlace, IsPlace
      <4>2. PICK r \in ReceiptIndices(s[h]) :
              \E l \in 1..Len(ReceiptAt(s[h], r).logs) : p = <<h, <<r, l>>>>
        BY <4>1
      <4>3. PICK l \in 1..Len(ReceiptAt(s[h], r).logs) : p = <<h, <<r, l>>>> BY <4>2
      <4>4. p[1] = h /\ p[2][1] = r /\ p[2][2] = l BY <4>3
      <4>5. LogAt(s[h], r, l) \in Log BY <3>2, LogType
      <4> QED BY <4>4, <4>5, QuoteAmountType DEF Amount
    <3> QED BY <3>2, <3>3, <3>4, FS_Subset
  <2>10. Cardinality(W) <= MaxU256 /\ VolumeOf(s, W) <= MaxU256
    <3>1. Reference(c, s).volumeQuote[i] <= MaxU256 /\ Reference(c, s).swapCount[i] <= MaxU256
      BY DEF Honest, Fits
    <3>2. /\ Reference(c, s).volumeQuote[i] = SwapVolume(c.mask, i, s, EveryPlace(s))
          /\ Reference(c, s).swapCount[i] = SwapCount(c.mask, i, s, EveryPlace(s))
      BY DEF Reference, EveryPlace
    <3>3. SwapVolume(c.mask, i, s, EveryPlace(s)) = VolumeOf(s, W)
      BY <2>4 DEF SwapVolume, VolumeOf, Amount
    <3>4. SwapCount(c.mask, i, s, EveryPlace(s)) = Cardinality(W) BY <2>4 DEF SwapCount
    <3> QED BY <3>1, <3>2, <3>3, <3>4
  <2>11. counts[i] + 1 <= MaxU256
    <3>1. IsFiniteSet(V) /\ Cardinality(V) = Cardinality(Counted(i)) + 1
      BY <2>5, <2>6, <2>7, FS_AddElement
    <3>2. Cardinality(V) <= Cardinality(W) BY <2>8, <2>9, FS_Subset
    <3>3. Cardinality(V) \in Nat /\ Cardinality(W) \in Nat BY <2>9, <3>1, FS_CardinalityType
    <3> QED BY <2>5, <2>10, <3>1, <3>2, <3>3, TermsAssumption
  <2>12. volumes[i] + QuoteAmount(TheLog) <= MaxU256
    <3>1. \A p \in V : Amount(TheSegment, p) \in Nat BY <1>2, <2>7, AmountType
    <3>2. /\ VolumeOf(TheSegment, Counted(i)) \in Nat
          /\ VolumeOf(TheSegment, V) = VolumeOf(TheSegment, Counted(i)) + Amount(TheSegment, q)
      BY <2>5, <2>6, <2>7, <3>1, VolumeFacts
    <3>3. IsFiniteSet(V) BY <2>5, <2>6, FS_AddElement
    <3>4. \A p \in V : Amount(TheSegment, p) = Amount(s, p) /\ Amount(s, p) \in Nat
      <4>1. \A p \in V : TheSegment[p[1]] = s[p[1]] BY <1>2, <2>7, HonestPart
      <4> QED BY <2>8, <2>9, <4>1 DEF Amount
    <3>5. VolumeOf(TheSegment, V) = VolumeOf(s, V) BY <3>3, <3>4, VolumeSame
    <3>6. VolumeOf(s, V) \in Nat /\ VolumeOf(s, W) \in Nat /\ VolumeOf(s, V) <= VolumeOf(s, W)
      BY <2>8, <2>9, VolumeGrows
    <3> QED BY <2>3, <2>5, <2>10, <3>2, <3>5, <3>6, TermsAssumption
  <2>13. volumes[i] \in Nat /\ counts[i] \in Nat /\ QuoteAmount(TheLog) \in Nat
    BY <1>3, <1>5 DEF IInv, TypeOK
  <2> QED BY <2>1, <2>11, <2>12, <2>13, TermsAssumption DEF Overflows
<1>6. Len(TheLog.topics) \in Nat BY <1>3 DEF Log
<1>7. ~BadLog BY <1>4, <1>5, <1>6 DEF BadLog
<1> QED BY <1>1, <1>7 DEF VisitLog

LEMMA FinishReceiptHonest ==
  ASSUME IInv, DiagnosticsInv, FinishReceipt, NEW s, Honest(read, c, s)
  PROVE  phase' # "rejected"
<1>1. phase = "receipts" /\ receipt # -1 /\ at = Len(Current.logs) /\ Running
  BY DEF FinishReceipt, Running
<1>2. /\ IsFiniteSet(LogsDone) /\ logs = Cardinality(LogsDone)
      /\ IsFiniteSet(FailedDone) /\ failed = Cardinality(FailedDone)
  BY <1>1 DEF DiagnosticsInv
<1>3. IsFiniteSet(EveryPlace(s)) /\ IsFiniteSet(EveryReceipt(s))
  <2>1. c \in Context /\ s \in Segments(c) BY DEF IInv, TypeOK, Honest
  <2> QED BY <2>1, SegmentFinite
<1>4. Cardinality(EveryPlace(s)) <= MaxU64 /\ Cardinality(EveryReceipt(s)) <= MaxU64
  BY DEF Honest, Fits, EveryPlace, EveryReceipt
<1>5. logs + at <= MaxU64
  <2>1. /\ IsFiniteSet(LogsAtHand) /\ Cardinality(LogsAtHand) = at /\ LogsDone \cap LogsAtHand = {}
    BY <1>1, LogsAreAtHand, NotYetCounted
  <2>2. Cardinality(LogsDone \cup LogsAtHand) = logs + at BY <1>2, <2>1, SizeOfDisjoint
  <2>3. LogsDone \cup LogsAtHand \subseteq EveryPlace(s)
    BY <1>1, LogsAreAtHand, HonestPart DEF LogsDone
  <2>4. Cardinality(LogsDone \cup LogsAtHand) <= Cardinality(EveryPlace(s))
    BY <1>3, <2>3, FS_Subset
  <2>5. Cardinality(EveryPlace(s)) \in Nat BY <1>3, FS_CardinalityType
  <2>6. logs \in Nat /\ at \in Nat BY DEF IInv, TypeOK
  <2> QED BY <1>4, <2>2, <2>4, <2>5, <2>6, FrameAssumption
<1>6. failed + Failure <= MaxU64
  <2>1. /\ IsFiniteSet(FailureAtHand) /\ Cardinality(FailureAtHand) = Failure
        /\ FailedDone \cap FailureAtHand = {}
    BY <1>1, FailureIsAtHand, NotYetCounted
  <2>2. Cardinality(FailedDone \cup FailureAtHand) = failed + Failure BY <1>2, <2>1, SizeOfDisjoint
  <2>3. FailedDone \cup FailureAtHand \subseteq EveryReceipt(s)
    BY <1>1, FailureIsAtHand, HonestPart DEF FailedDone
  <2>4. Cardinality(FailedDone \cup FailureAtHand) <= Cardinality(EveryReceipt(s))
    BY <1>3, <2>3, FS_Subset
  <2>5. Cardinality(EveryReceipt(s)) \in Nat BY <1>3, FS_CardinalityType
  <2>6. failed \in Nat /\ Failure \in Nat BY DEF IInv, TypeOK, Failure
  <2> QED BY <1>4, <2>2, <2>4, <2>5, <2>6, FrameAssumption
<1>7. logs + at \in Int /\ failed + Failure \in Int BY DEF IInv, TypeOK, Failure
<1>8. ~(logs + at > MaxU64 \/ failed + Failure > MaxU64)
  BY <1>5, <1>6, <1>7, FrameAssumption
<1> QED BY <1>1, <1>8 DEF FinishReceipt

LEMMA FinishBlockHonest ==
  ASSUME IInv, DiagnosticsInv, FinishBlock, NEW s, Honest(read, c, s)
  PROVE  phase' # "rejected"
<1>1. phase = "receipts" /\ receipt = -1 /\ todo = {} /\ Running BY DEF FinishBlock, Running
<1>2. /\ IsFiniteSet(ReceiptsBelow) /\ receipts = Cardinality(ReceiptsBelow)
      /\ blocks = Tip - c.from
  BY <1>1 DEF DiagnosticsInv
<1>3. c \in Context /\ s \in Segments(c) BY DEF IInv, TypeOK, Honest
<1>4. /\ IsFiniteSet(EveryReceipt(s)) /\ IsFiniteSet(DOMAIN s)
      /\ DOMAIN s = (c.from + 1)..c.to
  BY <1>3, SegmentFinite
<1>5. Cardinality(DOMAIN s) <= MaxU64 /\ Cardinality(EveryReceipt(s)) <= MaxU64
  BY DEF Honest, Fits, EveryReceipt
<1>6. receipts + Len(Receipts[Header]) <= MaxU64
  <2>1. /\ IsFiniteSet(ReceiptsAtHand) /\ Cardinality(ReceiptsAtHand) = Len(Receipts[Header])
        /\ ReceiptsBelow \cap ReceiptsAtHand = {}
    BY <1>1, ReceiptsAreAtHand, NotYetCounted
  <2>2. Cardinality(ReceiptsBelow \cup ReceiptsAtHand) = receipts + Len(Receipts[Header])
    BY <1>2, <2>1, SizeOfDisjoint
  <2>3. ReceiptsBelow \cup ReceiptsAtHand \subseteq EveryReceipt(s)
    BY <1>1, ReceiptsAreAtHand, HonestPart DEF ReceiptsBelow
  <2>4. Cardinality(ReceiptsBelow \cup ReceiptsAtHand) <= Cardinality(EveryReceipt(s))
    BY <1>4, <2>3, FS_Subset
  <2>5. Cardinality(EveryReceipt(s)) \in Nat BY <1>4, FS_CardinalityType
  <2>6. receipts \in Nat /\ Len(Receipts[Header]) \in Nat BY <1>1, AtHand DEF IInv, TypeOK
  <2> QED BY <1>5, <2>2, <2>4, <2>5, <2>6, FrameAssumption
<1>7. blocks + 1 <= MaxU64
  <2>1. /\ height \in c.from..c.to /\ height \in Nat /\ c.from \in Nat /\ c.to \in Nat
    BY <1>1 DEF IInv, ReadInv, TypeOK, Context
  <2>2. blocks + 1 = height - c.from BY <1>1, <1>2, <2>1 DEF Tip
  <2>3. Cardinality(DOMAIN s) = IF c.from + 1 > c.to THEN 0 ELSE c.to - (c.from + 1) + 1
    <3>1. c.from + 1 \in Int /\ c.to \in Int BY <2>1
    <3> QED BY <1>4, <3>1, FS_Interval
  <2>4. height > c.from BY <1>1 DEF IInv, ReadInv
  <2> QED BY <1>5, <2>1, <2>2, <2>3, <2>4, FrameAssumption
<1>8. receipts + Len(Receipts[Header]) \in Int /\ blocks + 1 \in Int
  BY <1>1, AtHand DEF IInv, TypeOK
<1>9. ~(receipts + Len(Receipts[Header]) > MaxU64 \/ blocks + 1 > MaxU64)
  BY <1>6, <1>7, <1>8, FrameAssumption
<1> QED BY <1>1, <1>9 DEF FinishBlock

LEMMA ReadEndHonest ==
  ASSUME IInv, LinkInv, ReadEnd, NEW s, Honest(read, c, s), Honest(read', c, s)
  PROVE  phase' # "rejected"
<1>1. /\ phase = "blocks" /\ height = c.to /\ Running /\ c \in Context
      /\ c.from \in Nat /\ c.to \in Nat /\ c.from < c.to
      /\ read \in Seq(Input) /\ Len(read) = height - c.from + 1
  BY DEF ReadEnd, IInv, ReadInv, TypeOK, Context, Running, JournalError, ContextError
<1>2. ~BadEnd
  <2>1. parent = TheSegment[height] BY <1>1 DEF LinkInv, Tip
  <2>2. height \in (c.from + 1)..height BY <1>1
  <2>3. TheSegment[height] = s[height] BY <1>1, <2>2, HonestReads
  <2>4. s[c.to] = c.end BY DEF Honest, Segments
  <2> QED BY <1>1, <2>1, <2>3, <2>4 DEF BadEnd
<1>3. PICK f \in Input : read' = Append(read, f) /\ (phase' = "rejected" => f # NoFrame)
  BY <1>2 DEF ReadEnd, Fail
<1>4. Len(read) + 1 \in DOMAIN read' /\ read'[Len(read) + 1] = f
  <2>1. PICK t : t = read' OBVIOUS
  <2>2. t = Append(read, f) /\ read \in Seq(Input) BY <1>1, <1>3, <2>1
  <2> QED BY <2>1, <2>2, Pulled
<1>5. read'[Len(read) + 1] = HonestInput(c, s)[Len(read) + 1] BY <1>4 DEF Honest
<1>6. HonestInput(c, s)[c.to - c.from + 2] = NoFrame
  <2>1. c.from <= c.to BY <1>1
  <2> QED BY <1>1, <2>1, InputIs
<1>7. Len(read) + 1 = c.to - c.from + 2 BY <1>1
<1> QED BY <1>3, <1>4, <1>5, <1>6, <1>7

\* What was honest all along was so before the last frame.
LEMMA HonestBefore ==
  ASSUME IInv, Running, ContextInv, Next, NEW x, NEW s, Honest(read', x, s), x = read'[1].context
  PROVE  x = c /\ read'[1] = read[1] /\ Honest(read, c, s)
<1>1. read \in Seq(Input) /\ 1 \in DOMAIN read
  <2>1. /\ Len(read) >= height - c.from + 1 /\ height >= c.from /\ height \in Nat
        /\ c.from \in Nat /\ read \in Seq(Input)
    BY DEF IInv, ReadInv, TypeOK, Context
  <2> QED BY <2>1
<1>2. read' = read \/ \E f \in Input : read' = Append(read, f)
  BY DEF Next, ReadContext, ReadBlock, VisitReceipt, VisitLog, LogsLeft, FinishReceipt, TrieFails,
         FinishBlock, ReadEnd, Commit, Reject, Fail, Running
<1>3. PICK t : t = read' OBVIOUS
<1>4. \A k \in DOMAIN read : k \in DOMAIN t /\ t[k] = read[k]
  <2>1. CASE t = read BY <2>1
  <2>2. CASE t # read
    <3>1. PICK f \in Input : t = Append(read, f) BY <1>2, <1>3, <2>2
    <3> QED BY <1>1, <3>1, Pulled
  <2> QED BY <2>1, <2>2
<1>5. t[1] = read[1] BY <1>1, <1>4
<1>6. x = c BY <1>3, <1>5 DEF ContextInv
<1>7. \A k \in DOMAIN read : k <= Len(HonestInput(x, s)) /\ read[k] = HonestInput(x, s)[k]
  BY <1>3, <1>4 DEF Honest
<1> QED BY <1>3, <1>5, <1>6, <1>7 DEF Honest

\* The step that rejects is none an honest input leads to.
LEMMA HonestGoesOn ==
  ASSUME FullInv, DiagnosticsInv, ContextInv, Next, phase' = "rejected",
         ~BadContext(read'[1]), NEW s, Honest(read', read'[1].context, s)
  PROVE  FALSE
<1>1. ~ReadContext
  <2> SUFFICES ASSUME ReadContext PROVE FALSE OBVIOUS
  <2>1. PICK f \in Input : read' = Append(read, f) /\ BadContext(f)
    BY DEF ReadContext
  <2>2. read = <<>> BY DEF ReadContext, FullInv, IInv, ReadInv
  <2>3. read'[1] = f BY <2>1, <2>2
  <2> QED BY <2>1, <2>3
<1>2. Running
  BY <1>1 DEF Next, ReadBlock, VisitReceipt, VisitLog, LogsLeft, FinishReceipt, TrieFails,
              FinishBlock, ReadEnd, Commit, Running
<1>3. PICK x : x = read'[1].context OBVIOUS
<1>4. x = c /\ Honest(read, c, s)
  <2>1. Honest(read', x, s) BY <1>3
  <2> QED BY <1>2, <1>3, <2>1, HonestBefore DEF FullInv
<1>5. Honest(read', c, s) BY <1>3, <1>4
<1>6. ~ReadBlock BY <1>4, <1>5, ReadBlockHonest DEF FullInv
<1>7. ~VisitReceipt BY <1>4, VisitReceiptHonest DEF FullInv
<1>8. ~VisitLog BY <1>4, VisitLogHonest DEF FullInv
<1>9. ~FinishReceipt BY <1>4, FinishReceiptHonest DEF FullInv
<1>10. ~TrieFails BY <1>4, HonestBlock DEF FullInv, TrieFails
<1>11. ~FinishBlock BY <1>4, FinishBlockHonest DEF FullInv
<1>12. ~ReadEnd BY <1>4, <1>5, ReadEndHonest DEF FullInv
<1>13. ~Commit
  <2>1. phase = "encode" => ~JournalError(c, volumes, counts)
    BY DEF FullInv, IInv, ReadInv, ZeroInv, Running, JournalError, ContextError
  <2> QED BY <2>1 DEF Commit
<1> QED
  BY <1>1, <1>6, <1>7, <1>8, <1>9, <1>10, <1>11, <1>12, <1>13 DEF Next

\* An honest prover's input, of any segment of sound blocks whose totals and counters
\* fit, is never turned away, wherever the relation stands and in whatever order the
\* trie calls back its receipts.
THEOREM NoHonestChunkIsRejected == Spec => []HonestChunkIsCommitted
<1>1. Init => DiagnosticsInv /\ ContextInv /\ HonestChunkIsCommitted
  BY DEF Init, DiagnosticsInv, ContextInv, HonestChunkIsCommitted, Running
<1>2. FullInv /\ DiagnosticsInv /\ [Next]_vars => DiagnosticsInv'
  BY DiagnosticsStep DEF FullInv
<1>3. FullInv /\ ContextInv /\ [Next]_vars => ContextInv'
  BY ContextStep DEF FullInv
<1>4. FullInv /\ DiagnosticsInv /\ ContextInv /\ HonestChunkIsCommitted /\ [Next]_vars
        => HonestChunkIsCommitted'
  <2> SUFFICES ASSUME FullInv, DiagnosticsInv, ContextInv, HonestChunkIsCommitted, [Next]_vars
               PROVE  HonestChunkIsCommitted'
    OBVIOUS
  <2>1. CASE UNCHANGED vars BY <2>1 DEF vars, HonestChunkIsCommitted
  <2>2. CASE Next
    <3> SUFFICES ASSUME phase' = "rejected", ~BadContext(read'[1]), NEW s,
                        Honest(read', read'[1].context, s)
                 PROVE  FALSE
      BY DEF HonestChunkIsCommitted, Honest
    <3> QED BY <2>2, HonestGoesOn
  <2> QED BY <2>1, <2>2
<1> QED BY <1>1, <1>2, <1>3, <1>4, FullInvHolds, PTL DEF Spec

=============================================================================
