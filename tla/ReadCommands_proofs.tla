------------------------- MODULE ReadCommands_proofs -------------------------
(***************************************************************************)
(* Proofs about ReadCommands, and ReceiptFetch and ActivityProofs below    *)
(* it: for every chain, node, file, spec and binding of the adapter.       *)
(*                                                                         *)
(* What is listed when the closing request is made is the whole block of   *)
(* the header answered.  What a command outputs is what the pure           *)
(* definitions say of its file, since nothing changes once it is over.     *)
(* Each view taken over is that of some adapter asked.  For what a plan    *)
(* counts, the log a candidate names is at the same place for both indices,*)
(* and no entrant but its own can qualify in the pool of its venue.        *)
(***************************************************************************)
EXTENDS ReadCommands, FiniteSetTheorems, WellFoundedInduction, TLAPS

FetchTypeOK ==
  /\ chain \in Branches /\ reorgs \in Nat /\ faithful \in BOOLEAN
  /\ asked \in DOMAIN chain
  /\ fetch \in {"chainId", "header", "receipts", "recheck", "fetched", "failed"}
  /\ header \in HeaderAnswer \cup {NoAnswer}
  /\ listed \in Seq(NumberedReceipt) \cup {NoAnswer}
  /\ captured \in Captures \cup {NoAnswer}

\* The type invariant; a file and a spec are of what was captured.
TypeOK ==
  /\ FetchTypeOK
  /\ pinned \in Adapter \cup {NoAdapter} /\ bound \in Adapter /\ rebinds \in Nat
  /\ bindings \subseteq Adapter /\ consulted \subseteq Adapter
  /\ command \in {"verify", "plan"} =>
       file.receipts \in Seq(NumberedReceipt) /\ file.header \in Block \cup {BadHeader}
  /\ command = "plan" => \A k \in DOMAIN spec.candidates :
       spec.candidates[k].txIndex \in Int /\ spec.candidates[k].logIndex \in Int
  /\ command = "verify" => \A p \in pairs : p.txIndex \in Int /\ p.logIndex \in Int

FetchInv ==
  /\ fetch \in {"receipts", "recheck"} => header \in HeaderAnswer
  /\ fetch = "recheck" => listed \in Seq(NumberedReceipt) /\ ~BundleError(header, listed)
  /\ fetch = "fetched" => captured \in Captures
  /\ fetch \in {"receipts", "recheck"} /\ faithful /\ reorgs = 0 =>
       header = [header |-> chain[asked], hash |-> chain[asked]]
  /\ HonestBlockIsFetched

\* An output is what its command computes of the file.
OutputInv ==
  /\ step = "idle" => output = Nothing /\ consulted = {} /\ command = "none"
  /\ output.is = "verified" => command = "verify" /\ output = VerifyBlock(file, pairs)
  /\ output.is = "planned" => step = "over" /\ output = PlanBlock(file, spec, wrapper, metric)

Resolved == {"wrappers", "metric", "quotes", "credits", "adapter wrapper", "adapter views"}

Looking == {"controller views", "adapter wrapper", "adapter views", "resolve for rewards", "credits"}

\* Where a view that is held came from.
AdapterInv ==
  /\ consulted \subseteq bindings
  /\ pinned # NoAdapter => consulted \subseteq {pinned}
  /\ step # "idle" => bound \in bindings
  /\ step \in Looking => command # "plan"
  /\ step \in Resolved => adapter \in bindings /\ (pinned # NoAdapter => adapter = pinned)
  /\ command = "plan" /\ step \in {"resolve for metric", "metric", "resolve for quotes", "quotes", "over"} =>
       /\ wrapper = ControllerWrapper
       /\ \E a \in consulted : wrapper = WrapperOf[a]
  /\ command = "plan" /\ step \in {"resolve for quotes", "quotes", "over"} =>
       \E a \in consulted : metric = MetricOf[a]
  /\ Planned =>
       /\ adapter \in consulted
       /\ \A k \in DOMAIN spec.candidates :
            QuoteOf[adapter][spec.candidates[k].entrantIndex] = spec.candidates[k].quoteAsset

IInv == TypeOK /\ FetchInv /\ OutputInv /\ AdapterInv

-----------------------------------------------------------------------------
(***************************************************************************)
(* Lists of the receipts of a block.                                       *)
(***************************************************************************)
LEMMA IndexedFacts ==
  ASSUME NEW b \in Block
  PROVE  /\ Len(Receipts[b]) \in Nat
         /\ Indexed(b) \in Seq(NumberedReceipt)
         /\ DOMAIN Indexed(b) = 1..Len(Receipts[b])
         /\ \A i \in 1..Len(Receipts[b]) : Indexed(b)[i].transactionIndex = i - 1
<1>1. Receipts[b] \in Seq(Receipt) BY ChainAssumption
<1>2. ASSUME NEW i \in 1..Len(Receipts[b]) PROVE Indexed(b)[i] \in NumberedReceipt
  BY <1>1 DEF Indexed, NumberedReceipt
<1>3. Len(Receipts[b]) \in Nat /\ DOMAIN Indexed(b) = 1..Len(Receipts[b]) BY <1>1 DEF Indexed
<1>4. Indexed(b) \in Seq(NumberedReceipt)
  <2>1. Indexed(b) = [i \in 1..Len(Receipts[b]) |-> Indexed(b)[i]] BY DEF Indexed
  <2> HIDE DEF Indexed
  <2> QED BY <1>2, <1>3, <2>1
<1> QED BY <1>3, <1>4 DEF Indexed

\* No index stands for two receipts, and there are as many as the block has.
LEMMA HeaderRootFacts ==
  ASSUME NEW b \in Block
  PROVE  /\ IsFiniteSet(HeaderRoot(b)) /\ Cardinality(HeaderRoot(b)) = Len(Receipts[b])
         /\ HeaderRoot(b) \subseteq NumberedReceipt
         /\ \A r, s \in HeaderRoot(b) : r.transactionIndex = s.transactionIndex => r = s
<1> DEFINE N == Indexed(b)
           n == Len(Receipts[b])
<1>1. /\ n \in Nat /\ DOMAIN N = 1..n /\ N \in Seq(NumberedReceipt)
      /\ \A i \in 1..n : N[i].transactionIndex = i - 1
  BY IndexedFacts
<1>2. HeaderRoot(b) = Range(N) BY DEF HeaderRoot, RootOf
<1> HIDE DEF N, n
<1>3. IsFiniteSet(1..n) /\ Cardinality(1..n) = n BY <1>1, FS_Interval
<1>4. N \in Bijection(1..n, Range(N))
  BY <1>1 DEF Bijection, Injection, Surjection, IsInjective, Range
<1>5. IsFiniteSet(Range(N)) /\ Cardinality(Range(N)) = n
  BY <1>3, <1>4, FS_Bijection DEF ExistsBijection
<1>6. Range(N) \subseteq NumberedReceipt BY <1>1 DEF Range
<1>7. ASSUME NEW r \in Range(N), NEW s \in Range(N), r.transactionIndex = s.transactionIndex
      PROVE  r = s
  <2>1. PICK i \in 1..n : r = N[i] BY <1>1 DEF Range
  <2>2. PICK j \in 1..n : s = N[j] BY <1>1 DEF Range
  <2>3. i = j BY <1>1, <1>7, <2>1, <2>2
  <2> QED BY <2>1, <2>2, <2>3
<1> QED BY <1>2, <1>5, <1>6, <1>7 DEF n

\* A truthful node's list, in whatever order, builds the trie of the header.
LEMMA ListingsBuild ==
  ASSUME NEW b \in Block, NEW list \in SetToSeqs(HeaderRoot(b))
  PROVE  /\ list \in Seq(NumberedReceipt) /\ RootOf(list) = HeaderRoot(b)
         /\ Receipts[b] # <<>> => Buildable(list)
<1>1. PICK n \in Nat : n = Len(Receipts[b]) BY IndexedFacts
<1> DEFINE R == HeaderRoot(b)
<1>2. /\ IsFiniteSet(R) /\ Cardinality(R) = n /\ R \subseteq NumberedReceipt
      /\ \A r, s \in R : r.transactionIndex = s.transactionIndex => r = s
  BY <1>1, HeaderRootFacts
<1>3. list \in [1..n -> R] /\ \A i, j \in 1..n : i # j => list[i] # list[j]
  BY <1>2 DEF SetToSeqs
<1> HIDE DEF R
<1>4. list \in Seq(NumberedReceipt) /\ DOMAIN list = 1..n BY <1>1, <1>2, <1>3
<1>5. list \in Injection(1..n, R) BY <1>3 DEF Injection, IsInjective
<1>6. IsFiniteSet(1..n) /\ Cardinality(1..n) = n BY <1>1, FS_Interval
<1>7. list \in Surjection(1..n, R) BY <1>2, <1>5, <1>6, FS_Injection
<1>8. Range(list) = R BY <1>4, <1>7 DEF Surjection, Range
<1>9. \A i, j \in DOMAIN list : list[i].transactionIndex = list[j].transactionIndex => i = j
  BY <1>2, <1>3, <1>4
<1>10. ASSUME Receipts[b] # <<>> PROVE list # <<>>
  <2>1. Receipts[b] \in Seq(Receipt) BY ChainAssumption
  <2>2. n # 0 BY <1>1, <1>10, <2>1
  <2> QED BY <1>4, <2>2
<1> QED BY <1>4, <1>8, <1>9, <1>10 DEF RootOf, Buildable, R

\* And a list that builds it is all of the block's receipts, each once.
LEMMA BuiltIsListing ==
  ASSUME NEW b \in Block, NEW list \in Seq(NumberedReceipt),
         Buildable(list), RootOf(list) = HeaderRoot(b)
  PROVE  /\ list \in SetToSeqs(HeaderRoot(b)) /\ Receipts[b] # <<>>
         /\ Len(list) = Len(Receipts[b])
<1>1. PICK n \in Nat : n = Len(list) OBVIOUS
<1> DEFINE R == HeaderRoot(b)
<1>2. IsFiniteSet(R) /\ Cardinality(R) = Len(Receipts[b]) BY HeaderRootFacts
<1>3. /\ Range(list) = R /\ DOMAIN list = 1..n
      /\ \A i, j \in 1..n : list[i].transactionIndex = list[j].transactionIndex => i = j
  BY <1>1 DEF RootOf, Buildable
<1> HIDE DEF R
<1>4. list \in [1..n -> R] /\ \A i, j \in 1..n : i # j => list[i] # list[j]
  BY <1>1, <1>3 DEF Range
<1>5. list \in Bijection(1..n, R)
  BY <1>3, <1>4 DEF Bijection, Injection, Surjection, IsInjective, Range
<1>6. IsFiniteSet(1..n) /\ Cardinality(1..n) = n BY FS_Interval
<1>7. Cardinality(R) = n BY <1>5, <1>6, FS_Bijection DEF ExistsBijection
<1>8. list \in SetToSeqs(R) BY <1>4, <1>7 DEF SetToSeqs
<1>9. n # 0 BY <1>1 DEF Buildable
<1> QED BY <1>1, <1>2, <1>7, <1>8, <1>9 DEF R

-----------------------------------------------------------------------------
(***************************************************************************)
(* The offsets of the logs.                                                *)
(***************************************************************************)
\* The least number principle, as a fact about sets.
LEMMA HasLeast ==
  ASSUME NEW S \in SUBSET Nat, S # {}
  PROVE  \E m \in S : \A k \in S : m <= k
<1> DEFINE R == {ss \in Nat \X Nat : ss[1] < ss[2]}
<1>1. IsWellFoundedOn(R, Nat) BY NatLessThanWellFounded DEF OpToRel
<1>2. PICK x \in S : \A y \in S : ~(<<y, x>> \in R)
  <2> HIDE DEF R
  <2> QED BY <1>1, WFMin
<1>3. \A y \in S : ~(y < x) BY <1>2
<1> QED BY <1>3

\* Of the subsets of a finite set in some family, one loses it with any element.
LEMMA HasLeastSet ==
  ASSUME NEW S, IsFiniteSet(S), NEW Bad \in SUBSET (SUBSET S), Bad # {}
  PROVE  \E s \in Bad : \A x \in s : s \ {x} \notin Bad
<1> DEFINE sizes == {Cardinality(s) : s \in Bad}
<1>1. \A s \in Bad : IsFiniteSet(s) /\ Cardinality(s) \in Nat BY FS_Subset, FS_CardinalityType
<1>2. PICK m \in sizes : \A k \in sizes : m <= k
  <2>1. sizes \in SUBSET Nat /\ sizes # {} BY <1>1
  <2> HIDE DEF sizes
  <2> QED BY <2>1, HasLeast
<1>3. PICK s \in Bad : m = Cardinality(s) OBVIOUS
<1>4. ASSUME NEW x \in s, s \ {x} \in Bad PROVE FALSE
  <2>1. Cardinality(s \ {x}) = Cardinality(s) - 1 BY <1>1, FS_RemoveElement
  <2>2. Cardinality(s) <= Cardinality(s \ {x}) BY <1>2, <1>3, <1>4
  <2> QED BY <1>1, <2>1, <2>2
<1> QED BY <1>4

First(s) == CHOOSE x \in s : TRUE

AddFirst(w, h, s) == IF s = {} THEN 0 ELSE w[First(s)] + h[s \ {First(s)}]

Adds(h, w, S)  == \A s \in SUBSET S : h[s] = AddFirst(w, h, s)
IsSum(h, w, S) == h \in [SUBSET S -> Nat] /\ Adds(h, w, S)

LEMMA FirstIn == ASSUME NEW s, s # {} PROVE First(s) \in s
BY DEF First

\* Two solutions agree.
LEMMA SumsAgree ==
  ASSUME NEW S, IsFiniteSet(S), NEW R, S \subseteq R, NEW w, NEW g, NEW h, Adds(g, w, S), Adds(h, w, R)
  PROVE  \A s \in SUBSET S : g[s] = h[s]
<1> DEFINE Bad == {s \in SUBSET S : g[s] # h[s]}
<1> SUFFICES ASSUME Bad # {} PROVE FALSE OBVIOUS
<1>1. PICK s \in Bad : \A x \in s : s \ {x} \notin Bad
  <2>1. Bad \in SUBSET (SUBSET S) OBVIOUS
  <2> HIDE DEF Bad
  <2> QED BY <2>1, HasLeastSet
<1>2. s \in SUBSET S /\ s \in SUBSET R /\ g[s] # h[s] OBVIOUS
<1>3. g[s] = AddFirst(w, g, s) /\ h[s] = AddFirst(w, h, s) BY <1>2 DEF Adds
<1>4. s # {} BY <1>2, <1>3 DEF AddFirst
<1>5. First(s) \in s BY <1>4, FirstIn
<1>6. g[s \ {First(s)}] = h[s \ {First(s)}] BY <1>1, <1>2, <1>5
<1> QED BY <1>2, <1>3, <1>4, <1>6 DEF AddFirst

\* A solution adds any element last.
LEMMA SumsAdd ==
  ASSUME NEW S, IsFiniteSet(S), NEW w, \A x \in S : w[x] \in Nat, NEW h, IsSum(h, w, S),
         NEW s \in SUBSET S, NEW x \in s
  PROVE  h[s] = w[x] + h[s \ {x}]
<1> DEFINE Bad == {t \in SUBSET S : \E y \in t : h[t] # w[y] + h[t \ {y}]}
<1> SUFFICES ASSUME Bad # {} PROVE FALSE OBVIOUS
<1>1. PICK t \in Bad : \A y \in t : t \ {y} \notin Bad
  <2>1. Bad \in SUBSET (SUBSET S) OBVIOUS
  <2> HIDE DEF Bad
  <2> QED BY <2>1, HasLeastSet
<1>2. PICK y \in t : h[t] # w[y] + h[t \ {y}] OBVIOUS
<1>3. t \in SUBSET S /\ t # {} OBVIOUS
<1>4. PICK z \in t : z = First(t) BY <1>3, FirstIn
<1>5. h[t] = w[z] + h[t \ {z}] BY <1>3, <1>4 DEF IsSum, Adds, AddFirst
<1>6. y # z BY <1>2, <1>5
<1>7. h[t \ {z}] = w[y] + h[(t \ {z}) \ {y}]
  <2>1. t \ {z} \notin Bad /\ y \in t \ {z} /\ t \ {z} \in SUBSET S BY <1>1, <1>3, <1>6
  <2> QED BY <2>1
<1>8. h[t \ {y}] = w[z] + h[(t \ {y}) \ {z}]
  <2>1. t \ {y} \notin Bad /\ z \in t \ {y} /\ t \ {y} \in SUBSET S BY <1>1, <1>3, <1>6
  <2> QED BY <2>1
<1>9. (t \ {z}) \ {y} = (t \ {y}) \ {z} OBVIOUS
<1>10. w[y] \in Nat /\ w[z] \in Nat /\ h[(t \ {y}) \ {z}] \in Nat
  <2>1. y \in S /\ z \in S /\ (t \ {y}) \ {z} \in SUBSET S BY <1>3
  <2> QED BY <2>1 DEF IsSum
<1>11. PICK n \in Nat : n = h[(t \ {y}) \ {z}] BY <1>10
<1>12. h[t \ {z}] = w[y] + n BY <1>7, <1>9, <1>11
<1>13. h[t \ {y}] = w[z] + n BY <1>8, <1>11
<1>14. w[y] + h[t \ {y}] = w[z] + h[t \ {z}] BY <1>10, <1>12, <1>13
<1> QED BY <1>2, <1>5, <1>14

Upto(S, n) == {s \in SUBSET S : Cardinality(s) <= n}

SumsUpto(w, S, n) ==
  {h \in [Upto(S, n) -> Nat] : \A s \in Upto(S, n) : h[s] = AddFirst(w, h, s)}

LEMMA WithoutFirst ==
  ASSUME NEW S, IsFiniteSet(S), NEW n \in Nat, NEW s \in Upto(S, n), s # {}
  PROVE  First(s) \in S /\ n # 0 /\ s \ {First(s)} \in Upto(S, n - 1)
<1>1. First(s) \in s BY FirstIn
<1>2. s \in SUBSET S /\ Cardinality(s) <= n BY DEF Upto
<1>3. IsFiniteSet(s) /\ Cardinality(s) \in Nat BY <1>2, FS_Subset, FS_CardinalityType
<1>4. Cardinality(s \ {First(s)}) = Cardinality(s) - 1 /\ Cardinality(s) # 0
  BY <1>1, <1>3, FS_RemoveElement, FS_EmptySet
<1> QED BY <1>1, <1>2, <1>3, <1>4 DEF Upto

LEMMA SumsUptoExist ==
  ASSUME NEW S, IsFiniteSet(S), NEW w, \A x \in S : w[x] \in Nat, NEW n \in Nat
  PROVE  SumsUpto(w, S, n) # {}
<1> DEFINE bad == {m \in Nat : SumsUpto(w, S, m) = {}}
<1> SUFFICES ASSUME bad # {} PROVE FALSE OBVIOUS
<1>1. PICK m \in bad : \A k \in bad : m <= k
  <2>1. bad \in SUBSET Nat OBVIOUS
  <2> HIDE DEF bad
  <2> QED BY <2>1, HasLeast
<1>2. m \in Nat /\ SumsUpto(w, S, m) = {} OBVIOUS
<1>3. CASE m = 0
  <2>1. PICK h : h = [s \in Upto(S, 0) |-> 0] OBVIOUS
  <2>2. \A s \in Upto(S, 0) : s = {} BY WithoutFirst
  <2>3. h \in SumsUpto(w, S, 0) BY <2>1, <2>2 DEF SumsUpto, AddFirst
  <2> QED BY <1>2, <1>3, <2>3
<1>4. CASE m # 0
  <2>1. PICK k \in Nat : k = m - 1 BY <1>2, <1>4
  <2>2. k \notin bad
    <3> HIDE DEF bad
    <3> QED BY <1>1, <1>2, <2>1
  <2>3. PICK g \in [Upto(S, k) -> Nat] : \A s \in Upto(S, k) : g[s] = AddFirst(w, g, s)
    BY <2>2 DEF SumsUpto
  <2>4. PICK h : h = [s \in Upto(S, m) |-> AddFirst(w, g, s)] OBVIOUS
  <2>5. Upto(S, k) \subseteq Upto(S, m)
    <3> SUFFICES ASSUME NEW s \in Upto(S, k) PROVE Cardinality(s) <= m BY DEF Upto
    <3>1. Cardinality(s) \in Nat /\ Cardinality(s) <= k BY FS_Subset, FS_CardinalityType DEF Upto
    <3> QED BY <1>2, <2>1, <3>1
  <2>6. \A s \in Upto(S, k) : h[s] = g[s] BY <2>3, <2>4, <2>5
  <2>7. ASSUME NEW s \in Upto(S, m)
        PROVE  AddFirst(w, g, s) \in Nat /\ AddFirst(w, h, s) = AddFirst(w, g, s)
    <3>1. CASE s = {} BY <3>1 DEF AddFirst
    <3>2. CASE s # {}
      <4>1. First(s) \in S /\ s \ {First(s)} \in Upto(S, k) BY <1>2, <2>1, <3>2, WithoutFirst
      <4> QED BY <2>3, <2>6, <3>2, <4>1 DEF AddFirst
    <3> QED BY <3>1, <3>2
  <2>8. h \in SumsUpto(w, S, m) BY <2>4, <2>7 DEF SumsUpto
  <2> QED BY <1>2, <2>8
<1> QED BY <1>3, <1>4

LEMMA SumsExist ==
  ASSUME NEW S, IsFiniteSet(S), NEW w, \A x \in S : w[x] \in Nat
  PROVE  \E h : IsSum(h, w, S)
<1>1. PICK n \in Nat : n = Cardinality(S) BY FS_CardinalityType
<1>2. Upto(S, n) = SUBSET S
  <2> SUFFICES ASSUME NEW s \in SUBSET S PROVE Cardinality(s) <= n BY DEF Upto
  <2> QED BY <1>1, FS_Subset
<1>3. PICK h : h \in SumsUpto(w, S, n) BY SumsUptoExist
<1> QED BY <1>2, <1>3 DEF SumsUpto, IsSum, Adds

\* The sums of one set are those of another that is numbered differently.
LEMMA SumsReindexed ==
  ASSUME NEW S, IsFiniteSet(S), NEW R, IsFiniteSet(R), NEW f \in Bijection(S, R),
         NEW w, NEW v, \A x \in R : v[x] \in Nat, \A x \in S : w[x] = v[f[x]],
         NEW g, Adds(g, w, S), NEW h, IsSum(h, v, R)
  PROVE  g[S] = h[R]
<1> DEFINE Img(s) == {f[x] : x \in s}
           Bad == {s \in SUBSET S : g[s] # h[Img(s)]}
<1>1. /\ \A x \in S : f[x] \in R
      /\ \A x, y \in S : f[x] = f[y] => x = y
      /\ \A y \in R : \E x \in S : f[x] = y
  BY DEF Bijection, Injection, Surjection, IsInjective
<1>2. Img(S) = R BY <1>1
<1>3. Bad = {}
  <2> SUFFICES ASSUME Bad # {} PROVE FALSE OBVIOUS
  <2>1. PICK s \in Bad : \A x \in s : s \ {x} \notin Bad
    <3>1. Bad \in SUBSET (SUBSET S) OBVIOUS
    <3> HIDE DEF Bad
    <3> QED BY <3>1, HasLeastSet
  <2>2. s \in SUBSET S /\ g[s] # h[Img(s)] OBVIOUS
  <2>3. g[s] = AddFirst(w, g, s) BY <2>2 DEF Adds
  <2>4. CASE s = {}
    <3>1. Img(s) = {} BY <2>4
    <3>2. h[{}] = 0 BY DEF IsSum, Adds, AddFirst
    <3> QED BY <2>2, <2>3, <2>4, <3>1, <3>2 DEF AddFirst
  <2>5. CASE s # {}
    <3>1. PICK x \in s : x = First(s) BY <2>5, FirstIn
    <3>2. g[s] = w[x] + g[s \ {x}] BY <2>3, <2>5, <3>1 DEF AddFirst
    <3>3. g[s \ {x}] = h[Img(s \ {x})] BY <2>1, <2>2
    <3>4. Img(s \ {x}) = Img(s) \ {f[x]} BY <1>1, <2>2
    <3>5. Img(s) \in SUBSET R /\ f[x] \in Img(s) BY <1>1, <2>2
    <3>6. w[x] = v[f[x]] BY <2>2
    <3> HIDE DEF Img, Bad
    <3>7. h[Img(s)] = v[f[x]] + h[Img(s) \ {f[x]}] BY <3>5, SumsAdd
    <3> QED BY <2>2, <3>2, <3>3, <3>4, <3>6, <3>7
  <2> QED BY <2>4, <2>5
<1>4. g[S] = h[Img(S)]
  <2>1. S \notin Bad BY <1>3
  <2> HIDE DEF Img
  <2> QED BY <2>1
<1> QED BY <1>2, <1>4

LogCount(list, i) == Len(list[i].receipt.logs)
Before(list, tx) == {i \in DOMAIN list : list[i].transactionIndex < tx}
Weights(list, tx) == [i \in Before(list, tx) |-> LogCount(list, i)]

\* The offset is such a sum.
LEMMA OffsetIsSum ==
  ASSUME NEW list \in Seq(NumberedReceipt), NEW tx
  PROVE  /\ IsFiniteSet(Before(list, tx))
         /\ \A i \in Before(list, tx) : Weights(list, tx)[i] \in Nat
         /\ \E h : /\ IsSum(h, Weights(list, tx), Before(list, tx))
                  /\ Offset(list, tx) = h[Before(list, tx)]
<1> DEFINE S == Before(list, tx)
           w == Weights(list, tx)
           Added(f, t) == IF t = {} THEN 0
                          ELSE LET x == CHOOSE y \in t : TRUE IN LogCount(list, x) + f[t \ {x}]
           it == CHOOSE f : f = [t \in SUBSET S |-> Added(f, t)]
<1>1. IsFiniteSet(S)
  <2>1. IsFiniteSet(1..Len(list)) /\ DOMAIN list = 1..Len(list) BY FS_Interval
  <2> QED BY <2>1, FS_Subset DEF Before
<1>2. \A i \in S : w[i] = LogCount(list, i) /\ w[i] \in Nat
  BY DEF Before, Weights, LogCount, NumberedReceipt, Receipt
<1>3. Offset(list, tx) = it[S]
  BY DEF Offset, MapThenSumSet, MapThenFoldSet, LogCount, Before
<1>4. ASSUME NEW f, NEW t \in SUBSET S PROVE Added(f, t) = AddFirst(w, f, t)
  BY <1>2, FirstIn DEF AddFirst, First
<1> HIDE DEF S, w
<1>5. PICK h : IsSum(h, w, S) BY <1>1, <1>2, SumsExist
<1>6. h = [t \in SUBSET S |-> Added(h, t)]
  <2>1. h = [t \in SUBSET S |-> h[t]] BY <1>5 DEF IsSum
  <2>2. \A t \in SUBSET S : h[t] = Added(h, t) BY <1>4, <1>5 DEF IsSum, Adds
  <2> HIDE DEF Added
  <2> QED BY <2>1, <2>2
<1>7. it = [t \in SUBSET S |-> Added(it, t)] BY <1>6
<1> HIDE DEF it
<1>8. Adds(it, w, S)
  <2> SUFFICES ASSUME NEW t \in SUBSET S PROVE it[t] = AddFirst(w, it, t) BY DEF Adds
  <2>1. it[t] = Added(it, t) BY <1>7
  <2> HIDE DEF Added
  <2> QED BY <1>4, <2>1
<1>9. Adds(h, w, S) BY <1>5 DEF IsSum
<1>10. it[S] = h[S]
  <2>1. S \in SUBSET S /\ S \subseteq S OBVIOUS
  <2> QED BY <1>1, <1>8, <1>9, <2>1, SumsAgree
<1> QED BY <1>1, <1>2, <1>3, <1>5, <1>10 DEF S, w

LEMMA OffsetIsNat ==
  ASSUME NEW list \in Seq(NumberedReceipt), NEW tx
  PROVE  Offset(list, tx) \in Nat
<1>1. PICK h : /\ IsSum(h, Weights(list, tx), Before(list, tx))
               /\ Offset(list, tx) = h[Before(list, tx)]
  BY OffsetIsSum
<1>2. Before(list, tx) \in SUBSET Before(list, tx) OBVIOUS
<1> QED BY <1>1, <1>2 DEF IsSum

\* The library's index of a log and the CLI's own, two implementations with different
\* checks, are the same on every list and every index, and only a receipt that is there
\* has one.
THEOREM IndicesAgree ==
  ASSUME NEW list \in Seq(NumberedReceipt), NEW tx, NEW global \in Int
  PROVE  /\ ReceiptLocalIndex(list, tx, global) = CliLocalIndex(list, tx, global)
         /\ CliLocalIndex(list, tx, global) # NoIndex => Of(list, tx) # {}
<1>1. PICK before \in Nat : before = Offset(list, tx) BY OffsetIsNat
<1>2. CASE Of(list, tx) = {}
  BY <1>2 DEF ReceiptLocalIndex, CliLocalIndex, GlobalLogIndex
<1>3. CASE Of(list, tx) # {}
  <2>1. PICK n \in Nat : n = Len(LogsOf(list, tx))
    <3>1. LogsOf(list, tx) \in Seq(Log)
      <4>1. PICK i : i = CHOOSE j \in Of(list, tx) : TRUE OBVIOUS
      <4>2. i \in Of(list, tx) BY <1>3, <4>1
      <4>3. list[i] \in NumberedReceipt BY <4>2 DEF Of
      <4>4. list[i].receipt.logs \in Seq(Log) BY <4>3 DEF NumberedReceipt, Receipt
      <4> QED BY <4>1, <4>4 DEF LogsOf
    <3> QED BY <3>1
  <2>2. \A k : GlobalLogIndex(list, tx, k) = IF k \in 0..(n - 1) THEN before + k ELSE NoIndex
    BY <1>1, <1>3, <2>1 DEF GlobalLogIndex
  <2>3. CliLocalIndex(list, tx, global) =
          IF global - before \in 0..(n - 1) THEN global - before ELSE NoIndex
    BY <1>1, <1>3, <2>1 DEF CliLocalIndex
  <2>4. CASE n = 0
    <3>1. \A k : k \notin 0..(n - 1) BY <2>4
    <3>2. GlobalLogIndex(list, tx, 0) = NoIndex BY <2>2, <3>1
    <3>3. ReceiptLocalIndex(list, tx, global) = NoIndex BY <3>2 DEF ReceiptLocalIndex
    <3> QED BY <1>3, <2>3, <3>1, <3>3
  <2>5. CASE n # 0
    <3>1. GlobalLogIndex(list, tx, 0) = before /\ before # NoIndex BY <2>2, <2>5 DEF NoIndex
    <3>2. ReceiptLocalIndex(list, tx, global) =
            IF GlobalLogIndex(list, tx, global - before) # NoIndex
                 /\ GlobalLogIndex(list, tx, global - before) = global
            THEN global - before ELSE NoIndex
      BY <3>1 DEF ReceiptLocalIndex
    <3>3. GlobalLogIndex(list, tx, global - before) # NoIndex
            /\ GlobalLogIndex(list, tx, global - before) = global <=>
          global - before \in 0..(n - 1)
      BY <2>2 DEF NoIndex
    <3> QED BY <1>3, <2>3, <3>2, <3>3
  <2> QED BY <2>4, <2>5
<1> QED BY <1>2, <1>3

\* The receipts of a block in whatever order: the offset is that of the block.
LEMMA SameOffset ==
  ASSUME NEW b \in Block, NEW list \in Seq(NumberedReceipt), Buildable(list),
         Range(list) = Range(Indexed(b)), NEW tx \in Int
  PROVE  Offset(list, tx) = Offset(Indexed(b), tx)
<1> DEFINE N == Indexed(b)
           S == Before(list, tx)
           R == Before(N, tx)
           f == [i \in S |-> list[i].transactionIndex + 1]
<1>1. PICK n \in Nat : n = Len(Receipts[b]) BY IndexedFacts
<1>2. /\ N \in Seq(NumberedReceipt) /\ DOMAIN N = 1..n
      /\ \A i \in 1..n : N[i].transactionIndex = i - 1
  BY <1>1, IndexedFacts
<1> HIDE DEF N
<1>3. \A i \in DOMAIN list : \E j \in 1..n : list[i] = N[j]
  <2> SUFFICES ASSUME NEW i \in DOMAIN list PROVE \E j \in 1..n : list[i] = N[j] OBVIOUS
  <2>1. list[i] \in Range(list) BY DEF Range
  <2>2. list[i] \in Range(N) BY <2>1 DEF N
  <2> QED BY <1>2, <2>2 DEF Range
<1>4. \A j \in 1..n : \E i \in DOMAIN list : list[i] = N[j]
  <2> SUFFICES ASSUME NEW j \in 1..n PROVE \E i \in DOMAIN list : list[i] = N[j] OBVIOUS
  <2>1. N[j] \in Range(N) BY <1>2 DEF Range
  <2>2. N[j] \in Range(list) BY <2>1 DEF N
  <2> QED BY <2>2 DEF Range
<1>5. \A i \in S : f[i] \in R /\ N[f[i]] = list[i]
  <2> SUFFICES ASSUME NEW i \in S PROVE f[i] \in R /\ N[f[i]] = list[i] OBVIOUS
  <2>1. i \in DOMAIN list /\ list[i].transactionIndex < tx BY DEF Before
  <2>2. PICK j \in 1..n : list[i] = N[j] BY <1>3, <2>1
  <2>3. list[i].transactionIndex = j - 1 /\ f[i] = j BY <1>2, <2>2
  <2> QED BY <1>2, <2>1, <2>2, <2>3 DEF Before
<1>6. \A x, y \in S : f[x] = f[y] => x = y
  <2> SUFFICES ASSUME NEW x \in S, NEW y \in S, f[x] = f[y] PROVE x = y OBVIOUS
  <2>1. x \in DOMAIN list /\ y \in DOMAIN list BY DEF Before
  <2>2. list[x] = list[y] BY <1>5
  <2> QED BY <2>1, <2>2 DEF Buildable
<1>7. \A j \in R : \E i \in S : f[i] = j
  <2> SUFFICES ASSUME NEW j \in R PROVE \E i \in S : f[i] = j OBVIOUS
  <2>1. j \in 1..n /\ N[j].transactionIndex < tx BY <1>2 DEF Before
  <2>2. PICK i \in DOMAIN list : list[i] = N[j] BY <1>4, <2>1
  <2>3. i \in S BY <2>1, <2>2 DEF Before
  <2>4. f[i] = j BY <1>2, <2>1, <2>2, <2>3
  <2> QED BY <2>3, <2>4
<1>8. f \in Bijection(S, R)
  <2>1. f \in [S -> R] BY <1>5
  <2> QED BY <2>1, <1>6, <1>7 DEF Bijection, Injection, Surjection, IsInjective
<1>9. PICK g : IsSum(g, Weights(list, tx), S) /\ Offset(list, tx) = g[S] BY OffsetIsSum
<1>10. PICK h : IsSum(h, Weights(N, tx), R) /\ Offset(N, tx) = h[R] BY <1>2, OffsetIsSum
<1>11. IsFiniteSet(S) /\ IsFiniteSet(R) /\ \A j \in R : Weights(N, tx)[j] \in Nat
  BY <1>2, OffsetIsSum
<1>12. \A i \in S : Weights(list, tx)[i] = Weights(N, tx)[f[i]] BY <1>5 DEF Weights, LogCount
<1> HIDE DEF S, R, f
<1>13. g[S] = h[R]
  <2>1. PICK w : w = Weights(list, tx) OBVIOUS
  <2>2. PICK v : v = Weights(N, tx) OBVIOUS
  <2>3. PICK q \in Bijection(S, R) : q = f BY <1>8
  <2>4. Adds(g, w, S) /\ IsSum(h, v, R) BY <1>9, <1>10, <2>1, <2>2 DEF IsSum
  <2>5. (\A x \in R : v[x] \in Nat) /\ \A x \in S : w[x] = v[q[x]] BY <1>11, <1>12, <2>1, <2>2, <2>3
  <2>6. IsFiniteSet(S) /\ IsFiniteSet(R) BY <1>11
  <2> QED BY <2>4, <2>5, <2>6, SumsReindexed
<1> QED BY <1>9, <1>10, <1>13 DEF N

\* And so are the logs of each receipt, and their indices.
LEMMA SameIndices ==
  ASSUME NEW b \in Block, NEW list \in Seq(NumberedReceipt), Buildable(list),
         Range(list) = Range(Indexed(b)), NEW tx \in Int
  PROVE  /\ \A global : CliLocalIndex(list, tx, global) = CliLocalIndex(Indexed(b), tx, global)
         /\ Of(list, tx) # {} =>
              /\ tx \in ReceiptIndices(b) /\ LogsOf(list, tx) = ReceiptAt(b, tx).logs
              /\ \A i \in Of(list, tx) : list[i].receipt = ReceiptAt(b, tx)
<1> DEFINE N == Indexed(b)
<1>1. PICK n \in Nat : n = Len(Receipts[b]) BY IndexedFacts
<1>2. /\ DOMAIN N = 1..n /\ \A i \in 1..n : N[i].transactionIndex = i - 1
      /\ \A i \in 1..n : N[i].receipt = Receipts[b][i]
  BY <1>1, IndexedFacts DEF Indexed
<1> HIDE DEF N
<1>3. ASSUME NEW i \in Of(list, tx)
      PROVE  tx \in 0..(n - 1) /\ list[i].receipt = Receipts[b][tx + 1]
  <2>1. i \in DOMAIN list /\ list[i].transactionIndex = tx BY DEF Of
  <2>2. list[i] \in Range(N) BY <2>1 DEF Range, N
  <2>3. PICK j \in 1..n : list[i] = N[j] BY <1>2, <2>2 DEF Range
  <2>4. tx = j - 1 BY <1>2, <2>1, <2>3
  <2> QED BY <1>2, <2>3, <2>4
<1>4. ASSUME NEW i \in Of(N, tx)
      PROVE  N[i].receipt = Receipts[b][tx + 1] /\ Of(list, tx) # {}
  <2>1. i \in 1..n /\ N[i].transactionIndex = tx /\ i = tx + 1 BY <1>2 DEF Of
  <2>2. N[i] \in Range(list) BY <1>2, <2>1 DEF Range, N
  <2>3. PICK k \in DOMAIN list : list[k] = N[i] BY <2>2 DEF Range
  <2> QED BY <1>2, <2>1, <2>3 DEF Of
<1>5. Of(list, tx) # {} => LogsOf(list, tx) = Receipts[b][tx + 1].logs BY <1>3 DEF LogsOf
<1>6. Of(N, tx) # {} => LogsOf(N, tx) = Receipts[b][tx + 1].logs BY <1>4 DEF LogsOf
<1>7. Of(list, tx) # {} => Of(N, tx) # {}
  <2> SUFFICES ASSUME NEW i \in Of(list, tx) PROVE Of(N, tx) # {} OBVIOUS
  <2>1. tx + 1 \in 1..n BY <1>3
  <2>2. N[tx + 1].transactionIndex = tx BY <1>2, <2>1
  <2>3. tx + 1 \in Of(N, tx) BY <1>2, <2>1, <2>2 DEF Of
  <2> QED BY <2>3
<1>8. Offset(list, tx) = Offset(N, tx) BY SameOffset DEF N
<1>9. Of(list, tx) # {} <=> Of(N, tx) # {} BY <1>4, <1>7
<1>10. ASSUME NEW global PROVE CliLocalIndex(list, tx, global) = CliLocalIndex(N, tx, global)
  <2>1. CASE Of(list, tx) = {} BY <1>9, <2>1 DEF CliLocalIndex
  <2>2. CASE Of(list, tx) # {}
    <3>1. LogsOf(list, tx) = LogsOf(N, tx) BY <1>5, <1>6, <1>7, <2>2
    <3> QED BY <1>8, <1>9, <2>2, <3>1 DEF CliLocalIndex
  <2> QED BY <2>1, <2>2
<1>11. Of(list, tx) # {} => tx \in ReceiptIndices(b) BY <1>1, <1>3 DEF ReceiptIndices
<1> QED BY <1>3, <1>5, <1>10, <1>11 DEF ReceiptAt, N

-----------------------------------------------------------------------------
(***************************************************************************)
(* fetch, request by request.                                              *)
(***************************************************************************)
LEMMA CommandUnmoved ==
  ASSUME IInv, step = "idle", UNCHANGED <<inputs, step, binding, views, output>>,
         FetchTypeOK', FetchInv'
  PROVE  IInv'
<1> USE DEF IInv, inputs, binding, views
<1>1. TypeOK' BY DEF TypeOK, OutputInv
<1>2. OutputInv' BY DEF OutputInv, Nothing
<1>3. AdapterInv' BY DEF AdapterInv, OutputInv, Planned, Nothing
<1> QED BY <1>1, <1>2, <1>3

LEMMA FetchFailsStep ==
  ASSUME FetchTypeOK, FetchFails, UNCHANGED <<node, faithful, asked, expected>>,
         HonestBlockIsFetched'
  PROVE  FetchTypeOK' /\ FetchInv'
BY DEF FetchTypeOK, FetchInv, FetchFails, node

\* The block a truthful node tells of.
LEMMA AskedBlock ==
  ASSUME FetchTypeOK
  PROVE  /\ chain[asked] \in Block /\ Number[chain[asked]] = asked
         /\ [header |-> chain[asked], hash |-> chain[asked]] \in HeaderAnswer
BY FetchAssumption, ChainAssumption DEF FetchTypeOK, HeaderAnswer

LEMMA FetchingStep ==
  ASSUME FetchTypeOK, FetchInv, FetchStep \/ Reorg
  PROVE  FetchTypeOK' /\ FetchInv'
<1> USE DEF node, fetching
<1>1. CASE CheckChainId /\ UNCHANGED <<node, faithful, asked, expected>>
  <2>1. PICK same \in (IF faithful THEN {TRUE} ELSE BOOLEAN) :
          IF same THEN fetch' = "header" /\ UNCHANGED <<header, listed, captured>> ELSE FetchFails
    BY <1>1 DEF CheckChainId
  <2>2. CASE same BY <1>1, <2>1, <2>2 DEF FetchTypeOK, FetchInv, HonestBlockIsFetched
  <2>3. CASE ~same
    <3>1. ~faithful' BY <1>1, <2>1, <2>3 DEF FetchTypeOK
    <3> QED BY <1>1, <2>1, <2>3, <3>1, FetchFailsStep DEF HonestBlockIsFetched
  <2> QED BY <2>2, <2>3
<1>2. CASE GetHeader /\ UNCHANGED <<node, faithful, asked, expected>>
  <2>1. PICK a \in (IF faithful THEN {[header |-> chain[asked], hash |-> chain[asked]]} ELSE BlockAnswers) :
          IF a = NoAnswer THEN FetchFails
          ELSE header' = a /\ fetch' = "receipts" /\ UNCHANGED <<listed, captured>>
    BY <1>2 DEF GetHeader
  <2>2. CASE a = NoAnswer
    <3>1. ~faithful' BY <1>2, <2>1, <2>2, AskedBlock, FetchAssumption DEF FetchTypeOK
    <3> QED BY <1>2, <2>1, <2>2, <3>1, FetchFailsStep DEF HonestBlockIsFetched
  <2>3. CASE a # NoAnswer
    <3>1. a \in HeaderAnswer BY <2>1, <2>3, AskedBlock, FetchAssumption DEF FetchTypeOK
    <3>2. header' = a /\ fetch' = "receipts" /\ UNCHANGED <<listed, captured>> BY <2>1, <2>3
    <3>3. FetchTypeOK' BY <1>2, <3>1, <3>2 DEF FetchTypeOK
    <3>4. faithful => a = [header |-> chain[asked], hash |-> chain[asked]] BY <2>1
    <3>5. FetchInv' BY <1>2, <3>1, <3>2, <3>4 DEF FetchInv, HonestBlockIsFetched
    <3> QED BY <3>3, <3>5
  <2> QED BY <2>2, <2>3
<1>3. CASE GetReceipts /\ UNCHANGED <<node, faithful, asked, expected>>
  <2>1. PICK list \in (IF faithful THEN SetToSeqs(Range(Indexed(chain[asked]))) ELSE ListAnswers) :
          IF list = NoAnswer THEN FetchFails
          ELSE IF BundleError(header, list) THEN FetchFails
          ELSE listed' = list /\ fetch' = "recheck" /\ UNCHANGED <<header, captured>>
    BY <1>3 DEF GetReceipts
  <2>2. fetch = "receipts" /\ header \in HeaderAnswer BY <1>3 DEF GetReceipts, FetchInv
  <2>3. faithful => list \in SetToSeqs(HeaderRoot(chain[asked])) BY <2>1 DEF HeaderRoot, RootOf
  <2>4. list \in Seq(NumberedReceipt) \cup {NoAnswer}
    BY <2>1, <2>3, AskedBlock, ListingsBuild, FetchAssumption DEF FetchTypeOK
  <2>5. CASE list = NoAnswer \/ BundleError(header, list)
    <3>1. FetchFails BY <2>1, <2>5
    <3>2. HonestBlockIsFetched'
      <4> SUFFICES ASSUME faithful, reorgs = 0, expected \in {NoAnswer, chain[asked]},
                          Receipts[chain[asked]] # <<>>
                   PROVE  FALSE
        BY <1>3 DEF HonestBlockIsFetched
      <4>1. header = [header |-> chain[asked], hash |-> chain[asked]] BY <2>2 DEF FetchInv
      <4>2. /\ list \in Seq(NumberedReceipt) /\ Buildable(list)
            /\ RootOf(list) = HeaderRoot(chain[asked])
        BY <2>3, AskedBlock, ListingsBuild
      <4>3. list # NoAnswer BY <4>2, FetchAssumption
      <4>4. ~BundleError(header, list) BY <4>1, <4>2, AskedBlock DEF BundleError
      <4> QED BY <2>5, <4>3, <4>4
    <3> QED BY <1>3, <3>1, <3>2, FetchFailsStep
  <2>6. CASE list # NoAnswer /\ ~BundleError(header, list)
    <3>1. listed' = list /\ fetch' = "recheck" /\ UNCHANGED <<header, captured>> BY <2>1, <2>6
    <3>2. FetchTypeOK' BY <1>3, <2>4, <3>1 DEF FetchTypeOK
    <3>3. ~BundleError(header, list)' BY <1>3, <2>6, <3>1 DEF BundleError
    <3>4. FetchInv' BY <1>3, <2>2, <2>4, <2>6, <3>1, <3>3 DEF FetchInv, HonestBlockIsFetched
    <3> QED BY <3>2, <3>4
  <2> QED BY <2>5, <2>6
<1>4. CASE Recheck /\ UNCHANGED <<node, faithful, asked, expected>>
  <2>1. PICK hash \in (IF faithful THEN {chain[asked]} ELSE Block \cup {NoAnswer}) :
          IF hash = NoAnswer THEN FetchFails
          ELSE IF Changed(hash) THEN FetchFails
          ELSE /\ fetch' = "fetched"
               /\ captured' = [header |-> header.header, hash |-> header.hash, number |-> asked,
                               root |-> HeaderRoot(header.header), receipts |-> listed]
               /\ UNCHANGED <<header, listed>>
    BY <1>4 DEF Recheck
  <2>2. /\ fetch = "recheck" /\ header \in HeaderAnswer
        /\ listed \in Seq(NumberedReceipt) /\ ~BundleError(header, listed)
    BY <1>4 DEF Recheck, FetchInv
  <2>3. CASE hash = NoAnswer \/ Changed(hash)
    <3>1. FetchFails BY <2>1, <2>3
    <3>2. HonestBlockIsFetched'
      <4> SUFFICES ASSUME faithful, reorgs = 0 PROVE FALSE
        BY <1>4 DEF HonestBlockIsFetched
      <4>1. header = [header |-> chain[asked], hash |-> chain[asked]] BY <2>2 DEF FetchInv
      <4>2. hash = chain[asked] /\ hash # NoAnswer BY <2>1, AskedBlock, FetchAssumption
      <4> QED BY <2>3, <4>1, <4>2 DEF Changed
    <3> QED BY <1>4, <3>1, <3>2, FetchFailsStep
  <2>4. CASE hash # NoAnswer /\ ~Changed(hash)
    <3>1. /\ fetch' = "fetched" /\ UNCHANGED <<header, listed>>
          /\ captured' = [header |-> header.header, hash |-> header.hash, number |-> asked,
                          root |-> HeaderRoot(header.header), receipts |-> listed]
      BY <2>1, <2>4
    <3>2. captured' \in Captures
      <4>1. PICK b \in Block : b = header.header BY <2>2 DEF HeaderAnswer
      <4>2. header.hash = b /\ Number[b] = asked /\ Buildable(listed) /\ RootOf(listed) = HeaderRoot(b)
        BY <2>2, <4>1 DEF BundleError
      <4>3. listed \in SetToSeqs(HeaderRoot(b)) /\ Receipts[b] # <<>> BY <2>2, <4>2, BuiltIsListing
      <4> QED BY <3>1, <4>1, <4>2, <4>3 DEF Captures
    <3>3. FetchTypeOK' BY <1>4, <3>1, <3>2 DEF FetchTypeOK
    <3>4. FetchInv' BY <3>1, <3>2 DEF FetchInv, HonestBlockIsFetched
    <3> QED BY <3>3, <3>4
  <2> QED BY <2>3, <2>4
<1>5. CASE Reorg
  <2>1. /\ chain' \in Branches /\ reorgs' = reorgs + 1
        /\ UNCHANGED <<faithful, asked, expected, fetch, header, listed, captured>>
    BY <1>5 DEF Reorg
  <2>2. reorgs' # 0 /\ reorgs' \in Nat BY <2>1 DEF FetchTypeOK
  <2>3. FetchTypeOK' BY <2>1, <2>2, FetchAssumption DEF FetchTypeOK
  <2>4. ASSUME fetch = "recheck" PROVE ~BundleError(header, listed)'
    BY <2>1, <2>4 DEF FetchInv, BundleError
  <2>5. FetchInv' BY <2>1, <2>2, <2>4 DEF FetchInv, HonestBlockIsFetched
  <2> QED BY <2>3, <2>5
<1> QED BY <1>1, <1>2, <1>3, <1>4, <1>5 DEF FetchStep

-----------------------------------------------------------------------------
(***************************************************************************)
(* verify, plan, inspect and rewards, request by request.                  *)
(***************************************************************************)
LEMMA OutputKinds ==
  /\ Nothing.is = "none" /\ Throws.is = "error"
  /\ \A f, ps : VerifyBlock(f, ps).is \in {"verified", "error"}
  /\ \A f, s, w, m : PlanBlock(f, s, w, m).is \in {"planned", "error"}
<1>1. Nothing.is = "none" /\ Throws.is = "error" BY DEF Nothing, Throws
<1>2. \A f, ps : VerifyBlock(f, ps).is \in {"verified", "error"} BY DEF VerifyBlock, Throws
<1>3. \A f, s, w, m : PlanBlock(f, s, w, m).is \in {"planned", "error"} BY DEF PlanBlock, Throws
<1> QED BY <1>1, <1>2, <1>3

\* A command begins: its file is of what was captured.
LEMMA BeginStep ==
  ASSUME IInv, NEW c \in {"verify", "plan", "inspect", "rewards"}, NEW first,
         first \notin Resolved, first \notin {"idle", "resolve for metric", "resolve for quotes"},
         c = "plan" => first # "over" /\ first \notin Looking,
         Begins(c, first),
         c \in {"verify", "plan"} =>
           file'.receipts \in Seq(NumberedReceipt) /\ file'.header \in Block \cup {BadHeader},
         c = "plan" => \A k \in DOMAIN spec'.candidates :
           spec'.candidates[k].txIndex \in Int /\ spec'.candidates[k].logIndex \in Int,
         c = "verify" => \A p \in pairs' : p.txIndex \in Int /\ p.logIndex \in Int,
         \/ UNCHANGED output
         \/ c = "verify" /\ output' = VerifyBlock(file', pairs')
  PROVE  IInv'
<1> USE DEF IInv
<1>1. /\ step = "idle" /\ command' = c /\ step' = first /\ bindings' = {bound}
      /\ UNCHANGED <<chain, reorgs, faithful, asked, expected, fetch, header, listed, captured>>
      /\ UNCHANGED <<pinned, bound, rebinds, adapter, wrapper, metric, consulted>>
      /\ output = Nothing /\ consulted = {}
  BY DEF Begins, fetchVars, node, fetching, views, OutputInv
<1>2. TypeOK'
  <2>1. FetchTypeOK' BY <1>1 DEF TypeOK, FetchTypeOK
  <2> QED BY <1>1, <2>1 DEF TypeOK
<1>3. FetchInv'
  <2>1. ~BundleError(header, listed) => ~BundleError(header, listed)' BY <1>1 DEF BundleError
  <2> QED BY <1>1, <2>1 DEF FetchInv, HonestBlockIsFetched
<1>4. output' = Nothing \/ (c = "verify" /\ output' = VerifyBlock(file', pairs')) BY <1>1
<1>5. /\ output'.is # "planned"
      /\ output'.is = "verified" => c = "verify" /\ output' = VerifyBlock(file', pairs')
  BY <1>4, OutputKinds
<1>7. OutputInv' BY <1>1, <1>5 DEF OutputInv
<1>8. AdapterInv'
  <2>1. ~Planned' BY <1>5 DEF Planned
  <2>2. step' \notin Resolved /\ ~(step' \in {"resolve for metric", "metric", "resolve for quotes", "quotes"})
    BY <1>1 DEF Resolved
  <2> QED BY <1>1, <2>1, <2>2 DEF AdapterInv
<1> QED BY <1>2, <1>3, <1>7, <1>8

\* A request of a command that runs: fetch, the command's inputs and the binding stay.
LEMMA StayStep ==
  ASSUME IInv, step # "idle", step' # "idle", Stay, consulted' \subseteq Adapter, AdapterInv',
         \/ Running /\ UNCHANGED output
         \/ output' = Throws
         \/ output' = PlanBlock(file, spec, wrapper', metric') /\ (output'.is = "planned" => step' = "over")
  PROVE  IInv'
<1> USE DEF IInv
<1>1. /\ UNCHANGED <<chain, reorgs, faithful, asked, expected, fetch, header, listed, captured>>
      /\ UNCHANGED <<command, file, spec, pairs, pinned, bound, rebinds, bindings>>
  BY DEF Stay, fetchVars, node, fetching, inputs, binding
<1>2. TypeOK'
  <2>1. FetchTypeOK' BY <1>1 DEF TypeOK, FetchTypeOK
  <2> QED BY <1>1, <2>1 DEF TypeOK
<1>3. FetchInv'
  <2>1. ~BundleError(header, listed) => ~BundleError(header, listed)' BY <1>1 DEF BundleError
  <2> QED BY <1>1, <2>1 DEF FetchInv, HonestBlockIsFetched
<1>4. OutputInv'
  <2>1. CASE Running /\ UNCHANGED output BY <1>1, <2>1 DEF OutputInv, Running
  <2>2. CASE output' = Throws BY <2>2, OutputKinds DEF OutputInv
  <2>3. CASE /\ output' = PlanBlock(file, spec, wrapper', metric')
             /\ output'.is = "planned" => step' = "over"
    <3>1. output'.is # "verified" BY <2>3, OutputKinds
    <3>2. output' = PlanBlock(file', spec', wrapper', metric') BY <1>1, <2>3
    <3> QED BY <2>3, <3>1, <3>2 DEF OutputInv
  <2> QED BY <2>1, <2>2, <2>3
<1> QED BY <1>2, <1>3, <1>4

LEMMA ThrowStep ==
  ASSUME IInv, step # "idle", Throw
  PROVE  IInv'
<1> USE DEF IInv
<1>1. /\ step' = "threw" /\ output' = Throws /\ UNCHANGED <<adapter, wrapper, metric, consulted>>
      /\ Stay /\ UNCHANGED <<command, spec, pinned, bound, bindings>>
  BY DEF Throw, views, Stay, inputs, binding
<1>2. ~Planned' BY <1>1, OutputKinds DEF Planned
<1>3. AdapterInv' BY <1>1, <1>2 DEF AdapterInv, Resolved, Looking
<1> QED BY <1>1, <1>3, StayStep DEF TypeOK

\* Nothing is planned while a command runs.
LEMMA RunningIsUnplanned ==
  ASSUME IInv, Running
  PROVE  ~Planned /\ step \notin {"idle", "over"}
BY DEF IInv, OutputInv, Planned, Running

LEMMA ResolveStep ==
  ASSUME IInv, NEW from \in {"resolve for wrapper", "resolve for metric", "resolve for quotes", "resolve for rewards"},
         NEW to,
         \/ from = "resolve for wrapper" /\ to = "wrappers"
         \/ from = "resolve for metric" /\ to = "metric"
         \/ from = "resolve for quotes" /\ to = "quotes"
         \/ from = "resolve for rewards" /\ to = "credits",
         Resolve(from, to)
  PROVE  IInv'
<1> USE DEF IInv
<1>1. step = from /\ step # "idle" /\ Running BY DEF Resolve, Running
<1>2. CASE Mismatch BY <1>1, <1>2, ThrowStep DEF Resolve
<1>3. CASE ~Mismatch
  <2>1. /\ adapter' = bound /\ step' = to /\ UNCHANGED <<wrapper, metric, consulted, output>> /\ Stay
        /\ UNCHANGED <<command, spec, pinned, bound, bindings>>
    BY <1>3 DEF Resolve, Stay, inputs, binding
  <2>2. bound \in bindings /\ (pinned # NoAdapter => bound = pinned) BY <1>1, <1>3 DEF Mismatch, AdapterInv
  <2>3. ~Planned' BY <1>1, <2>1, RunningIsUnplanned DEF Planned
  <2>4. AdapterInv' BY <1>1, <2>1, <2>2, <2>3 DEF AdapterInv, Looking
  <2> QED BY <1>1, <2>1, <2>4, StayStep DEF TypeOK
<1> QED BY <1>2, <1>3

\* An adapter that was resolved is asked.
LEMMA AskFacts ==
  ASSUME IInv, step \in Resolved, NEW next, Ask(next)
  PROVE  /\ consulted' = consulted \cup {adapter} /\ step' = next
         /\ consulted' \subseteq bindings /\ (pinned # NoAdapter => consulted' \subseteq {pinned})
         /\ consulted' \subseteq Adapter /\ adapter \in consulted'
         /\ bound \in bindings /\ Running /\ ~Planned'
         /\ Stay /\ UNCHANGED <<adapter, output, command, spec, pinned, bound, bindings>>
<1>1. /\ consulted' = consulted \cup {adapter} /\ step' = next /\ UNCHANGED <<adapter, output>> /\ Stay
      /\ UNCHANGED <<command, spec, pinned, bound, bindings>>
  BY DEF Ask, Stay, inputs, binding
<1>2. /\ adapter \in bindings /\ (pinned # NoAdapter => adapter = pinned)
      /\ bound \in bindings /\ consulted \subseteq bindings
      /\ pinned # NoAdapter => consulted \subseteq {pinned}
      /\ bindings \subseteq Adapter
  BY DEF IInv, AdapterInv, Resolved, TypeOK
<1>3. Running BY DEF Running, Resolved
<1>4. ~Planned' BY <1>1, <1>3, RunningIsUnplanned DEF Planned
<1> QED BY <1>1, <1>2, <1>3, <1>4

LEMMA ReadWrappersStep ==
  ASSUME IInv, ReadWrappers
  PROVE  IInv'
<1>1. step = "wrappers" /\ step \in Resolved /\ step # "idle" BY DEF ReadWrappers, Resolved
<1>2. CASE WrapperOf[adapter] # ControllerWrapper BY <1>1, <1>2, ThrowStep DEF ReadWrappers
<1>3. CASE WrapperOf[adapter] = ControllerWrapper
  <2>1. Ask("resolve for metric") /\ wrapper' = WrapperOf[adapter] /\ UNCHANGED metric
    BY <1>3 DEF ReadWrappers
  <2>2. /\ consulted' \subseteq bindings' /\ (pinned' # NoAdapter => consulted' \subseteq {pinned'})
        /\ consulted' \subseteq Adapter /\ adapter \in consulted' /\ step' = "resolve for metric"
        /\ bound' \in bindings' /\ Running /\ ~Planned' /\ Stay /\ UNCHANGED output
    BY <1>1, <2>1, AskFacts
  <2>3. wrapper' = ControllerWrapper /\ \E a \in consulted' : wrapper' = WrapperOf[a]
    BY <1>3, <2>1, <2>2
  <2>4. AdapterInv' BY <2>2, <2>3 DEF AdapterInv, Resolved, Looking
  <2> QED BY <1>1, <2>2, <2>4, StayStep
<1> QED BY <1>2, <1>3

LEMMA ReadMetricStep ==
  ASSUME IInv, ReadMetric
  PROVE  IInv'
<1>1. step = "metric" /\ step \in Resolved /\ step # "idle" BY DEF ReadMetric, Resolved
<1>2. CASE MetricOf[adapter] \notin {1, 2} BY <1>1, <1>2, ThrowStep DEF ReadMetric
<1>3. CASE MetricOf[adapter] \in {1, 2}
  <2>1. Ask("resolve for quotes") /\ metric' = MetricOf[adapter] /\ UNCHANGED wrapper
    BY <1>3 DEF ReadMetric
  <2>2. /\ consulted' \subseteq bindings' /\ (pinned' # NoAdapter => consulted' \subseteq {pinned'})
        /\ consulted' \subseteq Adapter /\ adapter \in consulted' /\ step' = "resolve for quotes"
        /\ bound' \in bindings' /\ Running /\ ~Planned' /\ Stay
        /\ UNCHANGED <<output, command>> /\ consulted \subseteq consulted'
    BY <1>1, <2>1, AskFacts
  <2>3. command = "plan" => wrapper = ControllerWrapper /\ \E a \in consulted : wrapper = WrapperOf[a]
    BY <1>1 DEF IInv, AdapterInv
  <2>4. command' = "plan" => wrapper' = ControllerWrapper /\ \E a \in consulted' : wrapper' = WrapperOf[a]
    BY <2>1, <2>2, <2>3
  <2>5. \E a \in consulted' : metric' = MetricOf[a] BY <2>1, <2>2
  <2>6. AdapterInv' BY <2>2, <2>4, <2>5 DEF AdapterInv, Resolved, Looking
  <2> QED BY <1>1, <2>2, <2>6, StayStep
<1> QED BY <1>2, <1>3

LEMMA BuildStep ==
  ASSUME IInv, Build
  PROVE  IInv'
<1>1. step = "quotes" /\ step \in Resolved /\ step # "idle" BY DEF Build, Resolved
<1>2. CASE QuotesDiffer BY <1>1, <1>2, ThrowStep DEF Build
<1>3. CASE ~QuotesDiffer
  <2>1. /\ consulted' = consulted \cup {adapter} /\ output' = PlanBlock(file, spec, wrapper, metric)
        /\ step' = IF output'.is = "error" THEN "refused" ELSE "over"
        /\ UNCHANGED <<adapter, wrapper, metric>> /\ Stay
        /\ UNCHANGED <<command, spec, pinned, bound, bindings>>
    BY <1>3 DEF Build, Stay, inputs, binding
  <2>2. /\ adapter \in bindings /\ (pinned # NoAdapter => adapter = pinned)
        /\ bound \in bindings /\ consulted \subseteq bindings
        /\ pinned # NoAdapter => consulted \subseteq {pinned}
        /\ bindings \subseteq Adapter
        /\ command = "plan" => /\ wrapper = ControllerWrapper /\ \E a \in consulted : wrapper = WrapperOf[a]
                               /\ \E a \in consulted : metric = MetricOf[a]
    BY <1>1 DEF IInv, AdapterInv, TypeOK
  <2>3. \A k \in DOMAIN spec.candidates :
          QuoteOf[adapter][spec.candidates[k].entrantIndex] = spec.candidates[k].quoteAsset
    BY <1>3 DEF QuotesDiffer
  <2>4. consulted' \subseteq Adapter /\ step' # "idle" BY <2>1, <2>2
  <2>5. step' \in {"refused", "over"} BY <2>1
  <2>6. AdapterInv' BY <2>1, <2>2, <2>3, <2>5 DEF AdapterInv, Resolved, Looking
  <2>7. output' = PlanBlock(file, spec, wrapper', metric') /\ (output'.is = "planned" => step' = "over")
    BY <2>1
  <2> QED BY <1>1, <2>1, <2>4, <2>6, <2>7, StayStep
<1> QED BY <1>2, <1>3

LEMMA LookingStep ==
  ASSUME IInv, InspectWrapper \/ InspectAdapter \/ ReadCredits
  PROVE  IInv'
<1>1. step \in Looking /\ step \in Resolved /\ step # "idle"
  BY DEF InspectWrapper, InspectAdapter, ReadCredits, Looking, Resolved
<1>2. Throw \/ \E next \in {"adapter views", "over"} : Ask(next)
  BY DEF InspectWrapper, InspectAdapter, ReadCredits
<1>3. CASE Throw BY <1>1, <1>3, ThrowStep
<1>4. ASSUME NEW next \in {"adapter views", "over"}, Ask(next) PROVE IInv'
  <2>1. command # "plan" BY <1>1 DEF IInv, AdapterInv
  <2>2. /\ consulted' \subseteq bindings' /\ (pinned' # NoAdapter => consulted' \subseteq {pinned'})
        /\ consulted' \subseteq Adapter /\ step' = next
        /\ bound' \in bindings' /\ Running /\ ~Planned' /\ Stay
        /\ UNCHANGED <<adapter, output, command, pinned, bindings>>
    BY <1>1, <1>4, AskFacts
  <2>3. adapter \in bindings /\ (pinned # NoAdapter => adapter = pinned)
    BY <1>1 DEF IInv, AdapterInv
  <2>4. AdapterInv' BY <2>1, <2>2, <2>3 DEF AdapterInv
  <2> QED BY <1>1, <2>2, <2>4, StayStep
<1> QED BY <1>2, <1>3, <1>4

LEMMA InspectControllerStep ==
  ASSUME IInv, InspectController
  PROVE  IInv'
<1>1. step = "controller views" /\ step # "idle" /\ Running BY DEF InspectController, Running
<1>2. CASE Mismatch BY <1>1, <1>2, ThrowStep DEF InspectController
<1>3. CASE ~Mismatch
  <2>1. /\ adapter' = (IF pinned = NoAdapter THEN bound ELSE pinned) /\ step' = "adapter wrapper"
        /\ UNCHANGED <<wrapper, metric, consulted, output>> /\ Stay
        /\ UNCHANGED <<command, spec, pinned, bound, bindings>>
    BY <1>3 DEF InspectController, Stay, inputs, binding
  <2>2. /\ adapter' = bound /\ bound \in bindings /\ (pinned # NoAdapter => bound = pinned)
        /\ command # "plan" /\ consulted \subseteq bindings
        /\ pinned # NoAdapter => consulted \subseteq {pinned}
    BY <1>1, <1>3, <2>1 DEF Mismatch, IInv, AdapterInv, Looking
  <2>3. AdapterInv' BY <2>1, <2>2 DEF AdapterInv, Planned
  <2> QED BY <1>1, <2>1, <2>3, StayStep DEF IInv, TypeOK
<1> QED BY <1>2, <1>3

LEMMA RebindStep ==
  ASSUME IInv, Rebind
  PROVE  IInv'
<1> USE DEF IInv
<1>1. /\ Running /\ bound' \in Adapter /\ rebinds' = rebinds + 1 /\ bindings' = bindings \cup {bound'}
      /\ UNCHANGED <<chain, reorgs, faithful, asked, expected, fetch, header, listed, captured>>
      /\ UNCHANGED <<command, file, spec, pairs, pinned, step, adapter, wrapper, metric, consulted, output>>
  BY DEF Rebind, fetchVars, node, fetching, inputs, views
<1>2. TypeOK'
  <2>1. FetchTypeOK' BY <1>1 DEF TypeOK, FetchTypeOK
  <2> QED BY <1>1, <2>1 DEF TypeOK
<1>3. FetchInv'
  <2>1. ~BundleError(header, listed) => ~BundleError(header, listed)' BY <1>1 DEF BundleError
  <2> QED BY <1>1, <2>1 DEF FetchInv, HonestBlockIsFetched
<1>4. OutputInv' BY <1>1 DEF OutputInv
<1>5. AdapterInv'
  <2>1. Planned' = Planned BY <1>1 DEF Planned
  <2> QED BY <1>1, <2>1 DEF AdapterInv
<1> QED BY <1>2, <1>3, <1>4, <1>5

-----------------------------------------------------------------------------
LEMMA InitIInv == Init => IInv
<1> SUFFICES ASSUME Init PROVE IInv OBVIOUS
<1> USE DEF Init
<1>1. FetchTypeOK /\ FetchInv BY DEF FetchInit, FetchTypeOK, FetchInv, HonestBlockIsFetched
<1>2. TypeOK BY <1>1 DEF TypeOK
<1>3. OutputInv BY OutputKinds DEF OutputInv
<1>4. AdapterInv BY OutputKinds DEF AdapterInv, Resolved, Looking, Planned
<1> QED BY <1>1, <1>2, <1>3, <1>4 DEF IInv

LEMMA VerifyStep ==
  ASSUME IInv, Verify
  PROVE  IInv'
<1>1. /\ Begins("verify", "over") /\ captured \in Captures
      /\ file' \in Files(captured) /\ pairs' \in Pairs(captured)
      /\ output' = VerifyBlock(file', pairs')
  BY DEF Verify, Kept, IInv, FetchInv
<1>2. /\ file'.receipts \in Seq(NumberedReceipt) /\ file'.header \in Block \cup {BadHeader}
      /\ \A p \in pairs' : p.txIndex \in Int /\ p.logIndex \in Int
  BY <1>1, FilesAssumption
<1> QED BY <1>1, <1>2, BeginStep DEF Resolved

LEMMA PlanStep ==
  ASSUME IInv, Plan
  PROVE  IInv'
<1>1. /\ Begins("plan", "resolve for wrapper") /\ captured \in Captures
      /\ file' \in Files(captured) /\ spec' \in Specs(captured) /\ UNCHANGED output
  BY DEF Plan, Kept, IInv, FetchInv
<1>2. /\ file'.receipts \in Seq(NumberedReceipt) /\ file'.header \in Block \cup {BadHeader}
      /\ \A k \in DOMAIN spec'.candidates :
           spec'.candidates[k].txIndex \in Int /\ spec'.candidates[k].logIndex \in Int
  BY <1>1, FilesAssumption
<1> QED BY <1>1, <1>2, BeginStep DEF Resolved, Looking

LEMMA LookStep ==
  ASSUME IInv, NEW c \in {"inspect", "rewards"}, Look(c)
  PROVE  IInv'
<1>1. PICK first \in {"controller views", "resolve for rewards"} : Begins(c, first) /\ UNCHANGED output
  BY DEF Look
<1> QED BY <1>1, BeginStep DEF Resolved

LEMMA IInvStep == IInv /\ [Next]_vars => IInv'
<1> SUFFICES ASSUME IInv, [Next]_vars PROVE IInv' OBVIOUS
<1>1. CASE UNCHANGED vars
  <2> USE <1>1 DEF vars, fetchVars, node, fetching, inputs, binding, views
  <2>1. TypeOK'
    <3>1. FetchTypeOK' BY DEF IInv, TypeOK, FetchTypeOK
    <3> QED BY <3>1 DEF IInv, TypeOK
  <2>2. FetchInv'
    <3>1. ~BundleError(header, listed) => ~BundleError(header, listed)' BY DEF BundleError
    <3> QED BY <3>1 DEF IInv, FetchInv, HonestBlockIsFetched
  <2>3. OutputInv' BY DEF IInv, OutputInv
  <2>4. AdapterInv' BY DEF IInv, AdapterInv, Planned
  <2> QED BY <2>1, <2>2, <2>3, <2>4 DEF IInv
<1>2. CASE Fetching
  <2>1. FetchTypeOK' /\ FetchInv' BY <1>2, FetchingStep DEF Fetching, IInv, TypeOK
  <2> QED BY <1>2, <2>1, CommandUnmoved DEF Fetching
<1>3. CASE Rebind BY <1>3, RebindStep
<1>4. CASE ResolveAdapter BY <1>4, ResolveStep DEF ResolveAdapter
<1>5. CASE Lost BY <1>5, ThrowStep DEF Lost, Running
<1>6. CASE Step /\ ~ResolveAdapter /\ ~Lost
  BY <1>6, VerifyStep, PlanStep, LookStep, ReadWrappersStep, ReadMetricStep, BuildStep,
     InspectControllerStep, LookingStep DEF Step
<1> QED BY <1>1, <1>2, <1>3, <1>4, <1>5, <1>6 DEF Next

LEMMA IInvHolds == Spec => []IInv
BY InitIInv, IInvStep, PTL DEF Spec

\* The type invariant.
THEOREM ReadTypeCorrect == Spec => []TypeOK
<1>1. IInv => TypeOK BY DEF IInv
<1> QED BY IInvHolds, <1>1, PTL

OneBlock(c, hash) ==
  /\ c.header = hash /\ Number[hash] = asked
  /\ Range(c.receipts) = Range(Indexed(hash))
  /\ Len(c.receipts) = Len(Receipts[hash])
  /\ faithful => hash = chain[asked]

LEMMA CapturedOnce ==
  ASSUME FetchTypeOK, FetchInv, FetchStep \/ Reorg, captured' # captured
  PROVE  OneBlock(captured', captured'.hash)
<1>1. Recheck
  BY DEF FetchStep, Reorg, CheckChainId, GetHeader, GetReceipts, FetchFails, fetching
<1>2. PICK hash \in (IF faithful THEN {chain[asked]} ELSE Block \cup {NoAnswer}) :
        /\ ~Changed(hash)
        /\ captured' = [header |-> header.header, hash |-> header.hash, number |-> asked,
                        root |-> HeaderRoot(header.header), receipts |-> listed]
  BY <1>1 DEF Recheck, FetchFails
<1>3. /\ header \in HeaderAnswer /\ listed \in Seq(NumberedReceipt) /\ ~BundleError(header, listed)
  BY <1>1 DEF Recheck, FetchInv
<1>4. PICK b \in Block : b = header.header BY <1>3 DEF HeaderAnswer
<1>5. /\ header.hash = b /\ Number[b] = asked /\ Buildable(listed)
      /\ RootOf(listed) = HeaderRoot(b)
  BY <1>3, <1>4 DEF BundleError
<1>6. Len(listed) = Len(Receipts[b]) BY <1>3, <1>5, BuiltIsListing
<1>7. Range(listed) = Range(Indexed(b)) BY <1>5 DEF HeaderRoot, RootOf
<1>8. faithful => b = chain[asked] BY <1>2, <1>5 DEF Changed
<1>9. captured'.header = b /\ captured'.hash = b /\ captured'.receipts = listed
  BY <1>2, <1>4, <1>5
<1> QED BY <1>5, <1>6, <1>7, <1>8, <1>9 DEF OneBlock

\* What is captured is the one block of its hash, at the height asked for and with all of
\* its receipts; of a truthful node it is canonical when the command ends.
THEOREM FetchesOneBlock == Spec => FetchedIsOneBlock
<1>1. IInv /\ [Next]_vars =>
        [captured' # captured =>
           LET hash == captured'.hash
           IN  /\ captured'.header = hash /\ Number[hash] = asked
               /\ Range(captured'.receipts) = Range(Indexed(hash))
               /\ Len(captured'.receipts) = Len(Receipts[hash])
               /\ faithful => hash = chain[asked]]_fetchVars
  <2> SUFFICES ASSUME IInv, [Next]_vars, captured' # captured
               PROVE  OneBlock(captured', captured'.hash)
    BY DEF OneBlock
  <2>1. Fetching
    <3>1. ASSUME Rebind \/ Step PROVE captured' = captured
      <4> USE DEF Stay, fetchVars, fetching, Begins
      <4>1. CASE Rebind BY <4>1 DEF Rebind
      <4>2. CASE Verify \/ Plan \/ (\E c \in {"inspect", "rewards"} : Look(c))
        BY <4>2 DEF Verify, Plan, Look
      <4>3. CASE ResolveAdapter \/ Lost BY <4>3 DEF ResolveAdapter, Resolve, Lost, Throw
      <4>4. CASE ReadWrappers \/ ReadMetric \/ Build
        BY <4>4 DEF ReadWrappers, ReadMetric, Build, Ask, Throw
      <4>5. CASE InspectController \/ InspectWrapper \/ InspectAdapter \/ ReadCredits
        BY <4>5 DEF InspectController, InspectWrapper, InspectAdapter, ReadCredits, Ask, Throw
      <4> QED BY <3>1, <4>1, <4>2, <4>3, <4>4, <4>5 DEF Step
    <3>2. ~UNCHANGED vars BY DEF vars, fetchVars, fetching
    <3> QED BY <3>1, <3>2 DEF Next
  <2> QED BY <2>1, CapturedOnce DEF Fetching, IInv, TypeOK
<1> QED BY IInvHolds, <1>1, PTL DEF Spec, FetchedIsOneBlock

\* A truthful node on a chain that stays is enough to fetch any block with receipts.
THEOREM HonestFetchSucceeds == Spec => []HonestBlockIsFetched
<1>1. IInv => HonestBlockIsFetched BY DEF IInv, FetchInv
<1> QED BY IInvHolds, <1>1, PTL

\* Whatever became of the file: what is called valid or planned is about one block.
THEOREM OutputsAreOfOneBlock == Spec => []OutputIsOfOneBlock
<1>1. IInv => OutputIsOfOneBlock
  <2> SUFFICES ASSUME IInv, Planned \/ (output.is = "verified" /\ output.valid)
               PROVE  /\ file.header = file.hash /\ Number[file.hash] = file.number
                      /\ Range(file.receipts) = Range(Indexed(file.hash))
    BY DEF OutputIsOfOneBlock
  <2>1. HeaderValid(file) /\ RootBound(file) /\ RootOf(file.receipts) = file.root
    <3>1. CASE Planned
      <4>1. output = PlanBlock(file, spec, wrapper, metric) /\ output.is = "planned"
        BY <3>1 DEF Planned, IInv, OutputInv
      <4>2. ~BundleBroken(file) BY <4>1, OutputKinds DEF PlanBlock
      <4> QED BY <4>2 DEF BundleBroken
    <3>2. CASE output.is = "verified" /\ output.valid
      <4>1. output = VerifyBlock(file, pairs) BY <3>2 DEF IInv, OutputInv
      <4>2. ~VerifyThrows(file, pairs) BY <3>2, <4>1, OutputKinds DEF VerifyBlock
      <4> QED BY <3>2, <4>1, <4>2 DEF VerifyBlock
    <3> QED BY <3>1, <3>2
  <2> QED BY <2>1 DEF HeaderValid, RootBound, HeaderRoot, RootOf
<1> QED BY IInvHolds, <1>1, PTL

\* A plan's logs verify where the plan proves them, and a log that verifies is never
\* refused for where it is.
THEOREM PlansVerify == Spec => []VerifyAgreesWithPlan
<1>1. IInv => VerifyAgreesWithPlan
  <2> SUFFICES ASSUME IInv PROVE VerifyAgreesWithPlan OBVIOUS
  <2>1. ASSUME Planned
        PROVE  /\ VerifyBlock(file, PairsOf(spec)) = [is |-> "verified", valid |-> TRUE]
               /\ \A k \in DOMAIN spec.candidates :
                    output.proofs[k].logIndex =
                      CliLocalIndex(file.receipts, spec.candidates[k].txIndex, spec.candidates[k].logIndex)
    <3>1. /\ output = PlanBlock(file, spec, wrapper, metric) /\ output.is = "planned"
          /\ file.receipts \in Seq(NumberedReceipt)
          /\ \A k \in DOMAIN spec.candidates :
               spec.candidates[k].txIndex \in Int /\ spec.candidates[k].logIndex \in Int
      BY <2>1 DEF Planned, IInv, OutputInv, TypeOK
    <3>2. /\ ~BundleBroken(file)
          /\ \A k \in DOMAIN spec.candidates :
               ~CandidateError(file, spec.entrants, metric, wrapper, spec.candidates[k])
      BY <3>1, OutputKinds DEF PlanBlock
    <3>3. ASSUME NEW k \in DOMAIN spec.candidates
          PROVE  LET c == spec.candidates[k]
                 IN  /\ ReceiptLocalIndex(file.receipts, c.txIndex, c.logIndex) =
                          CliLocalIndex(file.receipts, c.txIndex, c.logIndex)
                     /\ Of(file.receipts, c.txIndex) # {}
                     /\ ReadsLog(file, c.txIndex, CliLocalIndex(file.receipts, c.txIndex, c.logIndex))
      <4>1. PICK c : c = spec.candidates[k] OBVIOUS
      <4>2. /\ ReceiptLocalIndex(file.receipts, c.txIndex, c.logIndex) =
                 CliLocalIndex(file.receipts, c.txIndex, c.logIndex)
            /\ CliLocalIndex(file.receipts, c.txIndex, c.logIndex) # NoIndex =>
                 Of(file.receipts, c.txIndex) # {}
        BY <3>1, <4>1, IndicesAgree
      <4>3. /\ ReceiptLocalIndex(file.receipts, c.txIndex, c.logIndex) # NoIndex
            /\ ReadsLog(file, c.txIndex, ReceiptLocalIndex(file.receipts, c.txIndex, c.logIndex))
        BY <3>2, <4>1 DEF CandidateError
      <4> QED BY <4>1, <4>2, <4>3
    <3>4. /\ file.header # BadHeader /\ Buildable(file.receipts) /\ RootOf(file.receipts) = file.root
          /\ HeaderValid(file) /\ RootBound(file)
      BY <3>2 DEF BundleBroken
    <3>5. ASSUME NEW p \in PairsOf(spec)
          PROVE  Of(file.receipts, p.txIndex) # {} /\ PairValid(file, p)
      <4>1. PICK k \in DOMAIN spec.candidates :
              p.txIndex = spec.candidates[k].txIndex /\ p.logIndex = spec.candidates[k].logIndex
        BY DEF PairsOf
      <4> QED BY <3>3, <4>1 DEF PairValid
    <3>6. ~VerifyThrows(file, PairsOf(spec)) BY <3>4, <3>5 DEF VerifyThrows
    <3>7. VerifyBlock(file, PairsOf(spec)) = [is |-> "verified", valid |-> TRUE]
      BY <3>4, <3>5, <3>6 DEF VerifyBlock
    <3>8. ASSUME NEW k \in DOMAIN spec.candidates
          PROVE  output.proofs[k].logIndex =
                   ReceiptLocalIndex(file.receipts, spec.candidates[k].txIndex, spec.candidates[k].logIndex)
      BY <3>1, <3>2 DEF PlanBlock
    <3> QED BY <3>3, <3>7, <3>8
  <2>2. ASSUME output.is = "verified", output.valid, NEW p \in pairs
        PROVE  ReadsLog(file, p.txIndex, ReceiptLocalIndex(file.receipts, p.txIndex, p.logIndex))
    <3>1. /\ command = "verify" /\ output = VerifyBlock(file, pairs)
          /\ file.receipts \in Seq(NumberedReceipt) /\ p.txIndex \in Int /\ p.logIndex \in Int
      BY <2>2 DEF IInv, OutputInv, TypeOK
    <3>2. ~VerifyThrows(file, pairs) BY <2>2, <3>1, OutputKinds DEF VerifyBlock
    <3>3. PairValid(file, p) BY <2>2, <3>1, <3>2 DEF VerifyBlock
    <3>4. ReceiptLocalIndex(file.receipts, p.txIndex, p.logIndex) =
            CliLocalIndex(file.receipts, p.txIndex, p.logIndex)
      BY <3>1, IndicesAgree
    <3> QED BY <3>3, <3>4 DEF PairValid
  <2> QED BY <2>1, <2>2 DEF VerifyAgreesWithPlan
<1> QED BY IInvHolds, <1>1, PTL

\* Only an adapter the controller named is asked, only the configured one if there is one,
\* and a plan that asked one adapter holds that adapter's views.
THEOREM OnlyBoundAdaptersAreRead == Spec => []AdapterReadsAreBound
<1>1. IInv => AdapterReadsAreBound
  <2> SUFFICES ASSUME IInv PROVE AdapterReadsAreBound OBVIOUS
  <2>1. consulted \subseteq bindings /\ (pinned # NoAdapter => consulted \subseteq {pinned})
    BY DEF IInv, AdapterInv
  <2>2. ASSUME Planned
        PROVE  /\ wrapper = ControllerWrapper
               /\ pinned # NoAdapter \/ bindings = {bound} => consulted = {adapter}
               /\ consulted = {adapter} =>
                    /\ wrapper = WrapperOf[adapter] /\ metric = MetricOf[adapter]
                    /\ \A k \in DOMAIN spec.candidates :
                         QuoteOf[adapter][spec.candidates[k].entrantIndex] = spec.candidates[k].quoteAsset
    <3>1. command = "plan" /\ step = "over" BY <2>2 DEF Planned, IInv, OutputInv
    <3>2. /\ wrapper = ControllerWrapper /\ \E a \in consulted : wrapper = WrapperOf[a]
          /\ \E a \in consulted : metric = MetricOf[a]
          /\ adapter \in consulted
          /\ \A k \in DOMAIN spec.candidates :
               QuoteOf[adapter][spec.candidates[k].entrantIndex] = spec.candidates[k].quoteAsset
      BY <2>2, <3>1 DEF IInv, AdapterInv
    <3>3. pinned # NoAdapter \/ bindings = {bound} => consulted = {adapter} BY <2>1, <3>2
    <3>4. consulted = {adapter} => wrapper = WrapperOf[adapter] /\ metric = MetricOf[adapter] BY <3>2
    <3> QED BY <3>2, <3>3, <3>4
  <2> QED BY <2>1, <2>2 DEF AdapterReadsAreBound
<1> QED BY IInvHolds, <1>1, PTL


-----------------------------------------------------------------------------
(***************************************************************************)
(* plan and the guest.  Both rules say of one log that it is a Swap of the *)
(* pool of the candidate's venue, with its amount and sender, above the    *)
(* venue's floor.                                                          *)
(***************************************************************************)
Entrants == [i \in 1..EntrantCount |-> Token(i - 1)]

\* The delta of the currency an entrant is traded against.
QuoteDelta(log, i) == IF Venue[i].tokenIsCurrency0 THEN log.data.amount1 ELSE log.data.amount0

Matches(c, log) ==
  /\ Len(log.topics) = 3 /\ log.topics[1] = SwapTopic /\ log.data.words = 6
  /\ log.emitter = VenueOf(c).account /\ log.topics[2] = VenueOf(c).poolId
  /\ Absolute(QuoteDelta(log, c.entrantIndex)) >= VenueOf(c).minNotional
  /\ Absolute(QuoteDelta(log, c.entrantIndex)) = c.expectedQuoteAmount
  /\ log.topics[3] = c.expectedSender

LEMMA GuestRule ==
  ASSUME NEW log \in Log, NEW c, OfTheTerms(c)
  PROVE  /\ ~LogError(log) /\ Qualifies(log) /\ SlotOf(log) = c.entrantIndex
         /\ QuoteAmount(log) = c.expectedQuoteAmount /\ log.topics[3] = c.expectedSender
         <=> Matches(c, log) /\ log.data.canonical
<1>1. PICK e \in Active : e = c.entrantIndex BY DEF OfTheTerms
<1>2. e \in Nat BY TermsAssumption DEF Active
<1>3. \A i, j \in Traded(log) : i = j BY TermsAssumption DEF Traded
<1>4. SlotOf(log) = e => QuoteAmount(log) = Absolute(QuoteDelta(log, e))
  BY DEF QuoteAmount, QuoteDelta, Absolute
<1>5. e \in Traded(log) => SlotOf(log) = e
  <2> SUFFICES ASSUME e \in Traded(log) PROVE SlotOf(log) = e OBVIOUS
  <2>1. Traded(log) = {e} BY <1>3
  <2>2. SlotOf(log) = CHOOSE i \in {e} : \A j \in {e} : i <= j BY <2>1 DEF SlotOf
  <2> QED BY <1>2, <2>2
<1>6. Traded(log) # {} /\ SlotOf(log) = e => e \in Traded(log)
  <2> SUFFICES ASSUME NEW i \in Traded(log), SlotOf(log) = e PROVE e \in Traded(log) OBVIOUS
  <2>1. Traded(log) = {i} BY <1>3
  <2>2. i \in Nat BY TermsAssumption DEF Traded, Active
  <2>3. SlotOf(log) = CHOOSE k \in {i} : \A j \in {i} : k <= j BY <2>1 DEF SlotOf
  <2>4. SlotOf(log) = i BY <2>2, <2>3
  <2> QED BY <2>4
<1>7. e \in Traded(log) <=> log.emitter = VenueOf(c).account /\ log.topics[2] = VenueOf(c).poolId
  BY <1>1 DEF Traded, VenueOf
<1>8. log.topics \in Seq(Topic) BY DEF Log
<1>9. Len(log.topics) = 3 => log.topics # <<>>
  <2>1. \A t \in Seq(Topic) : t = <<>> => Len(t) = 0 OBVIOUS
  <2> QED BY <1>8, <2>1
<1>10. e \in Traded(log) => \E i \in Active : Venue[i].account = log.emitter BY DEF Traded
<1>11. ASSUME ~LogError(log), Qualifies(log), SlotOf(log) = e,
             QuoteAmount(log) = c.expectedQuoteAmount, log.topics[3] = c.expectedSender
      PROVE  Matches(c, log) /\ log.data.canonical
  <2>1. e \in Traded(log) BY <1>6, <1>11 DEF Qualifies
  <2>2. Watched(log) /\ Len(log.topics) = 3 /\ log.data.words = 6 /\ log.data.canonical
    BY <1>11, <2>1 DEF Qualifies, LogError
  <2>3. log.topics[1] = SwapTopic BY <2>2 DEF Watched
  <2>4. QuoteAmount(log) >= VenueOf(c).minNotional BY <1>1, <1>11 DEF Qualifies, VenueOf
  <2> QED BY <1>1, <1>4, <1>7, <1>11, <2>1, <2>2, <2>3, <2>4 DEF Matches
<1>12. ASSUME Matches(c, log), log.data.canonical
       PROVE  /\ ~LogError(log) /\ Qualifies(log) /\ SlotOf(log) = e
              /\ QuoteAmount(log) = c.expectedQuoteAmount /\ log.topics[3] = c.expectedSender
  <2>1. e \in Traded(log) BY <1>7, <1>12 DEF Matches
  <2>2. Watched(log) BY <1>9, <1>10, <1>12, <2>1 DEF Matches, Watched
  <2>3. ~LogError(log) BY <1>12 DEF Matches, LogError
  <2>4. SlotOf(log) = e /\ QuoteAmount(log) = Absolute(QuoteDelta(log, e)) BY <1>4, <1>5, <2>1
  <2>5. Qualifies(log) BY <1>1, <1>12, <2>1, <2>2, <2>4 DEF Matches, Qualifies, VenueOf
  <2> QED BY <1>1, <1>12, <2>3, <2>4, <2>5 DEF Matches
<1> QED BY <1>1, <1>11, <1>12

\* Of the entrants only the candidate's can qualify: no other entrant is a token of its
\* pool, but the one it may be traded against, whose quote would be the candidate's.
LEMMA OnlyItsEntrant ==
  ASSUME NEW log \in Log, NEW c, OfTheTerms(c), log.topics[2] = VenueOf(c).poolId
  PROVE  Qualified(Entrants, 1, ControllerWrapper, c, Swap(log, 1)) =
           IF Absolute(QuoteDelta(log, c.entrantIndex)) >= VenueOf(c).minNotional
           THEN {c.entrantIndex + 1} ELSE {}
<1> DEFINE swap == Swap(log, 1)
           Rule(t) == EntrantQualifies(t, 1, ControllerWrapper, c, swap)
<1>1. PICK e \in Active : e = c.entrantIndex BY DEF OfTheTerms
<1>2. EntrantCount \in Nat /\ e \in 0..(EntrantCount - 1) BY <1>1, TermsAssumption DEF Active
<1>3. /\ swap.amount0 = log.data.amount0 /\ swap.amount1 = log.data.amount1 BY DEF Swap
<1> HIDE DEF swap
<1>4. /\ c.key = Venue[e].poolId /\ c.quoteAsset = QuoteAsset(OtherCurrency(e), ControllerWrapper)
      /\ c.minNotional = Venue[e].minNotional
  BY <1>1 DEF OfTheTerms, VenueOf, TermsQuote
<1>5. Token(e) # OtherCurrency(e) /\ Token(e) # NativeCurrency BY VenueAssumption
<1>6. {c.key.currency0, c.key.currency1} = {Token(e), OtherCurrency(e)}
  BY <1>4 DEF Token, OtherCurrency
<1>7. /\ Side(c.key, Token(e), swap).quote = OtherCurrency(e)
      /\ Side(c.key, Token(e), swap).quoteDelta = QuoteDelta(log, e)
  BY <1>3, <1>4, <1>5 DEF Side, Token, OtherCurrency, QuoteDelta
<1>8. Rule(Token(e)) <=> Absolute(QuoteDelta(log, e)) >= Venue[e].minNotional
  BY <1>4, <1>6, <1>7 DEF EntrantQualifies
<1>9. ASSUME NEW i \in Active, i # e PROVE ~Rule(Token(i))
  <2>1. Token(i) # Token(e) /\ Token(i) # NativeCurrency BY <1>9, VenueAssumption
  <2>2. SUFFICES ASSUME Token(i) = OtherCurrency(e) PROVE ~Rule(Token(i))
    BY <1>6, <2>1 DEF EntrantQualifies
  <2>3. Side(c.key, Token(i), swap).quote = Token(e)
    BY <1>4, <1>5, <2>2 DEF Side, Token, OtherCurrency
  <2>4. c.quoteAsset = Token(i) BY <1>4, <2>1, <2>2 DEF QuoteAsset
  <2>5. QuoteAsset(Token(e), ControllerWrapper) = Token(e) BY <1>5 DEF QuoteAsset
  <2> QED BY <2>1, <2>3, <2>4, <2>5 DEF EntrantQualifies
<1> HIDE DEF Rule
<1>10. Qualified(Entrants, 1, ControllerWrapper, c, swap) = {i \in 1..EntrantCount : Rule(Token(i - 1))}
  BY DEF Qualified, Entrants, Rule
<1>11. \A i \in 1..EntrantCount : i - 1 \in Active /\ (i # e + 1 => i - 1 # e)
  BY <1>2 DEF Active
<1>12. \A i \in 1..EntrantCount : Rule(Token(i - 1)) => i = e + 1 BY <1>9, <1>11
<1>13. e + 1 \in 1..EntrantCount /\ (e + 1) - 1 = e BY <1>2
<1>14. {i \in 1..EntrantCount : Rule(Token(i - 1))} = IF Rule(Token(e)) THEN {e + 1} ELSE {}
  BY <1>12, <1>13
<1> QED BY <1>1, <1>8, <1>10, <1>14 DEF swap, VenueOf

LEMMA PlanRule ==
  ASSUME NEW log \in Log, NEW c, OfTheTerms(c)
  PROVE  /\ Decodes(log, c.venueKind) /\ ~PoolError(c, log)
         /\ ~QualificationError(Entrants, 1, ControllerWrapper, c, log)
         <=> Matches(c, log)
<1>1. PICK e \in Active : e = c.entrantIndex BY DEF OfTheTerms
<1>2. /\ e \in Nat /\ EntrantCount \in Nat /\ e <= EntrantCount - 1
  BY TermsAssumption DEF Active
<1>3. /\ c.venueKind = 1 /\ c.poolId = Venue[e].poolId /\ c.key = Venue[e].poolId
      /\ c.account = Venue[e].account
  BY <1>1 DEF OfTheTerms, VenueOf
<1>4. ~(c.key.fee >= DynamicFee)
  <2>1. Venue[e].poolId.fee \in Nat /\ DynamicFee \in Nat /\ Venue[e].poolId.fee < DynamicFee
    BY VenueAssumption
  <2> QED BY <1>3, <2>1
<1>5. Decodes(log, c.venueKind) <=> Len(log.topics) = 3 /\ log.topics[1] = SwapTopic /\ log.data.words = 6
  BY <1>3 DEF Decodes
<1>6. ~PoolError(c, log) <=> log.topics[2] = Venue[e].poolId /\ log.emitter = Venue[e].account
  <2>1. Swap(log, c.venueKind).poolId = log.topics[2] BY <1>3 DEF Swap
  <2> QED BY <1>3, <1>4, <2>1 DEF PoolError
<1>7. ASSUME log.topics[2] = Venue[e].poolId
      PROVE  ~QualificationError(Entrants, 1, ControllerWrapper, c, log) <=>
               /\ Absolute(QuoteDelta(log, e)) >= Venue[e].minNotional
               /\ Absolute(QuoteDelta(log, e)) = c.expectedQuoteAmount
               /\ log.topics[3] = c.expectedSender
  <2> DEFINE slots == Qualified(Entrants, 1, ControllerWrapper, c, Swap(log, 1))
  <2>1. slots = IF Absolute(QuoteDelta(log, e)) >= Venue[e].minNotional THEN {e + 1} ELSE {}
    BY <1>1, <1>7, OnlyItsEntrant DEF VenueOf
  <2>2. CASE ~(Absolute(QuoteDelta(log, e)) >= Venue[e].minNotional)
    BY <1>3, <2>1, <2>2 DEF QualificationError
  <2>3. CASE Absolute(QuoteDelta(log, e)) >= Venue[e].minNotional
    <3>1. slots = {e + 1} BY <2>1, <2>3
    <3>2. FirstOf(slots) = e + 1
      <4>1. FirstOf(slots) = CHOOSE i \in {e + 1} : \A j \in {e + 1} : i <= j BY <3>1 DEF FirstOf
      <4> QED BY <1>2, <4>1
    <3>3. Entrants[e + 1] = Token(e) BY <1>2 DEF Entrants
    <3>4. Token(e) # OtherCurrency(e) BY VenueAssumption
    <3>5. Side(c.key, Token(e), Swap(log, 1)).quoteDelta = QuoteDelta(log, e)
      BY <1>3, <3>4 DEF Side, Token, OtherCurrency, QuoteDelta, Swap
    <3>6. Swap(log, 1).sender = log.topics[3] BY DEF Swap
    <3>7. FirstOf(slots) - 1 = c.entrantIndex /\ slots # {} BY <1>1, <1>2, <3>1, <3>2
    <3> HIDE DEF slots
    <3>8. QualificationError(Entrants, 1, ControllerWrapper, c, log) <=>
            \/ slots = {} \/ FirstOf(slots) - 1 # c.entrantIndex
            \/ Absolute(Side(c.key, Entrants[FirstOf(slots)], Swap(log, 1)).quoteDelta) # c.expectedQuoteAmount
            \/ Swap(log, 1).sender # c.expectedSender
      BY <1>3 DEF QualificationError, slots
    <3> QED BY <2>3, <3>2, <3>3, <3>5, <3>6, <3>7, <3>8
  <2> QED BY <2>2, <2>3
<1> QED BY <1>1, <1>5, <1>6, <1>7 DEF Matches, VenueOf

\* A candidate is refused unless the guest counts its log, or would but for words that are
\* read by the guest alone.
LEMMA CandidateRule ==
  ASSUME NEW c, OfTheTerms(c), c.txIndex \in Int, c.logIndex \in Int,
         file.receipts \in Seq(NumberedReceipt), file.header \in Block \cup {BadHeader},
         ~BundleBroken(file)
  PROVE  /\ GuestCounts(c) => ~CandidateError(file, Entrants, 1, ControllerWrapper, c)
         /\ ~CandidateError(file, Entrants, 1, ControllerWrapper, c) => GuestCounts(c) \/ Unread(c)
<1>1. PICK b \in Block : b = file.hash /\ b = file.header BY DEF BundleBroken, HeaderValid
<1>2. PICK list \in Seq(NumberedReceipt) : list = file.receipts OBVIOUS
<1>3. PICK tx \in Int : tx = c.txIndex OBVIOUS
<1>4. Buildable(list) /\ RootOf(list) = file.root /\ Range(list) = Range(Indexed(b))
  BY <1>1, <1>2 DEF BundleBroken, RootBound, HeaderRoot, RootOf
<1>5. PICK local : local = CliLocalIndex(list, tx, c.logIndex) OBVIOUS
<1>6. /\ ReceiptLocalIndex(list, tx, c.logIndex) = local
      /\ local # NoIndex => Of(list, tx) # {}
  BY <1>5, IndicesAgree
<1>7. CliLocalIndex(Indexed(b), tx, c.logIndex) = local BY <1>4, <1>5, SameIndices
<1>8. CASE local = NoIndex
  <2>1. Named(c) = {} BY <1>1, <1>3, <1>7, <1>8 DEF Named
  <2>2. CandidateError(file, Entrants, 1, ControllerWrapper, c)
    BY <1>2, <1>3, <1>6, <1>8 DEF CandidateError
  <2> QED BY <2>1, <2>2 DEF GuestCounts
<1>9. CASE local # NoIndex
  <2>1. Named(c) = {local + 1} BY <1>1, <1>3, <1>7, <1>9 DEF Named
  <2>2. /\ tx \in ReceiptIndices(b) /\ LogsOf(list, tx) = ReceiptAt(b, tx).logs
        /\ Of(list, tx) # {}
        /\ \A i \in Of(list, tx) : list[i].receipt = ReceiptAt(b, tx)
    BY <1>4, <1>6, <1>9, SameIndices
  <2>3. local \in 0..(Len(ReceiptAt(b, tx).logs) - 1)
    BY <1>5, <1>9, <2>2 DEF CliLocalIndex
  <2>4. ReceiptAt(b, tx) \in Receipt
    <3>1. Receipts[b] \in Seq(Receipt) BY ChainAssumption
    <3> QED BY <2>2, <3>1 DEF ReceiptAt, ReceiptIndices
  <2>5. PICK log : log = LogAt(b, tx, local + 1) OBVIOUS
  <2>6. log \in Log
    <3>1. ReceiptAt(b, tx).logs \in Seq(Log) BY <2>4 DEF Receipt
    <3> QED BY <2>3, <2>5, <3>1 DEF LogAt
  <2>7. LogsOf(file.receipts, c.txIndex)[local + 1] = log BY <1>2, <1>3, <2>2, <2>5 DEF LogAt
  <2>8. ReadsLog(file, c.txIndex, local) <=> ReceiptAt(b, tx).status = "success"
    <3>1. Len(ReceiptAt(b, tx).logs) \in Nat BY <2>4 DEF Receipt
    <3>2. local < Len(ReceiptAt(b, tx).logs) BY <2>3, <3>1
    <3> QED BY <1>2, <1>3, <1>4, <1>9, <2>2, <3>2 DEF ReadsLog
  <2>9. ~CandidateError(file, Entrants, 1, ControllerWrapper, c) <=>
          ReceiptAt(b, tx).status = "success" /\ Matches(c, log)
    <3>1. ReceiptLocalIndex(file.receipts, c.txIndex, c.logIndex) = local BY <1>2, <1>3, <1>6
    <3>2. CandidateError(file, Entrants, 1, ControllerWrapper, c) <=>
            \/ ~ReadsLog(file, c.txIndex, local) \/ ~Decodes(log, c.venueKind)
            \/ PoolError(c, log) \/ QualificationError(Entrants, 1, ControllerWrapper, c, log)
      BY <1>9, <2>7, <3>1 DEF CandidateError
    <3> QED BY <2>6, <2>8, <3>2, PlanRule
  <2>10. GuestCounts(c) <=>
           ReceiptAt(b, tx).status = "success" /\ Matches(c, log) /\ log.data.canonical
    <3>1. GuestCounts(c) <=>
            /\ ~LogError(log) /\ Counts({c.entrantIndex}, c.entrantIndex, b, tx, local + 1)
            /\ QuoteAmount(log) = c.expectedQuoteAmount /\ log.topics[3] = c.expectedSender
      BY <1>1, <1>3, <2>1, <2>5 DEF GuestCounts
    <3>2. Counts({c.entrantIndex}, c.entrantIndex, b, tx, local + 1) <=>
            ReceiptAt(b, tx).status = "success" /\ Qualifies(log) /\ SlotOf(log) = c.entrantIndex
      BY <2>5 DEF Counts
    <3> QED BY <2>6, <3>1, <3>2, GuestRule
  <2>11. Unread(c) <=> ~log.data.canonical BY <1>1, <1>3, <2>1, <2>5 DEF Unread
  <2> QED BY <2>9, <2>10, <2>11
<1> QED BY <1>8, <1>9

\* What a plan put out is of its inputs, and against the controller's wrapper.
PlanInv ==
  command = "plan" /\ step \in {"over", "refused"} =>
    output = PlanBlock(file, spec, wrapper, metric) /\ wrapper = ControllerWrapper

LEMMA PlanInvStep ==
  ASSUME IInv, PlanInv, [Next]_vars
  PROVE  PlanInv'
<1>1. CASE UNCHANGED <<inputs, step, views, output>>
  BY <1>1 DEF PlanInv, inputs, views
<1>2. CASE (command' # "plan" \/ step' \notin {"over", "refused"}) BY <1>2 DEF PlanInv
<1>3. CASE Build
  <2>1. CASE QuotesDiffer BY <1>2, <1>3, <2>1 DEF Build, Throw
  <2>2. CASE ~QuotesDiffer
    <3>1. /\ output' = PlanBlock(file, spec, wrapper, metric)
          /\ UNCHANGED <<command, file, spec, wrapper, metric>>
      BY <1>3, <2>2 DEF Build, Stay, inputs
    <3>2. command = "plan" => wrapper = ControllerWrapper
      BY <1>3 DEF Build, IInv, AdapterInv
    <3> QED BY <3>1, <3>2 DEF PlanInv
  <2> QED BY <2>1, <2>2
<1>4. CASE UNCHANGED vars BY <1>1, <1>4 DEF vars
<1>5. CASE Fetching \/ Rebind BY <1>1, <1>5 DEF Fetching, Rebind
<1>6. CASE Verify \/ Plan \/ (\E c \in {"inspect", "rewards"} : Look(c))
  BY <1>2, <1>6 DEF Verify, Plan, Look, Begins
<1>7. CASE Lost \/ ResolveAdapter \/ ReadWrappers \/ ReadMetric
  BY <1>2, <1>7 DEF Lost, Throw, ResolveAdapter, Resolve, ReadWrappers, ReadMetric, Ask
<1>8. CASE InspectController \/ InspectWrapper \/ InspectAdapter \/ ReadCredits
  <2>1. step \in Looking BY <1>8 DEF InspectController, InspectWrapper, InspectAdapter, ReadCredits, Looking
  <2>2. command # "plan" BY <2>1 DEF IInv, AdapterInv
  <2>3. command' = command
    BY <1>8 DEF InspectController, InspectWrapper, InspectAdapter, ReadCredits, Ask, Throw, Stay, inputs
  <2> QED BY <1>2, <2>2, <2>3
<1> QED BY <1>3, <1>4, <1>5, <1>6, <1>7, <1>8 DEF Next, Step

\* The off-chain rule of plan and the relation the guest proves are one rule: under the
\* terms' own venues, a plan is made of candidates the guest counts, and of no other than
\* those whose words only the guest reads.
THEOREM PlansAreWhatTheGuestCounts == Spec => []PlanAgreesWithGuest
<1>1. IInv /\ PlanInv => PlanAgreesWithGuest
  <2> SUFFICES ASSUME IInv, PlanInv, command = "plan", metric = 1, step \in {"over", "refused"},
                      ~BundleBroken(file), SpecOfTheTerms
               PROVE  /\ (\A c \in Range(spec.candidates) : GuestCounts(c)) => Planned
                      /\ Planned => \A c \in Range(spec.candidates) : GuestCounts(c) \/ Unread(c)
    BY DEF PlanAgreesWithGuest
  <2>1. /\ output = PlanBlock(file, spec, ControllerWrapper, 1) /\ spec.entrants = Entrants
    BY DEF PlanInv, SpecOfTheTerms, Entrants
  <2>2. /\ file.receipts \in Seq(NumberedReceipt) /\ file.header \in Block \cup {BadHeader}
        /\ \A k \in DOMAIN spec.candidates :
             spec.candidates[k].txIndex \in Int /\ spec.candidates[k].logIndex \in Int
    BY DEF IInv, TypeOK
  <2>3. ASSUME NEW k \in DOMAIN spec.candidates
        PROVE  LET c == spec.candidates[k]
               IN  /\ GuestCounts(c) => ~CandidateError(file, Entrants, 1, ControllerWrapper, c)
                   /\ ~CandidateError(file, Entrants, 1, ControllerWrapper, c) =>
                        GuestCounts(c) \/ Unread(c)
    <3>1. PICK c : c = spec.candidates[k] OBVIOUS
    <3>2. OfTheTerms(c) /\ c.txIndex \in Int /\ c.logIndex \in Int
      BY <2>2, <3>1 DEF SpecOfTheTerms
    <3>3. /\ GuestCounts(c) => ~CandidateError(file, Entrants, 1, ControllerWrapper, c)
          /\ ~CandidateError(file, Entrants, 1, ControllerWrapper, c) => GuestCounts(c) \/ Unread(c)
      BY <2>2, <3>2, CandidateRule
    <3> QED BY <3>1, <3>3
  <2>4. Planned <=> \A k \in DOMAIN spec.candidates :
                      ~CandidateError(file, Entrants, 1, ControllerWrapper, spec.candidates[k])
    BY <2>1, OutputKinds DEF Planned, PlanBlock
  <2>5. \A c : c \in Range(spec.candidates) <=> \E k \in DOMAIN spec.candidates : c = spec.candidates[k]
    BY DEF Range
  <2> QED BY <2>3, <2>4, <2>5
<1>2. Init => PlanInv BY DEF Init, PlanInv
<1> QED BY InitIInv, IInvStep, PlanInvStep, <1>1, <1>2, PTL DEF Spec

=============================================================================
