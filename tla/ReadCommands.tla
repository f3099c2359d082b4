---------------------------- MODULE ReadCommands ----------------------------
(***************************************************************************)
(* The commands that read: fetch (ReceiptFetch), then verify or plan on    *)
(* the file its output was kept in (ActivityProofs), and the views of a    *)
(* race that plan, inspect and rewards ask the chain for, one request      *)
(* after another, while the controller may be bound to another adapter:    *)
(* packages/cli/src/commands.ts and index.ts.                              *)
(***************************************************************************)
EXTENDS ActivityProofs

CONSTANTS
  Files(_),         \* what the file may hold, given what was captured
  Specs(_),         \* the specs a plan may be asked for, given the file
  Pairs(_),         \* the logs a verify may be asked for
  Adapter, NoAdapter,
  WrapperOf, MetricOf, QuoteOf,  \* views of each adapter; QuoteOf is by entrant
  ControllerWrapper,             \* the controller's wrappedNative
  MaxRebinds        \* bound of the changes of the binding

\* What may have been captured (FetchedIsOneBlock).
Captures ==
  UNION {[header : {b}, hash : {b}, number : {Number[b]}, root : {HeaderRoot(b)},
          receipts : SetToSeqs(HeaderRoot(b))] : b \in {b \in Block : Receipts[b] # <<>>}}

\* What the commands cast the files to without a check of their own (index.ts 119, 133 and
\* 134): receipts are receipts, and indices whole numbers; the header's bytes are those of
\* some header or of none.
ASSUME FilesAssumption ==
  \A c \in Captures :
    /\ \A f \in Files(c) :
         f.receipts \in Seq(NumberedReceipt) /\ f.header \in Block \cup {BadHeader}
    /\ \A s \in Specs(c) : \A k \in DOMAIN s.candidates :
         s.candidates[k].txIndex \in Int /\ s.candidates[k].logIndex \in Int
    /\ \A ps \in Pairs(c) : \A p \in ps : p.txIndex \in Int /\ p.logIndex \in Int

ASSUME AdapterAssumption == NoAdapter \notin Adapter

\* The entrant of a slot, what its pool trades it against, and the quote that stands for it.
Token(i) ==
  IF Venue[i].tokenIsCurrency0 THEN Venue[i].poolId.currency0 ELSE Venue[i].poolId.currency1
OtherCurrency(i) ==
  IF Venue[i].tokenIsCurrency0 THEN Venue[i].poolId.currency1 ELSE Venue[i].poolId.currency0
TermsQuote(i) == QuoteAsset(OtherCurrency(i), ControllerWrapper)

\* Terms that validate (TermsValidation!SlotsDoNotShare): each entrant has a pool of its own,
\* of two currencies and a static fee, and none is the native coin.
ASSUME VenueAssumption ==
  /\ DynamicFee \in Nat
  /\ \A i \in Active :
       /\ Token(i) \notin {OtherCurrency(i), NativeCurrency}
       /\ Venue[i].poolId.fee \in Nat /\ Venue[i].poolId.fee < DynamicFee
  /\ \A i, j \in Active : Token(i) = Token(j) => i = j

VARIABLES
  command, step,    \* the command after fetch, and where it stands
  file, spec, pairs,
  pinned,           \* config.adapter, or NoAdapter
  bound, rebinds,   \* the controller's adapter now; how often that changed
  adapter,          \* the adapter resolved last
  wrapper, metric,
  output,
  bindings, consulted  \* history: the adapters bound since the command began, and those asked

inputs == <<command, file, spec, pairs, pinned>>
binding == <<bound, rebinds, bindings>>
views == <<adapter, wrapper, metric, consulted>>
vars == <<fetchVars, inputs, step, binding, views, output>>

Nothing == [is |-> "none"]

Init ==
  /\ FetchInit
  /\ command = "none" /\ step = "idle"
  /\ file = NoAnswer /\ spec = NoAnswer /\ pairs = {}
  /\ pinned \in Adapter \cup {NoAdapter}
  /\ bound \in Adapter /\ rebinds = 0 /\ bindings = {}
  /\ adapter = NoAdapter /\ wrapper = NoAnswer /\ metric = 0 /\ consulted = {}
  /\ output = Nothing

Running == step \notin {"idle", "over", "refused", "threw"}

Rebind ==
  /\ Running /\ rebinds < MaxRebinds
  /\ bound' \in Adapter \ {bound}
  /\ rebinds' = rebinds + 1 /\ bindings' = bindings \cup {bound'}
  /\ UNCHANGED <<fetchVars, inputs, step, views, output>>

Begins(c, first) ==
  /\ step = "idle"
  /\ command' = c /\ step' = first /\ bindings' = {bound}
  /\ UNCHANGED <<fetchVars, pinned, bound, rebinds, views>>

\* A bound: these commands read nothing of the fetch but its output, so they are followed
\* after one way of fetching it.
Kept == fetch = "fetched" /\ faithful /\ reorgs = 0 /\ expected = NoAnswer

\* verify makes no request at all.
Verify ==
  /\ Kept
  /\ Begins("verify", "over")
  /\ file' \in Files(captured) /\ pairs' \in Pairs(captured)
  /\ output' = VerifyBlock(file', pairs')
  /\ UNCHANGED spec

Plan ==
  /\ Kept
  /\ Begins("plan", "resolve for wrapper")
  /\ file' \in Files(captured) /\ spec' \in Specs(captured)
  /\ UNCHANGED <<pairs, output>>

Look(c) ==
  /\ fetch = "chainId" /\ reorgs = 0 /\ expected = NoAnswer /\ faithful
  /\ Begins(c, IF c = "inspect" THEN "controller views" ELSE "resolve for rewards")
  /\ UNCHANGED <<file, spec, pairs, output>>

Stay == UNCHANGED <<fetchVars, inputs, binding>>

\* The command fails: a view answers nothing, an endpoint fails, or a check does.
Throw == step' = "threw" /\ output' = Throws /\ UNCHANGED views /\ Stay
Lost  == Running /\ Throw

(***************************************************************************)
(* resolveAdapter and resolveWrapper.                                      *)
(***************************************************************************)
\* Mutant: the configured adapter is not compared with the binding.
MismatchIgnored == FALSE

Mismatch == pinned # NoAdapter /\ pinned # bound

Resolve(from, to) ==
  /\ step = from
  /\ IF Mismatch THEN Throw
     ELSE /\ adapter' = bound /\ step' = to
          /\ UNCHANGED <<wrapper, metric, consulted, output>> /\ Stay

ResolveAdapter ==
  \/ Resolve("resolve for wrapper", "wrappers")
  \/ Resolve("resolve for metric", "metric")
  \/ Resolve("resolve for quotes", "quotes")
  \/ Resolve("resolve for rewards", "credits")

\* A read of the adapter resolved before.
Ask(next) ==
  /\ consulted' = consulted \cup {adapter}
  /\ step' = next
  /\ UNCHANGED <<adapter, output>> /\ Stay

ReadWrappers ==
  /\ step = "wrappers"
  /\ IF WrapperOf[adapter] # ControllerWrapper THEN Throw
     ELSE Ask("resolve for metric") /\ wrapper' = WrapperOf[adapter] /\ UNCHANGED metric

\* decodeMetric.
ReadMetric ==
  /\ step = "metric"
  /\ IF MetricOf[adapter] \notin {1, 2} THEN Throw
     ELSE Ask("resolve for quotes") /\ metric' = MetricOf[adapter] /\ UNCHANGED wrapper

\* verifyQuoteAssets, then planBlock with no request in between.
QuotesDiffer ==
  \E k \in DOMAIN spec.candidates :
    LET c == spec.candidates[k]
    IN  c.entrantIndex \notin DOMAIN QuoteOf[adapter] \/ QuoteOf[adapter][c.entrantIndex] # c.quoteAsset

Build ==
  /\ step = "quotes"
  /\ IF QuotesDiffer THEN Throw
     ELSE /\ consulted' = consulted \cup {adapter}
          /\ output' = PlanBlock(file, spec, wrapper, metric)
          /\ step' = IF output'.is = "error" THEN "refused" ELSE "over"
          /\ UNCHANGED <<adapter, wrapper, metric>> /\ Stay

(***************************************************************************)
(* inspect and rewards.                                                    *)
(***************************************************************************)
\* The controller's ten views, in parallel.
InspectController ==
  /\ step = "controller views"
  /\ IF Mismatch THEN Throw
     ELSE /\ adapter' = IF pinned = NoAdapter THEN bound ELSE pinned
          /\ step' = "adapter wrapper"
          /\ UNCHANGED <<wrapper, metric, consulted, output>> /\ Stay

InspectWrapper ==
  /\ step = "adapter wrapper"
  /\ Ask("adapter views") /\ wrapper' = WrapperOf[adapter] /\ UNCHANGED metric

\* The other views are read before the wrappers are compared.
InspectAdapter ==
  /\ step = "adapter views"
  /\ IF wrapper # ControllerWrapper THEN Throw
     ELSE Ask("over") /\ metric' = MetricOf[adapter] /\ UNCHANGED wrapper

ReadCredits == step = "credits" /\ Ask("over") /\ UNCHANGED <<wrapper, metric>>

Step ==
  \/ Verify \/ Plan \/ (\E c \in {"inspect", "rewards"} : Look(c))
  \/ ResolveAdapter \/ ReadWrappers \/ ReadMetric \/ Build
  \/ InspectController \/ InspectWrapper \/ InspectAdapter \/ ReadCredits
  \/ Lost

Fetching ==
  (FetchStep \/ Reorg) /\ step = "idle" /\ UNCHANGED <<inputs, step, binding, views, output>>

Next == Fetching \/ Rebind \/ Step
Spec == Init /\ [][Next]_vars

-----------------------------------------------------------------------------
Planned == command = "plan" /\ output.is = "planned"
PairsOf(s) == {[txIndex |-> s.candidates[k].txIndex, logIndex |-> s.candidates[k].logIndex] :
                 k \in DOMAIN s.candidates}
VenueOf(c) == Venue[c.entrantIndex]

\* The spec says of the race what its terms say: whose it is, and of each candidate's venue.
OfTheTerms(c) ==
  /\ c.entrantIndex \in Active /\ c.venueKind = 1 /\ c.quoteAsset = TermsQuote(c.entrantIndex)
  /\ c.poolId = VenueOf(c).poolId /\ c.key = VenueOf(c).poolId
  /\ c.account = VenueOf(c).account /\ c.minNotional = VenueOf(c).minNotional

SpecOfTheTerms ==
  /\ spec.entrants = [i \in 1..EntrantCount |-> Token(i - 1)]
  /\ \A k \in DOMAIN spec.candidates : OfTheTerms(spec.candidates[k])

\* The logs of the block that a candidate names, by number in its receipt: one or none.
Named(c) ==
  {l + 1 : l \in {CliLocalIndex(Indexed(file.hash), c.txIndex, c.logIndex)} \ {NoIndex}}

\* The guest's relation does not stop at the log of the candidate, and counts it for its
\* entrant, with its amount and sender.
GuestCounts(c) ==
  \E l \in Named(c) :
    LET log == LogAt(file.hash, c.txIndex, l)
    IN  /\ ~LogError(log)
        /\ Counts({c.entrantIndex}, c.entrantIndex, file.hash, c.txIndex, l)
        /\ QuoteAmount(log) = c.expectedQuoteAmount /\ log.topics[3] = c.expectedSender

\* Words the guest refuses where decodeV4SwapLog reads past them.
Unread(c) == \E l \in Named(c) : ~LogAt(file.hash, c.txIndex, l).data.canonical

\* Whatever became of the file, what verify calls valid and what is planned is about one
\* block: its header hashes to it and its receipts are all of that block's.
OutputIsOfOneBlock ==
  Planned \/ (output.is = "verified" /\ output.valid) =>
    /\ file.header = file.hash /\ Number[file.hash] = file.number
    /\ Range(file.receipts) = Range(Indexed(file.hash))

\* The off-chain rule is the guest's: under the terms' own venues and the volume metric, a
\* plan holds a swap exactly when the guest counts it, for the same entrant, amount and
\* sender; native pools and the least int included.  One thing the guest sees and the plan
\* does not: data words that are not canonical.
PlanAgreesWithGuest ==
  /\ command = "plan" /\ metric = 1 /\ step \in {"over", "refused"} /\ ~BundleBroken(file)
  /\ SpecOfTheTerms
  => LET candidates == Range(spec.candidates)
     IN  /\ (\A c \in candidates : GuestCounts(c)) => Planned
         /\ Planned => \A c \in candidates : GuestCounts(c) \/ Unread(c)

\* The two indices agree: a plan's logs verify, at the place the plan proves them, and a
\* log that verifies is never refused for where it is.
VerifyAgreesWithPlan ==
  /\ Planned =>
       /\ VerifyBlock(file, PairsOf(spec)) = [is |-> "verified", valid |-> TRUE]
       /\ \A k \in DOMAIN spec.candidates :
            output.proofs[k].logIndex =
              CliLocalIndex(file.receipts, spec.candidates[k].txIndex, spec.candidates[k].logIndex)
  /\ output.is = "verified" /\ output.valid =>
       \A p \in pairs : ReadsLog(file, p.txIndex, ReceiptLocalIndex(file.receipts, p.txIndex, p.logIndex))

\* An adapter is asked only if the controller named it during the command, and if the
\* configuration names one, no other is, however the binding changes between the requests
\* of a command.  A plan that asked one adapter has its metric, and the wrapper and the
\* quotes it was checked against are that adapter's.
AdapterReadsAreBound ==
  /\ consulted \subseteq bindings
  /\ pinned # NoAdapter => consulted \subseteq {pinned}
  /\ Planned => /\ wrapper = ControllerWrapper
                /\ pinned # NoAdapter \/ bindings = {bound} => consulted = {adapter}
                /\ consulted = {adapter} =>
                     /\ wrapper = WrapperOf[adapter] /\ metric = MetricOf[adapter]
                     /\ \A k \in DOMAIN spec.candidates :
                          QuoteOf[adapter][spec.candidates[k].entrantIndex] = spec.candidates[k].quoteAsset
=============================================================================
