------------------------- MODULE MCTermsValidation -------------------------
(* Two or three entrants (the code: 3..8), heights of three bits (64), the    *)
(* native coin 0, tokens 1, 2 and 4, the wrapped native coin 3: all terms     *)
(* that differ from sound ones in two heights, or in two other fields.        *)
EXTENDS TermsValidation

MCVenue(c0, c1) ==
  [kind |-> 1, identified |-> TRUE, currency0 |-> c0, currency1 |-> c1, fee |-> 1, hooks |-> 9,
   poolId |-> <<c0, c1, 1, 9>>, quoteAsset |-> 3, minNotional |-> 1]

MCSound ==
  [profile |-> TRUE, required |-> TRUE, entrantCount |-> 2,
   entrants |-> <<1, 2, 0>>, entrantsHash |-> <<1, 2>>,
   venues |-> <<MCVenue(1, 3), MCVenue(0, 2), NoVenue>>,
   startBlock |-> 1, snapshotBlock |-> 3, bettingCutoff |-> 2, confirmationBlocks |-> 1,
   quietBlocks |-> 1, submissionDeadline |-> 5, terminalExpiry |-> 7, historyWindow |-> 4,
   wrappedNative |-> 3, quoteAsset |-> 3, quoteDecimals |-> 18]

MCThree ==
  [MCSound EXCEPT !.entrantCount = 3, !.entrants[3] = 4, !.entrantsHash = <<1, 2, 4>>,
                  !.venues[3] = MCVenue(3, 4)]

HeightFields ==
  {"startBlock", "snapshotBlock", "bettingCutoff", "confirmationBlocks", "quietBlocks",
   "submissionDeadline", "terminalExpiry", "historyWindow"}

OtherHeights(t) == {[t EXCEPT ![f] = n] : f \in HeightFields, n \in 0..7}

Switched(t) ==
  {[t EXCEPT !.profile = FALSE], [t EXCEPT !.required = FALSE], [t EXCEPT !.quoteDecimals = 6],
   [t EXCEPT !.quoteAsset = 4], [t EXCEPT !.wrappedNative = 4]}
    \cup {[t EXCEPT !.entrantCount = n, !.entrantsHash = h] :
            n \in {1, 2, 3, 4}, h \in {<<1>>, <<1, 2>>, <<1, 2, 0>>, <<2, 1>>}}

OtherVenues(v) ==
  {NoVenue, MCVenue(1, 3), MCVenue(2, 3), MCVenue(0, 2), MCVenue(0, 3), MCVenue(3, 1),
   [MCVenue(1, 3) EXCEPT !.fee = 2, !.poolId[3] = 2]}
    \cup {[v EXCEPT !.kind = 2], [v EXCEPT !.identified = FALSE], [v EXCEPT !.hooks = 0],
          [v EXCEPT !.minNotional = 0], [v EXCEPT !.quoteAsset = 4], [v EXCEPT !.poolId = <<0, 2, 1, 9>>],
          [v EXCEPT !.fee = 8, !.poolId[3] = 8], [v EXCEPT !.fee = 2, !.poolId[3] = 2]}

OtherEntrants(t, i, e) ==
  [t EXCEPT !.entrants[i] = e, !.entrantsHash = IF i <= Len(@) THEN [@ EXCEPT ![i] = e] ELSE @]

OtherSlots(t) ==
  {OtherEntrants(t, i, e) : i \in 1..3, e \in {0, 1, 2, 3}}
    \cup UNION {{[t EXCEPT !.venues[i] = v] : v \in OtherVenues(t.venues[i])} : i \in 1..2}
    \cup {[t EXCEPT !.venues[3] = MCVenue(1, 3)]}

OtherFields(t) == Switched(t) \cup OtherSlots(t)

MCTermSet ==
  UNION {OtherHeights(t) : t \in OtherHeights(MCSound)}
    \cup UNION {UNION {OtherFields(u) : u \in OtherFields(t)} : t \in {MCSound, MCThree}}
=============================================================================
