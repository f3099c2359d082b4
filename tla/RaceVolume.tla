----------------------------- MODULE RaceVolume -----------------------------
(***************************************************************************)
(* What the prover's guest promises to whoever reads its public values:    *)
(* at most one journal, and the journal is the volume of a segment of the  *)
(* chain under the race's terms, in words of 256 bits.  There are no       *)
(* frames, tries, receipts in progress or errors here; publishing nothing  *)
(* is always allowed.                                                      *)
(* It is the contract of evaluate_frames (prover/volume-sp1/chunk/src/     *)
(* lib.rs) and of the public values of guest/src/main.rs.                  *)
(***************************************************************************)
EXTENDS VolumeTerms

VARIABLE journal

\* The context a journal can carry: a covered slot, named parties, a range in the race.
Names(x) ==
  /\ x.mask # {} /\ x.mask \subseteq Active
  /\ x.beneficiary # ZeroAddress
  /\ ZeroHash \notin {x.before, x.end}
  /\ StartBlock <= x.from /\ x.from < x.to /\ x.to <= SnapshotBlock

NoJournal == [context |-> "none"]

Init == journal = NoJournal

\* The journal published is about one segment, and exact for it.
Publish ==
  /\ journal = NoJournal /\ journal' # NoJournal
  /\ Names(journal'.context)
  /\ \E s \in Segments(journal'.context) :
       LET x == journal'.context
           places == Places(s, DOMAIN s)
       IN  journal' = [context     |-> x,
                       volumeQuote |-> [i \in Slot |-> SwapVolume(x.mask, i, s, places)],
                       swapCount   |-> [i \in Slot |-> SwapCount(x.mask, i, s, places)]]
  /\ \A i \in Slot : journal'.volumeQuote[i] <= MaxU256 /\ journal'.swapCount[i] <= MaxU256

Spec == Init /\ [][Publish]_journal
=============================================================================
