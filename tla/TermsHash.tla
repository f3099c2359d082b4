----------------------------- MODULE TermsHash -----------------------------
(***************************************************************************)
(* canonicalJson, jsonQuote and termsHashOf of                             *)
(* packages/volume-proof/src/schema.ts: the bytes the hash of the published*)
(* terms is taken of.  A string is the sequence of its UTF-16 code units,  *)
(* a value is a record whose `is` names its type, and an object lists its  *)
(* members in the order they were inserted.  No state.  (Doubles that are  *)
(* no integers, and undefined, make canonicalJson throw; the terms have    *)
(* neither.)                                                               *)
(***************************************************************************)
EXTENDS Integers, Sequences, SequencesExt, FiniteSetsExt

Quote == 34 \* the quotation mark
Slash == 92 \* the backslash
Digit(n) == 48 + n
Hex(n) == IF n < 10 THEN Digit(n) ELSE 87 + n

\* Mutant: the backslash stands for itself.
EscapedOnlyQuotes(code) ==
  IF code = Quote THEN <<Slash, Quote>>
  ELSE IF code < 32 THEN <<Slash, 117, 48, 48, Hex(code \div 16), Hex(code % 16)>>
  ELSE <<code>>

Escaped(code) ==
  IF code \in {Quote, Slash} THEN <<Slash, code>>
  ELSE IF code < 32 THEN <<Slash, 117, 48, 48, Hex(code \div 16), Hex(code % 16)>>
  ELSE <<code>>

JsonQuote(string) ==
  <<Quote>> \o FlattenSeq([i \in DOMAIN string |-> Escaped(string[i])]) \o <<Quote>>

\* The order of Array.prototype.sort: by code units, a prefix first.
Before(a, b) ==
  \E i \in 0..Len(a) :
    /\ i < Len(b) /\ SubSeq(a, 1, i) = SubSeq(b, 1, i)
    /\ i = Len(a) \/ (i < Len(a) /\ a[i + 1] < b[i + 1])

SortedMembers(members) == SortSeq(members, LAMBDA m, n : Before(m.key, n.key))

Join(open, parts, close) ==
  <<open>> \o FlattenSeq([i \in DOMAIN parts |-> IF i = 1 THEN parts[i] ELSE <<44>> \o parts[i]])
    \o <<close>>

RECURSIVE Decimal(_), CanonicalJson(_)
Decimal(n) ==
  IF n < 0 THEN <<45>> \o Decimal(-n)
  ELSE IF n < 10 THEN <<Digit(n)>> ELSE Append(Decimal(n \div 10), Digit(n % 10))

CanonicalJson(v) ==
  CASE v.is = "null" -> <<110, 117, 108, 108>>
    [] v.is = "boolean" -> IF v.boolean THEN <<116, 114, 117, 101>> ELSE <<102, 97, 108, 115, 101>>
    [] v.is = "number" -> Decimal(v.number)
    [] v.is = "string" -> JsonQuote(v.string)
    [] v.is = "array" ->
         Join(91, [i \in DOMAIN v.items |-> CanonicalJson(v.items[i])], 93)
    [] v.is = "object" ->
         LET sorted == SortedMembers(v.members)
         IN  Join(123, [i \in DOMAIN sorted |->
                          JsonQuote(sorted[i].key) \o <<58>> \o CanonicalJson(sorted[i].value)], 125)

\* What termsHashOf hashes: the low byte of each character (none here is above 16 bits).
HashedBytes(v) == LET json == CanonicalJson(v) IN [i \in DOMAIN json |-> json[i] % 256]

-----------------------------------------------------------------------------
\* The value without the order of insertion.
RECURSIVE Unordered(_), Narrow(_)
Unordered(v) ==
  CASE v.is = "array" -> [v EXCEPT !.items = [i \in DOMAIN @ |-> Unordered(@[i])]]
    [] v.is = "object" ->
         [v EXCEPT !.members = {[@[i] EXCEPT !.value = Unordered(@)] : i \in DOMAIN @}]
    [] OTHER -> v

\* Every code unit of its strings fits a byte.
Narrow(v) ==
  CASE v.is = "string" -> \A i \in DOMAIN v.string : v.string[i] < 256
    [] v.is = "array" -> \A i \in DOMAIN v.items : Narrow(v.items[i])
    [] v.is = "object" ->
         \A i \in DOMAIN v.members :
           Narrow(v.members[i].value) /\ \A j \in DOMAIN v.members[i].key : v.members[i].key[j] < 256
    [] OTHER -> TRUE

\* Two terms have one hash exactly when they are one value, whatever the order their members
\* were written in: quoting, separators and the sorted keys leave no other reading.  Only for
\* strings of Latin-1, a wider character being cut to a byte (schema.ts:462): what that does
\* is HashIsOfTheJson's.
HashTellsTermsApart(v, w) ==
  Narrow(v) /\ Narrow(w) => (HashedBytes(v) = HashedBytes(w) <=> Unordered(v) = Unordered(w))
=============================================================================
