------------------------------ MODULE TermsAbi ------------------------------
(***************************************************************************)
(* The static ABI of a race's terms, one word after another: decodeTermsAbi*)
(* and encodeTermsAbi of packages/volume-proof/src/chunk-frame.ts ("cli"), *)
(* abi_decode and abi_encode of prover/volume-sp1/core/src/terms.rs with   *)
(* the words of core/src/abi.rs ("core").  The CLI decodes the user's file *)
(* and encodes it again for the guest, which decodes it once more; the     *)
(* hash of the terms is taken of the words.                                *)
(*                                                                         *)
(* What the fields must satisfy is TermsValidation; both sides check it    *)
(* before they encode and after they decode.                               *)
(***************************************************************************)
EXTENDS Integers, Sequences, SequencesExt

CONSTANTS
  Slots,      \* MAX_ENTRANTS: 8
  Base,       \* values of a byte: 256, an even number
  WordBytes, AddressBytes, U64Bytes, U24Bytes,  \* 32, 20, 8 and 3
  MaxSafe,    \* Number.MAX_SAFE_INTEGER
  Files       \* what may be read: [form, words]

VARIABLES
  reader,     \* "cli" or "core"
  file,
  read,       \* the values read so far
  outcome     \* "start", "reading", "read" or "refused"

vars == <<reader, file, read, outcome>>

Init == reader \in {"cli", "core"} /\ file \in Files /\ read = <<>> /\ outcome = "start"

(***************************************************************************)
(* The order of the fields, as each direction lists it.                    *)
(***************************************************************************)
Each(kind, names) == [i \in DOMAIN names |-> [name |-> names[i], kind |-> kind, slot |-> 0]]
PerSlot(fields) ==
  FlattenSeq([s \in 1..Slots |-> [i \in DOMAIN fields |-> [fields[i] EXCEPT !.slot = s]]])

VenueRead ==
  Each("u8", <<"kind">>) \o Each("address", <<"account">>) \o Each("hash", <<"accountCodeHash">>)
    \o Each("address", <<"currency0", "currency1">>) \o Each("u24", <<"fee">>)
    \o Each("i24", <<"tickSpacing">>) \o Each("address", <<"hooks">>)
    \o Each("hash", <<"hookCodeHash", "poolId">>) \o Each("address", <<"venueQuoteAsset">>)
    \o Each("u256", <<"minNotional">>)

ReadOrder ==
  Each("hash", <<"domain", "rulesHash", "proofMethodId">>) \o Each("u64", <<"chainId">>)
    \o Each("address", <<"controller", "adapter", "pool">>) \o Each("u256", <<"raceId">>)
    \o Each("u8", <<"headerFormat", "entrantCount">>) \o PerSlot(Each("address", <<"entrant">>))
    \o Each("hash", <<"entrantsHash">>) \o PerSlot(VenueRead)
    \o Each("u64", <<"startBlock", "snapshotBlock", "bettingCutoff", "confirmationBlocks",
                     "quietBlocks", "submissionDeadline", "terminalExpiry">>)
    \o Each("address", <<"history">>) \o Each("hash", <<"historyCodeHash">>)
    \o Each("u64", <<"historyWindow">>) \o Each("address", <<"wrappedNative">>)
    \o Each("hash", <<"wrappedNativeCodeHash">>) \o Each("address", <<"quoteAsset">>)
    \o Each("u8", <<"quoteDecimals">>) \o Each("address", <<"collateral">>)
    \o Each("u8", <<"collateralDecimals">>) \o Each("hash", <<"economicPolicyHash", "proofSuiteHash">>)
    \o Each("address", <<"sp1Verifier">>) \o Each("hash", <<"sp1VerifierCodeHash", "circuitIdentity">>)

\* Names only: the kind a field is written as is that of the value's type.
VenueWords ==
  <<"kind", "account", "accountCodeHash", "currency0", "currency1", "fee", "tickSpacing",
    "hooks", "hookCodeHash", "poolId", "venueQuoteAsset", "minNotional">>

Named(names) == [i \in DOMAIN names |-> [name |-> names[i], slot |-> 0]]

WriteOrder ==
  Named(<<"domain", "rulesHash", "proofMethodId", "chainId", "controller", "adapter", "pool",
          "raceId", "headerFormat", "entrantCount">>)
    \o PerSlot(Named(<<"entrant">>)) \o Named(<<"entrantsHash">>) \o PerSlot(Named(VenueWords))
    \o Named(<<"startBlock", "snapshotBlock", "bettingCutoff", "confirmationBlocks", "quietBlocks",
               "submissionDeadline", "terminalExpiry", "history", "historyCodeHash",
               "historyWindow", "wrappedNative", "wrappedNativeCodeHash", "quoteAsset",
               "quoteDecimals", "collateral", "collateralDecimals", "economicPolicyHash",
               "proofSuiteHash", "sp1Verifier", "sp1VerifierCodeHash", "circuitIdentity">>)

(***************************************************************************)
(* Words.                                                                  *)
(***************************************************************************)
WidthOf(kind) ==
  CASE kind = "u8" -> 1 [] kind \in {"u24", "i24"} -> U24Bytes [] kind = "u64" -> U64Bytes
    [] kind = "address" -> AddressBytes [] OTHER -> WordBytes

Fill(byte, n) == [i \in 1..n |-> byte]
Big(n, bytes) == [i \in 1..bytes |-> (n \div Base^(bytes - i)) % Base]
NumberOf(w) == FoldLeft(LAMBDA n, byte : n * Base + byte, 0, w)
Low(w, n) == SubSeq(w, WordBytes - n + 1, WordBytes)

\* The values a field of a kind may have.  A hash or an address is its bytes.
Values(kind) ==
  CASE kind \in {"hash", "address"} -> [1..WidthOf(kind) -> 0..(Base - 1)]
    [] kind = "i24" -> -(Base^U24Bytes \div 2)..(Base^U24Bytes \div 2 - 1)
    [] OTHER -> 0..(Base^WidthOf(kind) - 1)

\* addressWord, u8Word, u24Word, u64Word, word and i24Word.
Word(kind, v) ==
  CASE kind \in {"hash", "address"} -> Fill(0, WordBytes - WidthOf(kind)) \o v
    [] kind = "i24" ->
         IF v < 0 THEN Fill(Base - 1, WordBytes - U24Bytes) \o Big(v + Base^U24Bytes, U24Bytes)
         ELSE Big(v, WordBytes)
    [] OTHER -> Big(v, WordBytes)

\* Mutant: the sign is not looked at.
ExtensionUnsigned(kind, w) == 0

\* What the bytes above the field's own must be: zeros, or the sign of an int24.
Extension(kind, w) ==
  IF kind = "i24" /\ w[WordBytes - U24Bytes + 1] >= Base \div 2 THEN Base - 1 ELSE 0

NonCanonical(kind, w) ==
  \E i \in 1..(WordBytes - WidthOf(kind)) : w[i] # Extension(kind, w)

ValueOf(kind, w) ==
  LET own == Low(w, WidthOf(kind))
  IN  CASE kind \in {"hash", "address"} -> own
        [] kind = "i24" /\ Extension(kind, w) # 0 -> NumberOf(own) - Base^U24Bytes
        [] OTHER -> NumberOf(own)

-----------------------------------------------------------------------------
Refuse == outcome' = "refused" /\ UNCHANGED <<reader, file, read>>

\* readTermsFile takes raw bytes or hex digits; both sides demand the exact length.
Open ==
  /\ outcome = "start"
  /\ IF file.form = "other" \/ Len(file.words) # Len(ReadOrder) THEN Refuse
     ELSE outcome' = "reading" /\ UNCHANGED <<reader, file, read>>

At == Len(read) + 1

\* The CLI keeps the chain id as a double.
Unsafe(field, w) ==
  reader = "cli" /\ field.name = "chainId" /\ NumberOf(w) > MaxSafe

ReadField ==
  /\ outcome = "reading" /\ At <= Len(ReadOrder)
  /\ LET field == ReadOrder[At]
         w == file.words[At]
     IN  IF NonCanonical(field.kind, w) \/ Unsafe(field, w) THEN Refuse
         ELSE read' = Append(read, ValueOf(field.kind, w)) /\ UNCHANGED <<reader, file, outcome>>

Finish ==
  /\ outcome = "reading" /\ At > Len(ReadOrder)
  /\ outcome' = "read" /\ UNCHANGED <<reader, file, read>>

Next == Open \/ ReadField \/ Finish
Spec == Init /\ [][Next]_vars

-----------------------------------------------------------------------------
PlaceOf(name, slot) ==
  CHOOSE i \in DOMAIN ReadOrder : ReadOrder[i].name = name /\ ReadOrder[i].slot = slot

Encode(values) ==
  [i \in DOMAIN WriteOrder |->
     LET k == PlaceOf(WriteOrder[i].name, WriteOrder[i].slot)
     IN  Word(ReadOrder[k].kind, values[k])]

IsWord(kind, w) == \E v \in Values(kind) : Word(kind, v) = w

\* A side reads exactly the words an encoder can write, and what it has read encodes to
\* the same words again: the guest gets the file the user named and the hash of the terms
\* is the file's.  Only the CLI refuses more, chain ids that no double holds.
ReadsExactlyTheEncodings ==
  /\ outcome = "read" => Encode(read) = file.words
  /\ outcome \in {"read", "refused"} =>
       (outcome = "read" <=>
          /\ file.form # "other" /\ Len(file.words) = Len(ReadOrder)
          /\ \A i \in DOMAIN ReadOrder :
               /\ IsWord(ReadOrder[i].kind, file.words[i])
               /\ ~Unsafe(ReadOrder[i], file.words[i]))
=============================================================================
