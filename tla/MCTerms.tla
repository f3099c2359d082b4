------------------------------ MODULE MCTerms ------------------------------
(* What becomes of the published terms: one of five machines runs, the others *)
(* rest at fixed states.  Validation as in MCTermsValidation.                 *)
(*   abi: two slots (the code: 8), words of four bytes of two bits (32 of     *)
(*     eight), addresses and u64s of three, u24s of two; every file that      *)
(*     differs from a sound one in one word, or in its length or form.        *)
(*   frames: every sequence of at most ten bits, lengths of two bits.         *)
(*   header: bytes of 12 values, of which 2 stand for themselves, short strings *)
(*     of at most 2; lists of at most four bytes, answers of a node with any    *)
(*     field changed, and header encodings with one byte changed, lost or added.*)
(*   hash: pairs of values whose strings hold the characters JSON escapes,    *)
(*     and one wider than a byte.                                             *)
EXTENDS MCTermsValidation, SequencesExt, FiniteSets

VARIABLES
  machine,
  reader, file, read, abiOutcome,
  want, bytes, pos, got, count, frameOutcome,
  task, block, encoded, rest, parts, headerOutcome,
  pair, hashed

abiVars == <<reader, file, read, abiOutcome>>
frameVars == <<want, bytes, pos, got, count, frameOutcome>>
headerVars == <<task, block, encoded, rest, parts, headerOutcome>>
hashVars == <<pair, hashed>>
allVars == <<machine, termsVars, abiVars, frameVars, headerVars, hashVars>>

-----------------------------------------------------------------------------
MCBase == 4

\* The fields of ReadOrder: 3 + 1 + 3 + 1 + 2 + 2 + 1 + 24 + 7 + 14.
MCFields == 58

Zero == <<0, 0, 0, 0>>
Least == <<3, 3, 2, 0>>
BaseFile == [i \in 1..MCFields |-> Zero]

OtherWords ==
  {<<0, 0, 0, 3>>, <<0, 0, 3, 0>>, <<0, 0, 3, 3>>, <<0, 3, 0, 0>>, <<3, 0, 0, 0>>, <<0, 3, 3, 3>>,
   <<3, 3, 3, 3>>, Least, <<0, 3, 2, 0>>, <<3, 0, 2, 0>>, <<0, 0, 2, 0>>, <<3, 3, 1, 3>>, <<0, 0, 1, 3>>}

MCFiles ==
  {[form |-> f, words |-> BaseFile] : f \in {"raw", "hex", "other"}}
    \cup {[form |-> "raw", words |-> [BaseFile EXCEPT ![i] = w]] : i \in 1..MCFields, w \in OtherWords}
    \cup {[form |-> "raw", words |-> Front(BaseFile)], [form |-> "hex", words |-> Append(BaseFile, Zero)]}

A == INSTANCE TermsAbi WITH
       Slots <- 2, Base <- MCBase, WordBytes <- 4, AddressBytes <- 3, U64Bytes <- 3,
       U24Bytes <- 2, MaxSafe <- 40, Files <- MCFiles, outcome <- abiOutcome

-----------------------------------------------------------------------------
BitsUpTo(n) == UNION {[1..m -> {0, 1}] : m \in 0..n}
MCInputs == BitsUpTo(10)

\* Distinct for the nodes of at most three bits, in an order that is not that of the bits.
MCHash(node) == (FoldLeft(LAMBDA n, b : 2 * n + b, 1, node) * 7) % 17

NodeSets == {{}} \cup {{m, n} : m, n \in BitsUpTo(3)}

F == INSTANCE FrameFile WITH
       Base <- 2, LengthBytes <- 2, HashOf <- MCHash, Inputs <- MCInputs, outcome <- frameOutcome

-----------------------------------------------------------------------------
\* Hashes of two bytes, a bloom of three.
AnyHash == <<3, 1>>
MCAnswer ==
  [i \in 1..16 |-> CASE i \in {1, 2, 4, 5, 6, 14} -> AnyHash [] i \in {3, 15} -> <<1>>
                     [] i = 7 -> <<0, 0, 7>> [] i = 9 -> <<5>> [] i \in {10, 11} -> <<2>>
                     [] i = 13 -> <<4, 0>> [] OTHER -> <<0>>]
OtherAnswers == {<<>>, <<0>>, <<1>>, <<3>>, <<5>>, <<0, 1>>, <<0, 3>>, <<3, 0>>, <<0, 0, 11>>, <<1, 2, 3>>}
MCBlocks == {[MCAnswer EXCEPT ![i] = s] : i \in 1..16, s \in OtherAnswers}
NoBlock == <<>>

Bytes == 0..11
BytesUpTo(n) == UNION {[1..m -> Bytes] : m \in 0..n}
MCLists ==
  BytesUpTo(3) \cup {<<10, n>> \o s : n \in 2..4, s \in BytesUpTo(3)}
    \cup {<<11, n, m>> \o s : n \in {0, 1}, m \in {0, 3}, s \in [1..3 -> {0, 3}]}
    \cup {<<10, 5, n, 3>> \o s : n \in {5, 10}, s \in [1..3 -> {0, 4}]}
Without(s, i) == SubSeq(s, 1, i - 1) \o SubSeq(s, i + 1, Len(s))
Edits(s) ==
  {[s EXCEPT ![i] = v] : i \in DOMAIN s, v \in Bytes} \cup {Without(s, i) : i \in DOMAIN s}
    \cup {SubSeq(s, 1, i) \o <<v>> \o SubSeq(s, i + 1, Len(s)) : i \in 0..Len(s), v \in {0, 1, 3, 7}}

\* The encoding of MCAnswer: 37 bytes in a list whose length takes two.
MCHeader ==
  <<11, 3, 1, 4, 3, 1, 4, 3, 1, 1, 4, 3, 1, 4, 3, 1, 4, 3, 1, 5, 3, 0, 0, 7, 2, 3, 5, 3, 2, 3, 2, 2,
    4, 4, 0, 4, 3, 1, 1, 2>>

\* A field too many or too few, in a list of the right length.
Refitted == {<<11, 3, 1 + Len(x)>> \o SubSeq(MCHeader, 4, 40) \o x : x \in {<<1>>, <<2>>, <<7>>, <<3, 4>>}}
              \cup {<<11, 3, 0>> \o SubSeq(MCHeader, 4, 39)}

R == INSTANCE HeaderRlp WITH
       Single <- 2, ShortMax <- 2, LengthBytes <- 2, HashBytes <- 2, AddressBytes <- 1,
       BloomBytes <- 3, NonceBytes <- 1, U64Bytes <- 1, U256Bytes <- 2,
       Inputs <- MCLists \cup Edits(MCHeader) \cup Refitted, Blocks <- MCBlocks,
       want <- task, bytes <- encoded, outcome <- headerOutcome

ASSUME HeaderAssumption == MCHeader = R!EncodeHeader(MCAnswer)

-----------------------------------------------------------------------------
H == INSTANCE TermsHash

Strings ==
  {<<>>, <<97>>, <<98>>, <<97, 98>>, <<10>>, <<31>>, <<34>>, <<92>>, <<92, 34>>, <<34, 44, 34>>,
   <<92, 117, 48, 48, 48, 97>>, <<110, 117, 108, 108>>, <<49>>, <<353>>}
Scalars ==
  {[is |-> "null"], [is |-> "boolean", boolean |-> TRUE], [is |-> "boolean", boolean |-> FALSE]}
    \cup {[is |-> "number", number |-> n] : n \in {-10, -1, 0, 1, 10, 11}}
    \cup {[is |-> "string", string |-> s] : s \in Strings}
OfArray(items) == [is |-> "array", items |-> items]
OfObject(members) == [is |-> "object", members |-> members]
Some == {[is |-> "null"], [is |-> "number", number |-> 1], [is |-> "string", string |-> <<97>>]}
Member(k, v) == [key |-> k, value |-> v]
Objects ==
  {OfObject(<<>>)} \cup {OfObject(<<Member(k, v)>>) : k \in Strings, v \in Some}
    \cup {OfObject(<<Member(k, v), Member(l, w)>>) :
            <<k, l>> \in {<<<<97>>, <<98>>>>, <<<<98>>, <<97>>>>, <<<<97>>, <<97, 98>>>>,
                        <<<<97, 98>>, <<97>>>>},
            v, w \in Some}
Arrays ==
  {OfArray(<<>>)} \cup {OfArray(<<v>>) : v \in Scalars} \cup {OfArray(<<v, w>>) : v, w \in Some}
    \cup {OfArray(<<OfArray(<<v>>), w>>) : v, w \in Some}
    \cup {OfArray(<<OfArray(<<v, w>>)>>) : v, w \in Some}
MCValues == Scalars \cup Objects \cup Arrays

Hash == hashed = <<>> /\ hashed' = <<H!HashedBytes(pair[1]), H!HashedBytes(pair[2])>> /\ UNCHANGED pair

-----------------------------------------------------------------------------
IdleTerms == terms = MCSound /\ slot = [v \in Validator |-> 0] /\ verdict = [v \in Validator |-> "none"]
IdleAbi == reader = "cli" /\ file = [form |-> "raw", words |-> <<>>] /\ read = <<>> /\ abiOutcome = "idle"
IdleFrame ==
  want = "file" /\ bytes = <<>> /\ pos = 0 /\ got = <<>> /\ count = -1 /\ frameOutcome = "idle"
IdleHeader ==
  task = "list" /\ block = NoBlock /\ encoded = <<>> /\ rest = <<>> /\ parts = <<>> /\ headerOutcome = "idle"
IdleHash == pair = <<>> /\ hashed = <<>>

MCInit ==
  \/ machine = "validate" /\ ValidateInit /\ IdleAbi /\ IdleFrame /\ IdleHeader /\ IdleHash
  \/ machine = "abi" /\ A!Init /\ IdleTerms /\ IdleFrame /\ IdleHeader /\ IdleHash
  \/ machine = "frames" /\ F!Init /\ IdleTerms /\ IdleAbi /\ IdleHeader /\ IdleHash
  \/ machine = "header" /\ R!Init /\ IdleTerms /\ IdleAbi /\ IdleFrame /\ IdleHash
  \/ machine = "hash" /\ pair \in MCValues \X MCValues /\ hashed = <<>>
     /\ IdleTerms /\ IdleAbi /\ IdleFrame /\ IdleHeader

MCNext ==
  /\ UNCHANGED machine
  /\ \/ machine = "validate" /\ Validate /\ UNCHANGED <<abiVars, frameVars, headerVars, hashVars>>
     \/ machine = "abi" /\ A!Next /\ UNCHANGED <<termsVars, frameVars, headerVars, hashVars>>
     \/ machine = "frames" /\ F!Next /\ UNCHANGED <<termsVars, abiVars, headerVars, hashVars>>
     \/ machine = "header" /\ R!Next /\ UNCHANGED <<termsVars, abiVars, frameVars, hashVars>>
     \/ machine = "hash" /\ Hash /\ UNCHANGED <<termsVars, abiVars, frameVars, headerVars>>

MCSpec == MCInit /\ [][MCNext]_allVars

-----------------------------------------------------------------------------
\* TermsAbi: the words of the terms, by both readers.  HeaderRlp: the items of a list and
\* the fields of a header.
ReadsExactlyTheEncodings ==
  /\ machine = "abi" => A!ReadsExactlyTheEncodings
  /\ machine = "header" => R!ReadsExactlyTheHeaders

\* FrameFile: chunk files and block frames.
ReadsExactlyTheFrames == machine = "frames" => F!ReadsExactlyTheFrames(NodeSets)

\* TermsHash: pairs of values.
HashTellsTermsApart == machine = "hash" => H!HashTellsTermsApart(pair[1], pair[2])

\* "termsHash is the keccak256 of the RFC 8785 (JCS) canonical JSON encoding" (schema.ts:28-29,
\* and of termsHashOf, 460): what is hashed of two values is the same only if their canonical
\* JSON is.
HashIsOfTheJson ==
  hashed # <<>> /\ hashed[1] = hashed[2] =>
    H!CanonicalJson(pair[1]) = H!CanonicalJson(pair[2])
=============================================================================
