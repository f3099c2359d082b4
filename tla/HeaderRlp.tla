----------------------------- MODULE HeaderRlp -----------------------------
(***************************************************************************)
(* RLP and the header of a block in it: item and parse_nitro_header of     *)
(* prover/volume-sp1/core/src/header.rs, prefix and list of                *)
(* primitives/src/rlp.rs, which read trie nodes and receipts, and the      *)
(* codec of packages/volume-proof/src/nitro-header.ts.  The client encodes *)
(* what its node answers, the guest takes it apart again; what a header    *)
(* hashes to is its bytes, so a second way to write one is a second block. *)
(***************************************************************************)
EXTENDS Integers, Sequences, SequencesExt

CONSTANTS
  Single,      \* bytes below it stand for themselves: 0x80
  ShortMax,    \* the longest string or list with a lead byte alone: 55
  LengthBytes, \* bytes of a length, at most: 8
  HashBytes, AddressBytes, BloomBytes, NonceBytes, U64Bytes, U256Bytes,  \* 32, 20, 256, 8, 8 and 32
  Inputs,      \* the byte sequences that may be read
  Blocks,      \* the answers of a node: a byte string for each field
  NoBlock

VARIABLES
  want,        \* "header", or "list": a list of any items
  block,       \* the answer the bytes were encoded from, or NoBlock
  bytes,
  rest,        \* what is left of the outer list
  parts,       \* the items read: [list, data]
  outcome

vars == <<want, block, bytes, rest, parts, outcome>>

ListLead == Single + ShortMax + 1 + LengthBytes   \* 0xc0
Base     == ListLead + ShortMax + 1 + LengthBytes \* 256

NumberOf(s) == FoldLeft(LAMBDA n, byte : n * Base + byte, 0, s)

Stripped(s) ==
  LET zeros == CHOOSE k \in 0..Len(s) : (\A i \in 1..k : s[i] = 0) /\ (k < Len(s) => s[k + 1] # 0)
  IN  SubSeq(s, zeros + 1, Len(s))

Fixed(n)   == [is |-> "fixed", width |-> n]
Integer(n) == [is |-> "integer", width |-> n]

\* The fields in order; 4 and 1 are stateRoot and parentHash, 9 and 12 number and timestamp,
\* 10 and 11 gasLimit and gasUsed.
Layout ==
  <<Fixed(HashBytes), Fixed(HashBytes), Fixed(AddressBytes), Fixed(HashBytes), Fixed(HashBytes),
    Fixed(HashBytes), Fixed(BloomBytes), Integer(U256Bytes), Integer(U64Bytes), Integer(U64Bytes),
    Integer(U64Bytes), Integer(U64Bytes), [is |-> "any"], Fixed(HashBytes), Fixed(NonceBytes),
    Integer(U256Bytes)>>

(***************************************************************************)
(* Encoding.                                                               *)
(***************************************************************************)
\* toRlp of one string, or of a list whose items are encoded.
Encoding(list, data) ==
  LET lead == IF list THEN ListLead ELSE Single
      length == Stripped([i \in 1..LengthBytes |-> (Len(data) \div Base^(LengthBytes - i)) % Base])
  IN  IF ~list /\ Len(data) = 1 /\ data[1] < Single THEN data
      ELSE IF Len(data) <= ShortMax THEN <<lead + Len(data)>> \o data
      ELSE <<lead + ShortMax + Len(length)>> \o length \o data

EncodeParts(items) ==
  Encoding(TRUE, FlattenSeq([i \in DOMAIN items |-> Encoding(items[i].list, items[i].data)]))

\* The node pads a number as it likes, and 0 is the empty string.
Quantity(s) == Stripped(s)

EncodeHeader(b) ==
  EncodeParts([i \in DOMAIN Layout |->
    [list |-> FALSE, data |-> IF Layout[i].is = "integer" THEN Quantity(b[i]) ELSE b[i]]])

(***************************************************************************)
(* The guest.                                                              *)
(***************************************************************************)
\* Bytes of the length of a long item; not positive for another.
LengthWidth(first) == first - ShortMax - IF first >= ListLead THEN ListLead ELSE Single

\* A length that overflows usize is past the end too.
LongError(input) ==
  LET width == LengthWidth(input[1])
  IN  /\ width > 0
      /\ \/ Len(input) <= width
         \/ input[2] = 0
         \/ NumberOf(SubSeq(input, 2, 1 + width)) <= ShortMax

\* Where the content of the item begins, after how many bytes, and where it ends.
Offset(input) ==
  IF input[1] < Single THEN 0 ELSE IF LengthWidth(input[1]) > 0 THEN 1 + LengthWidth(input[1]) ELSE 1

End(input) ==
  LET first == input[1]
  IN  IF first < Single THEN 1
      ELSE IF LengthWidth(first) > 0 THEN Offset(input) + NumberOf(SubSeq(input, 2, Offset(input)))
      ELSE 1 + first - IF first >= ListLead THEN ListLead ELSE Single

ItemError(input) ==
  \/ input = <<>>
  \/ LongError(input)
  \/ End(input) > Len(input)
  \/ input[1] = Single + 1 /\ input[2] < Single

ItemAt(input) == [list |-> input[1] >= ListLead, data |-> SubSeq(input, Offset(input) + 1, End(input))]

Init ==
  /\ want \in {"header", "list"} /\ outcome = "start"
  /\ \/ block = NoBlock /\ bytes \in Inputs
     \/ block \in Blocks /\ bytes = EncodeHeader(block)
  /\ rest = <<>> /\ parts = <<>>

Conclude(verdict) == outcome' = verdict /\ UNCHANGED <<want, block, bytes, rest, parts>>

\* One list, and nothing after it.
Open ==
  /\ outcome = "start"
  /\ IF ItemError(bytes) THEN Conclude("refused")
     ELSE IF ~ItemAt(bytes).list \/ End(bytes) # Len(bytes) THEN Conclude("refused")
     ELSE rest' = ItemAt(bytes).data /\ outcome' = "reading" /\ UNCHANGED <<want, block, bytes, parts>>

\* The header has 16 strings; a list ends where its bytes do.
MoreParts == IF want = "header" THEN Len(parts) < Len(Layout) ELSE rest # <<>>

ReadPart ==
  /\ outcome = "reading" /\ MoreParts
  /\ IF ItemError(rest) THEN Conclude("refused")
     ELSE IF want = "header" /\ ItemAt(rest).list THEN Conclude("refused")
     ELSE /\ parts' = Append(parts, ItemAt(rest))
          /\ rest' = SubSeq(rest, End(rest) + 1, Len(rest))
          /\ UNCHANGED <<want, block, bytes, outcome>>

\* fixed and integer.
FieldError(field, data) ==
  \/ field.is = "fixed" /\ Len(data) # field.width
  \/ field.is = "integer" /\ (Len(data) > field.width \/ (data # <<>> /\ data[1] = 0))

HeaderError(fields) ==
  \/ \E i \in DOMAIN Layout : FieldError(Layout[i], fields[i].data)
  \/ NumberOf(fields[11].data) > NumberOf(fields[10].data)

Finish ==
  /\ outcome = "reading" /\ ~MoreParts
  /\ Conclude(IF rest # <<>> \/ (want = "header" /\ HeaderError(parts)) THEN "refused" ELSE "accepted")

Next == Open \/ ReadPart \/ Finish
Spec == Init /\ [][Next]_vars

(***************************************************************************)
(* The client's own reader, for the fields a proof needs.  viem gives the  *)
(* items, and encodes them again to see that the bytes are canonical.      *)
(***************************************************************************)
CliError(items, canonical) ==
  \/ ~canonical \/ Len(items) # Len(Layout)
  \/ \E i \in {1, 4, 9, 12} : items[i].list
  \/ \E i \in {1, 4} : Len(items[i].data) # HashBytes
  \/ \E i \in {9, 12} : Len(items[i].data) > U256Bytes

CliReads(items) ==
  [parentHash |-> items[1].data, stateRoot |-> items[4].data,
   blockNumber |-> NumberOf(items[9].data), timestamp |-> NumberOf(items[12].data)]

-----------------------------------------------------------------------------
IsItem(b, list) ==
  \E k \in 0..(1 + LengthBytes) : k <= Len(b) /\ Encoding(list, SubSeq(b, k + 1, Len(b))) = b

\* The content of the outer list, cut into items; there is one way at most.
Cuts ==
  LET content == SubSeq(bytes, Offset(bytes) + 1, Len(bytes))
      part(j, i) == SubSeq(content, j + 1, i)
      cuts[i \in 0..Len(content)] ==
        IF i = 0 THEN {<<>>}
        ELSE UNION {{Append(c, part(j, i)) : c \in cuts[j]} :
                      j \in {j \in 0..(i - 1) : \E l \in BOOLEAN : IsItem(part(j, i), l)}}
  IN  cuts[Len(content)]

\* Widths are those of the layout, numbers without the zeros before them, and the gas used
\* is within the limit.
Sound(b) ==
  /\ \A i \in DOMAIN Layout :
       /\ Layout[i].is = "fixed" => Len(b[i]) = Layout[i].width
       /\ Layout[i].is = "integer" => Len(Stripped(b[i])) <= Layout[i].width
  /\ NumberOf(b[11]) <= NumberOf(b[10])

DataOf(items) == [i \in DOMAIN items |-> items[i].data]
IsHeader(fields) == Len(fields) = Len(Layout) /\ Sound(fields) /\ EncodeHeader(fields) = bytes

\* The guest reads exactly what an encoder writes: the bytes it accepts are those of the
\* items it read, a header those of sound fields, and the other bytes are no such list or no
\* such header.  Of a header it accepts the client can read its own fields; and what the
\* client encoded of an answer with sound fields the guest accepts, however the numbers were
\* padded, and the client reads the numbers of the answer.
ReadsExactlyTheHeaders ==
  /\ outcome = "accepted" => EncodeParts(parts) = bytes
  /\ outcome = "accepted" /\ want = "header" => IsHeader(DataOf(parts)) /\ ~CliError(parts, TRUE)
  /\ outcome = "refused" /\ bytes # <<>> /\ IsItem(bytes, TRUE) =>
       \A c \in Cuts : want = "header" /\ ~IsHeader(DataOf([i \in DOMAIN c |-> ItemAt(c[i])]))
  /\ want = "header" /\ block # NoBlock =>
       /\ outcome = "refused" => ~Sound(block)
       /\ outcome = "accepted" =>
            CliReads(parts) = [parentHash |-> block[1], stateRoot |-> block[4],
                               blockNumber |-> NumberOf(block[9]), timestamp |-> NumberOf(block[12])]
=============================================================================
