----------------------------- MODULE FrameFile -----------------------------
(***************************************************************************)
(* Chunk files and block frames as bytes: encodeFrameFile, decodeFrameFile,*)
(* encodeBlockFrame and decodeBlockFrame of packages/volume-proof/src/     *)
(* chunk-frame.ts, and read_frame, encode_block and decode_block of        *)
(* prover/volume-sp1/chunk/src/framing.rs.  A file is frames, a block      *)
(* frame a header, a count and nodes; each part is preceded by its length. *)
(***************************************************************************)
EXTENDS Integers, Sequences, SequencesExt, FiniteSets

CONSTANTS
  Base,        \* values of a byte
  LengthBytes, \* bytes of a length: 8
  HashOf(_),   \* keccak of a node, as a number
  Inputs       \* the byte sequences that may be read

VARIABLES
  want,     \* "file" or "block": what the bytes are read as
  bytes,
  pos,      \* bytes consumed
  got,      \* the parts read: frames, or the header and the nodes
  count,    \* nodes announced, or Unknown
  outcome

vars == <<want, bytes, pos, got, count, outcome>>

Unknown == -1

Init ==
  /\ want \in {"file", "block"} /\ bytes \in Inputs
  /\ pos = 0 /\ got = <<>> /\ count = Unknown /\ outcome = "reading"

\* u64be and its inverse.
U64be(n) == [i \in 1..LengthBytes |-> (n \div Base^(LengthBytes - i)) % Base]
NumberAt(p) == FoldLeft(LAMBDA n, b : n * Base + b, 0, SubSeq(bytes, p + 1, p + LengthBytes))

\* Encoding.
Blob(part) == U64be(Len(part)) \o part
EncodeFrameFile(frames) == FlattenSeq([i \in DOMAIN frames |-> Blob(frames[i])])

\* The nodes, a set because a duplicate fails, in the order of their hashes.
EncodeBlockFrame(header, nodes) ==
  LET ordered == SetToSortSeq(nodes, LAMBDA a, b : HashOf(a) < HashOf(b))
  IN  Blob(header) \o U64be(Cardinality(nodes)) \o EncodeFrameFile(ordered)

-----------------------------------------------------------------------------
Remaining == Len(bytes) - pos

Refuse == outcome' = "refused" /\ UNCHANGED <<want, bytes, pos, got, count>>
Accept == outcome' = "accepted" /\ UNCHANGED <<want, bytes, pos, got, count>>

Truncated == Remaining < LengthBytes \/ NumberAt(pos) > Remaining - LengthBytes

ReadPart ==
  LET from == pos + LengthBytes
      end  == from + NumberAt(pos)
  IN  got' = Append(got, SubSeq(bytes, from + 1, end)) /\ pos' = end

\* decodeFrameFile: frames up to the exact end.
ReadFrame ==
  /\ outcome = "reading" /\ want = "file"
  /\ IF Remaining = 0 THEN Accept
     ELSE IF Truncated THEN Refuse
     ELSE ReadPart /\ UNCHANGED <<want, bytes, count, outcome>>

ReadHeader ==
  /\ outcome = "reading" /\ want = "block" /\ got = <<>>
  /\ IF Truncated THEN Refuse ELSE ReadPart /\ UNCHANGED <<want, bytes, count, outcome>>

\* Every node needs at least its length.
CountError(n, left) == n > left \div LengthBytes

ReadCount ==
  /\ outcome = "reading" /\ want = "block" /\ Len(got) = 1 /\ count = Unknown
  /\ IF Remaining < LengthBytes THEN Refuse
     ELSE IF CountError(NumberAt(pos), Remaining - LengthBytes) THEN Refuse
     ELSE count' = NumberAt(pos) /\ pos' = pos + LengthBytes /\ UNCHANGED <<want, bytes, got, outcome>>

\* Mutant: equal hashes pass.
DisorderLax(previous, node) == HashOf(node) < HashOf(previous)

Disorder(previous, node) == HashOf(node) <= HashOf(previous)

Nodes == Len(got) - 1

ReadNode ==
  /\ outcome = "reading" /\ count # Unknown /\ Nodes < count
  /\ IF Truncated THEN Refuse
     ELSE LET node == SubSeq(bytes, pos + LengthBytes + 1, pos + LengthBytes + NumberAt(pos))
          IN  IF Nodes > 0 /\ Disorder(Last(got), node) THEN Refuse
              ELSE ReadPart /\ UNCHANGED <<want, bytes, count, outcome>>

FinishBlock ==
  /\ outcome = "reading" /\ count # Unknown /\ Nodes = count
  /\ IF Remaining = 0 THEN Accept ELSE Refuse

Next == ReadFrame \/ ReadHeader \/ ReadCount \/ ReadNode \/ FinishBlock
Spec == Init /\ [][Next]_vars

-----------------------------------------------------------------------------
MaxLength == Base^LengthBytes - 1

IsBlob(b) ==
  \E n \in 0..MaxLength : Len(b) = LengthBytes + n /\ SubSeq(b, 1, LengthBytes) = U64be(n)

\* The bytes are blobs one after another.
IsFrameFile(b) ==
  LET upTo[i \in 0..Len(b)] ==
        i = 0 \/ \E j \in 0..(i - 1) : upTo[j] /\ IsBlob(SubSeq(b, j + 1, i))
  IN  upTo[Len(b)]

\* They are the frame of some header and of nodes among these.
IsBlockFrame(b, nodeSets) ==
  \E i \in LengthBytes..Len(b) :
    /\ IsBlob(SubSeq(b, 1, i))
    /\ \E nodes \in nodeSets : EncodeBlockFrame(SubSeq(b, LengthBytes + 1, i), nodes) = b

\* A decoder accepts exactly the encodings, and what it returns is what was encoded: no two
\* files carry one list of frames, and no two frames one block (the length of each part, the
\* count, the order of the nodes and the end leave no freedom).
ReadsExactlyTheFrames(nodeSets) ==
  /\ outcome = "accepted" =>
       bytes = IF want = "file" THEN EncodeFrameFile(got)
               ELSE EncodeBlockFrame(Head(got), {got[i] : i \in 2..Len(got)})
  /\ outcome = "refused" =>
       IF want = "file" THEN ~IsFrameFile(bytes) ELSE ~IsBlockFrame(bytes, nodeSets)
=============================================================================
