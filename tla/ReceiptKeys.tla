---------------------------- MODULE ReceiptKeys ----------------------------
(***************************************************************************)
(* The key of a receipt in its trie: the canonical RLP encoding of the     *)
(* transaction index, as nibbles (receipt_key of                           *)
(* prover/volume-sp1/trie/src/lib.rs), and the path the walk collects and  *)
(* decodes back to an index (KeyPath of trie/src/receipts.rs).             *)
(*                                                                         *)
(* A byte has Radix * Radix values and an index ValueBytes bytes; the code *)
(* has Radix = 16 and ValueBytes = 8.                                      *)
(***************************************************************************)
EXTENDS Integers, Sequences

CONSTANTS Radix, ValueBytes

\* Radix to the nth.
Power[n \in Nat] == IF n = 0 THEN 1 ELSE Radix * Power[n - 1]

ByteBase  == Radix * Radix
Half      == ByteBase \div 2             \* 0x80
IndexMax  == Power[2 * ValueBytes] - 1   \* u64::MAX
KeyWidth  == 2 * (1 + ValueBytes)        \* KeyPath's 18 nibbles

\* A length byte must fit; assumed where the module is instantiated.
ScaleAssumption ==
  /\ Radix \in Nat /\ Radix > 1 /\ ValueBytes \in Nat \ {0}
  /\ Half + ValueBytes < ByteBase

\* The low bytes of a number, most significant first, as nibbles.
Digits(i, bytes) ==
  [j \in 1..(2 * bytes) |-> (i \div Power[2 * bytes - j]) % Radix]

\* The length of the minimal big-endian encoding of a positive number.
BytesOf(i) ==
  CHOOSE b \in 1..ValueBytes : Power[2 * (b - 1)] <= i /\ i < Power[2 * b]

KeyOf(i) ==
  IF i = 0 THEN Digits(Half, 1)
  ELSE IF i < Half THEN Digits(i, 1)
  ELSE Digits(Half + BytesOf(i), 1) \o Digits(i, BytesOf(i))

KeyTable == [i \in 0..IndexMax |-> KeyOf(i)]

(***************************************************************************)
(* KeyPath: nibbles are pushed one at a time; index() then reads them as   *)
(* one RLP string and demands that it be the canonical key of its value.   *)
(***************************************************************************)
VARIABLES keyPath, keyRead   \* keyRead: the index that was read, or one of these
keyVars == <<keyPath, keyRead>>

Unread == -1
Unsupported == -2
NoKey == -3

KeyInit == keyPath = <<>> /\ keyRead = Unread

PushNibble(nibble) ==
  /\ keyRead = Unread /\ Len(keyPath) < KeyWidth
  /\ keyPath' = Append(keyPath, nibble)
  /\ UNCHANGED keyRead

TooWide ==
  /\ keyRead = Unread /\ Len(keyPath) = KeyWidth
  /\ keyRead' = Unsupported
  /\ UNCHANGED keyPath

ByteAt(p, j) == p[2 * j - 1] * Radix + p[2 * j]

\* The value bytes of a path read as an RLP string: below Half the byte is its
\* own value, then a length byte; no other prefix fits in a path of KeyWidth.
Payload(p) ==
  LET n == Len(p) \div 2
  IN  IF n = 1 /\ ByteAt(p, 1) < Half THEN <<ByteAt(p, 1)>>
      ELSE [j \in 1..(n - 1) |-> ByteAt(p, j + 1)]

IsString(p) ==
  /\ p # <<>> /\ Len(p) % 2 = 0
  /\ LET n == Len(p) \div 2
     IN  \/ n = 1 /\ ByteAt(p, 1) < Half
         \/ /\ ByteAt(p, 1) = Half + (n - 1)
            /\ n = 2 => ByteAt(p, 2) >= Half

\* Mutant: leading zero bytes are accepted.
MinimalAlways(bytes) == TRUE

Minimal(bytes) == bytes # <<>> => bytes[1] # 0

BigEndian(bytes) ==
  LET n == Len(bytes)
      sum[j \in 0..n] == IF j = 0 THEN 0 ELSE sum[j - 1] * ByteBase + bytes[j]
  IN  sum[n]

ReadKey ==
  /\ keyRead = Unread
  /\ keyRead' = IF IsString(keyPath) /\ Minimal(Payload(keyPath))
                THEN BigEndian(Payload(keyPath)) ELSE NoKey
  /\ UNCHANGED keyPath

KeyNext == (\E c \in 0..(Radix - 1) : PushNibble(c)) \/ TooWide \/ ReadKey
KeySpec == KeyInit /\ [][KeyNext]_keyVars

-----------------------------------------------------------------------------
\* What is read is an index, and its canonical key is the path, so the comparison index()
\* makes with the key of the value it read never fails on its own; what is refused, or is
\* too wide to be collected, is no key.
ReadsExactlyTheKeys ==
  /\ keyRead >= 0 => keyRead \in 0..IndexMax /\ KeyTable[keyRead] = keyPath
  /\ keyRead = NoKey => \A i \in 0..IndexMax : KeyTable[i] # keyPath
  /\ keyRead = Unsupported => \A i \in 0..IndexMax : Len(KeyTable[i]) <= Len(keyPath)
=============================================================================
