----------------------------- MODULE UntronBytes -----------------------------
(***************************************************************************)
(* The pure functions of the program on bytes and hashes: numbers as they  *)
(* are read from a block (program/src/protobuf.rs) and the root of a list  *)
(* of transactions (program/src/crypto.rs).  SHA-256 is a constructor: a   *)
(* hash is what was hashed, and two hashes are equal when that is.         *)
(***************************************************************************)
EXTENDS Integers, Sequences, FiniteSets, FiniteSetsExt, SequencesExt, TLC

CONSTANTS
  BYTE, VALUE_BYTES,    \* 256 and 8: a value is read from its last 8 bytes
  VARINT_BITS,          \* 7 bits of a number in a byte of a varint
  WORD_BITS             \* bits of a usize: 32 in the zkVM, 64 in the relayer

ASSUME BytesAssumption ==
  /\ BYTE \in Nat \ {0, 1} /\ VALUE_BYTES \in Nat \ {0}
  /\ VARINT_BITS \in Nat \ {0} /\ WORD_BITS \in Nat \ {0}

\* Powers of naturals are naturals: the provers have no rules for ^, TLC computes
\* these.
ASSUME PowersAssumption ==
  /\ \A q \in 0..WORD_BITS - 1 : 2^q \in Nat
  /\ \A i \in 0..VALUE_BYTES - 1 : BYTE^i \in Nat \ {0}

Bits(n) == {p \in 0..n : (n \div 2^p) % 2 = 1}

\* Where bit p of a number ends up: the shift of its byte wraps at the word.
PlaceOf(p) ==
  (p % VARINT_BITS) + ((p - (p % VARINT_BITS)) % WORD_BITS)

\* The number that is read from the varint of n; bits past the word are lost.
read_varint(n) ==
  SumFunction([q \in {PlaceOf(p) : p \in Bits(n)} \cap 0..WORD_BITS - 1 |-> 2^q])

\* The last VALUE_BYTES bytes of a big-endian number, read as little-endian.
from_le_bytes(n) ==
  SumFunction([i \in 0..VALUE_BYTES - 1 |->
                 ((n \div BYTE^i) % BYTE) * BYTE^(VALUE_BYTES - 1 - i)])

hash(data) == [sha256 |-> data]

\* Two hashes one after the other are hashed as they are, like any data of 64 bytes.
combine_hashes(l, r) == hash([left |-> l, right |-> r])

next_level_Doubles(level) ==
  IF Len(level) = 1 THEN level
  ELSE [i \in 1..(Len(level) + 1) \div 2 |->
          combine_hashes(level[2 * i - 1], (level \o <<Last(level)>>)[2 * i])]

\* Pairs are combined; the last of an odd number goes up as it is.
next_level(level) ==
  [i \in 1..(Len(level) + 1) \div 2 |->
     IF 2 * i <= Len(level) THEN combine_hashes(level[2 * i - 1], level[2 * i])
                            ELSE level[2 * i - 1]]

ZeroHash == [zeros |-> 32]

\* A level of one node is its own next level, so one round per leaf is enough.
create_merkle_tree(leaves) ==
  IF leaves = <<>> THEN ZeroHash
  ELSE FoldLeft(LAMBDA level, leaf : next_level(level), leaves, leaves)[1]
=============================================================================
