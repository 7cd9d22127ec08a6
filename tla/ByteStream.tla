----------------------------- MODULE ByteStream -----------------------------
(***************************************************************************)
(* What the operators << of OBStream write and the operators >> of         *)
(* IBStream read (src/base/stream/bytestream.cpp).  A value is the         *)
(* sequence of its bytes, the most significant first: 1 to 8 bytes for the *)
(* integer types, 8 for a uint64_t on the way.  float, double and the      *)
(* characters of a string are copied as they are.                          *)
(***************************************************************************)
EXTENDS Naturals, Sequences

Byte == 0 .. 255
Width == [bool |-> 1, int8 |-> 1, uint8 |-> 1, int16 |-> 2, uint16 |-> 2,
          int32 |-> 4, uint32 |-> 4, int64 |-> 8, uint64 |-> 8]
Signed == {"int8", "int16", "int32", "int64"}
RawWidth == [float |-> 4, double |-> 8]

Filled(n, byte) == [i \in 1 .. n |-> byte]
LastOf(s, n) == SubSeq(s, Len(s) - n + 1, Len(s))
Slice(s, offset, n) ==
  SubSeq(s, offset + 1, IF offset + n <= Len(s) THEN offset + n ELSE Len(s))

(* v <= w of two values of 8 bytes *)
AtMost(v, w) ==
  \/ v = w
  \/ \E i \in 1 .. 8 : v[i] < w[i] /\ \A j \in 1 .. i - 1 : v[j] = w[j]

-----------------------------------------------------------------------------
(* Integers of variable length: the ones at the top of the first byte      *)
(* count the bytes that follow, the other bits begin the value.            *)

(* BOUND_OF_k_BYTES of write_integer: 7 * k ones, of which these are in    *)
(* the first of the k bytes.                                               *)
WriteTop == <<127, 63, 31, 15, 7, 3, 1, 0>>
WriteBound(k) ==
  [i \in 1 .. 8 |-> IF i < 9 - k THEN 0 ELSE IF i = 9 - k THEN WriteTop[k] ELSE 255]

(* part_high for k bytes: ones at the top of a byte. *)
PartHigh == <<0, 128, 192, 224, 240, 248, 252, 254>>

(* do_write_integer: |= sets the ones of high and keeps the bits below.    *)
Tagged(bytes, high) == [bytes EXCEPT ![1] = high + (@ % (256 - high))]

WriteInteger(v) ==
  LET fits == {k \in 1 .. 8 : AtMost(v, WriteBound(k))}
      count == CHOOSE k \in fits : \A j \in fits : k <= j
  IN  IF fits = {} THEN <<255>> \o v
      ELSE Tagged(LastOf(v, count), PartHigh[count])

(* BOUND_OF_k_BYTES of read_integer *)
ReadBound == <<127, 191, 223, 239, 247, 251, 253, 254>>

(* read_integer and do_read_integer: the value and where reading goes on.  *)
(* & ~part_high leaves the bits below part_high.                           *)
ReadInteger(bytes, offset) ==
  LET first == bytes[offset + 1]
      fits == {k \in 1 .. 8 : first <= ReadBound[k]}
      count == IF fits = {} THEN 9 ELSE CHOOSE k \in fits : \A j \in fits : k <= j
      high == IF count = 9 THEN 0 ELSE first % (256 - PartHigh[count])
  IN  [value |-> LastOf(Filled(8, 0) \o <<high>> \o Slice(bytes, offset + 1, count - 1), 8),
       next |-> offset + count]

-----------------------------------------------------------------------------
(* A value converted to uint64_t: signed types extend their sign ... *)
Extended(type, data) ==
  LET fill == IF type \in Signed /\ data[1] >= 128 THEN 255 ELSE 0
  IN  Filled(8 - Len(data), fill) \o data

\* Mutant of Masked: the sign stays in the bytes above the type.
MaskedNot(v, n) == v

(* ... and the mask of operator << removes it again. *)
Masked(v, n) == Filled(8 - n, 0) \o LastOf(v, n)

(* The length of a string: its low 32 bits. *)
SizeBytes(n) == <<(n \div 16777216) % 256, (n \div 65536) % 256, (n \div 256) % 256, n % 256>>
SizeOf(v) == v[5] * 16777216 + v[6] * 65536 + v[7] * 256 + v[8]

(* operator << *)
Encoded(type, data) ==
  CASE type \in DOMAIN Width -> WriteInteger(Masked(Extended(type, data), Width[type]))
    [] type = "string" -> WriteInteger(Extended("uint32", SizeBytes(Len(data)))) \o data
    [] OTHER -> data

(* MAX_VALUE of operator >>; what is above it is refused by an assertion. *)
MaxValue(type) ==
  IF type = "bool" THEN Filled(7, 0) \o <<1>>
  ELSE Filled(8 - Width[type], 0) \o Filled(Width[type], 255)

Refused == [ok |-> FALSE, data |-> << >>, next |-> 0]
Got(data, next) == [ok |-> TRUE, data |-> data, next |-> next]

ReadTyped(type, bytes, offset) ==
  LET read == ReadInteger(bytes, offset)
  IN  IF AtMost(read.value, MaxValue(type))
        THEN Got(LastOf(read.value, Width[type]), read.next) ELSE Refused

(* The string is as long as the integer before it, a uint32_t, says. *)
ReadString(bytes, offset) ==
  LET size == ReadInteger(bytes, offset)
  IN  IF AtMost(size.value, MaxValue("uint32"))
        THEN Got(Slice(bytes, size.next, SizeOf(size.value)), size.next + SizeOf(size.value))
      ELSE Refused

(* operator >>; what ends behind the length is refused by an assertion. *)
Decoded(type, bytes, offset) ==
  LET read == CASE offset >= Len(bytes) -> Refused
                [] type \in DOMAIN Width -> ReadTyped(type, bytes, offset)
                [] type = "string" -> ReadString(bytes, offset)
                [] OTHER -> Got(Slice(bytes, offset, RawWidth[type]),
                                offset + RawWidth[type])
  IN  IF read.next <= Len(bytes) THEN read ELSE Refused

=============================================================================
