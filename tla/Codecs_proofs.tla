--------------------------- MODULE Codecs_proofs ---------------------------
(***************************************************************************)
(* Theorems about module Codecs, for any values, streams, texts and rooms: *)
(* what was written to a stream is read from it (StreamRoundTrip), and     *)
(* what was encoded as text is decoded from it (TextRoundTrip).            *)
(***************************************************************************)
EXTENDS Codecs, FiniteSetTheorems, SequenceTheorems, WellFoundedInduction, TLAPS

(* A set of naturals with an element has a least one. *)
LEMMA LeastNatural ==
  ASSUME NEW T \in SUBSET Nat, T # {}
  PROVE  \E x \in T : \A y \in T : x <= y
<1>. DEFINE R == OpToRel(<, Nat)
<1>1. PICK x \in T : \A y \in T : ~ (<<y, x>> \in R)
  <2>. HIDE DEF R
  <2>1. IsWellFoundedOn(R, Nat)
    BY NatLessThanWellFounded DEF R
  <2>. QED
    BY <2>1, WFMin
<1>2. \A y \in T : y \in Nat /\ x \in Nat /\ ~ (y < x)
  BY <1>1 DEF OpToRel, R
<1>. HIDE DEF R
<1>. QED
  BY <1>2

-----------------------------------------------------------------------------
(* Integers of 8 bytes and their bounds. *)
Wide == [1 .. 8 -> Byte]

(* The bytes before p are 0, the byte at p is at most c. *)
Below(v, p, c) == (\A i \in 1 .. 8 : i < p => v[i] = 0) /\ v[p] <= c

(* The values up to the one whose bytes are 0 before p, c there and 255    *)
(* after it.                                                               *)
LEMMA AtMostIsBelow ==
  ASSUME NEW v \in Wide, NEW w \in Wide, NEW p \in 1 .. 8, NEW c \in Byte,
         \A i \in 1 .. 8 : w[i] = IF i < p THEN 0 ELSE IF i = p THEN c ELSE 255
  PROVE  AtMost(v, w) <=> Below(v, p, c)
<1>0. /\ \A i \in 1 .. 8 : v[i] \in Nat /\ v[i] <= 255 /\ w[i] \in Nat
      /\ \A i \in 1 .. 8 : /\ i < p => w[i] = 0
                           /\ i = p => w[i] = c
                           /\ i > p => w[i] = 255
      /\ p \in 1 .. 8 /\ c \in Nat
  <2>1. \A i \in 1 .. 8 : v[i] \in 0 .. 255 /\ w[i] \in 0 .. 255
    BY DEF Wide, Byte
  <2>2. ASSUME NEW i \in 1 .. 8
        PROVE  v[i] \in Nat /\ v[i] <= 255 /\ w[i] \in Nat
    <3>1. v[i] \in 0 .. 255 /\ w[i] \in 0 .. 255
      BY <2>1
    <3>. QED
      BY <3>1
  <2>3. c \in Nat
    BY DEF Byte
  <2>4. ASSUME NEW i \in 1 .. 8
        PROVE  (i < p => w[i] = 0) /\ (i = p => w[i] = c) /\ (i > p => w[i] = 255)
    <3>1. w[i] = IF i < p THEN 0 ELSE IF i = p THEN c ELSE 255
      OBVIOUS
    <3>2. i \in Int /\ p \in Int
      OBVIOUS
    <3>. QED
      BY <3>1, <3>2
  <2>. QED
    BY <2>2, <2>3, <2>4
<1>1. ASSUME AtMost(v, w) PROVE Below(v, p, c)
  <2>1. CASE v = w
    BY <2>1 DEF Below, Byte
  <2>2. CASE v # w
    <3>1. PICK i \in 1 .. 8 : v[i] < w[i] /\ \A j \in 1 .. i - 1 : v[j] = w[j]
      BY <1>1, <2>2 DEF AtMost
    <3>2. p <= i
      <4>1. ASSUME i < p PROVE FALSE
        <5>1. w[i] = 0 /\ v[i] \in Nat
          BY <1>0, <4>1
        <5>. QED
          BY <3>1, <5>1
      <4>. QED
        BY <1>0, <4>1
    <3>3. ASSUME NEW j \in 1 .. 8, j < p PROVE v[j] = 0
      <4>1. j \in 1 .. i - 1 /\ w[j] = 0
        BY <1>0, <3>2, <3>3
      <4>. QED
        BY <3>1, <4>1
    <3>4. v[p] <= c
      <4>1. CASE p = i
        BY <1>0, <3>1, <4>1
      <4>2. CASE p \in 1 .. i - 1
        <5>1. v[p] = c
          BY <1>0, <3>1, <4>2
        <5>. QED
          BY <1>0, <5>1
      <4>. QED
        BY <1>0, <3>2, <4>1, <4>2
    <3>. QED
      BY <3>3, <3>4 DEF Below
  <2>. QED
    BY <2>1, <2>2
<1>2. ASSUME Below(v, p, c), v # w PROVE AtMost(v, w)
  <2>. DEFINE D == {i \in 1 .. 8 : v[i] # w[i]}
  <2>1. D # {} /\ D \in SUBSET Nat
    BY <1>2 DEF Wide
  <2>2. PICK i \in D : \A j \in D : i <= j
    BY <2>1, LeastNatural
  <2>3. \A j \in 1 .. i - 1 : v[j] = w[j]
    BY <2>2
  <2>4. v[i] < w[i]
    <3>1. i \in 1 .. 8 /\ v[i] # w[i] /\ v[i] \in Nat /\ w[i] \in Nat /\ v[i] <= 255
      BY <1>0, <2>2
    <3>2. i < p => v[i] = 0 /\ w[i] = 0
      BY <1>0, <1>2, <3>1 DEF Below
    <3>3. i = p => v[i] <= w[i]
      BY <1>0, <1>2, <3>1 DEF Below
    <3>4. i > p => w[i] = 255
      BY <1>0, <3>1
    <3>. QED
      BY <1>0, <3>1, <3>2, <3>3, <3>4
  <2>. QED
    BY <2>2, <2>3, <2>4 DEF AtMost
<1>. QED
  BY <1>1, <1>2 DEF AtMost

(* How the bounds of writing and of reading fit together. *)
LEMMA Tables ==
  /\ \A k \in 1 .. 8 : /\ WriteTop[k] \in Byte /\ PartHigh[k] \in Byte /\ ReadBound[k] \in Byte
                       /\ ReadBound[k] = PartHigh[k] + WriteTop[k]
                       /\ ReadBound[k] < 255
                       /\ \A j \in 1 .. k - 1 : ReadBound[j] < PartHigh[k]
  /\ WriteTop[8] = 0
<1>1. \A k \in 1 .. 8 : k = 1 \/ k = 2 \/ k = 3 \/ k = 4 \/ k = 5 \/ k = 6 \/ k = 7 \/ k = 8
  OBVIOUS
<1>. QED
  BY <1>1 DEF WriteTop, PartHigh, ReadBound, Byte

LEMMA TablesAt ==
  ASSUME NEW k \in 1 .. 8
  PROVE  /\ WriteTop[k] \in Nat /\ PartHigh[k] \in Nat /\ ReadBound[k] \in Nat
         /\ ReadBound[k] = PartHigh[k] + WriteTop[k]
         /\ PartHigh[k] + WriteTop[k] < 255 /\ ReadBound[k] < 255
<1>1. \A b \in Byte : b \in Nat
  BY DEF Byte
<1>2. /\ WriteTop[k] \in Byte /\ PartHigh[k] \in Byte /\ ReadBound[k] \in Byte
      /\ ReadBound[k] = PartHigh[k] + WriteTop[k] /\ ReadBound[k] < 255
  BY Tables
<1>. QED
  BY <1>1, <1>2

LEMMA TablesApart ==
  ASSUME NEW k \in 1 .. 8, NEW j \in 1 .. k - 1
  PROVE  ReadBound[j] < PartHigh[k]
BY Tables

LEMMA Untagged ==
  ASSUME NEW k \in 1 .. 8, NEW b \in 0 .. WriteTop[k]
  PROVE  /\ PartHigh[k] + (b % (256 - PartHigh[k])) = PartHigh[k] + b
         /\ (PartHigh[k] + b) % (256 - PartHigh[k]) = b
<1>1. k = 1 \/ k = 2 \/ k = 3 \/ k = 4 \/ k = 5 \/ k = 6 \/ k = 7 \/ k = 8
  OBVIOUS
<1>. QED
  BY <1>1 DEF WriteTop, PartHigh

LEMMA Fits ==
  ASSUME NEW v \in Wide, NEW k \in 1 .. 8
  PROVE  AtMost(v, WriteBound(k)) <=> Below(v, 9 - k, WriteTop[k])
<1>1. WriteTop[k] \in Byte /\ 9 - k \in 1 .. 8
  BY Tables
<1>2. WriteBound(k) \in Wide
  BY <1>1 DEF WriteBound, Wide, Byte
<1>. QED
  BY <1>1, <1>2, AtMostIsBelow DEF WriteBound

-----------------------------------------------------------------------------
(* Parts of sequences of bytes. *)
LEMMA LastOfIs ==
  ASSUME NEW s \in Seq(Byte), NEW n \in 0 .. Len(s)
  PROVE  /\ LastOf(s, n) \in Seq(Byte)
         /\ Len(LastOf(s, n)) = n
         /\ \A i \in 1 .. n : LastOf(s, n)[i] = s[Len(s) - n + i]
<1>. DEFINE l == Len(s)
            m == l - n + 1
<1>1. m \in Int /\ l \in Int /\ \A i \in m .. l : i \in 1 .. l /\ s[i] \in Byte
  OBVIOUS
<1>2. LastOf(s, n) = SubSeq(s, m, l)
  BY DEF LastOf
<1>3. l - m + 1 = n /\ (m <= l => n # 0) /\ (~ (m <= l) => n = 0)
  OBVIOUS
<1>4. \A i \in 1 .. n : m + i - 1 = l - n + i
  OBVIOUS
<1>. HIDE DEF m, l
<1>5. /\ SubSeq(s, m, l) \in Seq(Byte)
      /\ Len(SubSeq(s, m, l)) = IF m <= l THEN l - m + 1 ELSE 0
      /\ \A i \in 1 .. l - m + 1 : SubSeq(s, m, l)[i] = s[m + i - 1]
  BY <1>1, SubSeqProperties
<1>. QED
  BY <1>2, <1>3, <1>4, <1>5 DEF l

LEMMA LastOfWide ==
  ASSUME NEW s \in Seq(Byte), Len(s) = 8, NEW n \in 0 .. 8
  PROVE  /\ LastOf(s, n) \in Seq(Byte)
         /\ Len(LastOf(s, n)) = n
         /\ \A i \in 1 .. n : LastOf(s, n)[i] = s[8 - n + i]
<1>1. /\ LastOf(s, n) \in Seq(Byte) /\ Len(LastOf(s, n)) = n
      /\ \A i \in 1 .. n : LastOf(s, n)[i] = s[Len(s) - n + i]
  BY LastOfIs
<1>. QED
  BY <1>1

LEMMA SliceIs ==
  ASSUME NEW s \in Seq(Byte), NEW offset \in Nat, NEW n \in Nat, offset + n <= Len(s)
  PROVE  /\ Slice(s, offset, n) \in Seq(Byte)
         /\ Len(Slice(s, offset, n)) = n
         /\ \A i \in 1 .. n : Slice(s, offset, n)[i] = s[offset + i]
<1>. DEFINE m == offset + 1
            l == offset + n
<1>1. m \in Int /\ l \in Int /\ \A i \in m .. l : i \in 1 .. Len(s) /\ s[i] \in Byte
  OBVIOUS
<1>2. Slice(s, offset, n) = SubSeq(s, m, l)
  BY DEF Slice
<1>3. l - m + 1 = n /\ (m <= l => n # 0) /\ (~ (m <= l) => n = 0)
  OBVIOUS
<1>4. \A i \in 1 .. n : m + i - 1 = offset + i
  OBVIOUS
<1>. HIDE DEF m, l
<1>5. /\ SubSeq(s, m, l) \in Seq(Byte)
      /\ Len(SubSeq(s, m, l)) = IF m <= l THEN l - m + 1 ELSE 0
      /\ \A i \in 1 .. l - m + 1 : SubSeq(s, m, l)[i] = s[m + i - 1]
  BY <1>1, SubSeqProperties
<1>. QED
  BY <1>2, <1>3, <1>4, <1>5

LEMMA FilledIs ==
  ASSUME NEW n \in Nat, NEW b \in Byte
  PROVE  /\ Filled(n, b) \in Seq(Byte)
         /\ Len(Filled(n, b)) = n
         /\ \A i \in 1 .. n : Filled(n, b)[i] = b
BY DEF Filled

LEMMA Equal ==
  ASSUME NEW S, NEW s \in Seq(S), NEW t \in Seq(S), Len(s) = Len(t),
         \A i \in 1 .. Len(s) : s[i] = t[i]
  PROVE  s = t
OBVIOUS

LEMMA SameBytes ==
  ASSUME NEW s \in Seq(Byte), NEW t \in Seq(Byte), NEW n \in Nat, Len(s) = n, Len(t) = n,
         \A i \in 1 .. n : s[i] = t[i]
  PROVE  s = t
OBVIOUS

LEMMA WideIsSeq ==
  ASSUME NEW v
  PROVE  v \in Wide <=> v \in Seq(Byte) /\ Len(v) = 8
<1>1. ASSUME v \in [1 .. 8 -> Byte] PROVE v \in Seq(Byte) /\ Len(v) = 8
  <2>1. v \in Seq(Byte)
    BY <1>1, SeqDef
  <2>2. 1 .. Len(v) = 1 .. 8
    BY <1>1, <2>1, LenProperties
  <2>. DEFINE l == Len(v)
  <2>3. l \in Nat
    BY <2>1
  <2>4. 8 \in 1 .. l /\ ~ (9 \in 1 .. l)
    BY <2>2
  <2>5. l = 8
    <3>. HIDE DEF l
    <3>. QED
      BY <2>3, <2>4
  <2>. QED
    BY <2>1, <2>5
<1>2. ASSUME v \in Seq(Byte), Len(v) = 8 PROVE v \in [1 .. 8 -> Byte]
  BY <1>2, LenProperties
<1>. QED
  BY <1>1, <1>2 DEF Wide

LEMMA Joined ==
  ASSUME NEW s \in Seq(Byte), NEW t \in Seq(Byte)
  PROVE  /\ s \o t \in Seq(Byte) /\ Len(s \o t) = Len(s) + Len(t)
         /\ \A i \in 1 .. Len(s) : (s \o t)[i] = s[i]
         /\ \A i \in 1 .. Len(t) : (s \o t)[Len(s) + i] = t[i]
<1>. DEFINE m == Len(s)
            n == Len(t)
<1>0. m \in Nat /\ n \in Nat
  OBVIOUS
<1>1. /\ s \o t \in Seq(Byte) /\ Len(s \o t) = m + n
      /\ \A i \in 1 .. m + n : (s \o t)[i] = IF i <= m THEN s[i] ELSE t[i - m]
  BY ConcatProperties
<1>. HIDE DEF m, n
<1>2. ASSUME NEW i \in 1 .. m PROVE (s \o t)[i] = s[i]
  BY <1>0, <1>1
<1>3. ASSUME NEW i \in 1 .. n PROVE (s \o t)[m + i] = t[i]
  <2>1. m + i \in 1 .. m + n /\ ~ (m + i <= m) /\ (m + i) - m = i
    BY <1>0
  <2>. QED
    BY <1>1, <2>1
<1>. QED
  BY <1>1, <1>2, <1>3 DEF m, n

-----------------------------------------------------------------------------
(* What write_integer writes of v: c bytes, of which the first begins with *)
(* c - 1 ones; 9 bytes have a first one of their own.                      *)
Written(v, c, bytes) ==
  /\ c \in 1 .. 9 /\ bytes \in Seq(Byte) /\ Len(bytes) = c
  /\ c = 9 => bytes[1] = 255 /\ \A i \in 1 .. 8 : bytes[i + 1] = v[i]
  /\ c # 9 => /\ Below(v, 9 - c, WriteTop[c])
              /\ bytes[1] = PartHigh[c] + v[9 - c]
              /\ \A i \in 2 .. c : bytes[i] = v[8 - c + i]

(* The integer takes at most one byte more than the type it has.           *)
LEMMA WriteIs ==
  ASSUME NEW v \in Wide, NEW w \in 1 .. 8, \A i \in 1 .. 8 - w : v[i] = 0
  PROVE  \E c \in 1 .. w + 1 : Written(v, c, WriteInteger(v))
<1>. DEFINE fits == {k \in 1 .. 8 : AtMost(v, WriteBound(k))}
            count == CHOOSE k \in fits : \A j \in fits : k <= j
<1>0. v \in Seq(Byte) /\ Len(v) = 8 /\ \A i \in 1 .. 8 : v[i] \in Byte
  BY WideIsSeq
<1>1. CASE fits = {}
  <2>. DEFINE head == <<255>>
              bytes == head \o v
  <2>1. WriteInteger(v) = bytes
    BY <1>1 DEF WriteInteger
  <2>2. head \in Seq(Byte) /\ Len(head) = 1 /\ head[1] = 255
    BY DEF Byte
  <2>. HIDE DEF head
  <2>3. /\ bytes \in Seq(Byte) /\ Len(bytes) = 9 /\ bytes[1] = 255
        /\ \A i \in 1 .. 8 : bytes[i + 1] = v[i]
    <3>1. /\ bytes \in Seq(Byte) /\ Len(bytes) = Len(head) + Len(v)
          /\ \A i \in 1 .. Len(head) : bytes[i] = head[i]
          /\ \A i \in 1 .. Len(v) : bytes[Len(head) + i] = v[i]
      <4>1. head \in Seq(Byte) /\ v \in Seq(Byte)
        BY <1>0, <2>2
      <4>. QED
        BY <4>1, Joined, Zenon
    <3>. HIDE DEF bytes
    <3>. QED
      BY <1>0, <2>2, <3>1
  <2>. HIDE DEF bytes
  <2>4. w = 8
    <3>1. SUFFICES ASSUME w # 8 PROVE FALSE
      OBVIOUS
    <3>2. w + 1 \in 1 .. 8 /\ 9 - (w + 1) = 8 - w /\ 8 - w \in 1 .. 8
      BY <3>1
    <3>3. v[8 - w] = 0 /\ WriteTop[w + 1] \in Nat /\ \A i \in 1 .. 8 : i < 8 - w => v[i] = 0
      BY <3>2, TablesAt
    <3>4. Below(v, 9 - (w + 1), WriteTop[w + 1])
      BY <3>2, <3>3 DEF Below
    <3>5. w + 1 \in fits
      BY <3>2, <3>4, Fits
    <3>. QED
      BY <1>1, <3>5
  <2>. QED
    BY <2>1, <2>3, <2>4 DEF Written
<1>2. CASE fits # {}
  <2>1. \E k \in fits : \A j \in fits : k <= j
    <3>1. fits \in SUBSET Nat
      OBVIOUS
    <3>. QED
      BY <1>2, <3>1, LeastNatural
  <2>2. count \in fits /\ \A j \in fits : count <= j
    BY <2>1
  <2>3. WriteInteger(v) = Tagged(LastOf(v, count), PartHigh[count])
    BY <1>2 DEF WriteInteger
  <2>. HIDE DEF count
  <2>4. count \in 1 .. 8 /\ Below(v, 9 - count, WriteTop[count])
    BY <2>2, Fits
  <2>5. count <= w + 1
    <3>1. SUFFICES ASSUME w + 1 < count PROVE FALSE
      BY <2>4
    <3>2. w + 1 \in 1 .. 8 /\ 9 - (w + 1) = 8 - w /\ 8 - w \in 1 .. 8
      BY <2>4, <3>1
    <3>3. v[8 - w] = 0 /\ WriteTop[w + 1] \in Nat /\ \A i \in 1 .. 8 : i < 8 - w => v[i] = 0
      BY <3>2, TablesAt
    <3>4. Below(v, 9 - (w + 1), WriteTop[w + 1])
      BY <3>2, <3>3 DEF Below
    <3>5. w + 1 \in fits
      BY <3>2, <3>4, Fits
    <3>. QED
      BY <2>2, <2>4, <3>1, <3>5
  <2>. DEFINE l == LastOf(v, count)
  <2>6. /\ l \in Seq(Byte) /\ Len(l) = count
        /\ \A i \in 1 .. count : l[i] = v[8 - count + i]
    <3>1. count \in 0 .. 8
      BY <2>4
    <3>. QED
      BY <1>0, <3>1, LastOfWide
  <2>7. l[1] = v[9 - count] /\ l[1] \in 0 .. WriteTop[count]
    <3>1. 1 \in 1 .. count /\ 8 - count + 1 = 9 - count /\ 9 - count \in 1 .. 8
      BY <2>4
    <3>2. l[1] = v[9 - count] /\ v[9 - count] \in Byte
      BY <1>0, <2>6, <3>1
    <3>. QED
      BY <2>4, <3>1, <3>2 DEF Below, Byte
  <2>8. /\ PartHigh[count] + (l[1] % (256 - PartHigh[count])) = PartHigh[count] + l[1]
        /\ PartHigh[count] + l[1] \in Byte
    <3>1. /\ PartHigh[count] \in Nat /\ WriteTop[count] \in Nat
          /\ PartHigh[count] + WriteTop[count] < 255
      BY <2>4, TablesAt
    <3>2. PartHigh[count] + l[1] \in Byte
      BY <2>7, <3>1 DEF Byte
    <3>. QED
      BY <2>4, <2>7, <3>2, Untagged
  <2>. HIDE DEF l
  <2>. DEFINE t == Tagged(l, PartHigh[count])
  <2>9. t = [l EXCEPT ![1] = PartHigh[count] + l[1]]
    BY <2>8 DEF Tagged
  <2>10. 1 \in DOMAIN l /\ \A i \in 2 .. count : i \in DOMAIN l /\ i # 1
    BY <2>4, <2>6
  <2>11. /\ t \in Seq(Byte) /\ Len(t) = count
         /\ t[1] = PartHigh[count] + l[1]
         /\ \A i \in 2 .. count : t[i] = l[i]
    BY <2>6, <2>8, <2>9, <2>10
  <2>12. \A i \in 2 .. count : i \in 1 .. count
    OBVIOUS
  <2>. HIDE DEF t
  <2>13. Written(v, count, t)
    BY <2>4, <2>6, <2>7, <2>11, <2>12 DEF Written
  <2>14. WriteInteger(v) = t
    BY <2>3 DEF t, l
  <2>. QED
    BY <2>4, <2>5, <2>13, <2>14
<1>. QED
  BY <1>1, <1>2

(* The bytes at an offset of a stream. *)
Holds(s, offset, bytes) ==
  /\ offset + Len(bytes) <= Len(s)
  /\ \A i \in 1 .. Len(bytes) : s[offset + i] = bytes[i]

(* read_integer returns what write_integer wrote. *)
LEMMA ReadsWritten ==
  ASSUME NEW v \in Wide, NEW c, NEW bytes, Written(v, c, bytes),
         NEW s \in Seq(Byte), NEW offset \in Nat, Holds(s, offset, bytes)
  PROVE  ReadInteger(s, offset) = [value |-> v, next |-> offset + c]
<1>. DEFINE first == s[offset + 1]
            fits == {k \in 1 .. 8 : first <= ReadBound[k]}
            count == IF fits = {} THEN 9 ELSE CHOOSE k \in fits : \A j \in fits : k <= j
            high == IF count = 9 THEN 0 ELSE first % (256 - PartHigh[count])
            rest == Slice(s, offset + 1, count - 1)
            whole == Filled(8, 0) \o <<high>> \o rest
<1>0. /\ v \in Seq(Byte) /\ Len(v) = 8 /\ \A i \in 1 .. 8 : v[i] \in Byte
      /\ c \in 1 .. 9 /\ bytes \in Seq(Byte) /\ Len(bytes) = c
      /\ offset + c <= Len(s) /\ \A i \in 1 .. c : s[offset + i] = bytes[i]
  <2>1. v \in Seq(Byte) /\ Len(v) = 8 /\ \A i \in 1 .. 8 : v[i] \in Byte
    BY WideIsSeq
  <2>2. c \in 1 .. 9 /\ bytes \in Seq(Byte) /\ Len(bytes) = c
    BY DEF Written
  <2>3. offset + Len(bytes) <= Len(s) /\ \A i \in 1 .. Len(bytes) : s[offset + i] = bytes[i]
    BY DEF Holds
  <2>. QED
    BY <2>1, <2>2, <2>3
<1>1. first = bytes[1]
  BY <1>0
<1>2. count = c
  <2>1. CASE c = 9
    <3>1. first = 255
      BY <1>1, <2>1 DEF Written
    <3>2. ASSUME NEW k \in 1 .. 8 PROVE ~ (255 <= ReadBound[k])
      <4>1. ReadBound[k] \in Nat /\ ReadBound[k] < 255
        BY TablesAt
      <4>. QED
        BY <4>1
    <3>3. fits = {}
      BY <3>1, <3>2
    <3>. QED
      BY <2>1, <3>3
  <2>2. CASE c # 9
    <3>1. c \in 1 .. 8 /\ 9 - c \in 1 .. 8 /\ first = PartHigh[c] + v[9 - c] /\ v[9 - c] <= WriteTop[c]
      BY <1>0, <1>1, <2>2 DEF Written, Below
    <3>2. /\ v[9 - c] \in Nat /\ WriteTop[c] \in Nat /\ PartHigh[c] \in Nat
          /\ ReadBound[c] = PartHigh[c] + WriteTop[c]
      <4>1. v[9 - c] \in Byte
        BY <1>0, <3>1
      <4>2. \A b \in Byte : b \in Nat
        BY DEF Byte
      <4>. QED
        BY <3>1, <4>1, <4>2, TablesAt
    <3>3. first <= ReadBound[c] /\ PartHigh[c] <= first /\ first \in Nat
      BY <3>1, <3>2
    <3>4. c \in fits
      BY <3>1, <3>3
    <3>5. ASSUME NEW j \in fits PROVE c <= j
      <4>1. SUFFICES ASSUME j < c PROVE FALSE
        BY <3>1
      <4>2. j \in 1 .. c - 1
        BY <3>1, <4>1
      <4>3. ReadBound[j] < PartHigh[c] /\ ReadBound[j] \in Nat /\ first <= ReadBound[j]
        <5>1. j \in 1 .. 8 /\ first <= ReadBound[j]
          OBVIOUS
        <5>2. ReadBound[j] < PartHigh[c]
          BY <3>1, <4>2, TablesApart
        <5>3. ReadBound[j] \in Nat
          BY <5>1, TablesAt
        <5>. QED
          BY <5>1, <5>2, <5>3
      <4>. QED
        BY <3>2, <3>3, <4>3
    <3>6. \A k \in fits : (\A j \in fits : k <= j) => k = c
      <4>1. \A k \in fits : k \in Int /\ c \in Int
        BY <3>1
      <4>. HIDE DEF fits
      <4>. QED
        BY <3>4, <3>5, <4>1
    <3>. HIDE DEF fits
    <3>7. (CHOOSE k \in fits : \A j \in fits : k <= j) = c
      BY <3>4, <3>5, <3>6
    <3>. QED
      BY <3>4, <3>7
  <2>. QED
    BY <2>1, <2>2
<1>. HIDE DEF count
<1>3. c # 9 => high = v[9 - c]
  <2>. SUFFICES ASSUME c # 9 PROVE high = v[9 - c]
    OBVIOUS
  <2>1. c \in 1 .. 8 /\ 9 - c \in 1 .. 8 /\ first = PartHigh[c] + v[9 - c] /\ v[9 - c] <= WriteTop[c]
    BY <1>0, <1>1 DEF Written, Below
  <2>2. v[9 - c] \in 0 .. WriteTop[c]
    <3>1. v[9 - c] \in Byte
      BY <1>0, <2>1
    <3>2. WriteTop[c] \in Nat
      BY <2>1, TablesAt
    <3>. DEFINE x == v[9 - c]
                y == WriteTop[c]
    <3>3. x \in 0 .. 255 /\ y \in Nat /\ x <= y
      BY <2>1, <3>1, <3>2 DEF Byte
    <3>. HIDE DEF x, y
    <3>4. x \in 0 .. y
      BY <3>3
    <3>. QED
      BY <3>4 DEF x, y
  <2>. QED
    BY <1>2, <2>1, <2>2, Untagged
<1>4. c = 9 => high = 0
  BY <1>2
<1>5. high \in Byte
  <2>1. c # 9 => 9 - c \in 1 .. 8
    BY <1>0
  <2>2. 0 \in Byte
    BY DEF Byte
  <2>. QED
    BY <1>0, <1>3, <1>4, <2>1, <2>2
<1>. HIDE DEF high, first
<1>6. /\ rest \in Seq(Byte) /\ Len(rest) = c - 1
      /\ \A i \in 1 .. c - 1 : rest[i] = bytes[i + 1]
  <2>1. offset + 1 \in Nat /\ c - 1 \in Nat /\ offset + 1 + (c - 1) <= Len(s)
    BY <1>0
  <2>2. /\ rest \in Seq(Byte) /\ Len(rest) = c - 1
        /\ \A i \in 1 .. c - 1 : rest[i] = s[offset + 1 + i]
    BY <1>2, <2>1, SliceIs
  <2>3. \A i \in 1 .. c - 1 : offset + 1 + i = offset + (i + 1) /\ i + 1 \in 1 .. c
    BY <1>0
  <2>. QED
    BY <1>0, <2>2, <2>3, ZenonT(40)
<1>. HIDE DEF rest
<1>7. /\ whole \in Seq(Byte) /\ Len(whole) = 8 + c
      /\ \A i \in 1 .. 8 : whole[i] = 0
      /\ whole[9] = high
      /\ \A i \in 1 .. c - 1 : whole[9 + i] = rest[i]
  <2>. DEFINE zeros == Filled(8, 0)
              one == <<high>>
              mid == zeros \o one
  <2>1. /\ zeros \in Seq(Byte) /\ Len(zeros) = 8 /\ \A i \in 1 .. 8 : zeros[i] = 0
    <3>1. 0 \in Byte
      BY DEF Byte
    <3>. QED
      BY <3>1, FilledIs
  <2>2. one \in Seq(Byte) /\ Len(one) = 1 /\ one[1] = high
    BY <1>5
  <2>3. whole = mid \o rest
    OBVIOUS
  <2>. HIDE DEF zeros, one
  <2>4. /\ mid \in Seq(Byte) /\ Len(mid) = 9 /\ mid[9] = high
        /\ \A i \in 1 .. 8 : mid[i] = 0
    <3>1. /\ mid \in Seq(Byte) /\ Len(mid) = Len(zeros) + Len(one)
          /\ \A i \in 1 .. Len(zeros) : mid[i] = zeros[i]
          /\ \A i \in 1 .. Len(one) : mid[Len(zeros) + i] = one[i]
      BY <2>1, <2>2, Joined, Zenon
    <3>. HIDE DEF mid
    <3>. QED
      BY <2>1, <2>2, <3>1
  <2>5. /\ mid \o rest \in Seq(Byte) /\ Len(mid \o rest) = Len(mid) + Len(rest)
        /\ \A i \in 1 .. Len(mid) : (mid \o rest)[i] = mid[i]
        /\ \A i \in 1 .. Len(rest) : (mid \o rest)[Len(mid) + i] = rest[i]
    BY <1>6, <2>4, Joined, Zenon
  <2>. HIDE DEF mid, whole
  <2>6. /\ whole \in Seq(Byte) /\ Len(whole) = 9 + (c - 1)
        /\ \A i \in 1 .. 9 : whole[i] = mid[i]
        /\ \A i \in 1 .. c - 1 : whole[9 + i] = rest[i]
    BY <1>6, <2>3, <2>4, <2>5
  <2>7. 9 + (c - 1) = 8 + c /\ 9 \in 1 .. 9 /\ \A i \in 1 .. 8 : i \in 1 .. 9
    BY <1>0
  <2>. QED
    BY <2>4, <2>6, <2>7
<1>. HIDE DEF whole
<1>8. /\ LastOf(whole, 8) \in Seq(Byte) /\ Len(LastOf(whole, 8)) = 8
      /\ \A i \in 1 .. 8 : LastOf(whole, 8)[i] = whole[c + i]
  <2>1. 8 \in 0 .. Len(whole) /\ Len(whole) - 8 = c
    BY <1>0, <1>7
  <2>2. /\ LastOf(whole, 8) \in Seq(Byte) /\ Len(LastOf(whole, 8)) = 8
        /\ \A i \in 1 .. 8 : LastOf(whole, 8)[i] = whole[Len(whole) - 8 + i]
    BY <1>7, <2>1, LastOfIs
  <2>. QED
    BY <2>1, <2>2
<1>9. ASSUME NEW i \in 1 .. 8 PROVE whole[c + i] = v[i]
  <2>1. c + i \in 1 .. 8 + c /\ c \in Nat /\ i \in Nat
    BY <1>0
  <2>2. CASE c + i <= 8
    <3>1. c # 9 /\ i < 9 - c /\ c + i \in 1 .. 8
      BY <2>1, <2>2
    <3>. QED
      BY <1>7, <3>1 DEF Written, Below
  <2>3. CASE c + i = 9
    <3>1. c # 9 /\ i = 9 - c
      BY <1>0, <2>1, <2>3
    <3>. QED
      BY <1>3, <1>7, <2>1, <2>3, <3>1
  <2>4. CASE c + i > 9
    <3>1. whole[c + i] = rest[c + i - 9] /\ c + i - 9 \in 1 .. c - 1
      <4>1. c + i - 9 \in 1 .. c - 1 /\ 9 + (c + i - 9) = c + i
        BY <2>1, <2>4
      <4>2. whole[9 + (c + i - 9)] = rest[c + i - 9]
        BY <1>7, <4>1
      <4>. QED
        BY <4>1, <4>2
    <3>2. whole[c + i] = bytes[c + i - 8] /\ c + i - 9 + 1 = c + i - 8
      BY <1>6, <2>1, <3>1
    <3>3. CASE c = 9
      <4>1. bytes[i + 1] = v[i] /\ c + i - 8 = i + 1
        BY <2>1, <3>3 DEF Written
      <4>. QED
        BY <3>2, <4>1
    <3>4. CASE c # 9
      <4>1. c + i - 8 \in 2 .. c /\ 8 - c + (c + i - 8) = i
        BY <1>0, <2>1, <2>4, <3>4
      <4>2. bytes[c + i - 8] = v[8 - c + (c + i - 8)]
        BY <3>4, <4>1 DEF Written
      <4>. QED
        BY <3>2, <4>1, <4>2
    <3>. QED
      BY <3>3, <3>4
  <2>. QED
    BY <1>0, <2>1, <2>2, <2>3, <2>4
<1>10. LastOf(whole, 8) = v
  <2>1. \A i \in 1 .. 8 : LastOf(whole, 8)[i] = v[i]
    BY <1>8, <1>9
  <2>2. LastOf(whole, 8) \in Seq(Byte) /\ Len(LastOf(whole, 8)) = 8
    BY <1>8
  <2>. QED
    BY <1>0, <2>1, <2>2, SameBytes, ZenonT(40)
<1>11. ReadInteger(s, offset) = [value |-> LastOf(whole, 8), next |-> offset + count]
  BY DEF ReadInteger, whole, rest, high, count, first
<1>. QED
  BY <1>2, <1>10, <1>11

-----------------------------------------------------------------------------
(* The types. *)
Ints == {"bool", "int8", "uint8", "int16", "uint16", "int32", "uint32", "int64", "uint64"}

LEMMA Types ==
  /\ DOMAIN Width = Ints /\ DOMAIN RawWidth = {"float", "double"}
  /\ \A t \in Ints : Width[t] \in 1 .. 8
  /\ Width["bool"] = 1 /\ Width["uint32"] = 4
  /\ RawWidth["float"] = 4 /\ RawWidth["double"] = 8
BY DEF Width, RawWidth, Ints

LEMMA IntsAre ==
  ASSUME NEW type \in Ints
  PROVE  /\ type \in DOMAIN Width /\ type # "string" /\ type \notin DOMAIN RawWidth
         /\ Width[type] \in 1 .. 8 /\ (type = "bool" => Width[type] = 1)
<1>1. "string" \notin Ints /\ "float" \notin Ints /\ "double" \notin Ints
  BY DEF Ints
<1>. QED
  BY <1>1, Types

(* A value on its way to the stream is the value of its type, after zeros. *)
LEMMA MaskedIs ==
  ASSUME NEW type \in Ints, NEW data \in Seq(Byte), Len(data) = Width[type]
  PROVE  /\ Masked(Extended(type, data), Width[type]) \in Wide
         /\ \A i \in 1 .. 8 - Width[type] : Masked(Extended(type, data), Width[type])[i] = 0
         /\ LastOf(Masked(Extended(type, data), Width[type]), Width[type]) = data
<1>. DEFINE w == Width[type]
            fill == IF type \in Signed /\ data[1] >= 128 THEN 255 ELSE 0
            sign == Filled(8 - w, fill)
            x == sign \o data
            zeros == Filled(8 - w, 0)
            l == LastOf(x, w)
            m == zeros \o l
<1>0. w \in 1 .. 8 /\ 8 - w \in Nat /\ fill \in Byte /\ 0 \in Byte
  BY Types DEF Byte
<1>1. Extended(type, data) = x
  BY DEF Extended
<1>2. Masked(Extended(type, data), w) = m
  BY <1>1 DEF Masked
<1>. HIDE DEF w, fill
<1>3. Len(data) = w
  BY DEF w
<1>4. sign \in Seq(Byte) /\ Len(sign) = 8 - w
  BY <1>0, FilledIs
<1>5. zeros \in Seq(Byte) /\ Len(zeros) = 8 - w /\ \A i \in 1 .. 8 - w : zeros[i] = 0
  BY <1>0, FilledIs
<1>. HIDE DEF sign, zeros
<1>6. /\ x \in Seq(Byte) /\ Len(x) = 8
      /\ \A i \in 1 .. 8 : x[i] = IF i <= 8 - w THEN sign[i] ELSE data[i - (8 - w)]
  <2>1. /\ x \in Seq(Byte) /\ Len(x) = Len(sign) + Len(data)
        /\ \A i \in 1 .. Len(sign) + Len(data) :
             x[i] = IF i <= Len(sign) THEN sign[i] ELSE data[i - Len(sign)]
    BY <1>4, ConcatProperties
  <2>2. (8 - w) + w = 8
    BY <1>0
  <2>. HIDE DEF x
  <2>. QED
    BY <1>3, <1>4, <2>1, <2>2
<1>. HIDE DEF x
<1>7. l = data
  <2>1. /\ l \in Seq(Byte) /\ Len(l) = w /\ \A i \in 1 .. w : l[i] = x[8 - w + i]
    <3>1. w \in 0 .. 8 /\ x \in Seq(Byte) /\ Len(x) = 8
      BY <1>0, <1>6
    <3>. QED
      BY <3>1, LastOfWide
  <2>2. \A i \in 1 .. w : /\ 8 - w + i \in 1 .. 8 /\ ~ (8 - w + i <= 8 - w)
                          /\ (8 - w + i) - (8 - w) = i
    BY <1>0
  <2>3. \A i \in 1 .. w : l[i] = data[i]
    BY <1>6, <2>1, <2>2
  <2>. HIDE DEF l
  <2>. QED
    BY <1>3, <2>1, <2>3, Equal
<1>. HIDE DEF l
<1>8. /\ m \in Seq(Byte) /\ Len(m) = 8
      /\ \A i \in 1 .. 8 : m[i] = IF i <= 8 - w THEN zeros[i] ELSE data[i - (8 - w)]
  <2>1. /\ m \in Seq(Byte) /\ Len(m) = Len(zeros) + Len(l)
        /\ \A i \in 1 .. Len(zeros) + Len(l) :
             m[i] = IF i <= Len(zeros) THEN zeros[i] ELSE l[i - Len(zeros)]
    BY <1>5, <1>7, ConcatProperties
  <2>2. (8 - w) + w = 8
    BY <1>0
  <2>. HIDE DEF m
  <2>. QED
    BY <1>3, <1>5, <1>7, <2>1, <2>2
<1>. HIDE DEF m
<1>9. LastOf(m, w) = data
  <2>. DEFINE k == LastOf(m, w)
  <2>1. /\ k \in Seq(Byte) /\ Len(k) = w /\ \A i \in 1 .. w : k[i] = m[8 - w + i]
    <3>1. w \in 0 .. 8 /\ m \in Seq(Byte) /\ Len(m) = 8
      BY <1>0, <1>8
    <3>. QED
      BY <3>1, LastOfWide
  <2>2. \A i \in 1 .. w : /\ 8 - w + i \in 1 .. 8 /\ ~ (8 - w + i <= 8 - w)
                          /\ (8 - w + i) - (8 - w) = i
    BY <1>0
  <2>3. \A i \in 1 .. w : k[i] = data[i]
    BY <1>8, <2>1, <2>2
  <2>. HIDE DEF k
  <2>. QED
    BY <1>3, <2>1, <2>3, Equal DEF k
<1>10. \A i \in 1 .. 8 - w : m[i] = 0
  BY <1>0, <1>5, <1>8, SMTT(30)
<1>. QED
  BY <1>2, <1>8, <1>9, <1>10, WideIsSeq DEF w

(* MAX_VALUE of a type. *)
LEMMA WithinMax ==
  ASSUME NEW type \in Ints, NEW v \in Wide
  PROVE  AtMost(v, MaxValue(type))
           <=> /\ \A i \in 1 .. 8 - Width[type] : v[i] = 0
               /\ type = "bool" => v[8] <= 1
<1>. DEFINE w == Width[type]
            mx == MaxValue(type)
            p == 9 - w
            c == IF type = "bool" THEN 1 ELSE 255
<1>0. w \in 1 .. 8 /\ 8 - w \in Nat /\ p \in 1 .. 8 /\ c \in Byte /\ 0 \in Byte /\ 255 \in Byte
  BY Types DEF Byte
<1>1. mx \in Wide /\ \A i \in 1 .. 8 : mx[i] = IF i < p THEN 0 ELSE IF i = p THEN c ELSE 255
  <2>1. CASE type = "bool"
    <3>. DEFINE z == Filled(7, 0)
    <3>1. z \in Seq(Byte) /\ Len(z) = 7 /\ \A i \in 1 .. 7 : z[i] = 0
      BY <1>0, FilledIs
    <3>. DEFINE one == <<1>>
    <3>2. one \in Seq(Byte) /\ Len(one) = 1 /\ one[1] = 1
      BY DEF Byte
    <3>3. mx = z \o one /\ w = 1 /\ p = 8 /\ c = 1
      BY <2>1, Types DEF MaxValue
    <3>. HIDE DEF z, one, mx, w, p, c
    <3>4. /\ z \o one \in Seq(Byte) /\ Len(z \o one) = Len(z) + Len(one)
          /\ \A i \in 1 .. Len(z) : (z \o one)[i] = z[i]
          /\ \A i \in 1 .. Len(one) : (z \o one)[Len(z) + i] = one[i]
      BY <3>1, <3>2, Joined, Zenon
    <3>5. /\ mx \in Seq(Byte) /\ Len(mx) = 8 /\ mx[7 + 1] = 1
          /\ \A i \in 1 .. 7 : mx[i] = 0
      BY <3>1, <3>2, <3>3, <3>4
    <3>6. mx[8] = 1
      BY <3>5
    <3>7. \A i \in 1 .. 8 : mx[i] = IF i < 8 THEN 0 ELSE 1
      <4>1. \A i \in 1 .. 8 : i = 8 \/ (i < 8 /\ i \in 1 .. 7)
        OBVIOUS
      <4>. QED
        BY <3>5, <3>6, <4>1
    <3>8. ASSUME NEW i \in 1 .. 8
          PROVE  mx[i] = IF i < p THEN 0 ELSE IF i = p THEN c ELSE 255
      <4>1. CASE i < 8
        BY <3>3, <3>7, <4>1
      <4>2. CASE ~ (i < 8)
        <5>1. i = 8 /\ ~ (i < p) /\ i = p
          BY <3>3, <4>2
        <5>. QED
          BY <3>3, <3>6, <5>1
      <4>. QED
        BY <4>1, <4>2
    <3>9. mx \in Wide
      BY <3>5, WideIsSeq
    <3>. QED
      BY <3>8, <3>9
  <2>2. CASE type # "bool"
    <3>. DEFINE z == Filled(8 - w, 0)
                f == Filled(w, 255)
    <3>1. z \in Seq(Byte) /\ Len(z) = 8 - w /\ \A i \in 1 .. 8 - w : z[i] = 0
      <4>1. 8 - w \in Nat /\ 0 \in Byte
        BY <1>0
      <4>. HIDE DEF w
      <4>. QED
        BY <4>1, FilledIs
    <3>2. f \in Seq(Byte) /\ Len(f) = w /\ \A i \in 1 .. w : f[i] = 255
      <4>1. w \in Nat /\ 255 \in Byte
        BY <1>0
      <4>. HIDE DEF w
      <4>. QED
        BY <4>1, FilledIs
    <3>3. mx = z \o f /\ c = 255
      BY <2>2 DEF MaxValue
    <3>4. p = 9 - w
      OBVIOUS
    <3>. HIDE DEF z, f, mx, w, p, c
    <3>5. /\ mx \in Seq(Byte) /\ Len(mx) = Len(z) + Len(f)
          /\ \A i \in 1 .. Len(z) + Len(f) : mx[i] = IF i <= Len(z) THEN z[i] ELSE f[i - Len(z)]
      BY <3>1, <3>2, <3>3, ConcatProperties
    <3>6. Len(z) + Len(f) = 8
      BY <1>0, <3>1, <3>2
    <3>7. ASSUME NEW i \in 1 .. 8
          PROVE  mx[i] = IF i < p THEN 0 ELSE IF i = p THEN c ELSE 255
      <4>1. CASE i <= 8 - w
        <5>1. mx[i] = z[i] /\ i \in 1 .. 8 - w /\ i < p
          BY <1>0, <3>1, <3>4, <3>5, <3>6, <4>1
        <5>. QED
          BY <3>1, <5>1
      <4>2. CASE ~ (i <= 8 - w)
        <5>1. mx[i] = f[i - (8 - w)] /\ i - (8 - w) \in 1 .. w /\ ~ (i < p)
          BY <1>0, <3>1, <3>4, <3>5, <3>6, <4>2, SMTT(30)
        <5>. QED
          BY <3>2, <3>3, <5>1
      <4>. QED
        BY <4>1, <4>2
    <3>. QED
      BY <3>5, <3>6, <3>7, WideIsSeq
  <2>. QED
    BY <2>1, <2>2
<1>. HIDE DEF mx
<1>2. AtMost(v, mx) <=> Below(v, p, c)
  BY <1>0, <1>1, AtMostIsBelow
<1>3. \A i \in 1 .. 8 : i < p <=> i \in 1 .. 8 - w
  BY <1>0
<1>4. v[8] \in Nat /\ v[p] \in Nat /\ v[p] <= 255 /\ (type = "bool" => p = 8)
  <2>1. v[8] \in Byte /\ v[p] \in Byte
    BY <1>0 DEF Wide
  <2>. QED
    BY <2>1, Types DEF Byte
<1>5. \A i \in 1 .. 8 - w : i \in 1 .. 8
  BY <1>0
<1>6. Below(v, p, c) <=> /\ \A i \in 1 .. 8 - w : v[i] = 0
                         /\ type = "bool" => v[8] <= 1
  BY <1>3, <1>4, <1>5 DEF Below
<1>. QED
  BY <1>2, <1>6 DEF mx

-----------------------------------------------------------------------------
(* The operators << and >>. *)

(* What a value takes in the stream, and that reading it there returns it. *)
Carried(type, data, bytes) ==
  /\ bytes \in Seq(Byte) /\ Len(bytes) > 0
  /\ Len(bytes) <= Reserved([type |-> type, data |-> data])
  /\ \A s \in Seq(Byte), offset \in Nat :
       Holds(s, offset, bytes) => Decoded(type, s, offset) = Got(data, offset + Len(bytes))

(* An integer of a type, as it is written and read.                        *)
LEMMA IntegerCarried ==
  ASSUME NEW type \in Ints, NEW data \in Seq(Byte), IsValue(type, data)
  PROVE  LET bytes == WriteInteger(Masked(Extended(type, data), Width[type]))
         IN  /\ bytes \in Seq(Byte) /\ Len(bytes) \in 1 .. Width[type] + 1
             /\ \A s \in Seq(Byte), offset \in Nat :
                  Holds(s, offset, bytes) =>
                    /\ ReadInteger(s, offset).value = Masked(Extended(type, data), Width[type])
                    /\ AtMost(ReadInteger(s, offset).value, MaxValue(type))
                    /\ LastOf(ReadInteger(s, offset).value, Width[type]) = data
                    /\ ReadInteger(s, offset).next = offset + Len(bytes)
<1>. DEFINE w == Width[type]
            v == Masked(Extended(type, data), w)
            bytes == WriteInteger(v)
<1>1. w \in 1 .. 8 /\ Len(data) = w
  <2>1. type \in DOMAIN Width /\ type # "string" /\ w \in 1 .. 8 /\ (type = "bool" => w = 1)
    BY IntsAre
  <2>. HIDE DEF w
  <2>2. CASE type = "bool"
    <3>1. data \in {<<0>>, <<1>>}
      BY <2>2 DEF IsValue
    <3>. QED
      BY <2>1, <2>2, <3>1
  <2>3. CASE type # "bool"
    <3>1. Len(data) = w
      BY <2>1, <2>3 DEF IsValue, w
    <3>. QED
      BY <2>1, <3>1
  <2>. QED
    BY <2>2, <2>3
<1>2. v \in Wide /\ (\A i \in 1 .. 8 - w : v[i] = 0) /\ LastOf(v, w) = data
  BY <1>1, MaskedIs
<1>3. type = "bool" => v[8] <= 1
  <2>. SUFFICES ASSUME type = "bool" PROVE v[8] <= 1
    OBVIOUS
  <2>1. data[1] \in {0, 1} /\ w = 1
    <3>1. data = <<0>> \/ data = <<1>>
      BY DEF IsValue
    <3>. QED
      BY <3>1, Types
  <2>2. v \in Seq(Byte) /\ Len(v) = 8
    BY <1>2, WideIsSeq
  <2>. HIDE DEF v, w
  <2>3. LastOf(v, 1)[1] = v[8 - 1 + 1]
    <3>1. 1 \in 0 .. 8 /\ 1 \in 1 .. 1
      OBVIOUS
    <3>2. \A i \in 1 .. 1 : LastOf(v, 1)[i] = v[8 - 1 + i]
      BY <2>2, <3>1, LastOfWide, Zenon
    <3>. QED
      BY <3>1, <3>2, Zenon
  <2>4. v[8] = data[1]
    BY <1>2, <2>1, <2>3
  <2>. QED
    BY <2>1, <2>4
<1>4. AtMost(v, MaxValue(type))
  BY <1>2, <1>3, WithinMax
<1>. HIDE DEF v
<1>5. PICK c \in 1 .. w + 1 : Written(v, c, bytes)
  BY <1>1, <1>2, WriteIs
<1>. HIDE DEF bytes
<1>6. bytes \in Seq(Byte) /\ Len(bytes) = c
  BY <1>5 DEF Written
<1>7. ASSUME NEW s \in Seq(Byte), NEW offset \in Nat, Holds(s, offset, bytes)
      PROVE  ReadInteger(s, offset) = [value |-> v, next |-> offset + c]
  BY <1>2, <1>5, <1>7, ReadsWritten
<1>8. ASSUME NEW s \in Seq(Byte), NEW offset \in Nat, Holds(s, offset, bytes)
      PROVE  /\ ReadInteger(s, offset).value = v
             /\ ReadInteger(s, offset).next = offset + Len(bytes)
  BY <1>6, <1>7, <1>8
<1>9. ASSUME NEW s \in Seq(Byte), NEW offset \in Nat, Holds(s, offset, bytes)
      PROVE  /\ AtMost(ReadInteger(s, offset).value, MaxValue(type))
             /\ LastOf(ReadInteger(s, offset).value, w) = data
  BY <1>2, <1>4, <1>8, <1>9
<1>. HIDE DEF w
<1>. QED
  BY <1>5, <1>6, <1>8, <1>9, Zenon DEF bytes, v, w

(* The stream holds at least what it holds. *)
LEMMA EndsWithin ==
  ASSUME NEW s \in Seq(Byte), NEW offset \in Nat, NEW bytes \in Seq(Byte),
         Holds(s, offset, bytes), Len(bytes) > 0
  PROVE  ~ (offset >= Len(s)) /\ offset + Len(bytes) <= Len(s)
BY DEF Holds

LEMMA GotIs ==
  ASSUME NEW data, NEW next
  PROVE  Got(data, next).ok = TRUE /\ Got(data, next).data = data /\ Got(data, next).next = next
BY DEF Got

LEMMA IntCarried ==
  ASSUME NEW type \in Ints, NEW data \in Seq(Byte), IsValue(type, data)
  PROVE  Carried(type, data, Encoded(type, data))
<1>. DEFINE bytes == WriteInteger(Masked(Extended(type, data), Width[type]))
<1>1. /\ bytes \in Seq(Byte) /\ Len(bytes) \in 1 .. Width[type] + 1
      /\ \A s \in Seq(Byte), offset \in Nat :
           Holds(s, offset, bytes) =>
             /\ AtMost(ReadInteger(s, offset).value, MaxValue(type))
             /\ LastOf(ReadInteger(s, offset).value, Width[type]) = data
             /\ ReadInteger(s, offset).next = offset + Len(bytes)
  BY IntegerCarried, Zenon
<1>0. type \in DOMAIN Width /\ type # "string"
  BY IntsAre
<1>2. Encoded(type, data) = bytes
  BY <1>0 DEF Encoded
<1>. HIDE DEF bytes
<1>3. Reserved([type |-> type, data |-> data]) = Width[type] + 1
  BY <1>0 DEF Reserved
<1>4. ASSUME NEW s \in Seq(Byte), NEW offset \in Nat, Holds(s, offset, bytes)
      PROVE  Decoded(type, s, offset) = Got(data, offset + Len(bytes))
  <2>1. ~ (offset >= Len(s)) /\ offset + Len(bytes) <= Len(s)
    BY <1>1, <1>4, EndsWithin
  <2>2. ReadTyped(type, s, offset) = Got(data, offset + Len(bytes))
    <3>1. /\ AtMost(ReadInteger(s, offset).value, MaxValue(type))
          /\ LastOf(ReadInteger(s, offset).value, Width[type]) = data
          /\ ReadInteger(s, offset).next = offset + Len(bytes)
      BY <1>1, <1>4, Zenon
    <3>. QED
      BY <3>1, Zenon DEF ReadTyped
  <2>. DEFINE read == ReadTyped(type, s, offset)
  <2>3. Decoded(type, s, offset) = IF read.next <= Len(s) THEN read ELSE Refused
    BY <1>0, <2>1 DEF Decoded
  <2>4. read.next = offset + Len(bytes)
    BY <2>2 DEF Got
  <2>. HIDE DEF read
  <2>5. Decoded(type, s, offset) = read
    BY <2>1, <2>3, <2>4
  <2>. QED
    BY <2>2, <2>5 DEF read
<1>. QED
  BY <1>1, <1>2, <1>3, <1>4, Types DEF Carried

(* The length of a string, as a uint32_t. *)
LEMMA SizeIs ==
  ASSUME NEW n \in Nat, n \div 65536 < 65536
  PROVE  /\ SizeBytes(n) \in Seq(Byte) /\ Len(SizeBytes(n)) = 4
         /\ \A v : (\A i \in 1 .. 4 : v[4 + i] = SizeBytes(n)[i]) => SizeOf(v) = n
<1>. DEFINE a == (n \div 16777216) % 256
            b == (n \div 65536) % 256
            c == (n \div 256) % 256
            d == n % 256
<1>1. a \in Byte /\ b \in Byte /\ c \in Byte /\ d \in Byte
  BY DEF Byte
<1>2. a * 16777216 + b * 65536 + c * 256 + d = n
  OBVIOUS
<1>3. SizeBytes(n) = <<a, b, c, d>>
  BY DEF SizeBytes
<1>. HIDE DEF a, b, c, d
<1>4. ASSUME NEW v, \A i \in 1 .. 4 : v[4 + i] = SizeBytes(n)[i]
      PROVE  SizeOf(v) = n
  <2>1. v[4 + 1] = a /\ v[4 + 2] = b /\ v[4 + 3] = c /\ v[4 + 4] = d
    BY <1>3, <1>4
  <2>2. v[5] = a /\ v[6] = b /\ v[7] = c /\ v[8] = d
    BY <2>1
  <2>. QED
    BY <1>2, <2>2 DEF SizeOf
<1>. QED
  BY <1>1, <1>3, <1>4

LEMMA StringCarried ==
  ASSUME NEW data \in Seq(Byte), IsValue("string", data)
  PROVE  Carried("string", data, Encoded("string", data))
<1>. DEFINE n == Len(data)
            size == SizeBytes(n)
            v == Masked(Extended("uint32", size), Width["uint32"])
            x == Extended("uint32", size)
            first == WriteInteger(x)
            bytes == first \o data
            w == Width["uint32"]
<1>0. "uint32" \in Ints /\ w = 4 /\ n \in Nat
  BY Types DEF Ints
<1>1. n \div 65536 < 65536
  BY DEF IsValue
<1>2. /\ size \in Seq(Byte) /\ Len(size) = 4
      /\ \A u : (\A i \in 1 .. 4 : u[4 + i] = size[i]) => SizeOf(u) = n
  BY <1>0, <1>1, SizeIs
<1>. HIDE DEF size
<1>3. IsValue("uint32", size)
  BY <1>0, <1>2, Types DEF IsValue, Ints
<1>4. x = v
  <2>. DEFINE zeros == Filled(8 - 4, 0)
  <2>1. x = zeros \o size
    BY <1>2 DEF Extended, Signed
  <2>2. zeros \in Seq(Byte) /\ Len(zeros) = 4
    <3>1. 0 \in Byte /\ 8 - 4 = 4 /\ 4 \in Nat
      BY DEF Byte
    <3>. QED
      BY <3>1, FilledIs
  <2>3. v = zeros \o LastOf(x, 4)
    BY <1>0 DEF Masked
  <2>. HIDE DEF zeros, x, v
  <2>4. x \in Seq(Byte) /\ Len(x) = 8 /\ \A i \in 1 .. 4 : x[4 + i] = size[i]
    <3>1. /\ zeros \o size \in Seq(Byte) /\ Len(zeros \o size) = Len(zeros) + Len(size)
          /\ \A i \in 1 .. Len(size) : (zeros \o size)[Len(zeros) + i] = size[i]
      BY <1>2, <2>2, Joined, Zenon
    <3>. QED
      BY <1>2, <2>1, <2>2, <3>1
  <2>5. /\ LastOf(x, 4) \in Seq(Byte) /\ Len(LastOf(x, 4)) = 4
        /\ \A i \in 1 .. 4 : LastOf(x, 4)[i] = x[8 - 4 + i]
    <3>1. 4 \in 0 .. 8
      OBVIOUS
    <3>. QED
      BY <2>4, <3>1, LastOfWide, Zenon
  <2>6. ASSUME NEW i \in 1 .. 4 PROVE LastOf(x, 4)[i] = size[i]
    <3>1. 8 - 4 + i = 4 + i
      OBVIOUS
    <3>. QED
      BY <2>4, <2>5, <3>1
  <2>7. LastOf(x, 4) = size
    BY <1>2, <2>5, <2>6, Equal
  <2>. QED
    BY <2>1, <2>3, <2>7
<1>5. /\ v \in Wide /\ LastOf(v, 4) = size
  BY <1>0, <1>2, MaskedIs
<1>6. SizeOf(v) = n
  <2>. HIDE DEF v
  <2>1. v \in Seq(Byte) /\ Len(v) = 8
    BY <1>5, WideIsSeq
  <2>2. \A i \in 1 .. 4 : LastOf(v, 4)[i] = v[8 - 4 + i]
    <3>1. 4 \in 0 .. 8
      OBVIOUS
    <3>. QED
      BY <2>1, <3>1, LastOfWide, Zenon
  <2>3. \A i \in 1 .. 4 : v[4 + i] = size[i]
    <3>1. \A i \in 1 .. 4 : 8 - 4 + i = 4 + i
      OBVIOUS
    <3>. QED
      BY <1>5, <2>2, <3>1
  <2>. QED
    BY <1>2, <2>3
<1>7. /\ first \in Seq(Byte) /\ Len(first) \in 1 .. 5
      /\ \A s \in Seq(Byte), offset \in Nat :
           Holds(s, offset, first) =>
             /\ ReadInteger(s, offset).value = v
             /\ AtMost(ReadInteger(s, offset).value, MaxValue("uint32"))
             /\ ReadInteger(s, offset).next = offset + Len(first)
  <2>. DEFINE f == WriteInteger(v)
  <2>1. /\ f \in Seq(Byte) /\ Len(f) \in 1 .. w + 1
        /\ \A s \in Seq(Byte), offset \in Nat :
             Holds(s, offset, f) =>
               /\ ReadInteger(s, offset).value = v
               /\ AtMost(ReadInteger(s, offset).value, MaxValue("uint32"))
               /\ ReadInteger(s, offset).next = offset + Len(f)
    BY <1>0, <1>2, <1>3, IntegerCarried, ZenonT(40)
  <2>2. f = first
    BY <1>4
  <2>3. w + 1 = 5
    BY <1>0
  <2>. HIDE DEF f, first, v, w
  <2>. QED
    BY <2>1, <2>2, <2>3
<1>8. Encoded("string", data) = bytes
  <2>1. "string" \notin DOMAIN Width
    BY Types DEF Ints
  <2>. QED
    BY <2>1, Zenon DEF Encoded, size
<1>9. Reserved([type |-> "string", data |-> data]) = n + 5
  BY Types DEF Reserved, Ints
<1>. HIDE DEF first, v, n
<1>10. /\ bytes \in Seq(Byte) /\ Len(bytes) = Len(first) + n
       /\ \A i \in 1 .. Len(first) + n :
            bytes[i] = IF i <= Len(first) THEN first[i] ELSE data[i - Len(first)]
  BY <1>7, ConcatProperties DEF n
<1>. HIDE DEF bytes
<1>11. ASSUME NEW s \in Seq(Byte), NEW offset \in Nat, Holds(s, offset, bytes)
       PROVE  Decoded("string", s, offset) = Got(data, offset + Len(bytes))
  <2>. DEFINE l == Len(first)
              next == offset + l
  <2>0. l \in 1 .. 5
    BY <1>7
  <2>. HIDE DEF l
  <2>1. ~ (offset >= Len(s)) /\ offset + l + n <= Len(s) /\ offset + Len(bytes) = next + n
    <3>1. offset + Len(bytes) <= Len(s) /\ Len(bytes) = l + n
      BY <1>10, <1>11 DEF Holds, l
    <3>. QED
      BY <1>0, <2>0, <3>1
  <2>2. \A i \in 1 .. l + n : s[offset + i] = bytes[i]
    BY <1>10, <1>11 DEF Holds, l
  <2>3. Holds(s, offset, first)
    <3>1. offset + l <= Len(s)
      BY <1>0, <2>0, <2>1
    <3>2. \A i \in 1 .. l : i \in 1 .. l + n /\ bytes[i] = first[i]
      BY <1>0, <1>10, <2>0 DEF l
    <3>. QED
      BY <2>2, <3>1, <3>2 DEF Holds, l
  <2>4. /\ ReadInteger(s, offset).value = v
        /\ AtMost(ReadInteger(s, offset).value, MaxValue("uint32"))
        /\ ReadInteger(s, offset).next = next
    BY <1>7, <2>3, Zenon DEF l
  <2>5. next \in Nat /\ next + n <= Len(s)
    BY <1>0, <2>0, <2>1
  <2>6. Slice(s, next, n) = data
    <3>1. /\ Slice(s, next, n) \in Seq(Byte) /\ Len(Slice(s, next, n)) = n
          /\ \A i \in 1 .. n : Slice(s, next, n)[i] = s[next + i]
      BY <1>0, <2>5, SliceIs
    <3>2. ASSUME NEW i \in 1 .. n PROVE s[next + i] = data[i]
      <4>1. l + i \in 1 .. l + n /\ ~ (l + i <= l) /\ l + i - l = i /\ offset + (l + i) = next + i
        BY <1>0, <2>0
      <4>2. bytes[l + i] = data[i]
        BY <1>10, <4>1 DEF l
      <4>3. s[offset + (l + i)] = bytes[l + i]
        BY <2>2, <4>1
      <4>. QED
        BY <4>1, <4>2, <4>3
    <3>3. data \in Seq(Byte) /\ Len(data) = n
      BY DEF n
    <3>4. \A i \in 1 .. n : Slice(s, next, n)[i] = data[i]
      BY <3>1, <3>2
    <3>. HIDE DEF next
    <3>. QED
      BY <3>1, <3>3, <3>4, Equal
  <2>. HIDE DEF next
  <2>7. ReadString(s, offset) = Got(data, next + n)
    BY <1>6, <2>4, <2>6 DEF ReadString
  <2>. DEFINE read == ReadString(s, offset)
  <2>8. Decoded("string", s, offset) = IF read.next <= Len(s) THEN read ELSE Refused
    BY <2>1, Types DEF Decoded, Ints
  <2>9. read.next = next + n
    BY <2>7 DEF Got
  <2>. HIDE DEF read
  <2>. QED
    BY <2>1, <2>5, <2>7, <2>8, <2>9 DEF read
<1>12. Len(bytes) > 0 /\ Len(bytes) <= n + 5
  <2>. DEFINE l == Len(first)
  <2>1. l \in 1 .. 5 /\ Len(bytes) = l + n /\ n \in Nat
    BY <1>0, <1>7, <1>10
  <2>. HIDE DEF l
  <2>. QED
    BY <2>1
<1>. QED
  BY <1>8, <1>9, <1>10, <1>11, <1>12 DEF Carried

(* A float and a double are copied. *)
LEMMA RawCarried ==
  ASSUME NEW type \in DOMAIN RawWidth, NEW data \in Seq(Byte), IsValue(type, data)
  PROVE  Carried(type, data, Encoded(type, data))
<1>. DEFINE w == RawWidth[type]
<1>1. type \notin Ints /\ type # "string" /\ w \in {4, 8}
  BY Types DEF Ints
<1>2. Len(data) = w
  BY <1>1, Types DEF IsValue, Ints
<1>3. Encoded(type, data) = data
  BY <1>1, Types DEF Encoded
<1>4. Reserved([type |-> type, data |-> data]) = w
  BY <1>1, <1>2, Types DEF Reserved
<1>5. ASSUME NEW s \in Seq(Byte), NEW offset \in Nat, Holds(s, offset, data)
      PROVE  Decoded(type, s, offset) = Got(data, offset + Len(data))
  <2>1. ~ (offset >= Len(s)) /\ offset + w <= Len(s)
    BY <1>1, <1>2, <1>5 DEF Holds
  <2>2. Slice(s, offset, w) = data
    <3>1. /\ Slice(s, offset, w) \in Seq(Byte) /\ Len(Slice(s, offset, w)) = w
          /\ \A i \in 1 .. w : Slice(s, offset, w)[i] = s[offset + i]
      <4>1. w \in Nat /\ offset + w <= Len(s)
        BY <1>1, <2>1
      <4>. HIDE DEF w
      <4>. QED
        BY <4>1, SliceIs
    <3>2. \A i \in 1 .. w : Slice(s, offset, w)[i] = data[i]
      BY <1>2, <1>5, <3>1 DEF Holds
    <3>. HIDE DEF w
    <3>. QED
      BY <1>2, <3>1, <3>2, Equal
  <2>. DEFINE read == Got(Slice(s, offset, RawWidth[type]), offset + RawWidth[type])
  <2>3. Decoded(type, s, offset) = IF read.next <= Len(s) THEN read ELSE Refused
    BY <1>1, <2>1, Types DEF Decoded
  <2>4. read.next = offset + w /\ read = Got(data, offset + w)
    BY <2>2, GotIs, ZenonT(40)
  <2>. HIDE DEF read, w
  <2>. QED
    BY <1>2, <2>1, <2>3, <2>4
<1>. QED
  BY <1>1, <1>2, <1>3, <1>4, <1>5 DEF Carried

LEMMA ItemCarried ==
  ASSUME NEW item \in Item
  PROVE  Carried(item.type, item.data, Encoded(item.type, item.data))
<1>1. item.type \in Ints \cup DOMAIN RawWidth \cup {"string"} /\ item.data \in Seq(Byte)
      /\ IsValue(item.type, item.data)
  BY Types DEF Item
<1>. QED
  BY <1>1, IntCarried, StringCarried, RawCarried

-----------------------------------------------------------------------------
(* The bytes reserved for one more value. *)
LEMMA ReservedMore ==
  ASSUME NEW s \in Seq(Item), NEW item \in Item, IsFiniteSet(ReservedFor(s))
  PROVE  /\ IsFiniteSet(ReservedFor(Append(s, item)))
         /\ Cardinality(ReservedFor(Append(s, item)))
              = Cardinality(ReservedFor(s)) + Reserved(item)
         /\ Cardinality(ReservedFor(s)) \in Nat
<1>. DEFINE n == Len(s) + 1
            t == Append(s, item)
            r == Reserved(item)
            new == {n} \X (1 .. r)
            cells(i) == {i} \X (1 .. Reserved(t[i]))
<1>0. n \in Nat /\ Len(s) \in Nat
  OBVIOUS
<1>1. r \in Nat
  <2>1. item.type \in Ints \cup DOMAIN RawWidth \cup {"string"} /\ item.data \in Seq(Byte)
    BY Types DEF Item
  <2>2. Len(item.data) \in Nat
    BY <2>1
  <2>3. CASE item.type \in Ints
    BY <2>3, Types DEF Reserved
  <2>4. CASE item.type \notin Ints
    <3>1. r = Len(item.data) + 5 \/ r = Len(item.data)
      BY <2>4, Types DEF Reserved
    <3>. QED
      BY <2>2, <3>1
  <2>. QED
    BY <2>3, <2>4
<1>2. DOMAIN t = (DOMAIN s) \cup {n} /\ DOMAIN s = 1 .. Len(s) /\ t[n] = item
      /\ \A i \in DOMAIN s : t[i] = s[i] /\ i # n
  OBVIOUS
<1>. HIDE DEF n, t
<1>3. ReservedFor(t) = ReservedFor(s) \cup new
  <2>1. \A i \in DOMAIN s : cells(i) = {i} \X (1 .. Reserved(s[i]))
    BY <1>2
  <2>2. cells(n) = new
    BY <1>2
  <2>3. ReservedFor(t) = UNION {cells(i) : i \in DOMAIN t}
    BY DEF ReservedFor
  <2>4. ReservedFor(s) = UNION {cells(i) : i \in DOMAIN s}
    BY <2>1 DEF ReservedFor
  <2>. HIDE DEF cells, new
  <2>. QED
    BY <1>2, <2>2, <2>3, <2>4
<1>4. ReservedFor(s) \cap new = {}
  <2>1. ASSUME NEW x \in ReservedFor(s), x \in new PROVE FALSE
    <3>1. PICK i \in DOMAIN s : x \in {i} \X (1 .. Reserved(s[i]))
      BY <2>1 DEF ReservedFor
    <3>2. x[1] = i /\ x[1] = n
      BY <2>1, <3>1
    <3>. QED
      BY <1>2, <3>2
  <2>. QED
    BY <2>1
<1>5. IsFiniteSet(new) /\ Cardinality(new) = r
  <2>1. IsFiniteSet({n}) /\ Cardinality({n}) = 1
    BY FS_Singleton
  <2>2. IsFiniteSet(1 .. r) /\ Cardinality(1 .. r) = r
    <3>1. 1 \in Int /\ r \in Int
      BY <1>1
    <3>. HIDE DEF r
    <3>2. IsFiniteSet(1 .. r) /\ Cardinality(1 .. r) = IF 1 > r THEN 0 ELSE r - 1 + 1
      BY <3>1, FS_Interval
    <3>. QED
      BY <1>1, <3>2
  <2>. HIDE DEF r
  <2>3. IsFiniteSet(new) /\ Cardinality(new) = 1 * r
    BY <2>1, <2>2, FS_Product, ZenonT(40)
  <2>. QED
    BY <1>1, <2>3
<1>6. Cardinality(ReservedFor(s)) \in Nat
  BY FS_CardinalityType
<1>. HIDE DEF new, r
<1>7. /\ IsFiniteSet(ReservedFor(s) \cup new)
      /\ Cardinality(ReservedFor(s) \cup new)
           = Cardinality(ReservedFor(s)) + Cardinality(new) - Cardinality(ReservedFor(s) \cap new)
  BY <1>5, FS_Union
<1>8. Cardinality(ReservedFor(s) \cap new) = 0
  BY <1>4, FS_EmptySet
<1>9. Cardinality(ReservedFor(s) \cup new) = Cardinality(ReservedFor(s)) + r
  BY <1>1, <1>5, <1>6, <1>7, <1>8
<1>. QED
  BY <1>3, <1>6, <1>7, <1>9 DEF r, t

LEMMA ReservedNone == IsFiniteSet(ReservedFor(<< >>)) /\ Cardinality(ReservedFor(<< >>)) = 0
<1>1. ReservedFor(<< >>) = {}
  BY DEF ReservedFor
<1>. QED
  BY <1>1, FS_EmptySet

-----------------------------------------------------------------------------
(* Where the values lie in the bytes of a stream: one after the other, to  *)
(* the end.                                                                *)
Code(item) == Encoded(item.type, item.data)

Laid(pos, s, bytes) ==
  /\ pos \in [0 .. Len(s) -> Nat]
  /\ pos[0] = 0 /\ pos[Len(s)] = Len(bytes)
  /\ \A i \in 1 .. Len(s) : /\ pos[i] = pos[i - 1] + Len(Code(s[i]))
                            /\ Holds(bytes, pos[i - 1], Code(s[i]))

LEMMA LaidMore ==
  ASSUME NEW s \in Seq(Item), NEW item \in Item, NEW bytes \in Seq(Byte),
         NEW pos, Laid(pos, s, bytes), Code(item) \in Seq(Byte)
  PROVE  \E new : /\ Laid(new, Append(s, item), bytes \o Code(item))
                  /\ \A i \in 0 .. Len(s) : new[i] = pos[i]
<1>. DEFINE n == Len(s)
            t == Append(s, item)
            code == Code(item)
            more == bytes \o code
            new == [i \in 0 .. n + 1 |-> IF i = n + 1 THEN Len(more) ELSE pos[i]]
<1>0. n \in Nat /\ Len(code) \in Nat /\ Len(bytes) \in Nat
  OBVIOUS
<1>1. Len(t) = n + 1 /\ t[n + 1] = item /\ \A i \in 1 .. n : t[i] = s[i]
  OBVIOUS
<1>2. /\ more \in Seq(Byte) /\ Len(more) = Len(bytes) + Len(code)
      /\ \A i \in 1 .. Len(bytes) + Len(code) :
           more[i] = IF i <= Len(bytes) THEN bytes[i] ELSE code[i - Len(bytes)]
  BY ConcatProperties
<1>3. /\ pos \in [0 .. n -> Nat] /\ pos[0] = 0 /\ pos[n] = Len(bytes)
      /\ \A i \in 1 .. n : /\ pos[i] = pos[i - 1] + Len(Code(s[i]))
                           /\ Holds(bytes, pos[i - 1], Code(s[i]))
  BY DEF Laid
<1>. HIDE DEF n, t, code, more
<1>4. Len(more) \in Nat
  BY <1>0, <1>2
<1>5. new \in [0 .. n + 1 -> Nat]
  <2>1. ASSUME NEW i \in 0 .. n + 1, i # n + 1 PROVE pos[i] \in Nat
    <3>1. i \in 0 .. n
      BY <1>0, <2>1
    <3>. QED
      BY <1>3, <3>1
  <2>. QED
    BY <1>4, <2>1
<1>6. /\ \A i \in 0 .. n : new[i] = pos[i]
      /\ new[n + 1] = Len(more)
  BY <1>0
<1>. HIDE DEF new
<1>7. new[0] = 0
  BY <1>0, <1>3, <1>6
<1>8. ASSUME NEW i \in 1 .. n + 1
      PROVE  new[i] = new[i - 1] + Len(Code(t[i])) /\ Holds(more, new[i - 1], Code(t[i]))
  <2>1. CASE i = n + 1
    <3>1. i - 1 = n /\ n \in 0 .. n /\ t[i] = item
      BY <1>0, <1>1, <2>1
    <3>2. new[i - 1] = Len(bytes) /\ new[i] = Len(more) /\ Code(t[i]) = code
      BY <1>3, <1>6, <2>1, <3>1 DEF code
    <3>3. \A j \in 1 .. Len(code) : /\ Len(bytes) + j \in 1 .. Len(bytes) + Len(code)
                                    /\ ~ (Len(bytes) + j <= Len(bytes))
                                    /\ (Len(bytes) + j) - Len(bytes) = j
      BY <1>0
    <3>4. \A j \in 1 .. Len(code) : more[Len(bytes) + j] = code[j]
      BY <1>2, <3>3
    <3>5. Holds(more, Len(bytes), code)
      BY <1>0, <1>2, <3>4 DEF Holds
    <3>. QED
      BY <1>2, <3>2, <3>5
  <2>2. CASE i # n + 1
    <3>1. i \in 1 .. n /\ i - 1 \in 0 .. n /\ i \in 0 .. n
      BY <1>0, <2>2
    <3>2. t[i] = s[i] /\ new[i] = pos[i] /\ new[i - 1] = pos[i - 1]
      BY <1>1, <1>6, <3>1
    <3>. DEFINE c == Code(s[i])
                o == pos[i - 1]
    <3>3. o \in Nat /\ pos[i] \in Nat /\ pos[i] = o + Len(c) /\ Holds(bytes, o, c)
      BY <1>3, <3>1
    <3>4. Len(c) \in Nat
      <4>1. s[i] \in Item
        BY <3>1 DEF n
      <4>2. c \in Seq(Byte)
        BY <4>1, ItemCarried DEF Carried, Code
      <4>. QED
        BY <4>2
    <3>. HIDE DEF c, o
    <3>5. o + Len(c) <= Len(bytes) /\ \A j \in 1 .. Len(c) : bytes[o + j] = c[j]
      BY <3>3 DEF Holds
    <3>6. \A j \in 1 .. Len(c) : o + j \in 1 .. Len(bytes) + Len(code) /\ o + j <= Len(bytes)
      BY <1>0, <3>3, <3>4, <3>5
    <3>7. \A j \in 1 .. Len(c) : more[o + j] = c[j]
      BY <1>2, <3>5, <3>6
    <3>8. o + Len(c) <= Len(more)
      BY <1>0, <1>2, <3>3, <3>4, <3>5
    <3>9. Holds(more, o, c)
      BY <3>7, <3>8 DEF Holds
    <3>. QED
      BY <3>2, <3>3, <3>9 DEF c, o
  <2>. QED
    BY <2>1, <2>2
<1>9. Laid(new, t, more)
  BY <1>1, <1>5, <1>6, <1>7, <1>8 DEF Laid
<1>. QED
  BY <1>6, <1>9 DEF t, more, n, code

-----------------------------------------------------------------------------
(* The streams.  While a program writes and while it reads, the values lie *)
(* in the stream one after the other, the reader stands between two of     *)
(* them, and no value took more than was reserved for it.                  *)
Between(s, bytes, offset, n) == \E pos : Laid(pos, s, bytes) /\ offset = pos[n]

StreamInv ==
  /\ items \in Seq(Item) /\ out \in Seq(Byte)
  /\ Len(got) \in 0 .. Len(items)
  /\ got \in Seq(Item) /\ \A i \in 1 .. Len(got) : got[i] = items[i]
  /\ at = "write" => got = << >>
  /\ at \in {"write", "read"} => Between(items, out, in, Len(got))
  /\ IsFiniteSet(ReservedFor(items))
  /\ at = "write" => Len(out) <= Cardinality(ReservedFor(items))
  /\ at = "full" => Cardinality(ReservedFor(items)) > Room
  /\ at # "failed"

LEMMA InitStream == Init => StreamInv
<1>. SUFFICES ASSUME Init PROVE StreamInv
  OBVIOUS
<1>1. at \in {"write", "text"} /\ out = << >> /\ items = << >> /\ in = 0 /\ got = << >>
  BY DEF Init
<1>. DEFINE pos == [i \in 0 .. 0 |-> 0]
<1>2. Laid(pos, << >>, << >>) /\ pos[0] = 0
  BY DEF Laid
<1>. HIDE DEF pos
<1>3. Between(items, out, in, Len(got))
  BY <1>1, <1>2 DEF Between
<1>. QED
  BY <1>1, <1>3, ReservedNone DEF StreamInv

LEMMA PutStream == StreamInv /\ Put => StreamInv'
<1>. SUFFICES ASSUME StreamInv, Put PROVE StreamInv'
  OBVIOUS
<1>. USE DEF StreamInv
<1>1. /\ at = "write" /\ Len(items) < Len(Items) /\ UNCHANGED <<in, got>>
  BY DEF Put
<1>2. PICK item \in Items[Len(items) + 1] :
        LET bytes == Encoded(item.type, item.data)
        IN  /\ items' = Append(items, item)
            /\ IF Len(out) + Len(bytes) <= Room
                 THEN out' = out \o bytes /\ UNCHANGED at
                 ELSE at' = "full" /\ UNCHANGED out
  BY DEF Put
<1>. DEFINE code == Code(item)
<1>3. /\ items' = Append(items, item)
      /\ \/ Len(out) + Len(code) <= Room /\ out' = out \o code /\ at' = at
         \/ ~ (Len(out) + Len(code) <= Room) /\ at' = "full" /\ out' = out
  BY <1>2 DEF Code
<1>4. item \in Item
  <2>1. Len(items) + 1 \in 1 .. Len(Items) /\ Items \in Seq(SUBSET Item)
    BY <1>1, CodecsAssumption
  <2>2. Items[Len(items) + 1] \in SUBSET Item
    BY <2>1
  <2>. QED
    BY <1>2, <2>2
<1>5. code \in Seq(Byte) /\ Len(code) <= Reserved([type |-> item.type, data |-> item.data])
  BY <1>4, ItemCarried DEF Carried, Code
<1>6. [type |-> item.type, data |-> item.data] = item
  BY <1>4 DEF Item
<1>7. /\ IsFiniteSet(ReservedFor(items'))
      /\ Cardinality(ReservedFor(items')) = Cardinality(ReservedFor(items)) + Reserved(item)
      /\ Cardinality(ReservedFor(items)) \in Nat /\ Cardinality(ReservedFor(items')) \in Nat
  <2>1. /\ IsFiniteSet(ReservedFor(items'))
        /\ Cardinality(ReservedFor(items')) = Cardinality(ReservedFor(items)) + Reserved(item)
        /\ Cardinality(ReservedFor(items)) \in Nat
    BY <1>3, <1>4, ReservedMore
  <2>. QED
    BY <2>1, FS_CardinalityType
<1>8. Len(out) + Len(code) <= Cardinality(ReservedFor(items'))
  <2>1. Len(code) <= Reserved(item) /\ Len(out) \in Nat /\ Len(code) \in Nat
    BY <1>5, <1>6
  <2>2. Len(out) <= Cardinality(ReservedFor(items))
    BY <1>1
  <2>3. Reserved(item) \in Int
    <3>1. CASE item.type \in Ints
      <4>1. /\ item.type \in DOMAIN Width /\ item.type # "string"
            /\ Width[item.type] \in 1 .. 8
        BY <3>1, IntsAre
      <4>2. Reserved(item) = Width[item.type] + 1
        BY <4>1 DEF Reserved
      <4>. QED
        BY <4>1, <4>2
    <3>2. CASE item.type \notin Ints
      <4>1. Len(item.data) \in Nat
        BY <1>4 DEF Item
      <4>2. Reserved(item) = Len(item.data) + 5 \/ Reserved(item) = Len(item.data)
        BY <3>2, Types DEF Reserved
      <4>. QED
        BY <4>1, <4>2
    <3>. QED
      BY <3>1, <3>2
  <2>. HIDE DEF code
  <2>. QED
    BY <1>7, <2>1, <2>2, <2>3
<1>. HIDE DEF code
<1>9. /\ items' \in Seq(Item) /\ Len(items') = Len(items) + 1
      /\ \A i \in 1 .. Len(items) : items'[i] = items[i]
  BY <1>3, <1>4
<1>10. out' \in Seq(Byte)
  <2>1. out \in Seq(Byte) /\ code \in Seq(Byte) /\ (out' = out \o code \/ out' = out)
    BY <1>1, <1>3, <1>5 DEF code
  <2>2. out \o code \in Seq(Byte)
    BY <2>1, Joined, Zenon
  <2>. QED
    BY <2>1, <2>2, Zenon
<1>11. got' = << >> /\ got' \in Seq(Item) /\ Len(got') = 0
  BY <1>1
<1>12. CASE Len(out) + Len(code) <= Room /\ out' = out \o code /\ at' = at
  <2>1. PICK pos : Laid(pos, items, out) /\ in = pos[Len(got)]
    BY <1>1 DEF Between
  <2>2. PICK new : /\ Laid(new, Append(items, item), out \o code)
                   /\ \A i \in 0 .. Len(items) : new[i] = pos[i]
    BY <1>4, <1>5, <2>1, LaidMore DEF code
  <2>3. in' = new[Len(got')]
    BY <1>1, <2>1, <2>2
  <2>4. Between(items', out', in', Len(got'))
    BY <1>3, <1>12, <2>2, <2>3 DEF Between
  <2>5. Len(out') <= Cardinality(ReservedFor(items'))
    BY <1>5, <1>8, <1>12
  <2>. QED
    BY <1>1, <1>7, <1>9, <1>10, <1>11, <1>12, <2>4, <2>5
<1>13. CASE ~ (Len(out) + Len(code) <= Room) /\ at' = "full"
  <2>1. Cardinality(ReservedFor(items')) > Room
    <3>1. Room \in Nat /\ Len(out) \in Nat /\ Len(code) \in Nat
      BY <1>5, CodecsAssumption
    <3>. QED
      BY <1>7, <1>8, <1>13, <3>1
  <2>. QED
    BY <1>7, <1>9, <1>10, <1>11, <1>13, <2>1
<1>. QED
  BY <1>3, <1>12, <1>13

LEMMA GetStream == StreamInv /\ Get => StreamInv'
<1>. SUFFICES ASSUME StreamInv, Get PROVE StreamInv'
  OBVIOUS
<1>. DEFINE item == items[Len(got) + 1]
            read == Decoded(item.type, out, in)
            n == Len(got)
<1>0. items \in Seq(Item) /\ out \in Seq(Byte) /\ n \in 0 .. Len(items) /\ got \in Seq(Item)
  BY DEF StreamInv
<1>1. at = "read" /\ n < Len(items) /\ UNCHANGED <<out, items>>
  BY DEF Get
<1>2. \/ read.ok /\ got' = Append(got, [type |-> item.type, data |-> read.data])
                 /\ in' = read.next /\ at' = at
      \/ ~ read.ok
  BY DEF Get
<1>3. n + 1 \in 1 .. Len(items) /\ item \in Item /\ n + 1 - 1 = n /\ n \in Nat
  BY <1>0, <1>1
<1>4. PICK pos : Laid(pos, items, out) /\ in = pos[n]
  BY <1>1 DEF StreamInv, Between
<1>. DEFINE code == Code(item)
<1>5. /\ pos[n] \in Nat /\ pos[n + 1] = pos[n] + Len(code) /\ Holds(out, pos[n], code)
  <2>1. /\ pos \in [0 .. Len(items) -> Nat]
        /\ \A i \in 1 .. Len(items) : /\ pos[i] = pos[i - 1] + Len(Code(items[i]))
                                      /\ Holds(out, pos[i - 1], Code(items[i]))
    BY <1>4 DEF Laid
  <2>. HIDE DEF n
  <2>2. pos[n] \in Nat
    BY <1>0, <2>1
  <2>3. pos[n + 1] = pos[n + 1 - 1] + Len(Code(items[n + 1]))
        /\ Holds(out, pos[n + 1 - 1], Code(items[n + 1]))
    BY <1>3, <2>1
  <2>. QED
    BY <1>3, <2>2, <2>3 DEF n
<1>6. read = Got(item.data, pos[n] + Len(code))
  BY <1>0, <1>3, <1>4, <1>5, ItemCarried DEF Carried, Code
<1>7. read.ok /\ read.data = item.data /\ read.next = pos[n + 1]
  <2>1. read.ok = TRUE /\ read.data = item.data /\ read.next = pos[n] + Len(code)
    <3>. HIDE DEF read
    <3>. QED
      BY <1>6 DEF Got
  <2>. QED
    BY <1>5, <2>1
<1>8. [type |-> item.type, data |-> item.data] = item
  BY <1>3 DEF Item
<1>9. got' = Append(got, item) /\ in' = pos[n + 1] /\ at' = "read"
  BY <1>1, <1>2, <1>7, <1>8
<1>10. got' \in Seq(Item) /\ Len(got') = n + 1 /\ Len(got') \in 0 .. Len(items)
       /\ \A i \in 1 .. n + 1 : got'[i] = IF i = n + 1 THEN item ELSE got[i]
  BY <1>0, <1>3, <1>9
<1>11. \A i \in 1 .. Len(got') : got'[i] = items[i]
  <2>. HIDE DEF n
  <2>1. \A i \in 1 .. n : got[i] = items[i]
    BY DEF StreamInv, n
  <2>2. \A i \in 1 .. n + 1 : i # n + 1 => i \in 1 .. n
    BY <1>3
  <2>. QED
    BY <1>10, <2>1, <2>2 DEF n
<1>12. Between(items', out', in', Len(got'))
  BY <1>1, <1>4, <1>9, <1>10 DEF Between
<1>. QED
  BY <1>0, <1>1, <1>9, <1>10, <1>11, <1>12 DEF StreamInv

LEMMA RewindStream == StreamInv /\ Rewind => StreamInv'
<1>. SUFFICES ASSUME StreamInv, Rewind PROVE StreamInv'
  OBVIOUS
<1>1. at = "read" /\ in' = 0 /\ got' = << >> /\ UNCHANGED <<at, out, items>>
  BY DEF Rewind
<1>2. PICK pos : Laid(pos, items, out)
  BY <1>1 DEF StreamInv, Between
<1>3. in' = pos[Len(got')]
  BY <1>1, <1>2 DEF Laid
<1>4. Between(items', out', in', Len(got'))
  BY <1>1, <1>2, <1>3 DEF Between
<1>. QED
  BY <1>1, <1>4 DEF StreamInv

LEMMA StreamStep == StreamInv /\ [Next]_vars => StreamInv'
<1>. SUFFICES ASSUME StreamInv, [Next]_vars PROVE StreamInv'
  OBVIOUS
<1>1. CASE Open
  BY <1>1 DEF Open, stream, StreamInv
<1>2. CASE Encode
  BY <1>2 DEF Encode, stream, StreamInv
<1>3. CASE Decode
  BY <1>3 DEF Decode, stream, StreamInv
<1>4. CASE DecodeGiven
  BY <1>4 DEF DecodeGiven, stream, StreamInv
<1>5. CASE UNCHANGED vars
  BY <1>5 DEF vars, stream, StreamInv
<1>. QED
  BY <1>1, <1>2, <1>3, <1>4, <1>5, PutStream, GetStream, RewindStream DEF Next

(* What was written to a stream is read from it, value by value and to its *)
(* end, whatever the values are; the reader meets no assertion, and the    *)
(* writer only if there is less room than one byte more than the type of   *)
(* each value (write_integer against read_integer, and what the operators  *)
(* << mask and the operators >> check).                                    *)
THEOREM StreamsRoundTrip == Spec => []StreamRoundTrip
<1>1. StreamInv => StreamRoundTrip
  <2>. SUFFICES ASSUME StreamInv PROVE StreamRoundTrip
    OBVIOUS
  <2>1. got = SubSeq(items, 1, Len(got))
    <3>. DEFINE n == Len(got)
    <3>1. /\ items \in Seq(Item) /\ got \in Seq(Item) /\ n \in 0 .. Len(items)
          /\ \A i \in 1 .. n : got[i] = items[i]
      BY DEF StreamInv
    <3>2. \A i \in 1 .. n : items[i] \in Item
      BY <3>1
    <3>. HIDE DEF n
    <3>3. n \in Int /\ n - 1 + 1 = n /\ \A i \in 1 .. n : 1 + i - 1 = i
      BY <3>1
    <3>4. /\ SubSeq(items, 1, n) \in Seq(Item)
          /\ Len(SubSeq(items, 1, n)) = IF 1 <= n THEN n - 1 + 1 ELSE 0
          /\ \A i \in 1 .. n - 1 + 1 : SubSeq(items, 1, n)[i] = items[1 + i - 1]
      BY <3>2, <3>3, SubSeqProperties
    <3>5. Len(SubSeq(items, 1, n)) = n /\ \A i \in 1 .. n : SubSeq(items, 1, n)[i] = got[i]
      BY <3>1, <3>3, <3>4
    <3>. QED
      BY <3>1, <3>4, <3>5, Equal DEF n
  <2>2. at = "read" /\ Len(got) = Len(items) => in = Len(out)
    <3>. SUFFICES ASSUME at = "read", Len(got) = Len(items) PROVE in = Len(out)
      OBVIOUS
    <3>. QED
      BY DEF StreamInv, Between, Laid
  <2>. QED
    BY <2>1, <2>2 DEF StreamInv, StreamRoundTrip
<1>. QED
  BY <1>1, InitStream, StreamStep, PTL DEF Spec

-----------------------------------------------------------------------------
(* hex *)
LEMMA Outcome ==
  ASSUME NEW data
  PROVE  Done(data).ok /\ Done(data).data = data /\ ~ Failed.ok
BY DEF Done, Failed

LEMMA HexTables ==
  \A n \in 0 .. 15, lower \in BOOLEAN :
     HexIndex(HexDigit(n, lower)) = n /\ HexDigit(n, lower) \in Byte
<1>. SUFFICES ASSUME NEW n \in 0 .. 15, NEW lower \in BOOLEAN
              PROVE  HexIndex(HexDigit(n, lower)) = n /\ HexDigit(n, lower) \in Byte
  OBVIOUS
<1>1. CASE n < 10
  BY <1>1 DEF HexIndex, HexDigit, Zero, Byte
<1>2. CASE ~ (n < 10) /\ lower
  BY <1>2 DEF HexIndex, HexDigit, Zero, Byte
<1>3. CASE ~ (n < 10) /\ ~ lower
  BY <1>3 DEF HexIndex, HexDigit, Zero, Byte
<1>. QED
  BY <1>1, <1>2, <1>3

LEMMA HexIndexType ==
  ASSUME NEW c \in Byte
  PROVE  HexIndex(c) \in 0 .. 16
BY DEF HexIndex, Byte

LEMMA Nibbles ==
  ASSUME NEW b \in Byte
  PROVE  b \div 16 \in 0 .. 15 /\ b % 16 \in 0 .. 15 /\ (b \div 16) * 16 + (b % 16) = b
BY DEF Byte

LEMMA NibblesOf ==
  ASSUME NEW h \in 0 .. 15, NEW l \in 0 .. 15
  PROVE  /\ (h * 16 + l) \div 16 = h /\ (h * 16 + l) % 16 = l
         /\ h * 16 + l \in Byte
BY DEF Byte

(* The two digits of each byte. *)
LEMMA HexPairs ==
  ASSUME NEW src \in Seq(Byte), NEW room \in Nat, NEW lower \in BOOLEAN,
         HexEncode(src, room, lower).ok
  PROVE  LET t == HexEncode(src, room, lower).data
         IN  /\ t \in Seq(Byte) /\ Len(t) = 2 * Len(src)
             /\ \A j \in 1 .. Len(src) : /\ t[2 * j - 1] = HexDigit(src[j] \div 16, lower)
                                         /\ t[2 * j] = HexDigit(src[j] % 16, lower)
             /\ \A i \in 1 .. 2 * Len(src) : HexIndex(t[i]) < 16
<1>. DEFINE n == Len(src)
            digit(i) == LET byte == src[(i + 1) \div 2]
                        IN  HexDigit(IF i % 2 = 1 THEN byte \div 16 ELSE byte % 16, lower)
            t == [i \in 1 .. 2 * n |-> digit(i)]
<1>1. HexEncode(src, room, lower) = Done(t)
  BY Outcome DEF HexEncode
<1>2. HexEncode(src, room, lower).data = t
  BY <1>1, Outcome
<1>3. n \in Nat /\ \A i \in 1 .. 2 * n : (i + 1) \div 2 \in 1 .. n
  OBVIOUS
<1>4. ASSUME NEW i \in 1 .. 2 * n PROVE digit(i) \in Byte /\ HexIndex(digit(i)) < 16
  <2>. DEFINE b == src[(i + 1) \div 2]
              d == IF i % 2 = 1 THEN b \div 16 ELSE b % 16
  <2>1. b \in Byte
    BY <1>3
  <2>. HIDE DEF b
  <2>2. d \in 0 .. 15
    BY <2>1, Nibbles
  <2>3. digit(i) = HexDigit(d, lower)
    BY DEF b
  <2>. HIDE DEF d
  <2>. QED
    BY <2>2, <2>3, HexTables, SMTT(30)
<1>5. t \in Seq(Byte) /\ Len(t) = 2 * n /\ \A i \in 1 .. 2 * n : t[i] = digit(i)
  BY <1>3, <1>4
<1>6. ASSUME NEW j \in 1 .. n
      PROVE  /\ digit(2 * j - 1) = HexDigit(src[j] \div 16, lower)
             /\ digit(2 * j) = HexDigit(src[j] % 16, lower)
             /\ 2 * j - 1 \in 1 .. 2 * n /\ 2 * j \in 1 .. 2 * n
  <2>1. /\ (2 * j - 1 + 1) \div 2 = j /\ (2 * j - 1) % 2 = 1
        /\ (2 * j + 1) \div 2 = j /\ (2 * j) % 2 = 0
        /\ 2 * j - 1 \in 1 .. 2 * n /\ 2 * j \in 1 .. 2 * n
    BY <1>3
  <2>. QED
    BY <2>1
<1>. HIDE DEF t, digit
<1>7. \A j \in 1 .. n : /\ t[2 * j - 1] = HexDigit(src[j] \div 16, lower)
                        /\ t[2 * j] = HexDigit(src[j] % 16, lower)
  BY <1>5, <1>6
<1>8. \A i \in 1 .. 2 * n : HexIndex(t[i]) < 16
  BY <1>4, <1>5
<1>. QED
  BY <1>2, <1>5, <1>7, <1>8

LEMMA HexThereAndBack ==
  ASSUME NEW src \in Seq(Byte), NEW room \in Nat, NEW lower \in BOOLEAN,
         HexEncode(src, room, lower).ok, NEW size \in Nat,
         HexDecode(HexEncode(src, room, lower).data, size).ok
  PROVE  HexDecode(HexEncode(src, room, lower).data, size).data = src
<1>. DEFINE n == Len(src)
            t == HexEncode(src, room, lower).data
            byte(j) == HexIndex(t[2 * j - 1]) * 16 + HexIndex(t[2 * j])
            r == [j \in 1 .. Len(t) \div 2 |-> byte(j)]
<1>1. /\ t \in Seq(Byte) /\ Len(t) = 2 * n /\ n \in Nat
      /\ \A j \in 1 .. n : /\ t[2 * j - 1] = HexDigit(src[j] \div 16, lower)
                           /\ t[2 * j] = HexDigit(src[j] % 16, lower)
  BY HexPairs
<1>2. HexDecode(t, size) = Done(r)
  BY Outcome DEF HexDecode
<1>. HIDE DEF t
<1>3. Len(t) \div 2 = n
  BY <1>1
<1>4. ASSUME NEW j \in 1 .. n PROVE byte(j) = src[j]
  <2>1. src[j] \in Byte
    OBVIOUS
  <2>. DEFINE h == src[j] \div 16
              l == src[j] % 16
  <2>2. h \in 0 .. 15 /\ l \in 0 .. 15 /\ h * 16 + l = src[j]
    BY <2>1, Nibbles
  <2>. HIDE DEF h, l
  <2>3. HexIndex(t[2 * j - 1]) = h /\ HexIndex(t[2 * j]) = l
    BY <1>1, <2>2, HexTables DEF h, l
  <2>. QED
    BY <2>2, <2>3
<1>5. r = [j \in 1 .. n |-> src[j]]
  BY <1>3, <1>4
<1>6. r = src
  <2>1. src = [j \in 1 .. n |-> src[j]]
    OBVIOUS
  <2>. HIDE DEF r, n
  <2>. QED
    BY <1>5, <2>1, Zenon
<1>. HIDE DEF r
<1>. QED
  BY <1>2, <1>6, Outcome DEF t

LEMMA HexGiven ==
  ASSUME NEW src \in Seq(Byte), NEW room \in Nat, HexDecode(src, room).ok
  PROVE  LET t == HexEncode(HexDecode(src, room).data, 3 * Len(src) + 3, TRUE)
         IN  t.ok /\ Same("hex", t.data, src)
<1>. DEFINE n == Len(src)
            m == n \div 2
            byte(j) == HexIndex(src[2 * j - 1]) * 16 + HexIndex(src[2 * j])
            r == [j \in 1 .. m |-> byte(j)]
            t == HexEncode(r, 3 * n + 3, TRUE)
<1>1. /\ n % 2 = 0 /\ n \in Nat /\ m \in Nat /\ 2 * m = n
      /\ \A i \in 1 .. n : ~ (HexIndex(src[i]) >= 16)
  <2>. DEFINE bad == \/ n % 2 # 0
                     \/ n \div 2 > room
                     \/ \E i \in DOMAIN src : HexIndex(src[i]) >= 16
  <2>1. HexDecode(src, room) = IF bad THEN Failed ELSE Done(r)
    BY Zenon DEF HexDecode
  <2>2. ~ bad
    <3>. HIDE DEF bad
    <3>. QED
      BY <2>1, Outcome, Zenon
  <2>3. n % 2 = 0 /\ \A i \in DOMAIN src : ~ (HexIndex(src[i]) >= 16)
    BY <2>2
  <2>4. n \in Nat /\ DOMAIN src = 1 .. n
    OBVIOUS
  <2>5. m \in Nat /\ 2 * m = n
    <3>. HIDE DEF n
    <3>. QED
      BY <2>3, <2>4
  <2>. QED
    BY <2>3, <2>4, <2>5
<1>2. HexDecode(src, room).data = r
  <2>1. HexDecode(src, room) = Done(r)
    BY Outcome DEF HexDecode
  <2>. QED
    BY <2>1, Outcome
<1>3. ASSUME NEW i \in 1 .. n PROVE HexIndex(src[i]) \in 0 .. 15
  <2>1. src[i] \in Byte
    OBVIOUS
  <2>. QED
    BY <1>1, <2>1, HexIndexType
<1>4. ASSUME NEW j \in 1 .. m
      PROVE  /\ 2 * j - 1 \in 1 .. n /\ 2 * j \in 1 .. n
             /\ byte(j) \in Byte
             /\ byte(j) \div 16 = HexIndex(src[2 * j - 1]) /\ byte(j) % 16 = HexIndex(src[2 * j])
  <2>1. 2 * j - 1 \in 1 .. n /\ 2 * j \in 1 .. n
    BY <1>1
  <2>2. HexIndex(src[2 * j - 1]) \in 0 .. 15 /\ HexIndex(src[2 * j]) \in 0 .. 15
    BY <1>3, <2>1
  <2>. QED
    BY <2>1, <2>2, NibblesOf
<1>5. r \in Seq(Byte) /\ Len(r) = m /\ \A j \in 1 .. m : r[j] = byte(j)
  BY <1>1, <1>4
<1>. HIDE DEF r, byte, m
<1>6. t.ok
  <2>1. ~ (2 * Len(r) + 1 > 3 * n + 3)
    BY <1>1, <1>5
  <2>. QED
    BY <2>1, Outcome DEF HexEncode
<1>7. /\ t.data \in Seq(Byte) /\ Len(t.data) = 2 * m
      /\ \A j \in 1 .. m : /\ t.data[2 * j - 1] = HexDigit(r[j] \div 16, TRUE)
                           /\ t.data[2 * j] = HexDigit(r[j] % 16, TRUE)
  <2>1. 3 * n + 3 \in Nat
    BY <1>1
  <2>. HIDE DEF n
  <2>. QED
    BY <1>5, <1>6, <2>1, HexPairs
<1>. HIDE DEF t
<1>8. ASSUME NEW i \in 1 .. n PROVE HexIndex(t.data[i]) = HexIndex(src[i])
  <2>. DEFINE j == (i + 1) \div 2
  <2>1. j \in 1 .. m /\ (i = 2 * j - 1 \/ i = 2 * j)
    BY <1>1
  <2>. HIDE DEF j
  <2>2. /\ t.data[2 * j - 1] = HexDigit(HexIndex(src[2 * j - 1]), TRUE)
        /\ t.data[2 * j] = HexDigit(HexIndex(src[2 * j]), TRUE)
    BY <1>4, <1>5, <1>7, <2>1
  <2>3. HexIndex(src[2 * j - 1]) \in 0 .. 15 /\ HexIndex(src[2 * j]) \in 0 .. 15
    BY <1>3, <1>4, <2>1
  <2>. QED
    BY <2>1, <2>2, <2>3, HexTables
<1>9. DOMAIN t.data = 1 .. n /\ DOMAIN src = 1 .. n
  BY <1>1, <1>7
<1>10. Same("hex", t.data, src)
  <2>1. [i \in DOMAIN t.data |-> HexIndex(t.data[i])] = [i \in DOMAIN src |-> HexIndex(src[i])]
    BY <1>8, <1>9
  <2>. QED
    BY <2>1 DEF Same
<1>. QED
  BY <1>2, <1>6, <1>10 DEF t, n

-----------------------------------------------------------------------------
(* base64 *)
LEMMA Base64Tables ==
  /\ \A n \in 0 .. 63 : /\ Base64Index(Base64Symbol(n)) = n /\ Base64Symbol(n) \in Byte
                        /\ Base64Symbol(n) # Equals
  /\ \A c \in Byte : /\ Base64Index(c) \in 0 .. 64
                     /\ Base64Index(c) <= 63 /\ c # Equals => Base64Symbol(Base64Index(c)) = c
  /\ Base64Index(Equals) = 0 /\ Equals \in Byte
<1>1. ASSUME NEW n \in 0 .. 63
      PROVE  /\ Base64Index(Base64Symbol(n)) = n /\ Base64Symbol(n) \in Byte
             /\ Base64Symbol(n) # Equals
  <2>1. n \in 0 .. 25 \/ n \in 26 .. 51 \/ n \in 52 .. 61 \/ n = 62 \/ n = 63
    OBVIOUS
  <2>2. CASE n \in 0 .. 25
    <3>1. Base64Symbol(n) = 65 + n
      BY <2>2 DEF Base64Symbol
    <3>. QED
      BY <2>2, <3>1 DEF Base64Index, Equals, Byte
  <2>3. CASE n \in 26 .. 51
    <3>1. Base64Symbol(n) = 97 + n - 26
      BY <2>3 DEF Base64Symbol
    <3>. QED
      BY <2>3, <3>1 DEF Base64Index, Equals, Byte
  <2>4. CASE n \in 52 .. 61
    <3>1. Base64Symbol(n) = 48 + n - 52
      BY <2>4 DEF Base64Symbol
    <3>. QED
      BY <2>4, <3>1 DEF Base64Index, Equals, Byte
  <2>5. CASE n = 62
    BY <2>5 DEF Base64Symbol, Base64Index, Equals, Byte
  <2>6. CASE n = 63
    BY <2>6 DEF Base64Symbol, Base64Index, Equals, Byte
  <2>. QED
    BY <2>1, <2>2, <2>3, <2>4, <2>5, <2>6
<1>2. ASSUME NEW c \in Byte
      PROVE  /\ Base64Index(c) \in 0 .. 64
             /\ Base64Index(c) <= 63 /\ c # Equals => Base64Symbol(Base64Index(c)) = c
  <2>1. CASE c \in 65 .. 90
    <3>1. Base64Index(c) = c - 65
      BY <2>1 DEF Base64Index, Equals
    <3>. QED
      BY <2>1, <3>1 DEF Base64Symbol, Byte
  <2>2. CASE c \in 97 .. 122
    <3>1. Base64Index(c) = c - 97 + 26
      BY <2>2 DEF Base64Index, Equals
    <3>. QED
      BY <2>2, <3>1 DEF Base64Symbol, Byte
  <2>3. CASE c \in 48 .. 57
    <3>1. Base64Index(c) = c - 48 + 52
      BY <2>3 DEF Base64Index, Equals
    <3>. QED
      BY <2>3, <3>1 DEF Base64Symbol, Byte
  <2>4. CASE c = 43 \/ c = 47
    BY <2>4 DEF Base64Index, Base64Symbol, Byte
  <2>5. CASE c = Equals
    BY <2>5 DEF Base64Index, Equals
  <2>6. CASE ~ (c \in 65 .. 90 \/ c \in 97 .. 122 \/ c \in 48 .. 57 \/ c = 43 \/ c = 47 \/ c = Equals)
    <3>1. Base64Index(c) = 64
      BY <2>6 DEF Base64Index
    <3>. QED
      BY <3>1
  <2>. QED
    BY <2>1, <2>2, <2>3, <2>4, <2>5, <2>6
<1>3. Base64Index(Equals) = 0 /\ Equals \in Byte
  BY DEF Base64Index, Equals, Byte
<1>. QED
  BY <1>1, <1>2, <1>3

(* How many groups of three bytes there are, and how many symbols of the   *)
(* last one are left out.                                                  *)
LEMMA Padding ==
  ASSUME NEW n \in Nat
  PROVE  /\ (n + 2) \div 3 \in Nat /\ PadCount(n) \in 0 .. 2
         /\ 3 * ((n + 2) \div 3) - PadCount(n) = n
         /\ n = 0 => PadCount(n) = 0
<1>1. n % 3 = 0 \/ n % 3 = 1 \/ n % 3 = 2
  OBVIOUS
<1>. QED
  BY <1>1 DEF PadCount

LEMMA GroupsOf ==
  ASSUME NEW g \in Nat, NEW p \in 0 .. 2, g = 0 => p = 0
  PROVE  /\ (3 * g - p + 2) \div 3 = g /\ PadCount(3 * g - p) = p
         /\ 3 * g - p \in Nat
<1>1. p = 0 \/ p = 1 \/ p = 2
  OBVIOUS
<1>2. g = 0 \/ g >= 1
  OBVIOUS
<1>. QED
  BY <1>1, <1>2 DEF PadCount

(* Four symbols from three bytes and back. *)
Symbols(a, b, c) ==
  <<a \div 4, (a % 4) * 16 + b \div 16, (b % 16) * 4 + c \div 64, c % 64>>
Bytes(s) ==
  <<s[1] * 4 + s[2] \div 16, (s[2] % 16) * 16 + s[3] \div 4, (s[3] % 4) * 64 + s[4]>>

LEMMA BytesOfSymbols ==
  ASSUME NEW a \in Byte, NEW b \in Byte, NEW c \in Byte
  PROVE  /\ \A k \in 1 .. 4 : Symbols(a, b, c)[k] \in 0 .. 63
         /\ Bytes(Symbols(a, b, c)) = <<a, b, c>>
         /\ Number4(Symbols(a, b, c)) = (a * 256 + b) * 256 + c
         /\ b = 0 /\ c = 0 => Symbols(a, b, c)[3] = 0
         /\ c = 0 => Symbols(a, b, c)[4] = 0
<1>. DEFINE w == a \div 4
            x == (a % 4) * 16 + b \div 16
            y == (b % 16) * 4 + c \div 64
            z == c % 64
            s == Symbols(a, b, c)
<1>1. /\ w \in 0 .. 63 /\ x \in 0 .. 63 /\ y \in 0 .. 63 /\ z \in 0 .. 63
      /\ b = 0 /\ c = 0 => y = 0
      /\ c = 0 => z = 0
  BY DEF Byte
<1>2. w * 4 + x \div 16 = a
  BY DEF Byte
<1>3. (x % 16) * 16 + y \div 4 = b
  BY DEF Byte
<1>4. (y % 4) * 64 + z = c
  BY DEF Byte
<1>5. ((w * 64 + x) * 64 + y) * 64 + z = (a * 256 + b) * 256 + c
  BY DEF Byte
<1>6. s = <<w, x, y, z>>
  BY DEF Symbols
<1>. HIDE DEF s, w, x, y, z
<1>7. s[1] = w /\ s[2] = x /\ s[3] = y /\ s[4] = z
  BY <1>6
<1>8. \A k \in 1 .. 4 : k = 1 \/ k = 2 \/ k = 3 \/ k = 4
  OBVIOUS
<1>9. \A k \in 1 .. 4 : s[k] \in 0 .. 63
  BY <1>1, <1>7, <1>8
<1>10. Bytes(s) = <<a, b, c>>
  BY <1>2, <1>3, <1>4, <1>7 DEF Bytes
<1>11. Number4(s) = (a * 256 + b) * 256 + c
  BY <1>5, <1>7 DEF Number4
<1>. QED
  BY <1>1, <1>7, <1>9, <1>10, <1>11 DEF s

LEMMA SymbolsOfBytes ==
  ASSUME NEW s, s[1] \in 0 .. 63, s[2] \in 0 .. 63, s[3] \in 0 .. 63, s[4] \in 0 .. 63
  PROVE  LET a == s[1] * 4 + s[2] \div 16
             b == (s[2] % 16) * 16 + s[3] \div 4
             c == (s[3] % 4) * 64 + s[4]
         IN  /\ a \in Byte /\ b \in Byte /\ c \in Byte
             /\ \A x, y \in Byte : /\ Symbols(a, x, y)[1] = s[1]
                                   /\ x = b => Symbols(a, x, y)[2] = s[2]
                                   /\ x = b /\ y = c => Symbols(a, x, y)[3] = s[3]
                                   /\ y = c => Symbols(a, x, y)[4] = s[4]
<1>. DEFINE p == s[1]
            q == s[2]
            r == s[3]
            t == s[4]
            a == p * 4 + q \div 16
            b == (q % 16) * 16 + r \div 4
            c == (r % 4) * 64 + t
<1>0. p \in 0 .. 63 /\ q \in 0 .. 63 /\ r \in 0 .. 63 /\ t \in 0 .. 63
  OBVIOUS
<1>. HIDE DEF p, q, r, t
<1>1. a \in Byte /\ b \in Byte /\ c \in Byte
  BY <1>0 DEF Byte
<1>2. /\ a \div 4 = p
      /\ (a % 4) * 16 + b \div 16 = q
      /\ (b % 16) * 4 + c \div 64 = r
      /\ c % 64 = t
  BY <1>0
<1>. HIDE DEF a, b, c
<1>3. ASSUME NEW x \in Byte, NEW y \in Byte
      PROVE  /\ Symbols(a, x, y)[1] = p
             /\ x = b => Symbols(a, x, y)[2] = q
             /\ x = b /\ y = c => Symbols(a, x, y)[3] = r
             /\ y = c => Symbols(a, x, y)[4] = t
  BY <1>2 DEF Symbols
<1>. QED
  BY <1>1, <1>3, Zenon DEF a, b, c, p, q, r, t

ByteAt(src, i) == IF i <= Len(src) THEN src[i] ELSE 0
SymbolsAt(src, j) == Symbols(ByteAt(src, 3 * j - 2), ByteAt(src, 3 * j - 1), ByteAt(src, 3 * j))

LEMMA ByteAtType ==
  ASSUME NEW src \in Seq(Byte), NEW i \in Nat, i # 0
  PROVE  ByteAt(src, i) \in Byte
<1>1. 0 \in Byte
  BY DEF Byte
<1>. QED
  BY <1>1 DEF ByteAt

(* The symbols of a text, group by group; the pads stand for zeros. *)
LEMMA Base64Groups ==
  ASSUME NEW src \in Seq(Byte), NEW room \in Nat, Base64Encode(src, room).ok
  PROVE  LET e == Base64Encode(src, room).data
             g == (Len(src) + 2) \div 3
             p == PadCount(Len(src))
         IN  /\ e \in Seq(Byte) /\ Len(e) = 4 * g
             /\ \A i \in 1 .. 4 * g : e[i] = Equals <=> i > 4 * g - p
             /\ \A j \in 1 .. g, k \in 1 .. 4 :
                  /\ e[4 * j - 4 + k] = IF 4 * j - 4 + k > 4 * g - p THEN Equals
                                        ELSE Base64Symbol(SymbolsAt(src, j)[k])
                  /\ Base64Index(e[4 * j - 4 + k]) = SymbolsAt(src, j)[k]
<1>. DEFINE n == Len(src)
            g == (n + 2) \div 3
            p == PadCount(n)
            byte(i) == IF i <= n THEN src[i] ELSE 0
            group(j) == LET a == byte(3 * j - 2) b == byte(3 * j - 1) c == byte(3 * j)
                        IN  <<a \div 4, (a % 4) * 16 + b \div 16,
                              (b % 16) * 4 + c \div 64, c % 64>>
            symbol(i) == IF i > 4 * g - p THEN Equals
                         ELSE Base64Symbol(group((i + 3) \div 4)[((i - 1) % 4) + 1])
            e == [i \in 1 .. 4 * g |-> symbol(i)]
<1>0. n \in Nat /\ g \in Nat /\ p \in 0 .. 2 /\ 3 * g - p = n
  <2>1. n \in Nat
    OBVIOUS
  <2>. HIDE DEF n
  <2>. QED
    BY <2>1, Padding
<1>1. Base64Encode(src, room).data = e
  <2>1. Base64Encode(src, room) = Done(e)
    BY Outcome DEF Base64Encode
  <2>. QED
    BY <2>1, Outcome
<1>2. \A j : group(j) = SymbolsAt(src, j)
  BY DEF SymbolsAt, Symbols, ByteAt
<1>. HIDE DEF group, p, g, n
<1>3. ASSUME NEW j \in 1 .. g
      PROVE  /\ \A k \in 1 .. 4 : SymbolsAt(src, j)[k] \in 0 .. 63
             /\ \A k \in 1 .. 4 : 4 * j - 4 + k > 4 * g - p => SymbolsAt(src, j)[k] = 0
  <2>. DEFINE a == ByteAt(src, 3 * j - 2)
              b == ByteAt(src, 3 * j - 1)
              c == ByteAt(src, 3 * j)
  <2>1. /\ 3 * j - 2 \in Nat /\ 3 * j - 1 \in Nat /\ 3 * j \in Nat
        /\ 3 * j - 2 # 0 /\ 3 * j - 1 # 0 /\ 3 * j # 0
    BY <1>0
  <2>2. a \in Byte /\ b \in Byte /\ c \in Byte
    BY <2>1, ByteAtType
  <2>3. ~ (3 * j <= n) => c = 0
    BY DEF ByteAt, n
  <2>4. ~ (3 * j - 1 <= n) => b = 0
    BY DEF ByteAt, n
  <2>. HIDE DEF a, b, c
  <2>5. /\ \A k \in 1 .. 4 : Symbols(a, b, c)[k] \in 0 .. 63
        /\ b = 0 /\ c = 0 => Symbols(a, b, c)[3] = 0
        /\ c = 0 => Symbols(a, b, c)[4] = 0
    BY <2>2, BytesOfSymbols
  <2>6. ASSUME NEW k \in 1 .. 4, 4 * j - 4 + k > 4 * g - p
        PROVE  Symbols(a, b, c)[k] = 0
    <3>1. j = g /\ k > 4 - p /\ (k = 3 \/ k = 4)
      BY <1>0, <2>6
    <3>2. ~ (3 * j <= n) /\ (k = 3 => ~ (3 * j - 1 <= n))
      BY <1>0, <3>1
    <3>. QED
      BY <2>3, <2>4, <2>5, <3>1, <3>2
  <2>. QED
    BY <2>5, <2>6 DEF SymbolsAt, a, b, c
<1>4. ASSUME NEW i \in 1 .. 4 * g
      PROVE  symbol(i) \in Byte /\ (symbol(i) = Equals <=> i > 4 * g - p)
  <2>1. (i + 3) \div 4 \in 1 .. g /\ ((i - 1) % 4) + 1 \in 1 .. 4
    BY <1>0
  <2>2. group((i + 3) \div 4)[((i - 1) % 4) + 1] \in 0 .. 63
    BY <1>2, <1>3, <2>1
  <2>. QED
    BY <2>2, Base64Tables
<1>5. e \in Seq(Byte) /\ Len(e) = 4 * g /\ \A i \in 1 .. 4 * g : e[i] = symbol(i)
  BY <1>0, <1>4
<1>6. ASSUME NEW j \in 1 .. g, NEW k \in 1 .. 4
      PROVE  /\ e[4 * j - 4 + k] = IF 4 * j - 4 + k > 4 * g - p THEN Equals
                                   ELSE Base64Symbol(SymbolsAt(src, j)[k])
             /\ Base64Index(e[4 * j - 4 + k]) = SymbolsAt(src, j)[k]
  <2>. DEFINE i == 4 * j - 4 + k
  <2>1. i \in 1 .. 4 * g /\ (i + 3) \div 4 = j /\ ((i - 1) % 4) + 1 = k
    BY <1>0
  <2>2. e[i] = symbol(i)
    BY <1>5, <2>1
  <2>3. symbol(i) = IF i > 4 * g - p THEN Equals ELSE Base64Symbol(SymbolsAt(src, j)[k])
    BY <1>2, <2>1
  <2>. HIDE DEF e, symbol
  <2>4. Base64Index(e[i]) = SymbolsAt(src, j)[k]
    BY <1>3, <2>2, <2>3, Base64Tables, ZenonT(40)
  <2>. QED
    BY <2>2, <2>3, <2>4
<1>7. \A i \in 1 .. 4 * g : e[i] = Equals <=> i > 4 * g - p
  BY <1>4, <1>5
<1>. HIDE DEF e
<1>. QED
  BY <1>1, <1>5, <1>6, <1>7 DEF g, p, n

(* The bytes that decoding stores, group by group. *)
GroupOf(t, j) == [k \in 1 .. 4 |-> Base64Index(t[4 * j - 4 + k])]
Pads(t) == Cardinality({i \in DOMAIN t : t[i] = Equals})

LEMMA Base64Decoded ==
  ASSUME NEW t \in Seq(Byte), NEW room \in Nat, Base64Decode(t, room).ok
  PROVE  LET n == Len(t)
             length == 3 * (n \div 4) - Pads(t)
         IN  /\ n % 4 = 0 /\ \A i \in 1 .. n - 2 : t[i] # Equals
             /\ \A i \in 1 .. n : Base64Index(t[i]) <= 63
             /\ n > 0 /\ t[n - 1] = Equals => t[n] = Equals
             /\ Base64Decode(t, room).data =
                  [i \in 1 .. length |-> Bytes(GroupOf(t, (i + 2) \div 3))[((i - 1) % 3) + 1]]
<1>. DEFINE n == Len(t)
            length == 3 * (n \div 4) - Pads(t)
            bytes(g) == LET s == GroupOf(t, g)
                        IN  <<s[1] * 4 + s[2] \div 16, (s[2] % 16) * 16 + s[3] \div 4,
                              (s[3] % 4) * 64 + s[4]>>
            bad == \/ n % 4 # 0
                   \/ \E i \in 1 .. n - 2 : t[i] = Equals
                   \/ \E i \in DOMAIN t : Base64Index(t[i]) > 63
                   \/ length > room
                   \/ n > 0 /\ t[n - 1] = Equals /\ t[n] # Equals
            r == [i \in 1 .. length |-> bytes((i + 2) \div 3)[((i - 1) % 3) + 1]]
<1>1. Base64Decode(t, room) = IF bad THEN Failed ELSE Done(r)
  BY Zenon DEF Base64Decode, GroupOf, Pads
<1>2. ~ bad
  <2>. HIDE DEF bad, r
  <2>. QED
    BY <1>1, Outcome
<1>3. Base64Decode(t, room).data = r
  <2>. HIDE DEF bad, r
  <2>. QED
    BY <1>1, <1>2, Outcome
<1>4. r = [i \in 1 .. length |-> Bytes(GroupOf(t, (i + 2) \div 3))[((i - 1) % 3) + 1]]
  BY Zenon DEF Bytes
<1>5. \A i \in 1 .. n : Base64Index(t[i]) <= 63
  <2>1. \A i \in 1 .. n : ~ (Base64Index(t[i]) > 63) /\ t[i] \in Byte
    BY <1>2
  <2>2. ASSUME NEW i \in 1 .. n PROVE Base64Index(t[i]) <= 63
    <3>. DEFINE x == Base64Index(t[i])
    <3>1. x \in 0 .. 64 /\ ~ (x > 63)
      BY <2>1, Base64Tables
    <3>. HIDE DEF x
    <3>2. x <= 63
      BY <3>1
    <3>. QED
      BY <3>2 DEF x
  <2>. QED
    BY <2>2
<1>. QED
  BY <1>2, <1>3, <1>4, <1>5

LEMMA PadsAtEnd ==
  ASSUME NEW t \in Seq(Byte), NEW p \in 0 .. 2, p <= Len(t),
         \A i \in 1 .. Len(t) : t[i] = Equals <=> i > Len(t) - p
  PROVE  Pads(t) = p
<1>. DEFINE n == Len(t)
            a == n - p + 1
<1>1. n \in Nat /\ a \in Int
  OBVIOUS
<1>2. {i \in DOMAIN t : t[i] = Equals} = a .. n
  OBVIOUS
<1>3. (a > n => p = 0) /\ n - a + 1 = p
  OBVIOUS
<1>. HIDE DEF n, a
<1>4. Cardinality(a .. n) = IF a > n THEN 0 ELSE n - a + 1
  BY <1>1, FS_Interval
<1>. QED
  BY <1>2, <1>3, <1>4 DEF Pads

LEMMA Base64ThereAndBack ==
  ASSUME NEW src \in Seq(Byte), NEW room \in Nat, Base64Encode(src, room).ok, NEW size \in Nat,
         Base64Decode(Base64Encode(src, room).data, size).ok
  PROVE  Base64Decode(Base64Encode(src, room).data, size).data = src
<1>. DEFINE n == Len(src)
            g == (n + 2) \div 3
            p == PadCount(n)
            e == Base64Encode(src, room).data
            r == Base64Decode(e, size).data
            length == 3 * (Len(e) \div 4) - Pads(e)
<1>1. /\ e \in Seq(Byte) /\ Len(e) = 4 * g
      /\ \A i \in 1 .. 4 * g : e[i] = Equals <=> i > 4 * g - p
      /\ \A j \in 1 .. g, k \in 1 .. 4 : Base64Index(e[4 * j - 4 + k]) = SymbolsAt(src, j)[k]
  BY Base64Groups, ZenonT(40)
<1>2. n \in Nat /\ g \in Nat /\ p \in 0 .. 2 /\ 3 * g - p = n /\ (n = 0 => p = 0)
  <2>1. n \in Nat
    OBVIOUS
  <2>. HIDE DEF n
  <2>. QED
    BY <2>1, Padding
<1>. HIDE DEF e
<1>3. r = [i \in 1 .. length |-> Bytes(GroupOf(e, (i + 2) \div 3))[((i - 1) % 3) + 1]]
  <2>1. Base64Decode(e, size).ok
    BY DEF e
  <2>. QED
    BY <1>1, <2>1, Base64Decoded, Zenon
<1>. HIDE DEF r, n, g, p
<1>4. length = n
  <2>1. p <= 4 * g
    BY <1>2
  <2>2. Pads(e) = p
    BY <1>1, <1>2, <2>1, PadsAtEnd
  <2>3. Len(e) \div 4 = g
    BY <1>1, <1>2
  <2>. QED
    BY <1>2, <2>2, <2>3
<1>5. ASSUME NEW j \in 1 .. g
      PROVE  Bytes(GroupOf(e, j)) = <<ByteAt(src, 3 * j - 2), ByteAt(src, 3 * j - 1), ByteAt(src, 3 * j)>>
  <2>. DEFINE s == SymbolsAt(src, j)
  <2>1. \A k \in 1 .. 4 : GroupOf(e, j)[k] = s[k]
    BY <1>1 DEF GroupOf
  <2>2. Bytes(GroupOf(e, j)) = Bytes(s)
    <3>. HIDE DEF s
    <3>1. 1 \in 1 .. 4 /\ 2 \in 1 .. 4 /\ 3 \in 1 .. 4 /\ 4 \in 1 .. 4
      OBVIOUS
    <3>2. /\ GroupOf(e, j)[1] = s[1] /\ GroupOf(e, j)[2] = s[2]
          /\ GroupOf(e, j)[3] = s[3] /\ GroupOf(e, j)[4] = s[4]
      BY <2>1, <3>1
    <3>. QED
      BY <3>2 DEF Bytes
  <2>3. /\ ByteAt(src, 3 * j - 2) \in Byte /\ ByteAt(src, 3 * j - 1) \in Byte
        /\ ByteAt(src, 3 * j) \in Byte
    <3>1. /\ 3 * j - 2 \in Nat /\ 3 * j - 1 \in Nat /\ 3 * j \in Nat
          /\ 3 * j - 2 # 0 /\ 3 * j - 1 # 0 /\ 3 * j # 0
      BY <1>2
    <3>. QED
      BY <3>1, ByteAtType
  <2>. QED
    BY <2>2, <2>3, BytesOfSymbols DEF SymbolsAt
<1>6. ASSUME NEW i \in 1 .. n
      PROVE  Bytes(GroupOf(e, (i + 2) \div 3))[((i - 1) % 3) + 1] = src[i]
  <2>. DEFINE j == (i + 2) \div 3
              k == ((i - 1) % 3) + 1
  <2>1. j \in 1 .. g /\ k \in 1 .. 3 /\ i = 3 * j - 3 + k
    BY <1>2
  <2>. HIDE DEF j, k
  <2>2. ByteAt(src, i) = src[i]
    BY <1>2 DEF ByteAt, n
  <2>. DEFINE x == ByteAt(src, 3 * j - 2)
              y == ByteAt(src, 3 * j - 1)
              z == ByteAt(src, 3 * j)
  <2>3. Bytes(GroupOf(e, j)) = <<x, y, z>>
    BY <1>5, <2>1
  <2>4. \/ k = 1 /\ i = 3 * j - 2
        \/ k = 2 /\ i = 3 * j - 1
        \/ k = 3 /\ i = 3 * j
    BY <2>1
  <2>5. \/ k = 1 /\ ByteAt(src, i) = x
        \/ k = 2 /\ ByteAt(src, i) = y
        \/ k = 3 /\ ByteAt(src, i) = z
    BY <2>4
  <2>. HIDE DEF x, y, z
  <2>6. Bytes(GroupOf(e, j))[k] = ByteAt(src, i)
    BY <2>3, <2>5
  <2>. QED
    BY <2>2, <2>6 DEF j, k
<1>7. r = [i \in 1 .. n |-> src[i]]
  BY <1>3, <1>4, <1>6
<1>. QED
  BY <1>7 DEF r, e, n

(* A group of four symbols is the number its three bytes are. *)
LEMMA Base64Numbers ==
  ASSUME NEW src \in Seq(Byte), NEW room \in Nat, Base64Encode(src, room).ok,
         NEW j \in 1 .. Len(Base64Encode(src, room).data) \div 4
  PROVE  Number4(GroupOf(Base64Encode(src, room).data, j)) = Number3(Group(src, j))
<1>. DEFINE n == Len(src)
            g == (n + 2) \div 3
            e == Base64Encode(src, room).data
            s == SymbolsAt(src, j)
<1>1. /\ Len(e) = 4 * g
      /\ \A i \in 1 .. g, k \in 1 .. 4 : Base64Index(e[4 * i - 4 + k]) = SymbolsAt(src, i)[k]
  BY Base64Groups, ZenonT(40)
<1>2. g \in Nat /\ n \in Nat
  BY Padding, SMTT(30)
<1>3. j \in 1 .. g
  <2>1. Len(e) \div 4 = g /\ j \in 1 .. Len(e) \div 4
    BY <1>1, <1>2
  <2>. QED
    BY <2>1
<1>. HIDE DEF e, g
<1>4. \A k \in 1 .. 4 : GroupOf(e, j)[k] = s[k]
  BY <1>1, <1>3 DEF GroupOf
<1>. DEFINE x == ByteAt(src, 3 * j - 2)
            y == ByteAt(src, 3 * j - 1)
            z == ByteAt(src, 3 * j)
<1>5. x \in Byte /\ y \in Byte /\ z \in Byte
  <2>1. /\ 3 * j - 2 \in Nat /\ 3 * j - 1 \in Nat /\ 3 * j \in Nat
        /\ 3 * j - 2 # 0 /\ 3 * j - 1 # 0 /\ 3 * j # 0
    BY <1>2, <1>3
  <2>. QED
    BY <2>1, ByteAtType
<1>6. Number4(s) = (x * 256 + y) * 256 + z
  BY <1>5, BytesOfSymbols DEF SymbolsAt
<1>7. Number4(GroupOf(e, j)) = Number4(s)
  <2>. HIDE DEF s
  <2>1. 1 \in 1 .. 4 /\ 2 \in 1 .. 4 /\ 3 \in 1 .. 4 /\ 4 \in 1 .. 4
    OBVIOUS
  <2>2. /\ GroupOf(e, j)[1] = s[1] /\ GroupOf(e, j)[2] = s[2]
        /\ GroupOf(e, j)[3] = s[3] /\ GroupOf(e, j)[4] = s[4]
    BY <1>4, <2>1
  <2>. QED
    BY <2>2 DEF Number4
<1>8. Group(src, j)[1] = x /\ Group(src, j)[2] = y /\ Group(src, j)[3] = z
  <2>1. 3 * j - 3 + 1 = 3 * j - 2 /\ 3 * j - 3 + 2 = 3 * j - 1 /\ 3 * j - 3 + 3 = 3 * j
    BY <1>2, <1>3
  <2>2. \A k \in 1 .. 3 : Group(src, j)[k] = ByteAt(src, 3 * j - 3 + k)
    BY DEF Group, ByteAt
  <2>3. 1 \in 1 .. 3 /\ 2 \in 1 .. 3 /\ 3 \in 1 .. 3
    OBVIOUS
  <2>4. /\ Group(src, j)[1] = ByteAt(src, 3 * j - 3 + 1)
        /\ Group(src, j)[2] = ByteAt(src, 3 * j - 3 + 2)
        /\ Group(src, j)[3] = ByteAt(src, 3 * j - 3 + 3)
    BY <2>2, <2>3
  <2>. QED
    BY <2>1, <2>4
<1>. HIDE DEF x, y, z, s
<1>9. Number3(Group(src, j)) = (x * 256 + y) * 256 + z
  BY <1>8 DEF Number3
<1>. QED
  BY <1>6, <1>7, <1>9 DEF e

(* In a text that decodes, the pads are at the end, two of them at most.   *)
LEMMA PadsGiven ==
  ASSUME NEW t \in Seq(Byte), Len(t) % 4 = 0,
         \A i \in 1 .. Len(t) - 2 : t[i] # Equals,
         Len(t) > 0 /\ t[Len(t) - 1] = Equals => t[Len(t)] = Equals
  PROVE  /\ Pads(t) \in 0 .. 2 /\ (Len(t) = 0 => Pads(t) = 0) /\ Pads(t) <= Len(t)
         /\ \A i \in 1 .. Len(t) : t[i] = Equals <=> i > Len(t) - Pads(t)
<1>. DEFINE n == Len(t)
            p == IF n = 0 \/ t[n] # Equals THEN 0 ELSE IF t[n - 1] # Equals THEN 1 ELSE 2
<1>1. n \in Nat /\ (n = 0 \/ n >= 4)
  OBVIOUS
<1>2. p \in 0 .. 2 /\ p <= n /\ (n = 0 => p = 0)
  BY <1>1
<1>3. ASSUME NEW i \in 1 .. n PROVE t[i] = Equals <=> i > n - p
  <2>1. i \in 1 .. n - 2 \/ i = n - 1 \/ i = n
    BY <1>1
  <2>2. CASE i \in 1 .. n - 2
    <3>1. t[i] # Equals
      BY <2>2
    <3>2. ~ (i > n - p)
      BY <1>1, <1>2, <2>2
    <3>. QED
      BY <3>1, <3>2
  <2>3. CASE i = n - 1
    BY <1>1, <2>3
  <2>4. CASE i = n
    BY <1>1, <2>4
  <2>. QED
    BY <2>1, <2>2, <2>3, <2>4
<1>. HIDE DEF p
<1>4. Pads(t) = p
  BY <1>2, <1>3, PadsAtEnd
<1>. QED
  BY <1>2, <1>3, <1>4

LEMMA Base64Given ==
  ASSUME NEW t \in Seq(Byte), NEW room \in Nat, Base64Decode(t, room).ok
  PROVE  LET e == Base64Encode(Base64Decode(t, room).data, 3 * Len(t) + 3)
         IN  e.ok /\ Same("base64", e.data, t)
<1>. DEFINE n == Len(t)
            m == n \div 4
            p == Pads(t)
            l == 3 * m - p
            d == Base64Decode(t, room).data
            e == Base64Encode(d, 3 * n + 3)
            u == e.data
<1>1. /\ n % 4 = 0 /\ \A i \in 1 .. n - 2 : t[i] # Equals
      /\ \A i \in 1 .. n : Base64Index(t[i]) <= 63
      /\ n > 0 /\ t[n - 1] = Equals => t[n] = Equals
      /\ d = [i \in 1 .. l |-> Bytes(GroupOf(t, (i + 2) \div 3))[((i - 1) % 3) + 1]]
  BY Base64Decoded
<1>2. /\ p \in 0 .. 2 /\ (n = 0 => p = 0)
      /\ \A i \in 1 .. n : t[i] = Equals <=> i > n - p
  BY <1>1, PadsGiven
<1>3. n \in Nat /\ m \in Nat /\ n = 4 * m /\ (m = 0 => p = 0)
  BY <1>1, <1>2
<1>. HIDE DEF n, m, p, d
<1>4. l \in Nat /\ (l + 2) \div 3 = m /\ PadCount(l) = p
  BY <1>2, <1>3, GroupsOf
<1>. DEFINE G(j, k) == Base64Index(t[4 * j - 4 + k])
            A(j) == G(j, 1) * 4 + G(j, 2) \div 16
            B(j) == (G(j, 2) % 16) * 16 + G(j, 3) \div 4
            C(j) == (G(j, 3) % 4) * 64 + G(j, 4)
<1>5. ASSUME NEW j \in 1 .. m, NEW k \in 1 .. 4
      PROVE  /\ G(j, k) \in 0 .. 63
             /\ 4 * j - 4 + k \in 1 .. n
             /\ ~ (4 * j - 4 + k > 4 * m - p) => t[4 * j - 4 + k] = Base64Symbol(G(j, k))
  <2>. DEFINE i == 4 * j - 4 + k
  <2>1. i \in 1 .. n
    BY <1>3
  <2>2. t[i] \in Byte /\ Base64Index(t[i]) <= 63
    BY <1>1, <2>1 DEF n
  <2>3. Base64Index(t[i]) \in 0 .. 63
    <3>. DEFINE x == Base64Index(t[i])
    <3>1. x \in 0 .. 64 /\ x <= 63
      BY <2>2, Base64Tables
    <3>. HIDE DEF x
    <3>2. x \in 0 .. 63
      BY <3>1
    <3>. QED
      BY <3>2 DEF x
  <2>4. ~ (i > 4 * m - p) => t[i] # Equals
    BY <1>2, <1>3, <2>1
  <2>. HIDE DEF i
  <2>. QED
    BY <2>1, <2>2, <2>3, <2>4, Base64Tables DEF i
<1>. HIDE DEF G
<1>6. ASSUME NEW j \in 1 .. m
      PROVE  /\ A(j) \in Byte /\ B(j) \in Byte /\ C(j) \in Byte
             /\ \A x, y \in Byte : /\ Symbols(A(j), x, y)[1] = G(j, 1)
                                   /\ x = B(j) => Symbols(A(j), x, y)[2] = G(j, 2)
                                   /\ x = B(j) /\ y = C(j) => Symbols(A(j), x, y)[3] = G(j, 3)
                                   /\ y = C(j) => Symbols(A(j), x, y)[4] = G(j, 4)
  <2>1. /\ G(j, 1) \in 0 .. 63 /\ G(j, 2) \in 0 .. 63
        /\ G(j, 3) \in 0 .. 63 /\ G(j, 4) \in 0 .. 63
    BY <1>5
  <2>. DEFINE s == [k \in 1 .. 4 |-> G(j, k)]
  <2>2. s[1] = G(j, 1) /\ s[2] = G(j, 2) /\ s[3] = G(j, 3) /\ s[4] = G(j, 4)
    OBVIOUS
  <2>. HIDE DEF s
  <2>3. A(j) = s[1] * 4 + s[2] \div 16
    BY <2>2
  <2>4. B(j) = (s[2] % 16) * 16 + s[3] \div 4
    BY <2>2
  <2>5. C(j) = (s[3] % 4) * 64 + s[4]
    BY <2>2
  <2>6. /\ s[1] \in 0 .. 63 /\ s[2] \in 0 .. 63
        /\ s[3] \in 0 .. 63 /\ s[4] \in 0 .. 63
    BY <2>1, <2>2
  <2>7. LET a == s[1] * 4 + s[2] \div 16
            b == (s[2] % 16) * 16 + s[3] \div 4
            c == (s[3] % 4) * 64 + s[4]
        IN  /\ a \in Byte /\ b \in Byte /\ c \in Byte
            /\ \A x, y \in Byte : /\ Symbols(a, x, y)[1] = s[1]
                                  /\ x = b => Symbols(a, x, y)[2] = s[2]
                                  /\ x = b /\ y = c => Symbols(a, x, y)[3] = s[3]
                                  /\ y = c => Symbols(a, x, y)[4] = s[4]
    BY <2>6, SymbolsOfBytes, Zenon
  <2>. HIDE DEF A, B, C
  <2>. QED
    BY <2>2, <2>3, <2>4, <2>5, <2>7
<1>. HIDE DEF A, B, C
<1>7. ASSUME NEW j \in 1 .. m
      PROVE  Bytes(GroupOf(t, j)) = <<A(j), B(j), C(j)>>
  <2>1. /\ GroupOf(t, j)[1] = G(j, 1) /\ GroupOf(t, j)[2] = G(j, 2)
        /\ GroupOf(t, j)[3] = G(j, 3) /\ GroupOf(t, j)[4] = G(j, 4)
    BY DEF GroupOf, G
  <2>. QED
    BY <2>1 DEF Bytes, A, B, C
<1>8. ASSUME NEW i \in 1 .. l, NEW j \in 1 .. m, NEW k \in 1 .. 3, i = 3 * j - 3 + k
      PROVE  d[i] = <<A(j), B(j), C(j)>>[k]
  <2>1. (i + 2) \div 3 = j /\ ((i - 1) % 3) + 1 = k
    BY <1>3, <1>8
  <2>. HIDE DEF l
  <2>. QED
    BY <1>1, <1>7, <2>1
<1>9. ASSUME NEW j \in 1 .. m
      PROVE  /\ 3 * j - 2 <= l /\ d[3 * j - 2] = A(j)
             /\ 3 * j - 1 <= l => d[3 * j - 1] = B(j)
             /\ 3 * j <= l => d[3 * j] = C(j)
  <2>1. 3 * j - 2 <= l /\ 3 * j - 2 \in 1 .. l /\ 3 * j - 2 = 3 * j - 3 + 1
    BY <1>2, <1>3
  <2>2. 3 * j - 1 <= l => 3 * j - 1 \in 1 .. l /\ 3 * j - 1 = 3 * j - 3 + 2
    BY <1>2, <1>3
  <2>3. 3 * j <= l => 3 * j \in 1 .. l /\ 3 * j = 3 * j - 3 + 3
    BY <1>2, <1>3
  <2>. HIDE DEF l
  <2>4. d[3 * j - 2] = A(j)
    BY <1>8, <2>1
  <2>5. 3 * j - 1 <= l => d[3 * j - 1] = B(j)
    BY <1>8, <2>2
  <2>6. 3 * j <= l => d[3 * j] = C(j)
    BY <1>8, <2>3
  <2>. QED
    BY <2>1, <2>4, <2>5, <2>6
<1>10. d \in Seq(Byte) /\ Len(d) = l
  <2>1. ASSUME NEW i \in 1 .. l PROVE d[i] \in Byte
    <3>. DEFINE j == (i + 2) \div 3
                k == ((i - 1) % 3) + 1
    <3>1. j \in 1 .. m /\ k \in 1 .. 3 /\ i = 3 * j - 3 + k
      BY <1>2, <1>3
    <3>2. k = 1 \/ k = 2 \/ k = 3
      BY <3>1
    <3>. HIDE DEF j, k, l
    <3>3. d[i] = <<A(j), B(j), C(j)>>[k]
      BY <1>8, <3>1
    <3>4. A(j) \in Byte /\ B(j) \in Byte /\ C(j) \in Byte
      BY <1>6, <3>1
    <3>. QED
      BY <3>2, <3>3, <3>4
  <2>. HIDE DEF l
  <2>2. d \in [1 .. l -> Byte]
    BY <1>1, <2>1
  <2>. QED
    BY <1>4, <2>2
<1>11. e.ok
  <2>1. 4 * ((Len(d) + 2) \div 3) = n
    BY <1>3, <1>4, <1>10
  <2>2. ~ (4 * ((Len(d) + 2) \div 3) + 1 > 3 * n + 3)
    BY <1>3, <2>1
  <2>. QED
    BY <2>2, Outcome DEF Base64Encode
<1>12. /\ u \in Seq(Byte) /\ Len(u) = 4 * m
       /\ \A j \in 1 .. m, k \in 1 .. 4 :
            u[4 * j - 4 + k] = IF 4 * j - 4 + k > 4 * m - p THEN Equals
                               ELSE Base64Symbol(SymbolsAt(d, j)[k])
       /\ \A i \in 1 .. 4 * m : u[i] = Equals <=> i > 4 * m - p
  <2>1. 3 * n + 3 \in Nat
    BY <1>3
  <2>. DEFINE g == (Len(d) + 2) \div 3
              q == PadCount(Len(d))
  <2>2. g = m /\ q = p
    BY <1>4, <1>10
  <2>. HIDE DEF l
  <2>3. /\ u \in Seq(Byte) /\ Len(u) = 4 * g
        /\ \A i \in 1 .. 4 * g : u[i] = Equals <=> i > 4 * g - q
        /\ \A j \in 1 .. g, k \in 1 .. 4 :
             /\ u[4 * j - 4 + k] = IF 4 * j - 4 + k > 4 * g - q THEN Equals
                                   ELSE Base64Symbol(SymbolsAt(d, j)[k])
             /\ Base64Index(u[4 * j - 4 + k]) = SymbolsAt(d, j)[k]
    BY <1>10, <1>11, <2>1, Base64Groups, ZenonT(40)
  <2>. HIDE DEF g, q, u, e
  <2>. QED
    BY <2>2, <2>3, Zenon
<1>. HIDE DEF u, e
<1>13. ASSUME NEW i \in 1 .. n, u[i] # t[i]
       PROVE  i < n /\ u[i + 1] = Equals
  <2>. DEFINE j == (i + 3) \div 4
              k == ((i - 1) % 4) + 1
              x == ByteAt(d, 3 * j - 1)
              y == ByteAt(d, 3 * j)
  <2>1. j \in 1 .. m /\ k \in 1 .. 4 /\ i = 4 * j - 4 + k
    BY <1>3
  <2>. HIDE DEF j, k
  <2>2. ~ (i > 4 * m - p)
    <3>1. i \in 1 .. 4 * m /\ n - p = 4 * m - p
      BY <1>3
    <3>2. i > 4 * m - p => u[i] = Equals /\ t[i] = Equals
      BY <1>2, <1>12, <3>1
    <3>. QED
      BY <1>13, <3>2
  <2>3. t[i] = Base64Symbol(G(j, k))
    BY <1>5, <2>1, <2>2
  <2>4. u[i] = Base64Symbol(SymbolsAt(d, j)[k])
    BY <1>12, <2>1, <2>2
  <2>5. ByteAt(d, 3 * j - 2) = A(j)
    BY <1>9, <1>10, <2>1 DEF ByteAt
  <2>6. 3 * j - 1 <= l => x = B(j)
    BY <1>9, <1>10, <2>1 DEF ByteAt
  <2>7. 3 * j <= l => y = C(j)
    BY <1>9, <1>10, <2>1 DEF ByteAt
  <2>8. x \in Byte /\ y \in Byte
    <3>1. 3 * j - 1 \in Nat /\ 3 * j - 1 # 0 /\ 3 * j \in Nat /\ 3 * j # 0
      BY <1>3, <2>1
    <3>. QED
      BY <1>10, <3>1, ByteAtType
  <2>9. SymbolsAt(d, j) = Symbols(A(j), x, y)
    BY <2>5 DEF SymbolsAt
  <2>. HIDE DEF x, y
  <2>10. SymbolsAt(d, j)[k] # G(j, k)
    BY <1>13, <2>3, <2>4
  <2>11. /\ Symbols(A(j), x, y)[1] = G(j, 1)
         /\ x = B(j) => Symbols(A(j), x, y)[2] = G(j, 2)
         /\ x = B(j) /\ y = C(j) => Symbols(A(j), x, y)[3] = G(j, 3)
         /\ y = C(j) => Symbols(A(j), x, y)[4] = G(j, 4)
    BY <1>6, <2>1, <2>8
  <2>12. \/ k = 2 /\ ~ (3 * j - 1 <= l)
         \/ k = 3 /\ ~ (3 * j - 1 <= l /\ 3 * j <= l)
         \/ k = 4 /\ ~ (3 * j <= l)
    <3>1. k = 1 \/ k = 2 \/ k = 3 \/ k = 4
      BY <2>1
    <3>. HIDE DEF l
    <3>. QED
      BY <2>6, <2>7, <2>9, <2>10, <2>11, <3>1
  <2>13. i < n /\ i + 1 > 4 * m - p /\ i + 1 \in 1 .. 4 * m
    BY <1>2, <1>3, <2>1, <2>2, <2>12
  <2>. QED
    BY <1>12, <2>13
<1>14. Len(u) = Len(t) /\ DOMAIN u = 1 .. n
  BY <1>3, <1>12 DEF n
<1>15. Same("base64", u, t)
  BY <1>13, <1>14 DEF Same, n
<1>. QED
  BY <1>11, <1>15 DEF u, e, d, n

-----------------------------------------------------------------------------
(* BCD *)

(* What decoding writes before it looks at the first byte: two digits for  *)
(* each byte.                                                              *)
TwoDigits(t) ==
  [i \in 1 .. 2 * Len(t) |->
     Zero + IF i % 2 = 1 THEN t[(i + 1) \div 2] \div 16 ELSE t[(i + 1) \div 2] % 16]

LEMMA TwoDigitsOf ==
  ASSUME NEW t \in Seq(Byte)
  PROVE  /\ TwoDigits(t) \in Seq(Nat) /\ Len(TwoDigits(t)) = 2 * Len(t)
         /\ \A j \in 1 .. Len(t) : /\ TwoDigits(t)[2 * j - 1] = Zero + t[j] \div 16
                                   /\ TwoDigits(t)[2 * j] = Zero + (t[j] % 16)
<1>. DEFINE n == Len(t)
            digit(i) == Zero + IF i % 2 = 1 THEN t[(i + 1) \div 2] \div 16
                                            ELSE t[(i + 1) \div 2] % 16
            d == TwoDigits(t)
<1>0. n \in Nat
  OBVIOUS
<1>1. ASSUME NEW i \in 1 .. 2 * n PROVE digit(i) \in Nat
  <2>1. (i + 1) \div 2 \in 1 .. n
    BY <1>0
  <2>2. t[(i + 1) \div 2] \in Byte
    BY <2>1
  <2>3. t[(i + 1) \div 2] \div 16 \in 0 .. 15 /\ t[(i + 1) \div 2] % 16 \in 0 .. 15
    BY <2>2, Nibbles
  <2>. DEFINE x == t[(i + 1) \div 2] \div 16
              y == t[(i + 1) \div 2] % 16
  <2>4. x \in Nat /\ y \in Nat
    BY <2>3, SMTT(30)
  <2>. HIDE DEF x, y
  <2>5. (Zero + IF i % 2 = 1 THEN x ELSE y) \in Nat
    BY <2>4 DEF Zero
  <2>. QED
    BY <2>5 DEF x, y
<1>2. d = [i \in 1 .. 2 * n |-> digit(i)]
  BY DEF TwoDigits
<1>3. ASSUME NEW j \in 1 .. n
      PROVE  /\ 2 * j - 1 \in 1 .. 2 * n /\ 2 * j \in 1 .. 2 * n
             /\ digit(2 * j - 1) = Zero + t[j] \div 16 /\ digit(2 * j) = Zero + (t[j] % 16)
  <2>1. /\ (2 * j - 1 + 1) \div 2 = j /\ (2 * j - 1) % 2 = 1
        /\ (2 * j + 1) \div 2 = j /\ (2 * j) % 2 = 0
        /\ 2 * j - 1 \in 1 .. 2 * n /\ 2 * j \in 1 .. 2 * n
    BY <1>0
  <2>. QED
    BY <2>1
<1>. HIDE DEF d, digit
<1>4. d \in Seq(Nat) /\ Len(d) = 2 * n /\ \A i \in 1 .. 2 * n : d[i] = digit(i)
  BY <1>0, <1>1, <1>2
<1>. QED
  BY <1>3, <1>4 DEF d

LEMMA BcdDecoded ==
  ASSUME NEW t \in Seq(Byte), NEW room \in Nat, BcdDecode(t, room).ok
  PROVE  /\ \A i \in 1 .. Len(t) : ~ (t[i] \div 16 > 9 \/ t[i] % 16 > 9)
         /\ BcdDecode(t, room).data =
              IF Len(t) = 0 THEN << >>
              ELSE IF LeadAlone(t) THEN Tail(TwoDigits(t)) ELSE TwoDigits(t)
<1>. DEFINE n == Len(t)
            bad == \/ 2 * n > room
                   \/ n > 0 /\ t[1] >= 16 /\ 2 * n + 1 > room
                   \/ \E i \in 1 .. n : t[i] \div 16 > 9 \/ t[i] % 16 > 9
            r == IF LeadAlone(t) THEN Tail(TwoDigits(t)) ELSE TwoDigits(t)
<1>1. BcdDecode(t, room) = IF bad THEN Failed ELSE IF n = 0 THEN Done(<< >>) ELSE Done(r)
  BY Zenon DEF BcdDecode, TwoDigits
<1>2. ~ bad
  <2>. HIDE DEF bad, r
  <2>. QED
    BY <1>1, Outcome
<1>3. BcdDecode(t, room).data = IF n = 0 THEN << >> ELSE r
  <2>. HIDE DEF bad, r
  <2>. QED
    BY <1>1, <1>2, Outcome
<1>. QED
  BY <1>2, <1>3

(* The bytes that encoding stores: the digits, with a zero before an odd   *)
(* number of them.                                                         *)
LEMMA BcdEncoded ==
  ASSUME NEW src \in Seq(Byte), NEW room \in Nat, BcdEncode(src, room).ok
  PROVE  LET e == BcdEncode(src, room).data
             odd == Len(src) % 2
             digit(i) == IF i = 0 THEN 0 ELSE src[i] - Zero
         IN  /\ \A i \in 1 .. Len(src) : src[i] \in Zero .. Zero + 9
             /\ e \in Seq(Byte) /\ Len(e) = (Len(src) + 1) \div 2
             /\ \A j \in 1 .. Len(e) :
                  /\ e[j] \div 16 = digit(2 * j - 1 - odd)
                  /\ e[j] % 16 = digit(2 * j - odd)
<1>. DEFINE n == Len(src)
            m == (n + 1) \div 2
            odd == n % 2
            digit(i) == IF i = 0 THEN 0 ELSE src[i] - Zero
            byte(j) == digit(2 * j - 1 - odd) * 16 + digit(2 * j - odd)
            e == [j \in 1 .. m |-> byte(j)]
            bad == m > room \/ \E i \in DOMAIN src : src[i] \notin Zero .. Zero + 9
<1>0. n \in Nat /\ m \in Nat /\ odd \in 0 .. 1 /\ 2 * m - odd = n
  OBVIOUS
<1>1. BcdEncode(src, room) = IF bad THEN Failed ELSE Done(e)
  BY Zenon DEF BcdEncode
<1>2. ~ bad /\ BcdEncode(src, room).data = e
  <2>. HIDE DEF bad, e
  <2>. QED
    BY <1>1, Outcome
<1>3. \A i \in 1 .. n : src[i] \in Zero .. Zero + 9
  BY <1>2
<1>4. ASSUME NEW j \in 1 .. m
      PROVE  digit(2 * j - 1 - odd) \in 0 .. 15 /\ digit(2 * j - odd) \in 0 .. 15
  <2>. HIDE DEF n, m, odd
  <2>1. 2 * j - 1 - odd \in 0 .. n /\ 2 * j - odd \in 1 .. n
    BY <1>0
  <2>2. \A i \in 1 .. n : src[i] - Zero \in 0 .. 15
    BY <1>3 DEF Zero
  <2>3. \A i \in 0 .. n : i # 0 => i \in 1 .. n
    BY <1>0
  <2>4. \A i \in 0 .. n : digit(i) \in 0 .. 15
    BY <2>2, <2>3
  <2>5. 2 * j - odd \in 0 .. n
    BY <1>0, <2>1
  <2>. HIDE DEF digit
  <2>. QED
    BY <2>1, <2>4, <2>5
<1>5. ASSUME NEW j \in 1 .. m
      PROVE  /\ byte(j) \in Byte /\ byte(j) \div 16 = digit(2 * j - 1 - odd)
             /\ byte(j) % 16 = digit(2 * j - odd)
  <2>. HIDE DEF digit
  <2>. QED
    BY <1>4, NibblesOf
<1>. HIDE DEF byte, digit, m, odd
<1>6. e \in Seq(Byte) /\ Len(e) = m /\ \A j \in 1 .. m : e[j] = byte(j)
  BY <1>0, <1>5
<1>7. \A j \in 1 .. m : /\ e[j] \div 16 = digit(2 * j - 1 - odd)
                        /\ e[j] % 16 = digit(2 * j - odd)
  BY <1>5, <1>6
<1>. HIDE DEF e
<1>. QED
  BY <1>2, <1>3, <1>6, <1>7 DEF m, odd, digit

LEMMA BcdThereAndBack ==
  ASSUME NEW src \in Seq(Byte), NEW room \in Nat, BcdEncode(src, room).ok, NEW size \in Nat,
         BcdDecode(BcdEncode(src, room).data, size).ok
  PROVE  BcdDecode(BcdEncode(src, room).data, size).data
           = IF src # << >> /\ src[1] = Zero /\ Len(src) % 2 = 0 THEN Tail(src) ELSE src
<1>. DEFINE n == Len(src)
            odd == n % 2
            e == BcdEncode(src, room).data
            m == Len(e)
            digit(i) == IF i = 0 THEN 0 ELSE src[i] - Zero
            d == TwoDigits(e)
            r == BcdDecode(e, size).data
<1>1. /\ \A i \in 1 .. n : src[i] \in Zero .. Zero + 9
      /\ e \in Seq(Byte) /\ Len(e) = (n + 1) \div 2
      /\ \A j \in 1 .. Len(e) : /\ e[j] \div 16 = digit(2 * j - 1 - odd)
                                /\ e[j] % 16 = digit(2 * j - odd)
  BY BcdEncoded, Zenon
<1>2. n \in Nat /\ odd \in 0 .. 1 /\ BcdDecode(e, size).ok
  OBVIOUS
<1>. HIDE DEF e
<1>3. r = IF Len(e) = 0 THEN << >> ELSE IF LeadAlone(e) THEN Tail(d) ELSE d
  BY <1>1, <1>2, BcdDecoded
<1>. HIDE DEF r
<1>4. m \in Nat /\ 2 * m - odd = n
  <2>. HIDE DEF n
  <2>1. m = (n + 1) \div 2
    BY <1>1, Zenon
  <2>. HIDE DEF m
  <2>. QED
    BY <1>2, <2>1
<1>5. /\ d \in Seq(Nat) /\ Len(d) = 2 * m
      /\ \A j \in 1 .. m : /\ d[2 * j - 1] = Zero + digit(2 * j - 1 - odd)
                           /\ d[2 * j] = Zero + digit(2 * j - odd)
  <2>1. /\ d \in Seq(Nat) /\ Len(d) = 2 * m
        /\ \A j \in 1 .. m : /\ d[2 * j - 1] = Zero + e[j] \div 16
                             /\ d[2 * j] = Zero + (e[j] % 16)
    BY <1>1, TwoDigitsOf
  <2>. HIDE DEF d, digit, odd
  <2>. QED
    BY <1>1, <2>1
<1>. HIDE DEF d, m, odd
<1>6. ASSUME NEW i \in 1 .. 2 * m PROVE d[i] = Zero + digit(i - odd)
  <2>. DEFINE j == (i + 1) \div 2
  <2>1. j \in 1 .. m /\ (i = 2 * j - 1 \/ i = 2 * j)
    BY <1>4
  <2>. HIDE DEF j, digit
  <2>. QED
    BY <1>5, <2>1
<1>7. ASSUME NEW i \in 1 .. n PROVE src[i] \in Nat /\ Zero + digit(i) = src[i]
  <2>1. i # 0
    OBVIOUS
  <2>2. src[i] \in Zero .. Zero + 9
    BY <1>1
  <2>. QED
    BY <2>1, <2>2 DEF Zero
<1>8. CASE m = 0
  <2>1. n = 0
    BY <1>2, <1>4, <1>8
  <2>2. src = << >> /\ r = << >>
    BY <1>3, <1>8, <2>1 DEF m
  <2>. QED
    BY <2>2 DEF r, e
<1>9. CASE m # 0
  <2>1. r = IF LeadAlone(e) THEN Tail(d) ELSE d
    BY <1>3, <1>9 DEF m
  <2>2. e[1] < 16 <=> digit(1 - odd) = 0
    <3>1. 1 \in 1 .. Len(e) /\ 2 * 1 - 1 - odd = 1 - odd
      BY <1>2, <1>4, <1>9 DEF m
    <3>2. e[1] \in Byte /\ e[1] \div 16 = digit(1 - odd)
      BY <1>1, <3>1 DEF odd
    <3>. DEFINE x == e[1]
    <3>. HIDE DEF digit, x
    <3>3. x \in Byte /\ x \div 16 = digit(1 - odd)
      BY <3>2 DEF x
    <3>4. x < 16 <=> x \div 16 = 0
      BY <3>3 DEF Byte
    <3>. QED
      BY <3>3, <3>4 DEF x
  <2>3. src # << >> /\ n >= 1
    BY <1>2, <1>4, <1>9
  <2>4. CASE odd = 1
    <3>1. LeadAlone(e)
      BY <2>2, <2>4 DEF LeadAlone
    <3>2. d # << >> /\ Len(d) = n + 1
      BY <1>4, <1>5, <1>9, <2>4
    <3>3. /\ Tail(d) \in Seq(Nat) /\ Len(Tail(d)) = n
          /\ \A i \in 1 .. n : Tail(d)[i] = d[i + 1]
      BY <1>2, <1>5, <3>2, HeadTailProperties
    <3>4. ASSUME NEW i \in 1 .. n PROVE Tail(d)[i] = src[i]
      <4>1. i + 1 \in 1 .. 2 * m /\ (i + 1) - odd = i
        BY <1>4, <2>4
      <4>. HIDE DEF digit, n
      <4>2. Tail(d)[i] = d[i + 1]
        BY <3>3
      <4>. DEFINE k == i + 1
      <4>3. k \in 1 .. 2 * m /\ k - odd = i
        BY <4>1
      <4>. HIDE DEF k
      <4>4. d[k] = Zero + digit(k - odd)
        BY <1>6, <4>3
      <4>5. d[k] = Zero + digit(i)
        BY <4>3, <4>4
      <4>6. Zero + digit(i) = src[i]
        BY <1>7
      <4>. QED
        BY <4>2, <4>5, <4>6 DEF k
    <3>5. Tail(d) = src
      <4>1. src \in Seq(Nat)
        BY <1>7
      <4>. QED
        BY <3>3, <3>4, <4>1, Equal
    <3>. QED
      BY <2>1, <2>4, <3>1, <3>5 DEF r, e, odd
  <2>5. CASE odd = 0
    <3>1. Len(d) = n /\ 2 * m = n
      BY <1>4, <1>5, <2>5
    <3>2. ASSUME NEW i \in 1 .. n PROVE d[i] = src[i]
      <4>1. i \in 1 .. 2 * m /\ i - odd = i
        BY <2>5, <3>1
      <4>. HIDE DEF digit
      <4>. QED
        BY <1>6, <1>7, <4>1
    <3>3. d = src
      <4>1. src \in Seq(Nat)
        BY <1>7
      <4>. QED
        BY <1>5, <3>1, <3>2, <4>1, Equal
    <3>4. LeadAlone(e) <=> src[1] = Zero
      <4>1. 1 \in 1 .. n
        BY <1>2, <2>3
      <4>2. src[1] \in Nat /\ digit(1) = src[1] - Zero
        BY <1>7, <4>1
      <4>. QED
        BY <2>2, <2>5, <4>2 DEF LeadAlone, Zero
    <3>. QED
      BY <2>1, <2>3, <2>5, <3>3, <3>4 DEF r, e, odd
  <2>. QED
    BY <1>2, <2>4, <2>5
<1>. QED
  BY <1>8, <1>9

LEMMA BcdGiven ==
  ASSUME NEW t \in Seq(Byte), NEW room \in Nat, BcdDecode(t, room).ok
  PROVE  LET e == BcdEncode(BcdDecode(t, room).data, 3 * Len(t) + 3)
         IN  e.ok /\ Same("bcd", e.data, t)
<1>. DEFINE n == Len(t)
            d == TwoDigits(t)
            r == BcdDecode(t, room).data
            e == BcdEncode(r, 3 * n + 3)
<1>1. /\ \A i \in 1 .. n : ~ (t[i] \div 16 > 9 \/ t[i] % 16 > 9)
      /\ r = IF n = 0 THEN << >> ELSE IF LeadAlone(t) THEN Tail(d) ELSE d
  BY BcdDecoded
<1>2. /\ d \in Seq(Nat) /\ Len(d) = 2 * n
      /\ \A j \in 1 .. n : d[2 * j - 1] = Zero + t[j] \div 16 /\ d[2 * j] = Zero + (t[j] % 16)
  BY TwoDigitsOf
<1>3. n \in Nat
  OBVIOUS
<1>. HIDE DEF r, d
<1>4. ASSUME NEW j \in 1 .. n
      PROVE  /\ t[j] \div 16 \in 0 .. 9 /\ t[j] % 16 \in 0 .. 9
             /\ (t[j] \div 16) * 16 + (t[j] % 16) = t[j] /\ t[j] \in Byte
  <2>1. t[j] \in Byte /\ ~ (t[j] \div 16 > 9 \/ t[j] % 16 > 9)
    BY <1>1
  <2>2. t[j] \div 16 \in 0 .. 15 /\ t[j] % 16 \in 0 .. 15 /\ (t[j] \div 16) * 16 + (t[j] % 16) = t[j]
    BY <2>1, Nibbles
  <2>. QED
    BY <2>1, <2>2, SMTT(30)
<1>5. ASSUME NEW i \in 1 .. 2 * n PROVE d[i] \in Zero .. Zero + 9
  <2>. DEFINE j == (i + 1) \div 2
  <2>1. j \in 1 .. n /\ (i = 2 * j - 1 \/ i = 2 * j)
    BY <1>3
  <2>. HIDE DEF j
  <2>2. d[i] = Zero + t[j] \div 16 \/ d[i] = Zero + (t[j] % 16)
    BY <1>2, <2>1
  <2>. DEFINE x == t[j] \div 16
              y == t[j] % 16
  <2>3. x \in 0 .. 9 /\ y \in 0 .. 9
    BY <1>4, <2>1
  <2>4. d[i] = Zero + x \/ d[i] = Zero + y
    BY <2>2
  <2>. HIDE DEF x, y
  <2>. QED
    BY <2>3, <2>4, SMTT(30) DEF Zero
<1>. DEFINE odd == IF n # 0 /\ LeadAlone(t) THEN 1 ELSE 0
            l == 2 * n - odd
<1>6. odd \in 0 .. 1 /\ l \in Nat /\ l % 2 = odd /\ (l + 1) \div 2 = n
  BY <1>3
<1>7. r \in Seq(Nat) /\ Len(r) = l /\ \A i \in 1 .. l : r[i] = d[i + odd]
  <2>1. CASE n = 0
    <3>1. r = << >> /\ l = 0
      BY <1>1, <2>1
    <3>. QED
      BY <3>1
  <2>2. CASE n # 0 /\ LeadAlone(t)
    <3>1. r = Tail(d) /\ odd = 1 /\ d # << >>
      BY <1>1, <1>2, <1>3, <2>2
    <3>. HIDE DEF odd
    <3>. QED
      BY <1>2, <1>3, <3>1, HeadTailProperties
  <2>3. CASE n # 0 /\ ~ LeadAlone(t)
    <3>1. r = d /\ odd = 0 /\ \A i \in 1 .. l : i + 0 = i
      BY <1>1, <2>3
    <3>2. l = 2 * n
      BY <1>3, <3>1
    <3>. HIDE DEF odd, l
    <3>. QED
      BY <1>2, <3>1, <3>2
  <2>. QED
    BY <2>1, <2>2, <2>3
<1>8. ASSUME NEW i \in 1 .. l PROVE r[i] \in Zero .. Zero + 9 /\ r[i] \in Byte
  <2>1. i + odd \in 1 .. 2 * n
    BY <1>3, <1>6
  <2>2. r[i] \in Zero .. Zero + 9
    BY <1>5, <1>7, <2>1
  <2>. QED
    BY <2>2 DEF Zero, Byte
<1>9. r \in Seq(Byte)
  <2>. HIDE DEF l, odd
  <2>1. r \in [1 .. l -> Byte]
    <3>1. r = [i \in 1 .. l |-> r[i]]
      BY <1>7
    <3>2. \A i \in 1 .. l : r[i] \in Byte
      BY <1>8
    <3>. QED
      BY <3>1, <3>2, Zenon
  <2>. QED
    BY <1>6, <2>1
<1>10. e.ok
  <2>1. ~ ((Len(r) + 1) \div 2 > 3 * n + 3)
    <3>1. ~ (n > 3 * n + 3)
      BY <1>3
    <3>. HIDE DEF l, odd
    <3>. QED
      BY <1>6, <1>7, <3>1
  <2>2. ~ \E i \in DOMAIN r : r[i] \notin Zero .. Zero + 9
    <3>. HIDE DEF l, odd
    <3>. QED
      BY <1>7, <1>8
  <2>. HIDE DEF l, odd
  <2>. QED
    BY <2>1, <2>2, Outcome DEF BcdEncode
<1>. DEFINE digit(i) == IF i = 0 THEN 0 ELSE r[i] - Zero
            u == e.data
<1>11. /\ u \in Seq(Byte) /\ Len(u) = n
       /\ \A j \in 1 .. n : /\ u[j] \div 16 = digit(2 * j - 1 - odd)
                            /\ u[j] % 16 = digit(2 * j - odd)
  <2>1. 3 * n + 3 \in Nat
    BY <1>3
  <2>2. Len(r) % 2 = odd /\ (Len(r) + 1) \div 2 = n
    BY <1>6, <1>7
  <2>. DEFINE rest == Len(r) % 2
  <2>3. /\ u \in Seq(Byte) /\ Len(u) = (Len(r) + 1) \div 2
        /\ \A j \in 1 .. Len(u) : /\ u[j] \div 16 = digit(2 * j - 1 - rest)
                                  /\ u[j] % 16 = digit(2 * j - rest)
    BY <1>9, <1>10, <2>1, BcdEncoded, Zenon
  <2>. HIDE DEF u, e, digit, rest
  <2>4. rest = odd /\ Len(u) = n
    BY <2>2, <2>3, Zenon DEF rest
  <2>. HIDE DEF l, odd, n
  <2>. QED
    BY <2>3, <2>4, Zenon
<1>. HIDE DEF u, e
<1>12. ASSUME NEW j \in 1 .. n PROVE u[j] = t[j]
  <2>1. 2 * j - odd \in 1 .. l /\ 2 * j - odd # 0 /\ 2 * j - odd + odd = 2 * j
    BY <1>3, <1>6
  <2>2. digit(2 * j - odd) = t[j] % 16
    <3>1. r[2 * j - odd] = Zero + (t[j] % 16)
      BY <1>2, <1>7, <2>1
    <3>. HIDE DEF odd
    <3>. QED
      BY <1>4, <2>1, <3>1, SMTT(30) DEF Zero
  <2>3. digit(2 * j - 1 - odd) = t[j] \div 16
    <3>1. CASE 2 * j - 1 - odd = 0
      <4>1. j = 1 /\ odd = 1
        BY <1>3, <1>6, <3>1
      <4>2. t[j] < 16
        BY <4>1 DEF LeadAlone
      <4>3. t[j] \div 16 = 0
        <5>. DEFINE x == t[j]
        <5>1. x \in 0 .. 255 /\ x < 16
          BY <1>4, <4>2 DEF Byte
        <5>. HIDE DEF x
        <5>2. x \div 16 = 0
          BY <5>1
        <5>. QED
          BY <5>2 DEF x
      <4>. HIDE DEF odd
      <4>. QED
        BY <3>1, <4>3
    <3>2. CASE 2 * j - 1 - odd # 0
      <4>1. 2 * j - 1 - odd \in 1 .. l /\ 2 * j - 1 - odd + odd = 2 * j - 1
        BY <1>3, <1>6, <3>2
      <4>2. r[2 * j - 1 - odd] = Zero + t[j] \div 16
        BY <1>2, <1>7, <4>1
      <4>. HIDE DEF odd
      <4>. QED
        BY <1>4, <3>2, <4>2 DEF Zero
    <3>. QED
      BY <3>1, <3>2
  <2>4. u[j] \in Byte
    BY <1>11
  <2>5. u[j] \div 16 = t[j] \div 16 /\ u[j] % 16 = t[j] % 16
    BY <1>11, <2>2, <2>3
  <2>6. (u[j] \div 16) * 16 + (u[j] % 16) = u[j]
    BY <2>4, Nibbles
  <2>. QED
    BY <1>4, <2>5, <2>6
<1>13. u = t
  BY <1>11, <1>12, Equal
<1>. QED
  BY <1>10, <1>13 DEF Same, u, e, r, n

-----------------------------------------------------------------------------
(* What a codec may have stored, by the control. *)
TextInv ==
  /\ codec \in TextCodec
  /\ at \in {"encoded", "decoded"} =>
       /\ plain \in Seq(Byte) /\ coded.ok
       /\ \E room \in Nat : coded \in EncodedText(codec, plain, room)
  /\ at = "decoded" =>
       /\ back.ok
       /\ \E room \in Nat : back \in DecodedText(codec, coded.data, room)
  /\ at = "given" =>
       /\ back.ok
       /\ \E src \in Seq(Byte), room \in Nat :
            coded = Done(src) /\ back \in DecodedText(codec, src, room)

LEMMA TextInvHolds == Spec => []TextInv
<1>1. Init => TextInv
  <2>. SUFFICES ASSUME Init PROVE TextInv
    OBVIOUS
  <2>1. codec = "hex" /\ at \in {"write", "text"}
    BY DEF Init
  <2>. QED
    BY <2>1 DEF TextInv, TextCodec
<1>2. TextInv /\ [Next]_vars => TextInv'
  <2>. SUFFICES ASSUME TextInv, [Next]_vars PROVE TextInv'
    OBVIOUS
  <2>1. CASE at' \notin {"encoded", "decoded", "given"} /\ codec' = codec
    BY <2>1 DEF TextInv
  <2>2. CASE at' = at /\ UNCHANGED text
    BY <2>2 DEF TextInv, text
  <2>3. CASE Put
    <3>1. (at' = "full" \/ at' = at) /\ at = "write" /\ codec' = codec
      BY <2>3 DEF Put, text
    <3>. QED
      BY <2>1, <3>1
  <2>4. CASE Open
    <3>1. at' = "read" /\ codec' = codec
      BY <2>4 DEF Open, text
    <3>. QED
      BY <2>1, <3>1
  <2>5. CASE Get
    <3>1. at = "read" /\ (at' = at \/ at' = "failed") /\ codec' = codec
      BY <2>5 DEF Get, text
    <3>. QED
      BY <2>1, <3>1
  <2>6. CASE Rewind
    <3>1. at' = at /\ UNCHANGED text
      BY <2>6 DEF Rewind
    <3>. QED
      BY <2>2, <3>1
  <2>7. CASE Encode
    <3>1. codec' \in TextCodec /\ at' = IF coded'.ok THEN "encoded" ELSE "refused"
      BY <2>7 DEF Encode
    <3>2. PICK room \in Rooms, src \in Plain[codec'] :
            plain' = src /\ coded' \in EncodedText(codec', src, room)
      BY <2>7 DEF Encode
    <3>3. room \in Nat /\ src \in Seq(Byte)
      BY <3>1, CodecsAssumption
    <3>4. at' = "encoded" => coded'.ok
      BY <3>1
    <3>5. at' \in {"encoded", "refused"}
      BY <3>1
    <3>. QED
      BY <3>1, <3>2, <3>3, <3>4, <3>5 DEF TextInv
  <2>8. CASE Decode
    <3>1. at = "encoded" /\ UNCHANGED <<codec, plain, coded>>
          /\ at' = IF back'.ok THEN "decoded" ELSE "refused"
      BY <2>8 DEF Decode
    <3>2. PICK room \in Rooms : back' \in DecodedText(codec, coded.data, room)
      BY <2>8 DEF Decode
    <3>3. room \in Nat
      BY CodecsAssumption
    <3>4. at' \in {"decoded", "refused"} /\ (at' = "decoded" => back'.ok)
      BY <3>1
    <3>. QED
      BY <3>1, <3>2, <3>3, <3>4 DEF TextInv
  <2>9. CASE DecodeGiven
    <3>1. codec' \in TextCodec /\ at' = IF back'.ok THEN "given" ELSE "refused"
      BY <2>9 DEF DecodeGiven
    <3>2. PICK room \in Rooms, src \in Coded[codec'] :
            coded' = Done(src) /\ back' \in DecodedText(codec', src, room)
      BY <2>9 DEF DecodeGiven
    <3>3. room \in Nat /\ src \in Seq(Byte)
      BY <3>1, CodecsAssumption
    <3>4. at' \in {"given", "refused"} /\ (at' = "given" => back'.ok)
      BY <3>1
    <3>. QED
      BY <3>1, <3>2, <3>3, <3>4 DEF TextInv
  <2>10. CASE UNCHANGED vars
    <3>1. at' = at /\ UNCHANGED text
      BY <2>10 DEF vars
    <3>. QED
      BY <2>2, <3>1
  <2>. QED
    BY <2>3, <2>4, <2>5, <2>6, <2>7, <2>8, <2>9, <2>10 DEF Next
<1>. QED
  BY <1>1, <1>2, PTL DEF Spec

(* What the codecs may answer. *)
LEMMA Answers ==
  ASSUME NEW src, NEW room
  PROVE  /\ EncodedText("hex", src, room) = {HexEncode(src, room, lower) : lower \in BOOLEAN}
         /\ EncodedText("base64", src, room) = {Base64Encode(src, room)}
         /\ EncodedText("bcd", src, room) = {BcdEncode(src, room)}
         /\ \A r \in DecodedText("hex", src, room) : r = HexDecode(src, room)
         /\ \A r \in DecodedText("base64", src, room) : r = Base64Decode(src, room)
         /\ \A r \in DecodedText("bcd", src, room) : r.ok => r = BcdDecode(src, room)
BY DEF EncodedText, DecodedText, Failed

(* Decoding returns what was encoded, except for the leading zero of an    *)
(* even number of decimal digits; a base64 group is the number its bytes   *)
(* are; and a given text that decodes is the encoding of the result, up to *)
(* the case of hex digits and the unused bits of a last base64 symbol      *)
(* (hex.cpp, base64.cpp, bcd.cpp), for any bytes, texts and rooms.         *)
THEOREM TextsRoundTrip == Spec => []TextRoundTrip
<1>1. TextInv => TextRoundTrip
  <2>. SUFFICES ASSUME TextInv PROVE TextRoundTrip
    OBVIOUS
  <2>1. codec = "hex" \/ codec = "base64" \/ codec = "bcd"
    BY DEF TextInv, TextCodec
  <2>2. ASSUME at = "decoded"
        PROVE  back.data = IF codec = "bcd" /\ plain # << >> /\ plain[1] = Zero
                              /\ Len(plain) % 2 = 0
                             THEN Tail(plain) ELSE plain
    <3>1. plain \in Seq(Byte) /\ coded.ok /\ back.ok
      BY <2>2 DEF TextInv
    <3>2. PICK room \in Nat : coded \in EncodedText(codec, plain, room)
      BY <2>2 DEF TextInv
    <3>3. PICK size \in Nat : back \in DecodedText(codec, coded.data, size)
      BY <2>2 DEF TextInv
    <3>4. CASE codec = "hex"
      <4>1. PICK lower \in BOOLEAN : coded = HexEncode(plain, room, lower)
        BY <3>2, <3>4, Answers
      <4>2. back = HexDecode(coded.data, size)
        BY <3>3, <3>4, Answers
      <4>3. back.data = plain
        BY <3>1, <4>1, <4>2, HexThereAndBack, Zenon
      <4>. QED
        BY <3>4, <4>3
    <3>5. CASE codec = "base64"
      <4>1. coded = Base64Encode(plain, room)
        BY <3>2, <3>5, Answers
      <4>2. back = Base64Decode(coded.data, size)
        BY <3>3, <3>5, Answers
      <4>3. back.data = plain
        BY <3>1, <4>1, <4>2, Base64ThereAndBack, Zenon
      <4>. QED
        BY <3>5, <4>3
    <3>6. CASE codec = "bcd"
      <4>1. coded = BcdEncode(plain, room)
        BY <3>2, <3>6, Answers
      <4>2. back = BcdDecode(coded.data, size)
        BY <3>1, <3>3, <3>6, Answers
      <4>3. back.data = IF plain # << >> /\ plain[1] = Zero /\ Len(plain) % 2 = 0
                          THEN Tail(plain) ELSE plain
        BY <3>1, <4>1, <4>2, BcdThereAndBack, Zenon
      <4>. QED
        BY <3>6, <4>3
    <3>. QED
      BY <2>1, <3>4, <3>5, <3>6
  <2>3. ASSUME at = "encoded", codec = "base64",
               NEW g \in 1 .. Len(coded.data) \div 4
        PROVE  Number4([k \in 1 .. 4 |-> Base64Index(coded.data[4 * g - 4 + k])])
                 = Number3(Group(plain, g))
    <3>1. plain \in Seq(Byte) /\ coded.ok
      BY <2>3 DEF TextInv
    <3>2. PICK room \in Nat : coded = Base64Encode(plain, room)
      BY <2>3, Answers DEF TextInv
    <3>3. Number4(GroupOf(coded.data, g)) = Number3(Group(plain, g))
      BY <2>3, <3>1, <3>2, Base64Numbers, Zenon
    <3>. QED
      BY <3>3, Zenon DEF GroupOf
  <2>4. ASSUME at = "given"
        PROVE  \E s \in EncodedText(codec, back.data, 3 * Len(coded.data) + 3) :
                 s.ok /\ Same(codec, s.data, coded.data)
    <3>1. back.ok
      BY <2>4 DEF TextInv
    <3>2. PICK src \in Seq(Byte), room \in Nat :
            coded = Done(src) /\ back \in DecodedText(codec, src, room)
      BY <2>4 DEF TextInv
    <3>3. coded.data = src
      BY <3>2, Outcome
    <3>. DEFINE size == 3 * Len(src) + 3
    <3>4. CASE codec = "hex"
      <4>. DEFINE s == HexEncode(back.data, size, TRUE)
      <4>1. back = HexDecode(src, room)
        BY <3>2, <3>4, Answers
      <4>2. s.ok /\ Same("hex", s.data, src)
        BY <3>1, <4>1, HexGiven, Zenon
      <4>3. s \in EncodedText("hex", back.data, size)
        <5>1. EncodedText("hex", back.data, size)
                = {HexEncode(back.data, size, lower) : lower \in BOOLEAN}
          BY Answers
        <5>. HIDE DEF size
        <5>. QED
          BY <5>1
      <4>. QED
        BY <3>3, <3>4, <4>2, <4>3, Zenon
    <3>5. CASE codec = "base64"
      <4>. DEFINE s == Base64Encode(back.data, size)
      <4>1. back = Base64Decode(src, room)
        BY <3>2, <3>5, Answers
      <4>2. s.ok /\ Same("base64", s.data, src)
        BY <3>1, <4>1, Base64Given, Zenon
      <4>3. s \in EncodedText("base64", back.data, size)
        BY Answers
      <4>. QED
        BY <3>3, <3>5, <4>2, <4>3, Zenon
    <3>6. CASE codec = "bcd"
      <4>. DEFINE s == BcdEncode(back.data, size)
      <4>1. back = BcdDecode(src, room)
        BY <3>1, <3>2, <3>6, Answers
      <4>2. s.ok /\ Same("bcd", s.data, src)
        BY <3>1, <4>1, BcdGiven, Zenon
      <4>3. s \in EncodedText("bcd", back.data, size)
        BY Answers
      <4>. QED
        BY <3>3, <3>6, <4>2, <4>3, Zenon
    <3>. QED
      BY <2>1, <3>4, <3>5, <3>6
  <2>. QED
    BY <2>2, <2>3, <2>4, Zenon DEF TextRoundTrip
<1>. QED
  BY <1>1, TextInvHolds, PTL

=============================================================================
