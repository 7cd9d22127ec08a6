----------------------------- MODULE TextCodecs -----------------------------
(***************************************************************************)
(* Bytes written as text: hex.cpp, base64.cpp and bcd.cpp of               *)
(* src/base/string.  Characters are their codes.  An encoder or decoder is *)
(* given the room of the destination; it answers whether it succeeded and, *)
(* if so, what it stored, without the final NUL.                           *)
(***************************************************************************)
EXTENDS Naturals, Sequences, FiniteSets

Failed == [ok |-> FALSE, data |-> << >>]
Done(data) == [ok |-> TRUE, data |-> data]

Zero == 48   \* '0'
Equals == 61 \* '='

-----------------------------------------------------------------------------
(* hex.cpp *)
HexDigit(n, lower) ==
  IF n < 10 THEN Zero + n ELSE (IF lower THEN 97 ELSE 65) + n - 10

(* hex_index: 16 for what is no digit *)
HexIndex(c) ==
  CASE c \in 48 .. 57 -> c - 48
    [] c \in 97 .. 102 -> c - 97 + 10
    [] c \in 65 .. 70 -> c - 65 + 10
    [] OTHER -> 16

HexEncode(src, room, lower) ==
  IF 2 * Len(src) + 1 > room THEN Failed
  ELSE Done([i \in 1 .. 2 * Len(src) |->
               LET byte == src[(i + 1) \div 2]
               IN  HexDigit(IF i % 2 = 1 THEN byte \div 16 ELSE byte % 16, lower)])

HexDecode(src, room) ==
  IF \/ Len(src) % 2 # 0
     \/ Len(src) \div 2 > room
     \/ \E i \in DOMAIN src : HexIndex(src[i]) >= 16
    THEN Failed
  ELSE Done([i \in 1 .. Len(src) \div 2 |->
               HexIndex(src[2 * i - 1]) * 16 + HexIndex(src[2 * i])])

-----------------------------------------------------------------------------
(* base64.cpp *)
Base64Symbol(n) ==
  CASE n \in 0 .. 25 -> 65 + n
    [] n \in 26 .. 51 -> 97 + n - 26
    [] n \in 52 .. 61 -> 48 + n - 52
    [] n = 62 -> 43
    [] n = 63 -> 47

(* base64_index: 0 for '=', 64 for what is no symbol *)
Base64Index(c) ==
  CASE c \in 65 .. 90 -> c - 65
    [] c \in 97 .. 122 -> c - 97 + 26
    [] c \in 48 .. 57 -> c - 48 + 52
    [] c = 43 -> 62
    [] c = 47 -> 63
    [] c = Equals -> 0
    [] OTHER -> 64

\* Mutant of PadCount: a group of two bytes is padded like one of one byte.
PadCountTwo(n) == IF n % 3 = 0 THEN 0 ELSE 2

(* The switch at the end of base64_encode. *)
PadCount(n) == CASE n % 3 = 0 -> 0 [] n % 3 = 1 -> 2 [] n % 3 = 2 -> 1

Base64Encode(src, room) ==
  LET groups == (Len(src) + 2) \div 3
      byte(i) == IF i <= Len(src) THEN src[i] ELSE 0
      group(g) == LET a == byte(3 * g - 2) b == byte(3 * g - 1) c == byte(3 * g)
                  IN  <<a \div 4, (a % 4) * 16 + b \div 16,
                        (b % 16) * 4 + c \div 64, c % 64>>
      pads == PadCount(Len(src))
  IN  IF 4 * groups + 1 > room THEN Failed
      ELSE Done([i \in 1 .. 4 * groups |->
                   IF i > 4 * groups - pads THEN Equals
                   ELSE Base64Symbol(group((i + 3) \div 4)[((i - 1) % 4) + 1])])

Base64Decode(src, room) ==
  LET n == Len(src)
      pads == Cardinality({i \in DOMAIN src : src[i] = Equals})
      length == 3 * (n \div 4) - pads
      group(g) == [k \in 1 .. 4 |-> Base64Index(src[4 * g - 4 + k])]
      bytes(g) == LET s == group(g)
                  IN  <<s[1] * 4 + s[2] \div 16, (s[2] % 16) * 16 + s[3] \div 4,
                        (s[3] % 4) * 64 + s[4]>>
  IN  IF \/ n % 4 # 0
         \/ \E i \in 1 .. n - 2 : src[i] = Equals
         \/ \E i \in DOMAIN src : Base64Index(src[i]) > 63
         \/ length > room
         \/ n > 0 /\ src[n - 1] = Equals /\ src[n] # Equals
        THEN Failed
      ELSE Done([i \in 1 .. length |-> bytes((i + 2) \div 3)[((i - 1) % 3) + 1]])

-----------------------------------------------------------------------------
(* bcd.cpp: decimal digits, two in a byte; the first of an odd number is   *)
(* alone in its byte.                                                      *)
BcdEncode(src, room) ==
  LET odd == Len(src) % 2
      digit(i) == IF i = 0 THEN 0 ELSE src[i] - Zero
  IN  IF \/ (Len(src) + 1) \div 2 > room
         \/ \E i \in DOMAIN src : src[i] \notin Zero .. Zero + 9
        THEN Failed
      ELSE Done([i \in 1 .. (Len(src) + 1) \div 2 |->
                   digit(2 * i - 1 - odd) * 16 + digit(2 * i - odd)])

(* A first byte below 0x10 stands for one digit. *)
LeadAlone(src) == src[1] < 16

BcdDecode(src, room) ==
  LET n == Len(src)
      digit(i) == LET byte == src[(i + 1) \div 2]
                  IN  IF i % 2 = 1 THEN byte \div 16 ELSE byte % 16
      digits == [i \in 1 .. 2 * n |-> Zero + digit(i)]
  IN  IF \/ 2 * n > room
         \/ n > 0 /\ src[1] >= 16 /\ 2 * n + 1 > room
         \/ \E i \in 1 .. n : src[i] \div 16 > 9 \/ src[i] % 16 > 9
        THEN Failed
      ELSE IF n = 0 THEN Done(<< >>)
      ELSE Done(IF LeadAlone(src) THEN Tail(digits) ELSE digits)

=============================================================================
