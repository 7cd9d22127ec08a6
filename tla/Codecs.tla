------------------------------- MODULE Codecs -------------------------------
(***************************************************************************)
(* The codecs in use.  A program writes values to an OBStream, opens an    *)
(* IBStream on what tell() says was written and reads values of the same   *)
(* types; or it encodes bytes as text and decodes them, or decodes a text  *)
(* that it was given.                                                      *)
(***************************************************************************)
EXTENDS ByteStream, TextCodecs

CONSTANTS
  Items,   \* the values, [type, data], the program may write first, second, ..
  Room,    \* m_length of the OBStream
  Plain,   \* for each text codec: what may be encoded
  Coded,   \* for each text codec: texts that may be given
  Rooms    \* sizes of the destination of an encoder or a decoder

TextCodec == {"hex", "base64", "bcd"}

(* The values of a type, as their bytes; the size of a string is a uint32_t. *)
IsValue(type, data) ==
  CASE type = "bool" -> data \in {<<0>>, <<1>>}
    [] type \in DOMAIN Width \ {"bool"} -> Len(data) = Width[type]
    [] type = "string" -> Len(data) \div 65536 < 65536
    [] OTHER -> Len(data) = RawWidth[type]

Item ==
  {item \in [type : DOMAIN Width \cup DOMAIN RawWidth \cup {"string"}, data : Seq(Byte)] :
     IsValue(item.type, item.data)}

ASSUME CodecsAssumption ==
  /\ Items \in Seq(SUBSET Item)
  /\ Room \in Nat /\ Rooms \subseteq Nat
  /\ Plain \in [TextCodec -> SUBSET Seq(Byte)]
  /\ Coded \in [TextCodec -> SUBSET Seq(Byte)]
  /\ Coded["hex"] \cup Coded["base64"] \subseteq Seq(Byte \ {0})

VARIABLES
  at,      \* control
  out,     \* the bytes before the offset of the OBStream
  items,   \* history: the values given to operator <<
  in,      \* the offset of the IBStream
  got,     \* the values read since the last seek(0)
  codec,   \* the text codec in use
  plain,   \* what was encoded
  coded,   \* what encoding stored, or the text that was given
  back     \* what decoding stored

stream == <<out, items, in, got>>
text == <<codec, plain, coded, back>>

vars == <<at, stream, text>>

Init ==
  /\ at \in {"write", "text"}
  /\ out = << >> /\ items = << >> /\ in = 0 /\ got = << >>
  /\ codec = "hex" /\ plain = << >> /\ coded = Failed /\ back = Failed

(* operator <<, of which an assertion fails when there is no room. *)
Put ==
  /\ at = "write" /\ Len(items) < Len(Items)
  /\ \E item \in Items[Len(items) + 1] :
       LET bytes == Encoded(item.type, item.data)
       IN  /\ items' = Append(items, item)
           /\ IF Len(out) + Len(bytes) <= Room
                THEN out' = out \o bytes /\ UNCHANGED at
                ELSE at' = "full" /\ UNCHANGED out
  /\ UNCHANGED <<in, got, text>>

(* IBStream(byte, obs.tell()) *)
Open ==
  /\ at = "write"
  /\ at' = "read"
  /\ UNCHANGED <<stream, text>>

(* operator >> *)
Get ==
  LET type == items[Len(got) + 1].type
      read == Decoded(type, out, in)
  IN  /\ at = "read" /\ Len(got) < Len(items)
      /\ IF read.ok
           THEN /\ got' = Append(got, [type |-> type, data |-> read.data])
                /\ in' = read.next
                /\ UNCHANGED at
           ELSE at' = "failed" /\ UNCHANGED <<in, got>>
      /\ UNCHANGED <<out, items, text>>

(* seek(0) *)
Rewind ==
  /\ at = "read"
  /\ in' = 0 /\ got' = << >>
  /\ UNCHANGED <<at, out, items, text>>

-----------------------------------------------------------------------------
EncodedText(c, src, room) ==
  CASE c = "hex" -> {HexEncode(src, room, lower) : lower \in BOOLEAN}
    [] c = "base64" -> {Base64Encode(src, room)}
    [] c = "bcd" -> {BcdEncode(src, room)}

(* bcd_decode looks at the first byte, also when there is none: without    *)
(* room it may then fail (line 95 of bcd.cpp).                             *)
DecodedText(c, src, room) ==
  CASE c = "hex" -> {HexDecode(src, room)}
    [] c = "base64" -> {Base64Decode(src, room)}
    [] c = "bcd" -> {BcdDecode(src, room)}
                      \cup (IF src = << >> /\ room = 0 THEN {Failed} ELSE {})

Encode ==
  /\ at = "text"
  /\ codec' \in TextCodec
  /\ \E room \in Rooms, src \in Plain[codec'] :
       plain' = src /\ coded' \in EncodedText(codec', src, room)
  /\ at' = IF coded'.ok THEN "encoded" ELSE "refused"
  /\ UNCHANGED <<stream, back>>

Decode ==
  /\ at = "encoded"
  /\ \E room \in Rooms : back' \in DecodedText(codec, coded.data, room)
  /\ at' = IF back'.ok THEN "decoded" ELSE "refused"
  /\ UNCHANGED <<stream, codec, plain, coded>>

DecodeGiven ==
  /\ at = "text"
  /\ codec' \in TextCodec
  /\ \E room \in Rooms, src \in Coded[codec'] :
       coded' = Done(src) /\ back' \in DecodedText(codec', src, room)
  /\ at' = IF back'.ok THEN "given" ELSE "refused"
  /\ UNCHANGED <<stream, plain>>

Next == Put \/ Open \/ Get \/ Rewind \/ Encode \/ Decode \/ DecodeGiven

Spec == Init /\ [][Next]_vars

-----------------------------------------------------------------------------
(* The most bytes a value takes: one more than its type, a string five     *)
(* more than its characters.                                               *)
Reserved(item) ==
  CASE item.type \in DOMAIN Width -> Width[item.type] + 1
    [] item.type = "string" -> Len(item.data) + 5
    [] OTHER -> Len(item.data)

(* One element for each byte reserved for the items. *)
ReservedFor(s) == UNION {{i} \X (1 .. Reserved(s[i])) : i \in DOMAIN s}

(* What an IBStream reads with the types that were written are the values  *)
(* that were written, whatever their signs and sizes, and all of them use  *)
(* up the stream.  No assertion stops the reader, nor the writer while     *)
(* there is room for one byte more than the type of each value             *)
(* (write_integer against read_integer).                                   *)
StreamRoundTrip ==
  /\ got = SubSeq(items, 1, Len(got))
  /\ at = "read" /\ Len(got) = Len(items) => in = Len(out)
  /\ at # "failed"
  /\ at = "full" => Cardinality(ReservedFor(items)) > Room

(* Three bytes and four symbols, as a number. *)
Number3(b) == (b[1] * 256 + b[2]) * 256 + b[3]
Number4(s) == ((s[1] * 64 + s[2]) * 64 + s[3]) * 64 + s[4]

Same(c, s, t) ==
  CASE c = "hex" -> [i \in DOMAIN s |-> HexIndex(s[i])] = [i \in DOMAIN t |-> HexIndex(t[i])]
    [] c = "base64" ->
         /\ Len(s) = Len(t)
         /\ \A i \in DOMAIN s : s[i] # t[i] => i < Len(s) /\ s[i + 1] = Equals
    [] c = "bcd" -> s = t

Group(s, g) == [k \in 1 .. 3 |-> IF 3 * g - 3 + k <= Len(s) THEN s[3 * g - 3 + k] ELSE 0]

(* Decoding returns what was encoded, whatever its length and the room     *)
(* that suffices; only the leading zero of an even number of decimal       *)
(* digits is lost.  A base64 group is the number its bytes are.  A given   *)
(* text that decodes is the encoding of the result, up to the case of hex  *)
(* digits and the unused bits of a last base64 symbol.                     *)
TextRoundTrip ==
  /\ at = "decoded" =>
       back.data = IF codec = "bcd" /\ plain # << >> /\ plain[1] = Zero /\ Len(plain) % 2 = 0
                     THEN Tail(plain) ELSE plain
  /\ at = "encoded" /\ codec = "base64" =>
       \A g \in 1 .. Len(coded.data) \div 4 :
         Number4([k \in 1 .. 4 |-> Base64Index(coded.data[4 * g - 4 + k])])
           = Number3(Group(plain, g))
  /\ at = "given" =>
       \E s \in EncodedText(codec, back.data, 3 * Len(coded.data) + 3) :
         s.ok /\ Same(codec, s.data, coded.data)

=============================================================================
