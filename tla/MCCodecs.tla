------------------------------ MODULE MCCodecs ------------------------------
(***************************************************************************)
(* Small inputs for module Codecs: integers around every power of two, and *)
(* texts at the lengths where the codecs change their step.                *)
(***************************************************************************)
EXTENDS Codecs

Powers(w) ==
  {[i \in 1 .. w |-> IF i = w - k \div 8 THEN 2^(k % 8) ELSE 0] : k \in 0 .. 8 * w - 1}
Below(w) ==
  {[i \in 1 .. w |-> IF i < w - k \div 8 THEN 0
                     ELSE IF i = w - k \div 8 THEN 2^(k % 8) - 1 ELSE 255] :
     k \in 0 .. 8 * w - 1}
Edges(type) ==
  IF type = "bool" THEN {<<0>>, <<1>>}
  ELSE Powers(Width[type]) \cup Below(Width[type]) \cup {Filled(Width[type], 255)}

MCItems ==
  LET integers == UNION {{[type |-> t, data |-> d] : d \in Edges(t)} : t \in DOMAIN Width}
      strings == {[type |-> "string", data |-> Filled(n, 200)] : n \in {0, 2, 127, 128}}
      raw == {[type |-> t, data |-> Filled(RawWidth[t], 255)] : t \in DOMAIN RawWidth}
      few == {[type |-> "int32", data |-> <<255, 255, 255, 255>>],
              [type |-> "uint8", data |-> <<200>>]}
  IN  <<integers \cup strings \cup raw, few \cup strings>>

Strings(chars, lengths) == UNION {[1 .. n -> chars] : n \in lengths}

MCPlain ==
  [hex |-> Strings({0, 9, 10, 255}, 0 .. 2),
   base64 |-> Strings({0, 1, 191, 255}, 0 .. 4),
   bcd |-> Strings({48, 49, 57, 58}, 0 .. 4)]

MCCoded ==
  [hex |-> Strings({48, 70, 97, 103}, 0 .. 4),
   base64 |-> Strings({65, 66, 47, 61, 45}, 0 .. 4) \cup Strings({66, 61}, {8}),
   bcd |-> Strings({0, 9, 16, 153, 154, 160}, 0 .. 3)]

=============================================================================
