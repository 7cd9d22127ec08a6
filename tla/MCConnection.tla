---------------------------- MODULE MCConnection ----------------------------
(***************************************************************************)
(* Bounds of a connection for TLC.                                         *)
(***************************************************************************)
EXTENDS Connection

(* Up to three bytes out, in pieces of two or more and then one; up to     *)
(* three in; a byte that arrives before or after two are written.          *)
MCLoads == {<<0, 0>>, <<2, 0>>, <<3, 0>>, <<0, 1>>, <<0, 2>>, <<0, 3>>, <<2, 1>>}

(* While bytes only arrive, a second report may wait behind the one in     *)
(* hand, and find that its bytes were read with those of the first.        *)
MCEvents == [load \in MCLoads |-> IF load[1] = 0 /\ load[2] > 0 THEN 2 ELSE 1]

(* Two bytes out and one in. *)
LateLoads == {<<0, 0>>, <<2, 0>>, <<2, 1>>}
LateEvents == [load \in LateLoads |-> 1]

=============================================================================
