----------------------------- MODULE MCReactor -----------------------------
(***************************************************************************)
(* Instances of Reactor for TLC.                                           *)
(***************************************************************************)
EXTENDS Reactor

CONSTANTS a, r

(* Reports of epoll: readable, writable, both, or an error.                *)
MCDataKinds == {{"recv"}, {"send"}, {"recv", "send"}, {"recv", "error"}}

(* One kind that drains, blocks, fails or ends a connection.               *)
MCSendOnly == {{"send"}}
=============================================================================
