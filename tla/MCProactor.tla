----------------------------- MODULE MCProactor -----------------------------
(***************************************************************************)
(* Scenarios of the proactor for TLC.                                      *)
(***************************************************************************)
EXTENDS Proactor

Scenario(threads, write, recv, ends, fails) ==
  [threads |-> threads, write |-> write, recv |-> recv, ends |-> ends, fails |-> fails]

OneThread == {CHOOSE i \in Iocp : TRUE}

(* Three bytes and one IOCP thread; a receive against a send; a peer that  *)
(* ends the stream; one that resets it, with calls that fail.              *)
MCScenarios ==
  { Scenario(OneThread, 3, 0, {}, {}), Scenario(Iocp, 1, 1, {}, {}),
    Scenario(Iocp, 0, 1, {"fin"}, {}), Scenario(Iocp, 1, 0, {"reset"}, {"bind", "recv"}) }

=============================================================================
