------------------------------ MODULE IDPool ------------------------------
(***************************************************************************)
(* What Stupid::Base::IDManager promises its callers, without the counter  *)
(* and the deque it is built from: a pool of the ids MinId .. MaxId-1 that *)
(* hands out the least id nobody holds, takes an id back when its holder   *)
(* returns it, and forgets every loan when it is reset.                    *)
(***************************************************************************)
EXTENDS Integers

CONSTANTS MinId, MaxId

VARIABLE held               \* the ids handed out and not yet taken back

Id == MinId .. (MaxId - 1)

Init == held = {}

(* acquire() succeeds: the caller gets the least id that is free. *)
Acquire(id) ==
  /\ id \in Id \ held
  /\ \A j \in Id \ held : id <= j
  /\ held' = held \cup {id}

(* release() succeeds: an id that is held is free again. *)
Release(id) ==
  /\ id \in held
  /\ held' = held \ {id}

(* reset(): every id is free again. *)
Reset == held' = {}

Next ==
  \/ \E id \in Id : Acquire(id) \/ Release(id)
  \/ Reset

Spec == Init /\ [][Next]_held
=============================================================================
