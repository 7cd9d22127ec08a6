----------------------------- MODULE ByteQueue -----------------------------
(***************************************************************************)
(* What a Buffer of src/net/xactor/buffer.cpp promises: each buffer is a   *)
(* queue of bytes.  A byte is named by its buffer and its position in what *)
(* that buffer was ever given.                                             *)
(***************************************************************************)
EXTENDS Integers, Sequences

CONSTANTS Buf, MaxBytes

VARIABLES
  queue,       \* the bytes in each buffer, in order
  entered      \* bytes each buffer was given so far

vars == <<queue, entered>>

Init ==
  /\ queue = [b \in Buf |-> << >>]
  /\ entered = [b \in Buf |-> 0]

Bytes(b, k) == [i \in 1 .. k |-> <<b, entered[b] + i>>]

(* Bytes join a buffer at its end; a fill that runs out of memory leaves a *)
(* prefix of its bytes there.                                              *)
Fill(b, k) ==
  /\ queue' = [queue EXCEPT ![b] = @ \o Bytes(b, k)]
  /\ entered' = [entered EXCEPT ![b] = @ + k]

(* Bytes leave a buffer at its front.                                      *)
Drop(b, k) ==
  /\ k <= Len(queue[b])
  /\ queue' = [queue EXCEPT ![b] = SubSeq(@, k + 1, Len(@))]
  /\ UNCHANGED entered

(* The buffer ends and another takes its place.                            *)
Renew(b) ==
  /\ queue' = [queue EXCEPT ![b] = << >>]
  /\ UNCHANGED entered

Next ==
  \E b \in Buf :
    \/ \E k \in 1 .. MaxBytes : Fill(b, k) \/ Drop(b, k)
    \/ Renew(b)

Spec == Init /\ [][Next]_vars
=============================================================================
