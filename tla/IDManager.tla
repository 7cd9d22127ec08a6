----------------------------- MODULE IDManager -----------------------------
(***************************************************************************)
(* Stupid::Base::IDManager (inc/base/utility/id_manager.h): the allocator  *)
(* of the `unique' value of every connection bound to the reactor.         *)
(*                                                                         *)
(* m_next_id is one above the largest id ever needed at once, and          *)
(* m_unused_id is a deque, in descending order, of the ids below it that   *)
(* came back.  Every operation runs under the manager's lock (or under its *)
(* owner's, when LockerType is NullLocker), so each one is a single step.  *)
(***************************************************************************)
EXTENDS Integers, Sequences

CONSTANTS
  MinId,      \* m_min_id
  MaxId       \* m_max_id: ids are handed out from MinId .. MaxId-1

ASSUME IdRangeAssumption == MinId \in Nat /\ MaxId \in Nat /\ MinId <= MaxId

VARIABLES
  next_id,    \* m_next_id
  unused_id,  \* m_unused_id: unused_id[1] is front(), the last one is back()
  held        \* the ids the callers own: handed out and not returned

vars == <<next_id, unused_id, held>>

Id == MinId .. (MaxId - 1)

(* Values a caller may pass to release(): every id, and where the type     *)
(* allows it one out of range on each side.                                *)
Candidate == {i \in (MinId - 1) .. MaxId : i >= 0}

InDeque(id) == \E i \in 1 .. Len(unused_id) : unused_id[i] = id

Unused == {unused_id[i] : i \in 1 .. Len(unused_id)}

Descending ==
  \A i, j \in 1 .. Len(unused_id) : i < j => unused_id[i] > unused_id[j]

(* The types, and the order of the deque: it is strictly descending, which *)
(* is what makes back() the least unused id and front() the greatest.      *)
TypeOK ==
  /\ next_id \in MinId .. MaxId
  /\ unused_id \in Seq(Id)
  /\ held \subseteq Id
  /\ Descending

Init ==
  /\ next_id = MinId
  /\ unused_id = << >>
  /\ held = {}

-----------------------------------------------------------------------------
(* acquire() returns true. *)
CanAcquire == unused_id # << >> \/ next_id < MaxId

(* acquire(): the back of the deque if it has one, else the counter while  *)
(* it is below the maximum.                                                *)
ReuseId(id) ==
  /\ unused_id # << >>
  /\ id = unused_id[Len(unused_id)]
  /\ unused_id' = [i \in 1 .. (Len(unused_id) - 1) |-> unused_id[i]]
  /\ UNCHANGED next_id

FreshId(id) ==
  /\ unused_id = << >>
  /\ CanAcquire
  /\ id = next_id
  /\ next_id' = next_id + 1
  /\ UNCHANGED unused_id

AcquireId(id) == ReuseId(id) \/ FreshId(id)

\* Mutant of Releasable: an id that came back is accepted again.
ReleasableTwice(id) == id >= MinId /\ id < next_id

(* release() accepts an id that was handed out and did not come back.      *)
Releasable(id) == id >= MinId /\ id < next_id /\ ~ InDeque(id)

\* Mutant of Pushed: the sort is left out.
Unsorted(k, id) == Append(unused_id, id)

(* push_back(id) followed by the sort in descending order: the id lands    *)
(* behind the k entries that are greater.                                  *)
GreaterAre(k, id) ==
  /\ \A i \in 1 .. k : unused_id[i] >= id
  /\ \A i \in (k + 1) .. Len(unused_id) : unused_id[i] < id
Pushed(k, id) ==
  [i \in 1 .. (Len(unused_id) + 1) |->
     IF i <= k THEN unused_id[i] ELSE IF i = k + 1 THEN id ELSE unused_id[i - 1]]

(* The loop at the end of release(): the k ids directly below `top' leave  *)
(* the deque from its front and m_next_id descends to the last of them.    *)
DropTop(top, deque) ==
  \E k \in 0 .. Len(deque) :
    /\ \A i \in 1 .. k : deque[i] = top - i
    /\ k < Len(deque) => deque[k + 1] # top - (k + 1)
    /\ next_id' = top - k
    /\ unused_id' = [i \in 1 .. (Len(deque) - k) |-> deque[i + k]]

ReleaseId(id) ==
  /\ Releasable(id)
  /\ IF id + 1 = next_id
       THEN DropTop(id, unused_id)
       ELSE \E k \in 0 .. Len(unused_id) :
              GreaterAre(k, id) /\ DropTop(next_id, Pushed(k, id))

-----------------------------------------------------------------------------
Acquire(id) ==
  /\ AcquireId(id)
  /\ held' = held \cup {id}

RefuseAcquire ==
  /\ ~ CanAcquire
  /\ UNCHANGED vars

(* A caller returns an id it owns, or one that nobody owns (returned       *)
(* twice, never handed out, out of range), which the manager refuses.      *)
Release(id) ==
  /\ ReleaseId(id)
  /\ held' = held \ {id}

RefuseRelease(id) ==
  /\ ~ Releasable(id)
  /\ UNCHANGED vars

Reset ==
  /\ next_id' = MinId
  /\ unused_id' = << >>
  /\ held' = {}

Next ==
  \/ \E id \in Id : Acquire(id)
  \/ \E id \in Candidate : Release(id) \/ RefuseRelease(id)
  \/ RefuseAcquire
  \/ Reset

Spec == Init /\ [][Next]_vars

-----------------------------------------------------------------------------
(* The counter and the deque account for every id exactly once: the ids    *)
(* below m_next_id that are not in the deque are those the callers own.    *)
(* Two callers sharing an id, or an id nobody can get any more, breaks it. *)
Accounted == held = (MinId .. (next_id - 1)) \ Unused

(* release() leaves no unused id at the top: m_next_id is one above the    *)
(* largest id in use, so the deque is empty as soon as nothing is in use.  *)
Trimmed == \A i \in 1 .. Len(unused_id) : unused_id[i] < next_id - 1

(* acquire() fails only when every id of the range is owned. *)
RefusesOnlyWhenFull == CanAcquire <=> held # Id

(* The manager implements the pool that always lends the least free id.    *)
Pool == INSTANCE IDPool

ImplementsPool == Pool!Spec
=============================================================================
