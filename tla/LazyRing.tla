------------------------------ MODULE LazyRing ------------------------------
(***************************************************************************)
(* The records of a LazyLog (src/base/log/lazy_log.cpp): an array of       *)
(* Reserve records of which m_count from m_begin on are in use.            *)
(***************************************************************************)
EXTENDS Naturals, Sequences

CONSTANT Reserve  \* m_reserve

(* array: the array was allocated; slots: what the records in use hold. *)
NewRing(array) == [array |-> array, slots |-> << >>, begin |-> 0, count |-> 0]

\* Mutant of PushIndex: a full ring replaces its last record.
PushIndexLast(r) == IF r.count < Reserve THEN r.begin + r.count ELSE Reserve - 1

(* push_index of save_record. *)
PushIndex(r) == (r.begin + r.count) % Reserve

(* A full ring counts no further, and m_begin stays where it is. *)
Counted(r) == IF r.count < Reserve THEN r.count + 1 ELSE r.count

Push(r, x) ==
  [r EXCEPT !.slots = [i \in (DOMAIN @) \cup {PushIndex(r)} |->
                          IF i = PushIndex(r) THEN x ELSE @[i]],
            !.count = Counted(r)]

(* What flush() writes, in its order. *)
Flushed(r) == [i \in 1 .. r.count |-> r.slots[(r.begin + i - 1) % Reserve]]

(* flush() leaves the ring empty. *)
Emptied(r) == NewRing(r.array)

=============================================================================
