----------------------------- MODULE MultiTimer -----------------------------
(***************************************************************************)
(* MultiTimer (src/base/time/multi_timer.cpp): timers wait in the pending  *)
(* list, run in a list ordered by the time they are due, and are fired by  *)
(* a thread that holds the lock of the running list while it does so.      *)
(*                                                                         *)
(* A step is one critical section, or one piece of what the timer thread   *)
(* does under its lock.  Callers may do anything to any timer at any time; *)
(* init() and exit() are called by one owner, exit() when no other call is *)
(* under way.  Callbacks do not call the MultiTimer: the lock is theirs.   *)
(***************************************************************************)
EXTENDS Integers, Sequences, FiniteSets, SequencesExt

CONSTANTS
  Caller,      \* threads that create, start, stop and destroy timers
  Period,      \* periods they start timers with
  ThreadFails, \* whether the thread may fail to start
  MaxTimers,   \* bound: timers of one life of the MultiTimer
  MaxCalls,    \* bound: calls of the callers
  MaxInits,    \* bound: calls of init()
  MaxTime      \* bound: milliseconds of one life

ASSUME MultiTimerAssumption ==
  /\ Period \subseteq Nat /\ ThreadFails \in BOOLEAN
  /\ MaxTimers \in Nat /\ MaxCalls \in Nat /\ MaxInits \in Nat /\ MaxTime \in Nat

Timer == 1 .. MaxTimers
NoTimer == 0   \* BAD_TIMER_ID

VARIABLES
  alive,       \* m_running
  next,        \* m_timer_id
  now,         \* m_current_time
  clock,       \* milliseconds since the timer thread began
  pending,     \* m_pending_timer
  running,     \* m_running_timer
  fired,       \* timer_list of thread_run
  info,        \* m_once, m_period and m_start_time of each timer
  thread,      \* control of the timer thread
  owner,       \* control of the thread that calls init() and exit()
  inits,       \* calls of init() so far
  pc,          \* control of each caller, with what it has in hand
  calls,       \* calls of the callers so far
  gone,        \* history: timers whose destroy_timer returned
  crossed,     \* history: timers that another call moved meanwhile
  looked,      \* history: whether this life's thread has set m_current_time
  early        \* history: timers whose time was set before that

lists == <<pending, running, fired>>
life == <<alive, owner, inits>>
time == <<now, clock>>
callers == <<pc, calls>>
past == <<gone, crossed, looked, early>>

vars == <<life, next, time, lists, info, thread, callers, past>>

Idle == [at |-> "idle", id |-> NoTimer, once |-> FALSE, period |-> 0]

\* Mutant of FirstId: the ids begin with the one that means none.
FirstIdBad == NoTimer

FirstId == NoTimer + 1

Init ==
  /\ alive = FALSE /\ owner = "off" /\ inits = 0
  /\ next = FirstId /\ now = 0 /\ clock = 0
  /\ pending = << >> /\ running = << >> /\ fired = << >>
  /\ info = [t \in Timer |-> [once |-> FALSE, period |-> 0, start |-> 0]]
  /\ thread = "off"
  /\ pc = [c \in Caller |-> Idle] /\ calls = 0
  /\ gone = {} /\ crossed = {} /\ looked = FALSE /\ early = {}

(* m_running_locker is held across steps by the timer thread alone. *)
RunningLocked == thread \in {"fire", "requeue"}

Has(s, t) == \E i \in DOMAIN s : s[i] = t

(* erase(iter), for the iter that std::find_if has found *)
Without(s, t) == RemoveFirst(s, t)

(* std::find_if with CompTimerWithStartTime: the timer goes before the     *)
(* first one that is due later.                                            *)
Behind(s, start) ==
  LET later == {i \in DOMAIN s : info[s[i]].start > start}
  IN  IF later = {} THEN Len(s)
      ELSE (CHOOSE i \in later : \A j \in later : i <= j) - 1

(* add_running_timer_unlock, for a timer due at start *)
Placed(s, t, start) == InsertAt(s, Behind(s, start) + 1, t)

-----------------------------------------------------------------------------
(* The calls.  create_timer_*: acquire_timer_id ...                        *)
CreateId(c) ==
  /\ pc[c].at = "idle" /\ calls < MaxCalls /\ next <= MaxTimers
  /\ owner \in {"off", "on"}
  /\ calls' = calls + 1
  /\ pc' = [pc EXCEPT ![c] = [Idle EXCEPT !.at = "create", !.id = next]]
  /\ next' = next + 1
  /\ UNCHANGED <<life, time, lists, info, thread, past>>

(* ... then add_pending_timer. *)
CreateAdd(c) ==
  /\ pc[c].at = "create"
  /\ pending' = Append(pending, pc[c].id)
  /\ pc' = [pc EXCEPT ![c] = Idle]
  /\ UNCHANGED <<life, next, time, running, fired, info, thread, calls, past>>

(* An id is known once create_timer_* returned it. *)
Known(t) == t < next /\ \A c \in Caller : pc[c].at = "create" => pc[c].id # t

(* The timer is in the hands of another call, or being destroyed. *)
Disputed(c, t) ==
  \E d \in Caller \ {c} :
    pc[d].id = t /\ pc[d].at \in {"start", "insert", "stop", "destroy"}

Cross(c, t) == crossed' = IF Disputed(c, t) THEN crossed \cup {t} ELSE crossed

\* Mutant of Taken: the timer is found but stays in the list.
TakenNot(s, t) == s

Taken(s, t) == Without(s, t)

(* start_timer: out of the pending list ... *)
StartTake(c, t, once, period) ==
  /\ pc[c].at = "idle" /\ calls < MaxCalls /\ alive
  /\ owner = "on" /\ Known(t)
  /\ calls' = calls + 1
  /\ IF Has(pending, t)
       THEN /\ pending' = Taken(pending, t)
            /\ pc' = [pc EXCEPT ![c] =
                        [at |-> "start", id |-> t, once |-> once, period |-> period]]
            /\ Cross(c, t)
       ELSE UNCHANGED <<pending, pc, crossed>>
  /\ UNCHANGED <<life, next, time, running, fired, info, thread, gone, looked, early>>

(* The time of t is set by m_current_time as it is. *)
Stamped(t) == early' = IF looked THEN early \ {t} ELSE early \cup {t}

(* ... due by the time the timer thread last looked at ... *)
StartTime(c) ==
  LET t == pc[c].id
  IN  /\ pc[c].at = "start"
      /\ info' = [info EXCEPT ![t] = [once |-> pc[c].once, period |-> pc[c].period,
                                      start |-> now + pc[c].period]]
      /\ Stamped(t)
      /\ pc' = [pc EXCEPT ![c].at = "insert"]
      /\ UNCHANGED <<life, next, time, lists, thread, calls, gone, crossed, looked>>

(* ... into the running list. *)
StartInsert(c) ==
  LET t == pc[c].id
  IN  /\ pc[c].at = "insert" /\ ~ RunningLocked
      /\ running' = Placed(running, t, info[t].start)
      /\ pc' = [pc EXCEPT ![c] = Idle]
      /\ UNCHANGED <<life, next, time, pending, fired, info, thread, calls, past>>

(* stop_timer: out of the running list ... *)
StopTake(c, t) ==
  /\ pc[c].at = "idle" /\ calls < MaxCalls /\ alive /\ ~ RunningLocked
  /\ owner = "on" /\ Known(t)
  /\ calls' = calls + 1
  /\ IF Has(running, t)
       THEN /\ running' = Taken(running, t)
            /\ pc' = [pc EXCEPT ![c] = [Idle EXCEPT !.at = "stop", !.id = t]]
            /\ Cross(c, t)
       ELSE UNCHANGED <<running, pc, crossed>>
  /\ UNCHANGED <<life, next, time, pending, fired, info, thread, gone, looked, early>>

(* ... into the pending list. *)
StopAdd(c) ==
  /\ pc[c].at = "stop"
  /\ pending' = Append(pending, pc[c].id)
  /\ pc' = [pc EXCEPT ![c] = Idle]
  /\ UNCHANGED <<life, next, time, running, fired, info, thread, calls, past>>

\* Mutant of RunningFirst: the pending list is searched first.
PendingFirst == FALSE

(* "the order of function invoking is important" *)
RunningFirst == TRUE

(* del_running_timer or del_pending_timer; the timer found is deleted. *)
Delete(t, inRunning) ==
  /\ inRunning => ~ RunningLocked
  /\ running' = IF inRunning THEN Without(running, t) ELSE running
  /\ pending' = IF inRunning THEN pending ELSE Without(pending, t)

(* destroy_timer: one list, then the other. *)
DestroyFirst(c, t) ==
  /\ pc[c].at = "idle" /\ calls < MaxCalls /\ alive
  /\ owner = "on" /\ Known(t)
  /\ calls' = calls + 1
  /\ Delete(t, RunningFirst)
  /\ pc' = [pc EXCEPT ![c] = [Idle EXCEPT !.at = "destroy", !.id = t]]
  /\ Cross(c, t)
  /\ UNCHANGED <<life, next, time, fired, info, thread, gone, looked, early>>

DestroySecond(c) ==
  LET t == pc[c].id
  IN  /\ pc[c].at = "destroy"
      /\ Delete(t, ~ RunningFirst)
      /\ pc' = [pc EXCEPT ![c] = Idle]
      /\ gone' = gone \cup {t}
      /\ UNCHANGED <<life, next, time, fired, info, thread, calls, crossed, looked,
                     early>>

-----------------------------------------------------------------------------
(* thread_run.  stime is read ... *)
Begin ==
  /\ thread = "begin"
  /\ clock' = 0
  /\ thread' = "loop"
  /\ UNCHANGED <<life, next, now, lists, info, callers, past>>

(* ... and while running() the lock is taken. *)
Lock ==
  /\ thread = "loop"
  /\ thread' = IF alive THEN "fire" ELSE "end"
  /\ UNCHANGED <<life, next, time, lists, info, callers, past>>

\* Mutant of Due: a timer is due only after its time.
DueAfter(t) == info[t].start < now

Due(t) == info[t].start <= now

(* The timer at the front is fired if it is due, and due again a period    *)
(* from now.                                                               *)
Fire ==
  LET t == Head(running)
  IN  /\ thread = "fire" /\ running # << >> /\ Due(t)
      /\ running' = Tail(running)
      /\ info' = [info EXCEPT ![t].start = now + info[t].period]
      /\ Stamped(t)
      /\ fired' = Append(fired, t)
      /\ UNCHANGED <<life, next, time, pending, thread, callers, gone, crossed, looked>>

FireEnd ==
  /\ thread = "fire"
  /\ running # << >> => ~ Due(Head(running))
  /\ thread' = "requeue"
  /\ UNCHANGED <<life, next, time, lists, info, callers, past>>

(* What was fired goes back: once to the pending list, else to the running *)
(* list.                                                                   *)
Requeue ==
  LET t == Head(fired)
  IN  /\ thread = "requeue" /\ fired # << >>
      /\ fired' = Tail(fired)
      /\ pending' = IF info[t].once THEN Append(pending, t) ELSE pending
      /\ running' = IF info[t].once THEN running ELSE Placed(running, t, info[t].start)
      /\ UNCHANGED <<life, next, time, info, thread, callers, past>>

(* The lock is released, the thread sleeps ... *)
Unlock ==
  /\ thread = "requeue" /\ fired = << >>
  /\ thread' = "sleep"
  /\ UNCHANGED <<life, next, time, lists, info, callers, past>>

\* Mutant of Look: the times of the looks are added up.
LookAdds == now + clock

Look == clock

(* ... and looks at the clock. *)
Wake ==
  /\ thread = "sleep"
  /\ now' = Look
  /\ looked' = TRUE
  /\ thread' = "loop"
  /\ UNCHANGED <<life, next, clock, lists, info, callers, gone, crossed, early>>

Tick ==
  /\ thread \notin {"off", "end"} /\ clock < MaxTime
  /\ clock' = clock + 1
  /\ UNCHANGED <<life, next, now, lists, info, thread, callers, past>>

-----------------------------------------------------------------------------
(* init(): m_running stays set if the thread does not start. *)
Start ==
  /\ owner = "off" /\ inits < MaxInits
  /\ inits' = inits + 1
  /\ alive' = TRUE
  /\ \E started \in IF ThreadFails THEN BOOLEAN ELSE {TRUE} :
       thread' = IF started THEN "begin" ELSE "off"
  /\ owner' = "on"
  /\ UNCHANGED <<next, time, lists, info, callers, past>>

(* exit(): m_running is cleared, the thread joined ... *)
Exit ==
  /\ owner = "on" /\ \A c \in Caller : pc[c] = Idle
  /\ alive' = FALSE
  /\ owner' = "join"
  /\ UNCHANGED <<inits, next, time, lists, info, thread, callers, past>>

(* ... the ids begin anew, and the timers of both lists are deleted.       *)
(* m_current_time keeps its value.                                         *)
Clear ==
  /\ owner = "join" /\ thread \in {"off", "end"}
  /\ thread' = "off"
  /\ next' = FirstId
  /\ pending' = << >> /\ running' = << >>
  /\ owner' = "off"
  /\ gone' = {} /\ crossed' = {} /\ looked' = FALSE /\ early' = {}
  /\ UNCHANGED <<alive, inits, time, fired, info, callers>>

-----------------------------------------------------------------------------
Calling(c) ==
  CreateAdd(c) \/ StartTime(c) \/ StartInsert(c) \/ StopAdd(c) \/ DestroySecond(c)

TimerThread == Begin \/ Lock \/ Fire \/ FireEnd \/ Requeue \/ Unlock \/ Wake

Next ==
  \/ \E c \in Caller : CreateId(c) \/ Calling(c)
  \/ \E c \in Caller, t \in Timer, once \in BOOLEAN, p \in Period : StartTake(c, t, once, p)
  \/ \E c \in Caller, t \in Timer : StopTake(c, t) \/ DestroyFirst(c, t)
  \/ TimerThread
  \/ Tick
  \/ Start \/ Exit \/ Clear

Spec == Init /\ [][Next]_vars

(* Time passes, the timer thread runs, a call that began goes on, and the  *)
(* owner goes on with exit().  A call waits for the lock of the timer      *)
(* thread again and again and gets it in the end.                          *)
Fairness ==
  /\ WF_vars(TimerThread) /\ WF_vars(Tick) /\ WF_vars(Clear)
  /\ \A c \in Caller : SF_vars(Calling(c))

FairSpec == Spec /\ Fairness

-----------------------------------------------------------------------------
(* Type correctness. *)
TypeOK ==
  /\ alive \in BOOLEAN /\ owner \in {"off", "on", "join"} /\ inits \in 0 .. MaxInits
  /\ next \in Timer \cup {MaxTimers + 1} /\ now \in Nat /\ clock \in Nat
  /\ pending \in Seq(Timer) /\ running \in Seq(Timer) /\ fired \in Seq(Timer)
  /\ info \in [Timer -> [once : BOOLEAN, period : Nat, start : Nat]]
  /\ thread \in {"off", "begin", "loop", "fire", "requeue", "sleep", "end"}
  /\ pc \in [Caller -> [at : {"idle", "create", "start", "insert", "stop", "destroy"},
                        id : Timer \cup {NoTimer}, once : BOOLEAN, period : Nat]]
  /\ calls \in 0 .. MaxCalls
  /\ gone \subseteq Timer /\ crossed \subseteq Timer
  /\ looked \in BOOLEAN /\ early \subseteq Timer

InHand(c, t) == pc[c].id = t /\ pc[c].at \in {"create", "start", "insert", "stop"}

Indices(s, t) == {i \in DOMAIN s : s[i] = t}

(* Where a timer is: the places of the lists, and the hands of the calls. *)
Places(t) ==
  ({"pending"} \X Indices(pending, t)) \cup ({"running"} \X Indices(running, t))
    \cup ({"fired"} \X Indices(fired, t)) \cup ({"call"} \X {c \in Caller : InHand(c, t)})

Destroying(c, t) == pc[c].at = "destroy" /\ pc[c].id = t

(* A timer is in one place: a list, or the hands of one call.  Once its id *)
(* is given out it is nowhere only if a destroy_timer deleted it           *)
(* (start_timer, stop_timer, destroy_timer and thread_run together).       *)
OnePlace ==
  \A t \in Timer :
    /\ \A x, y \in Places(t) : x = y
    /\ t < next /\ Places(t) = {} => t \in gone \/ \E c \in Caller : Destroying(c, t)

(* The running list is ordered by the time the timers are due, which lets  *)
(* thread_run stop at the first one that is not (lines 210-216).           *)
Ordered ==
  \A i, j \in DOMAIN running : i < j => info[running[i]].start <= info[running[j]].start

(* A timer that was destroyed is in no list and will not fire, unless a    *)
(* start_timer or stop_timer had it in hand meanwhile.  The timer thread   *)
(* moving it to the pending list is no excuse (line 190).                  *)
DestroyedForGood ==
  \A t \in gone \ crossed : Places(t) = {}

(* A running timer is due within its period from now, unless its time was *)
(* set before the thread of this life set m_current_time, which still      *)
(* holds the time of the life before (lines 112, 153 and 243).             *)
DueWithinPeriod ==
  \A i \in DOMAIN running :
    looked /\ running[i] \notin early =>
      info[running[i]].start <= clock + info[running[i]].period

(* A timer that runs fires, or someone stops it, destroys it or calls      *)
(* exit(), if the thread started and the time comes.                       *)
RunningFires ==
  \A t \in Timer :
    (Has(running, t) /\ thread # "off" /\ info[t].start <= MaxTime)
      ~> (~ Has(running, t) \/ ~ alive)

=============================================================================
