------------------------------ MODULE Reactor ------------------------------
(***************************************************************************)
(* The life of a TcpConnection in the reactor (src/net/xactor/reactor.cpp, *)
(* the epoll build): how it is created by do_accept or do_connect, bound   *)
(* to epoll, carried as data events and business events through the        *)
(* connection thread, the data threads and the business threads, closed    *)
(* once, moved from the normal set to the closed set, and freed.           *)
(*                                                                         *)
(* A step is one critical section of the code (m_binded_connection_set_    *)
(* locker, m_connection_set_locker, the locks of the two event lists, or   *)
(* the lock of a connection around its reference count) with the private   *)
(* work around it.  What the socket and the callbacks decide (received     *)
(* data, failed, drained, good) is chosen freely; the bytes are the        *)
(* business of module Connection.                                          *)
(*                                                                         *)
(* A freed connection keeps its memory in the model and is never handed    *)
(* out again; reading its reference count returns anything.                *)
(***************************************************************************)
EXTENDS Integers, Sequences, FiniteSets

CONSTANTS
  Conn,          \* connection objects, each allocated once
  Requester,     \* those that create_connection() makes; do_accept makes the rest
  Closeable,     \* those that a thread of the application may close() on its own
  DataCount,     \* data threads (event_thread_count, or 10)
  BizCount,      \* business threads (handle_thread_count)
  DataKinds,     \* the sets of flags epoll may report together
  MaxPolls,      \* bound: reports of one connection by epoll_wait
  Exits,         \* bound: whether exit() is called at all
  None

ASSUME ReactorAssumption ==
  /\ Requester \subseteq Conn
  /\ Closeable \subseteq Conn
  /\ IsFiniteSet(Conn)
  /\ DataCount \in Nat \ {0}
  /\ BizCount \in Nat \ {0}
  /\ MaxPolls \in Nat
  /\ Exits \in BOOLEAN
  /\ None \notin Conn
  /\ DataKinds \subseteq SUBSET {"recv", "send", "error"}

Data == {<<"data", i>> : i \in 0 .. (DataCount - 1)}
Biz == {<<"biz", i>> : i \in 0 .. (BizCount - 1)}
Worker == Data \cup Biz

Accepted == Conn \ Requester

BizKinds == {"connect", "accept", "recv", "send", "close"}

VARIABLES
  running,       \* m_running
  life,          \* "unborn", "live" (new'd) or "freed" (deleted)
  normal,        \* m_normal_connection_set
  closed,        \* m_closed_connection_set
  binded,        \* m_binded_connection_set
  binder,        \* who holds the binded-set lock across epoll ADD and insert
  armed,         \* connections registered with epoll
  refs,          \* m_references
  uniq,          \* m_unique
  next_id,       \* m_unique_creator.m_next_id
  unused_id,     \* m_unique_creator.m_unused_id
  queue,         \* m_data_events_list_vector and m_business_event_list_vector
  cpc,           \* control of the connection thread
  polled,        \* connections epoll_wait reported and not looked at yet
  batch,         \* data_events_list_vector of the connection thread
  listening,     \* epoll_wait reported the listener too
  newcomer,      \* the connection do_accept is setting up
  apc,           \* control of the thread calling create_connection()
  closer,        \* control of a thread calling close() outside of the callbacks
  pc,            \* control of the data and business threads
  list,          \* their local event list: Head is the event in hand
  fault,         \* good = false, or the event has exception_event
  polls,         \* reports of each connection so far (bounded by MaxPolls)
  opened,        \* history: connections whose connect/accept callback began
  closes         \* history: number of close callbacks begun

sets == <<normal, closed, binded, armed, binder>>
ids == <<uniq, next_id, unused_id>>
connVars == <<cpc, polled, batch, listening, newcomer, polls>>
apps == <<apc, closer>>
workVars == <<pc, list, fault>>
history == <<opened, closes>>

vars == <<running, life, sets, refs, ids, queue, connVars, apps, workVars, history>>

(* m_unique_creator, whose held ids are the uniques of the bound set.  Its *)
(* range is that of size_t: it never runs out.                             *)
Unique == INSTANCE IDManager
            WITH MinId <- 0, MaxId <- Cardinality(Conn),
                 held <- {uniq[c] : c \in binded}

DataOf(c) == <<"data", uniq[c] % DataCount>>
BizOf(c) == <<"biz", uniq[c] % BizCount>>
Event(c, k) == [conn |-> c, kind |-> k]
InHand(w) == Head(list[w]).conn
KindInHand(w) == Head(list[w]).kind

Init ==
  /\ running = TRUE
  /\ life = [c \in Conn |-> "unborn"]
  /\ normal = {} /\ closed = {} /\ binded = {} /\ armed = {}
  /\ binder = None
  /\ refs = [c \in Conn |-> 0]
  /\ uniq = [c \in Conn |-> 0]
  /\ next_id = 0 /\ unused_id = << >>
  /\ queue = [w \in Worker |-> << >>]
  /\ cpc = "wait" /\ polled = {} /\ listening = FALSE /\ newcomer = None
  /\ batch = [d \in Data |-> << >>]
  /\ apc = [r \in Requester |-> "idle"]
  /\ closer = [c \in Closeable |-> "idle"]
  /\ pc = [w \in Worker |-> "idle"]
  /\ list = [w \in Worker |-> << >>]
  /\ fault = [w \in Worker |-> FALSE]
  /\ polls = [c \in Conn |-> 0]
  /\ opened = {}
  /\ closes = [c \in Conn |-> 0]

-----------------------------------------------------------------------------
(* Operations of the code that several handlers share.                     *)

\* Mutant of Waiting: any event of the connection counts as the same.
WaitingAny(c, k) == \E i \in 1 .. Len(queue[BizOf(c)]) : queue[BizOf(c)][i].conn = c

(* append_business_event: the connection's list, unless the same event of  *)
(* the same connection is waiting there already.                           *)
Waiting(c, k) ==
  \E i \in 1 .. Len(queue[BizOf(c)]) : queue[BizOf(c)][i] = Event(c, k)

\* Mutant of AppendBusiness: push_front in place of push_back.
AppendFirst(c, k) ==
  /\ queue' = [queue EXCEPT ![BizOf(c)] = <<Event(c, k)>> \o @]
  /\ refs' = [refs EXCEPT ![c] = @ + 1]

\* Mutant of AppendBusiness: the list is not chosen by the unique.
AppendAnywhere(c, k) ==
  /\ \E b \in Biz : queue' = [queue EXCEPT ![b] = Append(@, Event(c, k))]
  /\ refs' = [refs EXCEPT ![c] = @ + 1]

\* Mutant of AppendBusiness: the reference of the event is not counted.
AppendUncounted(c, k) ==
  /\ queue' = [queue EXCEPT ![BizOf(c)] = Append(@, Event(c, k))]
  /\ UNCHANGED refs

(* append_business_event, which counts the reference the event holds.      *)
AppendBusiness(c, k) ==
  IF Waiting(c, k)
    THEN UNCHANGED <<queue, refs>>
    ELSE /\ queue' = [queue EXCEPT ![BizOf(c)] = Append(@, Event(c, k))]
         /\ refs' = [refs EXCEPT ![c] = @ + 1]

(* insert_connection, after acquire_connection. *)
Insert(c) ==
  /\ life' = [life EXCEPT ![c] = "live"]
  /\ normal' = normal \cup {c}

\* Mutant of RemoveConnection: the connection stays in the normal set.
LeaveNormal(c) ==
  /\ closed' = closed \cup {c}
  /\ UNCHANGED normal

(* remove_connection *)
RemoveConnection(c) ==
  /\ normal' = normal \ {c}
  /\ closed' = closed \cup {c}

(* append_connection_to_reactor after epoll_ctl(ADD). *)
Bind(c) ==
  /\ \E id \in Unique!Id :
       /\ Unique!AcquireId(id)
       /\ uniq' = [uniq EXCEPT ![c] = id]
  /\ refs' = [refs EXCEPT ![c] = @ + 1]
  /\ binded' = binded \cup {c}

\* Mutant of Unbind: true is returned to every caller.
UnbindAgain(c) ==
  /\ armed' = armed \ {c}
  /\ IF c \in binded THEN Unique!ReleaseId(uniq[c]) ELSE UNCHANGED <<next_id, unused_id>>
  /\ binded' = binded \ {c}
  /\ refs' = [refs EXCEPT ![c] = IF c \in binded THEN @ - 1 ELSE @]
  /\ UNCHANGED uniq

\* Mutant of Unbind: the reference of the set is kept.
UnbindKeepsRef(c) ==
  /\ c \in binded
  /\ armed' = armed \ {c}
  /\ Unique!ReleaseId(uniq[c])
  /\ binded' = binded \ {c}
  /\ UNCHANGED <<refs, uniq>>

(* delete_connection_from_reactor returns true. *)
Unbind(c) ==
  /\ c \in binded
  /\ armed' = armed \ {c}
  /\ Unique!ReleaseId(uniq[c])
  /\ binded' = binded \ {c}
  /\ refs' = [refs EXCEPT ![c] = @ - 1]
  /\ UNCHANGED uniq

-----------------------------------------------------------------------------
(* The connection thread: reactor_connection_process and do_accept.        *)

(* epoll_wait returns some of the registered connections, the listener, or *)
(* both.                                                                   *)
Poll ==
  /\ cpc = "wait" /\ running
  /\ \E ready \in SUBSET {c \in armed : polls[c] < MaxPolls}, l \in BOOLEAN :
       /\ ready # {} \/ l
       /\ l => \E c \in Accepted : life[c] = "unborn"
       /\ polled' = ready
       /\ listening' = l
       /\ polls' = [c \in Conn |-> IF c \in ready THEN polls[c] + 1 ELSE polls[c]]
  /\ cpc' = "dispatch"
  /\ UNCHANGED <<running, life, sets, refs, ids, queue, batch, newcomer, apps, workVars, history>>

(* A reported connection that is still in the normal set becomes a data    *)
(* event; one that is not is skipped.                                      *)
Dispatch(c) ==
  /\ cpc = "dispatch" /\ c \in polled
  /\ polled' = polled \ {c}
  /\ \/ /\ c \in normal
        /\ \E k \in DataKinds :
             batch' = [batch EXCEPT ![DataOf(c)] = Append(@, Event(c, k))]
        /\ refs' = [refs EXCEPT ![c] = @ + 1]
     \/ /\ c \notin normal
        /\ UNCHANGED <<batch, refs>>
  /\ UNCHANGED <<running, life, sets, ids, queue, cpc, listening, newcomer, polls, apps,
                 workVars, history>>

(* append_data_events *)
Publish ==
  /\ cpc = "dispatch" /\ polled = {}
  /\ queue' = [w \in Worker |-> IF w \in Data THEN queue[w] \o batch[w] ELSE queue[w]]
  /\ batch' = [d \in Data |-> << >>]
  /\ cpc' = IF listening THEN "accept" ELSE "wait"
  /\ UNCHANGED <<running, life, sets, refs, ids, polled, listening, newcomer, polls, apps,
                 workVars, history>>

(* do_accept: accept until there is nothing left to accept. *)
AcceptInsert(c) ==
  /\ cpc = "accept" /\ life[c] = "unborn" /\ c \in Accepted
  /\ Insert(c)
  /\ newcomer' = c
  /\ cpc' = "bind"
  /\ UNCHANGED <<running, closed, binded, armed, binder, refs, ids, queue, polled, batch,
                 listening, polls, apps, workVars, history>>

AcceptBind ==
  /\ cpc = "bind" /\ binder = None
  /\ armed' = armed \cup {newcomer}
  /\ Bind(newcomer)
  /\ cpc' = "notify"
  /\ UNCHANGED <<running, life, normal, closed, binder, queue, polled, batch, listening,
                 newcomer, polls, apps, workVars, history>>

(* epoll_ctl(ADD) fails: the connection goes to the closed set. *)
AcceptRefused ==
  /\ cpc = "bind" /\ binder = None
  /\ RemoveConnection(newcomer)
  /\ newcomer' = None
  /\ cpc' = "wait"
  /\ UNCHANGED <<running, life, binded, armed, binder, refs, ids, queue, polled, batch,
                 listening, polls, apps, workVars, history>>

AcceptNotify ==
  /\ cpc = "notify"
  /\ AppendBusiness(newcomer, "accept")
  /\ newcomer' = None
  /\ cpc' = "accept"
  /\ UNCHANGED <<running, life, sets, ids, polled, batch, listening, polls, apps, workVars,
                 history>>

AcceptDone ==
  /\ cpc = "accept"
  /\ cpc' = "wait"
  /\ UNCHANGED <<running, life, sets, refs, ids, queue, polled, batch, listening, newcomer,
                 polls, apps, workVars, history>>

ConnectionThreadEnd ==
  /\ cpc = "wait" /\ ~ running
  /\ cpc' = "done"
  /\ UNCHANGED <<running, life, sets, refs, ids, queue, polled, batch, listening, newcomer,
                 polls, apps, workVars, history>>

-----------------------------------------------------------------------------
(* do_connect, in the thread of the application.  epoll may report the     *)
(* connection from epoll_ctl(ADD) on, before the binded set, the reference *)
(* count and m_unique are brought up to date under the lock.               *)
ConnectInsert(c) ==
  /\ apc[c] = "idle" /\ running
  /\ Insert(c)
  /\ apc' = [apc EXCEPT ![c] = "add"]
  /\ UNCHANGED <<running, closed, binded, armed, binder, refs, ids, queue, closer, connVars,
                 workVars, history>>

ConnectAdd(c) ==
  /\ apc[c] = "add" /\ binder = None
  /\ binder' = c
  /\ armed' = armed \cup {c}
  /\ apc' = [apc EXCEPT ![c] = "bind"]
  /\ UNCHANGED <<running, life, normal, closed, binded, refs, ids, queue, closer, connVars, workVars,
                 history>>

ConnectRefused(c) ==
  /\ apc[c] = "add" /\ binder = None
  /\ RemoveConnection(c)
  /\ apc' = [apc EXCEPT ![c] = "done"]
  /\ UNCHANGED <<running, life, binded, armed, binder, refs, ids, queue, closer, connVars, workVars,
                 history>>

ConnectBind(c) ==
  /\ apc[c] = "bind"
  /\ Bind(c)
  /\ binder' = None
  /\ apc' = [apc EXCEPT ![c] = "notify"]
  /\ UNCHANGED <<running, life, normal, closed, armed, queue, closer, connVars, workVars, history>>

ConnectNotify(c) ==
  /\ apc[c] = "notify"
  /\ AppendBusiness(c, "connect")
  /\ apc' = [apc EXCEPT ![c] = "done"]
  /\ UNCHANGED <<running, life, sets, ids, closer, connVars, workVars, history>>

-----------------------------------------------------------------------------
(* The data threads: reactor_data_process.                                 *)
DataTake(d) ==
  /\ pc[d] = "idle" /\ running /\ queue[d] # << >>
  /\ list' = [list EXCEPT ![d] = queue[d]]
  /\ queue' = [queue EXCEPT ![d] = << >>]
  /\ pc' = [pc EXCEPT ![d] = "run"]
  /\ UNCHANGED <<running, life, sets, refs, ids, connVars, apps, fault, history>>

(* do_recv, which may fail, and recv_notify if the water mark is reached.  *)
DataRecv(d) ==
  /\ pc[d] = "run" /\ running
  /\ LET c == InHand(d) IN
       \/ /\ "recv" \in KindInHand(d)
          /\ \E good \in BOOLEAN :
               fault' = [fault EXCEPT ![d] = ~ good \/ "error" \in KindInHand(d)]
          /\ AppendBusiness(c, "recv") \/ UNCHANGED <<queue, refs>>
       \/ /\ "recv" \notin KindInHand(d)
          /\ fault' = [fault EXCEPT ![d] = "error" \in KindInHand(d)]
          /\ UNCHANGED <<queue, refs>>
  /\ pc' = [pc EXCEPT ![d] = "send"]
  /\ UNCHANGED <<running, life, sets, ids, connVars, apps, list, history>>

(* do_send: it fails, leaves data to send, or empties the send buffer; in  *)
(* the last case send_notify is appended and an eof connection is closed.  *)
DataSend(d) ==
  /\ pc[d] = "send"
  /\ LET c == InHand(d) IN
       \/ /\ "send" \in KindInHand(d)
          /\ \/ /\ AppendBusiness(c, "send")
                /\ \E eof \in BOOLEAN : fault' = [fault EXCEPT ![d] = @ \/ eof]
             \/ /\ \E good \in BOOLEAN : fault' = [fault EXCEPT ![d] = @ \/ ~ good]
                /\ UNCHANGED <<queue, refs>>
       \/ /\ "send" \notin KindInHand(d)
          /\ UNCHANGED <<queue, refs, fault>>
  /\ pc' = [pc EXCEPT ![d] = IF fault'[d] THEN "unbind" ELSE "deref"]
  /\ UNCHANGED <<running, life, sets, ids, connVars, apps, list, history>>

(* The inner loop stops when the reactor exits; the rest of the list is    *)
(* cleared with the references it carries.                                 *)
DataAbandon(d) ==
  /\ pc[d] = "run" /\ ~ running
  /\ list' = [list EXCEPT ![d] = << >>]
  /\ pc' = [pc EXCEPT ![d] = "idle"]
  /\ UNCHANGED <<running, life, sets, refs, ids, queue, connVars, apps, fault, history>>

-----------------------------------------------------------------------------
(* The business threads: reactor_business_process.                         *)

\* Mutant of Invalid: the reference count is not looked at.
InvalidAny(c) == life[c] = "live"

(* destroy_invalid_connections frees what nobody references.               *)
Invalid(c) == life[c] = "live" /\ refs[c] = 0

(* destroy_invalid_connections.  A pointer that was freed before and came  *)
(* back into the set is judged by whatever its memory holds.               *)
Sweep(b) ==
  /\ pc[b] = "idle" /\ running
  /\ \E kept \in SUBSET {c \in closed : life[c] = "freed"} :
       LET invalid == {c \in closed : Invalid(c)}
       IN /\ life' = [c \in Conn |-> IF c \in invalid THEN "freed" ELSE life[c]]
          /\ closed' = {c \in closed \ invalid : life[c] # "freed"} \cup kept
  /\ pc' = [pc EXCEPT ![b] = "take"]
  /\ UNCHANGED <<running, normal, binded, armed, binder, refs, ids, queue, connVars, apps,
                 list, fault, history>>

BizTake(b) ==
  /\ pc[b] = "take"
  /\ list' = [list EXCEPT ![b] = queue[b]]
  /\ queue' = [queue EXCEPT ![b] = << >>]
  /\ pc' = [pc EXCEPT ![b] = IF queue[b] = << >> THEN "idle" ELSE "run"]
  /\ UNCHANGED <<running, life, sets, refs, ids, connVars, apps, fault, history>>

(* handle_connect .. handle_close: the callback of the service begins ...  *)
CallbackBegin(b) ==
  /\ pc[b] = "run"
  /\ opened' = IF KindInHand(b) \in {"connect", "accept"}
                 THEN opened \cup {InHand(b)} ELSE opened
  /\ closes' = IF KindInHand(b) = "close"
                 THEN [closes EXCEPT ![InHand(b)] = @ + 1] ELSE closes
  /\ pc' = [pc EXCEPT ![b] = "callback"]
  /\ UNCHANGED <<running, life, sets, refs, ids, queue, connVars, apps, list, fault>>

(* ... and returns.  Returning false, or having called close() on its own  *)
(* connection with nothing left to send, leads to close_connection; the    *)
(* result of the close callback is ignored.                                *)
CallbackEnd(b) ==
  /\ pc[b] = "callback"
  /\ \/ pc' = [pc EXCEPT ![b] = "deref"]
     \/ /\ KindInHand(b) # "close"
        /\ pc' = [pc EXCEPT ![b] = "unbind"]
  /\ UNCHANGED <<running, life, sets, refs, ids, queue, connVars, apps, list, fault, history>>

-----------------------------------------------------------------------------
(* The end of an event, in a data thread or a business thread.             *)

(* close_connection: only who takes the connection out of the binded set   *)
(* goes on to post the close.                                              *)
CloseUnbind(w) ==
  /\ pc[w] = "unbind" /\ binder = None
  /\ \/ /\ Unbind(InHand(w))
        /\ pc' = [pc EXCEPT ![w] = "post"]
     \/ /\ InHand(w) \notin binded
        /\ pc' = [pc EXCEPT ![w] = "deref"]
        /\ UNCHANGED <<binded, armed, refs, ids>>
  /\ UNCHANGED <<running, life, normal, closed, binder, queue, connVars, apps, list, fault,
                 history>>

(* set_error and append_business_event(close_notify). *)
ClosePost(w) ==
  /\ pc[w] = "post"
  /\ AppendBusiness(InHand(w), "close")
  /\ pc' = [pc EXCEPT ![w] = "deref"]
  /\ UNCHANGED <<running, life, sets, ids, connVars, apps, list, fault, history>>

(* close() called by a thread of the application, on a connection it was   *)
(* told of and not yet told the end of.  The thread owns no reference.     *)
AppClose(c) ==
  /\ closer[c] = "idle" /\ running /\ binder = None
  /\ c \in opened /\ closes[c] = 0
  /\ Unbind(c)
  /\ closer' = [closer EXCEPT ![c] = "post"]
  /\ UNCHANGED <<running, life, normal, closed, binder, queue, connVars, apc, workVars,
                 history>>

AppPost(c) ==
  /\ closer[c] = "post"
  /\ AppendBusiness(c, "close")
  /\ closer' = [closer EXCEPT ![c] = "done"]
  /\ UNCHANGED <<running, life, sets, ids, connVars, apc, workVars, history>>

(* decrease_reference *)
Deref(w) ==
  /\ pc[w] = "deref"
  /\ refs' = [refs EXCEPT ![InHand(w)] = @ - 1]
  /\ pc' = [pc EXCEPT ![w] = "check"]
  /\ UNCHANGED <<running, life, sets, ids, queue, connVars, apps, list, fault, history>>

(* The event is finished: the next one of the list, or the outer loop.     *)
NextEvent(w) ==
  /\ list' = [list EXCEPT ![w] = Tail(@)]
  /\ pc' = [pc EXCEPT ![w] = IF Len(list[w]) = 1 THEN "idle" ELSE "run"]

(* has_reference: somebody else still has the connection ... *)
CheckHeld(w) ==
  /\ pc[w] = "check"
  /\ life[InHand(w)] = "live" => refs[InHand(w)] # 0
  /\ NextEvent(w)
  /\ UNCHANGED <<running, life, sets, refs, ids, queue, connVars, apps, fault, history>>

(* ... or nobody has it. *)
CheckUnheld(w) ==
  /\ pc[w] = "check"
  /\ life[InHand(w)] = "live" => refs[InHand(w)] = 0
  /\ pc' = [pc EXCEPT ![w] = "remove"]
  /\ UNCHANGED <<running, life, sets, refs, ids, queue, connVars, apps, list, fault, history>>

Remove(w) ==
  /\ pc[w] = "remove"
  /\ RemoveConnection(InHand(w))
  /\ NextEvent(w)
  /\ UNCHANGED <<running, life, binded, armed, binder, refs, ids, queue, connVars, apps, fault,
                 history>>

WorkerEnd(w) ==
  /\ pc[w] = "idle" /\ ~ running
  /\ pc' = [pc EXCEPT ![w] = "done"]
  /\ UNCHANGED <<running, life, sets, refs, ids, queue, connVars, apps, list, fault, history>>

-----------------------------------------------------------------------------
(* exit(), when no create_connection() or close() is under way: the loops are told to *)
(* stop and the epoll descriptor is closed ...                             *)
Stop ==
  /\ running /\ Exits
  /\ \A r \in Requester : apc[r] \in {"idle", "done"}
  /\ \A c \in Closeable : closer[c] # "post"
  /\ running' = FALSE
  /\ armed' = {}
  /\ UNCHANGED <<life, normal, closed, binded, binder, refs, ids, queue, connVars, apps,
                 workVars, history>>

Joined == cpc = "done" /\ \A w \in Worker : pc[w] = "done"

(* ... and when the threads are joined everything left is deleted.         *)
Destroy ==
  /\ Joined /\ normal \cup closed \cup binded # {}
  /\ life' = [c \in Conn |-> IF c \in normal \cup closed THEN "freed" ELSE life[c]]
  /\ normal' = {} /\ closed' = {} /\ binded' = {}
  /\ queue' = [w \in Worker |-> << >>]
  /\ next_id' = 0 /\ unused_id' = << >>
  /\ UNCHANGED <<running, armed, binder, refs, uniq, connVars, apps, workVars, history>>

(* Nothing is left to do after exit(). *)
Exited ==
  /\ Joined /\ normal \cup closed \cup binded = {}
  /\ UNCHANGED vars

ConnectionThread ==
  \/ Poll \/ Publish \/ AcceptBind \/ AcceptRefused \/ AcceptNotify \/ AcceptDone
  \/ ConnectionThreadEnd
  \/ \E c \in Conn : Dispatch(c) \/ AcceptInsert(c)

RequesterThread(c) ==
  \/ ConnectAdd(c) \/ ConnectRefused(c) \/ ConnectBind(c) \/ ConnectNotify(c)

DataThread(d) == DataTake(d) \/ DataRecv(d) \/ DataSend(d) \/ DataAbandon(d)

BizThread(b) == Sweep(b) \/ BizTake(b) \/ CallbackBegin(b) \/ CallbackEnd(b)

EventEnd(w) ==
  \/ CloseUnbind(w) \/ ClosePost(w) \/ Deref(w) \/ CheckHeld(w) \/ CheckUnheld(w)
  \/ Remove(w) \/ WorkerEnd(w)

Next ==
  \/ ConnectionThread
  \/ \E c \in Requester : ConnectInsert(c) \/ RequesterThread(c)
  \/ \E c \in Closeable : AppClose(c) \/ AppPost(c)
  \/ \E d \in Data : DataThread(d)
  \/ \E b \in Biz : BizThread(b)
  \/ \E w \in Worker : EventEnd(w)
  \/ Stop \/ Destroy \/ Exited

Spec == Init /\ [][Next]_vars

(* Every thread of the reactor keeps running its loop, and a thread inside *)
(* create_connection() or close() gets through it.  Nothing makes epoll report,       *)
(* create_connection() be called or exit() happen.                         *)
Fairness ==
  /\ WF_vars(ConnectionThread)
  /\ \A c \in Requester : WF_vars(RequesterThread(c))
  /\ \A c \in Closeable : WF_vars(AppPost(c))
  /\ \A d \in Data : WF_vars(DataThread(d) \/ EventEnd(d))
  /\ \A b \in Biz : WF_vars(BizThread(b) \/ EventEnd(b))

FairSpec == Spec /\ Fairness

-----------------------------------------------------------------------------
DataEvent == [conn : Conn, kind : DataKinds]
BizEvent == [conn : Conn, kind : BizKinds]

WorkerStates == {"idle", "run", "send", "take", "callback", "unbind", "post", "deref",
                 "check", "remove", "done"}

EventLists(q) ==
  /\ q = [w \in Worker |-> q[w]]
  /\ \A d \in Data : q[d] \in Seq(DataEvent)
  /\ \A b \in Biz : q[b] \in Seq(BizEvent)

(* The types of the state.  m_references is a size_t that would wrap if it *)
(* were decreased once too often.                                          *)
TypeOK ==
  /\ running \in BOOLEAN
  /\ life \in [Conn -> {"unborn", "live", "freed"}]
  /\ normal \subseteq Conn /\ closed \subseteq Conn
  /\ binded \subseteq Conn /\ armed \subseteq Conn
  /\ binder \in Requester \cup {None}
  /\ refs \in [Conn -> Nat]
  /\ uniq \in [Conn -> Nat]
  /\ next_id \in 0 .. Cardinality(Conn)
  /\ unused_id \in Seq(Nat)
  /\ EventLists(queue)
  /\ cpc \in {"wait", "dispatch", "accept", "bind", "notify", "done"}
  /\ polled \subseteq Conn
  /\ batch \in [Data -> Seq(DataEvent)]
  /\ listening \in BOOLEAN
  /\ newcomer \in Accepted \cup {None}
  /\ apc \in [Requester -> {"idle", "add", "bind", "notify", "done"}]
  /\ closer \in [Closeable -> {"idle", "post", "done"}]
  /\ pc \in [Worker -> WorkerStates]
  /\ EventLists(list)
  /\ fault \in [Worker -> BOOLEAN]
  /\ polls \in [Conn -> 0 .. MaxPolls]
  /\ opened \subseteq Conn
  /\ closes \in [Conn -> Nat]

Events(s, c) == {i \in 1 .. Len(s) : s[i].conn = c}

(* The places that hold a counted reference to c: the binded set, the      *)
(* events on their way, and an event in hand until its decrease_reference. *)
Holders(c) ==
  (UNION {{<<"queue", w, i>> : i \in Events(queue[w], c)} : w \in Worker})
  \cup (UNION {{<<"batch", d, i>> : i \in Events(batch[d], c)} : d \in Data})
  \cup (UNION {{<<"list", w, i>> : i \in
                  {j \in Events(list[w], c) : j > 1 \/ pc[w] \notin {"check", "remove"}}}
                  : w \in Worker})
  \cup {<<"binded">> : x \in binded \cap {c}}

(* m_references counts the holders of a live connection, as long as no     *)
(* data thread has thrown its list away on the way out of exit().          *)
RefsCountHolders ==
  running => \A c \in Conn : life[c] = "live" => refs[c] = Cardinality(Holders(c))

(* An accepted connection that only the reactor's threads close is never   *)
(* freed while it is bound or while an event that names it is queued or    *)
(* still to be handled.                                                    *)
HeldIsLive ==
  \A c \in Accepted \ Closeable : Holders(c) # {} => life[c] = "live"

(* Such a connection is not freed before the service was told of its end.  *)
ReportedBeforeFreed ==
  \A c \in Accepted \ Closeable :
    life[c] = "freed" /\ c \in opened /\ running => closes[c] = 1

(* A live connection that is set up is in exactly one of the normal set    *)
(* and the closed set, so that destroy_invalid_connections or exit() finds *)
(* it and finds it once.                                                   *)
Tracked ==
  \A c \in Conn : life[c] = "live" => (c \in normal) # (c \in closed)

(* The service hears of an accepted connection through on_accept before    *)
(* any other callback names it.                                            *)
AcceptFirst ==
  \A b \in Biz : pc[b] = "callback" /\ InHand(b) \in Accepted => InHand(b) \in opened

(* No matter how many threads close a connection, on_close is called once. *)
CloseOnce == \A c \in Conn : closes[c] <= 1

(* Two callbacks of one accepted connection never run at the same time.    *)
CallbacksSerial ==
  \A a, b \in Biz :
    /\ a # b /\ pc[a] = "callback" /\ pc[b] = "callback"
    /\ InHand(a) \in Accepted
    => InHand(a) # InHand(b)

(* The reactor uses the id manager as it is meant to be used: bound        *)
(* connections have different uniques, and one comes back only when its    *)
(* connection is unbound.                                                  *)
UniquesFromManager == Unique!Spec

(* What remove_connection() and its callers rely on: a thread that looks   *)
(* at a connection after decrease_reference finds it still allocated.      *)
NoUseAfterRelease ==
  /\ \A w \in Worker : pc[w] \in {"check", "remove"} => life[InHand(w)] = "live"
  /\ \A c \in Closeable : closer[c] = "post" => life[c] = "live"

(* Every callback of a connection comes after the one that announces it,   *)
(* on_connect or on_accept.                                                *)
OpenFirst ==
  \A b \in Biz : pc[b] = "callback" => InHand(b) \in opened

(* A connection the service has heard of and that is not bound any more is *)
(* reported closed and freed, unless the reactor exits first.              *)
Reclaimed ==
  \A c \in Conn :
    (c \in opened /\ c \notin binded)
      ~> ((closes[c] = 1 /\ life[c] = "freed") \/ ~ running)
=============================================================================
