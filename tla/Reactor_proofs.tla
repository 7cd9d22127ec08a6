--------------------------- MODULE Reactor_proofs ---------------------------
(***************************************************************************)
(* Theorems about module Reactor, for any number of connections, threads   *)
(* and reports: every live connection is in exactly one of the two sets    *)
(* (Tracked), a connection is reported closed at most once (CloseOnce),    *)
(* the reactor's uniques are those of an id manager used as it is meant to *)
(* be (UniquesFromManager), m_references counts those that hold a          *)
(* connection (RefsCountHolders), an accepted connection that only the     *)
(* reactor closes is not freed while it is held (HeldIsLive), the state    *)
(* has its types (TypeOK), m_references being no less than zero, the       *)
(* callbacks of an accepted connection do not overlap (CallbacksSerial),   *)
(* on_accept is the first of them (AcceptFirst), and one that only the     *)
(* reactor closes is not freed before its close callback began             *)
(* (ReportedBeforeFreed).                                                  *)
(***************************************************************************)
EXTENDS Reactor, FiniteSetTheorems, FunctionTheorems, SequenceTheorems, TLAPS

(* The connections acquire_connection() has allocated.                     *)
Born == {c \in Conn : life[c] # "unborn"}

(* Events that name members of S, with kinds from K.                       *)
EventsOf(S, K) == [conn : S, kind : K]

(* Every event list of q holds events of its own sort that name members of *)
(* S.                                                                      *)
ListsOf(S, q) ==
  /\ q = [w \in Worker |-> q[w]]
  /\ \A d \in Data : q[d] \in Seq(EventsOf(S, DataKinds))
  /\ \A b \in Biz : q[b] \in Seq(EventsOf(S, BizKinds))

(* The sets of the reactor hold allocated connections only.                *)
SetsOK ==
  /\ life \in [Conn -> {"unborn", "live", "freed"}]
  /\ normal \subseteq Born /\ closed \subseteq Born /\ binded \subseteq Born
  /\ uniq \in [Conn -> Nat]

(* Where the connection thread and the threads of the application stand,   *)
(* and which connections they must already have allocated there.           *)
ActorsOK ==
  /\ cpc \in {"wait", "dispatch", "accept", "bind", "notify", "done"}
  /\ cpc \in {"bind", "notify"} => newcomer \in Born \cap Accepted
  /\ apc \in [Requester -> {"idle", "add", "bind", "notify", "done"}]
  /\ \A r \in Requester : apc[r] # "idle" <=> r \in Born
  /\ closer \in [Closeable -> {"idle", "post", "done"}]
  /\ \A c \in Closeable : closer[c] # "idle" => c \in Born

(* The threads that have no event in hand.                                 *)
Waits(w) == pc[w] \in {"idle", "take", "done"}

(* The data threads, the business threads and every list of events, when   *)
(* all the events name members of S; a thread has a list exactly when it   *)
(* has an event in hand.                                                   *)
ListsFor(S) ==
  /\ pc \in [Worker -> WorkerStates]
  /\ ListsOf(S, queue) /\ ListsOf(S, list)
  /\ batch \in [Data -> Seq(EventsOf(S, DataKinds))]
  /\ \A w \in Worker : list[w] = << >> <=> Waits(w)

(* No event names a connection that was never allocated.                   *)
ListsOK == ListsFor(Born)

(* The inductive invariant behind Tracked: whoever may still put a         *)
(* connection into a set (the thread that removes it, accepts it or        *)
(* connects it) names one that was allocated, so that no unborn connection *)
(* gets into the closed set.                                               *)
NamesInv == SetsOK /\ ActorsOK /\ ListsOK /\ Tracked

USE DEF sets, ids, connVars, apps, workVars, history

(* A worker is a data thread or a business thread and never both.          *)
LEMMA Workers ==
  /\ Worker = Data \cup Biz
  /\ Data \cap Biz = {}
BY DEF Worker, Data, Biz

(* The unique of a connection chooses one business list and one data list. *)
LEMMA OwnLists ==
  ASSUME NEW c \in Conn, uniq \in [Conn -> Nat]
  PROVE  BizOf(c) \in Biz /\ DataOf(c) \in Data
<1>1. uniq[c] % BizCount \in 0 .. (BizCount - 1) /\ uniq[c] % DataCount \in 0 .. (DataCount - 1)
  BY ReactorAssumption
<1>. QED
  BY <1>1 DEF BizOf, DataOf, Biz, Data

(* The event in hand of a busy thread names a member of S.                 *)
LEMMA InHandOf ==
  ASSUME NEW S, ListsFor(S), NEW w \in Worker, ~ Waits(w)
  PROVE  InHand(w) \in S /\ list[w] # << >> /\ Len(list[w]) \in Nat \ {0}
<1>1. list[w] # << >>
  BY DEF ListsFor
<1>2. PICK K : list[w] \in Seq(EventsOf(S, K))
  BY Workers DEF ListsFor, ListsOf
<1>3. Head(list[w]) \in EventsOf(S, K) /\ Len(list[w]) \in Nat \ {0}
  BY <1>1, <1>2
<1>. QED
  BY <1>1, <1>3 DEF InHand, EventsOf

(* The connection in hand of a busy thread was allocated.                  *)
LEMMA HeadBorn ==
  ASSUME ListsOK, NEW w \in Worker, ~ Waits(w)
  PROVE  InHand(w) \in Born
BY InHandOf DEF ListsOK

(* The invariant holds at the start.                                       *)
LEMMA InitNames == Init => NamesInv
<1> SUFFICES ASSUME Init PROVE NamesInv
  OBVIOUS
<1>1. SetsOK /\ Tracked
  BY DEF Init, SetsOK, Tracked
<1>2. ActorsOK
  BY ReactorAssumption DEF Init, ActorsOK, Born
<1>3. ListsOK
  BY Workers DEF Init, ListsOK, ListsFor, ListsOf, Waits, WorkerStates
<1>. QED
  BY <1>1, <1>2, <1>3 DEF NamesInv

-----------------------------------------------------------------------------
(* A connection is bound under an id of the manager; no other one changes. *)
LEMMA BindOK ==
  ASSUME NEW c \in Conn, uniq \in [Conn -> Nat], Bind(c)
  PROVE  /\ uniq' \in [Conn -> Nat]
         /\ binded' = binded \cup {c}
         /\ \E id \in Nat : uniq' = [uniq EXCEPT ![c] = id]
<1>1. Cardinality(Conn) \in Nat
  BY FS_CardinalityType, ReactorAssumption
<1>2. PICK id \in Unique!Id : uniq' = [uniq EXCEPT ![c] = id]
  BY DEF Bind
<1>3. id \in Nat
  BY <1>1 DEF Unique!Id
<1>. QED
  BY <1>2, <1>3 DEF Bind

(* The steps that touch the sets, the uniques or the life of a connection. *)
LEMMA SetsMoves ==
  ASSUME Next
  PROVE  \/ UNCHANGED <<life, normal, closed, binded, uniq>>
         \/ AcceptBind \/ AcceptRefused \/ Destroy
         \/ \E c \in Conn : AcceptInsert(c)
         \/ \E c \in Requester : ConnectInsert(c) \/ ConnectRefused(c) \/ ConnectBind(c)
         \/ \E c \in Closeable : AppClose(c)
         \/ \E b \in Biz : Sweep(b)
         \/ \E w \in Worker : CloseUnbind(w) \/ Remove(w)
<1>1. ConnectionThread =>
        \/ UNCHANGED <<life, normal, closed, binded, uniq>>
        \/ AcceptBind \/ AcceptRefused
        \/ \E c \in Conn : AcceptInsert(c)
  BY DEF ConnectionThread, Poll, Publish, AcceptNotify, AcceptDone, ConnectionThreadEnd, Dispatch
<1>2. \A c \in Requester : RequesterThread(c) =>
        \/ UNCHANGED <<life, normal, closed, binded, uniq>>
        \/ ConnectRefused(c) \/ ConnectBind(c)
  BY DEF RequesterThread, ConnectAdd, ConnectNotify
<1>3. \A d \in Data : DataThread(d) => UNCHANGED <<life, normal, closed, binded, uniq>>
  BY DEF DataThread, DataTake, DataRecv, DataSend, DataAbandon
<1>4. \A b \in Biz : BizThread(b) =>
        UNCHANGED <<life, normal, closed, binded, uniq>> \/ Sweep(b)
  BY DEF BizThread, BizTake, CallbackBegin, CallbackEnd
<1>5. \A w \in Worker : EventEnd(w) =>
        UNCHANGED <<life, normal, closed, binded, uniq>> \/ CloseUnbind(w) \/ Remove(w)
  BY DEF EventEnd, ClosePost, Deref, CheckHeld, CheckUnheld, WorkerEnd
<1>6. \A c \in Closeable : AppPost(c) => UNCHANGED <<life, normal, closed, binded, uniq>>
  BY DEF AppPost
<1>7. Stop \/ Exited => UNCHANGED <<life, normal, closed, binded, uniq>>
  BY DEF Stop, Exited, vars
<1>. QED
  BY <1>1, <1>2, <1>3, <1>4, <1>5, <1>6, <1>7 DEF Next

(* Every step keeps the sets right, keeps a live connection in exactly one *)
(* of them, and makes no allocated connection unborn again.                *)
LEMMA SetsStep ==
  ASSUME NamesInv, Next
  PROVE  SetsOK' /\ Tracked' /\ Born \subseteq Born'
<1>. USE DEF NamesInv, Born
<1>1. CASE UNCHANGED <<life, normal, closed, binded, uniq>>
  BY <1>1 DEF SetsOK, Tracked
<1>2. CASE AcceptBind
  <2>1. newcomer \in Born /\ Bind(newcomer) /\ UNCHANGED <<life, normal, closed>>
    BY <1>2 DEF AcceptBind, ActorsOK
  <2>2. uniq' \in [Conn -> Nat] /\ binded' = binded \cup {newcomer}
    BY <2>1, BindOK DEF SetsOK
  <2>. QED
    BY <2>1, <2>2 DEF SetsOK, Tracked
<1>3. CASE AcceptRefused
  BY <1>3 DEF AcceptRefused, RemoveConnection, ActorsOK, SetsOK, Tracked
<1>4. CASE Destroy
  BY <1>4 DEF Destroy, SetsOK, Tracked
<1>5. ASSUME NEW c \in Conn, AcceptInsert(c) PROVE SetsOK' /\ Tracked' /\ Born \subseteq Born'
  BY <1>5 DEF AcceptInsert, Insert, SetsOK, Tracked
<1>6. ASSUME NEW c \in Requester, ConnectInsert(c)
      PROVE  SetsOK' /\ Tracked' /\ Born \subseteq Born'
  BY <1>6, ReactorAssumption DEF ConnectInsert, Insert, ActorsOK, SetsOK, Tracked
<1>7. ASSUME NEW c \in Requester, ConnectRefused(c)
      PROVE  SetsOK' /\ Tracked' /\ Born \subseteq Born'
  BY <1>7, ReactorAssumption DEF ConnectRefused, RemoveConnection, ActorsOK, SetsOK, Tracked
<1>8. ASSUME NEW c \in Requester, ConnectBind(c)
      PROVE  SetsOK' /\ Tracked' /\ Born \subseteq Born'
  <2>1. c \in Born /\ Bind(c) /\ UNCHANGED <<life, normal, closed>>
    BY <1>8 DEF ConnectBind, ActorsOK
  <2>2. uniq' \in [Conn -> Nat] /\ binded' = binded \cup {c}
    BY <2>1, BindOK DEF SetsOK
  <2>. QED
    BY <2>1, <2>2 DEF SetsOK, Tracked
<1>9. ASSUME NEW c \in Closeable, AppClose(c)
      PROVE  SetsOK' /\ Tracked' /\ Born \subseteq Born'
  BY <1>9 DEF AppClose, Unbind, SetsOK, Tracked
<1>10. ASSUME NEW b \in Biz, Sweep(b) PROVE SetsOK' /\ Tracked' /\ Born \subseteq Born'
  BY <1>10 DEF Sweep, Invalid, SetsOK, Tracked
<1>11. ASSUME NEW w \in Worker, CloseUnbind(w)
       PROVE  SetsOK' /\ Tracked' /\ Born \subseteq Born'
  BY <1>11 DEF CloseUnbind, Unbind, SetsOK, Tracked
<1>12. ASSUME NEW w \in Worker, Remove(w)
       PROVE  SetsOK' /\ Tracked' /\ Born \subseteq Born'
  <2>1. InHand(w) \in Born
    BY <1>12, HeadBorn DEF Remove, Waits
  <2>. QED
    BY <1>12, <2>1 DEF Remove, RemoveConnection, SetsOK, Tracked
<1>. QED
  BY <1>1, <1>2, <1>3, <1>4, <1>5, <1>6, <1>7, <1>8, <1>9, <1>10, <1>11, <1>12, SetsMoves

-----------------------------------------------------------------------------
(* The steps that touch the control of the connection thread or of a       *)
(* thread of the application.                                              *)
LEMMA ActorsMoves ==
  ASSUME Next
  PROVE  \/ UNCHANGED <<life, cpc, newcomer, apc, closer>>
         \/ UNCHANGED <<apc, closer>> /\ ConnectionThread
         \/ \E c \in Requester : ConnectInsert(c) \/ RequesterThread(c)
         \/ \E c \in Closeable : AppClose(c) \/ AppPost(c)
         \/ Destroy
         \/ \E b \in Biz : Sweep(b)
<1>1. ConnectionThread => UNCHANGED <<apc, closer>>
  BY DEF ConnectionThread, Poll, Publish, AcceptBind, AcceptRefused, AcceptNotify, AcceptDone,
         ConnectionThreadEnd, Dispatch, AcceptInsert
<1>3. \A d \in Data : DataThread(d) => UNCHANGED <<life, cpc, newcomer, apc, closer>>
  BY DEF DataThread, DataTake, DataRecv, DataSend, DataAbandon
<1>4. \A b \in Biz : BizThread(b) =>
        UNCHANGED <<life, cpc, newcomer, apc, closer>> \/ Sweep(b)
  BY DEF BizThread, BizTake, CallbackBegin, CallbackEnd
<1>5. \A w \in Worker : EventEnd(w) => UNCHANGED <<life, cpc, newcomer, apc, closer>>
  BY DEF EventEnd, ClosePost, Deref, CheckHeld, CheckUnheld, WorkerEnd, CloseUnbind, Remove
<1>7. Stop \/ Exited => UNCHANGED <<life, cpc, newcomer, apc, closer>>
  BY DEF Stop, Exited, vars
<1>. QED
  BY <1>1, <1>3, <1>4, <1>5, <1>7 DEF Next

(* Every step keeps the control of these threads in order.                 *)
LEMMA ActorsStep ==
  ASSUME NamesInv, Next
  PROVE  ActorsOK'
<1>. USE DEF NamesInv, Born
<1>0. /\ \A c \in Conn : life[c] # "unborn" => life'[c] # "unborn"
      /\ Born \subseteq Born'
      /\ SetsOK'
  BY SetsStep DEF SetsOK
<1>1. CASE UNCHANGED <<life, cpc, newcomer, apc, closer>>
  BY <1>1 DEF ActorsOK
<1>2. CASE ConnectionThread
  <2>. USE <1>0, ReactorAssumption DEF ActorsOK, Accepted
  <2>1. ASSUME NEW c \in Conn, AcceptInsert(c) PROVE ActorsOK'
    BY <2>1 DEF AcceptInsert, Insert, SetsOK
  <2>2. CASE AcceptBind
    BY <2>2 DEF AcceptBind
  <2>3. CASE Poll \/ Publish \/ AcceptRefused \/ AcceptNotify \/ AcceptDone
             \/ ConnectionThreadEnd
    BY <2>3 DEF Poll, Publish, AcceptRefused, AcceptNotify, AcceptDone, ConnectionThreadEnd
  <2>4. ASSUME NEW c \in Conn, Dispatch(c) PROVE ActorsOK'
    BY <2>4 DEF Dispatch
  <2>. QED
    BY <1>2, <2>1, <2>2, <2>3, <2>4 DEF ConnectionThread
<1>3. ASSUME NEW c \in Requester, ConnectInsert(c) PROVE ActorsOK'
  BY <1>0, <1>3, ReactorAssumption DEF ConnectInsert, Insert, ActorsOK, SetsOK
<1>4. ASSUME NEW c \in Requester, RequesterThread(c) PROVE ActorsOK'
  BY <1>0, <1>4 DEF RequesterThread, ConnectAdd, ConnectRefused, ConnectBind, ConnectNotify,
       ActorsOK
<1>5. ASSUME NEW c \in Closeable, AppClose(c) \/ AppPost(c) PROVE ActorsOK'
  BY <1>0, <1>5 DEF AppClose, Unbind, AppPost, ActorsOK, SetsOK
<1>6. CASE Destroy
  BY <1>0, <1>6, ReactorAssumption DEF Destroy, ActorsOK, SetsOK
<1>7. ASSUME NEW b \in Biz, Sweep(b) PROVE ActorsOK'
  BY <1>0, <1>7, ReactorAssumption DEF Sweep, Invalid, ActorsOK, SetsOK
<1>. QED
  BY <1>1, <1>2, <1>3, <1>4, <1>5, <1>6, <1>7, ActorsMoves

-----------------------------------------------------------------------------
(* Lists of events of S are lists of events of anything larger.            *)
LEMMA SeqGrows ==
  ASSUME NEW S, NEW T, S \subseteq T, NEW K
  PROVE  Seq(EventsOf(S, K)) \subseteq Seq(EventsOf(T, K))
<1>1. EventsOf(S, K) \subseteq EventsOf(T, K)
  BY DEF EventsOf
<1>. QED
  BY <1>1

(* The same for all the event lists together.                              *)
LEMMA ListsGrow ==
  ASSUME NEW S, NEW T, S \subseteq T, NEW q, ListsOf(S, q)
  PROVE  ListsOf(T, q)
BY SeqGrows DEF ListsOf

(* append_business_event of a member of S keeps the lists in S.            *)
LEMMA AppendOK ==
  ASSUME NEW S, S \subseteq Conn, ListsOf(S, queue), uniq \in [Conn -> Nat],
         NEW c \in S, NEW k \in BizKinds, AppendBusiness(c, k)
  PROVE  ListsOf(S, queue')
<1>1. BizOf(c) \in Biz
  BY OwnLists
<1>2. Event(c, k) \in EventsOf(S, BizKinds)
  BY DEF Event, EventsOf
<1>3. Append(queue[BizOf(c)], Event(c, k)) \in Seq(EventsOf(S, BizKinds))
  BY <1>1, <1>2 DEF ListsOf
<1>. QED
  BY <1>1, <1>3, Workers DEF ListsOf, AppendBusiness

(* The steps that touch an event list or the control of a worker.          *)
LEMMA ListsMoves ==
  ASSUME Next
  PROVE  \/ UNCHANGED <<queue, list, batch, pc>>
         \/ \E c \in Conn : Dispatch(c)
         \/ Publish \/ AcceptNotify \/ Destroy
         \/ \E c \in Requester : ConnectNotify(c)
         \/ \E c \in Closeable : AppPost(c)
         \/ \E d \in Data : DataThread(d)
         \/ \E b \in Biz : BizThread(b)
         \/ \E w \in Worker : EventEnd(w)
<1>1. ConnectionThread =>
        \/ UNCHANGED <<queue, list, batch, pc>>
        \/ \E c \in Conn : Dispatch(c)
        \/ Publish \/ AcceptNotify
  BY DEF ConnectionThread, Poll, AcceptBind, AcceptRefused, AcceptDone, ConnectionThreadEnd,
         AcceptInsert
<1>2. \A c \in Requester : ConnectInsert(c) \/ RequesterThread(c) =>
        UNCHANGED <<queue, list, batch, pc>> \/ ConnectNotify(c)
  BY DEF ConnectInsert, RequesterThread, ConnectAdd, ConnectRefused, ConnectBind
<1>3. \A c \in Closeable : AppClose(c) => UNCHANGED <<queue, list, batch, pc>>
  BY DEF AppClose
<1>4. Stop \/ Exited => UNCHANGED <<queue, list, batch, pc>>
  BY DEF Stop, Exited, vars
<1>. QED
  BY <1>1, <1>2, <1>3, <1>4 DEF Next

(* Replacing one list by one of its own sort.                              *)
LEMMA PutOK ==
  ASSUME NEW S, NEW q, ListsOf(S, q), NEW w \in Worker, NEW t,
         w \in Data => t \in Seq(EventsOf(S, DataKinds)),
         w \in Biz => t \in Seq(EventsOf(S, BizKinds))
  PROVE  ListsOf(S, [q EXCEPT ![w] = t])
BY Workers DEF ListsOf

(* The empty list is a list of anything.                                   *)
LEMMA EmptyOK == ASSUME NEW S PROVE << >> \in Seq(S)
OBVIOUS

(* What is left of a list without its first event, and when it is empty.   *)
LEMMA TailOK ==
  ASSUME NEW S, NEW s \in Seq(S), s # << >>
  PROVE  Tail(s) \in Seq(S) /\ (Tail(s) = << >> <=> Len(s) = 1)
<1>1. Tail(s) \in Seq(S) /\ Len(Tail(s)) = Len(s) - 1 /\ Len(s) \in Nat
  BY HeadTailProperties
<1>2. Len(<< >>) = 0
  OBVIOUS
<1> DEFINE t == Tail(s)
<1>3. t \in Seq(S) /\ Len(t) = Len(s) - 1 /\ Len(s) \in Nat
  BY <1>1
<1> HIDE DEF t
<1>4. t # << >> => Len(t) # 0
  BY <1>3, EmptySeq
<1>5. t = << >> => Len(s) = 1
  BY <1>2, <1>3
<1>6. Len(s) = 1 => t = << >>
  BY <1>3, <1>4
<1>. QED
  BY <1>3, <1>5, <1>6 DEF t

(* A worker changes its list and its control together, so that it still    *)
(* has a list exactly when it is busy.                                     *)
LEMMA MoveOK ==
  ASSUME list = [w \in Worker |-> list[w]], pc \in [Worker -> WorkerStates],
         \A w \in Worker : list[w] = << >> <=> Waits(w),
         NEW w \in Worker, NEW t, NEW p \in WorkerStates,
         list' = [list EXCEPT ![w] = t], pc' = [pc EXCEPT ![w] = p],
         t = << >> <=> p \in {"idle", "take", "done"}
  PROVE  /\ pc' \in [Worker -> WorkerStates]
         /\ \A v \in Worker : list'[v] = << >> <=> Waits(v)'
BY DEF Waits

(* Going on to the next event, or to the outer loop, keeps the lists in    *)
(* order.                                                                  *)
LEMMA NextEventOK ==
  ASSUME NEW S, ListsFor(S), NEW w \in Worker, ~ Waits(w), NextEvent(w),
         UNCHANGED <<queue, batch>>
  PROVE  ListsFor(S)'
<1>. USE DEF ListsFor
<1>1. list[w] # << >>
  OBVIOUS
<1>2. ASSUME NEW K, list[w] \in Seq(EventsOf(S, K))
      PROVE  /\ Tail(list[w]) \in Seq(EventsOf(S, K))
             /\ Tail(list[w]) = << >> <=> Len(list[w]) = 1
  BY <1>1, <1>2, TailOK
<1>3. ListsOf(S, list')
  BY <1>2, Workers DEF NextEvent, ListsOf
<1>4. Tail(list[w]) = << >> <=> Len(list[w]) = 1
  BY <1>2, Workers DEF ListsOf
<1>. QED
  BY <1>3, <1>4 DEF NextEvent, Waits, WorkerStates, ListsOf

(* Every step keeps the events inside S, if the threads that append name   *)
(* members of S.                                                           *)
LEMMA ListsStepIn ==
  ASSUME NEW S, S \subseteq Conn, uniq \in [Conn -> Nat], ListsFor(S), Next,
         normal \subseteq S,
         cpc = "notify" => newcomer \in S,
         \A c \in Requester : apc[c] = "notify" => c \in S,
         \A c \in Closeable : closer[c] = "post" => c \in S
  PROVE  ListsFor(S)'
<1>. USE DEF ListsFor
<1>1. CASE UNCHANGED <<queue, list, batch, pc>>
  BY <1>1 DEF Waits
<1>2. ASSUME NEW c \in Conn, Dispatch(c) PROVE ListsFor(S)'
  <2>1. UNCHANGED <<queue, list, pc>>
    BY <1>2 DEF Dispatch
  <2>2. ASSUME c \in normal, NEW k \in DataKinds,
               batch' = [batch EXCEPT ![DataOf(c)] = Append(@, Event(c, k))]
        PROVE  batch' \in [Data -> Seq(EventsOf(S, DataKinds))]
    <3>1. DataOf(c) \in Data /\ Event(c, k) \in EventsOf(S, DataKinds)
      BY <2>2, OwnLists DEF Event, EventsOf
    <3>2. Append(batch[DataOf(c)], Event(c, k)) \in Seq(EventsOf(S, DataKinds))
      BY <3>1
    <3>. QED
      BY <2>2, <3>1, <3>2
  <2>3. batch' \in [Data -> Seq(EventsOf(S, DataKinds))]
    BY <1>2, <2>2 DEF Dispatch
  <2>. QED
    BY <2>1, <2>3 DEF Waits
<1>3. CASE Publish
  <2>1. \A d \in Data : queue[d] \o batch[d] \in Seq(EventsOf(S, DataKinds))
    BY DEF ListsOf
  <2>2. ListsOf(S, queue')
    BY <1>3, <2>1, Workers DEF Publish, ListsOf
  <2>. QED
    BY <1>3, <2>2 DEF Publish, Waits
<1>4. CASE AcceptNotify
  BY <1>4, AppendOK DEF AcceptNotify, BizKinds, Waits
<1>5. CASE Destroy
  <2>1. queue' = [w \in Worker |-> << >>] /\ UNCHANGED <<list, batch, pc>>
    BY <1>5 DEF Destroy
  <2>2. ListsOf(S, queue')
    BY <2>1, Workers DEF ListsOf
  <2>. QED
    BY <2>1, <2>2 DEF Waits
<1>6. ASSUME NEW c \in Requester, ConnectNotify(c) PROVE ListsFor(S)'
  BY <1>6, AppendOK DEF ConnectNotify, BizKinds, Waits
<1>7. ASSUME NEW c \in Closeable, AppPost(c) PROVE ListsFor(S)'
  BY <1>7, AppendOK DEF AppPost, BizKinds, Waits
<1>8. ASSUME NEW d \in Data, DataThread(d) PROVE ListsFor(S)'
  <2>1. d \in Worker /\ d \notin Biz
    BY Workers
  <2>2. CASE DataTake(d)
    <3>1. ListsOf(S, [queue EXCEPT ![d] = << >>])
      BY <2>1, PutOK, EmptyOK
    <3>2. ListsOf(S, [list EXCEPT ![d] = queue[d]])
      BY <2>1, PutOK DEF ListsOf
    <3>. QED
      BY <2>1, <2>2, <3>1, <3>2, MoveOK DEF DataTake, ListsOf, WorkerStates
  <2>3. CASE DataRecv(d)
    <3>1. InHand(d) \in S
      BY <2>1, <2>3, InHandOf DEF DataRecv, Waits
    <3>2. ListsOf(S, queue')
      BY <2>3, <3>1, AppendOK DEF DataRecv, BizKinds
    <3>. QED
      BY <2>1, <2>3, <3>2 DEF DataRecv, Waits, WorkerStates
  <2>4. CASE DataSend(d)
    <3>1. InHand(d) \in S
      BY <2>1, <2>4, InHandOf DEF DataSend, Waits
    <3>2. ListsOf(S, queue')
      BY <2>4, <3>1, AppendOK DEF DataSend, BizKinds
    <3>. QED
      BY <2>1, <2>4, <3>2 DEF DataSend, Waits, WorkerStates
  <2>5. CASE DataAbandon(d)
    <3>1. ListsOf(S, [list EXCEPT ![d] = << >>])
      BY <2>1, PutOK, EmptyOK
    <3>. QED
      BY <2>1, <2>5, <3>1, MoveOK DEF DataAbandon, ListsOf, WorkerStates
  <2>. QED
    BY <1>8, <2>2, <2>3, <2>4, <2>5 DEF DataThread
<1>9. ASSUME NEW b \in Biz, BizThread(b) PROVE ListsFor(S)'
  <2>1. b \in Worker /\ b \notin Data
    BY Workers
  <2>2. CASE Sweep(b)
    BY <2>1, <2>2 DEF Sweep, Waits, WorkerStates
  <2>3. CASE BizTake(b)
    <3>1. ListsOf(S, [queue EXCEPT ![b] = << >>])
      BY <2>1, PutOK, EmptyOK
    <3>2. ListsOf(S, [list EXCEPT ![b] = queue[b]])
      BY <2>1, PutOK DEF ListsOf
    <3>. QED
      BY <2>1, <2>3, <3>1, <3>2, MoveOK DEF BizTake, ListsOf, WorkerStates
  <2>4. CASE CallbackBegin(b)
    BY <2>1, <2>4 DEF CallbackBegin, Waits, WorkerStates
  <2>5. CASE CallbackEnd(b)
    BY <2>1, <2>5 DEF CallbackEnd, Waits, WorkerStates
  <2>. QED
    BY <1>9, <2>2, <2>3, <2>4, <2>5 DEF BizThread
<1>10. ASSUME NEW w \in Worker, EventEnd(w) PROVE ListsFor(S)'
  <2>1. CASE CloseUnbind(w)
    BY <2>1 DEF CloseUnbind, Waits, WorkerStates
  <2>2. CASE ClosePost(w)
    <3>1. InHand(w) \in S
      BY <2>2, InHandOf DEF ClosePost, Waits
    <3>2. ListsOf(S, queue')
      BY <2>2, <3>1, AppendOK DEF ClosePost, BizKinds
    <3>. QED
      BY <2>2, <3>2 DEF ClosePost, Waits, WorkerStates
  <2>3. CASE Deref(w) \/ CheckUnheld(w) \/ WorkerEnd(w)
    BY <2>3 DEF Deref, CheckUnheld, WorkerEnd, Waits, WorkerStates
  <2>4. CASE CheckHeld(w) \/ Remove(w)
    <3>1. NextEvent(w) /\ ~ Waits(w) /\ UNCHANGED <<queue, batch>>
      BY <2>4 DEF CheckHeld, Remove, Waits
    <3>. QED
      BY <3>1, NextEventOK
  <2>. QED
    BY <1>10, <2>1, <2>2, <2>3, <2>4 DEF EventEnd
<1>. QED
  BY <1>1, <1>2, <1>3, <1>4, <1>5, <1>6, <1>7, <1>8, <1>9, <1>10, ListsMoves

(* Every step keeps the events inside the allocated connections, of which  *)
(* there may be one more.                                                  *)
LEMMA ListsStep ==
  ASSUME NamesInv, Next
  PROVE  ListsOK'
<1>1. PICK S : S = Born'
  OBVIOUS
<1>2. Born \subseteq S /\ S \subseteq Conn
  BY <1>1, SetsStep DEF Born
<1>3. ListsFor(S)
  <2>1. ListsOf(S, queue) /\ ListsOf(S, list)
    BY <1>2, ListsGrow DEF NamesInv, ListsOK, ListsFor
  <2>2. batch \in [Data -> Seq(EventsOf(S, DataKinds))]
    <3>1. Seq(EventsOf(Born, DataKinds)) \subseteq Seq(EventsOf(S, DataKinds))
      BY <1>2, SeqGrows
    <3>. QED
      BY <3>1 DEF NamesInv, ListsOK, ListsFor
  <2>. QED
    BY <2>1, <2>2 DEF NamesInv, ListsOK, ListsFor
<1>4. /\ uniq \in [Conn -> Nat] /\ normal \subseteq S
      /\ cpc = "notify" => newcomer \in S
      /\ \A c \in Requester : apc[c] = "notify" => c \in S
      /\ \A c \in Closeable : closer[c] = "post" => c \in S
  BY <1>2 DEF NamesInv, SetsOK, ActorsOK
<1>5. ListsFor(S)'
  BY <1>2, <1>3, <1>4, ListsStepIn
<1>. QED
  BY <1>1, <1>5 DEF ListsOK, ListsFor, ListsOf

(* The invariant is inductive.                                             *)
LEMMA NamesStep == NamesInv /\ [Next]_vars => NamesInv'
<1> SUFFICES ASSUME NamesInv, [Next]_vars PROVE NamesInv'
  OBVIOUS
<1>1. CASE Next
  BY <1>1, SetsStep, ActorsStep, ListsStep DEF NamesInv
<1>2. CASE UNCHANGED vars
  <2>1. UNCHANGED <<life, normal, closed, binded, uniq, cpc, newcomer, apc, closer>>
    BY <1>2 DEF vars
  <2>2. UNCHANGED <<queue, list, batch, pc>>
    BY <1>2 DEF vars
  <2>3. SetsOK' /\ ActorsOK' /\ Tracked'
    BY <2>1 DEF NamesInv, SetsOK, ActorsOK, Tracked, Born
  <2>4. ListsOK'
    BY <2>1, <2>2 DEF NamesInv, ListsOK, ListsFor, ListsOf, Born, Waits
  <2>. QED
    BY <2>3, <2>4 DEF NamesInv
<1>. QED
  BY <1>1, <1>2

(* A connection that is allocated and not freed is in exactly one of the   *)
(* normal set and the closed set, after any interleaving of do_accept,     *)
(* do_connect, remove_connection and destroy_invalid_connections           *)
(* (reactor.cpp): destroy_invalid_connections or exit() finds it, once.    *)
THEOREM ConnectionsTracked == Spec => []Tracked
<1>1. NamesInv => Tracked
  BY DEF NamesInv
<1>. QED
  BY <1>1, InitNames, NamesStep, PTL DEF Spec

-----------------------------------------------------------------------------
(* The places of a list that carry the close of c.                         *)
Closings(s, c) == {i \in 1 .. Len(s) : s[i] = Event(c, "close")}

(* The close of c waits in a business list.                                *)
QueueTokens(q, c) == UNION {{<<"queue", b, i>> : i \in Closings(q[b], c)} : b \in Biz}
(* It was taken by a business thread, and its callback did not begin.      *)
ListTokens(l, p, c) ==
  UNION {{<<"list", b, i>> : i \in {j \in Closings(l[b], c) : j > 1 \/ p[b] = "run"}}
           : b \in Biz}
(* A worker unbound c in close_connection and has not posted the close.    *)
PostTokens(l, p, c) ==
  {<<"post", w, 0>> : w \in {v \in Worker : p[v] = "post" /\ Head(l[v]).conn = c}}
(* A thread of the application did so.                                     *)
AppTokens(k, c) == {<<"app", None, 0>> : d \in {e \in Closeable : e = c /\ k[e] = "post"}}

(* Everything that leads to a close callback of c, as tokens <<place,      *)
(* owner, index>>.                                                         *)
TokensIn(q, l, p, k, c) ==
  QueueTokens(q, c) \cup ListTokens(l, p, c) \cup PostTokens(l, p, c) \cup AppTokens(k, c)

(* The tokens of the current state.                                        *)
Tokens(c) == TokensIn(queue, list, pc, closer, c)

(* The connections that may still be bound: delete_connection_from_reactor *)
(* has had nothing to take them out of.                                    *)
Fresh == {c \in Conn : \/ life[c] = "unborn"
                       \/ cpc = "bind" /\ newcomer = c
                       \/ c \in Requester /\ apc[c] \in {"idle", "add", "bind"}}

(* A connection goes from fresh to bound, from bound to one token, and     *)
(* from the token to one close callback: it is never at two of these       *)
(* stages at once.                                                         *)
CloseOK(c) ==
  /\ closes[c] \in {0, 1}
  /\ \A x, y \in Tokens(c) : x = y
  /\ Tokens(c) # {} => closes[c] = 0 /\ c \notin binded /\ c \notin Fresh
  /\ c \in binded => closes[c] = 0 /\ c \notin Fresh
  /\ c \in Fresh => closes[c] = 0

(* The inductive invariant behind CloseOnce, which by itself says nothing  *)
(* of the closes on their way.                                             *)
CloseInv == closes \in [Conn -> Nat] /\ \A c \in Conn : CloseOK(c)

(* What a token is.                                                        *)
LEMMA InTokens ==
  ASSUME NEW q, NEW l, NEW p, NEW k, NEW c, NEW x
  PROVE  x \in TokensIn(q, l, p, k, c) <=>
           \/ \E b \in Biz : \E i \in Closings(q[b], c) : x = <<"queue", b, i>>
           \/ \E b \in Biz : \E i \in Closings(l[b], c) :
                x = <<"list", b, i>> /\ (i > 1 \/ p[b] = "run")
           \/ \E w \in Worker : p[w] = "post" /\ Head(l[w]).conn = c /\ x = <<"post", w, 0>>
           \/ c \in Closeable /\ k[c] = "post" /\ x = <<"app", None, 0>>
<1>1. x \in QueueTokens(q, c)
        <=> \E b \in Biz : \E i \in Closings(q[b], c) : x = <<"queue", b, i>>
  BY DEF QueueTokens
<1>2. x \in ListTokens(l, p, c)
        <=> \E b \in Biz : \E i \in Closings(l[b], c) :
              x = <<"list", b, i>> /\ (i > 1 \/ p[b] = "run")
  BY DEF ListTokens
<1>3. x \in PostTokens(l, p, c)
        <=> \E w \in Worker : p[w] = "post" /\ Head(l[w]).conn = c /\ x = <<"post", w, 0>>
  BY DEF PostTokens
<1>4. x \in AppTokens(k, c) <=> c \in Closeable /\ k[c] = "post" /\ x = <<"app", None, 0>>
  BY DEF AppTokens
<1>. QED
  BY <1>1, <1>2, <1>3, <1>4 DEF TokensIn

(* When no token can have been made.                                       *)
LEMMA TokensKept ==
  ASSUME NEW q, NEW l, NEW p, NEW k, NEW q2, NEW l2, NEW p2, NEW k2, NEW c,
         \A b \in Biz : Closings(q2[b], c) \subseteq Closings(q[b], c),
         \A b \in Biz : \A i \in Closings(l2[b], c) :
           i > 1 \/ p2[b] = "run" => i \in Closings(l[b], c) /\ (i > 1 \/ p[b] = "run"),
         \A w \in Worker : p2[w] = "post" /\ Head(l2[w]).conn = c
                             => p[w] = "post" /\ Head(l[w]).conn = c,
         c \in Closeable /\ k2[c] = "post" => k[c] = "post"
  PROVE  TokensIn(q2, l2, p2, k2, c) \subseteq TokensIn(q, l, p, k, c)
<1>1. SUFFICES ASSUME NEW x \in TokensIn(q2, l2, p2, k2, c)
               PROVE  x \in TokensIn(q, l, p, k, c)
  OBVIOUS
<1>2. \/ \E b \in Biz : \E i \in Closings(q2[b], c) : x = <<"queue", b, i>>
      \/ \E b \in Biz : \E i \in Closings(l2[b], c) :
           x = <<"list", b, i>> /\ (i > 1 \/ p2[b] = "run")
      \/ \E w \in Worker : p2[w] = "post" /\ Head(l2[w]).conn = c /\ x = <<"post", w, 0>>
      \/ c \in Closeable /\ k2[c] = "post" /\ x = <<"app", None, 0>>
  BY <1>1, InTokens
<1>3. \/ \E b \in Biz : \E i \in Closings(q[b], c) : x = <<"queue", b, i>>
      \/ \E b \in Biz : \E i \in Closings(l[b], c) :
           x = <<"list", b, i>> /\ (i > 1 \/ p[b] = "run")
      \/ \E w \in Worker : p[w] = "post" /\ Head(l[w]).conn = c /\ x = <<"post", w, 0>>
      \/ c \in Closeable /\ k[c] = "post" /\ x = <<"app", None, 0>>
  BY <1>2
<1>. QED
  BY <1>3, InTokens

(* No connection is being closed at the start.                             *)
LEMMA InitCloses == Init => CloseInv
<1> SUFFICES ASSUME Init PROVE CloseInv
  OBVIOUS
<1>1. ASSUME NEW c \in Conn PROVE Tokens(c) = {}
  <2>1. \A b \in Biz : Closings(queue[b], c) = {} /\ Closings(list[b], c) = {}
    BY Workers DEF Init, Closings
  <2>2. (\A w \in Worker : pc[w] # "post") /\ (\A d \in Closeable : closer[d] # "post")
    BY DEF Init
  <2>3. ASSUME NEW x \in TokensIn(queue, list, pc, closer, c) PROVE FALSE
    BY <2>1, <2>2, <2>3, InTokens
  <2>4. Tokens(c) = {}
    BY <2>3 DEF Tokens
  <2>. QED
    BY <2>4
<1>. QED
  BY <1>1 DEF Init, CloseInv, CloseOK

(* No connection becomes fresh again, and only a fresh one is bound.       *)
LEMMA FreshStep ==
  ASSUME NamesInv, Next
  PROVE  /\ Fresh' \subseteq Fresh
         /\ \A c \in Conn : c \in binded' => c \in binded \/ (c \in Fresh /\ c \notin Fresh')
<1>. USE ReactorAssumption DEF NamesInv
<1>0. /\ \A c \in Conn : life'[c] = "unborn" => life[c] = "unborn"
      /\ ActorsOK' /\ SetsOK'
  BY SetsStep, ActorsStep DEF Born, SetsOK
<1>1. Fresh' \subseteq Fresh
  <2>1. CASE UNCHANGED <<life, cpc, newcomer, apc, closer>>
    BY <2>1 DEF Fresh
  <2>2. CASE ConnectionThread
    <3>. USE <1>0 DEF Fresh, ActorsOK, Accepted
    <3>1. ASSUME NEW c \in Conn, AcceptInsert(c) PROVE Fresh' \subseteq Fresh
      BY <3>1, ActorsMoves DEF AcceptInsert, Insert
    <3>2. CASE AcceptBind
      BY <3>2 DEF AcceptBind
    <3>3. CASE Poll \/ Publish \/ AcceptRefused \/ AcceptNotify \/ AcceptDone
               \/ ConnectionThreadEnd
      BY <3>3 DEF Poll, Publish, AcceptRefused, AcceptNotify, AcceptDone, ConnectionThreadEnd
    <3>4. ASSUME NEW c \in Conn, Dispatch(c) PROVE Fresh' \subseteq Fresh
      BY <3>4 DEF Dispatch
    <3>. QED
      BY <2>2, <3>1, <3>2, <3>3, <3>4 DEF ConnectionThread
  <2>3. ASSUME NEW c \in Requester, ConnectInsert(c) PROVE Fresh' \subseteq Fresh
    BY <1>0, <2>3 DEF ConnectInsert, Insert, Fresh, ActorsOK
  <2>4. ASSUME NEW c \in Requester, RequesterThread(c) PROVE Fresh' \subseteq Fresh
    BY <1>0, <2>4 DEF RequesterThread, ConnectAdd, ConnectRefused, ConnectBind, ConnectNotify,
         ActorsOK, Fresh
  <2>5. ASSUME NEW c \in Closeable, AppClose(c) \/ AppPost(c) PROVE Fresh' \subseteq Fresh
    BY <1>0, <2>5 DEF AppClose, AppPost, Fresh
  <2>6. CASE Destroy
    BY <1>0, <2>6 DEF Destroy, Fresh
  <2>7. ASSUME NEW b \in Biz, Sweep(b) PROVE Fresh' \subseteq Fresh
    BY <1>0, <2>7 DEF Sweep, Fresh
  <2>. QED
    BY <2>1, <2>2, <2>3, <2>4, <2>5, <2>6, <2>7, ActorsMoves
<1>2. ASSUME NEW c \in Conn, c \in binded', c \notin binded
      PROVE  c \in Fresh /\ c \notin Fresh'
  <2>1. CASE AcceptBind
    <3>1. c = newcomer
      <4>1. newcomer \in Conn /\ Bind(newcomer)
        BY <2>1 DEF AcceptBind, ActorsOK, Accepted
      <4>. QED
        BY <1>2, <4>1, BindOK DEF SetsOK
    <3>. QED
      BY <1>0, <2>1, <3>1 DEF AcceptBind, Fresh, ActorsOK, Accepted, Born
  <2>2. ASSUME NEW d \in Requester, ConnectBind(d) PROVE c \in Fresh /\ c \notin Fresh'
    <3>1. c = d
      BY <1>2, <2>2, BindOK DEF ConnectBind, SetsOK, ActorsOK
    <3>. QED
      BY <1>0, <2>2, <3>1 DEF ConnectBind, Fresh, ActorsOK, Accepted, Born
  <2>3. binded' \subseteq binded \/ AcceptBind \/ \E d \in Requester : ConnectBind(d)
    BY SetsMoves DEF AcceptRefused, Destroy, AcceptInsert, ConnectInsert, ConnectRefused,
         AppClose, Sweep, CloseUnbind, Remove, Unbind
  <2>. QED
    BY <1>2, <2>1, <2>2, <2>3
<1>. QED
  BY <1>1, <1>2

-----------------------------------------------------------------------------
(* A step that leads to the tokens of c from the ones it had keeps         *)
(* CloseOK.                                                                *)
LEMMA TokensFollow ==
  ASSUME NamesInv, CloseInv, Next, NEW c \in Conn, closes'[c] = closes[c],
         \A x, y \in Tokens(c)' : x = y,
         Tokens(c)' # {} => Tokens(c) # {}
  PROVE  CloseOK(c)'
<1>1. Fresh' \subseteq Fresh /\ (c \in binded' => c \in binded \/ (c \in Fresh /\ c \notin Fresh'))
  BY FreshStep
<1>2. CloseOK(c)
  BY DEF CloseInv
<1>. QED
  BY <1>1, <1>2 DEF CloseOK

(* So does one that makes no token at all.                                 *)
LEMMA TokensStay ==
  ASSUME NamesInv, CloseInv, Next, closes' = closes,
         \A c \in Conn : Tokens(c)' \subseteq Tokens(c)
  PROVE  CloseInv'
<1>1. ASSUME NEW c \in Conn PROVE CloseOK(c)'
  <2>1. \A x, y \in Tokens(c)' : x = y
    BY DEF CloseInv, CloseOK
  <2>. QED
    BY <2>1, TokensFollow
<1>. QED
  BY <1>1 DEF CloseInv

(* append_business_event adds at most the close it was called with.        *)
LEMMA AppendClosings ==
  ASSUME NamesInv, NEW d \in Conn, NEW k \in BizKinds, AppendBusiness(d, k),
         NEW c \in Conn, NEW b \in Biz, NEW i \in Closings(queue'[b], c)
  PROVE  \/ i \in Closings(queue[b], c)
         \/ c = d /\ k = "close" /\ b = BizOf(d) /\ i = Len(queue[b]) + 1
<1>1. BizOf(d) \in Biz
  BY OwnLists DEF NamesInv, SetsOK
<1>2. queue = [w \in Worker |-> queue[w]] /\ queue[b] \in Seq(EventsOf(Born, BizKinds))
  BY DEF NamesInv, ListsOK, ListsFor, ListsOf
<1>3. CASE queue' = queue
  BY <1>3
<1>4. CASE queue' = [queue EXCEPT ![BizOf(d)] = Append(@, Event(d, k))]
  <2>1. CASE b # BizOf(d)
    BY <1>2, <1>4, <2>1, Workers DEF Closings
  <2>2. CASE b = BizOf(d)
    <3>1. queue'[b] = Append(queue[b], Event(d, k))
      BY <1>2, <1>4, <2>2, Workers
    <3> DEFINE q == queue[b]
               e == Event(d, k)
    <3>2. q \in Seq(EventsOf(Born, BizKinds)) /\ i \in 1 .. Len(Append(q, e))
          /\ Append(q, e)[i] = Event(c, "close")
      BY <1>2, <3>1 DEF Closings
    <3> HIDE DEF q, e
    <3>3. /\ Len(Append(q, e)) = Len(q) + 1
          /\ i \in 1 .. Len(q) => Append(q, e)[i] = q[i]
          /\ i = Len(q) + 1 => Append(q, e)[i] = e
      BY <3>2
    <3>4. i \in 1 .. Len(q) \/ i = Len(q) + 1
      BY <3>2, <3>3
    <3>5. CASE i \in 1 .. Len(q)
      BY <3>2, <3>3, <3>5 DEF Closings, q
    <3>6. CASE i = Len(q) + 1
      <4>1. Event(d, k) = Event(c, "close")
        BY <3>2, <3>3, <3>6 DEF e
      <4>2. d = c /\ k = "close"
        BY <4>1 DEF Event
      <4>. QED
        BY <2>2, <3>6, <4>2 DEF q
    <3>. QED
      BY <3>4, <3>5, <3>6
  <2>. QED
    BY <2>1, <2>2
<1>. QED
  BY <1>3, <1>4 DEF AppendBusiness

(* Nothing of the tokens changes when only events other than close are     *)
(* appended and no thread begins to post.                                  *)
LEMMA QueueOnly ==
  ASSUME NamesInv, CloseInv, Next, closes' = closes,
         \A c \in Conn : \A b \in Biz : Closings(queue'[b], c) \subseteq Closings(queue[b], c),
         \A b \in Biz : list'[b] = list[b] /\ (pc'[b] = "run" => pc[b] = "run"),
         \A w \in Worker : pc'[w] = "post" => pc[w] = "post" /\ list'[w] = list[w],
         \A d \in Closeable : closer'[d] = "post" => closer[d] = "post"
  PROVE  CloseInv'
<1>1. ASSUME NEW c \in Conn PROVE Tokens(c)' \subseteq Tokens(c)
  <2>1. TokensIn(queue', list', pc', closer', c) \subseteq TokensIn(queue, list, pc, closer, c)
    BY TokensKept
  <2>. QED
    BY <2>1 DEF Tokens
<1>. QED
  BY <1>1, TokensStay

(* Appending any event other than close makes no token.                    *)
LEMMA NotClose ==
  ASSUME NamesInv, CloseInv, Next, NEW d \in Conn, NEW k \in BizKinds \ {"close"},
         AppendBusiness(d, k) \/ UNCHANGED <<queue, refs>>,
         UNCHANGED <<list, closer, closes>>,
         \A w \in Worker : pc'[w] \in {"run", "post"} => pc'[w] = pc[w]
  PROVE  CloseInv'
<1>1. \A c \in Conn : \A b \in Biz : Closings(queue'[b], c) \subseteq Closings(queue[b], c)
  BY AppendClosings
<1>. QED
  BY <1>1, QueueOnly, Workers

(* The token of a thread that posts the close of d moves into the list of  *)
(* events of d.                                                            *)
LEMMA PostMoves ==
  ASSUME NamesInv, CloseInv, Next, NEW d \in Conn, AppendBusiness(d, "close"),
         UNCHANGED <<list, closes>>, NEW x0 \in Tokens(d),
         \A w \in Worker : pc'[w] \in {"run", "post"} => pc'[w] = pc[w],
         \A c \in Closeable : closer'[c] = "post" => closer[c] = "post",
         x0[1] # "queue", x0 \notin TokensIn(queue, list', pc', closer', d)
  PROVE  CloseInv'
<1>1. ASSUME NEW c \in Conn, c # d PROVE CloseOK(c)'
  <2>1. \A b \in Biz : Closings(queue'[b], c) \subseteq Closings(queue[b], c)
    BY <1>1, AppendClosings DEF BizKinds
  <2>2. TokensIn(queue', list', pc', closer', c) \subseteq TokensIn(queue, list, pc, closer, c)
    BY <2>1, TokensKept, Workers
  <2>3. \A x, y \in Tokens(c) : x = y
    BY DEF CloseInv, CloseOK
  <2>. QED
    BY <2>2, <2>3, TokensFollow DEF Tokens
<1>2. CloseOK(d)'
  <2> DEFINE new == <<"queue", BizOf(d), Len(queue[BizOf(d)]) + 1>>
  <2>1. \A x \in Tokens(d) : x = x0
    BY DEF CloseInv, CloseOK
  <2>2. ASSUME NEW x \in Tokens(d)' PROVE x = new
    <3>0. x \in TokensIn(queue', list', pc', closer', d)
      BY <2>2 DEF Tokens
    <3>1. CASE \E b \in Biz : \E i \in Closings(queue'[b], d) : x = <<"queue", b, i>>
      <4>0. PICK b \in Biz : \E i \in Closings(queue'[b], d) : x = <<"queue", b, i>>
        BY <3>1
      <4>1. PICK i \in Closings(queue'[b], d) : x = <<"queue", b, i>>
        BY <4>0
      <4>2. CASE i \in Closings(queue[b], d)
        <5>1. x \in TokensIn(queue, list, pc, closer, d)
          BY <4>1, <4>2, InTokens
        <5>2. x = x0
          BY <2>1, <5>1 DEF Tokens
        <5>. QED
          BY <4>1, <5>2
      <4>3. CASE b = BizOf(d) /\ i = Len(queue[b]) + 1
        BY <4>1, <4>3
      <4>. QED
        BY <4>2, <4>3, AppendClosings DEF BizKinds
    <3>2. CASE ~ \E b \in Biz : \E i \in Closings(queue'[b], d) : x = <<"queue", b, i>>
      <4>1. \/ \E b \in Biz : \E i \in Closings(list'[b], d) :
                 x = <<"list", b, i>> /\ (i > 1 \/ pc'[b] = "run")
            \/ \E w \in Worker :
                 pc'[w] = "post" /\ Head(list'[w]).conn = d /\ x = <<"post", w, 0>>
            \/ d \in Closeable /\ closer'[d] = "post" /\ x = <<"app", None, 0>>
        BY <3>0, <3>2, InTokens
      <4>2. x \in TokensIn(queue, list', pc', closer', d)
        BY <4>1, InTokens
      <4>3. x \in TokensIn(queue, list, pc, closer, d)
        BY <4>2, TokensKept, Workers
      <4>. QED
        BY <2>1, <4>2, <4>3 DEF Tokens
    <3>. QED
      BY <3>1, <3>2
  <2>. QED
    BY <2>2, TokensFollow
<1>. QED
  BY <1>1, <1>2 DEF CloseInv

(* A thread that unbinds d makes the first token of d.                     *)
LEMMA TokenBorn ==
  ASSUME NamesInv, CloseInv, Next, UNCHANGED <<closes, queue, list>>,
         NEW d \in Conn, d \in binded, d \notin binded',
         NEW new, \A c \in Conn : Tokens(c)' \subseteq Tokens(c) \cup (IF c = d THEN {new} ELSE {})
  PROVE  CloseInv'
<1>1. ASSUME NEW c \in Conn, c # d PROVE CloseOK(c)'
  <2>1. Tokens(c)' \subseteq Tokens(c) /\ \A x, y \in Tokens(c) : x = y
    BY <1>1 DEF CloseInv, CloseOK
  <2>. QED
    BY <2>1, TokensFollow
<1>2. CloseOK(d)'
  <2>1. Tokens(d) = {} /\ closes[d] = 0 /\ d \notin Fresh
    BY DEF CloseInv, CloseOK
  <2>2. Tokens(d)' \subseteq {new} /\ closes'[d] = 0 /\ d \notin Fresh'
    BY <2>1, FreshStep
  <2>. QED
    BY <2>2 DEF CloseOK
<1>. QED
  BY <1>1, <1>2 DEF CloseInv

(* The next event of a list: the places of the tokens that wait behind it  *)
(* move up by one.                                                         *)
LEMMA NextEventMoves ==
  ASSUME NamesInv, CloseInv, Next, NEW w \in Worker, ~ Waits(w), pc[w] # "run", pc[w] # "post",
         NextEvent(w), UNCHANGED <<queue, closer, closes>>, NEW c \in Conn
  PROVE  CloseOK(c)'
<1>0. /\ list = [v \in Worker |-> list[v]] /\ pc \in [Worker -> WorkerStates]
      /\ \A b \in Biz : list[b] \in Seq(EventsOf(Born, BizKinds))
      /\ list[w] # << >>
  BY DEF NamesInv, ListsOK, ListsFor, ListsOf
<1>1. /\ \A v \in Worker \ {w} : list'[v] = list[v] /\ pc'[v] = pc[v]
      /\ list'[w] = Tail(list[w]) /\ pc'[w] \in {"idle", "run"}
  BY <1>0 DEF NextEvent
<1>2. ASSUME NEW i \in Closings(Tail(list[w]), c), w \in Biz
      PROVE  i + 1 \in Closings(list[w], c) /\ i + 1 > 1 /\ i \in Nat
  <2>1. /\ list[w] \in Seq(EventsOf(Born, BizKinds)) /\ list[w] # << >>
        /\ Len(Tail(list[w])) = Len(list[w]) - 1 /\ Len(list[w]) \in Nat \ {0}
        /\ i \in 1 .. Len(Tail(list[w])) /\ Tail(list[w])[i] = Event(c, "close")
    <3>1. list[w] \in Seq(EventsOf(Born, BizKinds)) /\ list[w] # << >>
      BY <1>0, <1>2
    <3>2. Len(Tail(list[w])) = Len(list[w]) - 1 /\ Len(list[w]) \in Nat \ {0}
      BY <3>1, HeadTailProperties
    <3>3. i \in 1 .. Len(Tail(list[w])) /\ Tail(list[w])[i] = Event(c, "close")
      BY <1>2 DEF Closings
    <3>. QED
      BY <3>1, <3>2, <3>3
  <2>2. Tail(list[w])[i] = list[w][i + 1]
    BY <2>1
  <2>3. i + 1 \in 1 .. Len(list[w]) /\ i + 1 > 1 /\ i \in Nat
    BY <2>1
  <2>. QED
    BY <2>1, <2>2, <2>3 DEF Closings
<1>3. \A x, y \in Tokens(c) : x = y
  BY DEF CloseInv, CloseOK
<1>4. ASSUME NEW x \in Tokens(c)'
      PROVE  \/ x \in Tokens(c) /\ ~ (x[1] = "list" /\ x[2] = w)
             \/ \E i \in Nat : x = <<"list", w, i>> /\ <<"list", w, i + 1>> \in Tokens(c)
  <2>1. x \in TokensIn(queue, list', pc', closer, c)
    BY <1>4 DEF Tokens
  <2>2. CASE \E b \in Biz : \E i \in Closings(queue[b], c) : x = <<"queue", b, i>>
    BY <2>2, InTokens DEF Tokens
  <2>3. CASE \E b \in Biz : \E i \in Closings(list'[b], c) :
               x = <<"list", b, i>> /\ (i > 1 \/ pc'[b] = "run")
    <3>1. PICK b \in Biz : \E i \in Closings(list'[b], c) :
            x = <<"list", b, i>> /\ (i > 1 \/ pc'[b] = "run")
      BY <2>3
    <3>2. PICK i \in Closings(list'[b], c) : x = <<"list", b, i>> /\ (i > 1 \/ pc'[b] = "run")
      BY <3>1
    <3>3. CASE b = w
      <4>1. i + 1 \in Closings(list[w], c) /\ i + 1 > 1 /\ i \in Nat
        BY <1>1, <1>2, <3>2, <3>3
      <4>2. <<"list", w, i + 1>> \in TokensIn(queue, list, pc, closer, c)
        BY <3>3, <4>1, InTokens
      <4>. QED
        BY <3>2, <3>3, <4>1, <4>2 DEF Tokens
    <3>4. CASE b # w
      <4>1. list'[b] = list[b] /\ pc'[b] = pc[b]
        BY <1>1, <3>4, Workers
      <4>2. x \in TokensIn(queue, list, pc, closer, c)
        BY <3>2, <4>1, InTokens
      <4>. QED
        BY <3>2, <3>4, <4>2 DEF Tokens
    <3>. QED
      BY <3>3, <3>4
  <2>4. CASE \E v \in Worker : pc'[v] = "post" /\ Head(list'[v]).conn = c /\ x = <<"post", v, 0>>
    <3>1. PICK v \in Worker : pc'[v] = "post" /\ Head(list'[v]).conn = c /\ x = <<"post", v, 0>>
      BY <2>4
    <3>2. v # w
      BY <1>1, <3>1
    <3>3. pc[v] = "post" /\ Head(list[v]).conn = c
      BY <1>1, <3>1, <3>2
    <3>4. x \in TokensIn(queue, list, pc, closer, c)
      BY <3>1, <3>3, InTokens
    <3>. QED
      BY <3>1, <3>4 DEF Tokens
  <2>5. CASE c \in Closeable /\ closer[c] = "post" /\ x = <<"app", None, 0>>
    BY <2>5, InTokens DEF Tokens
  <2>6. \/ \E b \in Biz : \E i \in Closings(queue[b], c) : x = <<"queue", b, i>>
        \/ \E b \in Biz : \E i \in Closings(list'[b], c) :
             x = <<"list", b, i>> /\ (i > 1 \/ pc'[b] = "run")
        \/ \E v \in Worker :
             pc'[v] = "post" /\ Head(list'[v]).conn = c /\ x = <<"post", v, 0>>
        \/ c \in Closeable /\ closer[c] = "post" /\ x = <<"app", None, 0>>
    BY <2>1, InTokens
  <2>. QED
    BY <2>2, <2>3, <2>4, <2>5, <2>6
<1>5. ASSUME NEW x \in Tokens(c)', NEW y \in Tokens(c)' PROVE x = y
  <2>1. ASSUME NEW z \in Tokens(c), ~ (z[1] = "list" /\ z[2] = w),
               NEW j \in Nat, <<"list", w, j + 1>> \in Tokens(c)
        PROVE  FALSE
    <3>1. z = <<"list", w, j + 1>>
      BY <1>3, <2>1
    <3>. QED
      BY <2>1, <3>1
  <2>2. CASE x \in Tokens(c) /\ ~ (x[1] = "list" /\ x[2] = w)
    BY <1>3, <1>4, <2>1, <2>2
  <2>3. CASE \E i \in Nat : x = <<"list", w, i>> /\ <<"list", w, i + 1>> \in Tokens(c)
    <3>1. PICK i \in Nat : x = <<"list", w, i>> /\ <<"list", w, i + 1>> \in Tokens(c)
      BY <2>3
    <3>2. PICK j \in Nat : y = <<"list", w, j>> /\ <<"list", w, j + 1>> \in Tokens(c)
      BY <1>4, <2>1, <3>1
    <3>3. <<"list", w, i + 1>> = <<"list", w, j + 1>>
      BY <1>3, <3>1, <3>2
    <3>4. i + 1 = j + 1
      BY <3>3
    <3>. QED
      BY <3>1, <3>2, <3>4
  <2>. QED
    BY <1>4, <2>2, <2>3
<1>. QED
  BY <1>4, <1>5, TokensFollow

(* Taking the whole list of events moves its tokens along with it.         *)
LEMMA TakeMoves ==
  ASSUME NamesInv, CloseInv, Next, NEW b \in Biz, BizTake(b), NEW c \in Conn
  PROVE  CloseOK(c)'
<1>0. /\ list = [v \in Worker |-> list[v]] /\ queue = [v \in Worker |-> queue[v]]
      /\ pc \in [Worker -> WorkerStates]
  BY DEF NamesInv, ListsOK, ListsFor, ListsOf
<1>1. /\ \A v \in Worker \ {b} : list'[v] = list[v] /\ pc'[v] = pc[v] /\ queue'[v] = queue[v]
      /\ list'[b] = queue[b] /\ queue'[b] = << >> /\ pc'[b] \in {"idle", "run"}
      /\ UNCHANGED <<closer, closes>>
  BY <1>0, Workers DEF BizTake
<1>2. \A x, y \in Tokens(c) : x = y
  BY DEF CloseInv, CloseOK
<1>3. ASSUME NEW x \in Tokens(c)'
      PROVE  \/ x \in Tokens(c) /\ ~ (x[1] = "queue" /\ x[2] = b)
             \/ \E i \in Nat : x = <<"list", b, i>> /\ <<"queue", b, i>> \in Tokens(c)
  <2>1. x \in TokensIn(queue', list', pc', closer, c)
    BY <1>1, <1>3 DEF Tokens
  <2>2. ASSUME NEW v \in Biz, NEW i \in Closings(queue'[v], c), x = <<"queue", v, i>>
        PROVE  x \in Tokens(c) /\ ~ (x[1] = "queue" /\ x[2] = b)
    <3>1. v # b
      BY <1>1, <2>2 DEF Closings
    <3>2. i \in Closings(queue[v], c)
      BY <1>1, <2>2, <3>1, Workers
    <3>3. x \in TokensIn(queue, list, pc, closer, c)
      BY <2>2, <3>2, InTokens
    <3>. QED
      BY <2>2, <3>1, <3>3 DEF Tokens
  <2>3. ASSUME NEW v \in Biz, NEW i \in Closings(list'[v], c),
               x = <<"list", v, i>>, i > 1 \/ pc'[v] = "run", v = b
        PROVE  \E j \in Nat : x = <<"list", b, j>> /\ <<"queue", b, j>> \in Tokens(c)
    <3>1. i \in Closings(queue[b], c) /\ i \in Nat
      BY <1>1, <2>3 DEF Closings
    <3>2. <<"queue", b, i>> \in TokensIn(queue, list, pc, closer, c)
      BY <3>1, InTokens
    <3>. QED
      BY <2>3, <3>1, <3>2 DEF Tokens
  <2>4. ASSUME NEW v \in Biz, NEW i \in Closings(list'[v], c),
               x = <<"list", v, i>>, i > 1 \/ pc'[v] = "run", v # b
        PROVE  x \in Tokens(c) /\ ~ (x[1] = "queue" /\ x[2] = b)
    <3>1. i \in Closings(list[v], c) /\ (i > 1 \/ pc[v] = "run")
      BY <1>1, <2>4, Workers
    <3>2. x \in TokensIn(queue, list, pc, closer, c)
      BY <2>4, <3>1, InTokens
    <3>. QED
      BY <2>4, <3>2 DEF Tokens
  <2>5. ASSUME NEW v \in Worker, pc'[v] = "post", Head(list'[v]).conn = c, x = <<"post", v, 0>>
        PROVE  x \in Tokens(c) /\ ~ (x[1] = "queue" /\ x[2] = b)
    <3>1. v # b /\ pc[v] = "post" /\ Head(list[v]).conn = c
      BY <1>1, <2>5
    <3>2. x \in TokensIn(queue, list, pc, closer, c)
      BY <2>5, <3>1, InTokens
    <3>. QED
      BY <2>5, <3>2 DEF Tokens
  <2>6. ASSUME c \in Closeable, closer[c] = "post", x = <<"app", None, 0>>
        PROVE  x \in Tokens(c) /\ ~ (x[1] = "queue" /\ x[2] = b)
    BY <2>6, InTokens DEF Tokens
  <2>7. \/ \E v \in Biz : \E i \in Closings(queue'[v], c) : x = <<"queue", v, i>>
        \/ \E v \in Biz : \E i \in Closings(list'[v], c) :
             x = <<"list", v, i>> /\ (i > 1 \/ pc'[v] = "run")
        \/ \E v \in Worker :
             pc'[v] = "post" /\ Head(list'[v]).conn = c /\ x = <<"post", v, 0>>
        \/ c \in Closeable /\ closer[c] = "post" /\ x = <<"app", None, 0>>
    BY <2>1, InTokens
  <2>. QED
    BY <2>2, <2>3, <2>4, <2>5, <2>6, <2>7
<1>4. ASSUME NEW x \in Tokens(c)', NEW y \in Tokens(c)' PROVE x = y
  <2>1. ASSUME NEW z \in Tokens(c), ~ (z[1] = "queue" /\ z[2] = b),
               NEW j \in Nat, <<"queue", b, j>> \in Tokens(c)
        PROVE  FALSE
    <3>1. z = <<"queue", b, j>>
      BY <1>2, <2>1
    <3>. QED
      BY <2>1, <3>1
  <2>2. CASE x \in Tokens(c) /\ ~ (x[1] = "queue" /\ x[2] = b)
    BY <1>2, <1>3, <2>1, <2>2
  <2>3. CASE \E i \in Nat : x = <<"list", b, i>> /\ <<"queue", b, i>> \in Tokens(c)
    <3>1. PICK i \in Nat : x = <<"list", b, i>> /\ <<"queue", b, i>> \in Tokens(c)
      BY <2>3
    <3>2. PICK j \in Nat : y = <<"list", b, j>> /\ <<"queue", b, j>> \in Tokens(c)
      BY <1>3, <2>1, <3>1
    <3>3. <<"queue", b, i>> = <<"queue", b, j>>
      BY <1>2, <3>1, <3>2
    <3>4. i = j
      BY <3>3
    <3>. QED
      BY <3>1, <3>2, <3>4
  <2>. QED
    BY <1>3, <2>2, <2>3
<1>. QED
  BY <1>1, <1>3, <1>4, TokensFollow

(* The close callback uses up the only token of its connection.            *)
LEMMA CallbackTakes ==
  ASSUME NamesInv, CloseInv, Next, NEW b \in Biz, CallbackBegin(b)
  PROVE  CloseInv'
<1>0. /\ pc \in [Worker -> WorkerStates] /\ b \in Worker /\ closes \in [Conn -> Nat]
      /\ pc[b] = "run" /\ pc' = [pc EXCEPT ![b] = "callback"]
      /\ UNCHANGED <<queue, list, closer>>
  BY Workers DEF NamesInv, ListsOK, ListsFor, CloseInv, CallbackBegin
<1>1. \A c \in Conn : Tokens(c)' \subseteq Tokens(c)
  <2>1. ASSUME NEW c \in Conn
        PROVE  TokensIn(queue', list', pc', closer', c) \subseteq TokensIn(queue, list, pc, closer, c)
    BY <1>0, TokensKept, Workers
  <2>. QED
    BY <2>1 DEF Tokens
<1>2. CASE KindInHand(b) # "close"
  BY <1>1, <1>2, TokensStay DEF CallbackBegin
<1>3. CASE KindInHand(b) = "close"
  <2>0. InHand(b) \in Conn
    BY <1>0, HeadBorn DEF Waits, NamesInv, Born
  <2>1. PICK d \in Conn : d = InHand(b) /\ closes' = [closes EXCEPT ![d] = closes[d] + 1]
    BY <1>3, <2>0 DEF CallbackBegin
  <2>2. 1 \in Closings(list[b], d)
    <3>1. list[b] \in Seq(EventsOf(Born, BizKinds)) /\ list[b] # << >>
      BY <1>0 DEF NamesInv, ListsOK, ListsFor, ListsOf, Waits
    <3>2. Head(list[b]) \in EventsOf(Born, BizKinds) /\ Head(list[b]) = list[b][1]
          /\ 1 \in 1 .. Len(list[b])
      BY <3>1
    <3>3. Head(list[b]) = Event(d, "close")
      BY <1>3, <2>1, <3>2 DEF EventsOf, Event, InHand, KindInHand
    <3>. QED
      BY <3>2, <3>3 DEF Closings
  <2>3. <<"list", b, 1>> \in TokensIn(queue, list, pc, closer, d)
    BY <1>0, <2>2, InTokens
  <2>4. <<"list", b, 1>> \notin TokensIn(queue', list', pc', closer', d)
    <3> SUFFICES ASSUME <<"list", b, 1>> \in TokensIn(queue', list', pc', closer', d)
                 PROVE  FALSE
      OBVIOUS
    <3>1. \E v \in Biz : \E i \in Closings(list'[v], d) :
            <<"list", b, 1>> = <<"list", v, i>> /\ (i > 1 \/ pc'[v] = "run")
      BY InTokens
    <3>2. pc'[b] = "callback"
      BY <1>0
    <3>. QED
      BY <3>1, <3>2
  <2>5. ASSUME NEW c \in Conn, c # d PROVE CloseOK(c)'
    <3>1. (\A x, y \in Tokens(c) : x = y) /\ closes'[c] = closes[c]
      BY <1>0, <2>1, <2>5 DEF CloseInv, CloseOK
    <3>. QED
      BY <1>1, <3>1, TokensFollow
  <2>6. CloseOK(d)'
    <3>1. /\ \A x \in Tokens(d) : x = <<"list", b, 1>>
          /\ closes[d] = 0 /\ d \notin binded /\ d \notin Fresh
      BY <2>1, <2>3 DEF CloseInv, CloseOK, Tokens
    <3>2. Tokens(d)' = {}
      BY <1>1, <2>1, <2>4, <3>1 DEF Tokens
    <3>3. closes'[d] = 1 /\ d \notin binded' /\ d \notin Fresh'
      BY <1>0, <2>1, <3>1, FreshStep
    <3>. QED
      BY <3>2, <3>3 DEF CloseOK
  <2>. QED
    BY <1>0, <2>1, <2>5, <2>6 DEF CloseInv
<1>. QED
  BY <1>2, <1>3

(* The steps that may touch a token.                                       *)
LEMMA CloseMoves ==
  ASSUME Next
  PROVE  \/ UNCHANGED <<queue, list, pc, closer, closes>>
         \/ Publish \/ AcceptNotify \/ Destroy
         \/ \E c \in Requester : ConnectNotify(c)
         \/ \E c \in Closeable : AppClose(c) \/ AppPost(c)
         \/ \E d \in Data : DataThread(d)
         \/ \E b \in Biz : BizThread(b)
         \/ \E w \in Worker : EventEnd(w)
<1>1. ConnectionThread =>
        UNCHANGED <<queue, list, pc, closer, closes>> \/ Publish \/ AcceptNotify
  BY DEF ConnectionThread, Poll, AcceptBind, AcceptRefused, AcceptDone, ConnectionThreadEnd,
         AcceptInsert, Dispatch
<1>2. \A c \in Requester : ConnectInsert(c) \/ RequesterThread(c) =>
        UNCHANGED <<queue, list, pc, closer, closes>> \/ ConnectNotify(c)
  BY DEF ConnectInsert, RequesterThread, ConnectAdd, ConnectRefused, ConnectBind
<1>3. Stop \/ Exited => UNCHANGED <<queue, list, pc, closer, closes>>
  BY DEF Stop, Exited, vars
<1>. QED
  BY <1>1, <1>2, <1>3 DEF Next

(* Every step keeps the stages of every connection.                        *)
LEMMA CloseStep ==
  ASSUME NamesInv, CloseInv, Next
  PROVE  CloseInv'
<1>0. /\ list = [v \in Worker |-> list[v]] /\ queue = [v \in Worker |-> queue[v]]
      /\ pc \in [Worker -> WorkerStates] /\ closer \in [Closeable -> {"idle", "post", "done"}]
      /\ \A w \in Worker : ~ Waits(w) => InHand(w) \in Conn
  BY HeadBorn DEF NamesInv, ListsOK, ListsFor, ListsOf, ActorsOK, Born
<1>1. CASE UNCHANGED <<queue, list, pc, closer, closes>>
  BY <1>1, QueueOnly, Workers
<1>2. CASE Publish
  BY <1>0, <1>2, QueueOnly, Workers DEF Publish
<1>3. CASE AcceptNotify
  BY <1>3, NotClose, ReactorAssumption DEF AcceptNotify, NamesInv, ActorsOK, Born, BizKinds
<1>4. ASSUME NEW c \in Requester, ConnectNotify(c) PROVE CloseInv'
  BY <1>4, NotClose, ReactorAssumption DEF ConnectNotify, BizKinds
<1>5. CASE Destroy
  <2>1. \A b \in Biz : queue'[b] = << >>
    BY <1>5, Workers DEF Destroy
  <2>. QED
    BY <1>5, <2>1, QueueOnly, Workers DEF Destroy, Closings
<1>6. ASSUME NEW d \in Data, DataThread(d) PROVE CloseInv'
  <2>0. d \in Worker /\ d \notin Biz
    BY Workers
  <2>1. CASE DataTake(d) \/ DataAbandon(d)
    BY <1>0, <2>0, <2>1, QueueOnly, Workers DEF DataTake, DataAbandon
  <2>2. CASE DataRecv(d)
    BY <1>0, <2>0, <2>2, NotClose DEF DataRecv, Waits, BizKinds
  <2>3. CASE DataSend(d)
    BY <1>0, <2>0, <2>3, NotClose DEF DataSend, Waits, BizKinds
  <2>. QED
    BY <1>6, <2>1, <2>2, <2>3 DEF DataThread
<1>7. ASSUME NEW b \in Biz, BizThread(b) PROVE CloseInv'
  <2>0. b \in Worker
    BY Workers
  <2>1. CASE Sweep(b) \/ CallbackEnd(b)
    BY <1>0, <2>0, <2>1, QueueOnly, Workers DEF Sweep, CallbackEnd
  <2>2. CASE BizTake(b)
    BY <2>2, TakeMoves DEF CloseInv, BizTake
  <2>3. CASE CallbackBegin(b)
    BY <2>3, CallbackTakes
  <2>. QED
    BY <1>7, <2>1, <2>2, <2>3 DEF BizThread
<1>8. ASSUME NEW w \in Worker, EventEnd(w) PROVE CloseInv'
  <2>1. CASE Deref(w) \/ CheckUnheld(w) \/ WorkerEnd(w)
    BY <1>0, <2>1, QueueOnly, Workers DEF Deref, CheckUnheld, WorkerEnd
  <2>2. CASE CheckHeld(w) \/ Remove(w)
    BY <2>2, NextEventMoves DEF CheckHeld, Remove, Waits, CloseInv
  <2>3. CASE ClosePost(w)
    <3>1. PICK d \in Conn : d = InHand(w)
      BY <1>0, <2>3 DEF ClosePost, Waits
    <3>2. <<"post", w, 0>> \in Tokens(d)
      BY <2>3, <3>1, InTokens DEF ClosePost, Tokens, InHand
    <3>3. <<"post", w, 0>> \notin TokensIn(queue, list', pc', closer', d)
      <4> SUFFICES ASSUME <<"post", w, 0>> \in TokensIn(queue, list', pc', closer', d)
                   PROVE  FALSE
        OBVIOUS
      <4>1. \E v \in Worker : pc'[v] = "post" /\ <<"post", w, 0>> = <<"post", v, 0>>
        BY InTokens
      <4>2. pc'[w] = "deref"
        BY <1>0, <2>3 DEF ClosePost
      <4>. QED
        BY <4>1, <4>2
    <3>. QED
      BY <1>0, <2>3, <3>1, <3>2, <3>3, PostMoves DEF ClosePost
  <2>4. CASE CloseUnbind(w)
    <3>1. PICK d \in Conn : d = InHand(w)
      BY <1>0, <2>4 DEF CloseUnbind, Waits
    <3>2. CASE d \notin binded
      BY <1>0, <2>4, <3>1, <3>2, QueueOnly, Workers DEF CloseUnbind, Unbind
    <3>3. CASE d \in binded
      <4>1. /\ UNCHANGED <<closes, queue, list, closer>> /\ d \notin binded'
            /\ pc' = [pc EXCEPT ![w] = "post"]
        BY <2>4, <3>1, <3>3 DEF CloseUnbind, Unbind
      <4>2. ASSUME NEW c \in Conn, NEW x \in Tokens(c)'
            PROVE  x \in Tokens(c) \/ (c = d /\ x = <<"post", w, 0>>)
        <5>1. x \in TokensIn(queue, list, pc', closer, c)
          BY <4>1, <4>2 DEF Tokens
        <5>2. \A v \in Worker : pc'[v] = pc[v] \/ (v = w /\ pc'[v] = "post")
          BY <1>0, <4>1
        <5>3. \/ \E b \in Biz : \E i \in Closings(queue[b], c) : x = <<"queue", b, i>>
              \/ \E b \in Biz : \E i \in Closings(list[b], c) :
                   x = <<"list", b, i>> /\ (i > 1 \/ pc'[b] = "run")
              \/ \E v \in Worker :
                   pc'[v] = "post" /\ Head(list[v]).conn = c /\ x = <<"post", v, 0>>
              \/ c \in Closeable /\ closer[c] = "post" /\ x = <<"app", None, 0>>
          BY <5>1, InTokens
        <5>4. CASE c = d /\ x = <<"post", w, 0>>
          BY <5>4
        <5>5. CASE ~ (c = d /\ x = <<"post", w, 0>>)
          <6>1. \/ \E b \in Biz : \E i \in Closings(queue[b], c) : x = <<"queue", b, i>>
                \/ \E b \in Biz : \E i \in Closings(list[b], c) :
                     x = <<"list", b, i>> /\ (i > 1 \/ pc[b] = "run")
                \/ \E v \in Worker :
                     pc[v] = "post" /\ Head(list[v]).conn = c /\ x = <<"post", v, 0>>
                \/ c \in Closeable /\ closer[c] = "post" /\ x = <<"app", None, 0>>
            BY <3>1, <5>2, <5>3, <5>5, Workers DEF InHand
          <6>. QED
            BY <6>1, InTokens DEF Tokens
        <5>. QED
          BY <5>4, <5>5
      <4>3. \A c \in Conn : Tokens(c)' \subseteq
                              Tokens(c) \cup (IF c = d THEN {<<"post", w, 0>>} ELSE {})
        BY <4>2
      <4>. QED
        BY <3>3, <4>1, <4>3, TokenBorn
    <3>. QED
      BY <3>2, <3>3
  <2>. QED
    BY <1>8, <2>1, <2>2, <2>3, <2>4 DEF EventEnd
<1>9. ASSUME NEW d \in Closeable, AppClose(d) PROVE CloseInv'
  <2>1. /\ UNCHANGED <<closes, queue, list, pc>> /\ d \in binded /\ d \notin binded'
        /\ closer' = [closer EXCEPT ![d] = "post"] /\ d \in Conn
    BY <1>9, ReactorAssumption DEF AppClose, Unbind
  <2>2. ASSUME NEW c \in Conn, NEW x \in Tokens(c)'
        PROVE  x \in Tokens(c) \/ (c = d /\ x = <<"app", None, 0>>)
    <3>1. x \in TokensIn(queue, list, pc, closer', c)
      BY <2>1, <2>2 DEF Tokens
    <3>2. \/ \E b \in Biz : \E i \in Closings(queue[b], c) : x = <<"queue", b, i>>
          \/ \E b \in Biz : \E i \in Closings(list[b], c) :
               x = <<"list", b, i>> /\ (i > 1 \/ pc[b] = "run")
          \/ \E v \in Worker :
               pc[v] = "post" /\ Head(list[v]).conn = c /\ x = <<"post", v, 0>>
          \/ c \in Closeable /\ closer'[c] = "post" /\ x = <<"app", None, 0>>
      BY <3>1, InTokens
    <3>3. CASE c # d
      <4>1. c \in Closeable => closer'[c] = closer[c]
        BY <1>0, <2>1, <3>3
      <4>2. x \in TokensIn(queue, list, pc, closer, c)
        BY <3>2, <4>1, InTokens
      <4>. QED
        BY <4>2 DEF Tokens
    <3>4. CASE c = d /\ x # <<"app", None, 0>>
      <4>1. x \in TokensIn(queue, list, pc, closer, c)
        BY <3>2, <3>4, InTokens
      <4>. QED
        BY <4>1 DEF Tokens
    <3>. QED
      BY <3>3, <3>4
  <2>3. \A c \in Conn : Tokens(c)' \subseteq
                          Tokens(c) \cup (IF c = d THEN {<<"app", None, 0>>} ELSE {})
    BY <2>2
  <2>. QED
    BY <2>1, <2>3, TokenBorn
<1>10. ASSUME NEW d \in Closeable, AppPost(d) PROVE CloseInv'
  <2>1. /\ closer[d] = "post" /\ AppendBusiness(d, "close") /\ UNCHANGED <<list, pc, closes>>
        /\ closer' = [closer EXCEPT ![d] = "done"] /\ d \in Conn
    BY <1>10, ReactorAssumption DEF AppPost
  <2>2. <<"app", None, 0>> \in Tokens(d)
    BY <2>1, InTokens DEF Tokens
  <2>3. <<"app", None, 0>> \notin TokensIn(queue, list', pc', closer', d)
    <3>1. closer'[d] = "done"
      BY <1>0, <2>1
    <3> SUFFICES ASSUME <<"app", None, 0>> \in TokensIn(queue, list', pc', closer', d)
                 PROVE  FALSE
      OBVIOUS
    <3>2. closer'[d] = "post"
      BY InTokens
    <3>. QED
      BY <3>1, <3>2
  <2>4. \A c \in Closeable : closer'[c] = "post" => closer[c] = "post"
    BY <1>0, <2>1
  <2>. QED
    BY <2>1, <2>2, <2>3, <2>4, PostMoves
<1>. QED
  BY <1>1, <1>2, <1>3, <1>4, <1>5, <1>6, <1>7, <1>8, <1>9, <1>10, CloseMoves

(* The invariant is inductive, given NamesInv.                             *)
LEMMA CloseInvStep == NamesInv /\ CloseInv /\ [Next]_vars => CloseInv'
<1> SUFFICES ASSUME NamesInv, CloseInv, [Next]_vars PROVE CloseInv'
  OBVIOUS
<1>1. CASE Next
  BY <1>1, CloseStep
<1>2. CASE UNCHANGED vars
  BY <1>2 DEF vars, CloseInv, CloseOK, Tokens, Fresh
<1>. QED
  BY <1>1, <1>2

(* on_close is called at most once for a connection, however many data     *)
(* threads, business threads and threads of the application call           *)
(* close_connection() on it: only the one that takes it out of             *)
(* m_binded_connection_set posts the event, and it is never bound again.   *)
THEOREM ClosedOnce == Spec => []CloseOnce
<1>1. CloseInv => CloseOnce
  BY DEF CloseInv, CloseOK, CloseOnce
<1>. QED
  BY <1>1, InitNames, NamesStep, InitCloses, CloseInvStep, PTL DEF Spec

-----------------------------------------------------------------------------
(* m_unique of the bound connections: the ids the reactor holds.           *)
Held == {uniq[c] : c \in binded}

(* The id manager of the reactor with the theorems about it.               *)
Ids == INSTANCE IDManager_proofs WITH MinId <- 0, MaxId <- Cardinality(Conn), held <- Held

(* The manager is in order and no two bound connections share a unique.    *)
UniqueInv ==
  /\ Ids!IDInv
  /\ \A c, d \in binded : uniq[c] = uniq[d] => c = d

(* The range of the manager is a range.                                    *)
LEMMA ManyConns == 0 \in Nat /\ Cardinality(Conn) \in Nat /\ 0 <= Cardinality(Conn)
BY FS_CardinalityType, ReactorAssumption

(* Unique of Reactor and Ids are the same manager.                         *)
LEMMA SameManager ==
  /\ Unique!Id = Ids!Id /\ Unique!Candidate = Ids!Candidate
  /\ \A id : Unique!AcquireId(id) = Ids!AcquireId(id)
  /\ \A id : Unique!ReleaseId(id) = Ids!ReleaseId(id)
<1>1. Unique!Id = Ids!Id /\ Unique!Candidate = Ids!Candidate
  BY DEF Unique!Id, Ids!Id, Unique!Candidate, Ids!Candidate
<1>2. ASSUME NEW id PROVE Unique!AcquireId(id) = Ids!AcquireId(id)
  BY DEF Unique!AcquireId, Ids!AcquireId, Unique!ReuseId, Ids!ReuseId, Unique!FreshId,
         Ids!FreshId, Unique!CanAcquire, Ids!CanAcquire
<1>3. ASSUME NEW id PROVE Unique!ReleaseId(id) = Ids!ReleaseId(id)
  BY DEF Unique!ReleaseId, Ids!ReleaseId, Unique!Releasable, Ids!Releasable, Unique!InDeque,
         Ids!InDeque, Unique!DropTop, Ids!DropTop, Unique!GreaterAre, Ids!GreaterAre,
         Unique!Pushed, Ids!Pushed
<1>. QED
  BY <1>1, <1>2, <1>3

(* The steps that touch the manager or the set of bound connections.       *)
LEMMA IdsMoves ==
  ASSUME NamesInv, Next
  PROVE  \/ UNCHANGED <<binded, uniq, next_id, unused_id>>
         \/ \E c \in Fresh : Bind(c)
         \/ \E c \in Conn : Unbind(c)
         \/ Destroy
<1>1. ConnectionThread => UNCHANGED <<binded, uniq, next_id, unused_id>> \/ \E c \in Fresh : Bind(c)
  BY DEF ConnectionThread, Poll, Publish, AcceptBind, AcceptRefused, AcceptNotify, AcceptDone,
         ConnectionThreadEnd, Dispatch, AcceptInsert, Fresh, NamesInv, ActorsOK, Accepted
<1>2. \A c \in Requester : ConnectInsert(c) \/ RequesterThread(c) =>
        UNCHANGED <<binded, uniq, next_id, unused_id>> \/ \E d \in Fresh : Bind(d)
  BY ReactorAssumption DEF ConnectInsert, RequesterThread, ConnectAdd, ConnectRefused,
       ConnectBind, ConnectNotify, Fresh
<1>3. \A c \in Closeable : AppClose(c) \/ AppPost(c) =>
        UNCHANGED <<binded, uniq, next_id, unused_id>> \/ \E d \in Conn : Unbind(d)
  BY ReactorAssumption DEF AppClose, AppPost
<1>4. \A d \in Data : DataThread(d) => UNCHANGED <<binded, uniq, next_id, unused_id>>
  BY DEF DataThread, DataTake, DataRecv, DataSend, DataAbandon
<1>5. \A b \in Biz : BizThread(b) => UNCHANGED <<binded, uniq, next_id, unused_id>>
  BY DEF BizThread, BizTake, CallbackBegin, CallbackEnd, Sweep
<1>6. \A w \in Worker : EventEnd(w) =>
        UNCHANGED <<binded, uniq, next_id, unused_id>> \/ \E d \in Conn : Unbind(d)
  BY HeadBorn DEF EventEnd, ClosePost, Deref, CheckHeld, CheckUnheld, WorkerEnd, Remove,
       CloseUnbind, NamesInv, Born, Waits
<1>7. Stop \/ Exited => UNCHANGED <<binded, uniq, next_id, unused_id>>
  BY DEF Stop, Exited, vars
<1>. QED
  BY <1>1, <1>2, <1>3, <1>4, <1>5, <1>6, <1>7 DEF Next

(* Every step of the reactor is a step of the manager or leaves it alone:  *)
(* it binds under an id nobody holds and returns the id of the connection  *)
(* it unbinds.                                                             *)
LEMMA ManagerStep ==
  ASSUME NamesInv, CloseInv, UniqueInv, [Next]_vars
  PROVE  UniqueInv' /\ [Ids!Next]_(Ids!vars)
<1>0. uniq \in [Conn -> Nat] /\ binded \subseteq Conn
  BY DEF NamesInv, SetsOK, Born
<1>1. CASE UNCHANGED <<binded, uniq, next_id, unused_id>>
  <2>1. UNCHANGED Ids!vars
    BY <1>1 DEF Ids!vars, Held
  <2>. QED
    BY <1>1, <2>1, ManyConns, Ids!NextInv DEF UniqueInv
<1>2. ASSUME NEW c \in Fresh, Bind(c) PROVE UniqueInv' /\ [Ids!Next]_(Ids!vars)
  <2>1. c \in Conn /\ c \notin binded
    BY DEF Fresh, CloseInv, CloseOK
  <2>2. PICK id \in Ids!Id : Ids!AcquireId(id) /\ uniq' = [uniq EXCEPT ![c] = id]
                             /\ binded' = binded \cup {c}
    BY <1>2, SameManager DEF Bind
  <2>3. id \notin Held
    BY <2>2, ManyConns, Ids!AcquireLeast DEF UniqueInv
  <2>4. \A d \in binded : uniq'[d] = uniq[d] /\ uniq[d] # id
    BY <1>0, <2>1, <2>2, <2>3 DEF Held
  <2>5. uniq'[c] = id
    BY <1>0, <2>1, <2>2
  <2>6. Held' = Held \cup {id}
    BY <2>2, <2>4, <2>5 DEF Held
  <2>7. Ids!Next
    BY <2>2, <2>6 DEF Ids!Next, Ids!Acquire
  <2>8. Ids!IDInv'
    BY <2>7, ManyConns, Ids!NextInv DEF UniqueInv
  <2>. QED
    BY <2>2, <2>4, <2>5, <2>7, <2>8 DEF UniqueInv
<1>3. ASSUME NEW c \in Conn, Unbind(c) PROVE UniqueInv' /\ [Ids!Next]_(Ids!vars)
  <2>1. /\ c \in binded /\ binded' = binded \ {c} /\ uniq' = uniq
        /\ Ids!ReleaseId(uniq[c])
    BY <1>3, SameManager DEF Unbind
  <2>2. Held' = Held \ {uniq[c]}
    BY <2>1 DEF Held, UniqueInv
  <2>3. uniq[c] \in Ids!Candidate
    <3>1. uniq[c] \in Ids!Id
      BY <2>1 DEF UniqueInv, Ids!IDInv, Ids!TypeOK, Held
    <3>. QED
      BY <3>1, ManyConns DEF Ids!Id, Ids!Candidate
  <2>4. Ids!Next
    BY <2>1, <2>2, <2>3 DEF Ids!Next, Ids!Release
  <2>5. Ids!IDInv'
    BY <2>4, ManyConns, Ids!NextInv DEF UniqueInv
  <2>. QED
    BY <2>1, <2>4, <2>5 DEF UniqueInv
<1>4. CASE Destroy
  <2>1. binded' = {} /\ next_id' = 0 /\ unused_id' = << >>
    BY <1>4 DEF Destroy
  <2>2. Held' = {}
    BY <2>1 DEF Held
  <2>3. Ids!Next
    BY <2>1, <2>2 DEF Ids!Next, Ids!Reset
  <2>4. Ids!IDInv'
    BY <2>3, ManyConns, Ids!NextInv DEF UniqueInv
  <2>. QED
    BY <2>1, <2>3, <2>4 DEF UniqueInv
<1>5. UNCHANGED vars => UNCHANGED <<binded, uniq, next_id, unused_id>>
  BY DEF vars
<1>. QED
  BY <1>1, <1>2, <1>3, <1>4, <1>5, IdsMoves

(* The manager starts with nothing held.                                   *)
LEMMA InitManager == Init => UniqueInv /\ Unique!Init
<1> SUFFICES ASSUME Init PROVE UniqueInv /\ Unique!Init
  OBVIOUS
<1>1. binded = {} /\ next_id = 0 /\ unused_id = << >>
  BY DEF Init
<1>2. Ids!Init /\ Unique!Init
  BY <1>1 DEF Ids!Init, Unique!Init, Held
<1>3. Ids!IDInv
  BY <1>2, ManyConns, Ids!InitInv
<1>. QED
  BY <1>1, <1>2, <1>3 DEF UniqueInv

(* The steps of the two instances are the same.                            *)
LEMMA SameSteps == [Ids!Next]_(Ids!vars) => [Unique!Next]_(Unique!vars)
<1>1. ASSUME NEW id \in Ids!Id, Ids!Acquire(id) PROVE Unique!Next
  BY <1>1, SameManager DEF Ids!Acquire, Unique!Acquire, Unique!Next, Held
<1>2. ASSUME NEW id \in Ids!Candidate, Ids!Release(id) PROVE Unique!Next
  BY <1>2, SameManager DEF Ids!Release, Unique!Release, Unique!Next, Held
<1>3. ASSUME Ids!Reset PROVE Unique!Next
  BY <1>3 DEF Ids!Reset, Unique!Reset, Unique!Next, Held
<1>4. Ids!vars = Unique!vars /\ (UNCHANGED Ids!vars => UNCHANGED Unique!vars)
  BY DEF Ids!vars, Unique!vars, Held
<1>5. Ids!RefuseAcquire \/ (\E id \in Ids!Candidate : Ids!RefuseRelease(id))
        => UNCHANGED Ids!vars
  BY DEF Ids!RefuseAcquire, Ids!RefuseRelease
<1>. QED
  BY <1>1, <1>2, <1>3, <1>4, <1>5 DEF Ids!Next

(* The reactor uses m_unique_creator the way IDManager requires: what it   *)
(* calls the uniques of its bound connections is what the manager has      *)
(* lent, so that with the theorems about IDManager two bound connections   *)
(* never share a unique and none is lost.                                  *)
THEOREM UsesManager == Spec => UniquesFromManager
<1>1. NamesInv /\ CloseInv /\ UniqueInv /\ [Next]_vars =>
        UniqueInv' /\ [Unique!Next]_(Unique!vars)
  BY ManagerStep, SameSteps
<1>. QED
  BY <1>1, InitNames, NamesStep, InitCloses, CloseInvStep, InitManager, PTL
     DEF Spec, UniquesFromManager, Unique!Spec

-----------------------------------------------------------------------------
(* An event in hand whose reference was given back.                        *)
Checks(p) == p \in {"check", "remove"}

(* The places of Holders, for any queues, batches, lists, controls and any *)
(* set of bound connections.                                               *)
InQueues(q, c) == UNION {{<<"queue", w, i>> : i \in Events(q[w], c)} : w \in Worker}
InBatches(bt, c) == UNION {{<<"batch", d, i>> : i \in Events(bt[d], c)} : d \in Data}
InLists(l, p, c) ==
  UNION {{<<"list", w, i>> : i \in {j \in Events(l[w], c) : j > 1 \/ ~ Checks(p[w])}}
           : w \in Worker}
InBinded(B, c) == {<<"binded">> : x \in B \cap {c}}

HoldersIn(q, bt, l, p, B, c) ==
  InQueues(q, c) \cup InBatches(bt, c) \cup InLists(l, p, c) \cup InBinded(B, c)

(* The count is that of the holders.  On the way out of exit() a data      *)
(* thread drops events and leaves their count behind.                      *)
CountOK(c) ==
  /\ refs[c] \in Nat
  /\ IsFiniteSet(Holders(c)) /\ Cardinality(Holders(c)) <= refs[c]
  /\ running => refs[c] = Cardinality(Holders(c))

(* The inductive invariant behind RefsCountHolders: it holds for freed     *)
(* connections too, since a reference is counted when its holder appears.  *)
CountInv ==
  /\ refs = [c \in Conn |-> refs[c]]
  /\ \A c \in Conn : CountOK(c)
  /\ cpc = "done" => ~ running


-----------------------------------------------------------------------------
(* What a holder is.                                                       *)
LEMMA InHolders ==
  ASSUME NEW q, NEW bt, NEW l, NEW p, NEW B, NEW c, NEW x
  PROVE  x \in HoldersIn(q, bt, l, p, B, c) <=>
           \/ \E w \in Worker : \E i \in Events(q[w], c) : x = <<"queue", w, i>>
           \/ \E d \in Data : \E i \in Events(bt[d], c) : x = <<"batch", d, i>>
           \/ \E w \in Worker : \E i \in Events(l[w], c) :
                x = <<"list", w, i>> /\ (i > 1 \/ ~ Checks(p[w]))
           \/ c \in B /\ x = <<"binded">>
<1>1. x \in InQueues(q, c) <=> \E w \in Worker : \E i \in Events(q[w], c) : x = <<"queue", w, i>>
  BY DEF InQueues
<1>2. x \in InBatches(bt, c) <=> \E d \in Data : \E i \in Events(bt[d], c) : x = <<"batch", d, i>>
  BY DEF InBatches
<1>3. x \in InLists(l, p, c) <=> \E w \in Worker : \E i \in Events(l[w], c) :
                                   x = <<"list", w, i>> /\ (i > 1 \/ ~ Checks(p[w]))
  BY DEF InLists
<1>4. x \in InBinded(B, c) <=> c \in B /\ x = <<"binded">>
  BY DEF InBinded
<1>. QED
  BY <1>1, <1>2, <1>3, <1>4 DEF HoldersIn

(* The holders of the current state.                                       *)
LEMMA HoldersNow ==
  \A c : Holders(c) = HoldersIn(queue, batch, list, pc, binded, c)
BY DEF Holders, HoldersIn, InQueues, InBatches, InLists, InBinded, Checks

(* The holders of the next state.                                          *)
LEMMA HoldersNext ==
  \A c : Holders(c)' = HoldersIn(queue', batch', list', pc', binded', c)
BY DEF Holders, HoldersIn, InQueues, InBatches, InLists, InBinded, Checks

(* The places of c in a list are numbers.                                  *)
LEMMA EventsNat ==
  ASSUME NEW s, NEW c
  PROVE  Events(s, c) \subseteq Int
BY DEF Events

(* Appending an event adds one place to those of its connection.           *)
LEMMA AppendEvents ==
  ASSUME NEW S, NEW s \in Seq(S), NEW e \in S, NEW c
  PROVE  /\ Events(Append(s, e), c) = Events(s, c) \cup (IF e.conn = c THEN {Len(s) + 1} ELSE {})
         /\ Len(s) + 1 \notin Events(s, c)
BY DEF Events

(* The events of one list behind those of another.                         *)
LEMMA ConcatEvents ==
  ASSUME NEW S, NEW s \in Seq(S), NEW t \in Seq(S), NEW c, NEW i \in Int
  PROVE  /\ i \in Events(s \o t, c) <=> i \in Events(s, c) \/ i - Len(s) \in Events(t, c)
         /\ i \in Events(t, c) => i + Len(s) \notin Events(s, c)
         /\ Len(s) \in Nat
<1>1. Len(s) \in Nat /\ Len(t) \in Nat /\ Len(s \o t) = Len(s) + Len(t)
  BY ConcatProperties
<1>2. \A j \in 1 .. (Len(s) + Len(t)) : (s \o t)[j] = IF j <= Len(s) THEN s[j] ELSE t[j - Len(s)]
  BY ConcatProperties
<1>. QED
  BY <1>1, <1>2 DEF Events

(* The events of a list without its first.                                 *)
LEMMA TailEvents ==
  ASSUME NEW S, NEW s \in Seq(S), s # << >>, NEW c, NEW i \in Int
  PROVE  i \in Events(Tail(s), c) <=> i >= 1 /\ i + 1 \in Events(s, c)
<1>1. Len(Tail(s)) = Len(s) - 1 /\ Len(s) \in Nat \ {0}
  BY HeadTailProperties
<1>2. \A j \in 1 .. (Len(s) - 1) : Tail(s)[j] = s[j + 1]
  BY HeadTailProperties
<1>. QED
  BY <1>1, <1>2 DEF Events

-----------------------------------------------------------------------------
(* T are the holders S, after those at place from of the workers W have    *)
(* gone to place to, each as far as off says.                              *)
Moved(S, T, from, to, W, off) ==
  /\ \A x \in S : x[1] = from /\ x[2] \in W => \E w \in W : \E i \in Int : x = <<from, w, i>>
  /\ \A w \in W : \A i \in Int : <<from, w, i>> \in S =>
       /\ <<to, w, i + off[w]>> \in T
       /\ from = to \/ <<to, w, i + off[w]>> \notin S
  /\ \A x \in S : ~ (x[1] = from /\ x[2] \in W) => x \in T
  /\ \A y \in T : \/ y \in S /\ ~ (y[1] = from /\ y[2] \in W)
                  \/ \E w \in W : \E i \in Int : <<from, w, i>> \in S /\ y = <<to, w, i + off[w]>>

(* There are as many as before.                                            *)
LEMMA MovedCount ==
  ASSUME NEW S, IsFiniteSet(S), NEW T, NEW from, NEW to, NEW W, NEW off \in [W -> Int],
         Moved(S, T, from, to, W, off)
  PROVE  IsFiniteSet(T) /\ Cardinality(T) = Cardinality(S)
<1>. USE DEF Moved
<1> DEFINE Moves(x) == x[1] = from /\ x[2] \in W
           f == [x \in S |-> IF Moves(x) THEN <<to, x[2], x[3] + off[x[2]]>> ELSE x]
<1>1. ASSUME NEW x \in S, Moves(x)
      PROVE  \E w \in W : \E i \in Int :
               x = <<from, w, i>> /\ f[x] = <<to, w, i + off[w]>> /\ f[x] \in T
                 /\ (from = to \/ f[x] \notin S)
  <2>1. PICK w \in W : \E i \in Int : x = <<from, w, i>>
    BY <1>1
  <2>2. PICK i \in Int : x = <<from, w, i>>
    BY <2>1
  <2>3. f[x] = <<to, w, i + off[w]>>
    BY <1>1, <2>2
  <2>. QED
    BY <2>2, <2>3
<1>2. ASSUME NEW x \in S, ~ Moves(x) PROVE f[x] = x /\ x \in T
  BY <1>2
<1>3. f \in [S -> T]
  BY <1>1, <1>2
<1>4. ASSUME NEW x \in S, NEW y \in S, f[x] = f[y] PROVE x = y
  <2>1. CASE Moves(x) /\ Moves(y)
    <3>1. PICK w \in W : \E i \in Int : x = <<from, w, i>> /\ f[x] = <<to, w, i + off[w]>>
      BY <1>1, <2>1
    <3>2. PICK i \in Int : x = <<from, w, i>> /\ f[x] = <<to, w, i + off[w]>>
      BY <3>1
    <3>3. PICK v \in W : \E j \in Int : y = <<from, v, j>> /\ f[y] = <<to, v, j + off[v]>>
      BY <1>1, <2>1
    <3>4. PICK j \in Int : y = <<from, v, j>> /\ f[y] = <<to, v, j + off[v]>>
      BY <3>3
    <3>5. v = w /\ i + off[w] = j + off[v]
      BY <1>4, <3>2, <3>4
    <3>6. i = j
      BY <3>5
    <3>. QED
      BY <3>2, <3>4, <3>5, <3>6
  <2>2. ASSUME NEW a \in S, NEW b \in S, Moves(a), ~ Moves(b), f[a] = f[b] PROVE FALSE
    <3>1. f[b] = b
      BY <1>2, <2>2
    <3>2. PICK w \in W : \E i \in Int : f[a] = <<to, w, i + off[w]>>
                                         /\ (from = to \/ f[a] \notin S)
      BY <1>1, <2>2
    <3>. QED
      BY <2>2, <3>1, <3>2
  <2>3. CASE ~ Moves(x) /\ ~ Moves(y)
    BY <1>2, <1>4, <2>3
  <2>. QED
    BY <1>4, <2>1, <2>2, <2>3
<1>5. ASSUME NEW y \in T PROVE \E x \in S : f[x] = y
  <2>1. CASE y \in S /\ ~ Moves(y)
    BY <2>1
  <2>2. CASE ~ (y \in S /\ ~ Moves(y))
    <3>1. PICK w \in W : \E i \in Int : <<from, w, i>> \in S /\ y = <<to, w, i + off[w]>>
      BY <2>2
    <3>2. PICK i \in Int : <<from, w, i>> \in S /\ y = <<to, w, i + off[w]>>
      BY <3>1
    <3>. QED
      BY <3>2
  <2>. QED
    BY <2>1, <2>2
<1>. HIDE DEF f, Moved
<1>6. f \in Bijection(S, T)
  BY <1>3, <1>4, <1>5, Fun_IsBij
<1>7. ExistsBijection(S, T)
  BY <1>6 DEF ExistsBijection
<1>. QED
  BY <1>7, FS_Bijection

-----------------------------------------------------------------------------
(* An event of either sort.                                                *)
AnyEvent == EventsOf(Conn, DataKinds \cup BizKinds)

(* All the lists are sequences of events.                                  *)
LEMMA ListTypes ==
  ASSUME NamesInv
  PROVE  /\ \A w \in Worker : queue[w] \in Seq(AnyEvent) /\ list[w] \in Seq(AnyEvent)
         /\ \A d \in Data : batch[d] \in Seq(AnyEvent)
         /\ queue = [w \in Worker |-> queue[w]] /\ list = [w \in Worker |-> list[w]]
         /\ batch = [d \in Data |-> batch[d]]
         /\ pc \in [Worker -> WorkerStates]
         /\ uniq \in [Conn -> Nat] /\ Born \subseteq Conn
         /\ \A w \in Worker : list[w] = << >> <=> Waits(w)
<1>1. EventsOf(Born, DataKinds) \subseteq AnyEvent /\ EventsOf(Born, BizKinds) \subseteq AnyEvent
  BY DEF EventsOf, AnyEvent, Born
<1>2. /\ Seq(EventsOf(Born, DataKinds)) \subseteq Seq(AnyEvent)
      /\ Seq(EventsOf(Born, BizKinds)) \subseteq Seq(AnyEvent)
  BY <1>1
<1>3. ListsOf(Born, queue) /\ ListsOf(Born, list)
      /\ batch \in [Data -> Seq(EventsOf(Born, DataKinds))]
  BY DEF NamesInv, ListsOK, ListsFor
<1>4. \A w \in Worker : queue[w] \in Seq(AnyEvent) /\ list[w] \in Seq(AnyEvent)
  BY <1>2, <1>3, Workers DEF ListsOf
<1>5. \A d \in Data : batch[d] \in Seq(AnyEvent)
  BY <1>2, <1>3
<1>. QED
  BY <1>3, <1>4, <1>5 DEF NamesInv, ListsOK, ListsFor, ListsOf, SetsOK, Born

(* The event in hand is the first of its list.                             *)
LEMMA FirstEvent ==
  ASSUME NamesInv, NEW w \in Worker, ~ Waits(w), NEW c
  PROVE  /\ 1 \in Events(list[w], c) <=> InHand(w) = c
         /\ InHand(w) \in Born
         /\ list[w] # << >>
<1>1. list[w] # << >> /\ list[w] \in Seq(AnyEvent)
  BY ListTypes
<1>2. Head(list[w]) = list[w][1] /\ 1 \in 1 .. Len(list[w])
  BY <1>1, HeadTailProperties
<1>3. InHand(w) \in Born
  BY HeadBorn DEF NamesInv
<1>. QED
  BY <1>1, <1>2, <1>3 DEF Events, InHand

-----------------------------------------------------------------------------
(* A step gives no first holder to c.                                      *)
Kept(c) == Holders(c)' # {} => Holders(c) # {}

(* The connections that a step may give one.                               *)
Gains(c) ==
  \/ c \in Requester \cup Closeable \cup normal
  \/ cpc \in {"bind", "notify"} /\ c = newcomer
  \/ \E w \in Worker : ~ Waits(w) /\ ~ Checks(pc[w]) /\ c = InHand(w)

(* A step that leaves the number of holders and the count as they are.     *)
LEMMA CountStays ==
  ASSUME CountInv, running' => running, NEW c \in Conn, refs'[c] = refs[c],
         IsFiniteSet(Holders(c)'), Cardinality(Holders(c)') = Cardinality(Holders(c))
  PROVE  CountOK(c)' /\ Kept(c)
<1>1. CountOK(c)
  BY DEF CountInv
<1>2. Holders(c)' # {} => Holders(c) # {}
  BY <1>1, FS_EmptySet DEF CountOK
<1>. QED
  BY <1>1, <1>2 DEF CountOK, Kept

(* A step that adds a holder and counts it.                                *)
LEMMA CountAdds ==
  ASSUME CountInv, running' => running, NEW c \in Conn, refs'[c] = refs[c] + 1,
         NEW x, x \notin Holders(c), Holders(c)' = Holders(c) \cup {x}
  PROVE  CountOK(c)'
<1>1. CountOK(c)
  BY DEF CountInv
<1>2. /\ IsFiniteSet(Holders(c)')
      /\ Cardinality(Holders(c)') = Cardinality(Holders(c)) + 1
      /\ Cardinality(Holders(c)) \in Nat
  BY <1>1, FS_AddElement, FS_CardinalityType DEF CountOK
<1>. QED
  BY <1>1, <1>2 DEF CountOK

(* A step that takes a holder away and counts it out.                      *)
LEMMA CountRemoves ==
  ASSUME CountInv, running' => running, NEW c \in Conn, refs'[c] = refs[c] - 1,
         NEW x, x \in Holders(c), Holders(c)' = Holders(c) \ {x}
  PROVE  CountOK(c)' /\ Kept(c)
<1>1. CountOK(c)
  BY DEF CountInv
<1>2. /\ IsFiniteSet(Holders(c)')
      /\ Cardinality(Holders(c)') = Cardinality(Holders(c)) - 1
      /\ Cardinality(Holders(c)) \in Nat /\ Cardinality(Holders(c)') \in Nat
  BY <1>1, FS_RemoveElement, FS_CardinalityType DEF CountOK
<1>. QED
  BY <1>1, <1>2 DEF CountOK, Kept

(* A step on the way out of exit() that drops holders.                     *)
LEMMA CountLoses ==
  ASSUME CountInv, ~ running', NEW c \in Conn, refs'[c] = refs[c],
         Holders(c)' \subseteq Holders(c)
  PROVE  CountOK(c)' /\ Kept(c)
<1>1. CountOK(c)
  BY DEF CountInv
<1>2. /\ IsFiniteSet(Holders(c)')
      /\ Cardinality(Holders(c)') <= Cardinality(Holders(c))
      /\ Cardinality(Holders(c)) \in Nat /\ Cardinality(Holders(c)') \in Nat
  BY <1>1, FS_Subset, FS_CardinalityType DEF CountOK
<1>. QED
  BY <1>1, <1>2 DEF CountOK, Kept

(* The holders of c did not change.                                        *)
LEMMA CountSame ==
  ASSUME CountInv, running' => running, NEW c \in Conn, refs'[c] = refs[c],
         Holders(c)' = Holders(c)
  PROVE  CountOK(c)' /\ Kept(c)
<1>1. CountOK(c)
  BY DEF CountInv
<1>. QED
  BY <1>1 DEF CountOK, Kept

(* Nobody looks after its decrease_reference who did not, and back.        *)
SameChecks == \A w \in Worker : Checks(pc'[w]) <=> Checks(pc[w])

(* A step that leaves the lists, the bound connections and the counts      *)
(* alone.                                                                  *)
LEMMA NothingMoves ==
  ASSUME CountInv, running' => running, SameChecks,
         UNCHANGED <<queue, batch, list, binded, refs>>
  PROVE  \A c \in Conn : CountOK(c)' /\ Kept(c)
<1> SUFFICES ASSUME NEW c \in Conn PROVE CountOK(c)' /\ Kept(c)
  OBVIOUS
<1>1. \A x : x \in HoldersIn(queue, batch, list, pc', binded, c)
               <=> x \in HoldersIn(queue, batch, list, pc, binded, c)
  BY InHolders DEF SameChecks
<1>2. Holders(c)' = Holders(c)
  BY <1>1, HoldersNow, HoldersNext
<1>. QED
  BY <1>2, CountSame

(* append_business_event counts the event it adds.                         *)
LEMMA AppendCounts ==
  ASSUME NamesInv, CountInv, running' => running, SameChecks,
         UNCHANGED <<batch, list, binded>>,
         NEW d \in Conn, NEW k \in BizKinds, AppendBusiness(d, k)
  PROVE  \A c \in Conn : CountOK(c)' /\ (c = d \/ Kept(c))
<1>1. CASE UNCHANGED <<queue, refs>>
  BY <1>1, NothingMoves
<1>2. CASE /\ queue' = [queue EXCEPT ![BizOf(d)] = Append(@, Event(d, k))]
           /\ refs' = [refs EXCEPT ![d] = @ + 1]
  <2>0. BizOf(d) \in Worker
    BY OwnLists, Workers, ListTypes
  <2> DEFINE b == BizOf(d)
             e == Event(d, k)
             new == <<"queue", b, Len(queue[b]) + 1>>
  <2>1. /\ e \in AnyEvent /\ e.conn = d /\ queue[b] \in Seq(AnyEvent)
        /\ queue'[b] = Append(queue[b], e)
        /\ \A w \in Worker \ {b} : queue'[w] = queue[w]
    BY <1>2, <2>0, ListTypes DEF Event, AnyEvent, EventsOf
  <2> HIDE DEF e, b
  <2>2. ASSUME NEW c \in Conn
        PROVE  /\ \A w \in Worker \ {b} : Events(queue'[w], c) = Events(queue[w], c)
               /\ Events(queue'[b], c) = Events(queue[b], c)
                                           \cup (IF c = d THEN {Len(queue[b]) + 1} ELSE {})
               /\ Len(queue[b]) + 1 \notin Events(queue[b], c)
    BY <2>1, AppendEvents
  <2>3. ASSUME NEW c \in Conn
        PROVE  /\ Holders(c)' = Holders(c) \cup (IF c = d THEN {new} ELSE {})
               /\ new \notin Holders(c)
    <3>1. \A x : x \in HoldersIn(queue', batch, list, pc', binded, c)
                   <=> x \in HoldersIn(queue, batch, list, pc, binded, c) \/ (c = d /\ x = new)
      BY <2>0, <2>2, InHolders DEF SameChecks, b
    <3>2. new \notin HoldersIn(queue, batch, list, pc, binded, c)
      BY <2>2, InHolders
    <3>. QED
      BY <3>1, <3>2, HoldersNow, HoldersNext
  <2>4. ASSUME NEW c \in Conn PROVE CountOK(c)' /\ (c = d \/ Kept(c))
    <3>1. refs'[c] = IF c = d THEN refs[c] + 1 ELSE refs[c]
      BY <1>2 DEF CountInv
    <3>. QED
      BY <2>3, <3>1, CountSame, CountAdds
  <2>. QED
    BY <2>4
<1>. QED
  BY <1>1, <1>2 DEF AppendBusiness

(* A reported connection becomes an event that is counted, or is skipped.  *)
LEMMA DispatchCounts ==
  ASSUME NamesInv, CountInv, NEW d \in Conn, Dispatch(d)
  PROVE  \A c \in Conn : CountOK(c)' /\ (c = d \/ Kept(c))
<1>0. UNCHANGED <<running, queue, list, pc, binded>>
  BY DEF Dispatch
<1>1. CASE UNCHANGED <<batch, refs>>
  BY <1>0, <1>1, NothingMoves DEF SameChecks
<1>2. ASSUME NEW k \in DataKinds,
             batch' = [batch EXCEPT ![DataOf(d)] = Append(@, Event(d, k))],
             refs' = [refs EXCEPT ![d] = @ + 1]
      PROVE  \A c \in Conn : CountOK(c)' /\ (c = d \/ Kept(c))
  <2>0. DataOf(d) \in Data
    BY OwnLists, ListTypes
  <2> DEFINE b == DataOf(d)
             e == Event(d, k)
             new == <<"batch", b, Len(batch[b]) + 1>>
  <2>1. /\ e \in AnyEvent /\ e.conn = d /\ batch[b] \in Seq(AnyEvent)
        /\ batch'[b] = Append(batch[b], e)
        /\ \A w \in Data \ {b} : batch'[w] = batch[w]
    BY <1>2, <2>0, ListTypes DEF Event, AnyEvent, EventsOf
  <2> HIDE DEF e, b
  <2>2. ASSUME NEW c \in Conn
        PROVE  /\ \A w \in Data \ {b} : Events(batch'[w], c) = Events(batch[w], c)
               /\ Events(batch'[b], c) = Events(batch[b], c)
                                           \cup (IF c = d THEN {Len(batch[b]) + 1} ELSE {})
               /\ Len(batch[b]) + 1 \notin Events(batch[b], c)
    BY <2>1, AppendEvents
  <2>3. ASSUME NEW c \in Conn
        PROVE  /\ Holders(c)' = Holders(c) \cup (IF c = d THEN {new} ELSE {})
               /\ new \notin Holders(c)
    <3>1. \A x : x \in HoldersIn(queue, batch', list, pc, binded, c)
                   <=> x \in HoldersIn(queue, batch, list, pc, binded, c) \/ (c = d /\ x = new)
      BY <2>0, <2>2, InHolders DEF b
    <3>2. new \notin HoldersIn(queue, batch, list, pc, binded, c)
      BY <2>2, InHolders
    <3>. QED
      BY <1>0, <3>1, <3>2, HoldersNow, HoldersNext
  <2>4. ASSUME NEW c \in Conn PROVE CountOK(c)' /\ (c = d \/ Kept(c))
    <3>1. refs'[c] = IF c = d THEN refs[c] + 1 ELSE refs[c]
      BY <1>2 DEF CountInv
    <3>. QED
      BY <1>0, <2>3, <3>1, CountSame, CountAdds
  <2>. QED
    BY <2>4
<1>. QED
  BY <1>1, <1>2 DEF Dispatch

(* append_data_events moves each batch to the end of its list.             *)
LEMMA PublishKeeps ==
  ASSUME NamesInv, CountInv, Publish
  PROVE  \A c \in Conn : CountOK(c)' /\ Kept(c)
<1> SUFFICES ASSUME NEW c \in Conn PROVE CountOK(c)' /\ Kept(c)
  OBVIOUS
<1> DEFINE off == [d \in Data |-> Len(queue[d])]
<1>0. /\ UNCHANGED <<running, list, pc, binded, refs>>
      /\ \A w \in Worker : queue'[w] = IF w \in Data THEN queue[w] \o batch[w] ELSE queue[w]
      /\ \A d \in Data : batch'[d] = << >>
  BY DEF Publish
<1>1. ASSUME NEW d \in Data, NEW i \in Int
      PROVE  /\ i \in Events(queue'[d], c)
                  <=> i \in Events(queue[d], c) \/ i - off[d] \in Events(batch[d], c)
             /\ i \in Events(batch[d], c) => i + off[d] \notin Events(queue[d], c)
             /\ off[d] \in Int
  <2>1. queue[d] \in Seq(AnyEvent) /\ batch[d] \in Seq(AnyEvent) /\ d \in Worker
    BY ListTypes, Workers
  <2>2. queue'[d] = queue[d] \o batch[d]
    BY <1>0, <2>1
  <2>. QED
    BY <2>1, <2>2, ConcatEvents
<1>2. off \in [Data -> Int] /\ \A d \in Data : Events(batch'[d], c) = {}
  BY <1>0, <1>1 DEF Events
<1> DEFINE S == HoldersIn(queue, batch, list, pc, binded, c)
           T == HoldersIn(queue', batch', list, pc, binded, c)
<1> HIDE DEF off, S, T
<1>3. \A x \in S : x[1] = "batch" /\ x[2] \in Data =>
                     \E w \in Data : \E i \in Int : x = <<"batch", w, i>>
  BY InHolders, EventsNat DEF S
<1>4. \A w \in Data : \A i \in Int : <<"batch", w, i>> \in S =>
        /\ <<"queue", w, i + off[w]>> \in T
        /\ "batch" = "queue" \/ <<"queue", w, i + off[w]>> \notin S
  <2> SUFFICES ASSUME NEW w \in Data, NEW i \in Int, <<"batch", w, i>> \in S
               PROVE  <<"queue", w, i + off[w]>> \in T /\ <<"queue", w, i + off[w]>> \notin S
    OBVIOUS
  <2>1. i \in Events(batch[w], c)
    BY InHolders DEF S
  <2>2. i + off[w] \in Int /\ (i + off[w]) - off[w] = i
    BY <1>1
  <2>3. i + off[w] \in Events(queue'[w], c) /\ i + off[w] \notin Events(queue[w], c)
    BY <1>1, <2>1, <2>2
  <2>. QED
    BY <2>3, InHolders, Workers DEF S, T
<1>5. \A x \in S : ~ (x[1] = "batch" /\ x[2] \in Data) => x \in T
  <2> SUFFICES ASSUME NEW x \in S, ~ (x[1] = "batch" /\ x[2] \in Data) PROVE x \in T
    OBVIOUS
  <2>1. ASSUME NEW w \in Worker, NEW i \in Events(queue[w], c) PROVE i \in Events(queue'[w], c)
    BY <1>0, <1>1, EventsNat
  <2>2. \/ \E w \in Worker : \E i \in Events(queue[w], c) : x = <<"queue", w, i>>
        \/ \E w \in Worker : \E i \in Events(list[w], c) :
             x = <<"list", w, i>> /\ (i > 1 \/ ~ Checks(pc[w]))
        \/ c \in binded /\ x = <<"binded">>
    BY InHolders DEF S
  <2>. QED
    BY <2>1, <2>2, InHolders DEF T
<1>6. \A y \in T : \/ y \in S /\ ~ (y[1] = "batch" /\ y[2] \in Data)
                   \/ \E w \in Data : \E i \in Int :
                        <<"batch", w, i>> \in S /\ y = <<"queue", w, i + off[w]>>
  <2> SUFFICES ASSUME NEW y \in T
               PROVE  \/ y \in S /\ ~ (y[1] = "batch" /\ y[2] \in Data)
                      \/ \E w \in Data : \E i \in Int :
                           <<"batch", w, i>> \in S /\ y = <<"queue", w, i + off[w]>>
    OBVIOUS
  <2>1. \/ \E w \in Worker : \E i \in Events(queue'[w], c) : y = <<"queue", w, i>>
        \/ \E w \in Worker : \E i \in Events(list[w], c) :
             y = <<"list", w, i>> /\ (i > 1 \/ ~ Checks(pc[w]))
        \/ c \in binded /\ y = <<"binded">>
    BY <1>2, InHolders DEF T
  <2>2. ASSUME NEW w \in Worker, NEW i \in Events(queue'[w], c), y = <<"queue", w, i>>,
               i \notin Events(queue[w], c)
        PROVE  \E j \in Int : <<"batch", w, j>> \in S /\ y = <<"queue", w, j + off[w]>> /\ w \in Data
    <3>1. w \in Data /\ i \in Int
      BY <1>0, <2>2, EventsNat
    <3>2. i - off[w] \in Events(batch[w], c)
      BY <1>1, <2>2, <3>1
    <3>3. i - off[w] \in Int /\ (i - off[w]) + off[w] = i
      BY <1>1, <3>1
    <3>4. <<"batch", w, i - off[w]>> \in S
      BY <3>1, <3>2, InHolders DEF S
    <3>. QED
      BY <2>2, <3>1, <3>3, <3>4
  <2>3. ASSUME NEW w \in Worker, NEW i \in Events(queue[w], c), y = <<"queue", w, i>>
        PROVE  y \in S /\ y[1] # "batch"
    BY <2>3, InHolders DEF S
  <2>4. ASSUME \/ \E w \in Worker : \E i \in Events(list[w], c) :
                    y = <<"list", w, i>> /\ (i > 1 \/ ~ Checks(pc[w]))
               \/ c \in binded /\ y = <<"binded">>
        PROVE  y \in S /\ y[1] # "batch"
    BY <2>4, InHolders DEF S
  <2>. QED
    BY <2>1, <2>2, <2>3, <2>4
<1>7. IsFiniteSet(S) /\ S = Holders(c) /\ T = Holders(c)'
  BY <1>0, HoldersNow, HoldersNext DEF S, T, CountInv, CountOK
<1>8. IsFiniteSet(T) /\ Cardinality(T) = Cardinality(S)
  <2>1. Moved(S, T, "batch", "queue", Data, off)
    BY <1>3, <1>4, <1>5, <1>6 DEF Moved
  <2>. QED
    BY <1>2, <1>7, <2>1, MovedCount
<1>. QED
  BY <1>0, <1>7, <1>8, CountStays

(* Taking a list moves its holders and no others.                          *)
LEMMA TakeMoved ==
  ASSUME NEW q, NEW bt, NEW l, NEW p, NEW B, NEW q2, NEW l2, NEW p2, NEW c,
         NEW b \in Worker, NEW off, off[b] = 0,
         l[b] = << >>, q2[b] = << >>, l2[b] = q[b], ~ Checks(p2[b]),
         \A w \in Worker \ {b} : l2[w] = l[w] /\ q2[w] = q[w] /\ p2[w] = p[w]
  PROVE  Moved(HoldersIn(q, bt, l, p, B, c), HoldersIn(q2, bt, l2, p2, B, c),
               "queue", "list", {b}, off)
<1> DEFINE S == HoldersIn(q, bt, l, p, B, c)
           T == HoldersIn(q2, bt, l2, p2, B, c)
<1>0. /\ l[b] = << >> /\ q2[b] = << >> /\ l2[b] = q[b] /\ ~ Checks(p2[b])
      /\ \A w \in Worker \ {b} : l2[w] = l[w] /\ q2[w] = q[w] /\ p2[w] = p[w]
  OBVIOUS
<1>1. Events(l[b], c) = {} /\ Events(q2[b], c) = {}
  BY <1>0 DEF Events
<1>2. off[b] = 0
  OBVIOUS
<1> HIDE DEF S, T
<1>3. \A x \in S : x[1] = "queue" /\ x[2] \in {b} =>
                     \E w \in {b} : \E i \in Int : x = <<"queue", w, i>>
  BY InHolders, EventsNat DEF S
<1>4. \A w \in {b} : \A i \in Int : <<"queue", w, i>> \in S =>
        /\ <<"list", w, i + off[w]>> \in T
        /\ "queue" = "list" \/ <<"list", w, i + off[w]>> \notin S
  <2> SUFFICES ASSUME NEW i \in Int, <<"queue", b, i>> \in S
               PROVE  <<"list", b, i>> \in T /\ <<"list", b, i>> \notin S
    BY <1>2
  <2>1. i \in Events(q[b], c)
    BY InHolders DEF S
  <2>2. i \in Events(l2[b], c) /\ i \notin Events(l[b], c)
    BY <1>0, <1>1, <2>1
  <2>3. <<"list", b, i>> \in T
    BY <1>0, <2>2, InHolders DEF T
  <2>. QED
    BY <2>2, <2>3, InHolders DEF S
<1>5. \A x \in S : ~ (x[1] = "queue" /\ x[2] \in {b}) => x \in T
  <2> SUFFICES ASSUME NEW x \in S, ~ (x[1] = "queue" /\ x[2] \in {b}) PROVE x \in T
    OBVIOUS
  <2>1. \/ \E w \in Worker : \E i \in Events(q[w], c) : x = <<"queue", w, i>>
        \/ \E d \in Data : \E i \in Events(bt[d], c) : x = <<"batch", d, i>>
        \/ \E w \in Worker : \E i \in Events(l[w], c) :
             x = <<"list", w, i>> /\ (i > 1 \/ ~ Checks(p[w]))
        \/ c \in B /\ x = <<"binded">>
    BY InHolders DEF S
  <2>2. \/ \E w \in Worker : \E i \in Events(q2[w], c) : x = <<"queue", w, i>>
        \/ \E d \in Data : \E i \in Events(bt[d], c) : x = <<"batch", d, i>>
        \/ \E w \in Worker : \E i \in Events(l2[w], c) :
             x = <<"list", w, i>> /\ (i > 1 \/ ~ Checks(p2[w]))
        \/ c \in B /\ x = <<"binded">>
    BY <1>0, <1>1, <2>1
  <2>. QED
    BY <2>2, InHolders DEF T
<1>6. \A y \in T : \/ y \in S /\ ~ (y[1] = "queue" /\ y[2] \in {b})
                   \/ \E w \in {b} : \E i \in Int :
                        <<"queue", w, i>> \in S /\ y = <<"list", w, i + off[w]>>
  <2> SUFFICES ASSUME NEW y \in T, ~ (y \in S /\ ~ (y[1] = "queue" /\ y[2] \in {b}))
               PROVE  \E i \in Int : <<"queue", b, i>> \in S /\ y = <<"list", b, i + off[b]>>
    OBVIOUS
  <2>1. \/ \E w \in Worker : \E i \in Events(q2[w], c) : y = <<"queue", w, i>>
        \/ \E d \in Data : \E i \in Events(bt[d], c) : y = <<"batch", d, i>>
        \/ \E w \in Worker : \E i \in Events(l2[w], c) :
             y = <<"list", w, i>> /\ (i > 1 \/ ~ Checks(p2[w]))
        \/ c \in B /\ y = <<"binded">>
    BY InHolders DEF T
  <2>2. ASSUME NEW w \in Worker, NEW i \in Events(q2[w], c), y = <<"queue", w, i>> PROVE FALSE
    <3>1. w # b /\ i \in Events(q[w], c)
      BY <1>0, <1>1, <2>2
    <3>. QED
      BY <2>2, <3>1, InHolders DEF S
  <2>3. ASSUME \/ \E d \in Data : \E i \in Events(bt[d], c) : y = <<"batch", d, i>>
               \/ c \in B /\ y = <<"binded">>
        PROVE  FALSE
    BY <2>3, InHolders DEF S
  <2>4. ASSUME NEW w \in Worker, NEW i \in Events(l2[w], c), y = <<"list", w, i>>,
               i > 1 \/ ~ Checks(p2[w])
        PROVE  i \in Int /\ <<"queue", b, i>> \in S /\ y = <<"list", b, i + off[b]>>
    <3>1. w = b
      BY <1>0, <2>4, InHolders DEF S
    <3>2. i \in Events(q[b], c) /\ i \in Int /\ i + off[b] = i
      BY <1>0, <1>2, <2>4, <3>1, EventsNat
    <3>3. <<"queue", b, i>> \in S
      BY <3>2, InHolders DEF S
    <3>. QED
      BY <2>4, <3>1, <3>2, <3>3
  <2>. QED
    BY <2>1, <2>2, <2>3, <2>4
<1>7. Moved(S, T, "queue", "list", {b}, off)
  BY <1>3, <1>4, <1>5, <1>6 DEF Moved
<1>. QED
  BY <1>7 DEF S, T

(* A worker takes its whole list.                                          *)
LEMMA TakeKeeps ==
  ASSUME NamesInv, CountInv, NEW b \in Worker, Waits(b), UNCHANGED <<running, batch, binded, refs>>,
         list' = [list EXCEPT ![b] = queue[b]], queue' = [queue EXCEPT ![b] = << >>],
         NEW p \in {"idle", "run"}, pc' = [pc EXCEPT ![b] = p]
  PROVE  \A c \in Conn : CountOK(c)' /\ Kept(c)
<1> SUFFICES ASSUME NEW c \in Conn PROVE CountOK(c)' /\ Kept(c)
  OBVIOUS
<1> DEFINE off == [d \in {b} |-> 0]
           S == HoldersIn(queue, batch, list, pc, binded, c)
           T == HoldersIn(queue', batch, list', pc', binded, c)
<1>0. /\ list[b] = << >> /\ queue'[b] = << >> /\ list'[b] = queue[b] /\ ~ Checks(pc'[b])
      /\ \A w \in Worker \ {b} :
           list'[w] = list[w] /\ queue'[w] = queue[w] /\ pc'[w] = pc[w]
  BY ListTypes DEF Checks
<1>2. off \in [{b} -> Int] /\ off[b] = 0
  OBVIOUS
<1> HIDE DEF off, S, T
<1>7. IsFiniteSet(S) /\ S = Holders(c) /\ T = Holders(c)'
  BY HoldersNow, HoldersNext DEF S, T, CountInv, CountOK
<1>8. Moved(S, T, "queue", "list", {b}, off)
  BY <1>0, <1>2, TakeMoved DEF S, T
<1>9. IsFiniteSet(T) /\ Cardinality(T) = Cardinality(S)
  BY <1>2, <1>7, <1>8, MovedCount
<1>. QED
  BY <1>7, <1>9, CountStays

(* The next event of a list: those behind the one that ended, which gave   *)
(* its count back, move up by one.                                         *)
LEMMA NextKeeps ==
  ASSUME NamesInv, CountInv, NEW b \in Worker, Checks(pc[b]), NextEvent(b),
         UNCHANGED <<running, queue, batch, binded, refs>>
  PROVE  \A c \in Conn : CountOK(c)' /\ Kept(c)
<1> SUFFICES ASSUME NEW c \in Conn PROVE CountOK(c)' /\ Kept(c)
  OBVIOUS
<1> DEFINE off == [d \in {b} |-> -1]
           S == HoldersIn(queue, batch, list, pc, binded, c)
           T == HoldersIn(queue, batch, list', pc', binded, c)
<1>0. /\ list'[b] = Tail(list[b]) /\ ~ Checks(pc'[b])
      /\ \A w \in Worker \ {b} : list'[w] = list[w] /\ pc'[w] = pc[w]
      /\ list[b] # << >> /\ list[b] \in Seq(AnyEvent)
  BY ListTypes DEF Checks, NextEvent, Waits
<1>1. \A i \in Int : i \in Events(list'[b], c) <=> i >= 1 /\ i + 1 \in Events(list[b], c)
  BY <1>0, TailEvents
<1>2. off \in [{b} -> Int] /\ off[b] = -1
  OBVIOUS
<1> HIDE DEF off, S, T
<1>3. \A x \in S : x[1] = "list" /\ x[2] \in {b} =>
                     \E w \in {b} : \E i \in Int : x = <<"list", w, i>>
  BY InHolders, EventsNat DEF S
<1>4. \A w \in {b} : \A i \in Int : <<"list", w, i>> \in S =>
        /\ <<"list", w, i + off[w]>> \in T
        /\ "list" = "list" \/ <<"list", w, i + off[w]>> \notin S
  <2> SUFFICES ASSUME NEW i \in Int, <<"list", b, i>> \in S PROVE <<"list", b, i + off[b]>> \in T
    OBVIOUS
  <2>1. i \in Events(list[b], c) /\ i > 1
    BY InHolders DEF S
  <2>2. i + off[b] \in Int /\ i + off[b] >= 1 /\ (i + off[b]) + 1 = i
    BY <1>2, <2>1
  <2>3. i + off[b] \in Events(list'[b], c)
    BY <1>1, <2>1, <2>2
  <2>. QED
    BY <1>0, <2>3, InHolders DEF T
<1>5. \A x \in S : ~ (x[1] = "list" /\ x[2] \in {b}) => x \in T
  <2> SUFFICES ASSUME NEW x \in S, ~ (x[1] = "list" /\ x[2] \in {b}) PROVE x \in T
    OBVIOUS
  <2>1. \/ \E w \in Worker : \E i \in Events(queue[w], c) : x = <<"queue", w, i>>
        \/ \E d \in Data : \E i \in Events(batch[d], c) : x = <<"batch", d, i>>
        \/ \E w \in Worker : \E i \in Events(list[w], c) :
             x = <<"list", w, i>> /\ (i > 1 \/ ~ Checks(pc[w]))
        \/ c \in binded /\ x = <<"binded">>
    BY InHolders DEF S
  <2>2. \/ \E w \in Worker : \E i \in Events(queue[w], c) : x = <<"queue", w, i>>
        \/ \E d \in Data : \E i \in Events(batch[d], c) : x = <<"batch", d, i>>
        \/ \E w \in Worker : \E i \in Events(list'[w], c) :
             x = <<"list", w, i>> /\ (i > 1 \/ ~ Checks(pc'[w]))
        \/ c \in binded /\ x = <<"binded">>
    BY <1>0, <2>1
  <2>. QED
    BY <2>2, InHolders DEF T
<1>6. \A y \in T : \/ y \in S /\ ~ (y[1] = "list" /\ y[2] \in {b})
                   \/ \E w \in {b} : \E i \in Int :
                        <<"list", w, i>> \in S /\ y = <<"list", w, i + off[w]>>
  <2> SUFFICES ASSUME NEW y \in T, ~ (y \in S /\ ~ (y[1] = "list" /\ y[2] \in {b}))
               PROVE  \E i \in Int : <<"list", b, i>> \in S /\ y = <<"list", b, i + off[b]>>
    OBVIOUS
  <2>1. \/ \E w \in Worker : \E i \in Events(queue[w], c) : y = <<"queue", w, i>>
        \/ \E d \in Data : \E i \in Events(batch[d], c) : y = <<"batch", d, i>>
        \/ \E w \in Worker : \E i \in Events(list'[w], c) :
             y = <<"list", w, i>> /\ (i > 1 \/ ~ Checks(pc'[w]))
        \/ c \in binded /\ y = <<"binded">>
    BY InHolders DEF T
  <2>2. ASSUME \/ \E w \in Worker : \E i \in Events(queue[w], c) : y = <<"queue", w, i>>
               \/ \E d \in Data : \E i \in Events(batch[d], c) : y = <<"batch", d, i>>
               \/ c \in binded /\ y = <<"binded">>
        PROVE  FALSE
    BY <2>2, InHolders DEF S
  <2>3. ASSUME NEW w \in Worker, NEW i \in Events(list'[w], c), y = <<"list", w, i>>,
               i > 1 \/ ~ Checks(pc'[w])
        PROVE  \E j \in Int : <<"list", b, j>> \in S /\ y = <<"list", b, j + off[b]>>
    <3>1. w = b
      BY <1>0, <2>3, InHolders DEF S
    <3>2. i \in Int /\ i >= 1 /\ i + 1 \in Events(list[b], c)
      BY <1>1, <2>3, <3>1, EventsNat
    <3>3. i + 1 \in Int /\ i + 1 > 1 /\ (i + 1) + off[b] = i
      BY <1>2, <3>2
    <3>4. <<"list", b, i + 1>> \in S
      BY <3>2, <3>3, InHolders DEF S
    <3>. QED
      BY <2>3, <3>1, <3>3, <3>4
  <2>. QED
    BY <2>1, <2>2, <2>3
<1>7. IsFiniteSet(S) /\ S = Holders(c) /\ T = Holders(c)'
  BY HoldersNow, HoldersNext DEF S, T, CountInv, CountOK
<1>8. Moved(S, T, "list", "list", {b}, off)
  BY <1>3, <1>4, <1>5, <1>6 DEF Moved
<1>9. IsFiniteSet(T) /\ Cardinality(T) = Cardinality(S)
  BY <1>2, <1>7, <1>8, MovedCount
<1>. QED
  BY <1>7, <1>9, CountStays

-----------------------------------------------------------------------------
(* append_connection_to_reactor counts the reference of the binded set.    *)
LEMMA BindCounts ==
  ASSUME NamesInv, CountInv, NEW d \in Conn, d \notin binded, Bind(d), SameChecks,
         UNCHANGED <<running, queue, batch, list>>
  PROVE  \A c \in Conn : CountOK(c)' /\ (c = d \/ Kept(c))
<1> SUFFICES ASSUME NEW c \in Conn PROVE CountOK(c)' /\ (c = d \/ Kept(c))
  OBVIOUS
<1>1. binded' = binded \cup {d} /\ refs'[c] = IF c = d THEN refs[c] + 1 ELSE refs[c]
  BY DEF Bind, CountInv
<1>2. \A x : x \in HoldersIn(queue, batch, list, pc', binded', c)
               <=> \/ x \in HoldersIn(queue, batch, list, pc, binded, c)
                   \/ c = d /\ x = <<"binded">>
  BY <1>1, InHolders DEF SameChecks
<1>3. c = d => <<"binded">> \notin HoldersIn(queue, batch, list, pc, binded, c)
  BY InHolders
<1>4. Holders(c)' = Holders(c) \cup (IF c = d THEN {<<"binded">>} ELSE {})
  BY <1>2, HoldersNow, HoldersNext
<1>. QED
  BY <1>1, <1>3, <1>4, HoldersNow, CountSame, CountAdds

(* delete_connection_from_reactor gives it back.                           *)
LEMMA UnbindCounts ==
  ASSUME NamesInv, CountInv, NEW d \in Conn, Unbind(d), SameChecks,
         UNCHANGED <<running, queue, batch, list>>
  PROVE  \A c \in Conn : CountOK(c)' /\ Kept(c)
<1> SUFFICES ASSUME NEW c \in Conn PROVE CountOK(c)' /\ Kept(c)
  OBVIOUS
<1>1. /\ binded' = binded \ {d} /\ d \in binded
      /\ refs'[c] = IF c = d THEN refs[c] - 1 ELSE refs[c]
  BY DEF Unbind, CountInv
<1>2. \A x : x \in HoldersIn(queue, batch, list, pc', binded', c)
               <=> /\ x \in HoldersIn(queue, batch, list, pc, binded, c)
                   /\ ~ (c = d /\ x = <<"binded">>)
  BY <1>1, InHolders DEF SameChecks
<1>3. c = d => <<"binded">> \in HoldersIn(queue, batch, list, pc, binded, c)
  BY <1>1, InHolders
<1>4. Holders(c)' = Holders(c) \ (IF c = d THEN {<<"binded">>} ELSE {})
  BY <1>2, HoldersNow, HoldersNext
<1>. QED
  BY <1>1, <1>3, <1>4, HoldersNow, CountSame, CountRemoves

(* decrease_reference gives back that of the event in hand.                *)
LEMMA DerefCounts ==
  ASSUME NamesInv, CountInv, NEW b \in Worker, Deref(b)
  PROVE  \A c \in Conn : CountOK(c)' /\ Kept(c)
<1> SUFFICES ASSUME NEW c \in Conn PROVE CountOK(c)' /\ Kept(c)
  OBVIOUS
<1> DEFINE d == InHand(b)
<1>0. /\ UNCHANGED <<running, queue, batch, list, binded>>
      /\ pc' = [pc EXCEPT ![b] = "check"] /\ pc[b] = "deref"
      /\ refs' = [refs EXCEPT ![d] = @ - 1]
  BY DEF Deref
<1>1. /\ Checks(pc'[b]) /\ ~ Checks(pc[b])
      /\ \A w \in Worker \ {b} : pc'[w] = pc[w]
      /\ 1 \in Events(list[b], c) <=> c = d
      /\ d \in Conn
  BY <1>0, ListTypes, FirstEvent DEF Checks, Waits
<1>2. refs'[c] = IF c = d THEN refs[c] - 1 ELSE refs[c]
  BY <1>0, <1>1 DEF CountInv
<1> HIDE DEF d
<1>3. \A i \in Events(list[b], c) : i \in Int /\ (i > 1 \/ i = 1)
  BY DEF Events
<1>4. \A x : x \in HoldersIn(queue, batch, list, pc', binded, c)
               <=> /\ x \in HoldersIn(queue, batch, list, pc, binded, c)
                   /\ ~ (c = d /\ x = <<"list", b, 1>>)
  BY <1>1, <1>3, InHolders
<1>5. c = d => <<"list", b, 1>> \in HoldersIn(queue, batch, list, pc, binded, c)
  BY <1>1, InHolders
<1>6. Holders(c)' = Holders(c) \ (IF c = d THEN {<<"list", b, 1>>} ELSE {})
  BY <1>0, <1>4, HoldersNow, HoldersNext
<1>. QED
  BY <1>0, <1>2, <1>5, <1>6, HoldersNow, CountSame, CountRemoves

-----------------------------------------------------------------------------
(* On the way out of exit() holders are dropped and their counts left.     *)
LEMMA LosesKeep ==
  ASSUME CountInv, ~ running', UNCHANGED refs,
         \A c \in Conn : Holders(c)' \subseteq Holders(c)
  PROVE  \A c \in Conn : CountOK(c)' /\ Kept(c)
BY CountLoses

(* exit() is final.                                                        *)
LEMMA RunningStep == Next => (running' => running)
BY DEF Next, ConnectionThread, Poll, Publish, AcceptBind, AcceptRefused, AcceptNotify,
       AcceptDone, ConnectionThreadEnd, Dispatch, AcceptInsert, ConnectInsert, RequesterThread,
       ConnectAdd, ConnectRefused, ConnectBind, ConnectNotify, AppClose, AppPost, DataThread,
       DataTake, DataRecv, DataSend, DataAbandon, BizThread, Sweep, BizTake, CallbackBegin,
       CallbackEnd, EventEnd, CloseUnbind, ClosePost, Deref, CheckHeld, CheckUnheld, Remove,
       WorkerEnd, Stop, Destroy, Exited, vars

(* Every step keeps the count of every connection.                         *)
LEMMA CountStep ==
  ASSUME NamesInv, CloseInv, CountInv, Next
  PROVE  \A c \in Conn : CountOK(c)' /\ (Kept(c) \/ Gains(c))
<1> DEFINE Goal == \A c \in Conn : CountOK(c)' /\ (Kept(c) \/ Gains(c))
<1>0. /\ running' => running
      /\ pc \in [Worker -> WorkerStates]
      /\ \A w \in Worker : ~ Waits(w) => InHand(w) \in Conn
      /\ Data \subseteq Worker /\ Biz \subseteq Worker /\ Born \subseteq Conn
      /\ cpc = "done" => ~ running
  BY RunningStep, ListTypes, FirstEvent, Workers DEF CountInv
<1>1. CASE ConnectionThread
  <2>1. ASSUME NEW d \in Conn, Dispatch(d) PROVE Goal
    <3>1. Kept(d) \/ Gains(d)
      <4>1. CASE d \in normal
        BY <4>1 DEF Gains
      <4>2. CASE d \notin normal
        BY <2>1, <4>2, NothingMoves, <1>0 DEF Dispatch, SameChecks
      <4>. QED
        BY <4>1, <4>2
    <3>. QED
      BY <2>1, <3>1, DispatchCounts
  <2>2. CASE Publish
    BY <2>2, PublishKeeps
  <2>3. CASE AcceptBind
    <3>1. newcomer \in Conn /\ newcomer \notin binded
      BY <2>3 DEF AcceptBind, NamesInv, ActorsOK, CloseInv, CloseOK, Fresh, Accepted
    <3>. QED
      BY <2>3, <3>1, BindCounts DEF AcceptBind, SameChecks, Gains
  <2>4. CASE AcceptNotify
    <3>1. newcomer \in Conn
      BY <2>4 DEF AcceptNotify, NamesInv, ActorsOK, Accepted
    <3>. QED
      BY <1>0, <2>4, <3>1, AppendCounts DEF AcceptNotify, SameChecks, BizKinds, Gains
  <2>5. CASE Poll \/ AcceptRefused \/ AcceptDone \/ ConnectionThreadEnd
    BY <1>0, <2>5, NothingMoves
       DEF Poll, AcceptRefused, AcceptDone, ConnectionThreadEnd, SameChecks
  <2>6. ASSUME NEW d \in Conn, AcceptInsert(d) PROVE Goal
    BY <1>0, <2>6, NothingMoves DEF AcceptInsert, Insert, SameChecks
  <2>. QED
    BY <1>1, <2>1, <2>2, <2>3, <2>4, <2>5, <2>6 DEF ConnectionThread
<1>2. ASSUME NEW d \in Requester, ConnectInsert(d) \/ RequesterThread(d) PROVE Goal
  <2>1. CASE ConnectInsert(d) \/ ConnectAdd(d) \/ ConnectRefused(d)
    BY <1>0, <2>1, NothingMoves DEF ConnectInsert, ConnectAdd, ConnectRefused, SameChecks
  <2>2. CASE ConnectBind(d)
    <3>1. d \in Conn /\ d \notin binded
      BY <2>2, ReactorAssumption DEF ConnectBind, CloseInv, CloseOK, Fresh
    <3>. QED
      BY <2>2, <3>1, BindCounts DEF ConnectBind, SameChecks, Gains
  <2>3. CASE ConnectNotify(d)
    BY <1>0, <2>3, ReactorAssumption, AppendCounts
       DEF ConnectNotify, SameChecks, BizKinds, Gains
  <2>. QED
    BY <1>2, <2>1, <2>2, <2>3 DEF RequesterThread
<1>3. ASSUME NEW d \in Closeable, AppClose(d) PROVE Goal
  BY <1>3, ReactorAssumption, UnbindCounts DEF AppClose, SameChecks
<1>4. ASSUME NEW d \in Closeable, AppPost(d) PROVE Goal
  BY <1>0, <1>4, ReactorAssumption, AppendCounts DEF AppPost, SameChecks, BizKinds, Gains
<1>5. ASSUME NEW d \in Data, DataThread(d) PROVE Goal
  <2>0. d \in Worker
    BY <1>0
  <2>1. CASE DataTake(d)
    BY <2>0, <2>1, TakeKeeps DEF DataTake, Waits
  <2>2. CASE DataRecv(d)
    <3>1. SameChecks
      BY <1>0, <2>0, <2>2 DEF DataRecv, SameChecks, Checks
    <3>2. InHand(d) \in Conn /\ Gains(InHand(d))
      BY <1>0, <2>0, <2>2 DEF DataRecv, Waits, Checks, Gains
    <3>3. AppendBusiness(InHand(d), "recv") \/ UNCHANGED <<queue, refs>>
      BY <2>2 DEF DataRecv
    <3>4. UNCHANGED <<batch, list, binded>>
      BY <2>2 DEF DataRecv
    <3>. QED
      BY <1>0, <3>1, <3>2, <3>3, <3>4, NothingMoves, AppendCounts DEF BizKinds
  <2>3. CASE DataSend(d)
    <3>1. SameChecks
      BY <1>0, <2>0, <2>3 DEF DataSend, SameChecks, Checks
    <3>2. InHand(d) \in Conn /\ Gains(InHand(d))
      BY <1>0, <2>0, <2>3 DEF DataSend, Waits, Checks, Gains
    <3>3. AppendBusiness(InHand(d), "send") \/ UNCHANGED <<queue, refs>>
      BY <2>3 DEF DataSend
    <3>4. UNCHANGED <<batch, list, binded>>
      BY <2>3 DEF DataSend
    <3>. QED
      BY <1>0, <3>1, <3>2, <3>3, <3>4, NothingMoves, AppendCounts DEF BizKinds
  <2>4. CASE DataAbandon(d)
    <3>1. /\ list' = [list EXCEPT ![d] = << >>] /\ pc' = [pc EXCEPT ![d] = "idle"]
          /\ UNCHANGED <<running, queue, batch, binded, refs>> /\ ~ running
      BY <2>4 DEF DataAbandon
    <3>2. ASSUME NEW c \in Conn PROVE Holders(c)' \subseteq Holders(c)
      <4>1. \A w \in Worker : \A i \in Events(list'[w], c) :
              i \in Events(list[w], c) /\ pc'[w] = pc[w]
        BY <1>0, <2>0, <3>1, ListTypes DEF Events
      <4>2. \A x : x \in HoldersIn(queue, batch, list', pc', binded, c)
                     => x \in HoldersIn(queue, batch, list, pc, binded, c)
        BY <4>1, InHolders
      <4>. QED
        BY <3>1, <4>2, HoldersNow, HoldersNext
    <3>. QED
      BY <3>1, <3>2, LosesKeep
  <2>. QED
    BY <1>5, <2>1, <2>2, <2>3, <2>4 DEF DataThread
<1>6. ASSUME NEW b \in Biz, BizThread(b) PROVE Goal
  <2>0. b \in Worker
    BY <1>0
  <2>1. CASE Sweep(b) \/ CallbackBegin(b) \/ CallbackEnd(b)
    <3>1. SameChecks
      BY <1>0, <2>0, <2>1 DEF Sweep, CallbackBegin, CallbackEnd, SameChecks, Checks
    <3>. QED
      BY <1>0, <2>1, <3>1, NothingMoves DEF Sweep, CallbackBegin, CallbackEnd
  <2>2. CASE BizTake(b)
    BY <2>0, <2>2, TakeKeeps DEF BizTake, Waits
  <2>. QED
    BY <1>6, <2>1, <2>2 DEF BizThread
<1>7. ASSUME NEW w \in Worker, EventEnd(w) PROVE Goal
  <2>1. CASE CloseUnbind(w)
    <3>1. SameChecks
      BY <1>0, <2>1 DEF CloseUnbind, SameChecks, Checks
    <3>2. InHand(w) \in Conn
      BY <1>0, <2>1 DEF CloseUnbind, Waits
    <3>3. UNCHANGED <<running, queue, batch, list>>
          /\ (Unbind(InHand(w)) \/ UNCHANGED <<binded, refs>>)
      BY <2>1 DEF CloseUnbind
    <3>. QED
      BY <1>0, <3>1, <3>2, <3>3, NothingMoves, UnbindCounts
  <2>2. CASE ClosePost(w)
    <3>1. SameChecks
      BY <1>0, <2>2 DEF ClosePost, SameChecks, Checks
    <3>2. InHand(w) \in Conn /\ Gains(InHand(w))
      BY <1>0, <2>2 DEF ClosePost, Waits, Checks, Gains
    <3>. QED
      BY <1>0, <2>2, <3>1, <3>2, AppendCounts DEF ClosePost, BizKinds
  <2>3. CASE Deref(w)
    BY <2>3, DerefCounts
  <2>4. CASE CheckHeld(w) \/ Remove(w)
    BY <2>4, NextKeeps DEF CheckHeld, Remove, Checks
  <2>5. CASE CheckUnheld(w) \/ WorkerEnd(w)
    <3>1. SameChecks
      BY <1>0, <2>5 DEF CheckUnheld, WorkerEnd, SameChecks, Checks
    <3>. QED
      BY <1>0, <2>5, <3>1, NothingMoves DEF CheckUnheld, WorkerEnd
  <2>. QED
    BY <1>7, <2>1, <2>2, <2>3, <2>4, <2>5 DEF EventEnd
<1>8. CASE Stop \/ Exited
  BY <1>0, <1>8, NothingMoves DEF Stop, Exited, vars, SameChecks
<1>9. CASE Destroy
  <2>1. /\ queue' = [w \in Worker |-> << >>] /\ binded' = {} /\ ~ running'
        /\ UNCHANGED <<batch, list, pc, refs>>
    BY <1>0, <1>9 DEF Destroy, Joined
  <2>2. ASSUME NEW c \in Conn PROVE Holders(c)' \subseteq Holders(c)
    <3>1. \A w \in Worker : Events(queue'[w], c) = {}
      BY <2>1 DEF Events
    <3>2. \A x : x \in HoldersIn(queue', batch, list, pc, binded', c)
                   => x \in HoldersIn(queue, batch, list, pc, binded, c)
      BY <2>1, <3>1, InHolders
    <3>. QED
      BY <2>1, <3>2, HoldersNow, HoldersNext
  <2>. QED
    BY <2>1, <2>2, LosesKeep
<1>. QED
  BY <1>1, <1>2, <1>3, <1>4, <1>5, <1>6, <1>7, <1>8, <1>9 DEF Next

(* The counts stay counts of connections, and the connection thread ends   *)
(* only in exit().                                                         *)
LEMMA CountShape ==
  ASSUME CountInv, Next
  PROVE  refs' = [c \in Conn |-> refs'[c]] /\ (cpc' = "done" => ~ running')
<1>0. refs = [c \in Conn |-> refs[c]] /\ (cpc = "done" => ~ running)
  BY DEF CountInv
<1>1. \A c, k : AppendBusiness(c, k) => refs' = [d \in Conn |-> refs'[d]]
  BY <1>0 DEF AppendBusiness
<1>2. \A c : Bind(c) \/ Unbind(c) => refs' = [d \in Conn |-> refs'[d]]
  BY <1>0 DEF Bind, Unbind
<1>3. CASE ConnectionThread
  <2>1. \A d \in Conn : Dispatch(d) \/ AcceptInsert(d) =>
          refs' = [c \in Conn |-> refs'[c]] /\ cpc' # "done"
    BY <1>0 DEF Dispatch, AcceptInsert
  <2>2. AcceptBind \/ AcceptNotify => refs' = [c \in Conn |-> refs'[c]] /\ cpc' # "done"
    BY <1>1, <1>2 DEF AcceptBind, AcceptNotify
  <2>3. Poll \/ Publish \/ AcceptRefused \/ AcceptDone => refs' = refs /\ cpc' # "done"
    BY DEF Poll, Publish, AcceptRefused, AcceptDone
  <2>4. ConnectionThreadEnd => refs' = refs /\ ~ running'
    BY DEF ConnectionThreadEnd
  <2>. QED
    BY <1>0, <1>3, <2>1, <2>2, <2>3, <2>4 DEF ConnectionThread
<1>4. ASSUME NEW d \in Requester, ConnectInsert(d) \/ RequesterThread(d)
      PROVE  refs' = [c \in Conn |-> refs'[c]] /\ UNCHANGED <<cpc, running>>
  BY <1>0, <1>1, <1>2, <1>4
     DEF ConnectInsert, RequesterThread, ConnectAdd, ConnectRefused, ConnectBind, ConnectNotify
<1>5. ASSUME NEW d \in Closeable, AppClose(d) \/ AppPost(d)
      PROVE  refs' = [c \in Conn |-> refs'[c]] /\ UNCHANGED <<cpc, running>>
  BY <1>1, <1>2, <1>5 DEF AppClose, AppPost
<1>6. ASSUME NEW d \in Data, DataThread(d)
      PROVE  refs' = [c \in Conn |-> refs'[c]] /\ UNCHANGED <<cpc, running>>
  BY <1>0, <1>1, <1>6 DEF DataThread, DataTake, DataRecv, DataSend, DataAbandon
<1>7. ASSUME NEW b \in Biz, BizThread(b)
      PROVE  refs' = [c \in Conn |-> refs'[c]] /\ UNCHANGED <<cpc, running>>
  BY <1>0, <1>7 DEF BizThread, Sweep, BizTake, CallbackBegin, CallbackEnd
<1>8. ASSUME NEW w \in Worker, EventEnd(w)
      PROVE  refs' = [c \in Conn |-> refs'[c]] /\ UNCHANGED <<cpc, running>>
  BY <1>0, <1>1, <1>2, <1>8 DEF EventEnd, CloseUnbind, ClosePost, Deref, CheckHeld, CheckUnheld,
     Remove, WorkerEnd
<1>9. CASE Stop \/ Destroy \/ Exited
  BY <1>0, <1>9 DEF Stop, Destroy, Exited, vars
<1>. QED
  BY <1>0, <1>3, <1>4, <1>5, <1>6, <1>7, <1>8, <1>9 DEF Next

(* At the start nothing is held and nothing counted.                       *)
LEMMA InitCounts == Init => CountInv
<1> SUFFICES ASSUME Init PROVE CountInv
  OBVIOUS
<1>1. ASSUME NEW c \in Conn PROVE Holders(c) = {}
  <2>1. /\ \A w \in Worker : Events(queue[w], c) = {} /\ Events(list[w], c) = {}
        /\ \A d \in Data : Events(batch[d], c) = {}
        /\ binded = {}
    BY DEF Init, Events
  <2>2. \A x : x \notin HoldersIn(queue, batch, list, pc, binded, c)
    BY <2>1, InHolders
  <2>. QED
    BY <2>2, HoldersNow
<1>2. \A c \in Conn : refs[c] = 0
  BY DEF Init
<1>3. \A c \in Conn : CountOK(c)
  BY <1>1, <1>2, FS_EmptySet DEF CountOK
<1>. QED
  BY <1>3 DEF Init, CountInv

(* The invariant is inductive, given the two of Reactor_proofs.            *)
LEMMA CountInvStep == NamesInv /\ CloseInv /\ CountInv /\ [Next]_vars => CountInv'
<1> SUFFICES ASSUME NamesInv, CloseInv, CountInv, [Next]_vars PROVE CountInv'
  OBVIOUS
<1>1. CASE Next
  BY <1>1, CountStep, CountShape DEF CountInv
<1>2. CASE UNCHANGED vars
  <2>1. \A c \in Conn : CountOK(c)'
    BY <1>2, NothingMoves DEF vars, SameChecks
  <2>. QED
    BY <1>2, <2>1 DEF vars, CountInv
<1>. QED
  BY <1>1, <1>2

(* m_references of a live connection is the number of those that hold it:  *)
(* the binded set, each event on its way in a batch, a list or a thread's  *)
(* list, and the event in hand until decrease_reference, whichever threads *)
(* append, take, merge, handle and end events at the same time.            *)
THEOREM ReferencesCounted == Spec => []RefsCountHolders
<1>1. CountInv => RefsCountHolders
  BY DEF CountInv, CountOK, RefsCountHolders
<1>. QED
  BY <1>1, InitNames, NamesStep, InitCloses, CloseInvStep, InitCounts, CountInvStep, PTL DEF Spec

-----------------------------------------------------------------------------
(* s has an event of c.                                                    *)
Named(s, c) == Events(s, c) # {}

(* No event names c.                                                       *)
Unnamed(c) ==
  /\ \A w \in Worker : ~ Named(queue[w], c) /\ ~ Named(list[w], c)
  /\ \A d \in Data : ~ Named(batch[d], c)

(* Those that may post a business event of c in the next step.             *)
Posts(c) ==
  \/ c \in Requester
  \/ c \in Closeable /\ closer[c] = "post"
  \/ cpc = "notify" /\ cpc' = "accept" /\ c = newcomer
  \/ \E w \in Worker : ~ Waits(w) /\ ~ Checks(pc[w]) /\ c = InHand(w)

(* append_business_event names its connection in its own list and no other *)
(* anywhere.                                                               *)
LEMMA AppendNames ==
  ASSUME NamesInv, NEW d \in Conn, NEW k \in BizKinds, AppendBusiness(d, k), NEW c,
         NEW w \in Worker, Named(queue'[w], c)
  PROVE  Named(queue[w], c) \/ (c = d /\ w = BizOf(c))
<1>1. CASE UNCHANGED queue
  BY <1>1
<1>2. CASE queue' = [queue EXCEPT ![BizOf(d)] = Append(@, Event(d, k))]
  <2>1. CASE w # BizOf(d)
    BY <1>2, <2>1, ListTypes
  <2>2. CASE w = BizOf(d)
    <3> DEFINE e == Event(d, k)
    <3>1. e \in AnyEvent /\ e.conn = d /\ queue[w] \in Seq(AnyEvent)
          /\ queue'[w] = Append(queue[w], e)
      BY <1>2, <2>2, ListTypes DEF Event, AnyEvent, EventsOf
    <3> HIDE DEF e
    <3>2. Events(queue'[w], c) = Events(queue[w], c) \cup (IF d = c THEN {Len(queue[w]) + 1} ELSE {})
      BY <3>1, AppendEvents
    <3>. QED
      BY <2>2, <3>2 DEF Named
  <2>. QED
    BY <2>1, <2>2
<1>. QED
  BY <1>1, <1>2 DEF AppendBusiness

(* What a step may name anew in a list: what was in the batch or the queue *)
(* before it, what somebody posts, what epoll reported.                    *)
LEMMA NamedStep ==
  ASSUME NamesInv, Next, NEW c \in Conn
  PROVE  /\ \A w \in Worker : Named(queue'[w], c) =>
              \/ Named(queue[w], c)
              \/ w \in Data /\ Named(batch[w], c)
              \/ w = BizOf(c) /\ Posts(c)
         /\ \A w \in Worker : Named(list'[w], c) => Named(list[w], c) \/ Named(queue[w], c)
         /\ \A d \in Data : Named(batch'[d], c) =>
              Named(batch[d], c) \/ (cpc = "dispatch" /\ c \in polled \cap normal)
<1> DEFINE Goal ==
         /\ \A w \in Worker : Named(queue'[w], c) =>
              \/ Named(queue[w], c)
              \/ w \in Data /\ Named(batch[w], c)
              \/ w = BizOf(c) /\ Posts(c)
         /\ \A w \in Worker : Named(list'[w], c) => Named(list[w], c) \/ Named(queue[w], c)
         /\ \A d \in Data : Named(batch'[d], c) =>
              Named(batch[d], c) \/ (cpc = "dispatch" /\ c \in polled \cap normal)
<1>0. /\ pc \in [Worker -> WorkerStates]
      /\ \A w \in Worker : ~ Waits(w) => InHand(w) \in Conn
      /\ Data \subseteq Worker /\ Biz \subseteq Worker
      /\ queue = [w \in Worker |-> queue[w]] /\ list = [w \in Worker |-> list[w]]
      /\ ~ Named(<< >>, c)
  <2>1. ~ Named(<< >>, c)
    BY DEF Named, Events
  <2>2. \A w \in Worker : ~ Waits(w) => InHand(w) \in Conn
    BY FirstEvent DEF Born
  <2>. QED
    BY <2>1, <2>2, ListTypes, Workers
<1>1. ASSUME UNCHANGED <<list, batch>>, NEW d \in Conn, NEW k \in BizKinds,
             AppendBusiness(d, k) \/ UNCHANGED queue, Posts(d)
      PROVE  Goal
  <2>1. CASE UNCHANGED queue
    BY <1>1, <2>1
  <2>2. CASE AppendBusiness(d, k)
    <3>1. \A w \in Worker : Named(queue'[w], c) => Named(queue[w], c) \/ (c = d /\ w = BizOf(c))
      BY <1>1, <2>2, AppendNames
    <3>. QED
      BY <1>1, <3>1
  <2>. QED
    BY <1>1, <2>1, <2>2
<1>2. CASE UNCHANGED <<queue, list, batch>>
  BY <1>2
<1>3. ASSUME NEW d \in Conn, Dispatch(d) PROVE Goal
  <2>1. UNCHANGED <<queue, list>> /\ cpc = "dispatch" /\ d \in polled
    BY <1>3 DEF Dispatch
  <2>2. ASSUME NEW k \in DataKinds, d \in normal,
               batch' = [batch EXCEPT ![DataOf(d)] = Append(@, Event(d, k))],
               NEW x \in Data, Named(batch'[x], c)
        PROVE  Named(batch[x], c) \/ c = d
    <3>1. CASE x # DataOf(d)
      BY <2>2, <3>1, ListTypes
    <3>2. CASE x = DataOf(d)
      <4> DEFINE e == Event(d, k)
      <4>1. e \in AnyEvent /\ e.conn = d /\ batch[x] \in Seq(AnyEvent)
            /\ batch'[x] = Append(batch[x], e)
        BY <2>2, <3>2, ListTypes DEF Event, AnyEvent, EventsOf
      <4> HIDE DEF e
      <4>2. Events(batch'[x], c) = Events(batch[x], c)
                                     \cup (IF d = c THEN {Len(batch[x]) + 1} ELSE {})
        BY <4>1, AppendEvents
      <4>. QED
        BY <2>2, <4>2 DEF Named
    <3>. QED
      BY <3>1, <3>2
  <2>3. \A x \in Data : Named(batch'[x], c) => Named(batch[x], c) \/ (c = d /\ d \in normal)
    BY <1>3, <2>2 DEF Dispatch
  <2>. QED
    BY <2>1, <2>3
<1>4. CASE Publish
  <2>1. ASSUME NEW w \in Worker, Named(queue'[w], c)
        PROVE  Named(queue[w], c) \/ (w \in Data /\ Named(batch[w], c))
    <3>1. CASE w \in Data
      <4>1. PICK i : i \in Events(queue'[w], c)
        BY <2>1 DEF Named
      <4>2. queue'[w] = queue[w] \o batch[w] /\ i \in Int
        BY <1>4, <3>1, <4>1, EventsNat DEF Publish
      <4>3. queue[w] \in Seq(AnyEvent) /\ batch[w] \in Seq(AnyEvent)
        BY <3>1, ListTypes
      <4>4. i \in Events(queue[w], c) \/ i - Len(queue[w]) \in Events(batch[w], c)
        BY <4>1, <4>2, <4>3, ConcatEvents
      <4>. QED
        BY <3>1, <4>4 DEF Named
    <3>2. CASE w \notin Data
      BY <1>4, <2>1, <3>2 DEF Publish
    <3>. QED
      BY <3>1, <3>2
  <2>2. list' = list /\ batch' = [d \in Data |-> << >>]
    BY <1>4 DEF Publish
  <2>. QED
    BY <1>0, <2>1, <2>2
<1>5. CASE AcceptNotify
  <2>1. newcomer \in Conn /\ Posts(newcomer)
    BY <1>5 DEF AcceptNotify, NamesInv, ActorsOK, Accepted, Posts
  <2>. QED
    BY <1>1, <1>5, <2>1 DEF AcceptNotify, BizKinds
<1>6. CASE Destroy
  <2>1. queue' = [w \in Worker |-> << >>] /\ UNCHANGED <<list, batch>>
    BY <1>6 DEF Destroy
  <2>. QED
    BY <1>0, <2>1
<1>7. ASSUME NEW d \in Requester, ConnectNotify(d) PROVE Goal
  BY <1>1, <1>7, ReactorAssumption DEF ConnectNotify, BizKinds, Posts
<1>8. ASSUME NEW d \in Closeable, AppPost(d) PROVE Goal
  BY <1>1, <1>8, ReactorAssumption DEF AppPost, BizKinds, Posts
<1>9. ASSUME NEW w \in Worker, list' = [list EXCEPT ![w] = queue[w]],
             queue' = [queue EXCEPT ![w] = << >>], UNCHANGED batch
      PROVE  Goal
  BY <1>0, <1>9
<1>10. ASSUME NEW d \in Data, DataThread(d) PROVE Goal
  <2>0. d \in Worker
    BY <1>0
  <2>1. CASE DataTake(d)
    BY <1>9, <2>0, <2>1 DEF DataTake
  <2>2. CASE DataRecv(d)
    <3>1. InHand(d) \in Conn /\ Posts(InHand(d))
      BY <1>0, <2>0, <2>2 DEF DataRecv, Waits, Checks, Posts
    <3>. QED
      BY <1>1, <2>2, <3>1 DEF DataRecv, BizKinds
  <2>3. CASE DataSend(d)
    <3>1. InHand(d) \in Conn /\ Posts(InHand(d))
      BY <1>0, <2>0, <2>3 DEF DataSend, Waits, Checks, Posts
    <3>. QED
      BY <1>1, <2>3, <3>1 DEF DataSend, BizKinds
  <2>4. CASE DataAbandon(d)
    BY <1>0, <2>0, <2>4 DEF DataAbandon
  <2>. QED
    BY <1>10, <2>1, <2>2, <2>3, <2>4 DEF DataThread
<1>11. ASSUME NEW b \in Biz, BizThread(b) PROVE Goal
  <2>0. b \in Worker
    BY <1>0
  <2>1. CASE BizTake(b)
    BY <1>9, <2>0, <2>1 DEF BizTake
  <2>2. CASE Sweep(b) \/ CallbackBegin(b) \/ CallbackEnd(b)
    BY <1>2, <2>2 DEF Sweep, CallbackBegin, CallbackEnd
  <2>. QED
    BY <1>11, <2>1, <2>2 DEF BizThread
<1>12. ASSUME NEW w \in Worker, EventEnd(w) PROVE Goal
  <2>1. CASE ClosePost(w)
    <3>1. InHand(w) \in Conn /\ Posts(InHand(w))
      BY <1>0, <2>1 DEF ClosePost, Waits, Checks, Posts
    <3>. QED
      BY <1>1, <2>1, <3>1 DEF ClosePost, BizKinds
  <2>2. CASE CheckHeld(w) \/ Remove(w)
    <3>1. ~ Waits(w) /\ UNCHANGED <<queue, batch>> /\ list' = [list EXCEPT ![w] = Tail(@)]
      BY <2>2 DEF CheckHeld, Remove, NextEvent, Waits
    <3>2. list[w] # << >> /\ list[w] \in Seq(AnyEvent)
      BY <3>1, ListTypes
    <3>3. ASSUME NEW i \in Events(Tail(list[w]), c) PROVE i + 1 \in Events(list[w], c)
      BY <3>2, <3>3, EventsNat, TailEvents
    <3>4. \A v \in Worker : Named(list'[v], c) => Named(list[v], c)
      BY <1>0, <3>1, <3>3 DEF Named
    <3>. QED
      BY <3>1, <3>4
  <2>3. CASE CloseUnbind(w) \/ Deref(w) \/ CheckUnheld(w) \/ WorkerEnd(w)
    BY <1>2, <2>3 DEF CloseUnbind, Deref, CheckUnheld, WorkerEnd
  <2>. QED
    BY <1>12, <2>1, <2>2, <2>3 DEF EventEnd
<1>13. UNCHANGED <<queue, list, batch, pc>> => Goal
  BY <1>2
<1>. QED
  BY <1>3, <1>4, <1>5, <1>6, <1>7, <1>8, <1>10, <1>11, <1>12, <1>13, ListsMoves

-----------------------------------------------------------------------------
(* The connection thread has events or reports in hand only while it deals *)
(* with what epoll_wait returned.                                          *)
DispatchOK ==
  cpc # "dispatch" => polled = {} /\ \A d \in Data : batch[d] = << >>

(* While do_accept sets up a connection nobody else knows of it, although  *)
(* epoll may report it already.                                            *)
NewcomerOK ==
  cpc \in {"bind", "notify"} =>
    /\ Unnamed(newcomer) /\ newcomer \notin opened
    /\ newcomer \in Closeable => closer[newcomer] = "idle"
    /\ cpc = "bind" => newcomer \in normal
    /\ cpc = "notify" => newcomer \in binded

(* What is in the normal set is live, and what the service was told of was *)
(* allocated.                                                              *)
KnownOK ==
  /\ \A c \in normal : life[c] = "live"
  /\ opened \subseteq Born

(* The inductive invariant behind HeldIsLive.                              *)
HeldInv == DispatchOK /\ NewcomerOK /\ KnownOK /\ HeldIsLive

(* Only the connection thread moves its own control and what it has in     *)
(* hand.                                                                   *)
LEMMA ConnectionOwns ==
  Next => ConnectionThread \/ UNCHANGED <<cpc, polled, batch, newcomer>>
BY DEF Next, ConnectInsert, RequesterThread, ConnectAdd, ConnectRefused, ConnectBind,
       ConnectNotify, AppClose, AppPost, DataThread, DataTake, DataRecv, DataSend, DataAbandon,
       BizThread, Sweep, BizTake, CallbackBegin, CallbackEnd, EventEnd, CloseUnbind, ClosePost,
       Deref, CheckHeld, CheckUnheld, Remove, WorkerEnd, Stop, Destroy, Exited, vars

(* The service is told of the connection in hand of a business thread.     *)
LEMMA OpenedBy ==
  Next => opened' = opened
          \/ \E b \in Biz : pc[b] = "run" /\ opened' = opened \cup {InHand(b)}
BY DEF Next, ConnectionThread, Poll, Publish, AcceptBind, AcceptRefused, AcceptNotify,
       AcceptDone, ConnectionThreadEnd, Dispatch, AcceptInsert, ConnectInsert, RequesterThread,
       ConnectAdd, ConnectRefused, ConnectBind, ConnectNotify, AppClose, AppPost, DataThread,
       DataTake, DataRecv, DataSend, DataAbandon, BizThread, Sweep, BizTake, CallbackBegin,
       CallbackEnd, EventEnd, CloseUnbind, ClosePost, Deref, CheckHeld, CheckUnheld, Remove,
       WorkerEnd, Stop, Destroy, Exited, vars

(* The connection thread empties its hands before it leaves them.          *)
LEMMA DispatchStep ==
  ASSUME DispatchOK, Next
  PROVE  DispatchOK'
<1>1. CASE UNCHANGED <<cpc, polled, batch, newcomer>>
  BY <1>1 DEF DispatchOK
<1>2. ASSUME NEW d \in Conn, Dispatch(d) \/ AcceptInsert(d) PROVE DispatchOK'
  BY <1>2 DEF Dispatch, AcceptInsert, DispatchOK
<1>3. CASE Poll \/ Publish
  BY <1>3 DEF Poll, Publish, DispatchOK
<1>4. CASE AcceptBind \/ AcceptRefused \/ AcceptNotify \/ AcceptDone \/ ConnectionThreadEnd
  BY <1>4 DEF AcceptBind, AcceptRefused, AcceptNotify, AcceptDone, ConnectionThreadEnd, DispatchOK
<1>. QED
  BY <1>1, <1>2, <1>3, <1>4, ConnectionOwns DEF ConnectionThread

(* What is in the normal set stays live, since destroy_invalid_connections *)
(* frees what is in the closed set.                                        *)
LEMMA KnownStep ==
  ASSUME NamesInv, KnownOK, Next
  PROVE  KnownOK'
<1>0. Born \subseteq Born' /\ SetsOK
  BY SetsStep DEF NamesInv
<1>1. opened' \subseteq Born'
  <2>1. ASSUME NEW b \in Biz, pc[b] = "run" PROVE InHand(b) \in Born
    BY <2>1, Workers, FirstEvent DEF Waits
  <2>. QED
    BY <1>0, <2>1, OpenedBy DEF KnownOK
<1> DEFINE Goal == \A c \in normal' : life'[c] = "live"
<1>2. Goal
  <2>0. \A c \in normal : c \in Conn /\ life[c] = "live" /\ c \notin closed
    BY <1>0 DEF KnownOK, NamesInv, Tracked, SetsOK, Born
  <2>1. CASE UNCHANGED <<life, normal, closed, binded, uniq>>
    BY <2>0, <2>1
  <2>2. CASE AcceptBind \/ AcceptRefused
    BY <2>0, <2>2 DEF AcceptBind, AcceptRefused, RemoveConnection
  <2>3. CASE Destroy
    BY <2>3 DEF Destroy
  <2>4. ASSUME NEW c \in Conn, AcceptInsert(c) PROVE Goal
    BY <1>0, <2>0, <2>4 DEF AcceptInsert, Insert, SetsOK
  <2>5. ASSUME NEW c \in Requester, ConnectInsert(c) \/ ConnectRefused(c) \/ ConnectBind(c)
        PROVE  Goal
    BY <1>0, <2>0, <2>5, ReactorAssumption
       DEF ConnectInsert, Insert, ConnectRefused, RemoveConnection, ConnectBind, SetsOK
  <2>6. ASSUME NEW c \in Closeable, AppClose(c) PROVE Goal
    BY <2>0, <2>6 DEF AppClose
  <2>7. ASSUME NEW b \in Biz, Sweep(b) PROVE Goal
    BY <2>0, <2>7 DEF Sweep
  <2>8. ASSUME NEW w \in Worker, CloseUnbind(w) \/ Remove(w) PROVE Goal
    BY <2>0, <2>8 DEF CloseUnbind, Remove, RemoveConnection
  <2>. QED
    BY <2>1, <2>2, <2>3, <2>4, <2>5, <2>6, <2>7, <2>8, SetsMoves
<1>. QED
  BY <1>1, <1>2 DEF KnownOK

(* A connection that was never allocated is named nowhere.                 *)
LEMMA UnbornUnnamed ==
  ASSUME NamesInv, NEW c \in Conn, c \notin Born
  PROVE  Unnamed(c)
<1>1. ASSUME NEW K, NEW s \in Seq(EventsOf(Born, K)) PROVE ~ Named(s, c)
  <2>1. \A i \in 1 .. Len(s) : s[i] \in EventsOf(Born, K)
    BY ElementOfSeq
  <2>. QED
    BY <2>1 DEF Named, Events, EventsOf
<1>. QED
  BY <1>1, Workers DEF Unnamed, NamesInv, ListsOK, ListsFor, ListsOf

(* Nobody else names, takes out or closes the connection that do_accept    *)
(* sets up.                                                                *)
LEMMA NewcomerStep ==
  ASSUME NamesInv, DispatchOK, NewcomerOK, KnownOK, Next
  PROVE  NewcomerOK'
<1>0. SetsOK /\ ActorsOK /\ opened \subseteq Born
  BY DEF NamesInv, KnownOK
<1>1. CASE UNCHANGED <<cpc, newcomer>> /\ cpc \in {"bind", "notify"}
  <2>0. PICK c : c = newcomer
    OBVIOUS
  <2>1. /\ c \in Accepted /\ c \in Conn /\ c \notin Requester /\ Unnamed(c)
        /\ c \notin opened /\ (c \in Closeable => closer[c] = "idle")
    BY <1>0, <1>1, <2>0 DEF NewcomerOK, ActorsOK, Accepted, Born
  <2>2. ASSUME NEW w \in Worker, ~ Waits(w) PROVE InHand(w) # c
    BY <2>1, <2>2, FirstEvent DEF Unnamed, Named
  <2>3. ~ Posts(c)
    BY <1>1, <2>0, <2>1, <2>2 DEF Posts
  <2>4. Unnamed(c)'
    <3>1. /\ \A w \in Worker : ~ Named(queue[w], c) /\ ~ Named(list[w], c)
          /\ \A d \in Data : ~ Named(batch[d], c)
          /\ cpc # "dispatch"
      BY <1>1, <2>1 DEF Unnamed
    <3>2. \A w \in Worker : ~ Named(queue'[w], c) /\ ~ Named(list'[w], c)
      BY <2>1, <2>3, <3>1, NamedStep
    <3>3. \A d \in Data : ~ Named(batch'[d], c)
      BY <2>1, <3>1, NamedStep
    <3>. QED
      BY <3>2, <3>3 DEF Unnamed, Named
  <2>5. c \notin opened'
    BY <2>1, <2>2, OpenedBy, Workers DEF Waits
  <2>6. c \in Closeable => closer'[c] = "idle"
    <3>1. ASSUME NEW d \in Closeable, AppClose(d) \/ AppPost(d)
          PROVE  c \in Closeable => closer'[c] = "idle"
      BY <1>0, <2>1, <3>1 DEF AppClose, AppPost, ActorsOK
    <3>2. UNCHANGED closer \/ \E d \in Closeable : AppClose(d) \/ AppPost(d)
      BY ActorsMoves DEF ConnectInsert, RequesterThread, ConnectAdd, ConnectRefused, ConnectBind,
         ConnectNotify, Destroy, Sweep
    <3>. QED
      BY <2>1, <3>1, <3>2
  <2>7. /\ c \in normal => c \in normal' \/ AcceptRefused
        /\ c \in binded => c \in binded'
    <3> DEFINE Goal == /\ c \in normal => c \in normal' \/ AcceptRefused
                       /\ c \in binded => c \in binded'
    <3>1. CASE UNCHANGED <<life, normal, closed, binded, uniq>> \/ AcceptRefused
      BY <3>1 DEF AcceptRefused
    <3>2. CASE AcceptBind
      BY <3>2 DEF AcceptBind, Bind
    <3>3. CASE Destroy
      BY <1>1, <3>3 DEF Destroy, Joined
    <3>4. ASSUME NEW d \in Conn, AcceptInsert(d) PROVE Goal
      BY <3>4 DEF AcceptInsert, Insert
    <3>5. ASSUME NEW d \in Requester, ConnectInsert(d) \/ ConnectRefused(d) \/ ConnectBind(d)
          PROVE  Goal
      BY <2>1, <3>5 DEF ConnectInsert, Insert, ConnectRefused, RemoveConnection, ConnectBind, Bind
    <3>6. ASSUME NEW d \in Closeable, AppClose(d) PROVE Goal
      BY <2>1, <3>6 DEF AppClose, Unbind
    <3>7. ASSUME NEW b \in Biz, Sweep(b) PROVE Goal
      BY <3>7 DEF Sweep
    <3>8. ASSUME NEW w \in Worker, CloseUnbind(w) \/ Remove(w) PROVE Goal
      BY <2>2, <3>8 DEF CloseUnbind, Unbind, Remove, RemoveConnection, Waits
    <3>. QED
      BY <3>1, <3>2, <3>3, <3>4, <3>5, <3>6, <3>7, <3>8, SetsMoves
  <2>8. ~ AcceptRefused
    BY <1>1 DEF AcceptRefused
  <2>. QED
    BY <1>1, <2>0, <2>1, <2>4, <2>5, <2>6, <2>7, <2>8 DEF NewcomerOK, Unnamed, Named
<1>2. ASSUME NEW d \in Conn, AcceptInsert(d) PROVE NewcomerOK'
  <2>1. /\ d \notin Born /\ d \notin opened
        /\ UNCHANGED <<queue, list, batch, opened, closer>>
        /\ newcomer' = d /\ cpc' = "bind" /\ d \in normal'
    BY <1>0, <1>2 DEF AcceptInsert, Insert, Born
  <2>2. d \in Closeable => closer[d] = "idle"
    BY <1>0, <2>1 DEF ActorsOK
  <2>3. Unnamed(d)'
    BY <2>1, UnbornUnnamed DEF Unnamed, Named
  <2>. QED
    BY <2>1, <2>2, <2>3 DEF NewcomerOK
<1>3. CASE AcceptBind
  <2>1. /\ UNCHANGED <<queue, list, batch, opened, closer, newcomer>>
        /\ cpc = "bind" /\ cpc' = "notify" /\ newcomer \in binded'
    BY <1>3 DEF AcceptBind, Bind
  <2>. QED
    BY <2>1 DEF NewcomerOK, Unnamed, Named
<1>4. ASSUME NEW d \in Conn, Dispatch(d) PROVE NewcomerOK'
  BY <1>4 DEF Dispatch, NewcomerOK
<1>5. CASE Poll \/ Publish \/ AcceptRefused \/ AcceptNotify \/ AcceptDone \/ ConnectionThreadEnd
  BY <1>5 DEF Poll, Publish, AcceptRefused, AcceptNotify, AcceptDone, ConnectionThreadEnd,
     NewcomerOK
<1>6. cpc \notin {"bind", "notify"} /\ UNCHANGED cpc => NewcomerOK'
  BY DEF NewcomerOK
<1>. QED
  BY <1>1, <1>2, <1>3, <1>4, <1>5, <1>6, ConnectionOwns DEF ConnectionThread

(* Who may give a connection a holder in the next step knows a live one.   *)
LEMMA GainsLive ==
  ASSUME NamesInv, HeldInv, NEW c \in Accepted \ Closeable, Gains(c)
  PROVE  c \in normal \/ Holders(c) # {}
<1>1. CASE cpc \in {"bind", "notify"} /\ c = newcomer
  <2>1. c \in normal \/ c \in binded
    BY <1>1 DEF HeldInv, NewcomerOK
  <2>2. c \in binded => <<"binded">> \in HoldersIn(queue, batch, list, pc, binded, c)
    BY InHolders
  <2>. QED
    BY <2>1, <2>2, HoldersNow
<1>2. ASSUME NEW w \in Worker, ~ Waits(w), ~ Checks(pc[w]), c = InHand(w)
      PROVE  Holders(c) # {}
  <2>1. 1 \in Events(list[w], c)
    BY <1>2, FirstEvent
  <2>2. <<"list", w, 1>> \in HoldersIn(queue, batch, list, pc, binded, c)
    BY <1>2, <2>1, InHolders
  <2>. QED
    BY <2>2, HoldersNow
<1>. QED
  BY <1>1, <1>2 DEF Gains, Accepted

(* exit() leaves nothing that holds a connection.                          *)
LEMMA DestroyDrops ==
  ASSUME NamesInv, DispatchOK, Destroy, NEW c
  PROVE  Holders(c)' = {}
<1>1. /\ queue' = [w \in Worker |-> << >>] /\ binded' = {}
      /\ UNCHANGED <<list, batch, pc>>
      /\ \A w \in Worker : list[w] = << >>
      /\ \A d \in Data : batch[d] = << >>
  BY ListTypes DEF Destroy, Joined, DispatchOK, Waits
<1>2. Events(<< >>, c) = {}
  BY DEF Events
<1>3. \A x : x \notin HoldersIn(queue', batch', list', pc', binded', c)
  BY <1>1, <1>2, InHolders
<1>. QED
  BY <1>3, HoldersNext

(* What is held or in the normal set is not freed.                         *)
LEMMA StaysLive ==
  ASSUME NamesInv, CountInv, HeldInv, Next, ~ Destroy, NEW c \in Accepted, life[c] = "live",
         c \in normal \/ Holders(c) # {}
  PROVE  life'[c] = "live"
<1>0. c \in Conn /\ life \in [Conn -> {"unborn", "live", "freed"}]
  BY DEF Accepted, NamesInv, SetsOK
<1>1. ASSUME NEW b \in Biz, Sweep(b) PROVE life'[c] = "live"
  <2>1. c \in normal => c \notin closed
    BY <1>0 DEF NamesInv, Tracked
  <2>2. Holders(c) # {} => refs[c] # 0
    <3>1. IsFiniteSet(Holders(c)) /\ refs[c] = Cardinality(Holders(c))
      BY <1>0, <1>1 DEF CountInv, CountOK, Sweep
    <3>. QED
      BY <3>1, FS_EmptySet
  <2>. QED
    BY <1>0, <1>1, <2>1, <2>2 DEF Sweep, Invalid
<1>2. ASSUME NEW d \in Conn, AcceptInsert(d) PROVE life'[c] = "live"
  BY <1>0, <1>2 DEF AcceptInsert, Insert
<1>3. ASSUME NEW d \in Requester, ConnectInsert(d) \/ ConnectRefused(d) \/ ConnectBind(d)
      PROVE  life'[c] = "live"
  BY <1>0, <1>3 DEF ConnectInsert, Insert, ConnectRefused, ConnectBind
<1>4. CASE AcceptBind \/ AcceptRefused \/ \E d \in Closeable : AppClose(d)
  BY <1>4 DEF AcceptBind, AcceptRefused, AppClose
<1>5. ASSUME NEW w \in Worker, CloseUnbind(w) \/ Remove(w) PROVE life'[c] = "live"
  BY <1>5 DEF CloseUnbind, Remove
<1>. QED
  BY <1>1, <1>2, <1>3, <1>4, <1>5, SetsMoves

(* The invariant is inductive, given those of the sets, the closes and the *)
(* counts.                                                                 *)
LEMMA HeldInvStep ==
  NamesInv /\ CloseInv /\ CountInv /\ HeldInv /\ [Next]_vars => HeldInv'
<1> SUFFICES ASSUME NamesInv, CloseInv, CountInv, HeldInv, [Next]_vars PROVE HeldInv'
  OBVIOUS
<1>1. CASE Next
  <2>1. DispatchOK' /\ NewcomerOK' /\ KnownOK'
    BY <1>1, DispatchStep, NewcomerStep, KnownStep DEF HeldInv
  <2>2. ASSUME NEW c \in Accepted \ Closeable, Holders(c)' # {} PROVE life'[c] = "live"
    <3>1. ~ Destroy
      BY <2>2, DestroyDrops DEF HeldInv
    <3>2. Kept(c) \/ Gains(c)
      BY <1>1, CountStep DEF Accepted
    <3>3. c \in normal \/ Holders(c) # {}
      BY <2>2, <3>2, GainsLive DEF Kept
    <3>4. life[c] = "live"
      BY <3>3 DEF HeldInv, KnownOK, HeldIsLive
    <3>. QED
      BY <1>1, <3>1, <3>3, <3>4, StaysLive
  <2>. QED
    BY <2>1, <2>2 DEF HeldInv, HeldIsLive
<1>2. CASE UNCHANGED vars
  BY <1>2 DEF vars, HeldInv, DispatchOK, NewcomerOK, KnownOK, HeldIsLive, Holders, Unnamed,
     Named, Events, Born
<1>. QED
  BY <1>1, <1>2

(* At the start nobody holds or names anything.                            *)
LEMMA InitHeld == Init => HeldInv
<1> SUFFICES ASSUME Init PROVE HeldInv
  OBVIOUS
<1>1. DispatchOK /\ NewcomerOK /\ KnownOK
  BY DEF Init, DispatchOK, NewcomerOK, KnownOK
<1>2. ASSUME NEW c \in Conn PROVE Holders(c) = {}
  <2>1. CountOK(c) /\ refs[c] = 0 /\ running
    BY InitCounts DEF CountInv, Init
  <2>. QED
    BY <2>1, FS_EmptySet DEF CountOK
<1>. QED
  BY <1>1, <1>2 DEF HeldInv, HeldIsLive, Accepted

(* No thread ever meets a freed connection in its lists, and epoll reports *)
(* none, as long as only the reactor's own threads close it: an event that *)
(* is queued, merged, taken or handled names one that is still allocated.  *)
THEOREM HeldNeverFreed == Spec => []HeldIsLive
<1>1. HeldInv => HeldIsLive
  BY DEF HeldInv
<1>. QED
  BY <1>1, InitNames, NamesStep, InitCloses, CloseInvStep, InitCounts, CountInvStep, InitHeld,
     HeldInvStep, PTL DEF Spec

-----------------------------------------------------------------------------
(* The types that no other invariant has.                                  *)
RestOK ==
  /\ running \in BOOLEAN /\ listening \in BOOLEAN
  /\ binder \in Requester \cup {None} /\ newcomer \in Accepted \cup {None}
  /\ armed \subseteq Conn /\ polled \subseteq Conn
  /\ fault \in [Worker -> BOOLEAN]
  /\ polls \in [Conn -> 0 .. MaxPolls]

(* epoll_wait reports a connection MaxPolls times at most.                 *)
LEMMA PollRest ==
  ASSUME RestOK, Poll
  PROVE  RestOK'
<1>1. PICK ready \in SUBSET {c \in armed : polls[c] < MaxPolls}, l \in BOOLEAN :
        /\ polled' = ready /\ listening' = l
        /\ polls' = [c \in Conn |-> IF c \in ready THEN polls[c] + 1 ELSE polls[c]]
  BY DEF Poll
<1>2. ASSUME NEW c \in Conn PROVE polls'[c] \in 0 .. MaxPolls
  BY <1>1, ReactorAssumption DEF RestOK
<1>3. polls' \in [Conn -> 0 .. MaxPolls]
  BY <1>1, <1>2
<1>. QED
  BY <1>1, <1>3 DEF RestOK, Poll

(* What do_recv and do_send find out is a Boolean.                         *)
LEMMA FaultRest ==
  ASSUME RestOK, NEW d \in Data, DataRecv(d) \/ DataSend(d)
  PROVE  RestOK'
<1>1. \E v \in BOOLEAN : fault' = [fault EXCEPT ![d] = v]
  <2>1. d \in Worker /\ fault[d] \in BOOLEAN /\ fault = [fault EXCEPT ![d] = fault[d]]
    BY Workers DEF RestOK
  <2>2. CASE DataRecv(d)
    <3> DEFINE error == "error" \in KindInHand(d)
    <3>1. (\E good \in BOOLEAN : fault' = [fault EXCEPT ![d] = ~ good \/ error])
          \/ fault' = [fault EXCEPT ![d] = error]
      BY <2>2 DEF DataRecv
    <3>2. error \in BOOLEAN /\ \A good \in BOOLEAN : (~ good \/ error) \in BOOLEAN
      OBVIOUS
    <3> HIDE DEF error
    <3>. QED
      BY <3>1, <3>2
  <2>3. CASE DataSend(d)
    BY <2>1, <2>3 DEF DataSend
  <2>. QED
    BY <2>2, <2>3
<1>2. fault' \in [Worker -> BOOLEAN]
  BY <1>1 DEF RestOK
<1>. QED
  BY <1>2 DEF RestOK, DataRecv, DataSend

(* Every step keeps these types.                                           *)
LEMMA RestStep == NamesInv /\ RestOK /\ [Next]_vars => RestOK'
<1> SUFFICES ASSUME NamesInv, RestOK, [Next]_vars PROVE RestOK'
  OBVIOUS
<1>1. CASE ConnectionThread
  <2>1. ASSUME NEW c \in Conn, Dispatch(c) \/ AcceptInsert(c) PROVE RestOK'
    BY <2>1 DEF RestOK, Dispatch, AcceptInsert
  <2>2. CASE AcceptBind
    <3>1. newcomer \in Conn
      BY <2>2 DEF AcceptBind, NamesInv, ActorsOK, Born
    <3>. QED
      BY <2>2, <3>1 DEF RestOK, AcceptBind, Bind
  <2>3. CASE Publish \/ AcceptRefused \/ AcceptNotify \/ AcceptDone \/ ConnectionThreadEnd
    BY <2>3 DEF RestOK, Publish, AcceptRefused, AcceptNotify, AcceptDone, ConnectionThreadEnd
  <2>. QED
    BY <1>1, <2>1, <2>2, <2>3, PollRest DEF ConnectionThread
<1>2. ASSUME NEW c \in Requester, ConnectInsert(c) \/ RequesterThread(c) PROVE RestOK'
  BY <1>2, ReactorAssumption
     DEF RestOK, ConnectInsert, RequesterThread, ConnectAdd, ConnectRefused, ConnectBind, Bind,
         ConnectNotify
<1>3. ASSUME NEW c \in Closeable, AppClose(c) \/ AppPost(c) PROVE RestOK'
  BY <1>3 DEF RestOK, AppClose, AppPost, Unbind
<1>4. ASSUME NEW d \in Data, DataThread(d) PROVE RestOK'
  <2>1. CASE DataTake(d) \/ DataAbandon(d)
    BY <2>1 DEF RestOK, DataTake, DataAbandon
  <2>. QED
    BY <1>4, <2>1, FaultRest DEF DataThread
<1>5. ASSUME NEW b \in Biz, BizThread(b) PROVE RestOK'
  BY <1>5 DEF RestOK, BizThread, Sweep, BizTake, CallbackBegin, CallbackEnd
<1>6. ASSUME NEW w \in Worker, EventEnd(w) PROVE RestOK'
  BY <1>6 DEF RestOK, EventEnd, CloseUnbind, Unbind, ClosePost, Deref, CheckHeld, CheckUnheld,
              Remove, WorkerEnd
<1>7. CASE Stop \/ Destroy
  BY <1>7 DEF RestOK, Stop, Destroy
<1>8. CASE UNCHANGED vars
  BY <1>8 DEF RestOK, vars
<1>. QED
  BY <1>1, <1>2, <1>3, <1>4, <1>5, <1>6, <1>7, <1>8 DEF Next, Exited

(* The lists name allocated connections, so they name connections.         *)
LEMMA ListsType ==
  ASSUME NamesInv
  PROVE  EventLists(queue) /\ EventLists(list) /\ batch \in [Data -> Seq(DataEvent)]
<1>1. EventsOf(Born, DataKinds) \subseteq DataEvent /\ EventsOf(Born, BizKinds) \subseteq BizEvent
  BY DEF EventsOf, DataEvent, BizEvent, Born
<1>2. /\ Seq(EventsOf(Born, DataKinds)) \subseteq Seq(DataEvent)
      /\ Seq(EventsOf(Born, BizKinds)) \subseteq Seq(BizEvent)
  BY <1>1
<1>. QED
  BY <1>2 DEF NamesInv, ListsOK, ListsFor, ListsOf, EventLists

(* The state has its types; above all m_references, a size_t, is never     *)
(* decreased below zero, whatever exit() makes the data threads forget.    *)
THEOREM TypeCorrect == Spec => []TypeOK
<1>1. Init => RestOK
  <2> SUFFICES ASSUME Init PROVE RestOK
    OBVIOUS
  <2>1. fault \in [Worker -> BOOLEAN] /\ running \in BOOLEAN /\ listening \in BOOLEAN
    BY DEF Init
  <2>2. polls \in [Conn -> 0 .. MaxPolls]
    BY ReactorAssumption DEF Init
  <2>. QED
    BY <2>1, <2>2 DEF Init, RestOK
<1>2. NamesInv /\ CloseInv /\ UniqueInv /\ CountInv /\ HeldInv /\ RestOK => TypeOK
  <2> SUFFICES ASSUME NamesInv, CloseInv, UniqueInv, CountInv, HeldInv, RestOK PROVE TypeOK
    OBVIOUS
  <2>1. refs \in [Conn -> Nat] /\ closes \in [Conn -> Nat] /\ opened \subseteq Conn
    BY DEF CountInv, CountOK, CloseInv, HeldInv, KnownOK, Born
  <2>2. next_id \in 0 .. Cardinality(Conn) /\ unused_id \in Seq(Nat)
    <3>1. next_id \in 0 .. Cardinality(Conn) /\ unused_id \in Seq(Ids!Id)
      BY DEF UniqueInv, Ids!IDInv, Ids!TypeOK
    <3>2. Ids!Id \subseteq Nat
      BY ManyConns DEF Ids!Id
    <3>3. ASSUME NEW S, S \subseteq Nat, NEW s \in Seq(S) PROVE s \in Seq(Nat)
      <4>1. /\ Len(s) \in Nat /\ s = [i \in 1 .. Len(s) |-> s[i]]
            /\ \A i \in 1 .. Len(s) : s[i] \in Nat
        BY <3>3
      <4>. QED
        BY <4>1, SeqDef
    <3>. QED
      BY <3>1, <3>2, <3>3, Zenon
  <2>3. /\ life \in [Conn -> {"unborn", "live", "freed"}] /\ uniq \in [Conn -> Nat]
        /\ normal \subseteq Conn /\ closed \subseteq Conn /\ binded \subseteq Conn
    BY DEF NamesInv, SetsOK, Born
  <2>4. /\ cpc \in {"wait", "dispatch", "accept", "bind", "notify", "done"}
        /\ apc \in [Requester -> {"idle", "add", "bind", "notify", "done"}]
        /\ closer \in [Closeable -> {"idle", "post", "done"}]
        /\ pc \in [Worker -> WorkerStates]
    BY DEF NamesInv, ActorsOK, ListsOK, ListsFor
  <2>. QED
    BY <2>1, <2>2, <2>3, <2>4, ListsType DEF TypeOK, RestOK
<1>. QED
  BY <1>1, <1>2, RestStep, InitNames, NamesStep, InitCloses, CloseInvStep, InitManager, ManagerStep,
     InitCounts, CountInvStep, InitHeld, HeldInvStep, PTL DEF Spec

-----------------------------------------------------------------------------
(* The business events of an accepted connection are all in one list.      *)
OneList ==
  \A c \in Accepted, b \in Biz :
    Named(queue[b], c) \/ Named(list[b], c) => b = BizOf(c)

(* The unique of an accepted connection is set when do_accept binds it and *)
(* never again.                                                            *)
LEMMA UniqueKept ==
  ASSUME NamesInv, Next, NEW c \in Accepted
  PROVE  uniq'[c] = uniq[c] \/ (AcceptBind /\ newcomer = c)
<1>0. c \in Conn /\ c \notin Requester /\ uniq \in [Conn -> Nat]
  BY DEF Accepted, NamesInv, SetsOK
<1>1. ASSUME NEW d \in Conn, Bind(d), c # d PROVE uniq'[c] = uniq[c]
  BY <1>0, <1>1 DEF Bind
<1>2. CASE AcceptBind
  <2>1. newcomer \in Conn
    BY <1>2 DEF AcceptBind, NamesInv, ActorsOK, Born
  <2>. QED
    BY <1>1, <1>2, <2>1 DEF AcceptBind
<1>3. ASSUME NEW d \in Requester, ConnectInsert(d) \/ ConnectRefused(d) \/ ConnectBind(d)
      PROVE  uniq'[c] = uniq[c]
  BY <1>0, <1>1, <1>3, ReactorAssumption DEF ConnectInsert, ConnectRefused, ConnectBind
<1>4. UNCHANGED uniq => uniq'[c] = uniq[c]
  OBVIOUS
<1>5. ASSUME NEW d \in Conn, AcceptInsert(d) PROVE UNCHANGED uniq
  BY <1>5 DEF AcceptInsert
<1>6. ASSUME NEW d \in Closeable, AppClose(d) PROVE UNCHANGED uniq
  BY <1>6 DEF AppClose, Unbind
<1>7. ASSUME NEW b \in Biz, Sweep(b) PROVE UNCHANGED uniq
  BY <1>7 DEF Sweep
<1>8. ASSUME NEW w \in Worker, CloseUnbind(w) \/ Remove(w) PROVE UNCHANGED uniq
  BY <1>8 DEF CloseUnbind, Unbind, Remove
<1>9. AcceptRefused \/ Destroy => UNCHANGED uniq
  BY DEF AcceptRefused, Destroy
<1>. QED
  BY <1>2, <1>3, <1>4, <1>5, <1>6, <1>7, <1>8, <1>9, SetsMoves

(* append_business_event chooses the list by the unique, which is there    *)
(* before anybody posts an event of the connection.                        *)
LEMMA OneListStep ==
  ASSUME NamesInv, NewcomerOK, OneList, Next
  PROVE  OneList'
<1> SUFFICES ASSUME NEW c \in Accepted, NEW b \in Biz, Named(queue'[b], c) \/ Named(list'[b], c)
             PROVE  b = BizOf(c)'
  BY DEF OneList, Named, Events
<1>0. c \in Conn /\ b \in Worker /\ b \notin Data
  BY Workers DEF Accepted
<1>1. CASE AcceptBind /\ newcomer = c
  <2>1. ~ Named(queue[b], c) /\ ~ Named(list[b], c) /\ UNCHANGED <<queue, list>>
    BY <1>0, <1>1 DEF AcceptBind, NewcomerOK, Unnamed
  <2>. QED
    BY <2>1
<1>2. CASE uniq'[c] = uniq[c]
  <2>1. Named(queue'[b], c) => Named(queue[b], c) \/ b = BizOf(c)
    BY <1>0, NamedStep
  <2>2. Named(list'[b], c) => Named(list[b], c) \/ Named(queue[b], c)
    BY <1>0, NamedStep
  <2>3. b = BizOf(c)
    BY <2>1, <2>2 DEF OneList
  <2>. QED
    BY <1>2, <2>3 DEF BizOf
<1>. QED
  BY <1>1, <1>2, UniqueKept

(* A callback under way names the connection whose list its thread runs.   *)
LEMMA OneListSerial ==
  ASSUME NamesInv, OneList
  PROVE  CallbacksSerial
<1> SUFFICES ASSUME NEW a \in Biz, NEW b \in Biz, pc[a] = "callback", pc[b] = "callback",
                    InHand(a) \in Accepted, InHand(a) = InHand(b)
             PROVE  a = b
  BY DEF CallbacksSerial
<1> DEFINE c == InHand(a)
<1>1. Named(list[a], c) /\ Named(list[b], c)
  BY Workers, FirstEvent DEF Waits, Named
<1>. QED
  BY <1>1 DEF OneList

(* At the start no event waits anywhere.                                   *)
LEMMA InitOneList == Init => OneList
BY Workers DEF Init, OneList, Named, Events

(* The invariant is inductive, given the others.                           *)
LEMMA OneListKept == NamesInv /\ HeldInv /\ OneList /\ [Next]_vars => OneList'
<1> SUFFICES ASSUME NamesInv, HeldInv, OneList, [Next]_vars PROVE OneList'
  OBVIOUS
<1>1. CASE Next
  BY <1>1, OneListStep DEF HeldInv
<1>2. CASE UNCHANGED vars
  BY <1>2 DEF vars, OneList, Named, Events, BizOf
<1>. QED
  BY <1>1, <1>2

(* The callbacks of one accepted connection never run at the same time, on *)
(* however many business threads.                                          *)
THEOREM CallbacksInTurn == Spec => []CallbacksSerial
<1>1. NamesInv /\ OneList => CallbacksSerial
  BY OneListSerial
<1>. QED
  BY <1>1, InitOneList, OneListKept, InitNames, NamesStep, InitCloses, CloseInvStep, InitCounts,
     CountInvStep, InitHeld, HeldInvStep, PTL DEF Spec

-----------------------------------------------------------------------------
(* The business events of an accepted connection in the order in which its *)
(* business thread handles them: those it has taken, then those that wait. *)
Line(c) == list[BizOf(c)] \o queue[BizOf(c)]

(* s says that c was accepted.                                             *)
Announces(s, c) == \E i \in 1 .. Len(s) : s[i] = Event(c, "accept")

(* In s every event of c comes after the one that says it was accepted.    *)
AcceptLeads(s, c) ==
  \A i \in Events(s, c) : \E j \in 1 .. i : s[j] = Event(c, "accept")

(* epoll may report c, or data events name it already.                     *)
Reached(c) ==
  \/ c \in armed /\ cpc # "done"
  \/ c \in polled
  \/ \E d \in Data : Named(queue[d], c) \/ Named(list[d], c) \/ Named(batch[d], c)

(* The business thread w has begun the callback of the event in hand.      *)
Began(w) == ~ Waits(w) /\ pc[w] # "run"

(* As long as the service has not heard of an accepted connection, nobody  *)
(* can post an event of it before the one that announces it: a data thread *)
(* meets it only when that event is in the line, or do_accept about to     *)
(* append it; no callback of it began; and nobody closes it.               *)
OrderOK ==
  \A c \in Accepted : c \notin opened =>
    /\ AcceptLeads(Line(c), c)
    /\ Reached(c) => Announces(Line(c), c) \/ (cpc = "notify" /\ newcomer = c)
    /\ \A b \in Biz : Began(b) => InHand(b) # c
    /\ c \in Closeable => closer[c] # "post"

(* An event behind those of s that is not of c, or announces c, or comes   *)
(* after what does.                                                        *)
LEMMA LeadsAppend ==
  ASSUME NEW c, NEW s \in Seq(AnyEvent), NEW e \in AnyEvent, AcceptLeads(s, c),
         e.conn = c => e = Event(c, "accept") \/ Announces(s, c)
  PROVE  /\ AcceptLeads(Append(s, e), c)
         /\ Announces(s, c) => Announces(Append(s, e), c)
<1> DEFINE t == Append(s, e)
<1>1. /\ Len(s) \in Nat /\ Len(t) = Len(s) + 1
      /\ \A i \in 1 .. Len(s) : t[i] = s[i]
      /\ t[Len(s) + 1] = e
  BY AppendProperties
<1> HIDE DEF t
<1>2. Announces(s, c) => Announces(t, c)
  BY <1>1 DEF Announces
<1>3. ASSUME NEW i \in Events(t, c) PROVE \E j \in 1 .. i : t[j] = Event(c, "accept")
  <2>0. i \in 1 .. (Len(s) + 1) /\ t[i].conn = c
    BY <1>1 DEF Events
  <2>1. CASE i \in 1 .. Len(s)
    <3>1. i \in Events(s, c)
      BY <1>1, <2>0, <2>1 DEF Events
    <3>2. PICK j \in 1 .. i : s[j] = Event(c, "accept")
      BY <3>1 DEF AcceptLeads
    <3>. QED
      BY <1>1, <2>1, <3>2
  <2>2. CASE i = Len(s) + 1
    <3>1. e.conn = c
      BY <1>1, <2>0, <2>2
    <3>2. CASE e = Event(c, "accept")
      BY <1>1, <2>2, <3>2
    <3>3. CASE Announces(s, c)
      <4>1. PICK j \in 1 .. Len(s) : s[j] = Event(c, "accept")
        BY <3>3 DEF Announces
      <4>. QED
        BY <1>1, <2>2, <4>1
    <3>. QED
      BY <3>1, <3>2, <3>3
  <2>. QED
    BY <1>1, <2>0, <2>1, <2>2
<1>. QED
  BY <1>2, <1>3 DEF AcceptLeads, t

(* A list without its first event, which is not of c.                      *)
LEMMA LeadsTail ==
  ASSUME NEW c, NEW s \in Seq(AnyEvent), s # << >>, Head(s).conn # c, AcceptLeads(s, c)
  PROVE  /\ AcceptLeads(Tail(s), c)
         /\ Announces(s, c) => Announces(Tail(s), c)
<1> DEFINE t == Tail(s)
<1>1. /\ Len(s) \in Nat \ {0} /\ Len(t) = Len(s) - 1
      /\ \A i \in 1 .. (Len(s) - 1) : t[i] = s[i + 1]
      /\ Head(s) = s[1]
  BY HeadTailProperties
<1>2. s[1] # Event(c, "accept")
  BY <1>1 DEF Event
<1> HIDE DEF t
<1>3. ASSUME NEW j \in 1 .. Len(s), s[j] = Event(c, "accept")
      PROVE  j - 1 \in 1 .. Len(t) /\ t[j - 1] = Event(c, "accept")
  <2>1. j # 1
    BY <1>2, <1>3
  <2>2. j - 1 \in 1 .. (Len(s) - 1) /\ (j - 1) + 1 = j
    BY <1>1, <2>1
  <2>. QED
    BY <1>1, <1>3, <2>2
<1>4. Announces(s, c) => Announces(t, c)
  BY <1>3 DEF Announces
<1>5. ASSUME NEW i \in Events(t, c) PROVE \E j \in 1 .. i : t[j] = Event(c, "accept")
  <2>1. i \in 1 .. (Len(s) - 1) /\ i + 1 \in 1 .. Len(s) /\ s[i + 1].conn = c
    BY <1>1, <1>5 DEF Events
  <2>2. PICK j \in 1 .. (i + 1) : s[j] = Event(c, "accept")
    BY <2>1 DEF AcceptLeads, Events
  <2>3. j \in 1 .. Len(s)
    BY <1>1, <2>1
  <2>4. j - 1 \in 1 .. i /\ t[j - 1] = Event(c, "accept")
    BY <1>1, <1>3, <2>1, <2>2, <2>3
  <2>. QED
    BY <2>4
<1>. QED
  BY <1>4, <1>5 DEF AcceptLeads, t

(* The line of a connection is a list of events.                           *)
LEMMA LineType ==
  ASSUME NamesInv, NEW c \in Accepted
  PROVE  /\ c \in Conn /\ BizOf(c) \in Worker /\ BizOf(c) \in Biz
         /\ list[BizOf(c)] \in Seq(AnyEvent) /\ queue[BizOf(c)] \in Seq(AnyEvent)
         /\ Line(c) \in Seq(AnyEvent)
<1>1. c \in Conn /\ BizOf(c) \in Worker /\ BizOf(c) \in Biz
  BY OwnLists, Workers DEF Accepted, NamesInv, SetsOK
<1>2. list[BizOf(c)] \in Seq(AnyEvent) /\ queue[BizOf(c)] \in Seq(AnyEvent)
  BY <1>1, ListTypes
<1>. QED
  BY <1>1, <1>2, ConcatProperties DEF Line

(* Behind two lists is behind the second.                                  *)
LEMMA ConcatAppend ==
  ASSUME NEW S, NEW s \in Seq(S), NEW t \in Seq(S), NEW e \in S
  PROVE  s \o Append(t, e) = Append(s \o t, e)
<1> DEFINE u == <<e>>
<1>1. u \in Seq(S) /\ s \o t \in Seq(S)
  BY ConcatProperties
<1>2. Append(t, e) = t \o u /\ Append(s \o t, e) = (s \o t) \o u
  BY <1>1, AppendIsConcat
<1> HIDE DEF u
<1>3. (s \o t) \o u = s \o (t \o u)
  BY <1>1, ConcatAssociative
<1>. QED
  BY <1>2, <1>3

(* append_business_event adds to the end of one line, unless the event     *)
(* waits in it already behind those that were taken.                       *)
LEMMA PostLine ==
  ASSUME NamesInv, NEW c \in Accepted, uniq'[c] = uniq[c], UNCHANGED list,
         NEW d \in Conn, NEW k \in BizKinds, AppendBusiness(d, k)
  PROVE  /\ Event(d, k) \in AnyEvent
         /\ Line(c)' = Line(c) \/ Line(c)' = Append(Line(c), Event(d, k))
         /\ d = c => \E i \in 1 .. Len(Line(c)') :
                       i > Len(list[BizOf(c)]) /\ Line(c)'[i] = Event(c, k)
<1> DEFINE b == BizOf(c)
           e == Event(d, k)
           Found == \E i \in 1 .. Len(Line(c)') : i > Len(list[b]) /\ Line(c)'[i] = Event(c, k)
<1>0. b \in Worker /\ list[b] \in Seq(AnyEvent) /\ queue[b] \in Seq(AnyEvent) /\ e \in AnyEvent
      /\ queue = [w \in Worker |-> queue[w]]
  BY LineType, ListTypes DEF Event, AnyEvent, EventsOf
<1>1. /\ Line(c)' = list[b] \o queue'[b]
      /\ Line(c) = list[b] \o queue[b]
  BY DEF Line, BizOf
<1>2. queue'[b] = queue[b] \/ queue'[b] = Append(queue[b], e)
  BY <1>0 DEF AppendBusiness
<1>3. d = c => \/ \E i \in 1 .. Len(queue[b]) : queue'[b][i] = Event(c, k)
               \/ queue'[b] = Append(queue[b], e)
  BY <1>0 DEF AppendBusiness, Waiting
<1> HIDE DEF b, e
<1>4. list[b] \o Append(queue[b], e) = Append(list[b] \o queue[b], e)
  <2>1. list[b] \in Seq(AnyEvent) /\ queue[b] \in Seq(AnyEvent) /\ e \in AnyEvent
    BY <1>0
  <2>2. \A s, t \in Seq(AnyEvent) : \A x \in AnyEvent : s \o Append(t, x) = Append(s \o t, x)
    BY ConcatAppend
  <2>. QED
    BY <2>1, <2>2, Zenon
<1>5. ASSUME d = c PROVE Found
  <2>0. Len(list[b]) \in Nat /\ Len(queue[b]) \in Nat
    BY <1>0
  <2>1. ASSUME NEW i \in 1 .. Len(queue[b]), queue'[b][i] = Event(c, k),
               queue'[b] = queue[b]
        PROVE  Found
    <3> DEFINE j == Len(list[b]) + i
    <3>1. j \in 1 .. (Len(list[b]) + Len(queue[b])) /\ j > Len(list[b]) /\ ~ (j <= Len(list[b]))
          /\ j - Len(list[b]) = i
      <4>1. \A m, n \in Nat : \A x \in 1 .. n :
              m + x \in 1 .. (m + n) /\ m + x > m /\ ~ (m + x <= m) /\ (m + x) - m = x
        OBVIOUS
      <4>. QED
        BY <2>0, <4>1
    <3> HIDE DEF j
    <3>2. Len(Line(c)') = Len(list[b]) + Len(queue[b]) /\ Line(c)'[j] = queue[b][i]
      BY <1>0, <1>1, <2>1, <3>1, ConcatProperties
    <3>. QED
      BY <2>1, <3>1, <3>2
  <2>2. CASE queue'[b] = Append(queue[b], e)
    <3>1. Line(c)' = Append(Line(c), e) /\ Line(c) \in Seq(AnyEvent)
      BY <1>1, <1>4, <2>2, LineType
    <3>2. Len(Line(c)) + 1 \in 1 .. Len(Line(c)') /\ Line(c)'[Len(Line(c)) + 1] = e
      BY <1>0, <3>1, AppendProperties, LenProperties
    <3>3. Len(Line(c)) + 1 > Len(list[b])
      BY <1>0, <1>1, <2>0, ConcatProperties
    <3>. QED
      BY <1>5, <3>2, <3>3 DEF e
  <2>. QED
    BY <1>2, <1>3, <1>5, <2>1, <2>2
<1>. QED
  BY <1>0, <1>1, <1>2, <1>4, <1>5 DEF b, e

(* Those that may post an event of c that does not announce it.            *)
Intrudes(c) ==
  \/ c \in Closeable /\ closer[c] = "post"
  \/ \E w \in Worker : c = InHand(w) /\ ~ Waits(w) /\ (w \in Data \/ Began(w))

(* What a step may do to a line: leave it, add to its end, take its first  *)
(* event away once the callback of it began, or drop it in exit().         *)
LineMoves(c) ==
  \/ Line(c)' = Line(c)
  \/ \E e \in AnyEvent :
       /\ Line(c)' = Append(Line(c), e)
       /\ e.conn = c => e = Event(c, "accept") \/ Intrudes(c)
  \/ /\ Line(c)' = Tail(Line(c)) /\ Line(c) # << >>
     /\ Head(Line(c)) = Head(list[BizOf(c)])
     /\ Began(BizOf(c)) /\ ~ Began(BizOf(c))'
  \/ Destroy /\ Line(c)' = << >>

(* A thread that posts for the connection d.                               *)
LEMMA LinePosted ==
  ASSUME NamesInv, NEW c \in Accepted, uniq'[c] = uniq[c], UNCHANGED list,
         NEW d \in Conn, NEW k \in BizKinds, AppendBusiness(d, k) \/ UNCHANGED queue,
         d = c => k = "accept" \/ Intrudes(c)
  PROVE  LineMoves(c)
<1>1. CASE UNCHANGED queue
  BY <1>1 DEF Line, LineMoves, BizOf
<1>2. CASE AppendBusiness(d, k)
  <2>1. Event(d, k) \in AnyEvent /\ (Line(c)' = Line(c) \/ Line(c)' = Append(Line(c), Event(d, k)))
    BY <1>2, PostLine
  <2>2. Event(d, k).conn = c => Event(d, k) = Event(c, "accept") \/ Intrudes(c)
    BY DEF Event
  <2>. QED
    BY <2>1, <2>2 DEF LineMoves
<1>. QED
  BY <1>1, <1>2

(* The first of two lists, and what is left without it.                    *)
LEMMA ConcatTail ==
  ASSUME NEW S, NEW s \in Seq(S), NEW t \in Seq(S), s # << >>
  PROVE  s \o t # << >> /\ Head(s \o t) = Head(s) /\ Tail(s \o t) = Tail(s) \o t
<1> DEFINE u == s \o t
           v == Tail(s) \o t
<1>1. /\ u \in Seq(S) /\ Len(u) = Len(s) + Len(t) /\ Len(s) \in Nat \ {0} /\ Len(t) \in Nat
      /\ \A i \in 1 .. (Len(s) + Len(t)) : u[i] = IF i <= Len(s) THEN s[i] ELSE t[i - Len(s)]
  BY ConcatProperties, EmptySeq
<1>2. /\ Tail(s) \in Seq(S) /\ Len(Tail(s)) = Len(s) - 1 /\ Head(s) = s[1]
      /\ \A i \in 1 .. (Len(s) - 1) : Tail(s)[i] = s[i + 1]
  BY HeadTailProperties
<1>3. /\ v \in Seq(S) /\ Len(v) = Len(s) - 1 + Len(t)
      /\ \A i \in 1 .. (Len(s) - 1 + Len(t)) :
           v[i] = IF i <= Len(s) - 1 THEN Tail(s)[i] ELSE t[i - (Len(s) - 1)]
  BY <1>1, <1>2, ConcatProperties
<1> HIDE DEF u, v
<1>4. u # << >> /\ Len(u) # 0
  BY <1>1
<1>5. /\ Tail(u) \in Seq(S) /\ Len(Tail(u)) = Len(u) - 1 /\ Head(u) = u[1]
      /\ \A i \in 1 .. (Len(u) - 1) : Tail(u)[i] = u[i + 1]
  BY <1>1, <1>4, HeadTailProperties
<1>6. ASSUME NEW i \in 1 .. Len(v) PROVE Tail(u)[i] = v[i]
  <2>1. i \in 1 .. (Len(u) - 1) /\ i + 1 \in 1 .. (Len(s) + Len(t)) /\ Tail(u)[i] = u[i + 1]
    BY <1>1, <1>3, <1>5
  <2>2. CASE i <= Len(s) - 1
    BY <1>1, <1>2, <1>3, <2>1, <2>2
  <2>3. CASE ~ (i <= Len(s) - 1)
    <3>1. ~ (i + 1 <= Len(s)) /\ (i + 1) - Len(s) = i - (Len(s) - 1)
      BY <1>1, <2>1, <2>3
    <3>. QED
      BY <1>1, <1>3, <2>1, <2>3, <3>1
  <2>. QED
    BY <2>2, <2>3
<1>7. Tail(u) = v
  BY <1>1, <1>3, <1>5, <1>6, SeqEqual
<1>. QED
  BY <1>1, <1>2, <1>4, <1>5, <1>7 DEF u, v

(* The thread w goes on to its next event.                                 *)
LEMMA LineShortened ==
  ASSUME NamesInv, NEW c \in Accepted, NEW w \in Worker, Checks(pc[w]),
         NextEvent(w), UNCHANGED <<queue, uniq>>
  PROVE  LineMoves(c)
<1>1. CASE w # BizOf(c)
  BY <1>1, LineType, ListTypes DEF NextEvent, Line, LineMoves, BizOf
<1>2. CASE w = BizOf(c)
  <2>1. list[w] # << >> /\ list[w] \in Seq(AnyEvent) /\ queue[w] \in Seq(AnyEvent)
        /\ list'[w] = Tail(list[w])
    BY <1>2, ListTypes DEF NextEvent, Checks, Waits
  <2>2. /\ list[w] \o queue[w] # << >>
        /\ Head(list[w] \o queue[w]) = Head(list[w])
        /\ Tail(list[w] \o queue[w]) = Tail(list[w]) \o queue[w]
    BY <2>1, ConcatTail
  <2>3. Began(w) /\ ~ Began(w)'
    BY ListTypes DEF NextEvent, Checks, Began, Waits
  <2>4. BizOf(c)' = BizOf(c)
    BY DEF BizOf
  <2>. QED
    BY <1>2, <2>1, <2>2, <2>3, <2>4 DEF Line, LineMoves, BizOf
<1>. QED
  BY <1>1, <1>2

(* The thread w takes what waits for it.                                   *)
LEMMA LineTaken ==
  ASSUME NamesInv, NEW c \in Accepted, uniq'[c] = uniq[c], NEW w \in Worker, Waits(w),
         list' = [list EXCEPT ![w] = queue[w]], queue' = [queue EXCEPT ![w] = << >>]
  PROVE  LineMoves(c)
<1> DEFINE b == BizOf(c)
<1>1. CASE w # b
  BY <1>1, LineType, ListTypes DEF Line, LineMoves, BizOf
<1>2. CASE w = b
  <2>1. list[b] = << >> /\ queue[b] \in Seq(AnyEvent) /\ list'[b] = queue[b] /\ queue'[b] = << >>
    BY <1>2, ListTypes
  <2>2. queue[b] \o << >> = queue[b] /\ << >> \o queue[b] = queue[b]
    BY <2>1, ConcatEmptySeq
  <2>. QED
    BY <2>1, <2>2 DEF Line, LineMoves, BizOf
<1>. QED
  BY <1>1, <1>2

(* Every step moves a line as LineMoves says.                              *)
LEMMA LineStep ==
  ASSUME NamesInv, Next, NEW c \in Accepted, uniq'[c] = uniq[c]
  PROVE  LineMoves(c)
<1> DEFINE b == BizOf(c)
<1>0. /\ c \in Conn /\ b \in Biz /\ b \in Worker /\ c \notin Requester
      /\ \A w \in Worker : ~ Waits(w) => InHand(w) \in Conn
      /\ Data \subseteq Worker /\ Biz \subseteq Worker /\ Data \cap Biz = {}
  <2>1. \A w \in Worker : ~ Waits(w) => InHand(w) \in Conn
    BY FirstEvent DEF Born
  <2>. QED
    BY <2>1, LineType, Workers DEF Accepted
<1>2. UNCHANGED <<queue, list>> => LineMoves(c)
  BY DEF Line, LineMoves, BizOf
<1>3. ASSUME NEW d \in Conn, Dispatch(d) PROVE LineMoves(c)
  BY <1>2, <1>3 DEF Dispatch
<1>4. CASE Publish
  <2>1. queue'[b] = queue[b] /\ list' = list
    BY <1>0, <1>4 DEF Publish
  <2>. QED
    BY <2>1 DEF Line, LineMoves, BizOf
<1>5. CASE AcceptNotify
  <2>1. newcomer \in Conn
    BY <1>5 DEF AcceptNotify, NamesInv, ActorsOK, Born
  <2>. QED
    BY <1>5, <2>1, LinePosted DEF AcceptNotify, BizKinds
<1>6. CASE Destroy
  <2>1. list[b] = << >> /\ list' = list /\ queue'[b] = << >>
    BY <1>0, <1>6, ListTypes DEF Destroy, Joined, Waits
  <2>2. << >> \o << >> = << >>
    BY ConcatEmptySeq, EmptyOK
  <2>. QED
    BY <1>6, <2>1, <2>2 DEF Line, LineMoves, BizOf
<1>7. ASSUME NEW d \in Requester, ConnectNotify(d) PROVE LineMoves(c)
  BY <1>0, <1>7, LinePosted, ReactorAssumption DEF ConnectNotify, BizKinds
<1>8. ASSUME NEW d \in Closeable, AppPost(d) PROVE LineMoves(c)
  BY <1>0, <1>8, LinePosted, ReactorAssumption DEF AppPost, BizKinds, Intrudes
<1>9. ASSUME NEW d \in Data, DataThread(d) PROVE LineMoves(c)
  <2>0. d \in Worker
    BY <1>0
  <2>1. CASE DataTake(d)
    BY <2>0, <2>1, LineTaken DEF DataTake, Waits
  <2>2. CASE DataRecv(d) \/ DataSend(d)
    <3>1. ~ Waits(d) /\ UNCHANGED list
      BY <2>2 DEF DataRecv, DataSend, Waits
    <3>2. InHand(d) \in Conn /\ (InHand(d) = c => Intrudes(c))
      BY <1>0, <2>0, <3>1 DEF Intrudes
    <3>3. \E k \in BizKinds : AppendBusiness(InHand(d), k) \/ UNCHANGED queue
      BY <2>2 DEF DataRecv, DataSend, BizKinds
    <3>. QED
      BY <3>1, <3>2, <3>3, LinePosted
  <2>3. CASE DataAbandon(d)
    <3>1. list'[b] = list[b] /\ queue' = queue
      BY <1>0, <2>3, ListTypes DEF DataAbandon
    <3>. QED
      BY <3>1 DEF Line, LineMoves, BizOf
  <2>. QED
    BY <1>9, <2>1, <2>2, <2>3 DEF DataThread
<1>10. ASSUME NEW a \in Biz, BizThread(a) PROVE LineMoves(c)
  <2>1. CASE BizTake(a)
    BY <1>0, <2>1, LineTaken DEF BizTake, Waits
  <2>2. CASE Sweep(a) \/ CallbackBegin(a) \/ CallbackEnd(a)
    BY <1>2, <2>2 DEF Sweep, CallbackBegin, CallbackEnd
  <2>. QED
    BY <1>10, <2>1, <2>2 DEF BizThread
<1>11. ASSUME NEW w \in Worker, EventEnd(w) PROVE LineMoves(c)
  <2>1. CASE ClosePost(w)
    <3>1. ~ Waits(w) /\ Began(w) /\ UNCHANGED list
      BY <2>1 DEF ClosePost, Waits, Began
    <3>2. InHand(w) \in Conn /\ (InHand(w) = c => Intrudes(c))
      BY <1>0, <3>1 DEF Intrudes
    <3>. QED
      BY <2>1, <3>1, <3>2, LinePosted DEF ClosePost, BizKinds
  <2>2. CASE CheckHeld(w) \/ Remove(w)
    BY <2>2, LineShortened DEF CheckHeld, Remove, Checks
  <2>3. CASE CloseUnbind(w) \/ Deref(w) \/ CheckUnheld(w) \/ WorkerEnd(w)
    BY <1>2, <2>3 DEF CloseUnbind, Deref, CheckUnheld, WorkerEnd
  <2>. QED
    BY <1>11, <2>1, <2>2, <2>3 DEF EventEnd
<1>12. UNCHANGED <<queue, list, batch, pc>> => LineMoves(c)
  BY <1>2
<1>. QED
  BY <1>3, <1>4, <1>5, <1>6, <1>7, <1>8, <1>9, <1>10, <1>11, <1>12, ListsMoves

(* epoll is told of a connection by do_accept or do_connect.               *)
LEMMA ArmedBy ==
  Next => \/ armed' \subseteq armed
          \/ AcceptBind /\ armed' = armed \cup {newcomer}
          \/ \E d \in Requester : armed' = armed \cup {d}
BY DEF Next, ConnectionThread, Poll, Publish, AcceptBind, AcceptRefused, AcceptNotify,
       AcceptDone, ConnectionThreadEnd, Dispatch, AcceptInsert, ConnectInsert, RequesterThread,
       ConnectAdd, ConnectRefused, ConnectBind, ConnectNotify, AppClose, AppPost, DataThread,
       DataTake, DataRecv, DataSend, DataAbandon, BizThread, Sweep, BizTake, CallbackBegin,
       CallbackEnd, EventEnd, CloseUnbind, Unbind, ClosePost, Deref, CheckHeld, CheckUnheld,
       Remove, WorkerEnd, Stop, Destroy, Exited, vars

(* What epoll reports was registered, and it reports in one step only.     *)
LEMMA PolledBy ==
  Next => \/ polled' \subseteq polled
          \/ cpc = "wait" /\ polled' \subseteq armed /\ UNCHANGED newcomer
<1>1. Poll => cpc = "wait" /\ polled' \subseteq armed /\ UNCHANGED newcomer
  BY DEF Poll
<1>2. \A d \in Conn : Dispatch(d) \/ AcceptInsert(d) => polled' \subseteq polled
  BY DEF Dispatch, AcceptInsert
<1>3. Publish \/ AcceptBind \/ AcceptRefused \/ AcceptNotify \/ AcceptDone \/ ConnectionThreadEnd
        => polled' \subseteq polled
  BY DEF Publish, AcceptBind, AcceptRefused, AcceptNotify, AcceptDone, ConnectionThreadEnd
<1>. QED
  BY <1>1, <1>2, <1>3, ConnectionOwns DEF ConnectionThread

(* exit() is over for the connection thread once and for all.              *)
LEMMA DoneStays == Next => (cpc = "done" => cpc' = "done")
<1>1. ConnectionThread /\ cpc = "done" => cpc' = "done"
  BY DEF ConnectionThread, Poll, Publish, AcceptBind, AcceptRefused, AcceptNotify,
         AcceptDone, ConnectionThreadEnd, Dispatch, AcceptInsert
<1>. QED
  BY <1>1, ConnectionOwns

(* A data thread can meet a connection only along epoll, from do_accept on. *)
LEMMA ReachedStep ==
  ASSUME NamesInv, Next, NEW c \in Accepted, Reached(c)'
  PROVE  Reached(c) \/ (AcceptBind /\ newcomer = c)
<1>0. c \in Conn /\ c \notin Requester /\ Data \subseteq Worker
  BY Workers DEF Accepted
<1>1. CASE c \in armed' /\ cpc' # "done"
  <2>1. cpc # "done"
    BY <1>1, DoneStays
  <2>. QED
    BY <1>0, <1>1, <2>1, ArmedBy DEF Reached
<1>2. CASE c \in polled'
  <2>1. CASE c \in polled
    BY <2>1 DEF Reached
  <2>2. CASE c \notin polled
    <3>1. cpc = "wait" /\ c \in armed
      BY <1>2, <2>2, PolledBy
    <3>. QED
      BY <3>1 DEF Reached
  <2>. QED
    BY <2>1, <2>2
<1>3. ASSUME NEW d \in Data, Named(queue'[d], c) \/ Named(list'[d], c) \/ Named(batch'[d], c)
      PROVE  Reached(c)
  <2>1. BizOf(c) # d
    BY LineType, Workers
  <2>2. Named(queue'[d], c) => Named(queue[d], c) \/ Named(batch[d], c)
    BY <1>0, <2>1, NamedStep
  <2>3. Named(list'[d], c) => Named(list[d], c) \/ Named(queue[d], c)
    BY <1>0, NamedStep
  <2>4. Named(batch'[d], c) => Named(batch[d], c) \/ c \in polled
    BY <1>0, NamedStep
  <2>. QED
    BY <1>3, <2>2, <2>3, <2>4 DEF Reached
<1>. QED
  BY <1>1, <1>2, <1>3 DEF Reached, Named, Events

(* What do_accept does with the connection it sets up: it goes on to tell  *)
(* the service, and then has told it.                                      *)
LEMMA SetUpStep ==
  ASSUME NamesInv, Next, NEW c \in Accepted, cpc = "notify", newcomer = c, uniq'[c] = uniq[c]
  PROVE  Announces(Line(c)', c) \/ (cpc' = "notify" /\ newcomer' = c)
<1>1. CASE AcceptNotify
  <2>1. AppendBusiness(c, "accept") /\ UNCHANGED list /\ c \in Conn
    BY <1>1 DEF AcceptNotify, Accepted
  <2>. QED
    BY <2>1, PostLine DEF BizKinds, Announces
<1>2. CASE UNCHANGED <<cpc, polled, batch, newcomer>>
  BY <1>2
<1>3. ConnectionThread => AcceptNotify
  BY DEF ConnectionThread, Poll, Publish, AcceptBind, AcceptRefused, AcceptDone,
         ConnectionThreadEnd, Dispatch, AcceptInsert
<1>. QED
  BY <1>1, <1>2, <1>3, ConnectionOwns

(* Nobody who could post another event has met a connection that is not    *)
(* announced yet.                                                          *)
LEMMA NobodyIntrudes ==
  ASSUME NamesInv, HeldInv, OrderOK, NEW c \in Accepted, c \notin opened, Intrudes(c)
  PROVE  Announces(Line(c), c)
<1>1. /\ Reached(c) => Announces(Line(c), c) \/ (cpc = "notify" /\ newcomer = c)
      /\ \A b \in Biz : Began(b) => InHand(b) # c
      /\ c \in Closeable => closer[c] # "post"
  BY DEF OrderOK
<1>2. PICK d \in Data : c = InHand(d) /\ ~ Waits(d)
  BY <1>1, Workers DEF Intrudes
<1>3. Named(list[d], c)
  BY <1>2, FirstEvent, Workers DEF Named
<1>4. Reached(c)
  BY <1>3 DEF Reached
<1>5. ~ (cpc = "notify" /\ newcomer = c)
  BY <1>3, Workers DEF HeldInv, NewcomerOK, Unnamed
<1>. QED
  BY <1>1, <1>4, <1>5

(* A step keeps the line of a connection the service has not heard of in   *)
(* order, and what announces it in the line.                               *)
LEMMA LineInOrder ==
  ASSUME NamesInv, HeldInv, OrderOK, Next, NEW c \in Accepted, c \notin opened,
         uniq'[c] = uniq[c]
  PROVE  /\ AcceptLeads(Line(c)', c)
         /\ Announces(Line(c), c) /\ ~ Destroy => Announces(Line(c)', c)
<1>0. /\ AcceptLeads(Line(c), c) /\ Line(c) \in Seq(AnyEvent)
      /\ \A b \in Biz : Began(b) => InHand(b) # c
      /\ BizOf(c) \in Biz
  BY LineType DEF OrderOK
<1>1. CASE Line(c)' = Line(c)
  BY <1>0, <1>1
<1>2. ASSUME NEW e \in AnyEvent, Line(c)' = Append(Line(c), e),
             e.conn = c => e = Event(c, "accept") \/ Intrudes(c)
      PROVE  /\ AcceptLeads(Line(c)', c)
             /\ Announces(Line(c), c) => Announces(Line(c)', c)
  <2>1. e.conn = c => e = Event(c, "accept") \/ Announces(Line(c), c)
    BY <1>2, NobodyIntrudes
  <2>. QED
    BY <1>0, <1>2, <2>1, LeadsAppend
<1>3. ASSUME Line(c)' = Tail(Line(c)), Line(c) # << >>,
             Head(Line(c)) = Head(list[BizOf(c)]), Began(BizOf(c))
      PROVE  /\ AcceptLeads(Line(c)', c)
             /\ Announces(Line(c), c) => Announces(Line(c)', c)
  <2>1. Head(Line(c)).conn # c
    BY <1>0, <1>3 DEF InHand
  <2>. QED
    BY <1>0, <1>3, <2>1, LeadsTail
<1>4. CASE Destroy /\ Line(c)' = << >>
  BY <1>4 DEF AcceptLeads, Events
<1>. QED
  BY <1>1, <1>2, <1>3, <1>4, LineStep DEF LineMoves

(* A callback under way began before this step, or in it.                  *)
LEMMA BeganBy ==
  ASSUME NamesInv, Next, NEW b \in Biz, Began(b)'
  PROVE  /\ list'[b] = list[b]
         /\ \/ Began(b)
            \/ CallbackBegin(b)
<1> DEFINE Goal == /\ list'[b] = list[b]
                   /\ \/ Began(b)
                      \/ CallbackBegin(b)
<1>0. /\ b \in Worker /\ b \notin Data /\ Data \subseteq Worker /\ Biz \subseteq Worker
      /\ pc \in [Worker -> WorkerStates] /\ list = [w \in Worker |-> list[w]]
  BY ListTypes, Workers
<1>. USE DEF Began, Waits
<1>1. CASE UNCHANGED <<list, pc>>
  BY <1>1
<1>2. ASSUME NEW d \in Conn, Dispatch(d) PROVE Goal
  BY <1>1, <1>2 DEF Dispatch
<1>3. CASE Publish \/ AcceptNotify \/ Destroy
  BY <1>1, <1>3 DEF Publish, AcceptNotify, Destroy
<1>4. ASSUME NEW d \in Requester, ConnectNotify(d) PROVE Goal
  BY <1>1, <1>4 DEF ConnectNotify
<1>5. ASSUME NEW d \in Closeable, AppPost(d) PROVE Goal
  BY <1>1, <1>5 DEF AppPost
<1>6. ASSUME NEW d \in Data, DataThread(d) PROVE Goal
  BY <1>0, <1>6 DEF DataThread, DataTake, DataRecv, DataSend, DataAbandon
<1>7. ASSUME NEW a \in Biz, BizThread(a) PROVE Goal
  <2>1. CASE a # b
    BY <1>0, <1>7, <2>1 DEF BizThread, Sweep, BizTake, CallbackBegin, CallbackEnd
  <2>2. CASE a = b
    <3>1. CASE Sweep(b) \/ BizTake(b)
      BY <1>0, <3>1 DEF Sweep, BizTake
    <3>2. CASE CallbackBegin(b)
      BY <3>2 DEF CallbackBegin
    <3>3. CASE CallbackEnd(b)
      BY <3>3 DEF CallbackEnd
    <3>. QED
      BY <1>7, <2>2, <3>1, <3>2, <3>3 DEF BizThread
  <2>. QED
    BY <2>1, <2>2
<1>8. ASSUME NEW w \in Worker, EventEnd(w) PROVE Goal
  <2>1. CASE w # b
    BY <1>0, <1>8, <2>1
       DEF EventEnd, CloseUnbind, ClosePost, Deref, CheckHeld, CheckUnheld, Remove, NextEvent,
           WorkerEnd
  <2>2. CASE w = b
    BY <1>0, <1>8, <2>2
       DEF EventEnd, CloseUnbind, ClosePost, Deref, CheckHeld, CheckUnheld, Remove, NextEvent,
           WorkerEnd
  <2>. QED
    BY <2>1, <2>2
<1>. QED
  BY <1>1, <1>2, <1>3, <1>4, <1>5, <1>6, <1>7, <1>8, ListsMoves

(* A connection is in hand of no callback before the service heard of it.  *)
LEMMA NoneBegins ==
  ASSUME NamesInv, OneList, OrderOK, Next, NEW c \in Accepted, c \notin opened',
         c \notin opened, NEW b \in Biz, Began(b)'
  PROVE  InHand(b)' # c
<1>1. InHand(b)' = InHand(b)
  BY BeganBy DEF InHand
<1>2. CASE Began(b)
  BY <1>1, <1>2 DEF OrderOK
<1>3. CASE CallbackBegin(b)
  <2> SUFFICES ASSUME InHand(b) = c PROVE FALSE
    BY <1>1
  <2>1. b \in Worker /\ ~ Waits(b)
    BY <1>3, Workers DEF CallbackBegin, Waits
  <2>2. /\ list[b] # << >> /\ list[b] \in Seq(AnyEvent) /\ queue[b] \in Seq(AnyEvent)
        /\ Named(list[b], c)
    BY <2>1, FirstEvent, ListTypes DEF Named
  <2>3. b = BizOf(c)
    BY <2>2 DEF OneList
  <2>4. Line(c) # << >> /\ Head(Line(c)) = Head(list[b]) /\ Line(c) \in Seq(AnyEvent)
    <3>1. list[b] \o queue[b] # << >> /\ Head(list[b] \o queue[b]) = Head(list[b])
      BY <2>2, ConcatTail
    <3>. QED
      BY <2>3, <3>1, LineType DEF Line
  <2>5. Line(c)[1].conn = c /\ 1 \in 1 .. Len(Line(c)) /\ Head(Line(c)) = Line(c)[1]
    BY <2>4, HeadTailProperties DEF InHand
  <2>6. AcceptLeads(Line(c), c)
    BY DEF OrderOK
  <2>7. Line(c)[1] = Event(c, "accept")
    BY <2>5, <2>6 DEF AcceptLeads, Events
  <2>8. KindInHand(b) = "accept"
    BY <2>4, <2>5, <2>7 DEF KindInHand, Event
  <2>. QED
    BY <1>3, <2>8 DEF CallbackBegin
<1>. QED
  BY <1>2, <1>3, BeganBy

(* A thread of the application closes only what the service heard of.      *)
LEMMA ClosersKnow ==
  ASSUME NamesInv, OrderOK, Next, NEW c \in Accepted, c \notin opened, c \in Closeable
  PROVE  closer'[c] # "post"
<1>0. closer[c] # "post" /\ closer \in [Closeable -> {"idle", "post", "done"}]
  BY DEF OrderOK, NamesInv, ActorsOK
<1>1. ASSUME NEW d \in Closeable, AppClose(d) \/ AppPost(d) PROVE closer'[c] # "post"
  BY <1>0, <1>1 DEF AppClose, AppPost
<1>2. UNCHANGED closer \/ \E d \in Closeable : AppClose(d) \/ AppPost(d)
  BY ActorsMoves DEF ConnectInsert, RequesterThread, ConnectAdd, ConnectRefused, ConnectBind,
     ConnectNotify, Destroy, Sweep
<1>. QED
  BY <1>0, <1>1, <1>2

(* When exit() is over no thread has or meets anything.                    *)
LEMMA NothingReached ==
  ASSUME NamesInv, DispatchOK, Destroy, NEW c \in Accepted
  PROVE  ~ Reached(c)'
<1>1. cpc' = "done" /\ polled' = {} /\ UNCHANGED <<list, batch>>
      /\ \A w \in Worker : queue'[w] = << >> /\ list[w] = << >>
      /\ \A d \in Data : batch[d] = << >>
  BY ListTypes DEF Destroy, Joined, DispatchOK, Waits
<1>2. Events(<< >>, c) = {}
  BY DEF Events
<1>. QED
  BY <1>1, <1>2, Workers DEF Reached, Named, Events

(* Every step keeps the order.                                             *)
LEMMA OrderStep ==
  ASSUME NamesInv, HeldInv, OneList, OrderOK, Next
  PROVE  OrderOK'
<1>0. DispatchOK /\ NewcomerOK
  BY DEF HeldInv
<1> SUFFICES ASSUME NEW c \in Accepted, c \notin opened'
             PROVE  /\ AcceptLeads(Line(c)', c)
                    /\ Reached(c)' => Announces(Line(c)', c) \/ (cpc' = "notify" /\ newcomer' = c)
                    /\ \A b \in Biz : Began(b)' => InHand(b)' # c
                    /\ c \in Closeable => closer'[c] # "post"
  BY DEF OrderOK, AcceptLeads, Announces, Events
<1>1. c \notin opened
  BY OpenedBy
<1>2. \A b \in Biz : Began(b)' => InHand(b)' # c
  BY <1>1, NoneBegins
<1>3. c \in Closeable => closer'[c] # "post"
  BY <1>1, ClosersKnow
<1>4. CASE AcceptBind /\ newcomer = c
  <2>1. /\ UNCHANGED <<queue, list>> /\ cpc' = "notify" /\ newcomer' = c
        /\ \A w \in Worker : ~ Named(queue[w], c) /\ ~ Named(list[w], c)
    BY <1>0, <1>4 DEF AcceptBind, NewcomerOK, Unnamed
  <2>2. uniq'[c] \in Nat
    BY SetsStep DEF SetsOK, Accepted
  <2>3. PICK b \in Worker : BizOf(c)' = b
    <3>1. uniq'[c] % BizCount \in 0 .. (BizCount - 1)
      BY <2>2, ReactorAssumption
    <3>. QED
      BY <3>1, Workers DEF BizOf, Biz
  <2>4. /\ Line(c)' = list[b] \o queue[b]
        /\ list[b] \in Seq(AnyEvent) /\ queue[b] \in Seq(AnyEvent)
        /\ Events(list[b], c) = {} /\ Events(queue[b], c) = {}
    BY <2>1, <2>3, ListTypes DEF Line, Named
  <2>5. Events(list[b] \o queue[b], c) = {}
    BY <2>4, ConcatEvents, EventsNat
  <2>. QED
    BY <1>2, <1>3, <2>1, <2>4, <2>5 DEF AcceptLeads
<1>5. CASE uniq'[c] = uniq[c]
  <2>1. /\ AcceptLeads(Line(c)', c)
        /\ Announces(Line(c), c) /\ ~ Destroy => Announces(Line(c)', c)
    BY <1>1, <1>5, LineInOrder
  <2>2. ASSUME Reached(c)'
        PROVE  Announces(Line(c)', c) \/ (cpc' = "notify" /\ newcomer' = c)
    <3>1. ~ Destroy
      BY <1>0, <2>2, NothingReached
    <3>2. CASE Announces(Line(c), c)
      BY <2>1, <3>1, <3>2
    <3>3. CASE cpc = "notify" /\ newcomer = c
      BY <1>5, <3>3, SetUpStep
    <3>4. CASE AcceptBind /\ newcomer = c
      BY <3>4 DEF AcceptBind
    <3>5. Reached(c) => Announces(Line(c), c) \/ (cpc = "notify" /\ newcomer = c)
      BY <1>1 DEF OrderOK
    <3>. QED
      BY <2>2, <3>2, <3>3, <3>4, <3>5, ReachedStep
  <2>. QED
    BY <1>2, <1>3, <2>1, <2>2
<1>. QED
  BY <1>4, <1>5, UniqueKept

(* At the start there is nothing in any line.                              *)
LEMMA InitOrder == Init => OrderOK
<1> SUFFICES ASSUME Init PROVE OrderOK
  OBVIOUS
<1>1. NamesInv
  BY InitNames
<1>2. ASSUME NEW c \in Accepted PROVE Line(c) = << >>
  <2>1. list[BizOf(c)] = << >> /\ queue[BizOf(c)] = << >>
    BY <1>1, LineType DEF Init
  <2>. QED
    BY <2>1, ConcatEmptySeq, EmptyOK DEF Line
<1>3. \A c : Events(<< >>, c) = {}
  BY DEF Events
<1>4. \A c \in Accepted : ~ Reached(c) /\ AcceptLeads(Line(c), c)
  BY <1>2, <1>3, Workers DEF Init, Reached, Named, AcceptLeads
<1>5. \A b \in Biz : ~ Began(b)
  BY Workers DEF Init, Began, Waits
<1>. QED
  BY <1>4, <1>5 DEF Init, OrderOK

(* What the service hears first of a connection that do_accept made is     *)
(* on_accept: epoll has the connection before that event is appended, but  *)
(* only the connection thread asks epoll, and not in between.              *)
THEOREM AcceptComesFirst == Spec => []AcceptFirst
<1>1. Init => OrderOK
  BY InitOrder
<1>2. NamesInv /\ HeldInv /\ OneList /\ OrderOK /\ [Next]_vars => OrderOK'
  <2> SUFFICES ASSUME NamesInv, HeldInv, OneList, OrderOK, [Next]_vars PROVE OrderOK'
    OBVIOUS
  <2>1. CASE Next
    BY <2>1, OrderStep
  <2>2. CASE UNCHANGED vars
    <3>1. UNCHANGED <<opened, cpc, newcomer, closer, armed, polled, queue, list, batch, pc, uniq>>
      BY <2>2 DEF vars
    <3>2. \A c : /\ Line(c)' = Line(c)
                 /\ Reached(c)' <=> Reached(c)
      BY <3>1 DEF Line, BizOf, Reached, Named, Events
    <3>3. \A b : /\ InHand(b)' = InHand(b)
                 /\ Began(b)' <=> Began(b)
      BY <3>1 DEF InHand, Began, Waits
    <3>4. \A s, c : /\ AcceptLeads(s, c)' <=> AcceptLeads(s, c)
                    /\ Announces(s, c)' <=> Announces(s, c)
      BY DEF AcceptLeads, Announces, Events, Event
    <3>. QED
      BY <3>1, <3>2, <3>3, <3>4 DEF OrderOK, AcceptLeads, Announces, Events
  <2>. QED
    BY <2>1, <2>2
<1>3. NamesInv /\ OrderOK => AcceptFirst
  <2> SUFFICES ASSUME NamesInv, OrderOK, NEW b \in Biz, pc[b] = "callback",
                      InHand(b) \in Accepted, InHand(b) \notin opened
               PROVE  FALSE
    BY DEF AcceptFirst
  <2>. QED
    BY DEF OrderOK, Began, Waits
<1>. QED
  BY <1>1, <1>2, <1>3, InitOneList, OneListKept, InitNames, NamesStep, InitCloses, CloseInvStep,
     InitCounts, CountInvStep, InitHeld, HeldInvStep, PTL DEF Spec

-----------------------------------------------------------------------------
(* The accepted connections that only the reactor's threads close.         *)
Guarded == Accepted \ Closeable

(* The service has heard of c, or do_accept will tell it, or a thread can  *)
(* meet c.                                                                 *)
Introduced(c) ==
  \/ c \in opened
  \/ cpc = "notify" /\ newcomer = c
  \/ Reached(c)
  \/ \E b \in Biz : Named(queue[b], c) \/ Named(list[b], c)

(* The close of c is in its line, and its callback did not begin.          *)
Pending(c) ==
  \E i \in 1 .. Len(Line(c)) :
    Line(c)[i] = Event(c, "close") /\ (i > 1 \/ ~ Began(BizOf(c)))

(* A connection does not get lost between close_connection and on_close.   *)
Accounted(c) ==
  \/ c \in binded
  \/ \E w \in Worker : pc[w] = "post" /\ InHand(w) = c
  \/ Pending(c)
  \/ closes[c] = 1

(* The inductive invariant behind ReportedBeforeFreed.                     *)
ReportInv ==
  running => \A c \in Guarded :
    /\ Introduced(c) => Accounted(c)
    /\ life[c] = "freed" /\ c \in opened => closes[c] = 1

(* The callback of a connection whose close is first in its line begins.   *)
LEMMA CloseBegins ==
  ASSUME NamesInv, CloseInv, Next, NEW c \in Accepted, Line(c) # << >>,
         Line(c)[1] = Event(c, "close"), CallbackBegin(BizOf(c))
  PROVE  closes'[c] = 1
<1> DEFINE b == BizOf(c)
<1>1. /\ b \in Worker /\ ~ Waits(b) /\ c \in Conn
      /\ list[b] \in Seq(AnyEvent) /\ queue[b] \in Seq(AnyEvent) /\ Line(c) \in Seq(AnyEvent)
  BY LineType DEF CallbackBegin, Waits
<1>2. list[b] # << >>
  BY <1>1, FirstEvent
<1>3. Head(list[b]) = Line(c)[1]
  <2>1. Head(list[b] \o queue[b]) = Head(list[b])
    BY <1>1, <1>2, ConcatTail
  <2>2. Head(Line(c)) = Line(c)[1]
    BY <1>1, HeadTailProperties
  <2>. QED
    BY <2>1, <2>2 DEF Line
<1>4. InHand(b) = c /\ KindInHand(b) = "close"
  BY <1>3 DEF InHand, KindInHand, Event
<1>5. closes'[c] = closes[c] + 1
  BY <1>1, <1>4 DEF CallbackBegin, CloseInv
<1>6. closes[c] \in {0, 1} /\ closes'[c] \in {0, 1}
  BY <1>1, CloseInvStep DEF CloseInv, CloseOK
<1>. QED
  BY <1>5, <1>6

(* A close that is pending stays so until its callback begins.             *)
LEMMA PendingStep ==
  ASSUME NamesInv, CloseInv, Next, ~ Destroy, NEW c \in Accepted, uniq'[c] = uniq[c],
         Pending(c)
  PROVE  Pending(c)' \/ closes'[c] = 1
<1> DEFINE b == BizOf(c)
<1>0. /\ b \in Biz /\ Line(c) \in Seq(AnyEvent) /\ Len(Line(c)) \in Nat /\ BizOf(c)' = b
  BY LineType DEF BizOf
<1>1. PICK i \in 1 .. Len(Line(c)) : Line(c)[i] = Event(c, "close") /\ (i > 1 \/ ~ Began(b))
  BY DEF Pending
<1>2. CASE i = 1 /\ ~ Began(b) /\ Began(b)'
  <2>1. CallbackBegin(b) /\ Line(c) # << >>
    BY <1>0, <1>1, <1>2, BeganBy, EmptySeq
  <2>. QED
    BY <1>1, <1>2, <2>1, CloseBegins
<1>3. CASE Line(c)' = Line(c) /\ (i > 1 \/ ~ Began(b)')
  BY <1>0, <1>1, <1>3 DEF Pending, Event
<1>4. ASSUME NEW e \in AnyEvent, Line(c)' = Append(Line(c), e), i > 1 \/ ~ Began(b)'
      PROVE  Pending(c)'
  <2>1. i \in 1 .. Len(Line(c)') /\ Line(c)'[i] = Event(c, "close")
    BY <1>0, <1>1, <1>4, AppendProperties
  <2>. QED
    BY <1>0, <1>4, <2>1 DEF Pending, Event
<1>5. ASSUME Line(c)' = Tail(Line(c)), Line(c) # << >>, Began(b), ~ Began(b)'
      PROVE  Pending(c)'
  <2>1. i > 1
    BY <1>1, <1>5
  <2>2. /\ Len(Tail(Line(c))) = Len(Line(c)) - 1
        /\ \A j \in 1 .. (Len(Line(c)) - 1) : Tail(Line(c))[j] = Line(c)[j + 1]
    BY <1>0, <1>5, HeadTailProperties
  <2>3. i - 1 \in 1 .. (Len(Line(c)) - 1) /\ (i - 1) + 1 = i
    BY <1>0, <2>1
  <2>4. i - 1 \in 1 .. Len(Line(c)') /\ Line(c)'[i - 1] = Event(c, "close")
    BY <1>1, <1>5, <2>2, <2>3
  <2>. QED
    BY <1>0, <1>5, <2>4 DEF Pending, Event
<1>6. LineMoves(c)
  BY LineStep
<1>. QED
  BY <1>0, <1>1, <1>2, <1>3, <1>4, <1>5, <1>6 DEF LineMoves

(* Who posts the close puts it behind all that is in hand.                 *)
LEMMA CloseWaits ==
  ASSUME NamesInv, Next, NEW w \in Worker, ClosePost(w), NEW c \in Accepted, InHand(w) = c
  PROVE  Pending(c)'
<1> DEFINE b == BizOf(c)
<1>0. /\ b \in Worker /\ b \in Biz /\ c \in Conn /\ AppendBusiness(c, "close")
      /\ UNCHANGED <<uniq, list>> /\ pc' = [pc EXCEPT ![w] = "deref"] /\ ~ Waits(w)
      /\ pc \in [Worker -> WorkerStates] /\ list[b] \in Seq(AnyEvent)
      /\ BizOf(c)' = b
  BY LineType, ListTypes DEF ClosePost, Waits, BizOf
<1>1. PICK i \in 1 .. Len(Line(c)') : i > Len(list[b]) /\ Line(c)'[i] = Event(c, "close")
  BY <1>0, PostLine DEF BizKinds
<1>2. i = 1 => ~ Began(b)'
  <2> SUFFICES ASSUME i = 1 PROVE ~ Began(b)'
    OBVIOUS
  <2>1. list[b] = << >>
    BY <1>0, <1>1, EmptySeq
  <2>2. Waits(b)
    BY <1>0, <2>1, ListTypes
  <2>3. b # w
    BY <1>0, <2>2
  <2>. QED
    BY <1>0, <2>2, <2>3 DEF Began, Waits
<1>. QED
  BY <1>0, <1>1, <1>2 DEF Pending, Event

(* A thread that took the connection out of the binded set gets to posting *)
(* the close.                                                              *)
LEMMA PostStep ==
  ASSUME NamesInv, Next, NEW w \in Worker, pc[w] = "post", NEW c \in Accepted, InHand(w) = c
  PROVE  (pc'[w] = "post" /\ InHand(w)' = c) \/ Pending(c)'
<1> DEFINE Goal == (pc'[w] = "post" /\ list'[w] = list[w]) \/ ClosePost(w)
<1>0. /\ pc \in [Worker -> WorkerStates] /\ list = [v \in Worker |-> list[v]]
      /\ Data \subseteq Worker /\ Biz \subseteq Worker
  BY ListTypes, Workers
<1>1. ASSUME UNCHANGED <<list, pc>> PROVE Goal
  BY <1>1
<1>2. ASSUME NEW d \in Conn, Dispatch(d) PROVE Goal
  BY <1>1, <1>2 DEF Dispatch
<1>3. ASSUME Publish \/ AcceptNotify \/ Destroy PROVE Goal
  BY <1>1, <1>3 DEF Publish, AcceptNotify, Destroy
<1>4. ASSUME NEW d \in Requester, ConnectNotify(d) PROVE Goal
  BY <1>1, <1>4 DEF ConnectNotify
<1>5. ASSUME NEW d \in Closeable, AppPost(d) PROVE Goal
  BY <1>1, <1>5 DEF AppPost
<1>6. ASSUME NEW d \in Data, DataThread(d) PROVE Goal
  BY <1>0, <1>6 DEF DataThread, DataTake, DataRecv, DataSend, DataAbandon
<1>7. ASSUME NEW a \in Biz, BizThread(a) PROVE Goal
  BY <1>0, <1>7 DEF BizThread, Sweep, BizTake, CallbackBegin, CallbackEnd
<1>8. ASSUME NEW v \in Worker, EventEnd(v) PROVE Goal
  <2>1. CASE v # w
    BY <1>0, <1>8, <2>1
       DEF EventEnd, CloseUnbind, ClosePost, Deref, CheckHeld, CheckUnheld, Remove, NextEvent,
           WorkerEnd
  <2>2. CASE v = w
    BY <1>8, <2>2 DEF EventEnd, CloseUnbind, Deref, CheckHeld, CheckUnheld, Remove, WorkerEnd
  <2>. QED
    BY <2>1, <2>2
<1>9. Goal
  BY <1>1, <1>2, <1>3, <1>4, <1>5, <1>6, <1>7, <1>8, ListsMoves
<1>. QED
  BY <1>9, CloseWaits DEF InHand

(* A bound connection stays so until a thread of the reactor sets out to   *)
(* post its close.                                                         *)
LEMMA BindedStep ==
  ASSUME NamesInv, CountInv, Next, running', NEW c \in Guarded, c \in binded
  PROVE  c \in binded' \/ \E w \in Worker : pc'[w] = "post" /\ InHand(w)' = c
<1> DEFINE Goal == c \in binded' \/ \E w \in Worker : pc'[w] = "post" /\ InHand(w)' = c
<1>0. /\ pc \in [Worker -> WorkerStates] /\ c \notin Closeable
  BY ListTypes DEF Guarded
<1>1. CASE UNCHANGED <<life, normal, closed, binded, uniq>> \/ AcceptRefused
  BY <1>1 DEF AcceptRefused
<1>2. CASE AcceptBind
  BY <1>2 DEF AcceptBind, Bind
<1>3. ~ Destroy
  BY DEF Destroy, Joined, CountInv
<1>4. ASSUME NEW d \in Conn, AcceptInsert(d) PROVE Goal
  BY <1>4 DEF AcceptInsert
<1>5. ASSUME NEW d \in Requester, ConnectInsert(d) \/ ConnectRefused(d) \/ ConnectBind(d)
      PROVE  Goal
  BY <1>5 DEF ConnectInsert, ConnectRefused, ConnectBind, Bind
<1>6. ASSUME NEW d \in Closeable, AppClose(d) PROVE Goal
  BY <1>0, <1>6 DEF AppClose, Unbind
<1>7. ASSUME NEW b \in Biz, Sweep(b) PROVE Goal
  BY <1>7 DEF Sweep
<1>8. ASSUME NEW w \in Worker, CloseUnbind(w) PROVE Goal
  <2>1. CASE InHand(w) \notin binded
    BY <1>8, <2>1 DEF CloseUnbind, Unbind
  <2>2. CASE InHand(w) \in binded /\ InHand(w) # c
    BY <1>8, <2>2 DEF CloseUnbind, Unbind
  <2>3. CASE InHand(w) \in binded /\ InHand(w) = c
    BY <1>0, <1>8, <2>3 DEF CloseUnbind, InHand
  <2>. QED
    BY <2>1, <2>2, <2>3
<1>9. ASSUME NEW w \in Worker, Remove(w) PROVE Goal
  BY <1>9 DEF Remove
<1>. QED
  BY <1>1, <1>2, <1>3, <1>4, <1>5, <1>6, <1>7, <1>8, <1>9, SetsMoves

(* The number of close callbacks never goes back.                          *)
LEMMA ClosesGrow ==
  ASSUME NamesInv, CloseInv, Next, NEW c \in Conn, closes[c] = 1
  PROVE  closes'[c] = 1
<1>0. closes \in [Conn -> Nat] /\ closes'[c] \in {0, 1}
  BY CloseInvStep DEF CloseInv, CloseOK
<1>1. UNCHANGED closes \/ \E b \in Biz : CallbackBegin(b)
  BY CloseMoves DEF Publish, AcceptNotify, Destroy, ConnectNotify, AppClose, AppPost, DataThread,
     DataTake, DataRecv, DataSend, DataAbandon, BizThread, Sweep, BizTake, CallbackEnd, EventEnd,
     CloseUnbind, ClosePost, Deref, CheckHeld, CheckUnheld, Remove, WorkerEnd
<1>2. ASSUME NEW b \in Biz, CallbackBegin(b) PROVE closes'[c] = 1
  BY <1>0, <1>2 DEF CallbackBegin
<1>. QED
  BY <1>1, <1>2

(* A step does not lose a connection between close_connection and the      *)
(* callback.                                                               *)
LEMMA AccountedStep ==
  ASSUME NamesInv, CloseInv, CountInv, OneList, Next, running', NEW c \in Guarded,
         uniq'[c] = uniq[c], Accounted(c)
  PROVE  Accounted(c)'
<1>0. c \in Accepted /\ c \in Conn
  BY DEF Guarded, Accepted
<1>1. CASE c \in binded
  BY <1>1, BindedStep DEF Accounted
<1>2. ASSUME NEW w \in Worker, pc[w] = "post", InHand(w) = c PROVE Accounted(c)'
  BY <1>0, <1>2, PostStep DEF Accounted
<1>3. CASE Pending(c)
  <2>1. ~ Destroy
    BY DEF Destroy, Joined, CountInv
  <2>. QED
    BY <1>0, <1>3, <2>1, PendingStep DEF Accounted
<1>4. CASE closes[c] = 1
  BY <1>0, <1>4, ClosesGrow DEF Accounted
<1>. QED
  BY <1>1, <1>2, <1>3, <1>4 DEF Accounted

(* Who has c in hand has it in a list.                                     *)
LEMMA HandIntroduces ==
  ASSUME NamesInv, NEW c \in Accepted, NEW w \in Worker, ~ Waits(w), InHand(w) = c
  PROVE  Introduced(c)
<1>1. Named(list[w], c)
  BY FirstEvent DEF Named
<1>. QED
  BY <1>1, Workers DEF Introduced, Reached

(* The first that is heard of a connection is that do_accept binds it.     *)
LEMMA IntroStep ==
  ASSUME NamesInv, Next, NEW c \in Guarded, Introduced(c)'
  PROVE  Introduced(c) \/ (AcceptBind /\ newcomer = c)
<1>0. /\ c \in Accepted /\ c \in Conn /\ c \notin Requester /\ c \notin Closeable
      /\ Biz \subseteq Worker /\ Data \cap Biz = {}
  BY Workers DEF Guarded, Accepted
<1>1. CASE c \in opened'
  <2>1. CASE c \in opened
    BY <2>1 DEF Introduced
  <2>2. ASSUME NEW b \in Biz, pc[b] = "run", InHand(b) = c PROVE Introduced(c)
    BY <1>0, <2>2, HandIntroduces DEF Waits
  <2>. QED
    BY <1>1, <2>1, <2>2, OpenedBy
<1>2. CASE cpc' = "notify" /\ newcomer' = c
  <2>1. ConnectionThread => AcceptBind /\ newcomer = c
    BY <1>2 DEF ConnectionThread, Poll, Publish, AcceptBind, AcceptRefused, AcceptNotify,
                AcceptDone, ConnectionThreadEnd, Dispatch, AcceptInsert
  <2>. QED
    BY <1>2, <2>1, ConnectionOwns DEF Introduced
<1>3. CASE Reached(c)'
  BY <1>0, <1>3, ReachedStep DEF Introduced
<1>4. ASSUME NEW b \in Biz, Named(queue'[b], c) \/ Named(list'[b], c) PROVE Introduced(c)
  <2>1. Named(queue[b], c) \/ Named(list[b], c) \/ Posts(c)
    BY <1>0, <1>4, NamedStep
  <2>2. ASSUME Posts(c) PROVE Introduced(c)
    BY <1>0, <2>2, HandIntroduces DEF Posts, Introduced
  <2>. QED
    BY <2>1, <2>2 DEF Introduced
<1>. QED
  BY <1>1, <1>2, <1>3, <1>4 DEF Introduced, Named, Events

(* What holds a reference in the line of a connection.                     *)
LEMMA PendingHeld ==
  ASSUME NamesInv, NEW c \in Accepted, Pending(c)
  PROVE  Holders(c) # {}
<1> DEFINE b == BizOf(c)
<1>0. /\ b \in Worker /\ list[b] \in Seq(AnyEvent) /\ queue[b] \in Seq(AnyEvent)
      /\ Line(c) = list[b] \o queue[b]
  BY LineType DEF Line
<1>1. PICK i \in 1 .. Len(Line(c)) : Line(c)[i] = Event(c, "close") /\ (i > 1 \/ ~ Began(b))
  BY DEF Pending
<1>2. i \in Events(Line(c), c) /\ i \in Int
  BY <1>1 DEF Events, Event
<1>3. i \in Events(list[b], c) \/ i - Len(list[b]) \in Events(queue[b], c)
  BY <1>0, <1>2, ConcatEvents
<1>4. CASE i \in Events(list[b], c)
  <2>1. list[b] # << >>
    BY <1>4 DEF Events
  <2>2. ~ Waits(b)
    BY <1>0, <2>1, ListTypes
  <2>3. i > 1 \/ ~ Checks(pc[b])
    BY <1>1, <2>2 DEF Began, Checks
  <2>4. <<"list", b, i>> \in HoldersIn(queue, batch, list, pc, binded, c)
    BY <1>0, <1>4, <2>3, InHolders
  <2>. QED
    BY <2>4, HoldersNow
<1>5. CASE i - Len(list[b]) \in Events(queue[b], c)
  <2>1. <<"queue", b, i - Len(list[b])>> \in HoldersIn(queue, batch, list, pc, binded, c)
    BY <1>0, <1>5, InHolders
  <2>. QED
    BY <2>1, HoldersNow
<1>. QED
  BY <1>3, <1>4, <1>5

(* A connection that nobody holds is not on its way to its close callback. *)
LEMMA ClosedBehindAll ==
  ASSUME NamesInv, NEW c \in Accepted, Accounted(c), Holders(c) = {}
  PROVE  closes[c] = 1
<1>1. c \notin binded
  <2>1. c \in binded => <<"binded">> \in HoldersIn(queue, batch, list, pc, binded, c)
    BY InHolders
  <2>. QED
    BY <2>1, HoldersNow
<1>2. ASSUME NEW w \in Worker, pc[w] = "post", InHand(w) = c PROVE FALSE
  <2>1. 1 \in Events(list[w], c)
    BY <1>2, FirstEvent DEF Waits
  <2>2. <<"list", w, 1>> \in HoldersIn(queue, batch, list, pc, binded, c)
    BY <1>2, <2>1, InHolders DEF Checks
  <2>. QED
    BY <2>2, HoldersNow
<1>. QED
  BY <1>1, <1>2, PendingHeld DEF Accounted

(* destroy_invalid_connections frees what nobody holds.                    *)
LEMMA FreedBy ==
  ASSUME NamesInv, CountInv, Next, running', NEW c \in Accepted,
         life'[c] = "freed", life[c] # "freed"
  PROVE  Holders(c) = {} /\ UNCHANGED opened
<1>0. c \in Conn /\ life \in [Conn -> {"unborn", "live", "freed"}] /\ c \notin Requester
  BY DEF Accepted, NamesInv, SetsOK
<1>1. ~ Destroy
  BY DEF Destroy, Joined, CountInv
<1>2. ASSUME NEW b \in Biz, Sweep(b) PROVE Holders(c) = {} /\ UNCHANGED opened
  <2>1. refs[c] = 0 /\ running /\ UNCHANGED opened
    BY <1>0, <1>2 DEF Sweep, Invalid
  <2>2. IsFiniteSet(Holders(c)) /\ Cardinality(Holders(c)) = 0
    BY <1>0, <2>1 DEF CountInv, CountOK
  <2>. QED
    BY <2>1, <2>2, FS_EmptySet
<1>3. ASSUME NEW d \in Conn, AcceptInsert(d) PROVE FALSE
  BY <1>0, <1>3 DEF AcceptInsert, Insert
<1>4. ASSUME NEW d \in Requester, ConnectInsert(d) \/ ConnectRefused(d) \/ ConnectBind(d)
      PROVE  FALSE
  BY <1>0, <1>4 DEF ConnectInsert, Insert, ConnectRefused, ConnectBind
<1>5. ~ (AcceptBind \/ AcceptRefused \/ \E d \in Closeable : AppClose(d))
  BY DEF AcceptBind, AcceptRefused, AppClose
<1>6. ASSUME NEW w \in Worker, CloseUnbind(w) \/ Remove(w) PROVE FALSE
  BY <1>6 DEF CloseUnbind, Remove
<1>. QED
  BY <1>1, <1>2, <1>3, <1>4, <1>5, <1>6, SetsMoves

(* Every step keeps the invariant.                                         *)
LEMMA ReportStep ==
  ASSUME NamesInv, CloseInv, CountInv, HeldInv, OneList, ReportInv, Next
  PROVE  ReportInv'
<1> SUFFICES ASSUME running', NEW c \in Guarded
             PROVE  /\ Introduced(c)' => Accounted(c)'
                    /\ life'[c] = "freed" /\ c \in opened' => closes'[c] = 1
  BY DEF ReportInv, Guarded, Accepted
<1>0. /\ running /\ c \in Accepted /\ c \in Conn
      /\ Introduced(c) => Accounted(c)
      /\ life[c] = "freed" /\ c \in opened => closes[c] = 1
  BY RunningStep DEF ReportInv, Guarded, Accepted
<1>1. ASSUME Introduced(c)' PROVE Accounted(c)'
  <2>1. CASE AcceptBind /\ newcomer = c
    BY <2>1 DEF AcceptBind, Bind, Accounted
  <2>2. CASE ~ (AcceptBind /\ newcomer = c)
    BY <1>0, <1>1, <2>2, IntroStep, UniqueKept, AccountedStep
  <2>. QED
    BY <2>1, <2>2
<1>2. ASSUME life'[c] = "freed", c \in opened' PROVE closes'[c] = 1
  <2>1. CASE life[c] = "freed"
    <3>1. ASSUME NEW b \in Biz, pc[b] = "run", InHand(b) = c PROVE FALSE
      <4>1. b \in Worker /\ 1 \in Events(list[b], c)
        BY <3>1, FirstEvent, Workers DEF Waits
      <4>2. <<"list", b, 1>> \in HoldersIn(queue, batch, list, pc, binded, c)
        BY <3>1, <4>1, InHolders DEF Checks
      <4>. QED
        BY <2>1, <4>2, HoldersNow DEF HeldInv, HeldIsLive, Guarded
    <3>2. c \in opened
      BY <1>2, <3>1, OpenedBy
    <3>. QED
      BY <1>0, <2>1, <3>2, ClosesGrow
  <2>2. CASE life[c] # "freed"
    <3>1. Holders(c) = {} /\ c \in opened
      BY <1>0, <1>2, <2>2, FreedBy
    <3>2. closes[c] = 1
      BY <1>0, <3>1, ClosedBehindAll DEF Introduced
    <3>. QED
      BY <1>0, <3>2, ClosesGrow
  <2>. QED
    BY <2>1, <2>2
<1>. QED
  BY <1>1, <1>2

(* A connection the service heard of is not freed behind its back: as long *)
(* as the reactor runs, on_close began before destroy_invalid_connections  *)
(* deletes it.                                                             *)
THEOREM CloseComesFirst == Spec => []ReportedBeforeFreed
<1>1. Init => ReportInv
  <2> SUFFICES ASSUME Init, NEW c \in Guarded PROVE ~ Introduced(c) /\ life[c] # "freed"
    BY DEF ReportInv
  <2>1. \A x : ~ Named(<< >>, x)
    BY DEF Named, Events
  <2>. QED
    BY <2>1, Workers DEF Init, Introduced, Reached, Guarded, Accepted
<1>2. NamesInv /\ CloseInv /\ CountInv /\ HeldInv /\ OneList /\ ReportInv /\ [Next]_vars
        => ReportInv'
  <2> SUFFICES ASSUME NamesInv, CloseInv, CountInv, HeldInv, OneList, ReportInv, [Next]_vars
               PROVE  ReportInv'
    OBVIOUS
  <2>1. CASE Next
    BY <2>1, ReportStep
  <2>2. CASE UNCHANGED vars
    <3>1. UNCHANGED <<running, life, opened, closes, cpc, newcomer, armed, polled, binded, queue,
                      list, batch, pc, uniq>>
      BY <2>2 DEF vars
    <3>2. \A c : Introduced(c)' <=> Introduced(c)
      BY <3>1 DEF Introduced, Reached, Named, Events
    <3>3. \A c : Line(c)' = Line(c) /\ BizOf(c)' = BizOf(c)
      BY <3>1 DEF Line, BizOf
    <3>4. \A b : /\ InHand(b)' = InHand(b)
                 /\ Began(b)' <=> Began(b)
      BY <3>1 DEF InHand, Began, Waits
    <3>5. \A c : Pending(c)' <=> Pending(c)
      BY <3>1, <3>3, <3>4 DEF Pending, Event
    <3>6. \A c : Accounted(c)' <=> Accounted(c)
      BY <3>1, <3>4, <3>5 DEF Accounted
    <3>. QED
      BY <3>1, <3>2, <3>6 DEF ReportInv, Guarded, Accepted
  <2>. QED
    BY <2>1, <2>2
<1>3. ReportInv => ReportedBeforeFreed
  BY DEF ReportInv, ReportedBeforeFreed, Guarded
<1>. QED
  BY <1>1, <1>2, <1>3, InitOneList, OneListKept, InitNames, NamesStep, InitCloses, CloseInvStep,
     InitCounts, CountInvStep, InitHeld, HeldInvStep, PTL DEF Spec

=============================================================================
