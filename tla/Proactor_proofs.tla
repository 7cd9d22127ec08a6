-------------------------- MODULE Proactor_proofs --------------------------
(***************************************************************************)
(* Theorems about module Proactor, for any threads, any size of            *)
(* m_async_send.buffer and any scenarios: types (TypeOK), what             *)
(* m_references counts (RefsCountHolders), no use after the last           *)
(* decrease_reference (RemovedIsLive), and the order of the bytes the      *)
(* socket takes (InOrder).                                                 *)
(***************************************************************************)
EXTENDS Proactor, FiniteSetTheorems, SequenceTheorems, TLAPS

(* Where the threads can be: only the callers send, only the threads of    *)
(* the port handle completions, one thread makes the connection.           *)
AtIocp == {"idle", "copy", "post", "close", "error", "closed", "again"} \cup InIocp
AtCaller ==
  {"idle", "send", "wait", "look", "size", "copy", "post", "close", "error", "closed"}
AtMaker ==
  {"insert", "bind", "notify", "again", "idle", "close", "error", "closed"}

ControlOK ==
  /\ \A i \in Iocp : At(i) \in AtIocp
  /\ \A t \in Caller : At(t) \in AtCaller
  /\ At(Maker) \in AtMaker
  /\ At(Biz) # "idle" => biz \in {"run", "deref"}
  /\ biz = "idle" <=> batch = << >>

(* Before it is announced nobody but its maker knows the connection.       *)
Unannounced == At(Maker) \in {"insert", "bind", "notify"}

Unknown ==
  /\ \A t \in Thread \ {Maker} : At(t) = "idle"
  /\ biz = "idle" /\ events = << >> /\ session = "new"
  /\ sends = << >> /\ ~ recving /\ done = << >>

EarlyOK ==
  Unannounced =>
    /\ Unknown /\ place = (IF At(Maker) = "insert" THEN "none" ELSE "normal")
    /\ binded <=> At(Maker) = "notify"

(* After a failed bind nobody ever will. *)
NeverBound == Unknown /\ At(Maker) = "idle"

(* m_references is the number of its holders. *)
CountOK ==
  /\ IsFiniteSet(Holders)
  /\ refs = One(binded) + Len(events) + Len(batch)
              - One(biz \in {"check", "remove"}) + Cardinality(Holders)
  /\ refs > 0 => place # "freed"

(* Nobody will post an event of the connection any more. *)
Silent ==
  /\ ~ binded /\ events = << >>
  /\ \A i \in Iocp : At(i) \in {"idle", "recv", "sent", "close", "deref"}
  /\ \A t \in Thread : At(t) \notin {"error", "closed"}

Dead == Silent /\ ~ Unannounced /\ (error \/ NeverBound)

(* The thread that took the binding away has a reference until the close   *)
(* event has one, and sets the error first.                                *)
WhoCloses == \A t \in App \cup {Maker} : At(t) \notin {"error", "closed"}

Closing ==
  ~ binded /\ ~ Unannounced => error \/ NeverBound \/ \E t \in Thread : At(t) = "error"

RemovedOK ==
  ~ bare =>
    /\ WhoCloses /\ Closing
    /\ biz = "remove" => Dead /\ Len(batch) = 1
    /\ place \in {"closed", "freed"} => Dead /\ biz = "idle"

(* The threads that use m_async_send, if it is not crowded. *)
Uses(t) == At(t) \in {"look", "size", "copy", "post", "sent", "drop"}
Completion(j) == done[j].kind = "send" /\ done[j].good /\ done[j].n > 0

(* The buffer holds what comes after byte d. *)
Loaded(d) ==
  /\ len > 0 /\ skip + len <= Chunk
  /\ \A j \in 1 .. len : held[skip + j] = d + j

(* One use of m_async_send at a time ... *)
OneUse ==
  /\ \A t, u \in Thread : Uses(t) /\ Uses(u) => t = u
  /\ \A j, k \in DOMAIN done : Completion(j) /\ Completion(k) => j = k
  /\ Len(sends) <= 1
  /\ \A t \in Thread : Uses(t) => sends = << >> /\ \A j \in DOMAIN done : ~ Completion(j)
  /\ sends # << >> => \A j \in DOMAIN done : ~ Completion(j)

(* ... and what each of them finds there. *)
UseOK(t) ==
  /\ At(t) \in {"look", "size"} => Free
  /\ At(t) = "size" => Size > 0
  /\ At(t) = "copy" => skip = 0 /\ len = pc[t].n /\ len > 0 /\ Len(wire) = dropped
  /\ At(t) = "post" => Loaded(dropped) /\ Len(wire) = dropped
  /\ At(t) = "sent" => /\ Loaded(dropped) /\ pc[t].n \in 1 .. len
                       /\ Len(wire) = dropped + pc[t].n
  /\ At(t) = "drop" => /\ Loaded(dropped - pc[t].n) /\ pc[t].n \in 1 .. len
                       /\ Len(wire) = dropped

PortOK ==
  /\ sends # << >> =>
       Head(sends) = [skip |-> skip, len |-> len] /\ Loaded(dropped) /\ Len(wire) = dropped
  /\ \A j \in DOMAIN done : Completion(j) =>
       Loaded(dropped) /\ done[j].n \in 1 .. len /\ Len(wire) = dropped + done[j].n
  /\ Free => Len(wire) = dropped

InTurn == OneUse /\ (\A t \in Thread : UseOK(t)) /\ PortOK /\ \A j \in DOMAIN wire : wire[j] = j

OrderOK == ~ crowded => InTurn

ProInv == TypeOK /\ ControlOK /\ EarlyOK /\ CountOK /\ RemovedOK /\ OrderOK

USE ProactorAssumption DEF set, flags, queues, buffer, async, port, outside, past, At

-----------------------------------------------------------------------------
(* The points of control, and the types of what the variables hold.        *)
Ats == {"idle", "insert", "bind", "notify"} \cup InCall \cup InIocp
Control == [at : Ats, n : Nat]
Parcel == [skip : Nat, len : 0 .. Chunk]
Ended == [kind : {"send", "recv"}, n : Nat, good : BOOLEAN]
Bytes == 0 .. scenario.write

(* TypeOK in parts. *)
TypeSets ==
  /\ scenario \in Scenarios
  /\ place \in {"none", "normal", "closed", "freed"} /\ binded \in BOOLEAN
  /\ eof \in BOOLEAN /\ error \in BOOLEAN /\ recving \in BOOLEAN
  /\ peer \in {"open", "fin", "reset"}
  /\ biz \in {"idle", "next", "run", "deref", "check", "remove"}
  /\ session \in {"new", "open", "closed"}
  /\ crowded \in BOOLEAN /\ bare \in BOOLEAN /\ stranded \in BOOLEAN
TypeCounts ==
  /\ stored \in 0 .. scenario.write /\ dropped \in 0 .. stored
  /\ held \in [1 .. Chunk -> Bytes] /\ skip \in Nat /\ len \in 0 .. Chunk
  /\ arrived \in 0 .. scenario.recv
TypeLists ==
  /\ events \in Seq(Kind) /\ batch \in Seq(Kind)
  /\ sends \in Seq(Parcel) /\ done \in Seq(Ended) /\ wire \in Seq(Bytes)
TypeControl == pc \in [Thread -> Control]

(* The parts make up TypeOK, before a step and after it. *)
LEMMA TypeParts ==
  TypeOK <=> TypeSets /\ TypeCounts /\ TypeLists /\ TypeControl /\ refs \in Nat
BY DEF TypeOK, TypeSets, TypeCounts, TypeLists, TypeControl, Control, Ats, Parcel, Ended, Bytes

LEMMA TypePartsNext ==
  TypeOK' <=> TypeSets' /\ TypeCounts' /\ TypeLists' /\ TypeControl' /\ refs' \in Nat
BY DEF TypeOK, TypeSets, TypeCounts, TypeLists, TypeControl, Control, Ats, Parcel, Ended, Bytes

(* The fields of the scenario. *)
LEMMA ScenarioType ==
  ASSUME scenario \in Scenarios
  PROVE  /\ scenario.write \in Nat /\ scenario.recv \in Nat /\ scenario.threads \subseteq Iocp
         /\ scenario.ends \subseteq {"fin", "reset"}
BY DEF ProactorAssumption

(* Least is a lower bound. *)
LEMMA LeastOf ==
  ASSUME NEW m \in Nat, NEW n \in Nat
  PROVE  /\ Least(m, n) \in Nat /\ Least(m, n) <= m /\ Least(m, n) <= n
         /\ m > 0 /\ n > 0 => Least(m, n) > 0
BY DEF Least

(* What the types say of the numbers. *)
LEMMA Sizes ==
  ASSUME TypeSets, TypeCounts
  PROVE  /\ scenario.write \in Nat /\ stored \in Nat /\ dropped \in Nat /\ stored <= scenario.write
         /\ Size \in Nat /\ dropped + Size = stored
         /\ Chunk \in Nat \ {0} /\ len \in Nat /\ len <= Chunk /\ skip \in Nat
         /\ Least(Chunk, Size) \in Nat /\ Least(Chunk, Size) <= Chunk
         /\ Least(Chunk, Size) <= Size
         /\ Size > 0 => Least(Chunk, Size) > 0
<1>1. scenario.write \in Nat /\ Chunk \in Nat \ {0}
  BY ScenarioType DEF TypeSets, ProactorAssumption
<1>2. /\ stored \in Nat /\ dropped \in Nat /\ stored <= scenario.write
      /\ Size \in Nat /\ dropped + Size = stored /\ len \in Nat /\ len <= Chunk /\ skip \in Nat
  BY <1>1 DEF TypeCounts, Size
<1>3. Chunk \in Nat /\ Chunk > 0
  BY <1>1
<1>4. /\ Least(Chunk, Size) \in Nat /\ Least(Chunk, Size) <= Chunk /\ Least(Chunk, Size) <= Size
      /\ Size > 0 => Least(Chunk, Size) > 0
  BY <1>2, <1>3, LeastOf
<1>. QED
  BY <1>1, <1>2, <1>4

(* The next event of a batch. *)
LEMMA NextOf ==
  ASSUME TypeLists, batch # << >>, NextEvent
  PROVE  /\ batch' \in Seq(Kind) /\ Len(batch) \in Nat /\ Len(batch') = Len(batch) - 1
         /\ batch' = << >> <=> Len(batch) = 1
         /\ biz' = IF batch' = << >> THEN "idle" ELSE "next"
<1>1. batch \in Seq(Kind)
  BY DEF TypeLists
<1>2. Tail(batch) \in Seq(Kind) /\ Len(Tail(batch)) = Len(batch) - 1 /\ Len(batch) \in Nat
  BY <1>1, HeadTailProperties
<1>3. Tail(batch) = << >> <=> Len(Tail(batch)) = 0
  BY <1>2, EmptySeq
<1>. QED
  BY <1>2, <1>3 DEF NextEvent

(* What it is to go to a point of control. *)
LEMMA GoTo ==
  ASSUME NEW t \in Thread, NEW a \in Ats, TypeControl, Go(t, a)
  PROVE  /\ TypeControl' /\ pc'[t].at = a /\ pc'[t].n = pc[t].n
         /\ \A u \in Thread \ {t} : pc'[u] = pc[u]
BY DEF TypeControl, Control, Go

(* The same, wherever it is. *)
LEMMA WentTo ==
  ASSUME NEW t \in Thread, NEW a, TypeControl, Go(t, a)
  PROVE  /\ pc'[t].at = a /\ pc'[t].n = pc[t].n
         /\ \A u \in Thread \ {t} : pc'[u] = pc[u]
BY DEF TypeControl, Control, Go

(* The same, with a new length. *)
LEMMA GoToWith ==
  ASSUME NEW t \in Thread, NEW a \in Ats, NEW n \in Nat, TypeControl,
         pc' = [pc EXCEPT ![t] = [at |-> a, n |-> n]]
  PROVE  /\ TypeControl' /\ pc'[t].at = a /\ pc'[t].n = n
         /\ \A u \in Thread \ {t} : pc'[u] = pc[u]
<1>1. [at |-> a, n |-> n] \in Control
  BY DEF Control
<1>. QED
  BY <1>1 DEF TypeControl

(* The threads. *)
LEMMA Threads ==
  /\ \A t \in Thread : t \in Iocp \/ t \in Caller \/ t = Maker
  /\ Iocp \subseteq Thread /\ Caller \subseteq Thread /\ Maker \in Thread
  /\ Biz \in Caller /\ App \subseteq Caller /\ \A t \in Caller : t = Biz \/ t \in App
  /\ Maker \notin Iocp /\ Maker \notin Caller /\ \A i \in Iocp : i \notin Caller
  /\ Biz \notin App
BY DEF Thread, Caller

(* The inductive invariant holds initially. *)
LEMMA InitPro == Init => ProInv
<1>. SUFFICES ASSUME Init PROVE ProInv
  OBVIOUS
<1>1. TypeOK
  <2>1. scenario.write \in Nat /\ scenario.recv \in Nat
    BY ScenarioType DEF Init
  <2>2. TypeControl /\ refs \in Nat
    BY DEF Init, TypeControl, Control, Ats
  <2>3. TypeCounts
    BY <2>1 DEF Init, TypeCounts, ProactorAssumption, Bytes
  <2>4. TypeSets
    BY DEF Init, TypeSets
  <2>5. TypeLists
    BY DEF Init, TypeLists
  <2>. QED
    BY <2>2, <2>3, <2>4, <2>5, TypeParts
<1>2. ControlOK /\ EarlyOK
  BY Threads DEF Init, ControlOK, EarlyOK, Unknown, Unannounced, AtIocp, AtCaller, AtMaker
<1>3. CountOK
  <2>1. Holders = {}
    BY Threads DEF Init, Holders
  <2>. QED
    BY <2>1, FS_EmptySet DEF Init, CountOK, One
<1>4. RemovedOK
  BY Threads DEF Init, RemovedOK, WhoCloses, Closing, Unannounced
<1>5. OrderOK
  BY DEF Init, OrderOK, InTurn, OneUse, UseOK, PortOK, Uses, Completion, Free
<1>. QED
  BY <1>1, <1>2, <1>3, <1>4, <1>5 DEF ProInv

-----------------------------------------------------------------------------
(* What every step keeps of the types, part by part. *)
LEMMA TailType ==
  ASSUME NEW S, NEW s \in Seq(S), s # << >>
  PROVE  Tail(s) \in Seq(S) /\ Head(s) \in S
BY HeadTailProperties

LEMMA AppendedKind ==
  ASSUME NEW k \in Kind, TypeLists, AppendEvent(k)
  PROVE  events' \in Seq(Kind)
<1>1. events \in Seq(Kind)
  BY DEF TypeLists
<1>2. Append(events, k) \in Seq(Kind)
  BY <1>1, AppendProperties
<1>. QED
  BY <1>1, <1>2 DEF AppendEvent

(* The sets and flags. *)
LEMMA SetsStep ==
  ASSUME TypeSets, Next
  PROVE  TypeSets'
<1>. USE ScenarioType DEF TypeSets
<1>1. CASE Insert
  BY <1>1 DEF Insert
<1>2. CASE Bind
  BY <1>2 DEF Bind
<1>3. CASE BindFails
  BY <1>3 DEF BindFails
<1>4. CASE Announce
  BY <1>4 DEF Announce, AppendEvent
<1>5. ASSUME NEW t \in Caller, Close(t)
      PROVE  TypeSets'
  BY <1>5 DEF Close
<1>6. ASSUME NEW t \in Caller, NEW k \in 1 .. scenario.write, Fill(t, k)
      PROVE  TypeSets'
  BY <1>6 DEF Fill
<1>7. ASSUME NEW t \in Thread, PostRecv(t)
      PROVE  TypeSets'
  BY <1>7 DEF PostRecv
<1>8. ASSUME NEW t \in Thread, PostRecvFails(t)
      PROVE  TypeSets'
  BY <1>8 DEF PostRecvFails
<1>9. ASSUME NEW t \in Thread, SendCheck(t)
      PROVE  TypeSets'
  BY <1>9 DEF SendCheck
<1>10. ASSUME NEW t \in Thread, Wait(t)
      PROVE  TypeSets'
  BY <1>10 DEF Wait
<1>11. ASSUME NEW t \in Thread, SendLook(t)
      PROVE  TypeSets'
  BY <1>11 DEF SendLook
<1>12. ASSUME NEW t \in Thread, SendSize(t)
      PROVE  TypeSets'
  BY <1>12 DEF SendSize
<1>13. ASSUME NEW t \in Thread, Copy(t)
      PROVE  TypeSets'
  BY <1>13 DEF Copy
<1>14. ASSUME NEW t \in Thread, PostSend(t)
      PROVE  TypeSets'
  BY <1>14 DEF PostSend
<1>15. ASSUME NEW t \in Thread, CloseUnbind(t)
      PROVE  TypeSets'
  <2>1. bare' \in BOOLEAN
    BY <1>15 DEF CloseUnbind
  <2>2. binded' \in BOOLEAN /\ place' = place
    BY <1>15 DEF CloseUnbind
  <2>. QED
    BY <1>15, <2>1, <2>2 DEF CloseUnbind
<1>16. ASSUME NEW t \in Thread, CloseError(t)
      PROVE  TypeSets'
  BY <1>16 DEF CloseError, SetError
<1>17. ASSUME NEW t \in Thread, ClosePost(t)
      PROVE  TypeSets'
  BY <1>17 DEF ClosePost, AppendEvent
<1>18. ASSUME NEW i \in Iocp, Dequeue(i)
      PROVE  TypeSets'
  BY <1>18 DEF Dequeue
<1>19. ASSUME NEW i \in Iocp, RecvFill(i)
      PROVE  TypeSets'
  BY <1>19 DEF RecvFill
<1>20. ASSUME NEW i \in Iocp, RecvMark(i)
      PROVE  TypeSets'
  BY <1>20 DEF RecvMark, AppendEvent
<1>21. ASSUME NEW i \in Iocp, SendDrop(i)
      PROVE  TypeSets'
  BY <1>21 DEF SendDrop
<1>22. ASSUME NEW i \in Iocp, SendNext(i)
      PROVE  TypeSets'
  BY <1>22 DEF SendNext, Rest
<1>23. ASSUME NEW i \in Iocp, SendEmpty(i)
      PROVE  TypeSets'
  BY <1>23 DEF SendEmpty, AppendEvent
<1>24. ASSUME NEW i \in Iocp, SendEof(i)
      PROVE  TypeSets'
  BY <1>24 DEF SendEof
<1>25. ASSUME NEW i \in Iocp, Deref(i)
      PROVE  TypeSets'
  BY <1>25 DEF Deref
<1>26. CASE Take
  BY <1>26 DEF Take
<1>27. CASE CallbackBegin
  BY <1>27 DEF CallbackBegin
<1>28. CASE CallbackEnd
  BY <1>28 DEF CallbackEnd
<1>29. CASE EventDone
  BY <1>29 DEF EventDone
<1>30. CASE Check
  BY <1>30 DEF Check, NextEvent
<1>31. CASE RemoveConnection
  BY <1>31 DEF RemoveConnection, NextEvent, RemovedTo
<1>32. CASE Sweep
  BY <1>32 DEF Sweep
<1>33. ASSUME NEW k \in 0 .. Chunk, Sent(k)
      PROVE  TypeSets'
  BY <1>33 DEF Sent
<1>34. CASE SendFails
  BY <1>34 DEF SendFails
<1>35. CASE RecvFails
  <2>1. recving' \in BOOLEAN /\ peer' = peer
    BY <1>35 DEF RecvFails
  <2>2. UNCHANGED <<scenario, place, binded, eof, error, biz, session, crowded, bare, stranded>>
    BY <1>35 DEF RecvFails
  <2>. QED
    BY <2>1, <2>2
<1>36. CASE Received
  <2>1. recving' \in BOOLEAN /\ peer' = peer
    BY <1>36 DEF Received
  <2>2. UNCHANGED <<scenario, place, binded, eof, error, biz, session, crowded, bare, stranded>>
    BY <1>36 DEF Received
  <2>. QED
    BY <2>1, <2>2
<1>37. ASSUME NEW end \in scenario.ends, PeerLeaves(end)
      PROVE  TypeSets'
  BY <1>37 DEF PeerLeaves
<1>. QED
  BY <1>1, <1>2, <1>3, <1>4, <1>5, <1>6, <1>7, <1>8, <1>9, <1>10, <1>11, <1>12,
     <1>13, <1>14, <1>15, <1>16, <1>17, <1>18, <1>19, <1>20, <1>21, <1>22, <1>23,
     <1>24, <1>25, <1>26, <1>27, <1>28, <1>29, <1>30, <1>31, <1>32, <1>33, <1>34,
     <1>35, <1>36, <1>37 DEF Next, Making, Going, Handling, Business, Kernel

(* The counts of bytes and m_async_send. *)
LEMMA CountsStep ==
  ASSUME TypeSets, TypeCounts, TypeControl, Next
  PROVE  TypeCounts'
<1>0. /\ len \in Nat /\ len <= Chunk /\ skip \in Nat /\ Chunk \in Nat
      /\ Least(Chunk, Size) \in Nat /\ Least(Chunk, Size) <= Chunk
  BY Sizes
<1>. USE ScenarioType DEF TypeSets, TypeCounts, Bytes
<1>1. CASE Insert
  BY <1>1 DEF Insert
<1>2. CASE Bind
  BY <1>2 DEF Bind
<1>3. CASE BindFails
  BY <1>3 DEF BindFails
<1>4. CASE Announce
  BY <1>4 DEF Announce, AppendEvent
<1>5. ASSUME NEW t \in Caller, Close(t)
      PROVE  TypeCounts'
  BY <1>5 DEF Close
<1>6. ASSUME NEW t \in Caller, NEW k \in 1 .. scenario.write, Fill(t, k)
      PROVE  TypeCounts'
  BY <1>6 DEF Fill
<1>7. ASSUME NEW t \in Thread, PostRecv(t)
      PROVE  TypeCounts'
  BY <1>7 DEF PostRecv
<1>8. ASSUME NEW t \in Thread, PostRecvFails(t)
      PROVE  TypeCounts'
  BY <1>8 DEF PostRecvFails
<1>9. ASSUME NEW t \in Thread, SendCheck(t)
      PROVE  TypeCounts'
  BY <1>9 DEF SendCheck
<1>10. ASSUME NEW t \in Thread, Wait(t)
      PROVE  TypeCounts'
  BY <1>10 DEF Wait
<1>11. ASSUME NEW t \in Thread, SendLook(t)
      PROVE  TypeCounts'
  BY <1>11 DEF SendLook
<1>12. ASSUME NEW t \in Thread, SendSize(t)
      PROVE  TypeCounts'
  <2>1. len' \in 0 .. Chunk /\ skip' \in Nat
    BY <1>12, Sizes DEF SendSize
  <2>. QED
    BY <1>12, <2>1 DEF SendSize
<1>13. ASSUME NEW t \in Thread, Copy(t)
      PROVE  TypeCounts'
  <2>1. CASE held' = held
    BY <1>13, <2>1 DEF Copy
  <2>2. CASE /\ held' = [j \in 1 .. Chunk |-> IF j <= pc[t].n THEN dropped + j ELSE held[j]]
             /\ pc[t].n <= Size
    <3>1. pc[t].n \in Nat
      BY DEF TypeControl, Control
    <3>2. ASSUME NEW j \in 1 .. Chunk, j <= pc[t].n
          PROVE  dropped + j \in Bytes
      <4>1. /\ dropped \in Nat /\ Size \in Nat /\ dropped + Size = stored
            /\ stored \in Nat /\ stored <= scenario.write /\ scenario.write \in Nat
        BY Sizes
      <4>2. j \in Nat /\ j <= Size
        BY <2>2, <3>1, <3>2, <4>1
      <4>. HIDE DEF TypeSets, TypeCounts
      <4>. QED
        BY <4>1, <4>2
    <3>3. held' \in [1 .. Chunk -> Bytes]
      BY <2>2, <3>2
    <3>. QED
      BY <1>13, <3>3 DEF Copy
  <2>3. pc[t].n \in Nat /\ Size \in Nat
    BY Sizes DEF TypeControl, Control
  <2>. QED
    BY <1>13, <2>1, <2>2, <2>3 DEF Copy
<1>14. ASSUME NEW t \in Thread, PostSend(t)
      PROVE  TypeCounts'
  BY <1>14 DEF PostSend
<1>15. ASSUME NEW t \in Thread, CloseUnbind(t)
      PROVE  TypeCounts'
  BY <1>15 DEF CloseUnbind
<1>16. ASSUME NEW t \in Thread, CloseError(t)
      PROVE  TypeCounts'
  BY <1>16 DEF CloseError, SetError
<1>17. ASSUME NEW t \in Thread, ClosePost(t)
      PROVE  TypeCounts'
  BY <1>17 DEF ClosePost, AppendEvent
<1>18. ASSUME NEW i \in Iocp, Dequeue(i)
      PROVE  TypeCounts'
  BY <1>18 DEF Dequeue
<1>19. ASSUME NEW i \in Iocp, RecvFill(i)
      PROVE  TypeCounts'
  BY <1>19 DEF RecvFill
<1>20. ASSUME NEW i \in Iocp, RecvMark(i)
      PROVE  TypeCounts'
  BY <1>20 DEF RecvMark, AppendEvent
<1>21. ASSUME NEW i \in Iocp, SendDrop(i)
      PROVE  TypeCounts'
  <2>1. pc[i].n \in Nat
    BY Threads DEF TypeControl, Control
  <2>2. /\ dropped \in Nat /\ stored \in Nat /\ Size \in Nat /\ dropped + Size = stored
    BY Sizes
  <2>3. /\ dropped' = dropped \/ (pc[i].n <= Size /\ dropped' = dropped + pc[i].n)
        /\ stored' = stored
    <3>1. error \/ pc[i].n > Size \/ pc[i].n <= Size
      BY <2>1, <2>2
    <3>. QED
      BY <1>21, <3>1 DEF SendDrop
  <2>4. dropped' \in 0 .. stored'
    <3>. HIDE DEF TypeSets, TypeCounts
    <3>. QED
      BY <2>1, <2>2, <2>3
  <2>. QED
    BY <1>21, <2>4 DEF SendDrop
<1>22. ASSUME NEW i \in Iocp, SendNext(i)
      PROVE  TypeCounts'
  <2>1. pc[i].n \in Nat
    BY Threads DEF TypeControl, Control
  <2>2. \/ skip' = 0 /\ len' = Least(Chunk, Size) /\ held' = held
        \/ /\ pc[i].n < len /\ skip' = skip + pc[i].n /\ len' = len - pc[i].n /\ held' = held
        \/ skip' = skip /\ len' = len /\ held' = held
    BY <1>22 DEF SendNext, Rest
  <2>3. len' \in 0 .. Chunk /\ skip' \in Nat /\ held' = held
    <3>. HIDE DEF TypeSets, TypeCounts
    <3>. QED
      BY <2>1, <2>2, <1>0
  <2>. QED
    BY <1>22, <2>3 DEF SendNext
<1>23. ASSUME NEW i \in Iocp, SendEmpty(i)
      PROVE  TypeCounts'
  BY <1>23 DEF SendEmpty, AppendEvent
<1>24. ASSUME NEW i \in Iocp, SendEof(i)
      PROVE  TypeCounts'
  BY <1>24 DEF SendEof
<1>25. ASSUME NEW i \in Iocp, Deref(i)
      PROVE  TypeCounts'
  BY <1>25 DEF Deref
<1>26. CASE Take
  BY <1>26 DEF Take
<1>27. CASE CallbackBegin
  BY <1>27 DEF CallbackBegin
<1>28. CASE CallbackEnd
  BY <1>28 DEF CallbackEnd
<1>29. CASE EventDone
  BY <1>29 DEF EventDone
<1>30. CASE Check
  BY <1>30 DEF Check, NextEvent
<1>31. CASE RemoveConnection
  BY <1>31 DEF RemoveConnection, NextEvent, RemovedTo
<1>32. CASE Sweep
  BY <1>32 DEF Sweep
<1>33. ASSUME NEW k \in 0 .. Chunk, Sent(k)
      PROVE  TypeCounts'
  BY <1>33 DEF Sent
<1>34. CASE SendFails
  BY <1>34 DEF SendFails
<1>35. CASE RecvFails
  BY <1>35 DEF RecvFails
<1>36. CASE Received
  BY <1>36 DEF Received
<1>37. ASSUME NEW end \in scenario.ends, PeerLeaves(end)
      PROVE  TypeCounts'
  BY <1>37 DEF PeerLeaves
<1>. QED
  BY <1>1, <1>2, <1>3, <1>4, <1>5, <1>6, <1>7, <1>8, <1>9, <1>10, <1>11, <1>12,
     <1>13, <1>14, <1>15, <1>16, <1>17, <1>18, <1>19, <1>20, <1>21, <1>22, <1>23,
     <1>24, <1>25, <1>26, <1>27, <1>28, <1>29, <1>30, <1>31, <1>32, <1>33, <1>34,
     <1>35, <1>36, <1>37 DEF Next, Making, Going, Handling, Business, Kernel

(* The lists of events, of sends and completions, and the bytes on the wire. *)
LEMMA ListsStep ==
  ASSUME TypeSets, TypeCounts, TypeLists, (biz # "idle" => batch # << >>), Next
  PROVE  TypeLists'
<1>. USE DEF TypeLists, Kind, Bytes
<1>1. CASE Insert
  BY <1>1 DEF Insert
<1>2. CASE Bind
  BY <1>2 DEF Bind
<1>3. CASE BindFails
  BY <1>3 DEF BindFails
<1>4. CASE Announce
  <2>1. events' \in Seq(Kind)
    BY <1>4, AppendedKind DEF Announce, AppendEvent
  <2>. QED
    BY <1>4, <2>1 DEF Announce
<1>5. ASSUME NEW t \in Caller, Close(t)
      PROVE  TypeLists'
  BY <1>5 DEF Close
<1>6. ASSUME NEW t \in Caller, NEW k \in 1 .. scenario.write, Fill(t, k)
      PROVE  TypeLists'
  BY <1>6 DEF Fill
<1>7. ASSUME NEW t \in Thread, PostRecv(t)
      PROVE  TypeLists'
  BY <1>7 DEF PostRecv
<1>8. ASSUME NEW t \in Thread, PostRecvFails(t)
      PROVE  TypeLists'
  BY <1>8 DEF PostRecvFails
<1>9. ASSUME NEW t \in Thread, SendCheck(t)
      PROVE  TypeLists'
  BY <1>9 DEF SendCheck
<1>10. ASSUME NEW t \in Thread, Wait(t)
      PROVE  TypeLists'
  BY <1>10 DEF Wait
<1>11. ASSUME NEW t \in Thread, SendLook(t)
      PROVE  TypeLists'
  BY <1>11 DEF SendLook
<1>12. ASSUME NEW t \in Thread, SendSize(t)
      PROVE  TypeLists'
  BY <1>12 DEF SendSize
<1>13. ASSUME NEW t \in Thread, Copy(t)
      PROVE  TypeLists'
  BY <1>13 DEF Copy
<1>14. ASSUME NEW t \in Thread, PostSend(t)
      PROVE  TypeLists'
  <2>1. [skip |-> skip, len |-> len] \in Parcel
    BY DEF TypeCounts, Parcel
  <2>2. Append(sends, [skip |-> skip, len |-> len]) \in Seq(Parcel)
    BY <2>1, AppendProperties
  <2>. QED
    BY <1>14, <2>2 DEF PostSend
<1>15. ASSUME NEW t \in Thread, CloseUnbind(t)
      PROVE  TypeLists'
  BY <1>15 DEF CloseUnbind
<1>16. ASSUME NEW t \in Thread, CloseError(t)
      PROVE  TypeLists'
  BY <1>16 DEF CloseError, SetError
<1>17. ASSUME NEW t \in Thread, ClosePost(t)
      PROVE  TypeLists'
  <2>1. events' \in Seq(Kind)
    BY <1>17, AppendedKind DEF ClosePost, AppendEvent
  <2>. QED
    BY <1>17, <2>1 DEF ClosePost
<1>18. ASSUME NEW i \in Iocp, Dequeue(i)
      PROVE  TypeLists'
  BY <1>18 DEF Dequeue
<1>19. ASSUME NEW i \in Iocp, RecvFill(i)
      PROVE  TypeLists'
  BY <1>19 DEF RecvFill
<1>20. ASSUME NEW i \in Iocp, RecvMark(i)
      PROVE  TypeLists'
  <2>1. events' \in Seq(Kind)
    BY <1>20, AppendedKind DEF RecvMark, AppendEvent
  <2>. QED
    BY <1>20, <2>1 DEF RecvMark
<1>21. ASSUME NEW i \in Iocp, SendDrop(i)
      PROVE  TypeLists'
  BY <1>21 DEF SendDrop
<1>22. ASSUME NEW i \in Iocp, SendNext(i)
      PROVE  TypeLists'
  BY <1>22 DEF SendNext, Rest
<1>23. ASSUME NEW i \in Iocp, SendEmpty(i)
      PROVE  TypeLists'
  <2>1. events' \in Seq(Kind)
    BY <1>23, AppendedKind DEF SendEmpty, AppendEvent
  <2>. QED
    BY <1>23, <2>1 DEF SendEmpty
<1>24. ASSUME NEW i \in Iocp, SendEof(i)
      PROVE  TypeLists'
  BY <1>24 DEF SendEof
<1>25. ASSUME NEW i \in Iocp, Deref(i)
      PROVE  TypeLists'
  BY <1>25 DEF Deref
<1>26. CASE Take
  BY <1>26 DEF Take
<1>27. CASE CallbackBegin
  BY <1>27 DEF CallbackBegin
<1>28. CASE CallbackEnd
  BY <1>28 DEF CallbackEnd
<1>29. CASE EventDone
  BY <1>29 DEF EventDone
<1>30. CASE Check
  <2>1. batch # << >> /\ Tail(batch) \in Seq(Kind)
    BY <1>30, TailType DEF Check
  <2>2. batch' \in Seq(Kind)
    BY <1>30, <2>1 DEF Check, NextEvent
  <2>. QED
    BY <1>30, <2>2 DEF Check, NextEvent
<1>31. CASE RemoveConnection
  <2>1. batch # << >> /\ Tail(batch) \in Seq(Kind)
    BY <1>31, TailType DEF RemoveConnection
  <2>2. batch' \in Seq(Kind)
    BY <1>31, <2>1 DEF RemoveConnection, NextEvent
  <2>. QED
    BY <1>31, <2>2 DEF RemoveConnection, NextEvent
<1>32. CASE Sweep
  BY <1>32 DEF Sweep
<1>33. ASSUME NEW k \in 0 .. Chunk, Sent(k)
      PROVE  TypeLists'
  <2>1. k \in Nat /\ scenario.write \in Nat
    BY ScenarioType, ProactorAssumption DEF TypeSets
  <2>2. \E c \in Ended : done' = Append(done, c)
    BY <1>33, <2>1 DEF Sent, Ended
  <2>3. done' \in Seq(Ended)
    BY <2>2, AppendProperties
  <2>4. sends' \in Seq(Parcel)
    BY <1>33, TailType DEF Sent
  <2>5. \A j : Byte(j) \in Bytes
    BY <2>1 DEF Byte, TypeCounts, Bytes
  <2>6. [j \in 1 .. k |-> Byte(Head(sends).skip + j)] \in Seq(Bytes)
    BY <2>1, <2>5
  <2>7. wire' \in Seq(Bytes)
    BY <1>33, <2>6, ConcatProperties DEF Sent
  <2>. QED
    BY <1>33, <2>3, <2>4, <2>7 DEF Sent
<1>34. CASE SendFails
  <2>1. \E c \in Ended : done' = Append(done, c)
    BY <1>34 DEF SendFails, Ended
  <2>2. done' \in Seq(Ended)
    BY <2>1, AppendProperties
  <2>3. sends' \in Seq(Parcel)
    BY <1>34, TailType DEF SendFails
  <2>. QED
    BY <1>34, <2>2, <2>3 DEF SendFails
<1>35. CASE RecvFails
  <2>1. \E c \in Ended : done' = Append(done, c)
    BY <1>35 DEF RecvFails, Ended
  <2>2. done' \in Seq(Ended)
    BY <2>1, AppendProperties
  <2>3. sends' \in Seq(Parcel)
    BY <1>35, TailType DEF RecvFails
  <2>. QED
    BY <1>35, <2>2, <2>3 DEF RecvFails
<1>36. CASE Received
  <2>1. \E c \in Ended : done' = Append(done, c)
    BY <1>36 DEF Received, Ended
  <2>2. done' \in Seq(Ended)
    BY <2>1, AppendProperties
  <2>3. sends' \in Seq(Parcel)
    BY <1>36, TailType DEF Received
  <2>. QED
    BY <1>36, <2>2, <2>3 DEF Received
<1>37. ASSUME NEW end \in scenario.ends, PeerLeaves(end)
      PROVE  TypeLists'
  BY <1>37 DEF PeerLeaves
<1>. QED
  BY <1>1, <1>2, <1>3, <1>4, <1>5, <1>6, <1>7, <1>8, <1>9, <1>10, <1>11, <1>12,
     <1>13, <1>14, <1>15, <1>16, <1>17, <1>18, <1>19, <1>20, <1>21, <1>22, <1>23,
     <1>24, <1>25, <1>26, <1>27, <1>28, <1>29, <1>30, <1>31, <1>32, <1>33, <1>34,
     <1>35, <1>36, <1>37 DEF Next, Making, Going, Handling, Business, Kernel

(* The control of the threads. *)
LEMMA ControlStep ==
  ASSUME TypeSets, TypeCounts, TypeLists, TypeControl, Next
  PROVE  TypeControl'
<1>. USE Threads DEF Ats, InCall, InIocp
<1>1. CASE Insert
  BY <1>1, GoTo, GoToWith DEF Insert, After, Handled, Least
<1>2. CASE Bind
  BY <1>2, GoTo, GoToWith DEF Bind, After, Handled, Least
<1>3. CASE BindFails
  BY <1>3, GoTo, GoToWith DEF BindFails, After, Handled, Least
<1>4. CASE Announce
  BY <1>4, GoTo, GoToWith DEF Announce, After, Handled, Least
<1>5. ASSUME NEW t \in Caller, Close(t)
      PROVE  TypeControl'
  BY <1>5, GoTo, GoToWith DEF Close, After, Handled, Least
<1>6. ASSUME NEW t \in Caller, NEW k \in 1 .. scenario.write, Fill(t, k)
      PROVE  TypeControl'
  BY <1>6, GoTo, GoToWith DEF Fill, After, Handled, Least
<1>7. ASSUME NEW t \in Thread, PostRecv(t)
      PROVE  TypeControl'
  BY <1>7, GoTo, GoToWith DEF PostRecv, After, Handled, Least
<1>8. ASSUME NEW t \in Thread, PostRecvFails(t)
      PROVE  TypeControl'
  BY <1>8, GoTo, GoToWith DEF PostRecvFails, After, Handled, Least
<1>9. ASSUME NEW t \in Thread, SendCheck(t)
      PROVE  TypeControl'
  BY <1>9, GoTo, GoToWith DEF SendCheck, After, Handled, Least
<1>10. ASSUME NEW t \in Thread, Wait(t)
      PROVE  TypeControl'
  BY <1>10, GoTo, GoToWith DEF Wait, After, Handled, Least
<1>11. ASSUME NEW t \in Thread, SendLook(t)
      PROVE  TypeControl'
  BY <1>11, GoTo, GoToWith DEF SendLook, After, Handled, Least
<1>12. ASSUME NEW t \in Thread, SendSize(t)
      PROVE  TypeControl'
  BY <1>12, GoToWith, Sizes DEF SendSize
<1>13. ASSUME NEW t \in Thread, Copy(t)
      PROVE  TypeControl'
  BY <1>13, GoTo, GoToWith DEF Copy, After, Handled, Least
<1>14. ASSUME NEW t \in Thread, PostSend(t)
      PROVE  TypeControl'
  BY <1>14, GoTo, GoToWith DEF PostSend, After, Handled, Least
<1>15. ASSUME NEW t \in Thread, CloseUnbind(t)
      PROVE  TypeControl'
  BY <1>15, GoTo, GoToWith DEF CloseUnbind, After, Handled, Least
<1>16. ASSUME NEW t \in Thread, CloseError(t)
      PROVE  TypeControl'
  BY <1>16, GoTo, GoToWith DEF CloseError, After, Handled, Least
<1>17. ASSUME NEW t \in Thread, ClosePost(t)
      PROVE  TypeControl'
  BY <1>17, GoTo, GoToWith DEF ClosePost, After, Handled, Least
<1>18. ASSUME NEW i \in Iocp, Dequeue(i)
      PROVE  TypeControl'
  <2>1. done # << >> /\ Head(done) \in Ended
    BY <1>18, HeadTailProperties DEF Dequeue, TypeLists
  <2>2. Head(done).n \in Nat /\ Handled(Head(done)) \in Ats
    BY <2>1 DEF Ended, Handled
  <2>. QED
    BY <1>18, <2>2, GoToWith DEF Dequeue, TypeControl
<1>19. ASSUME NEW i \in Iocp, RecvFill(i)
      PROVE  TypeControl'
  BY <1>19, GoTo, GoToWith DEF RecvFill, After, Handled, Least
<1>20. ASSUME NEW i \in Iocp, RecvMark(i)
      PROVE  TypeControl'
  BY <1>20, GoTo, GoToWith DEF RecvMark, After, Handled, Least
<1>21. ASSUME NEW i \in Iocp, SendDrop(i)
      PROVE  TypeControl'
  BY <1>21, GoTo, GoToWith DEF SendDrop, After, Handled, Least
<1>22. ASSUME NEW i \in Iocp, SendNext(i)
      PROVE  TypeControl'
  <2>1. CASE pc' = [pc EXCEPT ![i] = [at |-> "empty", n |-> Least(Chunk, Size)]]
    BY <2>1, GoToWith, Sizes
  <2>2. CASE pc' = [pc EXCEPT ![i] = [at |-> "copy", n |-> Least(Chunk, Size)]]
    BY <2>2, GoToWith, Sizes
  <2>3. CASE Go(i, "post") \/ Go(i, "close")
    BY <2>3, GoTo
  <2>. QED
    BY <1>22, <2>1, <2>2, <2>3 DEF SendNext
<1>23. ASSUME NEW i \in Iocp, SendEmpty(i)
      PROVE  TypeControl'
  BY <1>23, GoTo, GoToWith DEF SendEmpty, After, Handled, Least
<1>24. ASSUME NEW i \in Iocp, SendEof(i)
      PROVE  TypeControl'
  BY <1>24, GoTo, GoToWith DEF SendEof, After, Handled, Least
<1>25. ASSUME NEW i \in Iocp, Deref(i)
      PROVE  TypeControl'
  BY <1>25, GoTo, GoToWith DEF Deref, After, Handled, Least
<1>26. CASE Take
  BY <1>26 DEF Take, TypeControl
<1>27. CASE CallbackBegin
  BY <1>27 DEF CallbackBegin, TypeControl
<1>28. CASE CallbackEnd
  BY <1>28, GoTo DEF CallbackEnd, TypeControl
<1>29. CASE EventDone
  BY <1>29 DEF EventDone, TypeControl
<1>30. CASE Check
  BY <1>30 DEF Check, TypeControl
<1>31. CASE RemoveConnection
  BY <1>31 DEF RemoveConnection, TypeControl
<1>32. CASE Sweep
  BY <1>32 DEF Sweep, TypeControl
<1>33. ASSUME NEW k \in 0 .. Chunk, Sent(k)
      PROVE  TypeControl'
  BY <1>33 DEF Sent, TypeControl
<1>34. CASE SendFails
  BY <1>34 DEF SendFails, TypeControl
<1>35. CASE RecvFails
  BY <1>35 DEF RecvFails, TypeControl
<1>36. CASE Received
  BY <1>36 DEF Received, TypeControl
<1>37. ASSUME NEW end \in scenario.ends, PeerLeaves(end)
      PROVE  TypeControl'
  BY <1>37 DEF PeerLeaves, TypeControl
<1>. QED
  BY <1>1, <1>2, <1>3, <1>4, <1>5, <1>6, <1>7, <1>8, <1>9, <1>10, <1>11, <1>12,
     <1>13, <1>14, <1>15, <1>16, <1>17, <1>18, <1>19, <1>20, <1>21, <1>22, <1>23,
     <1>24, <1>25, <1>26, <1>27, <1>28, <1>29, <1>30, <1>31, <1>32, <1>33, <1>34,
     <1>35, <1>36, <1>37 DEF Next, Making, Going, Handling, Business, Kernel

(* Every thread stays in its part of the code. *)
LEMMA PlacesStep ==
  ASSUME TypeSets, TypeControl, TypeLists, ControlOK, Next
  PROVE  ControlOK'
<1>. USE Threads DEF ControlOK, AtIocp, AtCaller, AtMaker, InIocp
<1>1. CASE Insert
  <2>1. Go(Maker, "bind")
    BY <1>1 DEF Insert, After
  <2>. QED
    BY <1>1, <2>1, WentTo DEF Insert
<1>2. CASE Bind
  <2>1. Go(Maker, "notify")
    BY <1>2 DEF Bind, After
  <2>. QED
    BY <1>2, <2>1, WentTo DEF Bind
<1>3. CASE BindFails
  <2>1. Go(Maker, "idle")
    BY <1>3 DEF BindFails, After
  <2>. QED
    BY <1>3, <2>1, WentTo DEF BindFails
<1>4. CASE Announce
  <2>1. Go(Maker, "again")
    BY <1>4 DEF Announce, After
  <2>. QED
    BY <1>4, <2>1, WentTo DEF Announce
<1>5. ASSUME NEW t \in Caller, Close(t)
      PROVE  ControlOK'
  <2>1. \/ Go(t, "idle")
        \/ Go(t, "close")
    BY <1>5 DEF Close, After
  <2>. QED
    BY <1>5, <2>1, WentTo DEF Close, Calls
<1>6. ASSUME NEW t \in Caller, NEW k \in 1 .. scenario.write, Fill(t, k)
      PROVE  ControlOK'
  <2>1. \/ Go(t, "send")
        \/ Go(t, "idle")
    BY <1>6 DEF Fill, After
  <2>. QED
    BY <1>6, <2>1, WentTo DEF Fill, Calls
<1>7. ASSUME NEW t \in Thread, PostRecv(t)
      PROVE  ControlOK'
  <2>1. \/ t \in Iocp /\ Go(t, "deref")
        \/ t \notin Iocp /\ Go(t, "idle")
    BY <1>7 DEF PostRecv, After
  <2>. QED
    BY <1>7, <2>1, WentTo DEF PostRecv
<1>8. ASSUME NEW t \in Thread, PostRecvFails(t)
      PROVE  ControlOK'
  <2>1. \/ Go(t, "close")
        \/ t = Maker /\ Go(t, "idle")
    BY <1>8 DEF PostRecvFails, After
  <2>. QED
    BY <1>8, <2>1, WentTo DEF PostRecvFails
<1>9. ASSUME NEW t \in Thread, SendCheck(t)
      PROVE  ControlOK'
  <2>1. \/ Go(t, "idle")
        \/ Go(t, "wait")
    BY <1>9 DEF SendCheck, After
  <2>. QED
    BY <1>9, <2>1, WentTo DEF SendCheck
<1>10. ASSUME NEW t \in Thread, Wait(t)
      PROVE  ControlOK'
  <2>1. Go(t, "look")
    BY <1>10 DEF Wait, After
  <2>. QED
    BY <1>10, <2>1, WentTo DEF Wait
<1>11. ASSUME NEW t \in Thread, SendLook(t)
      PROVE  ControlOK'
  <2>1. \/ Go(t, "idle")
        \/ Go(t, "size")
    BY <1>11 DEF SendLook, After
  <2>. QED
    BY <1>11, <2>1, WentTo DEF SendLook
<1>12. ASSUME NEW t \in Thread, SendSize(t)
      PROVE  ControlOK'
  BY <1>12, WentTo DEF SendSize
<1>13. ASSUME NEW t \in Thread, Copy(t)
      PROVE  ControlOK'
  <2>1. \/ Go(t, "close")
        \/ Go(t, "post")
    BY <1>13 DEF Copy, After
  <2>. QED
    BY <1>13, <2>1, WentTo DEF Copy
<1>14. ASSUME NEW t \in Thread, PostSend(t)
      PROVE  ControlOK'
  <2>1. \/ Go(t, "close")
        \/ t \in Iocp /\ Go(t, "deref")
        \/ t \notin Iocp /\ Go(t, "idle")
    BY <1>14 DEF PostSend, After
  <2>. QED
    BY <1>14, <2>1, WentTo DEF PostSend
<1>15. ASSUME NEW t \in Thread, CloseUnbind(t)
      PROVE  ControlOK'
  <2>1. \/ Go(t, "error")
        \/ t \in Iocp /\ Go(t, "deref")
        \/ t \notin Iocp /\ Go(t, "idle")
    BY <1>15 DEF CloseUnbind, After
  <2>. QED
    BY <1>15, <2>1, WentTo DEF CloseUnbind
<1>16. ASSUME NEW t \in Thread, CloseError(t)
      PROVE  ControlOK'
  <2>1. Go(t, "closed")
    BY <1>16 DEF CloseError, After
  <2>. QED
    BY <1>16, <2>1, WentTo DEF CloseError
<1>17. ASSUME NEW t \in Thread, ClosePost(t)
      PROVE  ControlOK'
  <2>1. \/ t \in Iocp /\ Go(t, "deref")
        \/ t \notin Iocp /\ Go(t, "idle")
    BY <1>17 DEF ClosePost, After
  <2>. QED
    BY <1>17, <2>1, WentTo DEF ClosePost
<1>18. ASSUME NEW i \in Iocp, Dequeue(i)
      PROVE  ControlOK'
  <2>. DEFINE a == Handled(Head(done))
  <2>1. \/ pc' = pc
        \/ pc' = [pc EXCEPT ![i] = [at |-> a, n |-> Head(done).n]]
    BY <1>18 DEF Dequeue
  <2>2. a \in {"close", "sent", "recv"}
    BY DEF Handled
  <2>3. pc' = pc \/ (pc'[i].at = a /\ \A u \in Thread \ {i} : pc'[u] = pc[u])
    BY <2>1 DEF TypeControl, Control
  <2>. QED
    BY <1>18, <2>2, <2>3 DEF Dequeue
<1>19. ASSUME NEW i \in Iocp, RecvFill(i)
      PROVE  ControlOK'
  <2>1. \/ Go(i, "close")
        \/ Go(i, "mark")
    BY <1>19 DEF RecvFill, After
  <2>. QED
    BY <1>19, <2>1, WentTo DEF RecvFill
<1>20. ASSUME NEW i \in Iocp, RecvMark(i)
      PROVE  ControlOK'
  <2>1. Go(i, "again")
    BY <1>20 DEF RecvMark, After
  <2>. QED
    BY <1>20, <2>1, WentTo DEF RecvMark
<1>21. ASSUME NEW i \in Iocp, SendDrop(i)
      PROVE  ControlOK'
  <2>1. \/ Go(i, "close")
        \/ Go(i, "drop")
    BY <1>21 DEF SendDrop, After
  <2>. QED
    BY <1>21, <2>1, WentTo DEF SendDrop
<1>22. ASSUME NEW i \in Iocp, SendNext(i)
      PROVE  ControlOK'
  <2>1. /\ pc'[i].at \in {"empty", "copy", "post", "close"}
        /\ \A u \in Thread \ {i} : pc'[u] = pc[u]
    BY <1>22, WentTo DEF SendNext, TypeControl, Control
  <2>. QED
    BY <1>22, <2>1 DEF SendNext
<1>23. ASSUME NEW i \in Iocp, SendEmpty(i)
      PROVE  ControlOK'
  <2>1. Go(i, "eof")
    BY <1>23 DEF SendEmpty, After
  <2>. QED
    BY <1>23, <2>1, WentTo DEF SendEmpty
<1>24. ASSUME NEW i \in Iocp, SendEof(i)
      PROVE  ControlOK'
  <2>1. \/ Go(i, "close")
        \/ Go(i, "deref")
    BY <1>24 DEF SendEof, After
  <2>. QED
    BY <1>24, <2>1, WentTo DEF SendEof
<1>25. ASSUME NEW i \in Iocp, Deref(i)
      PROVE  ControlOK'
  <2>1. Go(i, "idle")
    BY <1>25 DEF Deref, After
  <2>. QED
    BY <1>25, <2>1, WentTo DEF Deref
<1>26. CASE Take
  BY <1>26, WentTo DEF Take
<1>27. CASE CallbackBegin
  BY <1>27, WentTo DEF CallbackBegin
<1>28. CASE CallbackEnd
  BY <1>28, WentTo DEF CallbackEnd
<1>29. CASE EventDone
  BY <1>29, WentTo DEF EventDone
<1>30. CASE Check
  <2>1. batch # << >>
    BY <1>30 DEF Check
  <2>2. biz' = "idle" <=> batch' = << >>
    BY <1>30, <2>1, NextOf DEF Check
  <2>. QED
    BY <1>30, <2>1, <2>2, NextOf DEF Check
<1>31. CASE RemoveConnection
  <2>1. batch # << >>
    BY <1>31 DEF RemoveConnection
  <2>2. biz' = "idle" <=> batch' = << >>
    BY <1>31, <2>1, NextOf DEF RemoveConnection
  <2>. QED
    BY <1>31, <2>1, <2>2, NextOf DEF RemoveConnection
<1>32. CASE Sweep
  BY <1>32, WentTo DEF Sweep
<1>33. ASSUME NEW k \in 0 .. Chunk, Sent(k)
      PROVE  ControlOK'
  BY <1>33, WentTo DEF Sent
<1>34. CASE SendFails
  BY <1>34, WentTo DEF SendFails
<1>35. CASE RecvFails
  BY <1>35, WentTo DEF RecvFails
<1>36. CASE Received
  BY <1>36, WentTo DEF Received
<1>37. ASSUME NEW end \in scenario.ends, PeerLeaves(end)
      PROVE  ControlOK'
  BY <1>37, WentTo DEF PeerLeaves
<1>. QED
  BY <1>1, <1>2, <1>3, <1>4, <1>5, <1>6, <1>7, <1>8, <1>9, <1>10, <1>11, <1>12,
     <1>13, <1>14, <1>15, <1>16, <1>17, <1>18, <1>19, <1>20, <1>21, <1>22, <1>23,
     <1>24, <1>25, <1>26, <1>27, <1>28, <1>29, <1>30, <1>31, <1>32, <1>33, <1>34,
     <1>35, <1>36, <1>37 DEF Next, Making, Going, Handling, Business, Kernel

-----------------------------------------------------------------------------
(* Who can do something while nobody knows the connection. *)
LEMMA UnknownSteps ==
  ASSUME TypeSets, Unknown, Next, At(Maker) \in {"insert", "bind", "notify", "idle"}
  PROVE  Making \/ Sweep \/ \E end \in scenario.ends : PeerLeaves(end)
<1>. USE Threads DEF Unknown
<1>1. \A t \in Caller : ~ Close(t) /\ \A k \in 1 .. scenario.write : ~ Fill(t, k)
  BY DEF Close, Fill, Calls
<1>2. \A t \in Thread : ~ Going(t)
  BY DEF Going, PostRecv, PostRecvFails, SendCheck, Wait, SendLook, SendSize, Copy, PostSend,
         CloseUnbind, CloseError, ClosePost
<1>3. \A i \in Iocp : ~ Handling(i)
  BY DEF Handling, Dequeue, RecvFill, RecvMark, SendDrop, SendNext, SendEmpty, SendEof, Deref
<1>4. ~ Business /\ ~ Kernel /\ ~ Received
  BY DEF Business, Take, CallbackBegin, CallbackEnd, EventDone, Check, RemoveConnection,
         Kernel, Sent, SendFails, RecvFails, Received
<1>. QED
  BY <1>1, <1>2, <1>3, <1>4 DEF Next

(* A thread that is not making the connection does not begin to. *)
LEMMA MakerStays ==
  ASSUME TypeControl, ~ Unannounced, Next
  PROVE  ~ Unannounced'
<1>. USE Threads DEF Unannounced
<1>1. CASE Insert
  BY <1>1 DEF Insert
<1>2. CASE Bind
  BY <1>2 DEF Bind
<1>3. CASE BindFails
  BY <1>3 DEF BindFails
<1>4. CASE Announce
  BY <1>4 DEF Announce
<1>5. ASSUME NEW t \in Caller, Close(t)
      PROVE  ~ Unannounced'
  <2>1. \/ Go(t, "idle")
        \/ Go(t, "close")
    BY <1>5 DEF Close, After
  <2>. QED
    BY <2>1, WentTo
<1>6. ASSUME NEW t \in Caller, NEW k \in 1 .. scenario.write, Fill(t, k)
      PROVE  ~ Unannounced'
  <2>1. \/ Go(t, "send")
        \/ Go(t, "idle")
    BY <1>6 DEF Fill, After
  <2>. QED
    BY <2>1, WentTo
<1>7. ASSUME NEW t \in Thread, PostRecv(t)
      PROVE  ~ Unannounced'
  <2>1. \/ t \in Iocp /\ Go(t, "deref")
        \/ t \notin Iocp /\ Go(t, "idle")
    BY <1>7 DEF PostRecv, After
  <2>. QED
    BY <2>1, WentTo
<1>8. ASSUME NEW t \in Thread, PostRecvFails(t)
      PROVE  ~ Unannounced'
  <2>1. \/ Go(t, "close")
        \/ t = Maker /\ Go(t, "idle")
    BY <1>8 DEF PostRecvFails, After
  <2>. QED
    BY <2>1, WentTo
<1>9. ASSUME NEW t \in Thread, SendCheck(t)
      PROVE  ~ Unannounced'
  <2>1. \/ Go(t, "idle")
        \/ Go(t, "wait")
    BY <1>9 DEF SendCheck, After
  <2>. QED
    BY <2>1, WentTo
<1>10. ASSUME NEW t \in Thread, Wait(t)
      PROVE  ~ Unannounced'
  <2>1. Go(t, "look")
    BY <1>10 DEF Wait, After
  <2>. QED
    BY <2>1, WentTo
<1>11. ASSUME NEW t \in Thread, SendLook(t)
      PROVE  ~ Unannounced'
  <2>1. \/ Go(t, "idle")
        \/ Go(t, "size")
    BY <1>11 DEF SendLook, After
  <2>. QED
    BY <2>1, WentTo
<1>12. ASSUME NEW t \in Thread, SendSize(t)
      PROVE  ~ Unannounced'
  BY <1>12 DEF SendSize
<1>13. ASSUME NEW t \in Thread, Copy(t)
      PROVE  ~ Unannounced'
  <2>1. \/ Go(t, "close")
        \/ Go(t, "post")
    BY <1>13 DEF Copy, After
  <2>. QED
    BY <2>1, WentTo
<1>14. ASSUME NEW t \in Thread, PostSend(t)
      PROVE  ~ Unannounced'
  <2>1. \/ Go(t, "close")
        \/ t \in Iocp /\ Go(t, "deref")
        \/ t \notin Iocp /\ Go(t, "idle")
    BY <1>14 DEF PostSend, After
  <2>. QED
    BY <2>1, WentTo
<1>15. ASSUME NEW t \in Thread, CloseUnbind(t)
      PROVE  ~ Unannounced'
  <2>1. \/ Go(t, "error")
        \/ t \in Iocp /\ Go(t, "deref")
        \/ t \notin Iocp /\ Go(t, "idle")
    BY <1>15 DEF CloseUnbind, After
  <2>. QED
    BY <2>1, WentTo
<1>16. ASSUME NEW t \in Thread, CloseError(t)
      PROVE  ~ Unannounced'
  <2>1. Go(t, "closed")
    BY <1>16 DEF CloseError, After
  <2>. QED
    BY <2>1, WentTo
<1>17. ASSUME NEW t \in Thread, ClosePost(t)
      PROVE  ~ Unannounced'
  <2>1. \/ t \in Iocp /\ Go(t, "deref")
        \/ t \notin Iocp /\ Go(t, "idle")
    BY <1>17 DEF ClosePost, After
  <2>. QED
    BY <2>1, WentTo
<1>18. ASSUME NEW i \in Iocp, Dequeue(i)
      PROVE  ~ Unannounced'
  BY <1>18 DEF Dequeue, TypeControl
<1>19. ASSUME NEW i \in Iocp, RecvFill(i)
      PROVE  ~ Unannounced'
  <2>1. \/ Go(i, "close")
        \/ Go(i, "mark")
    BY <1>19 DEF RecvFill, After
  <2>. QED
    BY <2>1, WentTo
<1>20. ASSUME NEW i \in Iocp, RecvMark(i)
      PROVE  ~ Unannounced'
  <2>1. Go(i, "again")
    BY <1>20 DEF RecvMark, After
  <2>. QED
    BY <2>1, WentTo
<1>21. ASSUME NEW i \in Iocp, SendDrop(i)
      PROVE  ~ Unannounced'
  <2>1. \/ Go(i, "close")
        \/ Go(i, "drop")
    BY <1>21 DEF SendDrop, After
  <2>. QED
    BY <2>1, WentTo
<1>22. ASSUME NEW i \in Iocp, SendNext(i)
      PROVE  ~ Unannounced'
  BY <1>22, WentTo DEF SendNext, TypeControl
<1>23. ASSUME NEW i \in Iocp, SendEmpty(i)
      PROVE  ~ Unannounced'
  <2>1. Go(i, "eof")
    BY <1>23 DEF SendEmpty, After
  <2>. QED
    BY <2>1, WentTo
<1>24. ASSUME NEW i \in Iocp, SendEof(i)
      PROVE  ~ Unannounced'
  <2>1. \/ Go(i, "close")
        \/ Go(i, "deref")
    BY <1>24 DEF SendEof, After
  <2>. QED
    BY <2>1, WentTo
<1>25. ASSUME NEW i \in Iocp, Deref(i)
      PROVE  ~ Unannounced'
  <2>1. Go(i, "idle")
    BY <1>25 DEF Deref, After
  <2>. QED
    BY <2>1, WentTo
<1>26. CASE Take
  BY <1>26 DEF Take
<1>27. CASE CallbackBegin
  BY <1>27 DEF CallbackBegin
<1>28. CASE CallbackEnd
  BY <1>28, WentTo DEF CallbackEnd
<1>29. CASE EventDone
  BY <1>29 DEF EventDone
<1>30. CASE Check
  BY <1>30 DEF Check
<1>31. CASE RemoveConnection
  BY <1>31 DEF RemoveConnection
<1>32. CASE Sweep
  BY <1>32 DEF Sweep
<1>33. ASSUME NEW k \in 0 .. Chunk, Sent(k)
      PROVE  ~ Unannounced'
  BY <1>33 DEF Sent
<1>34. CASE SendFails
  BY <1>34 DEF SendFails
<1>35. CASE RecvFails
  BY <1>35 DEF RecvFails
<1>36. CASE Received
  BY <1>36 DEF Received
<1>37. ASSUME NEW end \in scenario.ends, PeerLeaves(end)
      PROVE  ~ Unannounced'
  BY <1>37 DEF PeerLeaves
<1>. QED
  BY <1>1, <1>2, <1>3, <1>4, <1>5, <1>6, <1>7, <1>8, <1>9, <1>10, <1>11, <1>12,
     <1>13, <1>14, <1>15, <1>16, <1>17, <1>18, <1>19, <1>20, <1>21, <1>22, <1>23,
     <1>24, <1>25, <1>26, <1>27, <1>28, <1>29, <1>30, <1>31, <1>32, <1>33, <1>34,
     <1>35, <1>36, <1>37 DEF Next, Making, Going, Handling, Business, Kernel

(* The announcement is over once and for all. *)
LEMMA EarlyStep ==
  ASSUME TypeSets, TypeControl, ControlOK, EarlyOK, Next
  PROVE  /\ EarlyOK'
         /\ Unannounced' => Unannounced
         /\ NeverBound => NeverBound'
<1>. USE Threads DEF EarlyOK
<1>1. CASE Insert
  BY <1>1, WentTo DEF Insert, Unannounced, Unknown, NeverBound
<1>2. CASE Bind
  BY <1>2, WentTo DEF Bind, Unannounced, Unknown, NeverBound
<1>3. CASE BindFails
  BY <1>3, WentTo DEF BindFails, Unannounced, NeverBound
<1>4. CASE Announce
  BY <1>4, WentTo DEF Announce, Unannounced, NeverBound
<1>5. CASE Sweep
  BY <1>5 DEF Sweep, Unannounced, Unknown, NeverBound
<1>6. ASSUME NEW end \in scenario.ends, PeerLeaves(end)
      PROVE  /\ EarlyOK'
             /\ Unannounced' => Unannounced
             /\ NeverBound => NeverBound'
  BY <1>6 DEF PeerLeaves, Unannounced, Unknown, NeverBound
<1>7. Unannounced \/ NeverBound => Making \/ Sweep \/ \E end \in scenario.ends : PeerLeaves(end)
  BY UnknownSteps DEF Unannounced, NeverBound
<1>8. Unannounced' => Unannounced
  <2>1. SUFFICES ASSUME ~ Unannounced PROVE ~ Unannounced'
    OBVIOUS
  <2>2. ~ Making
    BY <2>1 DEF Making, Insert, Bind, BindFails, Announce, Unannounced
  <2>. QED
    BY <2>1, <2>2, MakerStays
<1>. QED
  BY <1>1, <1>2, <1>3, <1>4, <1>5, <1>6, <1>7, <1>8 DEF Making

-----------------------------------------------------------------------------
(* The threads of the port that handle a completion. *)
LEMMA SameHolders ==
  ASSUME \A i \in Iocp : pc'[i].at = "idle" <=> pc[i].at = "idle"
  PROVE  Holders' = Holders
BY DEF Holders

LEMMA OneHolder ==
  ASSUME NEW i \in Iocp, \A j \in Iocp \ {i} : pc'[j] = pc[j], IsFiniteSet(Holders)
  PROVE  /\ Cardinality(Holders) \in Nat /\ IsFiniteSet(Holders')
         /\ pc[i].at = "idle" /\ pc'[i].at # "idle" =>
              Cardinality(Holders') = Cardinality(Holders) + 1
         /\ pc[i].at # "idle" /\ pc'[i].at = "idle" =>
              Cardinality(Holders') = Cardinality(Holders) - 1
<1>1. CASE pc[i].at = "idle" /\ pc'[i].at # "idle"
  <2>1. Holders' = Holders \cup {i} /\ i \notin Holders
    BY <1>1 DEF Holders
  <2>. QED
    BY <1>1, <2>1, FS_AddElement, FS_CardinalityType
<1>2. CASE pc[i].at # "idle" /\ pc'[i].at = "idle"
  <2>1. Holders' = Holders \ {i} /\ i \in Holders
    BY <1>2 DEF Holders
  <2>. QED
    BY <1>2, <2>1, FS_RemoveElement, FS_CardinalityType
<1>3. CASE pc[i].at = "idle" <=> pc'[i].at = "idle"
  <2>1. Holders' = Holders
    BY <1>3 DEF Holders
  <2>. QED
    BY <1>3, <2>1, FS_CardinalityType
<1>. QED
  BY <1>1, <1>2, <1>3

(* An appended event has a reference of its own. *)
LEMMA Appended ==
  ASSUME NEW k \in Kind, TypeLists, AppendEvent(k)
  PROVE  /\ Len(events) \in Nat /\ Len(events') \in Nat /\ events' # << >>
         /\ \/ refs' = refs /\ events' = events
            \/ refs' = refs + 1 /\ Len(events') = Len(events) + 1
<1>1. events \in Seq(Kind) /\ Len(events) \in Nat
  BY LenProperties DEF TypeLists
<1>2. CASE Contains(events, k)
  BY <1>1, <1>2 DEF AppendEvent, Contains
<1>3. CASE ~ Contains(events, k)
  BY <1>1, <1>3, AppendProperties DEF AppendEvent
<1>. QED
  BY <1>2, <1>3

(* The numbers that make up the count, and what a count of zero says. *)
LEMMA Counts ==
  ASSUME TypeSets, TypeLists, ControlOK, CountOK
  PROVE  /\ Len(events) \in Nat /\ Len(batch) \in Nat /\ Cardinality(Holders) \in Nat
         /\ One(binded) \in {0, 1} /\ (binded <=> One(binded) = 1)
         /\ biz \in {"check", "remove"} => Len(batch) > 0
         /\ refs \in Nat
         /\ refs = 0 => ~ binded /\ events = << >> /\ Holders = {}
         /\ refs = 0 => Len(batch) = One(biz \in {"check", "remove"})
         /\ \A i \in Iocp : At(i) # "idle" => refs > 0 /\ place # "freed"
<1>1. /\ Len(events) \in Nat /\ Len(batch) \in Nat /\ Cardinality(Holders) \in Nat
      /\ events = << >> <=> Len(events) = 0
      /\ batch = << >> <=> Len(batch) = 0
      /\ Holders = {} <=> Cardinality(Holders) = 0
  BY LenProperties, EmptySeq, FS_CardinalityType, FS_EmptySet DEF TypeLists, CountOK
<1>2. One(binded) \in {0, 1} /\ (binded <=> One(binded) = 1)
  BY DEF One
<1>3. biz \in {"check", "remove"} => Len(batch) > 0
  BY <1>1 DEF ControlOK
<1>4. One(biz \in {"check", "remove"}) = IF biz \in {"check", "remove"} THEN 1 ELSE 0
  BY DEF One
<1>5. refs = One(binded) + Len(events) + Len(batch)
              - One(biz \in {"check", "remove"}) + Cardinality(Holders)
  BY DEF CountOK
<1>. DEFINE b == One(binded)
            e == Len(events)
            m == Len(batch) - One(biz \in {"check", "remove"})
            h == Cardinality(Holders)
<1>6. b \in Nat /\ e \in Nat /\ h \in Nat
  BY <1>1, <1>2
<1>7. m \in Nat /\ (m = 0 => Len(batch) = One(biz \in {"check", "remove"}))
  BY <1>1, <1>3, <1>4
<1>10. refs = b + e + m + h
  BY <1>1, <1>2, <1>4, <1>5
<1>11. refs \in Nat /\ (refs = 0 => b = 0 /\ e = 0 /\ m = 0 /\ h = 0)
  <2>. HIDE DEF b, e, m, h
  <2>. QED
    BY <1>6, <1>7, <1>10
<1>8. \A i \in Iocp : At(i) # "idle" => Holders # {}
  BY DEF Holders
<1>9. refs > 0 => place # "freed"
  BY DEF CountOK
<1>. QED
  BY <1>1, <1>2, <1>3, <1>7, <1>8, <1>9, <1>11

(* A step that changes none of the numbers. *)
LEMMA CountKept ==
  ASSUME CountOK, UNCHANGED <<binded, refs, events, batch>>,
         biz' \in {"check", "remove"} <=> biz \in {"check", "remove"},
         \A i \in Iocp : pc'[i].at = "idle" <=> pc[i].at = "idle",
         place' = place \/ place' # "freed" \/ refs = 0
  PROVE  CountOK'
<1>1. Holders' = Holders
  BY SameHolders
<1>2. One(biz \in {"check", "remove"})' = One(biz \in {"check", "remove"})
  BY DEF One
<1>. QED
  BY <1>1, <1>2 DEF CountOK

(* A step that changes the events or the holders, and the count as much. *)
LEMMA CountMoved ==
  ASSUME TypeSets, TypeLists, ControlOK, CountOK, UNCHANGED <<binded, batch, biz, place>>,
         IsFiniteSet(Holders'), Len(events') \in Nat, place # "freed",
         refs' - refs = (Len(events') - Len(events))
                          + (Cardinality(Holders') - Cardinality(Holders)),
         refs' \in Int
  PROVE  CountOK'
<1>. DEFINE b == One(binded)
            e == Len(events)
            e1 == Len(events')
            m == Len(batch)
            o == One(biz \in {"check", "remove"})
            h == Cardinality(Holders)
            h1 == Cardinality(Holders')
<1>1. b \in Int /\ e \in Int /\ e1 \in Int /\ m \in Int /\ h \in Int /\ h1 \in Int /\ refs \in Int
  BY Counts, FS_CardinalityType
<1>2. o \in Int
  BY DEF One
<1>3. refs = b + e + m - o + h
  BY DEF CountOK
<1>4. refs' - refs = (e1 - e) + (h1 - h) /\ refs' \in Int
  OBVIOUS
<1>5. refs' = b + e1 + m - o + h1
  <2>1. \A r, r1, B, E, F, M, O, H, I \in Int :
          r = B + E + M - O + H /\ r1 - r = (F - E) + (I - H) => r1 = B + F + M - O + I
    OBVIOUS
  <2>. DEFINE r == refs
              r1 == refs'
  <2>2. r \in Int /\ r1 \in Int /\ b \in Int /\ e \in Int /\ e1 \in Int /\ m \in Int /\ o \in Int
    BY <1>1, <1>2, <1>4
  <2>5. h \in Int /\ h1 \in Int
    BY <1>1, <1>2, <1>4
  <2>3. r = b + e + m - o + h
    BY <1>3
  <2>4. r1 - r = (e1 - e) + (h1 - h)
    BY <1>4
  <2>. HIDE DEF b, e, e1, m, o, h, h1, r, r1
  <2>6. r1 = b + e1 + m - o + h1
    BY <2>1, <2>2, <2>3, <2>4, <2>5
  <2>. QED
    BY <2>6 DEF r1
<1>6. b = One(binded)' /\ m = Len(batch)' /\ o = One(biz \in {"check", "remove"})'
  BY DEF One
<1>. QED
  BY <1>5, <1>6 DEF CountOK

-----------------------------------------------------------------------------
(* Every step keeps the count. *)
LEMMA CountStep ==
  ASSUME TypeSets, TypeControl, TypeLists, ControlOK, EarlyOK, CountOK, Next
  PROVE  CountOK'
<1>. USE Threads
<1>1. CASE Insert
  <2>1. Go(Maker, "bind")
    BY <1>1 DEF Insert, After
  <2>. QED
    BY <1>1, <2>1, WentTo, CountKept DEF Insert
<1>2. CASE Bind
  <2>1. ~ binded /\ place = "normal"
    BY <1>2 DEF Bind, EarlyOK, Unannounced
  <2>2. \A j \in Iocp : pc'[j] = pc[j]
    BY <1>2, WentTo DEF Bind
  <2>3. Holders' = Holders
    BY <2>2, SameHolders
  <2>. QED
    BY <1>2, <2>1, <2>3, Counts DEF Bind, CountOK, One
<1>3. CASE BindFails
  <2>1. Go(Maker, "idle")
    BY <1>3 DEF BindFails, After
  <2>. QED
    BY <1>3, <2>1, WentTo, CountKept DEF BindFails
<1>4. CASE Announce
  <2>1. AppendEvent("open") /\ place # "freed"
    BY <1>4, Counts DEF EarlyOK, Unannounced, Announce
  <2>2. Go(Maker, "again")
    BY <1>4 DEF Announce, After
  <2>3. \A j \in Iocp : pc'[j].at = "idle" <=> pc[j].at = "idle"
    BY <1>4, <2>2, WentTo DEF Announce
  <2>4. Holders' = Holders
    BY <2>3, SameHolders
  <2>5. /\ UNCHANGED <<binded, batch, biz, place>> /\ Len(events') \in Nat
        /\ refs' \in Int /\ refs' - refs = Len(events') - Len(events)
    BY <1>4, <2>1, Appended, Counts DEF Announce, Kind
  <2>. QED
    BY <2>1, <2>4, <2>5, Counts, CountMoved DEF CountOK
<1>5. ASSUME NEW t \in Caller, Close(t)
      PROVE  CountOK'
  <2>1. \/ Go(t, "idle")
        \/ Go(t, "close")
    BY <1>5 DEF Close, After
  <2>. QED
    BY <1>5, <2>1, WentTo, CountKept DEF Close
<1>6. ASSUME NEW t \in Caller, NEW k \in 1 .. scenario.write, Fill(t, k)
      PROVE  CountOK'
  <2>1. \/ Go(t, "send")
        \/ Go(t, "idle")
    BY <1>6 DEF Fill, After
  <2>. QED
    BY <1>6, <2>1, WentTo, CountKept DEF Fill
<1>7. ASSUME NEW t \in Thread, PostRecv(t)
      PROVE  CountOK'
  <2>1. \/ t \in Iocp /\ Go(t, "deref")
        \/ t \notin Iocp /\ Go(t, "idle")
    BY <1>7 DEF PostRecv, After
  <2>. QED
    BY <1>7, <2>1, WentTo, CountKept DEF PostRecv
<1>8. ASSUME NEW t \in Thread, PostRecvFails(t)
      PROVE  CountOK'
  <2>1. \/ Go(t, "close")
        \/ t = Maker /\ Go(t, "idle")
    BY <1>8 DEF PostRecvFails, After
  <2>. QED
    BY <1>8, <2>1, WentTo, CountKept DEF PostRecvFails
<1>9. ASSUME NEW t \in Thread, SendCheck(t)
      PROVE  CountOK'
  <2>1. \/ Go(t, "idle")
        \/ Go(t, "wait")
    BY <1>9 DEF SendCheck, After
  <2>2. t \notin Iocp
    BY <1>9 DEF SendCheck, ControlOK, AtIocp, InIocp
  <2>. QED
    BY <1>9, <2>1, <2>2, WentTo, CountKept DEF SendCheck
<1>10. ASSUME NEW t \in Thread, Wait(t)
      PROVE  CountOK'
  <2>1. Go(t, "look")
    BY <1>10 DEF Wait, After
  <2>. QED
    BY <1>10, <2>1, WentTo, CountKept DEF Wait
<1>11. ASSUME NEW t \in Thread, SendLook(t)
      PROVE  CountOK'
  <2>1. \/ Go(t, "idle")
        \/ Go(t, "size")
    BY <1>11 DEF SendLook, After
  <2>2. t \notin Iocp
    BY <1>11 DEF SendLook, ControlOK, AtIocp, InIocp
  <2>. QED
    BY <1>11, <2>1, <2>2, WentTo, CountKept DEF SendLook
<1>12. ASSUME NEW t \in Thread, SendSize(t)
      PROVE  CountOK'
  BY <1>12, CountKept DEF SendSize
<1>13. ASSUME NEW t \in Thread, Copy(t)
      PROVE  CountOK'
  <2>1. \/ Go(t, "close")
        \/ Go(t, "post")
    BY <1>13 DEF Copy, After
  <2>. QED
    BY <1>13, <2>1, WentTo, CountKept DEF Copy
<1>14. ASSUME NEW t \in Thread, PostSend(t)
      PROVE  CountOK'
  <2>1. \/ Go(t, "close")
        \/ t \in Iocp /\ Go(t, "deref")
        \/ t \notin Iocp /\ Go(t, "idle")
    BY <1>14 DEF PostSend, After
  <2>. QED
    BY <1>14, <2>1, WentTo, CountKept DEF PostSend
<1>15. ASSUME NEW t \in Thread, CloseUnbind(t)
      PROVE  CountOK'
  <2>1. \A j \in Iocp : pc'[j].at = "idle" <=> pc[j].at = "idle"
    <3>1. CASE Go(t, "error")
      BY <1>15, <3>1, WentTo DEF CloseUnbind
    <3>2. CASE Go(t, After(t))
      BY <1>15, <3>2, WentTo DEF CloseUnbind, After
    <3>. QED
      BY <1>15, <3>1, <3>2 DEF CloseUnbind
  <2>2. CASE Unbinds
    <3>1. Holders' = Holders
      BY <2>1, SameHolders
    <3>. QED
      BY <1>15, <2>2, <3>1, Counts DEF CloseUnbind, Unbinds, CountOK, One
  <2>3. CASE ~ Unbinds
    BY <1>15, <2>1, <2>3, CountKept DEF CloseUnbind
  <2>. QED
    BY <2>2, <2>3
<1>16. ASSUME NEW t \in Thread, CloseError(t)
      PROVE  CountOK'
  <2>1. Go(t, "closed")
    BY <1>16 DEF CloseError, After
  <2>. QED
    BY <1>16, <2>1, WentTo, CountKept DEF CloseError
<1>17. ASSUME NEW t \in Thread, ClosePost(t)
      PROVE  CountOK'
  <2>1. AppendEvent("close") /\ place # "freed"
    BY <1>17, Counts DEF ClosePost
  <2>2. \/ t \in Iocp /\ Go(t, "deref")
        \/ t \notin Iocp /\ Go(t, "idle")
    BY <1>17 DEF ClosePost, After
  <2>3. \A j \in Iocp : pc'[j].at = "idle" <=> pc[j].at = "idle"
    BY <1>17, <2>2, WentTo DEF ClosePost
  <2>4. Holders' = Holders
    BY <2>3, SameHolders
  <2>5. /\ UNCHANGED <<binded, batch, biz, place>> /\ Len(events') \in Nat
        /\ refs' \in Int /\ refs' - refs = Len(events') - Len(events)
    BY <1>17, <2>1, Appended, Counts DEF ClosePost, Kind
  <2>. QED
    BY <2>1, <2>4, <2>5, Counts, CountMoved DEF CountOK
<1>18. ASSUME NEW i \in Iocp, Dequeue(i)
      PROVE  CountOK'
  <2>1. CASE place = "normal"
    <3>1. /\ refs' = refs + 1 /\ place' = place /\ pc[i].at = "idle"
          /\ pc' = [pc EXCEPT ![i] = [at |-> Handled(Head(done)), n |-> Head(done).n]]
          /\ UNCHANGED <<binded, events, batch, biz>>
      BY <1>18, <2>1 DEF Dequeue
    <3>2. Handled(Head(done)) # "idle"
      BY DEF Handled
    <3>3. pc'[i].at # "idle" /\ \A j \in Iocp \ {i} : pc'[j] = pc[j]
      BY <3>1, <3>2 DEF TypeControl, Control
    <3>4. IsFiniteSet(Holders') /\ Cardinality(Holders') = Cardinality(Holders) + 1
      BY <3>1, <3>3, OneHolder DEF CountOK
    <3>5. refs' \in Int /\ refs' - refs = Cardinality(Holders') - Cardinality(Holders)
      BY <3>1, <3>4, Counts
    <3>. QED
      BY <2>1, <3>1, <3>4, <3>5, Counts, CountMoved
  <2>2. CASE place # "normal"
    BY <1>18, <2>2, CountKept DEF Dequeue
  <2>. QED
    BY <2>1, <2>2
<1>19. ASSUME NEW i \in Iocp, RecvFill(i)
      PROVE  CountOK'
  <2>1. \/ Go(i, "close")
        \/ Go(i, "mark")
    BY <1>19 DEF RecvFill, After
  <2>. QED
    BY <1>19, <2>1, WentTo, CountKept DEF RecvFill
<1>20. ASSUME NEW i \in Iocp, RecvMark(i)
      PROVE  CountOK'
  <2>1. pc[i].at # "idle" /\ pc'[i].at # "idle" /\ \A j \in Iocp \ {i} : pc'[j] = pc[j]
    BY <1>20, WentTo DEF RecvMark
  <2>2. Holders' = Holders /\ place # "freed"
    BY <1>20, <2>1, SameHolders, Counts DEF RecvMark
  <2>3. CASE AppendEvent("recv")
    <3>1. /\ UNCHANGED <<binded, batch, biz, place>> /\ Len(events') \in Nat
          /\ refs' \in Int /\ refs' - refs = Len(events') - Len(events)
      BY <1>20, <2>3, Appended, Counts DEF RecvMark, Kind
    <3>. QED
      BY <2>2, <3>1, Counts, CountMoved DEF CountOK
  <2>4. CASE UNCHANGED <<refs, events>>
    BY <1>20, <2>1, <2>4, CountKept DEF RecvMark
  <2>. QED
    BY <1>20, <2>3, <2>4 DEF RecvMark
<1>21. ASSUME NEW i \in Iocp, SendDrop(i)
      PROVE  CountOK'
  <2>1. \/ Go(i, "close")
        \/ Go(i, "drop")
    BY <1>21 DEF SendDrop, After
  <2>. QED
    BY <1>21, <2>1, WentTo, CountKept DEF SendDrop
<1>22. ASSUME NEW i \in Iocp, SendNext(i)
      PROVE  CountOK'
  <2>1. pc'[i].at # "idle" /\ pc[i].at # "idle" /\ \A u \in Thread \ {i} : pc'[u] = pc[u]
    BY <1>22, WentTo DEF SendNext, TypeControl, Control
  <2>. QED
    BY <1>22, <2>1, CountKept DEF SendNext
<1>23. ASSUME NEW i \in Iocp, SendEmpty(i)
      PROVE  CountOK'
  <2>1. AppendEvent("send") /\ place # "freed"
    BY <1>23, Counts DEF SendEmpty
  <2>2. Go(i, "eof")
    BY <1>23 DEF SendEmpty, After
  <2>3. \A j \in Iocp : pc'[j].at = "idle" <=> pc[j].at = "idle"
    BY <1>23, <2>2, WentTo DEF SendEmpty
  <2>4. Holders' = Holders
    BY <2>3, SameHolders
  <2>5. /\ UNCHANGED <<binded, batch, biz, place>> /\ Len(events') \in Nat
        /\ refs' \in Int /\ refs' - refs = Len(events') - Len(events)
    BY <1>23, <2>1, Appended, Counts DEF SendEmpty, Kind
  <2>. QED
    BY <2>1, <2>4, <2>5, Counts, CountMoved DEF CountOK
<1>24. ASSUME NEW i \in Iocp, SendEof(i)
      PROVE  CountOK'
  <2>1. \/ Go(i, "close")
        \/ Go(i, "deref")
    BY <1>24 DEF SendEof, After
  <2>. QED
    BY <1>24, <2>1, WentTo, CountKept DEF SendEof
<1>25. ASSUME NEW i \in Iocp, Deref(i)
      PROVE  CountOK'
  <2>1. pc'[i].at = "idle" /\ pc[i].at # "idle" /\ \A j \in Iocp \ {i} : pc'[j] = pc[j]
    BY <1>25, WentTo DEF Deref
  <2>2. IsFiniteSet(Holders') /\ Cardinality(Holders') = Cardinality(Holders) - 1
    BY <2>1, OneHolder DEF CountOK
  <2>3. /\ refs' \in Int /\ refs' - refs = Cardinality(Holders') - Cardinality(Holders)
        /\ UNCHANGED <<binded, batch, biz, place, events>> /\ place # "freed"
    BY <1>25, <2>1, <2>2, Counts DEF Deref
  <2>. QED
    BY <2>2, <2>3, Counts, CountMoved
<1>26. CASE Take
  <2>1. batch = << >> /\ Len(batch) = 0 /\ Len(events') = 0 /\ Holders' = Holders
    BY <1>26, EmptySeq, SameHolders DEF Take, ControlOK
  <2>. QED
    BY <1>26, <2>1, Counts DEF Take, CountOK, One
<1>27. CASE CallbackBegin
  BY <1>27, CountKept DEF CallbackBegin
<1>28. CASE CallbackEnd
  <2>1. \A j \in Iocp : pc'[j] = pc[j]
    BY <1>28, WentTo DEF CallbackEnd
  <2>. QED
    BY <1>28, <2>1, CountKept DEF CallbackEnd
<1>29. CASE EventDone
  <2>1. Holders' = Holders
    BY <1>29, SameHolders DEF EventDone
  <2>. QED
    BY <1>29, <2>1, Counts DEF EventDone, CountOK, One
<1>30. CASE Check
  <2>1. Holders' = Holders
    BY <1>30, SameHolders DEF Check
  <2>2. CASE refs = 0
    BY <1>30, <2>1, <2>2, CountKept DEF Check
  <2>3. CASE refs # 0
    <3>1. batch # << >> /\ NextEvent
      BY <1>30, <2>3 DEF Check, ControlOK
    <3>2. Len(batch') = Len(batch) - 1 /\ biz' \notin {"check", "remove"}
      BY <3>1, NextOf
    <3>. QED
      BY <1>30, <2>1, <3>2, Counts DEF Check, CountOK, One
  <2>. QED
    BY <2>2, <2>3
<1>31. CASE RemoveConnection
  <2>1. Holders' = Holders
    BY <1>31, SameHolders DEF RemoveConnection
  <2>2. batch # << >> /\ NextEvent /\ place' # "freed"
    BY <1>31 DEF RemoveConnection, RemovedTo, ControlOK
  <2>3. Len(batch') = Len(batch) - 1 /\ biz' \notin {"check", "remove"}
    BY <2>2, NextOf
  <2>. QED
    BY <1>31, <2>1, <2>2, <2>3, Counts DEF RemoveConnection, CountOK, One
<1>32. CASE Sweep
  BY <1>32, CountKept DEF Sweep, Invalid
<1>33. ASSUME NEW k \in 0 .. Chunk, Sent(k)
      PROVE  CountOK'
  BY <1>33, CountKept DEF Sent
<1>34. CASE SendFails
  BY <1>34, CountKept DEF SendFails
<1>35. CASE RecvFails
  BY <1>35, CountKept DEF RecvFails
<1>36. CASE Received
  BY <1>36, CountKept DEF Received
<1>37. ASSUME NEW end \in scenario.ends, PeerLeaves(end)
      PROVE  CountOK'
  BY <1>37, CountKept DEF PeerLeaves
<1>. QED
  BY <1>1, <1>2, <1>3, <1>4, <1>5, <1>6, <1>7, <1>8, <1>9, <1>10, <1>11, <1>12,
     <1>13, <1>14, <1>15, <1>16, <1>17, <1>18, <1>19, <1>20, <1>21, <1>22, <1>23,
     <1>24, <1>25, <1>26, <1>27, <1>28, <1>29, <1>30, <1>31, <1>32, <1>33, <1>34,
     <1>35, <1>36, <1>37 DEF Next, Making, Going, Handling, Business, Kernel

-----------------------------------------------------------------------------
(* Once the error is set and nobody will post an event, nobody does.       *)
LEMMA SilentStep ==
  ASSUME TypeControl, ControlOK, ~ Unannounced, Silent, error, Next
  PROVE  Silent' /\ error'
<1>. USE Threads DEF Silent, ControlOK, AtIocp, AtCaller, AtMaker, InIocp
<1>1. CASE Insert
  BY <1>1 DEF Insert, Unannounced
<1>2. CASE Bind
  BY <1>2 DEF Bind, Unannounced
<1>3. CASE BindFails
  BY <1>3 DEF BindFails, Unannounced
<1>4. CASE Announce
  BY <1>4 DEF Announce, Unannounced
<1>5. ASSUME NEW t \in Caller, Close(t)
      PROVE  Silent' /\ error'
  <2>1. Go(t, "idle") \/ Go(t, "close")
    BY <1>5 DEF Close
  <2>. QED
    BY <1>5, <2>1, WentTo DEF Close
<1>6. ASSUME NEW t \in Caller, NEW k \in 1 .. scenario.write, Fill(t, k)
      PROVE  Silent' /\ error'
  <2>1. \/ Go(t, "send")
        \/ Go(t, "idle")
    BY <1>6 DEF Fill, After
  <2>. QED
    BY <1>6, <2>1, WentTo DEF Fill
<1>7. ASSUME NEW t \in Thread, PostRecv(t)
      PROVE  Silent' /\ error'
  <2>1. \/ t \in Iocp /\ Go(t, "deref")
        \/ t \notin Iocp /\ Go(t, "idle")
    BY <1>7 DEF PostRecv, After
  <2>. QED
    BY <1>7, <2>1, WentTo DEF PostRecv
<1>8. ASSUME NEW t \in Thread, PostRecvFails(t)
      PROVE  Silent' /\ error'
  <2>1. \/ Go(t, "close")
        \/ t = Maker /\ Go(t, "idle")
    BY <1>8 DEF PostRecvFails, After
  <2>. QED
    BY <1>8, <2>1, WentTo DEF PostRecvFails
<1>9. ASSUME NEW t \in Thread, SendCheck(t)
      PROVE  Silent' /\ error'
  <2>1. \/ Go(t, "idle")
        \/ Go(t, "wait")
    BY <1>9 DEF SendCheck, After
  <2>. QED
    BY <1>9, <2>1, WentTo DEF SendCheck
<1>10. ASSUME NEW t \in Thread, Wait(t)
      PROVE  Silent' /\ error'
  <2>1. Go(t, "look")
    BY <1>10 DEF Wait, After
  <2>. QED
    BY <1>10, <2>1, WentTo DEF Wait
<1>11. ASSUME NEW t \in Thread, SendLook(t)
      PROVE  Silent' /\ error'
  <2>1. \/ Go(t, "idle")
        \/ Go(t, "size")
    BY <1>11 DEF SendLook, After
  <2>. QED
    BY <1>11, <2>1, WentTo DEF SendLook
<1>12. ASSUME NEW t \in Thread, SendSize(t)
      PROVE  Silent' /\ error'
  <2>1. /\ pc'[t].at = "copy" /\ pc[t].at = "size"
        /\ \A u \in Thread \ {t} : pc'[u] = pc[u]
    BY <1>12 DEF SendSize, TypeControl, Control
  <2>. QED
    BY <1>12, <2>1 DEF SendSize
<1>13. ASSUME NEW t \in Thread, Copy(t)
      PROVE  Silent' /\ error'
  <2>1. \/ Go(t, "close")
        \/ Go(t, "post")
    BY <1>13 DEF Copy, After
  <2>. QED
    BY <1>13, <2>1, WentTo DEF Copy
<1>14. ASSUME NEW t \in Thread, PostSend(t)
      PROVE  Silent' /\ error'
  <2>1. \/ Go(t, "close")
        \/ t \in Iocp /\ Go(t, "deref")
        \/ t \notin Iocp /\ Go(t, "idle")
    BY <1>14 DEF PostSend, After
  <2>. QED
    BY <1>14, <2>1, WentTo DEF PostSend
<1>15. ASSUME NEW t \in Thread, CloseUnbind(t)
      PROVE  Silent' /\ error'
  <2>1. Go(t, After(t)) /\ UNCHANGED <<binded, events, error>>
    BY <1>15 DEF CloseUnbind, Unbinds
  <2>. QED
    BY <2>1, WentTo DEF After
<1>16. ASSUME NEW t \in Thread, CloseError(t)
      PROVE  Silent' /\ error'
  BY <1>16 DEF CloseError
<1>17. ASSUME NEW t \in Thread, ClosePost(t)
      PROVE  Silent' /\ error'
  BY <1>17 DEF ClosePost
<1>18. ASSUME NEW i \in Iocp, Dequeue(i)
      PROVE  Silent' /\ error'
  <2>. DEFINE a == Handled(Head(done))
  <2>1. \/ pc' = pc
        \/ pc' = [pc EXCEPT ![i] = [at |-> a, n |-> Head(done).n]]
    BY <1>18 DEF Dequeue
  <2>2. a \in {"close", "sent", "recv"}
    BY DEF Handled
  <2>3. pc' = pc \/ (pc'[i].at = a /\ \A u \in Thread \ {i} : pc'[u] = pc[u])
    BY <2>1 DEF TypeControl, Control
  <2>. QED
    BY <1>18, <2>2, <2>3 DEF Dequeue
<1>19. ASSUME NEW i \in Iocp, RecvFill(i)
      PROVE  Silent' /\ error'
  <2>1. Go(i, "close") /\ UNCHANGED <<binded, events, error>>
    BY <1>19 DEF RecvFill
  <2>. QED
    BY <2>1, WentTo
<1>20. ASSUME NEW i \in Iocp, RecvMark(i)
      PROVE  Silent' /\ error'
  BY <1>20 DEF RecvMark
<1>21. ASSUME NEW i \in Iocp, SendDrop(i)
      PROVE  Silent' /\ error'
  <2>1. Go(i, "close") /\ UNCHANGED <<binded, events, error>>
    BY <1>21 DEF SendDrop
  <2>. QED
    BY <2>1, WentTo
<1>22. ASSUME NEW i \in Iocp, SendNext(i)
      PROVE  Silent' /\ error'
  BY <1>22 DEF SendNext
<1>23. ASSUME NEW i \in Iocp, SendEmpty(i)
      PROVE  Silent' /\ error'
  BY <1>23 DEF SendEmpty
<1>24. ASSUME NEW i \in Iocp, SendEof(i)
      PROVE  Silent' /\ error'
  BY <1>24 DEF SendEof
<1>25. ASSUME NEW i \in Iocp, Deref(i)
      PROVE  Silent' /\ error'
  <2>1. Go(i, "idle")
    BY <1>25 DEF Deref, After
  <2>. QED
    BY <1>25, <2>1, WentTo DEF Deref
<1>26. CASE Take
  BY <1>26 DEF Take
<1>27. CASE CallbackBegin
  BY <1>27, WentTo DEF CallbackBegin
<1>28. CASE CallbackEnd
  BY <1>28, WentTo DEF CallbackEnd
<1>29. CASE EventDone
  BY <1>29, WentTo DEF EventDone
<1>30. CASE Check
  BY <1>30, WentTo DEF Check, NextEvent
<1>31. CASE RemoveConnection
  BY <1>31, WentTo DEF RemoveConnection, NextEvent, RemovedTo
<1>32. CASE Sweep
  BY <1>32, WentTo DEF Sweep
<1>33. ASSUME NEW k \in 0 .. Chunk, Sent(k)
      PROVE  Silent' /\ error'
  BY <1>33, WentTo DEF Sent
<1>34. CASE SendFails
  BY <1>34, WentTo DEF SendFails
<1>35. CASE RecvFails
  BY <1>35, WentTo DEF RecvFails
<1>36. CASE Received
  BY <1>36, WentTo DEF Received
<1>37. ASSUME NEW end \in scenario.ends, PeerLeaves(end)
      PROVE  Silent' /\ error'
  BY <1>37, WentTo DEF PeerLeaves
<1>. QED
  BY <1>1, <1>2, <1>3, <1>4, <1>5, <1>6, <1>7, <1>8, <1>9, <1>10, <1>11, <1>12,
     <1>13, <1>14, <1>15, <1>16, <1>17, <1>18, <1>19, <1>20, <1>21, <1>22, <1>23,
     <1>24, <1>25, <1>26, <1>27, <1>28, <1>29, <1>30, <1>31, <1>32, <1>33, <1>34,
     <1>35, <1>36, <1>37 DEF Next, Making, Going, Handling, Business, Kernel

(* A connection without references, closed, stays so. *)
LEMMA DeadStep ==
  ASSUME TypeSets, TypeControl, ControlOK, EarlyOK, Dead, Next
  PROVE  Dead'
<1>1. ~ Unannounced'
  BY MakerStays DEF Dead
<1>2. CASE error
  <2>1. Silent' /\ error'
    BY <1>2, SilentStep DEF Dead, Silent
  <2>. QED
    BY <1>1, <2>1 DEF Dead, Silent
<1>3. CASE NeverBound
  <2>1. Sweep \/ \E end \in scenario.ends : PeerLeaves(end)
    BY <1>3, UnknownSteps DEF NeverBound, Making, Insert, Bind, BindFails, Announce
  <2>2. UNCHANGED <<pc, binded, events>>
    BY <2>1 DEF Sweep, PeerLeaves
  <2>3. NeverBound'
    BY <1>3, EarlyStep
  <2>. QED
    BY <1>1, <1>3, <2>2, <2>3 DEF Dead, Silent
<1>. QED
  BY <1>2, <1>3 DEF Dead

(* Who takes the binding away sets the error, and the error stays.         *)
ClosingFlow ==
  /\ bare => bare'
  /\ error => error'
  /\ \A u \in Thread : pc[u].at = "error" => pc'[u].at = "error" \/ error'
  /\ \A u \in Thread : pc'[u].at \in {"error", "closed"} =>
       \/ pc[u].at \in {"error", "closed"}
       \/ u \in App \cup {Maker} => bare'
  /\ binded /\ ~ binded' => \E u \in Thread : pc'[u].at = "error"

(* Every step follows that flow. *)
LEMMA ClosingSteps ==
  ASSUME TypeControl, Next
  PROVE  ClosingFlow
<1>. USE Threads DEF ClosingFlow
<1>1. CASE Insert
  <2>1. Go(Maker, "bind")
    BY <1>1 DEF Insert, After
  <2>. QED
    BY <1>1, <2>1, WentTo DEF Insert
<1>2. CASE Bind
  <2>1. Go(Maker, "notify")
    BY <1>2 DEF Bind, After
  <2>. QED
    BY <1>2, <2>1, WentTo DEF Bind
<1>3. CASE BindFails
  <2>1. Go(Maker, "idle")
    BY <1>3 DEF BindFails, After
  <2>. QED
    BY <1>3, <2>1, WentTo DEF BindFails
<1>4. CASE Announce
  <2>1. Go(Maker, "again")
    BY <1>4 DEF Announce, After
  <2>. QED
    BY <1>4, <2>1, WentTo DEF Announce
<1>5. ASSUME NEW t \in Caller, Close(t)
      PROVE  ClosingFlow
  <2>1. \/ Go(t, "idle")
        \/ Go(t, "close")
    BY <1>5 DEF Close, After
  <2>. QED
    BY <1>5, <2>1, WentTo DEF Close, Calls
<1>6. ASSUME NEW t \in Caller, NEW k \in 1 .. scenario.write, Fill(t, k)
      PROVE  ClosingFlow
  <2>1. \/ Go(t, "send")
        \/ Go(t, "idle")
    BY <1>6 DEF Fill, After
  <2>. QED
    BY <1>6, <2>1, WentTo DEF Fill, Calls
<1>7. ASSUME NEW t \in Thread, PostRecv(t)
      PROVE  ClosingFlow
  <2>1. \/ t \in Iocp /\ Go(t, "deref")
        \/ t \notin Iocp /\ Go(t, "idle")
    BY <1>7 DEF PostRecv, After
  <2>. QED
    BY <1>7, <2>1, WentTo DEF PostRecv
<1>8. ASSUME NEW t \in Thread, PostRecvFails(t)
      PROVE  ClosingFlow
  <2>1. \/ Go(t, "close")
        \/ t = Maker /\ Go(t, "idle")
    BY <1>8 DEF PostRecvFails, After
  <2>. QED
    BY <1>8, <2>1, WentTo DEF PostRecvFails
<1>9. ASSUME NEW t \in Thread, SendCheck(t)
      PROVE  ClosingFlow
  <2>1. \/ Go(t, "idle")
        \/ Go(t, "wait")
    BY <1>9 DEF SendCheck, After
  <2>. QED
    BY <1>9, <2>1, WentTo DEF SendCheck
<1>10. ASSUME NEW t \in Thread, Wait(t)
      PROVE  ClosingFlow
  <2>1. Go(t, "look")
    BY <1>10 DEF Wait, After
  <2>. QED
    BY <1>10, <2>1, WentTo DEF Wait
<1>11. ASSUME NEW t \in Thread, SendLook(t)
      PROVE  ClosingFlow
  <2>1. \/ Go(t, "idle")
        \/ Go(t, "size")
    BY <1>11 DEF SendLook, After
  <2>. QED
    BY <1>11, <2>1, WentTo DEF SendLook
<1>12. ASSUME NEW t \in Thread, SendSize(t)
      PROVE  ClosingFlow
  <2>1. /\ pc'[t].at = "copy" /\ pc[t].at = "size"
        /\ \A u \in Thread \ {t} : pc'[u] = pc[u]
    BY <1>12 DEF SendSize, TypeControl, Control
  <2>. QED
    BY <1>12, <2>1 DEF SendSize
<1>13. ASSUME NEW t \in Thread, Copy(t)
      PROVE  ClosingFlow
  <2>1. \/ Go(t, "close")
        \/ Go(t, "post")
    BY <1>13 DEF Copy, After
  <2>. QED
    BY <1>13, <2>1, WentTo DEF Copy
<1>14. ASSUME NEW t \in Thread, PostSend(t)
      PROVE  ClosingFlow
  <2>1. \/ Go(t, "close")
        \/ t \in Iocp /\ Go(t, "deref")
        \/ t \notin Iocp /\ Go(t, "idle")
    BY <1>14 DEF PostSend, After
  <2>. QED
    BY <1>14, <2>1, WentTo DEF PostSend
<1>15. ASSUME NEW t \in Thread, CloseUnbind(t)
      PROVE  ClosingFlow
  <2>1. CASE binded /\ Go(t, "error")
    <3>1. pc[t].at = "close" /\ pc'[t].at = "error" /\ \A u \in Thread \ {t} : pc'[u] = pc[u]
      BY <1>15, <2>1, WentTo DEF CloseUnbind
    <3>2. error' = error /\ bare' = (bare \/ t \in App \cup {Maker})
      BY <1>15, <2>1 DEF CloseUnbind, Unbinds
    <3>. QED
      BY <3>1, <3>2
  <2>2. CASE UNCHANGED <<binded, bare>> /\ Go(t, After(t))
    BY <1>15, <2>2, WentTo DEF CloseUnbind, After
  <2>. QED
    BY <1>15, <2>1, <2>2 DEF CloseUnbind, Unbinds
<1>16. ASSUME NEW t \in Thread, CloseError(t)
      PROVE  ClosingFlow
  BY <1>16, WentTo DEF CloseError, SetError
<1>17. ASSUME NEW t \in Thread, ClosePost(t)
      PROVE  ClosingFlow
  BY <1>17, WentTo DEF ClosePost
<1>18. ASSUME NEW i \in Iocp, Dequeue(i)
      PROVE  ClosingFlow
  <2>. DEFINE a == Handled(Head(done))
  <2>1. \/ pc' = pc
        \/ pc' = [pc EXCEPT ![i] = [at |-> a, n |-> Head(done).n]]
    BY <1>18 DEF Dequeue
  <2>2. a \in {"close", "sent", "recv"} /\ pc[i].at = "idle"
    BY <1>18 DEF Handled, Dequeue
  <2>3. pc' = pc \/ (pc'[i].at = a /\ \A u \in Thread \ {i} : pc'[u] = pc[u])
    BY <2>1 DEF TypeControl, Control
  <2>. QED
    BY <1>18, <2>2, <2>3 DEF Dequeue
<1>19. ASSUME NEW i \in Iocp, RecvFill(i)
      PROVE  ClosingFlow
  <2>1. \/ Go(i, "close")
        \/ Go(i, "mark")
    BY <1>19 DEF RecvFill, After
  <2>. QED
    BY <1>19, <2>1, WentTo DEF RecvFill
<1>20. ASSUME NEW i \in Iocp, RecvMark(i)
      PROVE  ClosingFlow
  <2>1. Go(i, "again")
    BY <1>20 DEF RecvMark, After
  <2>. QED
    BY <1>20, <2>1, WentTo DEF RecvMark
<1>21. ASSUME NEW i \in Iocp, SendDrop(i)
      PROVE  ClosingFlow
  <2>1. \/ Go(i, "close")
        \/ Go(i, "drop")
    BY <1>21 DEF SendDrop, After
  <2>. QED
    BY <1>21, <2>1, WentTo DEF SendDrop
<1>22. ASSUME NEW i \in Iocp, SendNext(i)
      PROVE  ClosingFlow
  <2>1. /\ pc'[i].at \in {"empty", "copy", "post", "close"} /\ pc[i].at = "drop"
        /\ \A u \in Thread \ {i} : pc'[u] = pc[u]
    BY <1>22, WentTo DEF SendNext, TypeControl, Control
  <2>. QED
    BY <1>22, <2>1 DEF SendNext
<1>23. ASSUME NEW i \in Iocp, SendEmpty(i)
      PROVE  ClosingFlow
  <2>1. Go(i, "eof")
    BY <1>23 DEF SendEmpty, After
  <2>. QED
    BY <1>23, <2>1, WentTo DEF SendEmpty
<1>24. ASSUME NEW i \in Iocp, SendEof(i)
      PROVE  ClosingFlow
  <2>1. \/ Go(i, "close")
        \/ Go(i, "deref")
    BY <1>24 DEF SendEof, After
  <2>. QED
    BY <1>24, <2>1, WentTo DEF SendEof
<1>25. ASSUME NEW i \in Iocp, Deref(i)
      PROVE  ClosingFlow
  <2>1. Go(i, "idle")
    BY <1>25 DEF Deref, After
  <2>. QED
    BY <1>25, <2>1, WentTo DEF Deref
<1>26. CASE Take
  BY <1>26, WentTo DEF Take
<1>27. CASE CallbackBegin
  BY <1>27, WentTo DEF CallbackBegin
<1>28. CASE CallbackEnd
  BY <1>28, WentTo DEF CallbackEnd
<1>29. CASE EventDone
  BY <1>29, WentTo DEF EventDone
<1>30. CASE Check
  BY <1>30, WentTo DEF Check
<1>31. CASE RemoveConnection
  BY <1>31, WentTo DEF RemoveConnection
<1>32. CASE Sweep
  BY <1>32, WentTo DEF Sweep
<1>33. ASSUME NEW k \in 0 .. Chunk, Sent(k)
      PROVE  ClosingFlow
  BY <1>33, WentTo DEF Sent
<1>34. CASE SendFails
  BY <1>34, WentTo DEF SendFails
<1>35. CASE RecvFails
  BY <1>35, WentTo DEF RecvFails
<1>36. CASE Received
  BY <1>36, WentTo DEF Received
<1>37. ASSUME NEW end \in scenario.ends, PeerLeaves(end)
      PROVE  ClosingFlow
  BY <1>37, WentTo DEF PeerLeaves
<1>. HIDE DEF ClosingFlow
<1>. QED
  BY <1>1, <1>2, <1>3, <1>4, <1>5, <1>6, <1>7, <1>8, <1>9, <1>10, <1>11, <1>12,
     <1>13, <1>14, <1>15, <1>16, <1>17, <1>18, <1>19, <1>20, <1>21, <1>22, <1>23,
     <1>24, <1>25, <1>26, <1>27, <1>28, <1>29, <1>30, <1>31, <1>32, <1>33, <1>34,
     <1>35, <1>36, <1>37 DEF Next, Making, Going, Handling, Business, Kernel

(* A step that is not one of making the connection does not announce it.    *)
LEMMA EarlyStays ==
  ASSUME TypeSets, EarlyOK, Next, ~ Making
  PROVE  Unannounced => Unannounced'
<1>1. Unannounced => Sweep \/ \E end \in scenario.ends : PeerLeaves(end)
  BY UnknownSteps DEF EarlyOK, Unannounced
<1>. QED
  BY <1>1 DEF Sweep, PeerLeaves, Unannounced

(* Who may remove the connection, and when. *)
RemovalFlow ==
  /\ biz' = "remove" => batch' = batch /\ (biz = "remove" \/ (biz = "check" /\ refs = 0))
  /\ biz = "idle" /\ events = << >> => biz' = "idle"
  /\ place' \in {"closed", "freed"} => place \in {"closed", "freed"} \/ RemoveConnection \/ BindFails

(* Every step follows that one. *)
LEMMA BizSteps ==
  ASSUME TypeSets, Next
  PROVE  RemovalFlow
<1>. USE DEF TypeSets, RemovalFlow
<1>1. CASE Insert
  BY <1>1 DEF Insert
<1>2. CASE Bind
  BY <1>2 DEF Bind
<1>3. CASE BindFails
  BY <1>3 DEF BindFails
<1>4. CASE Announce
  BY <1>4 DEF Announce, AppendEvent
<1>5. ASSUME NEW t \in Caller, Close(t)
      PROVE  RemovalFlow
  BY <1>5 DEF Close
<1>6. ASSUME NEW t \in Caller, NEW k \in 1 .. scenario.write, Fill(t, k)
      PROVE  RemovalFlow
  BY <1>6 DEF Fill
<1>7. ASSUME NEW t \in Thread, PostRecv(t)
      PROVE  RemovalFlow
  BY <1>7 DEF PostRecv
<1>8. ASSUME NEW t \in Thread, PostRecvFails(t)
      PROVE  RemovalFlow
  BY <1>8 DEF PostRecvFails
<1>9. ASSUME NEW t \in Thread, SendCheck(t)
      PROVE  RemovalFlow
  BY <1>9 DEF SendCheck
<1>10. ASSUME NEW t \in Thread, Wait(t)
      PROVE  RemovalFlow
  BY <1>10 DEF Wait
<1>11. ASSUME NEW t \in Thread, SendLook(t)
      PROVE  RemovalFlow
  BY <1>11 DEF SendLook
<1>12. ASSUME NEW t \in Thread, SendSize(t)
      PROVE  RemovalFlow
  BY <1>12 DEF SendSize
<1>13. ASSUME NEW t \in Thread, Copy(t)
      PROVE  RemovalFlow
  BY <1>13 DEF Copy
<1>14. ASSUME NEW t \in Thread, PostSend(t)
      PROVE  RemovalFlow
  BY <1>14 DEF PostSend
<1>15. ASSUME NEW t \in Thread, CloseUnbind(t)
      PROVE  RemovalFlow
  BY <1>15 DEF CloseUnbind
<1>16. ASSUME NEW t \in Thread, CloseError(t)
      PROVE  RemovalFlow
  BY <1>16 DEF CloseError, SetError
<1>17. ASSUME NEW t \in Thread, ClosePost(t)
      PROVE  RemovalFlow
  BY <1>17 DEF ClosePost, AppendEvent
<1>18. ASSUME NEW i \in Iocp, Dequeue(i)
      PROVE  RemovalFlow
  BY <1>18 DEF Dequeue
<1>19. ASSUME NEW i \in Iocp, RecvFill(i)
      PROVE  RemovalFlow
  BY <1>19 DEF RecvFill
<1>20. ASSUME NEW i \in Iocp, RecvMark(i)
      PROVE  RemovalFlow
  BY <1>20 DEF RecvMark, AppendEvent
<1>21. ASSUME NEW i \in Iocp, SendDrop(i)
      PROVE  RemovalFlow
  BY <1>21 DEF SendDrop
<1>22. ASSUME NEW i \in Iocp, SendNext(i)
      PROVE  RemovalFlow
  BY <1>22 DEF SendNext, Rest
<1>23. ASSUME NEW i \in Iocp, SendEmpty(i)
      PROVE  RemovalFlow
  BY <1>23 DEF SendEmpty, AppendEvent
<1>24. ASSUME NEW i \in Iocp, SendEof(i)
      PROVE  RemovalFlow
  BY <1>24 DEF SendEof
<1>25. ASSUME NEW i \in Iocp, Deref(i)
      PROVE  RemovalFlow
  BY <1>25 DEF Deref
<1>26. CASE Take
  BY <1>26 DEF Take
<1>27. CASE CallbackBegin
  BY <1>27 DEF CallbackBegin
<1>28. CASE CallbackEnd
  BY <1>28 DEF CallbackEnd
<1>29. CASE EventDone
  BY <1>29 DEF EventDone
<1>30. CASE Check
  BY <1>30 DEF Check, NextEvent
<1>31. CASE RemoveConnection
  BY <1>31 DEF RemoveConnection, NextEvent, RemovedTo
<1>32. CASE Sweep
  BY <1>32 DEF Sweep
<1>33. ASSUME NEW k \in 0 .. Chunk, Sent(k)
      PROVE  RemovalFlow
  BY <1>33 DEF Sent
<1>34. CASE SendFails
  BY <1>34 DEF SendFails
<1>35. CASE RecvFails
  BY <1>35 DEF RecvFails
<1>36. CASE Received
  BY <1>36 DEF Received
<1>37. ASSUME NEW end \in scenario.ends, PeerLeaves(end)
      PROVE  RemovalFlow
  BY <1>37 DEF PeerLeaves
<1>. HIDE DEF RemovalFlow
<1>. QED
  BY <1>1, <1>2, <1>3, <1>4, <1>5, <1>6, <1>7, <1>8, <1>9, <1>10, <1>11, <1>12,
     <1>13, <1>14, <1>15, <1>16, <1>17, <1>18, <1>19, <1>20, <1>21, <1>22, <1>23,
     <1>24, <1>25, <1>26, <1>27, <1>28, <1>29, <1>30, <1>31, <1>32, <1>33, <1>34,
     <1>35, <1>36, <1>37 DEF Next, Making, Going, Handling, Business, Kernel

(* Every step keeps a removed connection out of everybody's hands. *)
LEMMA RemovedStep ==
  ASSUME TypeSets, TypeControl, TypeLists, ControlOK, EarlyOK, CountOK, RemovedOK, Next
  PROVE  RemovedOK'
<1>. SUFFICES ASSUME ~ bare' PROVE RemovedOK'
  BY DEF RemovedOK
<1>1. ~ bare /\ WhoCloses /\ Closing
  BY ClosingSteps DEF ClosingFlow, RemovedOK
<1>2. WhoCloses'
  BY <1>1, ClosingSteps, Threads DEF ClosingFlow, WhoCloses
<1>3. Closing'
  <2>1. CASE Making
    <3>1. CASE Insert \/ Bind
      BY <3>1, WentTo, Threads DEF Insert, Bind, Closing, Unannounced
    <3>2. CASE BindFails
      <4>1. At(Maker)' = "idle" /\ \A t \in Thread \ {Maker} : pc'[t] = pc[t]
        BY <3>2, WentTo, Threads DEF BindFails
      <4>2. Unknown'
        BY <3>2, <4>1 DEF BindFails, EarlyOK, Unannounced, Unknown
      <4>. QED
        BY <4>1, <4>2 DEF Closing, NeverBound
    <3>3. CASE Announce
      BY <3>3 DEF Announce, EarlyOK, Unannounced, Closing
    <3>. QED
      BY <2>1, <3>1, <3>2, <3>3 DEF Making
  <2>2. CASE ~ Making
    <3>1. ASSUME ~ binded', ~ Unannounced'
          PROVE  error' \/ NeverBound' \/ \E t \in Thread : At(t)' = "error"
      <4>1. ~ Unannounced
        BY <2>2, <3>1, EarlyStays
      <4>2. CASE binded
        BY <3>1, <4>2, ClosingSteps DEF ClosingFlow
      <4>3. CASE ~ binded
        BY <1>1, <4>1, <4>3, ClosingSteps, EarlyStep DEF ClosingFlow, Closing
      <4>. QED
        BY <4>2, <4>3
    <3>. QED
      BY <3>1 DEF Closing
  <2>. QED
    BY <2>1, <2>2
<1>4. ASSUME biz = "check", refs = 0
      PROVE  Dead /\ Len(batch) = 1
  <2>1. ~ binded /\ events = << >> /\ Holders = {} /\ Len(batch) = 1
    BY <1>4, Counts DEF One
  <2>2. \A i \in Iocp : At(i) = "idle"
    BY <2>1 DEF Holders
  <2>3. At(Biz) = "idle" /\ ~ Unknown
    BY <1>4 DEF ControlOK, Unknown
  <2>4. \A t \in Thread : At(t) \notin {"error", "closed"}
    BY <1>1, <2>2, <2>3, Threads DEF WhoCloses
  <2>5. ~ Unannounced /\ ~ NeverBound
    BY <2>3 DEF EarlyOK, NeverBound
  <2>. QED
    BY <1>1, <2>1, <2>2, <2>4, <2>5 DEF Closing, Dead, Silent
<1>5. biz' = "remove" => Dead' /\ Len(batch)' = 1
  <2>. SUFFICES ASSUME biz' = "remove" PROVE Dead' /\ Len(batch)' = 1
    OBVIOUS
  <2>1. batch' = batch /\ (biz = "remove" \/ (biz = "check" /\ refs = 0))
    BY BizSteps DEF RemovalFlow
  <2>2. Dead /\ Len(batch) = 1
    BY <1>1, <1>4, <2>1 DEF RemovedOK
  <2>. QED
    BY <2>1, <2>2, DeadStep
<1>6. place' \in {"closed", "freed"} => Dead' /\ biz' = "idle"
  <2>. SUFFICES ASSUME place' \in {"closed", "freed"} PROVE Dead' /\ biz' = "idle"
    OBVIOUS
  <2>1. CASE place \in {"closed", "freed"}
    <3>1. Dead /\ biz = "idle" /\ events = << >>
      BY <1>1, <2>1 DEF RemovedOK, Dead, Silent
    <3>2. biz' = "idle"
      BY <3>1, BizSteps DEF RemovalFlow
    <3>. QED
      BY <3>1, <3>2, DeadStep
  <2>2. CASE RemoveConnection
    <3>1. Dead /\ Len(batch) = 1 /\ batch # << >> /\ NextEvent
      BY <1>1, <2>2 DEF RemovedOK, RemoveConnection, ControlOK
    <3>2. biz' = "idle"
      BY <3>1, NextOf
    <3>. QED
      BY <3>1, <3>2, DeadStep
  <2>3. CASE BindFails
    <3>1. At(Maker)' = "idle" /\ \A t \in Thread \ {Maker} : pc'[t] = pc[t]
      BY <2>3, WentTo, Threads DEF BindFails
    <3>2. Unknown' /\ ~ binded' /\ biz' = "idle"
      BY <2>3, <3>1 DEF BindFails, EarlyOK, Unannounced, Unknown
    <3>3. Silent'
      BY <3>1, <3>2, Threads DEF Silent, Unknown
    <3>. QED
      BY <3>1, <3>2, <3>3 DEF Dead, NeverBound, Unannounced
  <2>. QED
    BY <2>1, <2>2, <2>3, BizSteps DEF RemovalFlow
<1>. QED
  BY <1>2, <1>3, <1>5, <1>6 DEF RemovedOK

-----------------------------------------------------------------------------
(* A step that leaves m_async_send and its users alone. *)
LEMMA TurnKept ==
  ASSUME InTurn, UNCHANGED <<held, skip, len, dropped, wire, sends>>,
         Size > 0 => Size' > 0,
         \A j \in DOMAIN done' : Completion(j)' => /\ j \in DOMAIN done /\ Completion(j)
                                                   /\ done'[j] = done[j],
         \A t \in Thread : Uses(t)' => pc'[t] = pc[t]
  PROVE  InTurn'
<1>1. \A t \in Thread : Uses(t)' => Uses(t)
  BY DEF Uses
<1>2. OneUse'
  BY <1>1 DEF InTurn, OneUse
<1>3. Free' <=> Free
  BY DEF Free
<1>4. \A d : Loaded(d)' <=> Loaded(d)
  BY DEF Loaded
<1>5. ASSUME NEW t \in Thread PROVE UseOK(t)'
  <2>1. CASE Uses(t)'
    BY <1>3, <1>4, <2>1 DEF InTurn, UseOK
  <2>2. CASE ~ Uses(t)'
    BY <2>2 DEF UseOK, Uses
  <2>. QED
    BY <2>1, <2>2
<1>6. PortOK'
  BY <1>3, <1>4 DEF InTurn, PortOK
<1>. QED
  BY <1>2, <1>5, <1>6 DEF InTurn

(* The user of m_async_send is the only one. *)
LEMMA OnlyUser ==
  ASSUME InTurn, NEW t \in Thread, Uses(t)
  PROVE  /\ UseOK(t) /\ \A u \in Thread \ {t} : ~ Uses(u)
         /\ sends = << >> /\ \A j \in DOMAIN done : ~ Completion(j)
         /\ \A j \in DOMAIN wire : wire[j] = j
BY DEF InTurn, OneUse

(* After a step there is at most one, and the port has nothing.            *)
LEMMA LastUser ==
  ASSUME NEW t \in Thread, \A u \in Thread \ {t} : ~ Uses(u)', UseOK(t)',
         sends' = << >>, \A j \in DOMAIN done' : ~ Completion(j)',
         Free' => Len(wire') = dropped', \A j \in DOMAIN wire' : wire'[j] = j
  PROVE  InTurn'
<1>1. OneUse'
  BY DEF OneUse
<1>2. ASSUME NEW u \in Thread PROVE UseOK(u)'
  BY DEF UseOK, Uses
<1>3. PortOK'
  BY DEF PortOK
<1>. QED
  BY <1>1, <1>2, <1>3 DEF InTurn

(* A caller that finds m_async_send free while no other is past its wait is its user. *)
LEMMA WaitTurn ==
  ASSUME TypeControl, ControlOK, InTurn, NEW t \in Thread, Wait(t), ~ crowded'
  PROVE  InTurn'
<1>1. Free /\ \A u \in Caller \ {t} : ~ PastWait(u)
  BY DEF Wait
<1>2. pc'[t].at = "look" /\ \A u \in Thread \ {t} : pc'[u] = pc[u]
  BY WentTo DEF Wait
<1>3. UNCHANGED <<held, skip, len, dropped, wire, sends, done, stored>> /\ ~ (len > 0)
  BY <1>1 DEF Wait, Free
<1>4. \A u \in Thread \ {t} : ~ Uses(u)
  <2>. SUFFICES ASSUME NEW u \in Thread \ {t}, Uses(u) PROVE FALSE
    OBVIOUS
  <2>1. At(u) \in {"look", "size"}
    BY <1>3 DEF InTurn, UseOK, Loaded, Uses
  <2>2. u \in Caller
    BY <2>1, Threads DEF ControlOK, AtIocp, AtMaker, InIocp
  <2>. QED
    BY <1>1, <2>1, <2>2 DEF PastWait
<1>5. sends = << >> /\ \A j \in DOMAIN done : ~ Completion(j)
  BY <1>3 DEF InTurn, PortOK, Loaded
<1>6. Free => Len(wire) = dropped
  BY DEF InTurn, PortOK
<1>7. UseOK(t)'
  BY <1>1, <1>2, <1>3 DEF UseOK, Free
<1>8. \A u \in Thread \ {t} : ~ Uses(u)'
  BY <1>2, <1>4 DEF Uses
<1>9. \A j \in DOMAIN done' : ~ Completion(j)'
  BY <1>3, <1>5 DEF Completion
<1>10. \A j \in DOMAIN wire : wire[j] = j
  BY DEF InTurn
<1>. QED
  BY <1>3, <1>5, <1>6, <1>7, <1>8, <1>9, <1>10, LastUser DEF Free

(* The user sets the length ... *)
LEMMA SizeTurn ==
  ASSUME TypeSets, TypeCounts, TypeControl, InTurn, NEW t \in Thread, SendSize(t)
  PROVE  InTurn'
<1>1. pc[t].at = "size" /\ Uses(t)
  BY DEF SendSize, Uses
<1>2. Free /\ Size > 0 /\ Len(wire) = dropped
  BY <1>1, OnlyUser DEF UseOK, InTurn, PortOK
<1>3. /\ skip' = 0 /\ len' = Least(Chunk, Size) /\ UNCHANGED <<dropped, wire, sends, done>>
      /\ pc' = [pc EXCEPT ![t] = [at |-> "copy", n |-> Least(Chunk, Size)]]
  BY DEF SendSize
<1>4. len' > 0 /\ Least(Chunk, Size) \in Nat
  BY <1>2, <1>3, Sizes
<1>5. pc'[t].at = "copy" /\ pc'[t].n = len' /\ \A u \in Thread \ {t} : pc'[u] = pc[u]
  BY <1>3, <1>4 DEF TypeControl, Control
<1>6. UseOK(t)'
  BY <1>2, <1>3, <1>4, <1>5 DEF UseOK
<1>7. \A u \in Thread \ {t} : ~ Uses(u)'
  BY <1>1, <1>5, OnlyUser DEF Uses
<1>8. \A j \in DOMAIN done' : ~ Completion(j)'
  BY <1>1, <1>3, OnlyUser DEF Completion
<1>9. sends' = << >> /\ \A j \in DOMAIN wire' : wire'[j] = j
  BY <1>1, <1>3, OnlyUser
<1>. QED
  BY <1>2, <1>3, <1>6, <1>7, <1>8, <1>9, LastUser

(* ... and copies what comes next in m_send_buffer. *)
LEMMA CopyTurn ==
  ASSUME TypeSets, TypeCounts, TypeControl, InTurn, NEW t \in Thread, Copy(t), Go(t, "post"),
         held' = [j \in 1 .. Chunk |-> IF j <= pc[t].n THEN dropped + j ELSE held[j]]
  PROVE  InTurn'
<1>1. pc[t].at = "copy" /\ Uses(t)
  BY DEF Copy, Uses
<1>2. skip = 0 /\ len = pc[t].n /\ len > 0 /\ Len(wire) = dropped
  BY <1>1, OnlyUser DEF UseOK
<1>3. UNCHANGED <<skip, len, dropped, wire, sends, done>>
  BY DEF Copy
<1>4. pc'[t].at = "post" /\ \A u \in Thread \ {t} : pc'[u] = pc[u]
  BY WentTo
<1>5. \A j \in 1 .. len : held'[skip + j] = dropped + j
  <2>. SUFFICES ASSUME NEW j \in 1 .. len PROVE held'[skip + j] = dropped + j
    OBVIOUS
  <2>1. skip + j = j /\ j \in 1 .. Chunk /\ j <= pc[t].n
    BY <1>2, Sizes
  <2>. QED
    BY <2>1
<1>6. Loaded(dropped)'
  BY <1>2, <1>3, <1>5, Sizes DEF Loaded
<1>7. UseOK(t)'
  BY <1>2, <1>3, <1>4, <1>6 DEF UseOK
<1>8. \A u \in Thread \ {t} : ~ Uses(u)'
  BY <1>1, <1>4, OnlyUser DEF Uses
<1>9. \A j \in DOMAIN done' : ~ Completion(j)'
  BY <1>1, <1>3, OnlyUser DEF Completion
<1>10. sends' = << >> /\ \A j \in DOMAIN wire' : wire'[j] = j
  BY <1>1, <1>3, OnlyUser
<1>. QED
  BY <1>2, <1>3, <1>7, <1>8, <1>9, <1>10, LastUser

(* A user that has gone leaves what it posted to the port. *)
LEMMA PostTurn ==
  ASSUME TypeLists, TypeControl, InTurn, NEW t \in Thread, PostSend(t),
         sends' = Append(sends, [skip |-> skip, len |-> len]), Go(t, After(t))
  PROVE  InTurn'
<1>1. pc[t].at = "post" /\ Uses(t)
  BY DEF PostSend, Uses
<1>2. Loaded(dropped) /\ Len(wire) = dropped /\ sends = << >>
  BY <1>1, OnlyUser DEF UseOK
<1>3. UNCHANGED <<held, skip, len, dropped, wire, done>>
  BY DEF PostSend
<1>4. pc'[t].at \in {"deref", "idle"} /\ \A u \in Thread \ {t} : pc'[u] = pc[u]
  BY WentTo DEF After
<1>5. \A u \in Thread : ~ Uses(u)'
  BY <1>1, <1>4, OnlyUser DEF Uses
<1>6. \A j \in DOMAIN done' : ~ Completion(j)'
  BY <1>1, <1>3, OnlyUser DEF Completion
<1>. DEFINE s == [skip |-> skip, len |-> len]
<1>7. sends' # << >> /\ Head(sends') = s /\ Len(sends') = 1
  BY <1>2
<1>8. OneUse'
  BY <1>5, <1>6, <1>7 DEF OneUse
<1>9. \A u \in Thread : UseOK(u)'
  BY <1>5 DEF UseOK, Uses
<1>10. PortOK'
  <2>1. Loaded(dropped)'
    BY <1>2, <1>3 DEF Loaded
  <2>. QED
    BY <1>2, <1>3, <1>6, <1>7, <2>1 DEF PortOK
<1>. QED
  BY <1>1, <1>3, <1>8, <1>9, <1>10, OnlyUser DEF InTurn

(* While a send is under way it is the only one, and nobody uses the buffer. *)
LEMMA OnlySend ==
  ASSUME TypeSets, TypeCounts, TypeLists, InTurn, sends # << >>
  PROVE  /\ \A t \in Thread : ~ Uses(t)
         /\ \A j \in DOMAIN done : ~ Completion(j)
         /\ Tail(sends) = << >>
         /\ Head(sends) = [skip |-> skip, len |-> len] /\ Loaded(dropped) /\ Len(wire) = dropped
<1>1. /\ \A t \in Thread : ~ Uses(t)
      /\ \A j \in DOMAIN done : ~ Completion(j)
      /\ Len(sends) <= 1
  BY DEF InTurn, OneUse
<1>2. Head(sends) = [skip |-> skip, len |-> len] /\ Loaded(dropped) /\ Len(wire) = dropped
  BY DEF InTurn, PortOK
<1>3. sends \in Seq(Parcel)
  BY DEF TypeLists
<1>4. Len(sends) \in Nat /\ Len(sends) # 0
  BY <1>3, EmptySeq, LenProperties
<1>5. Len(sends) = 1
  <2>. DEFINE l == Len(sends)
  <2>1. l <= 1 /\ l \in Nat /\ l # 0
    BY <1>1, <1>4
  <2>. HIDE DEF l
  <2>2. l = 1
    BY <2>1
  <2>. QED
    BY <2>2 DEF l
<1>6. Tail(sends) \in Seq(Parcel) /\ Len(Tail(sends)) = 0
  BY <1>3, <1>5, HeadTailProperties
<1>7. Tail(sends) = << >>
  BY <1>6, EmptySeq
<1>. QED
  BY <1>1, <1>2, <1>7

(* The socket takes the first bytes of what was posted. *)
LEMMA SentTurn ==
  ASSUME TypeSets, TypeCounts, TypeLists, InTurn, NEW k \in 0 .. Chunk, Sent(k)
  PROVE  InTurn'
<1>. DEFINE s == Head(sends)
            w == [j \in 1 .. k |-> Byte(s.skip + j)]
            c == [kind |-> "send", n |-> k, good |-> TRUE]
<1>1. /\ sends # << >> /\ (k \in 1 .. s.len \/ k = s.len)
      /\ wire' = wire \o w /\ sends' = Tail(sends) /\ done' = Append(done, c)
      /\ UNCHANGED <<held, skip, len, dropped, pc>>
  BY DEF Sent
<1>2. /\ s = [skip |-> skip, len |-> len] /\ Loaded(dropped) /\ Len(wire) = dropped
      /\ sends' = << >> /\ \A t \in Thread : ~ Uses(t)
      /\ \A j \in DOMAIN done : ~ Completion(j)
  BY <1>1, OnlySend
<1>3. s.skip = skip /\ s.len = len /\ k \in 1 .. len
  <2>1. s.skip = skip /\ s.len = len
    BY <1>2
  <2>2. len \in Nat /\ len > 0
    BY <1>2, Sizes DEF Loaded
  <2>. HIDE DEF s
  <2>. QED
    BY <1>1, <2>1, <2>2
<1>4. \A j \in 1 .. k : w[j] = dropped + j
  <2>. SUFFICES ASSUME NEW j \in 1 .. k PROVE Byte(skip + j) = dropped + j
    BY <1>3
  <2>0. len \in Nat /\ skip \in Nat /\ Chunk \in Nat
    BY Sizes
  <2>1. j \in 1 .. len
    BY <1>3, <2>0
  <2>2. skip + len <= Chunk /\ \A i \in 1 .. len : held[skip + i] = dropped + i
    BY <1>2 DEF Loaded
  <2>3. skip + j \in 1 .. Chunk
    BY <2>0, <2>1, <2>2
  <2>4. DOMAIN held = 1 .. Chunk
    BY DEF TypeCounts
  <2>. QED
    BY <2>1, <2>2, <2>3, <2>4 DEF Byte
<1>5. wire \in Seq(Nat) /\ w \in Seq(Nat) /\ Len(w) = k /\ dropped \in Nat
  <2>1. dropped \in Nat /\ scenario.write \in Nat
    BY Sizes
  <2>2. \A j \in 1 .. k : w[j] \in Nat
    BY <1>4, <2>1
  <2>3. w \in Seq(Nat) /\ Len(w) = k
    BY <2>2
  <2>4. wire \in Seq(Nat)
    BY <2>1 DEF TypeLists, Bytes
  <2>. QED
    BY <2>1, <2>3, <2>4
<1>6. Len(wire') = dropped + k /\ \A j \in DOMAIN wire' : wire'[j] = j
  <2>. HIDE DEF w
  <2>0. /\ wire' \in Seq(Nat) /\ Len(wire') = Len(wire) + Len(w)
        /\ \A j \in 1 .. (Len(wire) + Len(w)) :
             wire'[j] = IF j <= Len(wire) THEN wire[j] ELSE w[j - Len(wire)]
    <3>1. wire' = wire \o w
      BY <1>1
    <3>2. /\ wire \o w \in Seq(Nat) /\ Len(wire \o w) = Len(wire) + Len(w)
          /\ \A j \in 1 .. (Len(wire) + Len(w)) :
               (wire \o w)[j] = IF j <= Len(wire) THEN wire[j] ELSE w[j - Len(wire)]
      BY <1>5, ConcatProperties, Zenon
    <3>. QED
      BY <3>1, <3>2, Zenon
  <2>1. /\ Len(wire') = dropped + k
        /\ \A j \in 1 .. (dropped + k) :
             wire'[j] = IF j <= dropped THEN wire[j] ELSE w[j - dropped]
    BY <1>2, <1>5, <2>0
  <2>2. \A j \in 1 .. dropped : wire[j] = j
    BY <1>2, <1>5, LenProperties DEF InTurn
  <2>3. \A j \in 1 .. (dropped + k) : wire'[j] = j
    <3>1. ASSUME NEW j \in 1 .. (dropped + k), ~ (j <= dropped)
          PROVE  w[j - dropped] = j
      <4>. DEFINE i == j - dropped
      <4>1. i \in 1 .. k /\ dropped + i = j
        BY <1>3, <1>5, <3>1
      <4>. QED
        BY <1>4, <4>1
    <3>2. ASSUME NEW j \in 1 .. (dropped + k), j <= dropped
          PROVE  j \in 1 .. dropped
      BY <1>5, <3>2
    <3>. QED
      BY <2>1, <2>2, <3>1, <3>2
  <2>4. DOMAIN wire' = 1 .. (dropped + k)
    BY <2>0, <2>1
  <2>. QED
    BY <2>1, <2>3, <2>4
<1>7. \A t \in Thread : ~ Uses(t)'
  BY <1>1, <1>2 DEF Uses
<1>8. /\ \A j \in DOMAIN done' : Completion(j)' => j = Len(done) + 1 /\ done'[j].n = k
  <2>1. done \in Seq(Ended) /\ c \in Ended
    BY <1>3, Sizes DEF TypeLists, Ended
  <2>2. /\ DOMAIN done' = 1 .. (Len(done) + 1) /\ DOMAIN done = 1 .. Len(done)
        /\ \A j \in 1 .. Len(done) : done'[j] = done[j]
        /\ done'[Len(done) + 1] = c /\ Len(done) \in Nat
    BY <1>1, <2>1, AppendProperties
  <2>. QED
    BY <1>2, <2>2 DEF Completion
<1>9. OneUse'
  BY <1>2, <1>7, <1>8 DEF OneUse
<1>10. PortOK'
  <2>1. Loaded(dropped)' /\ ~ Free'
    BY <1>1, <1>2 DEF Loaded, Free
  <2>. QED
    BY <1>1, <1>2, <1>3, <1>6, <1>8, <2>1 DEF PortOK
<1>11. \A t \in Thread : UseOK(t)'
  BY <1>7 DEF UseOK, Uses
<1>. QED
  BY <1>6, <1>9, <1>10, <1>11 DEF InTurn

(* A send that failed leaves nobody to use the buffer. *)
LEMMA SendFailsTurn ==
  ASSUME TypeSets, TypeCounts, TypeLists, InTurn, SendFails
  PROVE  InTurn'
<1>. DEFINE c == [kind |-> "send", n |-> 0, good |-> FALSE]
<1>1. /\ sends # << >> /\ sends' = Tail(sends) /\ done' = Append(done, c)
      /\ UNCHANGED <<held, skip, len, dropped, wire, pc>>
  BY DEF SendFails
<1>2. /\ sends' = << >> /\ (\A t \in Thread : ~ Uses(t))
      /\ \A j \in DOMAIN done : ~ Completion(j)
  BY <1>1, OnlySend
<1>3. \A t \in Thread : ~ Uses(t)'
  BY <1>1, <1>2 DEF Uses
<1>4. \A j \in DOMAIN done' : ~ Completion(j)'
  <2>1. done \in Seq(Ended) /\ c \in Ended
    BY DEF TypeLists, Ended
  <2>2. /\ DOMAIN done' = 1 .. (Len(done) + 1) /\ DOMAIN done = 1 .. Len(done)
        /\ \A j \in 1 .. Len(done) : done'[j] = done[j]
        /\ done'[Len(done) + 1] = c /\ Len(done) \in Nat
    BY <1>1, <2>1, AppendProperties
  <2>. QED
    BY <1>2, <2>2 DEF Completion
<1>5. UseOK(Maker)'
  BY <1>3, Threads DEF UseOK, Uses
<1>6. Free' => Len(wire') = dropped'
  BY <1>1 DEF InTurn, PortOK, Free
<1>7. \A j \in DOMAIN wire' : wire'[j] = j
  BY <1>1 DEF InTurn
<1>. QED
  BY <1>2, <1>3, <1>4, <1>5, <1>6, <1>7, LastUser, Threads

(* The completion of a send makes its thread the user; any other leaves    *)
(* the buffer alone.                                                       *)
LEMMA DequeueTurn ==
  ASSUME TypeSets, TypeCounts, TypeLists, TypeControl, InTurn, NEW i \in Iocp, Dequeue(i)
  PROVE  InTurn'
<1>. DEFINE c == Head(done)
<1>1. /\ done # << >> /\ done' = Tail(done) /\ At(i) = "idle"
      /\ UNCHANGED <<held, skip, len, stored, dropped, wire, sends>>
      /\ \/ /\ place = "normal"
            /\ pc' = [pc EXCEPT ![i] = [at |-> Handled(c), n |-> c.n]]
         \/ pc' = pc
  BY DEF Dequeue
<1>2. /\ done \in Seq(Ended) /\ c \in Ended /\ c = done[1] /\ 1 \in DOMAIN done
      /\ \A j \in DOMAIN done' : j \in Nat /\ j >= 1 /\ j + 1 \in DOMAIN done
                                   /\ done'[j] = done[j + 1]
  <2>1. done \in Seq(Ended)
    BY DEF TypeLists
  <2>2. Len(done) \in Nat /\ Len(done) # 0 /\ DOMAIN done = 1 .. Len(done)
    BY <1>1, <2>1, EmptySeq, LenProperties
  <2>3. /\ Len(done') = Len(done) - 1 /\ done' \in Seq(Ended) /\ c \in Ended /\ c = done[1]
        /\ \A j \in 1 .. Len(done') : done'[j] = done[j + 1]
    BY <1>1, <2>1, HeadTailProperties
  <2>4. DOMAIN done' = 1 .. Len(done')
    BY <2>3, LenProperties
  <2>. QED
    BY <2>1, <2>2, <2>3, <2>4
<1>3. \A j \in DOMAIN done' : Completion(j)' <=> Completion(j + 1)
  BY <1>2 DEF Completion
<1>4. /\ c.n \in Nat
      /\ Handled(c) \in {"close", "sent", "recv"}
      /\ Handled(c) = "sent" => c.kind = "send" /\ c.good /\ c.n > 0
  <2>1. c.n \in Nat
    BY <1>2 DEF Ended
  <2>. QED
    BY <2>1 DEF Handled, Ended
<1>5. CASE Handled(c) = "sent" /\ pc' = [pc EXCEPT ![i] = [at |-> Handled(c), n |-> c.n]]
  <2>1. Completion(1)
    BY <1>2, <1>4, <1>5 DEF Completion
  <2>2. /\ Loaded(dropped) /\ c.n \in 1 .. len /\ Len(wire) = dropped + c.n
        /\ \A t \in Thread : ~ Uses(t)
        /\ sends = << >>
    BY <1>2, <2>1 DEF InTurn, OneUse, PortOK
  <2>3. pc'[i].at = "sent" /\ pc'[i].n = c.n /\ \A t \in Thread \ {i} : pc'[t] = pc[t]
    BY <1>5, Threads DEF TypeControl, Control
  <2>4. \A j \in DOMAIN done' : ~ Completion(j)'
    <3>. SUFFICES ASSUME NEW j \in DOMAIN done', Completion(j)' PROVE FALSE
      OBVIOUS
    <3>1. Completion(j + 1) /\ j + 1 \in DOMAIN done /\ j + 1 # 1
      BY <1>2, <1>3
    <3>. QED
      BY <1>2, <2>1, <3>1 DEF InTurn, OneUse
  <2>5. Loaded(dropped)' /\ ~ Free'
    BY <1>1, <2>2 DEF Loaded, Free
  <2>6. UseOK(i)'
    BY <1>1, <2>2, <2>3, <2>5 DEF UseOK
  <2>7. \A t \in Thread \ {i} : ~ Uses(t)'
    BY <2>2, <2>3 DEF Uses
  <2>8. sends' = << >> /\ \A j \in DOMAIN wire' : wire'[j] = j
    BY <1>1, <2>2 DEF InTurn
  <2>. QED
    BY <2>4, <2>5, <2>6, <2>7, <2>8, LastUser, Threads
<1>6. CASE \/ pc' = pc
           \/ /\ Handled(c) \in {"close", "recv"}
              /\ pc' = [pc EXCEPT ![i] = [at |-> Handled(c), n |-> c.n]]
  <2>1. \A t \in Thread : Uses(t)' => Uses(t) /\ pc'[t] = pc[t]
    BY <1>6, Threads DEF TypeControl, Control, Uses
  <2>2. OneUse'
    <3>1. \A t, u \in Thread : Uses(t)' /\ Uses(u)' => t = u
      BY <2>1 DEF InTurn, OneUse
    <3>2. \A j, k \in DOMAIN done' : Completion(j)' /\ Completion(k)' => j = k
      <4>. SUFFICES ASSUME NEW j \in DOMAIN done', NEW k \in DOMAIN done',
                           Completion(j)', Completion(k)'
                    PROVE  j = k
        OBVIOUS
      <4>1. j + 1 = k + 1
        BY <1>2, <1>3 DEF InTurn, OneUse
      <4>. QED
        BY <1>2, <4>1
    <3>3. /\ Len(sends') <= 1
          /\ \A t \in Thread : Uses(t)' =>
               sends' = << >> /\ \A j \in DOMAIN done' : ~ Completion(j)'
          /\ sends' # << >> => \A j \in DOMAIN done' : ~ Completion(j)'
      BY <1>1, <1>2, <1>3, <2>1 DEF InTurn, OneUse
    <3>. QED
      BY <3>1, <3>2, <3>3 DEF OneUse
  <2>3. Free' <=> Free
    BY <1>1 DEF Free
  <2>4. \A d : Loaded(d)' <=> Loaded(d)
    BY <1>1 DEF Loaded
  <2>5. \A t \in Thread : UseOK(t)'
    <3>. SUFFICES ASSUME NEW t \in Thread PROVE UseOK(t)'
      OBVIOUS
    <3>1. CASE Uses(t)'
      BY <1>1, <2>1, <2>3, <2>4, <3>1 DEF InTurn, UseOK, Size
    <3>2. CASE ~ Uses(t)'
      BY <3>2 DEF UseOK, Uses
    <3>. QED
      BY <3>1, <3>2
  <2>6. PortOK'
    <3>1. \A j \in DOMAIN done' : Completion(j)' =>
            Loaded(dropped)' /\ done'[j].n \in 1 .. len' /\ Len(wire') = dropped' + done'[j].n
      BY <1>1, <1>2, <1>3, <2>4 DEF InTurn, PortOK
    <3>. QED
      BY <1>1, <2>3, <2>4, <3>1 DEF InTurn, PortOK
  <2>. QED
    BY <1>1, <2>2, <2>5, <2>6 DEF InTurn
<1>. QED
  BY <1>1, <1>4, <1>5, <1>6

(* The user finds that there is something to send. *)
LEMMA LookTurn ==
  ASSUME TypeSets, TypeCounts, TypeControl, InTurn, NEW t \in Thread, SendLook(t), Go(t, "size"),
         Size # 0
  PROVE  InTurn'
<1>1. pc[t].at = "look" /\ Uses(t)
  BY DEF SendLook, Uses
<1>2. Free /\ Len(wire) = dropped /\ Size > 0
  BY <1>1, OnlyUser, Sizes DEF UseOK, InTurn, PortOK
<1>3. UNCHANGED <<held, skip, len, stored, dropped, wire, sends, done>>
  BY DEF SendLook
<1>4. pc'[t].at = "size" /\ \A u \in Thread \ {t} : pc'[u] = pc[u]
  BY WentTo
<1>5. UseOK(t)'
  BY <1>2, <1>3, <1>4 DEF UseOK, Free, Size
<1>6. \A u \in Thread \ {t} : ~ Uses(u)'
  BY <1>1, <1>4, OnlyUser DEF Uses
<1>7. \A j \in DOMAIN done' : ~ Completion(j)'
  BY <1>1, <1>3, OnlyUser DEF Completion
<1>8. sends' = << >> /\ \A j \in DOMAIN wire' : wire'[j] = j
  BY <1>1, <1>3, OnlyUser
<1>. QED
  BY <1>2, <1>3, <1>5, <1>6, <1>7, <1>8, LastUser

(* The bytes the socket took leave m_send_buffer ... *)
LEMMA DropTurn ==
  ASSUME TypeSets, TypeCounts, TypeControl, InTurn, NEW i \in Iocp, SendDrop(i), Go(i, "drop"),
         dropped' = dropped + pc[i].n
  PROVE  InTurn'
<1>1. pc[i].at = "sent" /\ Uses(i) /\ i \in Thread
  BY Threads DEF SendDrop, Uses
<1>. DEFINE n == pc[i].n
<1>2. Loaded(dropped) /\ n \in 1 .. len /\ Len(wire) = dropped + n
  BY <1>1, OnlyUser DEF UseOK
<1>3. UNCHANGED <<held, skip, len, wire, sends, done>>
  BY DEF SendDrop
<1>4. pc'[i].at = "drop" /\ pc'[i].n = n /\ \A u \in Thread \ {i} : pc'[u] = pc[u]
  BY <1>1, WentTo
<1>5. dropped' - n = dropped /\ len > 0
  <2>1. dropped \in Nat /\ len \in Nat /\ n \in Nat
    BY <1>2, Sizes
  <2>2. dropped' = dropped + n
    OBVIOUS
  <2>. HIDE DEF n
  <2>. QED
    BY <1>2, <2>1, <2>2
<1>6. Loaded(dropped - n)'
  BY <1>2, <1>3, <1>4, <1>5 DEF Loaded
<1>7. UseOK(i)'
  BY <1>2, <1>3, <1>4, <1>6 DEF UseOK
<1>8. \A u \in Thread \ {i} : ~ Uses(u)'
  BY <1>1, <1>4, OnlyUser DEF Uses
<1>9. \A j \in DOMAIN done' : ~ Completion(j)'
  BY <1>1, <1>3, OnlyUser DEF Completion
<1>10. sends' = << >> /\ \A j \in DOMAIN wire' : wire'[j] = j
  BY <1>1, <1>3, OnlyUser
<1>. QED
  BY <1>1, <1>2, <1>3, <1>5, <1>7, <1>8, <1>9, <1>10, LastUser DEF Free

(* ... and the user goes on with the rest, with the next chunk, or not at all. *)
LEMMA NextTurn ==
  ASSUME TypeSets, TypeCounts, TypeControl, InTurn, NEW i \in Iocp, SendNext(i)
  PROVE  InTurn'
<1>1. pc[i].at = "drop" /\ Uses(i) /\ i \in Thread
  BY Threads DEF SendNext, Uses
<1>. DEFINE n == pc[i].n
            more == Least(Chunk, Size)
<1>2. Loaded(dropped - n) /\ n \in 1 .. len /\ Len(wire) = dropped
  BY <1>1, OnlyUser DEF UseOK
<1>3. UNCHANGED <<dropped, wire, sends, done>>
  BY DEF SendNext
<1>4. /\ pc'[i].at \in {"empty", "copy", "post", "close"}
      /\ \A u \in Thread \ {i} : pc'[u] = pc[u]
  BY <1>1, WentTo DEF SendNext, TypeControl, Control
<1>5. UseOK(i)' /\ (Free' => Len(wire') = dropped')
  <2>1. CASE /\ skip' = 0 /\ len' = more
             /\ pc' = [pc EXCEPT ![i] = [at |-> IF more = 0 THEN "empty" ELSE "copy", n |-> more]]
    <3>1. more \in Nat /\ pc'[i].n = more /\ pc'[i].at = IF more = 0 THEN "empty" ELSE "copy"
      BY <1>1, <2>1, Sizes DEF TypeControl, Control
    <3>. QED
      BY <1>2, <1>3, <2>1, <3>1 DEF UseOK
  <2>2. CASE n < len /\ Rest(n) /\ Go(i, "post")
    <3>1. skip' = skip + n /\ len' = len - n /\ held' = held
      BY <2>2 DEF Rest
    <3>2. \A j \in 1 .. len' : held'[skip' + j] = dropped' + j
      <4>. SUFFICES ASSUME NEW j \in 1 .. len' PROVE held[skip + n + j] = dropped + j
        BY <1>3, <3>1
      <4>1. /\ n + j \in 1 .. len /\ skip + (n + j) = skip + n + j
            /\ (dropped - n) + (n + j) = dropped + j
        <5>1. n \in Nat /\ n >= 1 /\ len \in Nat /\ dropped \in Nat /\ skip \in Nat
          BY <1>2, Sizes
        <5>2. j \in 1 .. (len - n)
          BY <3>1
        <5>. HIDE DEF n
        <5>. QED
          BY <5>1, <5>2
      <4>2. held[skip + (n + j)] = (dropped - n) + (n + j)
        BY <1>2, <4>1 DEF Loaded
      <4>. QED
        BY <4>1, <4>2
    <3>3. len' > 0 /\ skip' + len' <= Chunk
      <4>1. n \in Nat /\ len \in Nat /\ skip \in Nat /\ Chunk \in Nat
        BY <1>2, Sizes
      <4>2. skip + len <= Chunk /\ n < len
        BY <1>2, <2>2 DEF Loaded
      <4>. HIDE DEF n
      <4>. QED
        BY <3>1, <4>1, <4>2
    <3>4. pc'[i].at = "post"
      BY <1>1, <2>2, WentTo
    <3>5. Loaded(dropped)'
      BY <3>2, <3>3 DEF Loaded
    <3>. QED
      BY <1>2, <1>3, <3>4, <3>5 DEF UseOK
  <2>3. ~ (n > len)
    BY <1>2, Sizes
  <2>. QED
    BY <2>1, <2>2, <2>3 DEF SendNext
<1>6. \A u \in Thread \ {i} : ~ Uses(u)'
  BY <1>1, <1>4, OnlyUser DEF Uses
<1>7. \A j \in DOMAIN done' : ~ Completion(j)'
  BY <1>1, <1>3, OnlyUser DEF Completion
<1>8. sends' = << >> /\ \A j \in DOMAIN wire' : wire'[j] = j
  BY <1>1, <1>3, OnlyUser
<1>. QED
  BY <1>1, <1>5, <1>6, <1>7, <1>8, LastUser

(* A thread that goes where it does not use m_async_send, and a step in    *)
(* which no thread moves.                                                  *)
LEMMA LeavesOrder ==
  ASSUME TypeControl, OrderOK, NEW t \in Thread, NEW a, Go(t, a),
         a \notin {"look", "size", "copy", "post", "sent", "drop"},
         UNCHANGED <<held, skip, len, dropped, wire, sends, done, crowded>>,
         Size > 0 => Size' > 0
  PROVE  OrderOK'
<1>. SUFFICES ASSUME InTurn PROVE InTurn'
  BY DEF OrderOK
<1>1. \A u \in Thread : Uses(u)' => pc'[u] = pc[u]
  BY WentTo DEF Uses
<1>2. \A j \in DOMAIN done : Completion(j)' <=> Completion(j)
  BY DEF Completion
<1>. QED
  BY <1>1, <1>2, TurnKept

LEMMA StaysOrder ==
  ASSUME OrderOK,
         UNCHANGED <<held, skip, len, stored, dropped, wire, sends, done, pc, crowded>>
  PROVE  OrderOK'
<1>. SUFFICES ASSUME InTurn PROVE InTurn'
  BY DEF OrderOK
<1>1. \A j \in DOMAIN done : Completion(j)' <=> Completion(j)
  BY DEF Completion
<1>2. Size' = Size
  BY DEF Size
<1>. QED
  BY <1>1, <1>2, TurnKept

(* A completion of a receive, or of a send that failed. *)
LEMMA EndedOrder ==
  ASSUME TypeLists, OrderOK, NEW c \in Ended, done' = Append(done, c), c.kind = "recv",
         UNCHANGED <<held, skip, len, stored, dropped, wire, sends, pc, crowded>>
  PROVE  OrderOK'
<1>. SUFFICES ASSUME InTurn PROVE InTurn'
  BY DEF OrderOK
<1>1. done \in Seq(Ended)
  BY DEF TypeLists
<1>2. /\ DOMAIN done' = 1 .. (Len(done) + 1) /\ DOMAIN done = 1 .. Len(done)
      /\ \A j \in 1 .. Len(done) : done'[j] = done[j]
      /\ done'[Len(done) + 1] = c /\ Len(done) \in Nat
  BY <1>1, AppendProperties
<1>3. \A j \in DOMAIN done' : Completion(j)' => /\ j \in DOMAIN done /\ Completion(j)
                                                /\ done'[j] = done[j]
  BY <1>2 DEF Completion
<1>4. Size' = Size
  BY DEF Size
<1>. QED
  BY <1>3, <1>4, TurnKept

(* Every step keeps m_async_send in turn. *)
LEMMA OrderStep ==
  ASSUME TypeSets, TypeCounts, TypeLists, TypeControl, ControlOK, OrderOK, Next
  PROVE  OrderOK'
<1>. USE Threads
<1>1. CASE Insert
  <2>1. Go(Maker, "bind")
    BY <1>1 DEF Insert, After
  <2>. QED
    BY <1>1, <2>1, LeavesOrder DEF Insert, Size
<1>2. CASE Bind
  <2>1. Go(Maker, "notify")
    BY <1>2 DEF Bind, After
  <2>. QED
    BY <1>2, <2>1, LeavesOrder DEF Bind, Size
<1>3. CASE BindFails
  <2>1. Go(Maker, "idle")
    BY <1>3 DEF BindFails, After
  <2>. QED
    BY <1>3, <2>1, LeavesOrder DEF BindFails, Size
<1>4. CASE Announce
  <2>1. Go(Maker, "again")
    BY <1>4 DEF Announce, After
  <2>. QED
    BY <1>4, <2>1, LeavesOrder DEF Announce, Size
<1>5. ASSUME NEW t \in Caller, Close(t)
      PROVE  OrderOK'
  <2>1. \/ Go(t, "idle")
        \/ Go(t, "close")
    BY <1>5 DEF Close, After
  <2>. QED
    BY <1>5, <2>1, LeavesOrder DEF Close, Size
<1>6. ASSUME NEW t \in Caller, NEW k \in 1 .. scenario.write, Fill(t, k)
      PROVE  OrderOK'
  <2>1. Go(t, "send") \/ Go(t, "idle")
    BY <1>6 DEF Fill
  <2>2. Size' > 0
    BY <1>6, Sizes, ScenarioType DEF Fill, Size, TypeSets
  <2>. QED
    BY <1>6, <2>1, <2>2, LeavesOrder DEF Fill
<1>7. ASSUME NEW t \in Thread, PostRecv(t)
      PROVE  OrderOK'
  <2>1. \/ t \in Iocp /\ Go(t, "deref")
        \/ t \notin Iocp /\ Go(t, "idle")
    BY <1>7 DEF PostRecv, After
  <2>. QED
    BY <1>7, <2>1, LeavesOrder DEF PostRecv, Size
<1>8. ASSUME NEW t \in Thread, PostRecvFails(t)
      PROVE  OrderOK'
  <2>1. \/ Go(t, "close")
        \/ t = Maker /\ Go(t, "idle")
    BY <1>8 DEF PostRecvFails, After
  <2>. QED
    BY <1>8, <2>1, LeavesOrder DEF PostRecvFails, Size
<1>9. ASSUME NEW t \in Thread, SendCheck(t)
      PROVE  OrderOK'
  <2>1. \/ Go(t, "idle")
        \/ Go(t, "wait")
    BY <1>9 DEF SendCheck, After
  <2>. QED
    BY <1>9, <2>1, LeavesOrder DEF SendCheck, Size
<1>10. ASSUME NEW t \in Thread, Wait(t)
      PROVE  OrderOK'
  <2>. SUFFICES ASSUME ~ crowded' PROVE InTurn'
    BY DEF OrderOK
  <2>1. InTurn
    BY <1>10 DEF Wait, OrderOK
  <2>. QED
    BY <1>10, <2>1, WaitTurn
<1>11. ASSUME NEW t \in Thread, SendLook(t)
      PROVE  OrderOK'
  <2>1. CASE Size # 0 /\ Go(t, "size")
    <3>. SUFFICES ASSUME ~ crowded' PROVE InTurn'
      BY DEF OrderOK
    <3>1. InTurn
      BY <1>11 DEF SendLook, OrderOK
    <3>. QED
      BY <1>11, <2>1, <3>1, LookTurn
  <2>2. CASE Go(t, "idle")
    BY <1>11, <2>2, LeavesOrder DEF SendLook, Size
  <2>. QED
    BY <1>11, <2>1, <2>2 DEF SendLook, After
<1>12. ASSUME NEW t \in Thread, SendSize(t)
      PROVE  OrderOK'
  <2>. SUFFICES ASSUME ~ crowded' PROVE InTurn'
    BY DEF OrderOK
  <2>1. InTurn
    BY <1>12 DEF SendSize, OrderOK
  <2>. QED
    BY <1>12, <2>1, SizeTurn
<1>13. ASSUME NEW t \in Thread, Copy(t)
      PROVE  OrderOK'
  <2>1. CASE /\ Go(t, "post")
             /\ held' = [j \in 1 .. Chunk |-> IF j <= pc[t].n THEN dropped + j ELSE held[j]]
    <3>. SUFFICES ASSUME ~ crowded' PROVE InTurn'
      BY DEF OrderOK
    <3>1. InTurn
      BY <1>13 DEF Copy, OrderOK
    <3>. QED
      BY <1>13, <2>1, <3>1, CopyTurn
  <2>2. CASE Go(t, "close") /\ UNCHANGED held
    BY <1>13, <2>2, LeavesOrder DEF Copy, Size
  <2>. QED
    BY <1>13, <2>1, <2>2 DEF Copy, After
<1>14. ASSUME NEW t \in Thread, PostSend(t)
      PROVE  OrderOK'
  <2>1. CASE /\ Go(t, After(t))
             /\ sends' = Append(sends, [skip |-> skip, len |-> len])
    <3>. SUFFICES ASSUME ~ crowded' PROVE InTurn'
      BY DEF OrderOK
    <3>1. InTurn
      BY <1>14 DEF PostSend, OrderOK
    <3>. QED
      BY <1>14, <2>1, <3>1, PostTurn
  <2>2. CASE Go(t, "close") /\ UNCHANGED sends
    BY <1>14, <2>2, LeavesOrder DEF PostSend, Size
  <2>. QED
    BY <1>14, <2>1, <2>2 DEF PostSend, After
<1>15. ASSUME NEW t \in Thread, CloseUnbind(t)
      PROVE  OrderOK'
  <2>1. \/ Go(t, "error")
        \/ t \in Iocp /\ Go(t, "deref")
        \/ t \notin Iocp /\ Go(t, "idle")
    BY <1>15 DEF CloseUnbind, After
  <2>. QED
    BY <1>15, <2>1, LeavesOrder DEF CloseUnbind, Size
<1>16. ASSUME NEW t \in Thread, CloseError(t)
      PROVE  OrderOK'
  <2>1. Go(t, "closed")
    BY <1>16 DEF CloseError, After
  <2>. QED
    BY <1>16, <2>1, LeavesOrder DEF CloseError, Size
<1>17. ASSUME NEW t \in Thread, ClosePost(t)
      PROVE  OrderOK'
  <2>1. \/ t \in Iocp /\ Go(t, "deref")
        \/ t \notin Iocp /\ Go(t, "idle")
    BY <1>17 DEF ClosePost, After
  <2>. QED
    BY <1>17, <2>1, LeavesOrder DEF ClosePost, Size
<1>18. ASSUME NEW i \in Iocp, Dequeue(i)
      PROVE  OrderOK'
  <2>. SUFFICES ASSUME ~ crowded' PROVE InTurn'
    BY DEF OrderOK
  <2>1. InTurn
    BY <1>18 DEF Dequeue, OrderOK
  <2>. QED
    BY <1>18, <2>1, DequeueTurn
<1>19. ASSUME NEW i \in Iocp, RecvFill(i)
      PROVE  OrderOK'
  <2>1. \/ Go(i, "close")
        \/ Go(i, "mark")
    BY <1>19 DEF RecvFill, After
  <2>. QED
    BY <1>19, <2>1, LeavesOrder DEF RecvFill, Size
<1>20. ASSUME NEW i \in Iocp, RecvMark(i)
      PROVE  OrderOK'
  <2>1. Go(i, "again")
    BY <1>20 DEF RecvMark, After
  <2>. QED
    BY <1>20, <2>1, LeavesOrder DEF RecvMark, Size
<1>21. ASSUME NEW i \in Iocp, SendDrop(i)
      PROVE  OrderOK'
  <2>1. CASE Go(i, "drop") /\ dropped' = dropped + pc[i].n
    <3>. SUFFICES ASSUME ~ crowded' PROVE InTurn'
      BY DEF OrderOK
    <3>1. InTurn
      BY <1>21 DEF SendDrop, OrderOK
    <3>. QED
      BY <1>21, <2>1, <3>1, DropTurn
  <2>2. CASE Go(i, "close") /\ UNCHANGED dropped
    BY <1>21, <2>2, LeavesOrder DEF SendDrop, Size
  <2>. QED
    BY <1>21, <2>1, <2>2 DEF SendDrop, After
<1>22. ASSUME NEW i \in Iocp, SendNext(i)
      PROVE  OrderOK'
  <2>. SUFFICES ASSUME ~ crowded' PROVE InTurn'
    BY DEF OrderOK
  <2>1. InTurn
    BY <1>22 DEF SendNext, OrderOK
  <2>. QED
    BY <1>22, <2>1, NextTurn
<1>23. ASSUME NEW i \in Iocp, SendEmpty(i)
      PROVE  OrderOK'
  <2>1. Go(i, "eof")
    BY <1>23 DEF SendEmpty, After
  <2>. QED
    BY <1>23, <2>1, LeavesOrder DEF SendEmpty, Size
<1>24. ASSUME NEW i \in Iocp, SendEof(i)
      PROVE  OrderOK'
  <2>1. \/ Go(i, "close")
        \/ Go(i, "deref")
    BY <1>24 DEF SendEof, After
  <2>. QED
    BY <1>24, <2>1, LeavesOrder DEF SendEof, Size
<1>25. ASSUME NEW i \in Iocp, Deref(i)
      PROVE  OrderOK'
  <2>1. Go(i, "idle")
    BY <1>25 DEF Deref, After
  <2>. QED
    BY <1>25, <2>1, LeavesOrder DEF Deref, Size
<1>26. CASE Take
  BY <1>26, StaysOrder DEF Take
<1>27. CASE CallbackBegin
  BY <1>27, StaysOrder DEF CallbackBegin
<1>28. CASE CallbackEnd
  <2>1. Go(Biz, "close") \/ UNCHANGED pc
    BY <1>28 DEF CallbackEnd
  <2>. QED
    BY <1>28, <2>1, LeavesOrder, StaysOrder DEF CallbackEnd, Size
<1>29. CASE EventDone
  BY <1>29, StaysOrder DEF EventDone
<1>30. CASE Check
  BY <1>30, StaysOrder DEF Check
<1>31. CASE RemoveConnection
  BY <1>31, StaysOrder DEF RemoveConnection
<1>32. CASE Sweep
  BY <1>32, StaysOrder DEF Sweep
<1>33. ASSUME NEW k \in 0 .. Chunk, Sent(k)
      PROVE  OrderOK'
  <2>. SUFFICES ASSUME ~ crowded' PROVE InTurn'
    BY DEF OrderOK
  <2>1. InTurn
    BY <1>33 DEF Sent, OrderOK
  <2>. QED
    BY <1>33, <2>1, SentTurn
<1>34. CASE SendFails
  <2>. SUFFICES ASSUME ~ crowded' PROVE InTurn'
    BY DEF OrderOK
  <2>1. InTurn
    BY <1>34 DEF SendFails, OrderOK
  <2>. QED
    BY <1>34, <2>1, SendFailsTurn
<1>35. CASE RecvFails
  <2>. DEFINE c == [kind |-> "recv", n |-> 0, good |-> FALSE]
  <2>1. c \in Ended /\ c.kind = "recv"
    BY DEF Ended
  <2>2. done' = Append(done, c)
    BY <1>35 DEF RecvFails
  <2>. HIDE DEF c
  <2>. QED
    BY <1>35, <2>1, <2>2, EndedOrder DEF RecvFails
<1>36. CASE Received
  <2>. DEFINE c(n) == [kind |-> "recv", n |-> n, good |-> TRUE]
  <2>1. c(0) \in Ended /\ c(1) \in Ended /\ c(0).kind = "recv" /\ c(1).kind = "recv"
    BY DEF Ended
  <2>2. done' = Append(done, c(0)) \/ done' = Append(done, c(1))
    BY <1>36 DEF Received
  <2>. HIDE DEF c
  <2>. QED
    BY <1>36, <2>1, <2>2, EndedOrder DEF Received
<1>37. ASSUME NEW end \in scenario.ends, PeerLeaves(end)
      PROVE  OrderOK'
  BY <1>37, StaysOrder DEF PeerLeaves
<1>. HIDE DEF OrderOK
<1>. QED
  BY <1>1, <1>2, <1>3, <1>4, <1>5, <1>6, <1>7, <1>8, <1>9, <1>10, <1>11, <1>12,
     <1>13, <1>14, <1>15, <1>16, <1>17, <1>18, <1>19, <1>20, <1>21, <1>22, <1>23,
     <1>24, <1>25, <1>26, <1>27, <1>28, <1>29, <1>30, <1>31, <1>32, <1>33, <1>34,
     <1>35, <1>36, <1>37 DEF Next, Making, Going, Handling, Business, Kernel

-----------------------------------------------------------------------------
(* What is counted is not negative: a business thread past its last decrease has an event. *)
LEMMA RefsNat ==
  ASSUME TypeSets', TypeLists', ControlOK', CountOK'
  PROVE  refs' \in Nat
<1>1. /\ Len(events') \in Nat /\ Len(batch') \in Nat /\ Cardinality(Holders') \in Nat
      /\ batch' = << >> <=> Len(batch') = 0
  BY LenProperties, EmptySeq, FS_CardinalityType DEF TypeLists, CountOK
<1>2. biz' \in {"check", "remove"} => Len(batch') > 0
  BY <1>1 DEF ControlOK
<1>. DEFINE b == One(binded')
            c == One(biz' \in {"check", "remove"})
            h == Cardinality(Holders')
            e == Len(events')
            l == Len(batch')
<1>3. b \in {0, 1} /\ c \in {0, 1} /\ (c = 1 => l > 0)
  BY <1>2 DEF One
<1>4. refs' = b + e + l - c + h
  BY DEF CountOK
<1>. HIDE DEF b, c, h, e, l
<1>5. e \in Nat /\ l \in Nat /\ h \in Nat
  BY <1>1 DEF e, l, h
<1>. QED
  BY <1>3, <1>4, <1>5

(* The invariant is inductive. *)
LEMMA ProInvStep == ProInv /\ [Next]_vars => ProInv'
<1>. SUFFICES ASSUME ProInv, [Next]_vars PROVE ProInv'
  OBVIOUS
<1>1. TypeSets /\ TypeCounts /\ TypeLists /\ TypeControl /\ refs \in Nat
  BY TypeParts DEF ProInv
<1>2. ControlOK /\ EarlyOK /\ CountOK /\ RemovedOK /\ OrderOK
  BY DEF ProInv
<1>3. CASE Next
  <2>1. TypeSets' /\ TypeCounts' /\ TypeControl'
    BY <1>1, <1>3, SetsStep, CountsStep, ControlStep
  <2>2. TypeLists'
    BY <1>1, <1>2, <1>3, ListsStep DEF ControlOK
  <2>3. ControlOK' /\ EarlyOK' /\ CountOK' /\ RemovedOK' /\ OrderOK'
    BY <1>1, <1>2, <1>3, PlacesStep, EarlyStep, CountStep, RemovedStep, OrderStep
  <2>4. refs' \in Nat
    BY <2>1, <2>2, <2>3, RefsNat
  <2>. QED
    BY <2>1, <2>2, <2>3, <2>4, TypePartsNext DEF ProInv
<1>4. CASE UNCHANGED vars
  <2>1. TypeSets' /\ TypeCounts'
    BY <1>1, <1>4 DEF vars, TypeSets, TypeCounts, Bytes
  <2>2. TypeLists' /\ TypeControl' /\ refs' \in Nat
    BY <1>1, <1>4 DEF vars, TypeLists, TypeControl, Bytes
  <2>3. TypeOK'
    BY <2>1, <2>2, TypePartsNext
  <2>4. ControlOK'
    BY <1>2, <1>4 DEF vars, ControlOK
  <2>5. EarlyOK' /\ CountOK'
    BY <1>2, <1>4 DEF vars, EarlyOK, Unannounced, Unknown, CountOK, Holders
  <2>6. RemovedOK'
    BY <1>2, <1>4 DEF vars, RemovedOK, WhoCloses, Closing, Dead, Silent, NeverBound,
                      Unannounced, Unknown
  <2>7. OrderOK'
    BY <1>2, <1>4, StaysOrder DEF vars
  <2>. QED
    BY <2>3, <2>4, <2>5, <2>6, <2>7 DEF ProInv
<1>. QED
  BY <1>3, <1>4

(* It holds in every reachable state. *)
LEMMA Inductive == Spec => []ProInv
<1>1. Init => ProInv
  BY InitPro
<1>2. ProInv /\ [Next]_vars => ProInv'
  BY ProInvStep
<1>. QED
  BY <1>1, <1>2, PTL DEF Spec

-----------------------------------------------------------------------------
(* Every variable has its type in every reachable state: in particular     *)
(* m_references never goes below zero, no byte leaves m_send_buffer before *)
(* it entered, and the length of m_async_send never exceeds its buffer.    *)
THEOREM TypeCorrect == Spec => []TypeOK
<1>1. ProInv => TypeOK
  BY DEF ProInv
<1>. QED
  BY <1>1, Inductive, PTL

(* m_references counts the binding, the events that wait or are handled    *)
(* and the IOCP threads inside the connection, whatever the threads and    *)
(* their order; and a connection that is referred to is not freed.         *)
THEOREM ReferencesCounted == Spec => []RefsCountHolders
<1>1. ProInv => RefsCountHolders
  BY DEF ProInv, CountOK, RefsCountHolders
<1>. QED
  BY <1>1, Inductive, PTL

(* After its last decrease_reference the business thread finds the         *)
(* connection still there, unless a thread without a reference closed it:  *)
(* a connection that was freed has been removed by this very thread, or    *)
(* was never announced to it.                                              *)
THEOREM RemovedStaysLive == Spec => []RemovedIsLive
<1>1. ProInv => RemovedIsLive
  BY DEF ProInv, RemovedOK, RemovedIsLive
<1>. QED
  BY <1>1, Inductive, PTL

(* The socket takes the bytes in order, each once: m_async_send has one    *)
(* user at a time, a caller past its wait, a send or its completion, and   *)
(* each finds there what the one before has left.                          *)
THEOREM BytesInOrder == Spec => []InOrder
<1>1. ProInv => InOrder
  BY DEF ProInv, OrderOK, InTurn, InOrder
<1>. QED
  BY <1>1, Inductive, PTL

=============================================================================
