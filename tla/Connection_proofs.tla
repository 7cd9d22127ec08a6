-------------------------- MODULE Connection_proofs --------------------------
(***************************************************************************)
(* The send path of a connection keeps the order of the bytes, and drops   *)
(* none without one of the reasons the model names; its receive path loses *)
(* no recv_notify and has it handled before close_notify.  All for every   *)
(* number of writers, every chunk size and every capacity of the socket.   *)
(***************************************************************************)
EXTENDS Connection, TLAPS

(* What the data thread knows of the chunk in its hands.  Between two      *)
(* chunks the buffer begins where the bytes given to the socket end; only  *)
(* a connection with an error may keep bytes that were sent.               *)
ChunkInHand ==
  /\ dpc # "idle" => events # << >>
  /\ dpc = "socket" => from = dropped /\ handed = dropped /\ from + size <= written
  /\ dpc = "drop" => handed <= from + size /\ from + size <= written
  /\ dpc # "drop" => handed = dropped \/ error

(* Why the connection may be closed: it has an excuse, or close() was      *)
(* called and every byte is sent (which stays so: nothing is written after *)
(* close()).                                                               *)
Excused == (\E e \in excuse : e # "memory") \/ (eof /\ handed = written)

ClosedForReason ==
  /\ error \/ dpc = "error" \/ (\E t \in Thread : wpc[t] = "error") => ~ bound
  /\ ~ bound \/ ~ good \/ (\E t \in Thread : wpc[t] = "unbind") => Excused

ConnInv == TypeOK /\ ChunkInHand /\ ClosedForReason

USE DEF buffers, socket, flags, epoll, data, business

LEMMA States ==
  /\ {"idle", "recv", "notify", "offer", "send", "socket"} \subseteq DataStates
  /\ {"drop", "drained", "sent", "eof", "withdraw", "recheck"} \subseteq DataStates
  /\ {"declare", "judge", "error", "post", "done"} \subseteq DataStates
  /\ {"idle", "send", "read", "return", "unbind", "error", "post"} \subseteq ThreadStates
BY DEF DataStates, ThreadStates

LEMMA MaybeAppended ==
  ASSUME NEW S, NEW s \in Seq(S), NEW t, \E x \in S : t = s \/ t = Append(s, x)
  PROVE  t \in Seq(S)
BY SMT

LEMMA TailType == ASSUME NEW S, NEW s \in Seq(S), s # << >> PROVE Tail(s) \in Seq(S)
BY SMT

LEMMA PostType ==
  ASSUME Controls, NEW e \in {"open", "recv", "send", "close"}, Post(e)
  PROVE  queue' \in Seq({"open", "recv", "send", "close"}) /\ UNCHANGED <<hand, look>>
<1> DEFINE Kind == {"open", "recv", "send", "close"}
<1>1. queue \in Seq(Kind) /\ e \in Kind /\ (queue' = queue \/ queue' = Append(queue, e))
  BY DEF Controls, Post
<1> HIDE DEF Kind
<1>2. queue' \in Seq(Kind)
  BY <1>1, MaybeAppended
<1>. QED
  BY <1>2 DEF Kind, Post

LEMMA InitInv == Init => ConnInv
<1> SUFFICES ASSUME Init PROVE ConnInv
  OBVIOUS
<1>1. Counts /\ ChunkInHand
  BY ConnectionAssumption DEF Init, Counts, ChunkInHand
<1>2. Controls
  <2>1. /\ dpc \in DataStates
        /\ wpc \in [Thread -> ThreadStates]
        /\ events \in Seq(SUBSET {"recv", "send", "exception"})
    BY States DEF Init
  <2>2. /\ queue \in Seq({"open", "recv", "send", "close"})
        /\ hand \in Seq({"open", "recv", "send", "close"})
    BY DEF Init
  <2>. QED
    BY <2>1, <2>2 DEF Init, Controls
<1>3. ClosedForReason
  BY DEF Init, ClosedForReason, Thread
<1>. QED
  BY <1>1, <1>2, <1>3 DEF ConnInv, TypeOK

(* An empty send buffer has given everything to the socket.                *)
LEMMA Emptied == ASSUME Counts, Unsent = 0 PROVE handed = written
BY DEF Counts, Unsent

(* The socket takes a part of the chunk.                                   *)
LEMMA Accepts ==
  ASSUME Counts, ChunkInHand, SocketSend
  PROVE  /\ handed' \in Nat /\ handed <= handed' /\ handed' <= from + size
         /\ handed' <= written /\ handed' - fetched <= Room
         /\ from + size <= written
<1>1. Free \in Nat /\ Accepted \in Nat /\ Accepted <= size /\ Accepted <= Free
  BY ConnectionAssumption DEF Counts, Free, Accepted
<1>2. from + size <= written /\ handed = from /\ handed' = handed + Accepted
  BY DEF ChunkInHand, SocketSend
<1>. QED
  BY <1>1, <1>2, ConnectionAssumption DEF Counts, Free

LEMMA SocketSendInv ==
  ASSUME ConnInv, SocketSend
  PROVE  Counts' /\ ChunkInHand' /\ ClosedForReason'
<1>1. Counts /\ ChunkInHand
  BY DEF ConnInv, TypeOK
<1>2. /\ handed' \in Nat /\ handed <= handed' /\ handed' <= from + size
      /\ handed' <= written /\ handed' - fetched <= Room
      /\ from + size <= written /\ from = dropped /\ handed = dropped
  BY <1>1, Accepts DEF ChunkInHand, SocketSend
<1>3. UNCHANGED <<written, dropped, received, taken, look, fetched, arrived, incoming, from, size>>
  BY DEF SocketSend
<1>4. UNCHANGED <<eof, error, bound, excuse, good, wpc, events>>
  BY DEF SocketSend
<1>5. dpc = "socket" /\ dpc' \in {"drop", "drained"} /\ (dpc' = "drained" => handed' = handed)
  <2>1. Free = 0 => handed' = handed
    BY <1>1, <1>2, ConnectionAssumption DEF SocketSend, Accepted, Counts, Free
  <2>. QED
    BY <2>1 DEF SocketSend
<1>6. Counts'
  BY <1>1, <1>2, <1>3 DEF Counts
<1>7. ChunkInHand'
  BY <1>1, <1>2, <1>3, <1>4, <1>5 DEF ChunkInHand
<1>8. handed = written => handed' = written'
  BY <1>1, <1>2, <1>3 DEF Counts
<1>9. ClosedForReason'
  BY <1>4, <1>5, <1>8 DEF ConnInv, ClosedForReason, Excused
<1>. QED
  BY <1>6, <1>7, <1>9

(* The order dropped <= handed <= written.                                 *)
LEMMA CountStep == ConnInv /\ [Next]_vars => Counts'
<1> SUFFICES ASSUME ConnInv, [Next]_vars PROVE Counts'
  OBVIOUS
<1> USE DEF ConnInv, TypeOK, Counts, ChunkInHand
<1>1. ASSUME NEW w \in Writer, NEW load \in Loads, Fill(w, load) PROVE Counts'
  BY <1>1, ConnectionAssumption DEF Fill, Unsent
<1>2. ASSUME NEW w \in Writer, ConnectionSend(w) PROVE Counts'
  BY <1>2 DEF ConnectionSend, Modify
<1>3. ASSUME NEW w \in Writer, Close(w) PROVE Counts'
  BY <1>3 DEF Close, CloseNow, Unsent
<1>4. ASSUME NEW t \in Thread, CloseUnbind(t) PROVE Counts'
  BY <1>4 DEF CloseUnbind, Unbind
<1>5. ASSUME NEW t \in Thread, CloseError(t) PROVE Counts'
  BY <1>5 DEF CloseError
<1>6. ASSUME NEW t \in Thread, ClosePost(t) PROVE Counts'
  BY <1>6 DEF ClosePost, Post
<1>take. CASE TakeList
  BY <1>take DEF TakeList
<1>look. CASE LookRecv
  BY <1>look DEF LookRecv, Unread
<1>move. CASE MoveRecv
  BY <1>move DEF MoveRecv
<1>return. CASE Return
  BY <1>return DEF Return
<1>7. CASE Report
  BY <1>7 DEF Report
<1>8. CASE Take
  BY <1>8 DEF Take, AfterRecv
<1>9. CASE Recv
  <2>1. PICK n \in 1 .. Chunk : n <= incoming /\ incoming' = incoming - n
                               /\ (received' = received \/ received' = received + n)
    BY <1>9 DEF Recv
  <2>2. incoming' \in Nat /\ received' \in Nat /\ received <= received'
    BY <2>1, ConnectionAssumption
  <2>3. UNCHANGED <<written, dropped, taken, look, handed, fetched, arrived, from, size>>
    BY <1>9 DEF Recv
  <2>4. taken + look <= received'
    BY <2>2
  <2>. QED
    BY <2>2, <2>3, <2>4
<1>10. CASE RecvEnd
  BY <1>10 DEF RecvEnd
<1>11. CASE CheckMark
  BY <1>11 DEF CheckMark, AfterRecv
<1>recv. CASE NotifyRecv
  BY <1>recv DEF NotifyRecv, AfterRecv, Post
<1>12. CASE Copy
  BY <1>12, ConnectionAssumption DEF Copy, Unsent
<1>13. CASE SocketSend
  BY <1>13, SocketSendInv
<1>14. CASE SocketFails
  BY <1>14 DEF SocketFails
<1>15. CASE Drop
  BY <1>15 DEF Drop, Taken
<1>16. CASE Drained
  BY <1>16 DEF Drained, Unsent
<1>sent. CASE NotifySend
  BY <1>sent DEF NotifySend, Post
<1>17. CASE CheckEof
  BY <1>17 DEF CheckEof, EofCloses, Unsent
<1>18. CASE Withdraw
  BY <1>18 DEF Withdraw, Modify
<1>19. CASE Recheck
  BY <1>19 DEF Recheck, Refilled, Unsent
<1>20. CASE Declare
  BY <1>20 DEF Declare, Modify
<1>21. CASE Judge
  BY <1>21 DEF Judge, Unbind
<1>22. CASE SetError
  BY <1>22 DEF SetError
<1>post. CASE NotifyClose
  BY <1>post DEF NotifyClose, Post
<1>23. CASE EventDone
  BY <1>23 DEF EventDone
<1>24. CASE PeerSends
  BY <1>24 DEF PeerSends, Wake
<1>25. CASE PeerReads
  BY <1>25, ConnectionAssumption DEF PeerReads, Wake
<1>26. ASSUME NEW e \in PeerEnds, PeerLeaves(e) PROVE Counts'
  BY <1>26, ConnectionAssumption DEF PeerLeaves, Wake
<1>27. CASE UNCHANGED vars
  BY <1>27 DEF vars
<1>. QED
  BY <1>1, <1>2, <1>3, <1>4, <1>5, <1>6, <1>take, <1>look, <1>move, <1>return, <1>7, <1>8, <1>9, <1>10, <1>11, <1>recv, <1>12, <1>13, <1>14, <1>15, <1>16, <1>sent, <1>17, <1>18, <1>19, <1>20, <1>21, <1>22, <1>post, <1>23, <1>24, <1>25, <1>26, <1>27
  DEF Next, DataThread, BusinessThread, Finish

(* The types of the control state.                                         *)
LEMMA ControlStep == ConnInv /\ [Next]_vars => Controls'
<1> SUFFICES ASSUME ConnInv, [Next]_vars PROVE Controls'
  OBVIOUS
<1> USE DEF ConnInv, TypeOK, Controls, Thread
<1>1. ASSUME NEW w \in Writer, NEW load \in Loads, Fill(w, load) PROVE Controls'
  <2>1. wpc' \in [Thread -> ThreadStates]
    <3>1. wpc' = wpc \/ wpc' = [wpc EXCEPT ![w] = "send"] \/ wpc' = [wpc EXCEPT ![w] = "idle"]
      BY <1>1 DEF Fill
    <3>. QED
      BY <3>1, States
  <2>2. UNCHANGED <<peer, nospace, eof, error, bound, interest, ready, events, queue, hand, dpc, good>>
    BY <1>1 DEF Fill
  <2>3. excuse' \subseteq {"refused", "late data", "stale size", "fin", "reset", "memory"}
    BY <1>1 DEF Fill
  <2>. QED
    BY <2>1, <2>2, <2>3
<1>2. ASSUME NEW w \in Writer, ConnectionSend(w) PROVE Controls'
  BY <1>2, States DEF ConnectionSend, Modify
<1>3. ASSUME NEW w \in Writer, Close(w) PROVE Controls'
  BY <1>3, States DEF Close, CloseNow, Unsent
<1>4. ASSUME NEW t \in Thread, CloseUnbind(t) PROVE Controls'
  <2>1. wpc' \in [Thread -> ThreadStates]
    BY <1>4, States DEF CloseUnbind
  <2>2. bound' \in BOOLEAN /\ ready' \in BOOLEAN
    BY <1>4 DEF CloseUnbind, Unbind
  <2>3. UNCHANGED <<peer, nospace, eof, error, interest, events, queue, hand, dpc, good, excuse>>
    BY <1>4 DEF CloseUnbind
  <2>. QED
    BY <2>1, <2>2, <2>3
<1>5. ASSUME NEW t \in Thread, CloseError(t) PROVE Controls'
  BY <1>5, States DEF CloseError
<1>6. ASSUME NEW t \in Thread, ClosePost(t) PROVE Controls'
  BY <1>6, States, PostType DEF ClosePost
<1>take. CASE TakeList
  BY <1>take, States DEF TakeList
<1>look. CASE LookRecv
  BY <1>look, States DEF LookRecv, Unread
<1>move. CASE MoveRecv
  BY <1>move, States DEF MoveRecv
<1>return. CASE Return
  <2>1. wpc' \in [Thread -> ThreadStates]
    BY <1>return, States DEF Return
  <2> DEFINE Kind == {"open", "recv", "send", "close"}
  <2>2. hand \in Seq(Kind) /\ hand # << >> /\ hand' = Tail(hand)
    BY <1>return DEF Return
  <2>3. hand' \in Seq(Kind)
    BY <2>2, TailType
  <2>4. excuse' \subseteq {"refused", "late data", "stale size", "fin", "reset", "memory"}
    BY <1>return DEF Return
  <2>5. UNCHANGED <<peer, nospace, eof, error, bound, interest, ready, events, queue, dpc, good>>
    BY <1>return DEF Return
  <2>. QED
    BY <2>1, <2>3, <2>4, <2>5
<1>7. CASE Report
  <2> DEFINE Flags == SUBSET {"recv", "send", "exception"}
  <2>1. events \in Seq(Flags)
    OBVIOUS
  <2>2. \E seen \in Flags : events' = events \/ events' = Append(events, seen)
    BY <1>7 DEF Report
  <2> HIDE DEF Flags
  <2>3. events' \in Seq(Flags)
    BY <2>1, <2>2, MaybeAppended
  <2>4. events' \in Seq(SUBSET {"recv", "send", "exception"})
    BY <2>3 DEF Flags
  <2>. QED
    BY <1>7, <2>4 DEF Report
<1>8. CASE Take
  BY <1>8, States DEF Take, AfterRecv
<1>9. CASE Recv
  BY <1>9, States DEF Recv
<1>10. CASE RecvEnd
  BY <1>10, States DEF RecvEnd
<1>11. CASE CheckMark
  BY <1>11, States DEF CheckMark, AfterRecv
<1>recv. CASE NotifyRecv
  BY <1>recv, States, PostType DEF NotifyRecv, AfterRecv
<1>12. CASE Copy
  BY <1>12, States DEF Copy, Unsent
<1>13. CASE SocketSend
  BY <1>13, States DEF SocketSend, Accepted, Free
<1>14. CASE SocketFails
  BY <1>14, States DEF SocketFails
<1>15. CASE Drop
  BY <1>15, States DEF Drop, Taken
<1>16. CASE Drained
  BY <1>16, States DEF Drained, Unsent
<1>sent. CASE NotifySend
  BY <1>sent, States, PostType DEF NotifySend
<1>17. CASE CheckEof
  BY <1>17, States DEF CheckEof, EofCloses, Unsent
<1>18. CASE Withdraw
  BY <1>18, States DEF Withdraw, Modify
<1>19. CASE Recheck
  BY <1>19, States DEF Recheck, Refilled, Unsent
<1>20. CASE Declare
  BY <1>20, States DEF Declare, Modify
<1>21. CASE Judge
  BY <1>21, States DEF Judge, Unbind
<1>22. CASE SetError
  BY <1>22, States DEF SetError
<1>post. CASE NotifyClose
  BY <1>post, States, PostType DEF NotifyClose
<1>23. CASE EventDone
  <2> DEFINE Flag == {"recv", "send", "exception"}
  <2>1. events \in Seq(SUBSET Flag) /\ events # << >> /\ events' = Tail(events)
    BY <1>23 DEF EventDone, ChunkInHand
  <2>2. events' \in Seq(SUBSET Flag)
    BY <2>1, TailType
  <2>. QED
    BY <1>23, <2>2, States DEF EventDone
<1>24. CASE PeerSends
  BY <1>24, States DEF PeerSends, Wake
<1>25. CASE PeerReads
  BY <1>25, States DEF PeerReads, Wake
<1>26. ASSUME NEW e \in PeerEnds, PeerLeaves(e) PROVE Controls'
  BY <1>26, ConnectionAssumption, States DEF PeerLeaves, Wake
<1>27. CASE UNCHANGED vars
  BY <1>27, States DEF vars
<1>. QED
  BY <1>1, <1>2, <1>3, <1>4, <1>5, <1>6, <1>take, <1>look, <1>move, <1>return, <1>7, <1>8, <1>9, <1>10, <1>11, <1>recv, <1>12, <1>13, <1>14, <1>15, <1>16, <1>sent, <1>17, <1>18, <1>19, <1>20, <1>21, <1>22, <1>post, <1>23, <1>24, <1>25, <1>26, <1>27
  DEF Next, DataThread, BusinessThread, Finish

(* The chunk in hand: only Copy, SocketSend and Drop touch it.             *)
LEMMA ChunkStep == ConnInv /\ [Next]_vars => ChunkInHand'
<1> SUFFICES ASSUME ConnInv, [Next]_vars PROVE ChunkInHand'
  OBVIOUS
<1> USE DEF ConnInv, TypeOK, Counts, ChunkInHand
<1>1. ASSUME NEW w \in Writer, NEW load \in Loads, Fill(w, load) PROVE ChunkInHand'
  BY <1>1, ConnectionAssumption DEF Fill, Unsent
<1>2. ASSUME NEW w \in Writer, ConnectionSend(w) PROVE ChunkInHand'
  BY <1>2 DEF ConnectionSend, Modify
<1>3. ASSUME NEW w \in Writer, Close(w) PROVE ChunkInHand'
  BY <1>3 DEF Close, CloseNow, Unsent
<1>4. ASSUME NEW t \in Thread, CloseUnbind(t) PROVE ChunkInHand'
  BY <1>4 DEF CloseUnbind, Unbind
<1>5. ASSUME NEW t \in Thread, CloseError(t) PROVE ChunkInHand'
  BY <1>5 DEF CloseError
<1>6. ASSUME NEW t \in Thread, ClosePost(t) PROVE ChunkInHand'
  BY <1>6 DEF ClosePost, Post
<1>take. CASE TakeList
  BY <1>take DEF TakeList
<1>look. CASE LookRecv
  BY <1>look DEF LookRecv, Unread
<1>move. CASE MoveRecv
  BY <1>move DEF MoveRecv
<1>return. CASE Return
  BY <1>return DEF Return
<1>7. CASE Report
  <2>1. events \in Seq(SUBSET {"recv", "send", "exception"})
    BY DEF Controls
  <2>2. dpc # "idle" => events' # << >>
    BY <1>7, <2>1 DEF Report
  <2>. QED
    BY <1>7, <2>2 DEF Report
<1>8. CASE Take
  BY <1>8 DEF Take, AfterRecv
<1>9. CASE Recv
  BY <1>9, ConnectionAssumption DEF Recv
<1>10. CASE RecvEnd
  BY <1>10 DEF RecvEnd
<1>11. CASE CheckMark
  BY <1>11 DEF CheckMark, AfterRecv
<1>recv. CASE NotifyRecv
  BY <1>recv DEF NotifyRecv, AfterRecv, Post
<1>12. CASE Copy
  BY <1>12, ConnectionAssumption DEF Copy, Unsent
<1>13. CASE SocketSend
  BY <1>13, SocketSendInv
<1>14. CASE SocketFails
  BY <1>14 DEF SocketFails
<1>15. CASE Drop
  BY <1>15 DEF Drop, Taken
<1>16. CASE Drained
  BY <1>16 DEF Drained, Unsent
<1>sent. CASE NotifySend
  BY <1>sent DEF NotifySend, Post
<1>17. CASE CheckEof
  BY <1>17 DEF CheckEof, EofCloses, Unsent
<1>18. CASE Withdraw
  BY <1>18 DEF Withdraw, Modify
<1>19. CASE Recheck
  BY <1>19 DEF Recheck, Refilled, Unsent
<1>20. CASE Declare
  BY <1>20 DEF Declare, Modify
<1>21. CASE Judge
  BY <1>21 DEF Judge, Unbind
<1>22. CASE SetError
  BY <1>22 DEF SetError
<1>post. CASE NotifyClose
  BY <1>post DEF NotifyClose, Post
<1>23. CASE EventDone
  BY <1>23 DEF EventDone
<1>24. CASE PeerSends
  BY <1>24 DEF PeerSends, Wake
<1>25. CASE PeerReads
  BY <1>25, ConnectionAssumption DEF PeerReads, Wake
<1>26. ASSUME NEW e \in PeerEnds, PeerLeaves(e) PROVE ChunkInHand'
  BY <1>26, ConnectionAssumption DEF PeerLeaves, Wake
<1>27. CASE UNCHANGED vars
  BY <1>27 DEF vars
<1>. QED
  BY <1>1, <1>2, <1>3, <1>4, <1>5, <1>6, <1>take, <1>look, <1>move, <1>return, <1>7, <1>8, <1>9, <1>10, <1>11, <1>recv, <1>12, <1>13, <1>14, <1>15, <1>16, <1>sent, <1>17, <1>18, <1>19, <1>20, <1>21, <1>22, <1>post, <1>23, <1>24, <1>25, <1>26, <1>27
  DEF Next, DataThread, BusinessThread, Finish

(* The reason to close.                                                    *)
LEMMA ReasonStep == ConnInv /\ [Next]_vars => ClosedForReason'
<1> SUFFICES ASSUME ConnInv, [Next]_vars PROVE ClosedForReason'
  OBVIOUS
<1> USE DEF ConnInv, TypeOK, Counts, Controls, ChunkInHand, ClosedForReason, Excused, Thread
<1>1. ASSUME NEW w \in Writer, NEW load \in Loads, Fill(w, load) PROVE ClosedForReason'
  BY <1>1, ConnectionAssumption DEF Fill, Unsent
<1>2. ASSUME NEW w \in Writer, ConnectionSend(w) PROVE ClosedForReason'
  BY <1>2 DEF ConnectionSend, Modify
<1>3. ASSUME NEW w \in Writer, Close(w) PROVE ClosedForReason'
  <2>1. wpc'[w] = "unbind" => handed = written
    BY <1>3, Emptied DEF Close, CloseNow
  <2>. QED
    BY <1>3, <2>1 DEF Close
<1>4. ASSUME NEW t \in Thread, CloseUnbind(t) PROVE ClosedForReason'
  BY <1>4 DEF CloseUnbind, Unbind
<1>5. ASSUME NEW t \in Thread, CloseError(t) PROVE ClosedForReason'
  BY <1>5 DEF CloseError
<1>6. ASSUME NEW t \in Thread, ClosePost(t) PROVE ClosedForReason'
  BY <1>6 DEF ClosePost, Post
<1>take. CASE TakeList
  BY <1>take DEF TakeList
<1>look. CASE LookRecv
  BY <1>look DEF LookRecv, Unread
<1>move. CASE MoveRecv
  BY <1>move DEF MoveRecv
<1>return. CASE Return
  <2>1. CASE wpc' = [wpc EXCEPT !["business"] = "idle"] /\ UNCHANGED excuse
    BY <1>return, <2>1 DEF Return
  <2>2. CASE /\ wpc' = [wpc EXCEPT !["business"] = "unbind"]
             /\ excuse' = excuse \cup {"refused"}
    <3>1. "refused" \in excuse' /\ \A t \in Thread : wpc'[t] = "error" => wpc[t] = "error"
      BY <2>2
    <3>. QED
      BY <1>return, <3>1 DEF Return
  <2>. QED
    BY <1>return, <2>1, <2>2 DEF Return
<1>7. CASE Report
  BY <1>7 DEF Report
<1>8. CASE Take
  BY <1>8 DEF Take, AfterRecv
<1>9. CASE Recv
  BY <1>9 DEF Recv
<1>10. CASE RecvEnd
  BY <1>10 DEF RecvEnd
<1>11. CASE CheckMark
  BY <1>11 DEF CheckMark, AfterRecv
<1>recv. CASE NotifyRecv
  BY <1>recv DEF NotifyRecv, AfterRecv, Post
<1>12. CASE Copy
  BY <1>12 DEF Copy, Unsent
<1>13. CASE SocketSend
  BY <1>13, SocketSendInv
<1>14. CASE SocketFails
  BY <1>14 DEF SocketFails
<1>15. CASE Drop
  BY <1>15 DEF Drop, Taken
<1>16. CASE Drained
  BY <1>16 DEF Drained, Unsent
<1>sent. CASE NotifySend
  BY <1>sent DEF NotifySend, Post
<1>17. CASE CheckEof
  <2>1. CASE eof /\ Unsent = 0
    <3>1. handed = written
      BY <2>1, Emptied
    <3>. QED
      BY <1>17, <2>1, <3>1 DEF CheckEof, EofCloses
  <2>2. CASE eof /\ Unsent # 0
    <3>1. "stale size" \in excuse'
      BY <1>17, <2>2 DEF CheckEof, EofCloses
    <3>. QED
      BY <1>17, <2>2, <3>1 DEF CheckEof, EofCloses
  <2>3. CASE ~ eof
    BY <1>17, <2>3 DEF CheckEof, EofCloses
  <2>. QED
    BY <2>1, <2>2, <2>3
<1>18. CASE Withdraw
  BY <1>18 DEF Withdraw, Modify
<1>19. CASE Recheck
  BY <1>19 DEF Recheck, Refilled, Unsent
<1>20. CASE Declare
  BY <1>20 DEF Declare, Modify
<1>21. CASE Judge
  <2>1. CASE "exception" \in Head(events)
    <3>1. "reset" \in excuse'
      BY <1>21, <2>1 DEF Judge
    <3>. QED
      BY <1>21, <2>1, <3>1 DEF Judge, Unbind
  <2>2. CASE "exception" \notin Head(events)
    BY <1>21, <2>2 DEF Judge, Unbind
  <2>. QED
    BY <2>1, <2>2
<1>22. CASE SetError
  BY <1>22 DEF SetError
<1>post. CASE NotifyClose
  BY <1>post DEF NotifyClose, Post
<1>23. CASE EventDone
  BY <1>23 DEF EventDone
<1>24. CASE PeerSends
  BY <1>24 DEF PeerSends, Wake
<1>25. CASE PeerReads
  BY <1>25 DEF PeerReads, Wake
<1>26. ASSUME NEW e \in PeerEnds, PeerLeaves(e) PROVE ClosedForReason'
  BY <1>26, ConnectionAssumption DEF PeerLeaves, Wake
<1>27. CASE UNCHANGED vars
  BY <1>27 DEF vars
<1>. QED
  BY <1>1, <1>2, <1>3, <1>4, <1>5, <1>6, <1>take, <1>look, <1>move, <1>return, <1>7, <1>8, <1>9, <1>10, <1>11, <1>recv, <1>12, <1>13, <1>14, <1>15, <1>16, <1>sent, <1>17, <1>18, <1>19, <1>20, <1>21, <1>22, <1>post, <1>23, <1>24, <1>25, <1>26, <1>27
  DEF Next, DataThread, BusinessThread, Finish

(* Where the bytes are that nobody looked at yet.  The business thread     *)
(* still has the events of its list from First on; a list promises to read *)
(* if a "recv" stands in it with no "close" before it.  Unless the         *)
(* application closed or refused, only the data thread closes, and by then *)
(* its last bytes are promised.                                            *)
NoClose(s, a) == \A i \in a .. Len(s) : s[i] # "close"
Ahead(s, a) == \E i \in a .. Len(s) : s[i] = "recv" /\ \A j \in a .. i : s[j] # "close"

Promised == Ahead(hand, First) \/ (NoClose(hand, First) /\ Ahead(queue, 1))
Unclosed == NoClose(hand, First) /\ NoClose(queue, 1)

ByPeer == ~ eof /\ "refused" \notin excuse

OnlyDataThread ==
  /\ \A t \in Thread : wpc[t] \notin {"unbind", "error", "post"}
  /\ ~ bound => error \/ dpc = "error"
  /\ dpc = "post" => error
  /\ error \/ Unclosed

Reading ==
  /\ wpc["business"] \in {"read", "return"} => hand # << >> /\ Head(hand) = "recv"
  /\ wpc["business"] # "send"
  /\ look # 0 => wpc["business"] = "read"

ReadInv ==
  /\ Reading
  /\ ByPeer => OnlyDataThread
  /\ ByPeer /\ taken + look < received =>
       Promised \/ (~ error /\ dpc \in {"recv", "notify", "offer"})

LEMMA SameLists ==
  ASSUME UNCHANGED <<queue, hand>>, wpc'["business"] = wpc["business"]
  PROVE  (Promised' <=> Promised) /\ (Unclosed' <=> Unclosed)
BY DEF Promised, Unclosed, First

LEMMA AppendLists ==
  ASSUME NEW S, NEW s \in Seq(S), NEW e \in S
  PROVE  /\ Ahead(s, 1) => Ahead(Append(s, e), 1)
         /\ NoClose(s, 1) /\ e # "close" => NoClose(Append(s, e), 1)
         /\ NoClose(s, 1) /\ e = "recv" => Ahead(Append(s, e), 1)
<1>1. /\ Len(Append(s, e)) = Len(s) + 1 /\ Len(s) \in Nat
      /\ \A i \in 1 .. Len(s) : Append(s, e)[i] = s[i]
      /\ Append(s, e)[Len(s) + 1] = e
  OBVIOUS
<1>. QED
  BY <1>1 DEF Ahead, NoClose

LEMMA TailLists ==
  ASSUME NEW S, NEW s \in Seq(S), s # << >>
  PROVE  /\ Ahead(s, 2) => Ahead(Tail(s), 1)
         /\ NoClose(s, 2) => NoClose(Tail(s), 1)
         /\ s[1] # "recv" /\ Ahead(s, 1) => Ahead(s, 2)
         /\ s[1] # "close" /\ Ahead(s, 2) => Ahead(s, 1)
         /\ NoClose(s, 1) => NoClose(s, 2)
         /\ s[1] = "close" => ~ Ahead(s, 1) /\ ~ NoClose(s, 1)
<1>1. /\ Len(Tail(s)) = Len(s) - 1 /\ Len(s) \in Nat /\ Len(s) >= 1
      /\ \A i \in 1 .. Len(s) - 1 : Tail(s)[i] = s[i + 1]
  OBVIOUS
<1>2. ASSUME Ahead(s, 2) PROVE Ahead(Tail(s), 1)
  <2>1. PICK i \in 2 .. Len(s) : s[i] = "recv" /\ \A j \in 2 .. i : s[j] # "close"
    BY <1>2 DEF Ahead
  <2>2. /\ i - 1 \in 1 .. Len(Tail(s)) /\ Tail(s)[i - 1] = "recv"
        /\ \A j \in 1 .. (i - 1) : Tail(s)[j] # "close"
    BY <1>1, <2>1
  <2>. QED
    BY <2>2 DEF Ahead
<1>3. NoClose(s, 2) => NoClose(Tail(s), 1)
  BY <1>1 DEF NoClose
<1>4. s[1] # "recv" /\ Ahead(s, 1) => Ahead(s, 2)
  BY <1>1 DEF Ahead
<1>5. s[1] # "close" /\ Ahead(s, 2) => Ahead(s, 1)
  BY <1>1 DEF Ahead
<1>6. /\ NoClose(s, 1) => NoClose(s, 2)
      /\ s[1] = "close" => ~ Ahead(s, 1) /\ ~ NoClose(s, 1)
  BY <1>1 DEF NoClose, Ahead
<1>. QED
  BY <1>2, <1>3, <1>4, <1>5, <1>6

(* Posting an event takes no promise back, and a posted "recv" is one.     *)
LEMMA PostLists ==
  ASSUME Controls, NEW e \in {"open", "recv", "send", "close"}, Post(e),
         wpc'["business"] = wpc["business"]
  PROVE  /\ Promised => Promised'
         /\ Unclosed /\ e # "close" => Unclosed'
         /\ Unclosed /\ e = "recv" => Promised'
<1>1. First' = First /\ hand' = hand
  BY DEF First, Post
<1>2. CASE Waits(e)
  <2>1. queue' = queue
    BY <1>2 DEF Post
  <2>2. e = "recv" /\ NoClose(queue, 1) => Ahead(queue, 1)
    <3>1. Len(queue) \in Nat
      <4> DEFINE Kind == {"open", "recv", "send", "close"}
      <4>1. queue \in Seq(Kind)
        BY DEF Controls
      <4> HIDE DEF Kind
      <4>. QED
        BY <4>1
    <3>2. PICK i \in 1 .. Len(queue) : queue[i] = e
      BY <1>2 DEF Waits
    <3>. QED
      BY <3>1, <3>2 DEF Ahead, NoClose
  <2>. QED
    BY <1>1, <2>1, <2>2 DEF Promised, Unclosed
<1>3. CASE ~ Waits(e)
  <2> DEFINE Kind == {"open", "recv", "send", "close"}
  <2>1. queue' = Append(queue, e) /\ queue \in Seq(Kind) /\ e \in Kind
    BY <1>3 DEF Post, Controls
  <2> HIDE DEF Kind
  <2>2. /\ Ahead(queue, 1) => Ahead(queue', 1)
        /\ NoClose(queue, 1) /\ e # "close" => NoClose(queue', 1)
        /\ NoClose(queue, 1) /\ e = "recv" => Ahead(queue', 1)
    BY <2>1, AppendLists
  <2>. QED
    BY <1>1, <2>2 DEF Promised, Unclosed
<1>. QED
  BY <1>2, <1>3

LEMMA InitRead == Init => ReadInv
BY DEF Init, ReadInv, Reading, OnlyDataThread, Unclosed, NoClose, First, Thread

LEMMA ReadStep == ConnInv /\ ReadInv /\ [Next]_vars => ReadInv'
<1> SUFFICES ASSUME ConnInv, ReadInv, [Next]_vars PROVE ReadInv'
  OBVIOUS
<1> USE DEF ReadInv, Reading, OnlyDataThread, ByPeer, Thread
<1>0. Counts /\ Controls /\ ClosedForReason
  BY DEF ConnInv, TypeOK
<1>w. wpc \in [Thread -> ThreadStates]
  BY <1>0 DEF Controls
<1>b. \A w \in Writer : w # "business"
  BY ConnectionAssumption
<1>1. ASSUME NEW w \in Writer, NEW load \in Loads, Fill(w, load) PROVE ReadInv'
  BY <1>1, <1>w, <1>b, SameLists DEF Fill
<1>2. ASSUME NEW w \in Writer, ConnectionSend(w) PROVE ReadInv'
  BY <1>2, <1>w, <1>b, SameLists DEF ConnectionSend, Modify
<1>3. ASSUME NEW w \in Writer, Close(w) PROVE ReadInv'
  BY <1>3, <1>w, <1>b, SameLists DEF Close
<1>4. ASSUME NEW t \in Thread, CloseUnbind(t) PROVE ReadInv'
  BY <1>4, <1>w DEF CloseUnbind
<1>5. ASSUME NEW t \in Thread, CloseError(t) PROVE ReadInv'
  BY <1>5, <1>w DEF CloseError
<1>6. ASSUME NEW t \in Thread, ClosePost(t) PROVE ReadInv'
  BY <1>6, <1>w DEF ClosePost, Post
<1>take. CASE TakeList
  <2>1. First = 1 /\ First' = 1 /\ Len(hand) = 0 /\ Len(queue') = 0 /\ hand' = queue
    BY <1>take DEF TakeList, First
  <2>2. (Promised => Promised') /\ (Unclosed => Unclosed')
    BY <2>1 DEF Promised, Unclosed, Ahead, NoClose
  <2>. QED
    BY <1>take, <2>2 DEF TakeList
<1>look. CASE LookRecv
  <2>1. wpc'["business"] = "read" /\ taken' + look' = received'
    <3>1. wpc'["business"] = "read"
      BY <1>look, <1>w DEF LookRecv
    <3>2. UNCHANGED <<taken, received>> /\ look' = received - taken
      BY <1>look DEF LookRecv, Unread
    <3>3. taken \in Nat /\ received \in Nat
      BY <1>0 DEF Counts
    <3>. QED
      BY <3>1, <3>2, <3>3
  <2>2. First = 1 /\ First' = 2 /\ UNCHANGED <<queue, hand>>
    BY <1>look, <2>1 DEF LookRecv, First
  <2>3. Unclosed => Unclosed'
    <3>1. hand \in Seq({"open", "recv", "send", "close"}) /\ hand # << >>
      BY <1>look, <1>0 DEF LookRecv, Controls
    <3>. QED
      BY <2>2, <3>1, TailLists DEF Unclosed
  <2>4. ~ (taken' + look' < received')
    <3>1. received \in Nat /\ received' = received
      BY <1>look, <1>0 DEF LookRecv, Counts
    <3>. QED
      BY <2>1, <3>1
  <2>. QED
    BY <1>look, <1>w, <2>1, <2>3, <2>4 DEF LookRecv
<1>move. CASE MoveRecv
  <2>1. wpc'["business"] = "return" /\ UNCHANGED <<queue, hand>> /\ look' = 0
    BY <1>move, <1>w DEF MoveRecv
  <2>2. First' = First
    BY <1>move, <2>1 DEF MoveRecv, First
  <2>3. (Promised' <=> Promised) /\ (Unclosed' <=> Unclosed)
    BY <2>1, <2>2 DEF Promised, Unclosed
  <2>4. ~ eof => (taken' + look' < received' => taken + look < received)
    BY <1>move, <1>0 DEF MoveRecv, Counts
  <2>. QED
    BY <1>move, <1>w, <2>1, <2>3, <2>4 DEF MoveRecv
<1>return. CASE Return
  <2>1. hand \in Seq({"open", "recv", "send", "close"}) /\ hand # << >> /\ hand' = Tail(hand)
    BY <1>return, <1>0 DEF Return, Controls
  <2>2. UNCHANGED <<queue, look, received, taken, eof, error, bound, dpc>>
    BY <1>return DEF Return
  <2>3. CASE wpc' = [wpc EXCEPT !["business"] = "idle"] /\ UNCHANGED excuse
    <3>1. wpc'["business"] = "idle" /\ First' = 1 /\ \A t \in Thread : wpc'[t] = wpc[t] \/ wpc'[t] = "idle"
      BY <2>3, <1>w DEF First
    <3>2. look' = 0
      BY <1>return, <2>2 DEF Return
    <3>3. CASE wpc["business"] = "return"
      <4>1. First = 2
        BY <3>3 DEF First
      <4>2. (Promised => Promised') /\ (Unclosed => Unclosed')
        BY <2>1, <2>2, <3>1, <4>1, TailLists DEF Promised, Unclosed
      <4>. QED
        BY <2>2, <2>3, <3>1, <3>2, <4>2
    <3>4. CASE wpc["business"] = "idle" /\ Head(hand) # "recv"
      <4>1. First = 1 /\ hand[1] # "recv"
        BY <2>1, <3>4 DEF First
      <4>2. CASE hand[1] = "close"
        <5>1. ~ Promised /\ ~ Unclosed
          BY <2>1, <4>1, <4>2, TailLists DEF Promised, Unclosed
        <5>. QED
          BY <2>2, <2>3, <3>1, <3>2, <5>1
      <4>3. CASE hand[1] # "close"
        <5>1. NoClose(hand, 1) => NoClose(hand', 1)
          BY <2>1, TailLists
        <5>2. Ahead(hand, 1) => Ahead(hand', 1)
          BY <2>1, <4>1, TailLists
        <5>3. (Promised => Promised') /\ (Unclosed => Unclosed')
          BY <2>2, <3>1, <4>1, <5>1, <5>2 DEF Promised, Unclosed
        <5>. QED
          BY <2>2, <2>3, <3>1, <3>2, <5>3
      <4>. QED
        BY <4>2, <4>3
    <3>. QED
      BY <1>return, <3>3, <3>4 DEF Return
  <2>4. CASE /\ wpc' = [wpc EXCEPT !["business"] = "unbind"]
             /\ excuse' = excuse \cup {"refused"}
    <3>1. wpc'["business"] = "unbind" /\ "refused" \in excuse'
      BY <2>4, <1>w
    <3>2. look' = 0
      BY <1>return, <2>2 DEF Return
    <3>. QED
      BY <3>1, <3>2
  <2>. QED
    BY <1>return, <2>3, <2>4 DEF Return
<1>7. CASE Report
  BY <1>7, SameLists DEF Report
<1>8. CASE Take
  BY <1>8, SameLists DEF Take, AfterRecv
<1>9. CASE Recv
  <2>1. (eof \/ error) => UNCHANGED received
    BY <1>9 DEF Recv
  <2>2. UNCHANGED <<queue, hand, look, taken, eof, error, bound, wpc>> /\ dpc = "recv" /\ dpc' \in {"recv", "notify"}
    BY <1>9 DEF Recv
  <2>3. ("refused" \in excuse') <=> ("refused" \in excuse)
    <3>1. excuse' = excuse \/ excuse' = excuse \cup {"late data"}
      BY <1>9 DEF Recv
    <3>. QED
      BY <3>1
  <2>. QED
    BY <2>1, <2>2, <2>3, SameLists
<1>10. CASE RecvEnd
  <2>1. ("refused" \in excuse') <=> ("refused" \in excuse)
    <3>1. peer # "refused"
      BY <1>0 DEF Controls
    <3>2. excuse' = excuse \/ excuse' = excuse \cup {peer}
      BY <1>10 DEF RecvEnd
    <3>. QED
      BY <3>1, <3>2
  <2>. QED
    BY <1>10, <2>1, SameLists DEF RecvEnd
<1>11. CASE CheckMark
  <2>1. taken + look < received => Unread >= 1
    BY <1>0 DEF Counts, Unread
  <2>. QED
    BY <1>11, <2>1, SameLists DEF CheckMark, ReachedMark, AfterRecv
<1>recv. CASE NotifyRecv
  <2>1. /\ Promised => Promised'
        /\ Unclosed => Unclosed'
        /\ Unclosed => Promised'
    BY <1>recv, <1>0, PostLists DEF NotifyRecv
  <2>. QED
    BY <1>recv, <2>1 DEF NotifyRecv, AfterRecv, Post
<1>12. CASE Copy
  BY <1>12, SameLists DEF Copy
<1>13. CASE SocketSend
  BY <1>13, SameLists DEF SocketSend
<1>14. CASE SocketFails
  BY <1>14, SameLists DEF SocketFails
<1>15. CASE Drop
  BY <1>15, SameLists DEF Drop
<1>16. CASE Drained
  BY <1>16, SameLists DEF Drained
<1>sent. CASE NotifySend
  <2>1. (Promised => Promised') /\ (Unclosed => Unclosed')
    BY <1>sent, <1>0, PostLists DEF NotifySend
  <2>. QED
    BY <1>sent, <2>1 DEF NotifySend, Post
<1>17. CASE CheckEof
  BY <1>17, SameLists DEF CheckEof, EofCloses
<1>18. CASE Withdraw
  BY <1>18, SameLists DEF Withdraw, Modify
<1>19. CASE Recheck
  BY <1>19, SameLists DEF Recheck
<1>20. CASE Declare
  BY <1>20, SameLists DEF Declare, Modify
<1>21. CASE Judge
  <2>1. ("refused" \in excuse') <=> ("refused" \in excuse)
    BY <1>21 DEF Judge
  <2>. QED
    BY <1>21, <2>1, SameLists DEF Judge, Unbind
<1>22. CASE SetError
  BY <1>22, SameLists DEF SetError
<1>post. CASE NotifyClose
  <2>1. Promised => Promised'
    BY <1>post, <1>0, PostLists DEF NotifyClose
  <2>. QED
    BY <1>post, <2>1 DEF NotifyClose, Post
<1>23. CASE EventDone
  BY <1>23, SameLists DEF EventDone
<1>24. CASE PeerSends
  BY <1>24, SameLists DEF PeerSends, Wake
<1>25. CASE PeerReads
  BY <1>25, SameLists DEF PeerReads, Wake
<1>26. ASSUME NEW e \in PeerEnds, PeerLeaves(e) PROVE ReadInv'
  BY <1>26, SameLists DEF PeerLeaves, Wake
<1>27. CASE UNCHANGED vars
  BY <1>27, SameLists DEF vars
<1>. QED
  BY <1>1, <1>2, <1>3, <1>4, <1>5, <1>6, <1>take, <1>look, <1>move, <1>return, <1>7, <1>8, <1>9, <1>10, <1>11, <1>recv, <1>12, <1>13, <1>14, <1>15, <1>16, <1>sent, <1>17, <1>18, <1>19, <1>20, <1>21, <1>22, <1>post, <1>23, <1>24, <1>25, <1>26, <1>27
  DEF Next, DataThread, BusinessThread, Finish

(* Bytes no callback has looked at, which the data thread announced, and   *)
(* the announcement: a "recv" of the list from position a on.              *)
Unseen == taken + look < received /\ ~ eof /\ dpc \notin {"recv", "notify", "offer"}
Told(s, a) == \E i \in a .. Len(s) : s[i] = "recv"

LEMMA StaysAnnounced ==
  ASSUME Announced, UNCHANGED <<queue, hand>>, First' = First, Unseen' => Unseen
  PROVE  Announced'
BY DEF Announced, Unseen

LEMMA PostTold ==
  ASSUME Controls, NEW e \in {"open", "recv", "send", "close"}, Post(e)
  PROVE  /\ Told(queue, 1) => Told(queue', 1)
         /\ e = "recv" => Told(queue', 1)
<1>1. CASE Waits(e)
  BY <1>1 DEF Post, Waits, Told
<1>2. CASE ~ Waits(e)
  <2> DEFINE Kind == {"open", "recv", "send", "close"}
  <2>1. queue \in Seq(Kind) /\ e \in Kind
    BY DEF Controls
  <2> HIDE DEF Kind
  <2>2. /\ Len(Append(queue, e)) = Len(queue) + 1 /\ Len(queue) \in Nat
        /\ \A i \in 1 .. Len(queue) : Append(queue, e)[i] = queue[i]
        /\ Append(queue, e)[Len(queue) + 1] = e
    BY <2>1
  <2>3. queue' = Append(queue, e)
    BY <1>2 DEF Post
  <2>. QED
    BY <2>2, <2>3 DEF Told
<1>. QED
  BY <1>1, <1>2

LEMMA AnnounceStep == ConnInv /\ Reading /\ Announced /\ [Next]_vars => Announced'
<1> SUFFICES ASSUME ConnInv, Reading, Announced, [Next]_vars PROVE Announced'
  OBVIOUS
<1>0. Counts /\ Controls
  BY DEF ConnInv, TypeOK
<1>w. wpc \in [Thread -> ThreadStates]
  BY <1>0 DEF Controls
<1>b. \A w \in Writer : w # "business"
  BY ConnectionAssumption
<1>told. Announced <=> (Unseen => Told(queue, 1) \/ Told(hand, First))
  BY DEF Announced, Unseen, Told
<1>told1. (Unseen' => Told(queue', 1) \/ Told(hand', First')) => Announced'
  BY DEF Announced, Unseen, Told
<1> USE DEF Unseen, Thread
<1>1. ASSUME NEW w \in Writer, NEW load \in Loads, Fill(w, load) PROVE Announced'
  BY <1>1, <1>w, <1>b, StaysAnnounced DEF Fill, First
<1>2. ASSUME NEW w \in Writer, ConnectionSend(w) PROVE Announced'
  BY <1>2, <1>w, <1>b, StaysAnnounced DEF ConnectionSend, First
<1>3. ASSUME NEW w \in Writer, Close(w) PROVE Announced'
  BY <1>3 DEF Close, Announced
<1>4. ASSUME NEW t \in Thread, CloseUnbind(t) PROVE Announced'
  BY <1>4, <1>w, StaysAnnounced DEF CloseUnbind, First
<1>5. ASSUME NEW t \in Thread, CloseError(t) PROVE Announced'
  BY <1>5, <1>w, StaysAnnounced DEF CloseError, First
<1>6. ASSUME NEW t \in Thread, ClosePost(t) PROVE Announced'
  <2>1. First' = First /\ hand' = hand
    BY <1>6, <1>w DEF ClosePost, Post, First
  <2>2. Told(queue, 1) => Told(queue', 1)
    BY <1>6, <1>0, PostTold DEF ClosePost
  <2>. QED
    BY <1>6, <1>told, <1>told1, <2>1, <2>2 DEF ClosePost, Post
<1>take. CASE TakeList
  <2>1. First = 1 /\ First' = 1 /\ Len(hand) = 0 /\ hand' = queue
    BY <1>take DEF TakeList, First
  <2>2. ~ Told(hand, 1)
    BY <2>1 DEF Told
  <2>. QED
    BY <1>take, <1>told, <1>told1, <2>1, <2>2 DEF TakeList
<1>look. CASE LookRecv
  <2>1. UNCHANGED <<taken, received>> /\ look' = received - taken
    BY <1>look DEF LookRecv, Unread
  <2>2. ~ (taken' + look' < received')
    BY <1>0, <2>1 DEF Counts
  <2>. QED
    BY <2>2 DEF Announced
<1>move. CASE MoveRecv
  <2>1. wpc'["business"] = "return" /\ wpc["business"] = "read" /\ UNCHANGED <<queue, hand>>
    BY <1>move, <1>w DEF MoveRecv
  <2>2. First' = First
    BY <2>1 DEF First
  <2>3. ~ eof => (taken' + look' < received' => taken + look < received)
    BY <1>move, <1>0 DEF MoveRecv, Counts
  <2>. QED
    BY <1>move, <2>1, <2>2, <2>3, StaysAnnounced DEF MoveRecv
<1>return. CASE Return
  <2>1. /\ hand \in Seq({"open", "recv", "send", "close"}) /\ hand # << >>
        /\ hand' = Tail(hand)
    BY <1>return, <1>0 DEF Return, Controls
  <2>2. /\ Len(hand') = Len(hand) - 1 /\ Len(hand) \in Nat \ {0}
        /\ \A i \in 1 .. Len(hand) - 1 : hand'[i] = hand[i + 1]
    BY <2>1
  <2>3. First' = 1
    BY <1>return, <1>w DEF Return, First
  <2>4. Told(hand, First) => Told(hand, 2)
    <3>1. First = 2 \/ (First = 1 /\ hand[1] # "recv")
      BY <1>return, <2>1 DEF Return, First
    <3>. QED
      BY <2>2, <3>1 DEF Told
  <2>5. Told(hand, 2) => Told(hand', 1)
    <3> SUFFICES ASSUME NEW i \in 2 .. Len(hand), hand[i] = "recv" PROVE Told(hand', 1)
      BY DEF Told
    <3>1. i - 1 \in 1 .. Len(hand') /\ hand'[i - 1] = "recv"
      BY <2>2
    <3>. QED
      BY <3>1 DEF Told
  <2>. QED
    BY <1>return, <1>told, <1>told1, <2>3, <2>4, <2>5 DEF Return
<1>7. CASE Report
  BY <1>7, StaysAnnounced DEF Report, First
<1>8. CASE Take
  BY <1>8, StaysAnnounced DEF Take, First
<1>9. CASE Recv
  BY <1>9 DEF Recv, Announced
<1>10. CASE RecvEnd
  BY <1>10 DEF RecvEnd, Announced
<1>11. CASE CheckMark
  <2>1. taken + look < received => Unread >= 1
    BY <1>0 DEF Counts, Unread
  <2>2. UNCHANGED <<taken, look, received>>
    BY <1>11 DEF CheckMark
  <2>. QED
    BY <1>11, <2>1, <2>2 DEF CheckMark, ReachedMark, Announced
<1>recv. CASE NotifyRecv
  <2>1. Told(queue', 1)
    BY <1>recv, <1>0, PostTold DEF NotifyRecv
  <2>. QED
    BY <1>told1, <2>1
<1>12. CASE Copy
  BY <1>12, StaysAnnounced DEF Copy, First
<1>13. CASE SocketSend
  BY <1>13, StaysAnnounced DEF SocketSend, First
<1>14. CASE SocketFails
  BY <1>14, StaysAnnounced DEF SocketFails, First
<1>15. CASE Drop
  BY <1>15, StaysAnnounced DEF Drop, First
<1>16. CASE Drained
  BY <1>16, StaysAnnounced DEF Drained, First
<1>sent. CASE NotifySend
  <2>1. First' = First /\ hand' = hand
    BY <1>sent DEF NotifySend, Post, First
  <2>2. Told(queue, 1) => Told(queue', 1)
    BY <1>sent, <1>0, PostTold DEF NotifySend
  <2>. QED
    BY <1>sent, <1>told, <1>told1, <2>1, <2>2 DEF NotifySend, Post
<1>17. CASE CheckEof
  BY <1>17, StaysAnnounced DEF CheckEof, First
<1>18. CASE Withdraw
  BY <1>18, StaysAnnounced DEF Withdraw, First
<1>19. CASE Recheck
  BY <1>19, StaysAnnounced DEF Recheck, First
<1>20. CASE Declare
  BY <1>20, StaysAnnounced DEF Declare, First
<1>21. CASE Judge
  BY <1>21, StaysAnnounced DEF Judge, First
<1>22. CASE SetError
  BY <1>22, StaysAnnounced DEF SetError, First
<1>post. CASE NotifyClose
  <2>1. First' = First /\ hand' = hand
    BY <1>post DEF NotifyClose, Post, First
  <2>2. Told(queue, 1) => Told(queue', 1)
    BY <1>post, <1>0, PostTold DEF NotifyClose
  <2>. QED
    BY <1>post, <1>told, <1>told1, <2>1, <2>2 DEF NotifyClose, Post
<1>23. CASE EventDone
  BY <1>23, StaysAnnounced DEF EventDone, First
<1>24. CASE PeerSends
  BY <1>24, StaysAnnounced DEF PeerSends, First
<1>25. CASE PeerReads
  BY <1>25, StaysAnnounced DEF PeerReads, First
<1>26. ASSUME NEW e \in PeerEnds, PeerLeaves(e) PROVE Announced'
  BY <1>26, StaysAnnounced DEF PeerLeaves, First
<1>27. CASE UNCHANGED vars
  BY <1>27, StaysAnnounced DEF vars, First
<1>. QED
  BY <1>1, <1>2, <1>3, <1>4, <1>5, <1>6, <1>take, <1>look, <1>move, <1>return, <1>7, <1>8, <1>9, <1>10, <1>11, <1>recv, <1>12, <1>13, <1>14, <1>15, <1>16, <1>sent, <1>17, <1>18, <1>19, <1>20, <1>21, <1>22, <1>post, <1>23, <1>24, <1>25, <1>26, <1>27
  DEF Next, DataThread, BusinessThread, Finish

LEMMA SpecInv == Spec => []ConnInv
<1>1. ConnInv /\ [Next]_vars => ConnInv'
  BY CountStep, ControlStep, ChunkStep, ReasonStep DEF ConnInv, TypeOK
<1>. QED
  BY <1>1, InitInv, PTL DEF Spec

(* The buffers never hold less than nothing: every byte that leaves the    *)
(* send buffer was given to the socket before, and was written before.     *)
THEOREM TypeCorrect == Spec => []TypeOK
BY SpecInv, PTL DEF ConnInv

(* Whatever the writers add and however little the socket takes, the bytes *)
(* leave in the order they were written, each once.                        *)
THEOREM BytesInOrder == Spec => []InOrder
<1>1. ConnInv => InOrder
  BY DEF ConnInv, ChunkInHand, InOrder
<1>. QED
  BY <1>1, SpecInv, PTL

(* Bytes are left behind only for one of the reasons of UnsentExcused.     *)
THEOREM NoByteLeftUnexcused == Spec => []UnsentExcused
<1>1. ConnInv => UnsentExcused
  BY DEF ConnInv, TypeOK, Counts, ClosedForReason, Excused, UnsentExcused
<1>. QED
  BY <1>1, SpecInv, PTL

(* What the peer sent is read before on_close: for every chunk size and    *)
(* however the events merge, recv_notify stays ahead of close_notify.      *)
THEOREM ReceivedIsRead == Spec => []ReadBeforeClose
<1>1. ConnInv /\ ReadInv => ReadBeforeClose
  <2> SUFFICES ASSUME ConnInv, ReadInv, hand # << >>, Head(hand) = "close", ByPeer
               PROVE  Unread = 0
    BY DEF ReadBeforeClose, ByPeer
  <2>1. First = 1 /\ look = 0
    BY DEF ReadInv, Reading, First
  <2>2. ~ Promised /\ ~ Unclosed
    <3>1. hand \in Seq({"open", "recv", "send", "close"})
      BY DEF ConnInv, TypeOK, Controls
    <3>2. hand[1] = "close"
      BY <3>1
    <3>. QED
      BY <2>1, <3>1, <3>2, TailLists DEF Promised, Unclosed
  <2>3. ~ (taken + look < received)
    BY <2>2 DEF ReadInv, OnlyDataThread
  <2>. QED
    BY <2>1, <2>3 DEF ConnInv, TypeOK, Counts, Unread
<1>2. ConnInv /\ ReadInv /\ [Next]_vars => ReadInv'
  BY ReadStep
<1>. QED
  BY <1>1, <1>2, InitRead, SpecInv, PTL DEF Spec

(* No recv_notify is lost between the data thread that posts one and the   *)
(* callback that looks: bytes not looked at have one waiting or in hand.   *)
THEOREM RecvAnnounced == Spec => []Announced
<1>1. Init => Announced
  BY DEF Init, Announced
<1>2. ConnInv /\ ReadInv /\ [Next]_vars => ReadInv'
  BY ReadStep
<1>3. ConnInv /\ ReadInv /\ Announced /\ [Next]_vars => Announced'
  BY AnnounceStep DEF ReadInv
<1>. QED
  BY <1>1, <1>2, <1>3, InitRead, SpecInv, PTL DEF Spec
=============================================================================
