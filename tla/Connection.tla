----------------------------- MODULE Connection -----------------------------
(***************************************************************************)
(* The bytes of one bound TcpConnection (src/net/xactor/connection.cpp)    *)
(* and the edge-triggered interest of epoll that moves them (connection_   *)
(* send, modify_connection_of_reactor, do_recv, do_send and                *)
(* reactor_data_process of src/net/xactor/reactor.cpp).                    *)
(*                                                                         *)
(* A byte is its position in the stream, so a buffer is the interval       *)
(* between the bytes that left it and the bytes that entered it.  A step   *)
(* is one critical section of the connection's lock or one system call;    *)
(* the threads are the writers of the application, the data thread the     *)
(* connection belongs to, and its business thread, which takes the list of *)
(* events as a whole and reads in a callback after that.  The socket,      *)
(* epoll and the peer are the environment.                                 *)
(***************************************************************************)
EXTENDS Integers, Sequences, FiniteSets

CONSTANTS
  Writer,      \* threads of the application that send on the connection
  Chunk,       \* bytes do_send and do_recv move at once (buff_siz)
  Room,        \* capacity of the socket's send buffer
  Loads,       \* bound: pairs of the bytes the application and the peer have sent
  MaxEvents,   \* bound, for each of these: data events waiting for the data thread
  PeerEnds     \* what the peer may do to end: a subset of {"fin", "reset"}

ASSUME ConnectionAssumption ==
  /\ Chunk \in Nat \ {0} /\ Room \in Nat \ {0}
  /\ Loads \subseteq Nat \X Nat /\ <<0, 0>> \in Loads /\ MaxEvents \in [Loads -> Nat \ {0}]
  /\ PeerEnds \subseteq {"fin", "reset"}
  /\ "business" \notin Writer

VARIABLES
  written,     \* bytes that entered m_send_buffer
  dropped,     \* bytes that left it
  handed,      \* bytes given to the socket
  fetched,     \* bytes the peer has read
  incoming,    \* bytes in the socket's receive buffer
  arrived,     \* bytes the peer has sent so far
  received,    \* bytes that entered m_recv_buffer
  taken,       \* bytes the callbacks took from it
  peer,        \* "open", "fin" or "reset"
  nospace,     \* send or epoll met a full socket: the next room raises an edge
  eof,         \* m_eof
  error,       \* m_error
  bound,       \* the connection is in m_binded_connection_set and in epoll
  interest,    \* {"recv"} or {"recv", "send"}: EPOLLIN and EPOLLOUT
  ready,       \* the connection is on the ready list of epoll
  events,      \* data events of the connection; the head is the one in hand
  queue,       \* business events that wait: "open", "recv", "send", "close"
  hand,        \* business events the business thread took from the list
  look,        \* recv_buffer_size as the callback saw it
  dpc,         \* control of the data thread
  from, size,  \* the chunk do_send copied: first byte and length
  good,        \* good of reactor_data_process
  wpc,         \* control of the writers and of the business thread
  excuse       \* history: what else than its own close() ended the connection, and
               \* "memory" if a fill failed

Thread == Writer \cup {"business"}

buffers == <<written, dropped, received, taken>>
socket == <<handed, fetched, incoming, arrived, peer, nospace>>
flags == <<eof, error, bound>>
epoll == <<interest, ready>>
data == <<dpc, from, size, good>>
business == <<queue, hand, look>>

vars == <<buffers, socket, flags, epoll, events, business, data, wpc, excuse>>

Unsent == written - dropped
Unread == received - taken
Free == Room - (handed - fetched)

(* The connection is registered and its accept_notify or connect_notify,   *)
(* "open" here, waits.                                                     *)
Init ==
  /\ written = 0 /\ dropped = 0 /\ received = 0 /\ taken = 0
  /\ handed = 0 /\ fetched = 0 /\ incoming = 0 /\ arrived = 0
  /\ peer = "open" /\ nospace = FALSE
  /\ eof = FALSE /\ error = FALSE /\ bound = TRUE
  /\ interest = {"recv"} /\ ready = FALSE
  /\ events = << >>
  /\ queue = <<"open">> /\ hand = << >> /\ look = 0
  /\ dpc = "idle" /\ from = 0 /\ size = 0 /\ good = TRUE
  /\ wpc = [t \in Thread |-> "idle"]
  /\ excuse = {}

-----------------------------------------------------------------------------
(* modify_connection_of_reactor: it fails once the connection has left     *)
(* epoll; else epoll looks at the socket again under the new interest.     *)
Modify(send) ==
  IF bound
    THEN /\ interest' = IF send THEN {"recv", "send"} ELSE {"recv"}
         /\ ready' = TRUE
    ELSE UNCHANGED epoll

(* delete_connection_from_reactor, the first half of close_connection. *)
Unbind ==
  /\ bound' = FALSE
  /\ ready' = FALSE

\* Mutant of Waits: an event also merges with the one being handled.
WaitsOrHeld(e) == \E i \in 1 .. Len(queue \o hand) : (queue \o hand)[i] = e

(* append_business_event: an event merges with an equal one that waits in  *)
(* the list.  Those the business thread took are no longer in it.          *)
Waits(e) == \E i \in 1 .. Len(queue) : queue[i] = e

\* Mutant of Post: the newest event is handled first.
PostFirst(e) ==
  /\ queue' = IF Waits(e) THEN queue ELSE <<e>> \o queue
  /\ UNCHANGED <<hand, look>>

Post(e) ==
  /\ queue' = IF Waits(e) THEN queue ELSE Append(queue, e)
  /\ UNCHANGED <<hand, look>>

-----------------------------------------------------------------------------
(* The application.  send_buffer_fill_len under the lock; it returns false *)
(* if memory runs out when a part of the data is in the buffer ...         *)
Fill(w, load) ==
  /\ wpc[w] = "idle" /\ ~ eof /\ ~ error
  /\ load[1] > written /\ load[2] = arrived
  /\ written' = load[1]
  /\ \/ /\ wpc' = [wpc EXCEPT ![w] = IF Unsent = 0 THEN "send" ELSE "idle"]
        /\ UNCHANGED excuse
     \/ UNCHANGED wpc /\ excuse' = excuse \cup {"memory"}
  /\ UNCHANGED <<dropped, received, taken, socket, flags, epoll, events, business, data>>

(* ... and connection_send if the buffer was empty before. *)
ConnectionSend(w) ==
  /\ wpc[w] = "send"
  /\ Modify(TRUE)
  /\ wpc' = [wpc EXCEPT ![w] = "idle"]
  /\ UNCHANGED <<buffers, socket, flags, events, business, data, excuse>>

\* Mutant of CloseNow: close() does not wait for the bytes left to send.
CloseAlways == TRUE

(* close() under the lock: with bytes left to send it is left to the data  *)
(* thread to close the connection.                                         *)
CloseNow == Unsent = 0
Close(w) ==
  /\ wpc[w] = "idle" /\ ~ eof /\ ~ error
  /\ eof' = TRUE
  /\ wpc' = [wpc EXCEPT ![w] = IF CloseNow THEN "unbind" ELSE "idle"]
  /\ UNCHANGED <<buffers, socket, error, bound, epoll, events, business, data, excuse>>

(* close_connection: leave the binded set and epoll, then set_error, then  *)
(* close_notify.                                                           *)
CloseUnbind(t) ==
  /\ wpc[t] = "unbind"
  /\ IF bound
       THEN /\ Unbind
            /\ wpc' = [wpc EXCEPT ![t] = "error"]
       ELSE /\ wpc' = [wpc EXCEPT ![t] = "idle"]
            /\ UNCHANGED <<bound, ready>>
  /\ UNCHANGED <<buffers, socket, eof, error, interest, events, business, data, excuse>>

CloseError(t) ==
  /\ wpc[t] = "error"
  /\ error' = TRUE
  /\ wpc' = [wpc EXCEPT ![t] = "post"]
  /\ UNCHANGED <<buffers, socket, eof, bound, epoll, events, business, data, excuse>>

ClosePost(t) ==
  /\ wpc[t] = "post"
  /\ Post("close")
  /\ wpc' = [wpc EXCEPT ![t] = "idle"]
  /\ UNCHANGED <<buffers, socket, flags, epoll, events, data, excuse>>

-----------------------------------------------------------------------------
(* The business thread.  delete_business_event: it takes all that waits.   *)
TakeList ==
  /\ wpc["business"] = "idle" /\ hand = << >> /\ queue # << >>
  /\ hand' = queue
  /\ queue' = << >>
  /\ UNCHANGED <<buffers, socket, flags, epoll, events, look, data, wpc, excuse>>

(* on_recv asks how much there is (recv_buffer_size) ...                   *)
LookRecv ==
  /\ wpc["business"] = "idle" /\ hand # << >> /\ Head(hand) = "recv"
  /\ look' = Unread
  /\ wpc' = [wpc EXCEPT !["business"] = "read"]
  /\ UNCHANGED <<buffers, socket, flags, epoll, events, queue, hand, data, excuse>>

(* ... and takes as much (recv_buffer_move_len, which refuses after eof).  *)
MoveRecv ==
  /\ wpc["business"] = "read"
  /\ taken' = IF eof THEN taken ELSE taken + look
  /\ look' = 0
  /\ wpc' = [wpc EXCEPT !["business"] = "return"]
  /\ UNCHANGED <<written, dropped, received, socket, flags, epoll, events, queue, hand, data, excuse>>

(* A callback returns.  Any but on_close may return false, and the         *)
(* connection is closed for that.                                          *)
Return ==
  /\ hand # << >>
  /\ \/ wpc["business"] = "return"
     \/ wpc["business"] = "idle" /\ Head(hand) # "recv"
  /\ hand' = Tail(hand)
  /\ \/ wpc' = [wpc EXCEPT !["business"] = "idle"] /\ UNCHANGED excuse
     \/ /\ Head(hand) # "close"
        /\ wpc' = [wpc EXCEPT !["business"] = "unbind"]
        /\ excuse' = excuse \cup {"refused"}
  /\ UNCHANGED <<buffers, socket, flags, epoll, events, queue, look, data>>

-----------------------------------------------------------------------------
(* epoll_wait and the dispatch of reactor_connection_process: a ready      *)
(* connection is reported once, with what holds of its socket by then.     *)
(* Looking at a full socket makes the next room raise an edge, too.        *)
Report ==
  /\ ready /\ bound /\ Len(events) < MaxEvents[<<written, arrived>>]
  /\ ready' = FALSE
  /\ LET seen ==
           {f \in {"recv", "send", "exception"} :
              \/ f = "recv" /\ (incoming > 0 \/ peer # "open")
              \/ f = "send" /\ "send" \in interest /\ (Free > 0 \/ peer = "reset")
              \/ f = "exception" /\ peer = "reset"}
     IN events' = IF seen = {} THEN events ELSE Append(events, seen)
  /\ IF Free = 0 THEN nospace' = TRUE ELSE UNCHANGED nospace
  /\ UNCHANGED <<buffers, handed, fetched, incoming, arrived, peer, flags, interest, business, data, wpc, excuse>>

(* reactor_data_process takes the next event. *)
AfterRecv == IF "send" \in Head(events) THEN "send" ELSE "judge"
Take ==
  /\ dpc = "idle" /\ events # << >>
  /\ good' = TRUE
  /\ dpc' = IF "recv" \in Head(events) THEN "recv" ELSE AfterRecv
  /\ UNCHANGED <<buffers, socket, flags, epoll, events, business, from, size, wpc, excuse>>

(* do_recv, one turn of its loop.  recv_buffer_fill_len refuses the bytes  *)
(* after eof or error, and the connection is closed for that.              *)
Recv ==
  /\ dpc = "recv" /\ incoming > 0
  /\ \E k \in 1 .. Chunk :
       /\ k = Chunk \/ k = incoming
       /\ k <= incoming
       /\ incoming' = incoming - k
       /\ IF eof \/ error
            THEN /\ good' = FALSE
                 /\ dpc' = "notify"
                 /\ excuse' = excuse \cup {"late data"}
                 /\ UNCHANGED received
            ELSE /\ received' = received + k
                 /\ UNCHANGED <<good, dpc, excuse>>
  /\ UNCHANGED <<written, dropped, taken, handed, fetched, arrived, peer, nospace, flags, epoll,
                 events, business, from, size, wpc>>

RecvEnd ==
  /\ dpc = "recv" /\ incoming = 0
  /\ IF peer = "open"
       THEN UNCHANGED <<good, excuse>>
       ELSE good' = FALSE /\ excuse' = excuse \cup {peer}
  /\ dpc' = "notify"
  /\ UNCHANGED <<buffers, socket, flags, epoll, events, business, from, size, wpc>>

\* Mutant of ReachedMark: the water mark must be exceeded.
BeyondMark == Unread > 1

(* Is the water mark (1) reached?  If so, recv_notify is appended.         *)
ReachedMark == Unread >= 1
CheckMark ==
  /\ dpc = "notify"
  /\ dpc' = IF ReachedMark THEN "offer" ELSE AfterRecv
  /\ UNCHANGED <<buffers, socket, flags, epoll, events, business, from, size, good, wpc, excuse>>

NotifyRecv ==
  /\ dpc = "offer"
  /\ Post("recv")
  /\ dpc' = AfterRecv
  /\ UNCHANGED <<buffers, socket, flags, epoll, events, from, size, good, wpc, excuse>>

-----------------------------------------------------------------------------
(* do_send, one turn of its loop: measure and copy a chunk (the buffer can *)
(* only grow in between) ...                                               *)
Copy ==
  /\ dpc = "send" /\ "send" \in Head(events)
  /\ IF Unsent = 0
       THEN dpc' = "drained" /\ UNCHANGED <<from, size, good>>
       ELSE IF error
         THEN dpc' = "judge" /\ good' = FALSE /\ UNCHANGED <<from, size>>
         ELSE /\ from' = dropped
              /\ size' = IF Unsent < Chunk THEN Unsent ELSE Chunk
              /\ dpc' = "socket"
              /\ UNCHANGED good
  /\ UNCHANGED <<buffers, socket, flags, epoll, events, business, wpc, excuse>>

(* ... give it to the socket, which takes what it has room for ...         *)
Accepted == IF Free < size THEN Free ELSE size
SocketSend ==
  /\ dpc = "socket" /\ peer # "reset"
  /\ handed' = handed + Accepted
  /\ IF Free < size THEN nospace' = TRUE ELSE UNCHANGED nospace
  /\ dpc' = IF Free = 0 THEN "drained" ELSE "drop"
  /\ UNCHANGED <<written, dropped, received, taken, fetched, incoming, arrived, peer, flags, epoll,
                 events, business, from, size, good, wpc, excuse>>

SocketFails ==
  /\ dpc = "socket" /\ peer = "reset"
  /\ good' = FALSE
  /\ excuse' = excuse \cup {"reset"}
  /\ dpc' = "judge"
  /\ UNCHANGED <<buffers, socket, flags, epoll, events, business, from, size, wpc>>

\* Mutant of Taken: a short send drops nothing.
TakenNothing == IF handed < from + size THEN from ELSE handed

\* Mutant of Taken: the whole chunk is dropped after a short send.
TakenWhole == from + size

(* ... and drop what it took; less than the chunk ends the loop. *)
Taken == handed
Drop ==
  /\ dpc = "drop"
  /\ IF error
       THEN good' = FALSE /\ dpc' = "judge" /\ UNCHANGED dropped
       ELSE /\ dropped' = Taken
            /\ dpc' = IF handed = from + size THEN "send" ELSE "drained"
            /\ UNCHANGED good
  /\ UNCHANGED <<written, received, taken, socket, flags, epoll, events, business, from, size, wpc,
                 excuse>>

(* After do_send returned true: is the send buffer empty?  If so,          *)
(* send_notify is appended, a connection with eof is closed and one with   *)
(* an error is left alone; else the interest in sending is withdrawn ...   *)
Drained ==
  /\ dpc = "drained"
  /\ dpc' = IF Unsent = 0 THEN "sent" ELSE "judge"
  /\ UNCHANGED <<buffers, socket, flags, epoll, events, business, from, size, good, wpc, excuse>>

NotifySend ==
  /\ dpc = "sent"
  /\ Post("send")
  /\ dpc' = "eof"
  /\ UNCHANGED <<buffers, socket, flags, epoll, events, from, size, good, wpc, excuse>>

\* Mutant of EofCloses: an emptied send buffer does not complete close().
EofIgnored == FALSE

EofCloses == eof
CheckEof ==
  /\ dpc = "eof"
  /\ IF EofCloses
       THEN /\ good' = FALSE
            /\ dpc' = "judge"
            /\ excuse' = IF Unsent = 0 THEN excuse ELSE excuse \cup {"stale size"}
       ELSE /\ dpc' = IF error THEN "judge" ELSE "withdraw"
            /\ UNCHANGED <<good, excuse>>
  /\ UNCHANGED <<buffers, socket, flags, epoll, events, business, from, size, wpc>>

Withdraw ==
  /\ dpc = "withdraw"
  /\ Modify(FALSE)
  /\ dpc' = IF bound THEN "recheck" ELSE "judge"
  /\ UNCHANGED <<buffers, socket, flags, events, business, from, size, good, wpc, excuse>>

\* Mutant of Refilled: the second look at the send buffer is left out.
NeverAgain == FALSE

(* ... and declared again if a writer filled the buffer meanwhile. *)
Refilled == Unsent # 0
Recheck ==
  /\ dpc = "recheck"
  /\ dpc' = IF Refilled THEN "declare" ELSE "judge"
  /\ UNCHANGED <<buffers, socket, flags, epoll, events, business, from, size, good, wpc, excuse>>

Declare ==
  /\ dpc = "declare"
  /\ Modify(TRUE)
  /\ dpc' = "judge"
  /\ UNCHANGED <<buffers, socket, flags, events, business, from, size, good, wpc, excuse>>

(* do_close if anything failed; the event is done. *)
Judge ==
  /\ dpc = "judge"
  /\ IF ~ good \/ "exception" \in Head(events)
       THEN IF bound
              THEN Unbind /\ dpc' = "error"
              ELSE dpc' = "done" /\ UNCHANGED <<bound, ready>>
       ELSE dpc' = "done" /\ UNCHANGED <<bound, ready>>
  /\ excuse' = IF "exception" \in Head(events) THEN excuse \cup {"reset"} ELSE excuse
  /\ UNCHANGED <<buffers, socket, eof, error, interest, events, business, from, size, good, wpc>>

SetError ==
  /\ dpc = "error"
  /\ error' = TRUE
  /\ dpc' = "post"
  /\ UNCHANGED <<buffers, socket, eof, bound, epoll, events, business, from, size, good, wpc,
                 excuse>>

NotifyClose ==
  /\ dpc = "post"
  /\ Post("close")
  /\ dpc' = "done"
  /\ UNCHANGED <<buffers, socket, flags, epoll, events, from, size, good, wpc, excuse>>

EventDone ==
  /\ dpc = "done"
  /\ events' = Tail(events)
  /\ dpc' = "idle"
  /\ UNCHANGED <<buffers, socket, flags, epoll, business, from, size, good, wpc, excuse>>

-----------------------------------------------------------------------------
(* The peer.  Bytes or an end that arrive make the connection ready; room  *)
(* in the send buffer does so after a send that found too little, if the   *)
(* reactor is interested.                                                  *)
Wake == IF bound THEN ready' = TRUE ELSE UNCHANGED ready

PeerSends ==
  /\ peer = "open" /\ <<written, arrived + 1>> \in Loads
  /\ arrived' = arrived + 1
  /\ incoming' = incoming + 1
  /\ Wake
  /\ UNCHANGED <<buffers, handed, fetched, peer, nospace, flags, interest, events, business,
                 data, wpc, excuse>>

PeerReads ==
  /\ peer # "reset" /\ fetched < handed
  /\ fetched' = handed
  /\ nospace' = FALSE
  /\ IF nospace /\ "send" \in interest THEN Wake ELSE UNCHANGED ready
  /\ UNCHANGED <<buffers, handed, incoming, arrived, peer, flags, interest, events, business,
                 data, wpc, excuse>>

PeerLeaves(e) ==
  /\ peer = "open" /\ e \in PeerEnds
  /\ peer' = e
  /\ Wake
  /\ UNCHANGED <<buffers, handed, fetched, incoming, arrived, nospace, flags, interest, events,
                 business, data, wpc, excuse>>

-----------------------------------------------------------------------------
DataThread ==
  \/ Take \/ Recv \/ RecvEnd \/ CheckMark \/ NotifyRecv \/ Copy \/ SocketSend \/ SocketFails
  \/ Drop \/ Drained \/ NotifySend \/ CheckEof \/ Withdraw \/ Recheck \/ Declare \/ Judge
  \/ SetError \/ NotifyClose \/ EventDone

Finish(t) == CloseUnbind(t) \/ CloseError(t) \/ ClosePost(t)

BusinessThread == TakeList \/ LookRecv \/ MoveRecv \/ Return

Next ==
  \/ \E w \in Writer : ConnectionSend(w) \/ Close(w) \/ \E load \in Loads : Fill(w, load)
  \/ \E t \in Thread : Finish(t)
  \/ BusinessThread
  \/ Report
  \/ DataThread
  \/ PeerSends \/ PeerReads \/ \E e \in PeerEnds : PeerLeaves(e)

Spec == Init /\ [][Next]_vars

(* The threads of the reactor run, a writer inside a call gets through it, *)
(* and the peer reads what it is sent.  Nobody has to write, to close or   *)
(* to end the connection.                                                  *)
Fairness ==
  /\ WF_vars(Report)
  /\ WF_vars(DataThread)
  /\ WF_vars(BusinessThread \/ Finish("business"))
  /\ \A w \in Writer : WF_vars(ConnectionSend(w) \/ Finish(w))
  /\ WF_vars(PeerReads)

FairSpec == Spec /\ Fairness

-----------------------------------------------------------------------------
DataStates == {"idle", "recv", "notify", "offer", "send", "socket", "drop", "drained", "sent",
               "eof", "withdraw", "recheck", "declare", "judge", "error", "post", "done"}

ThreadStates == {"idle", "send", "read", "return", "unbind", "error", "post"}

Counts ==
  /\ written \in Nat /\ dropped \in Nat /\ received \in Nat /\ taken \in Nat /\ look \in Nat
  /\ handed \in Nat /\ fetched \in Nat /\ arrived \in Nat /\ incoming \in Nat
  /\ dropped <= handed /\ handed <= written /\ fetched <= handed
  /\ taken + look <= received
  /\ handed - fetched <= Room
  /\ from \in Nat /\ size \in Nat

Controls ==
  /\ peer \in {"open", "fin", "reset"} /\ nospace \in BOOLEAN
  /\ eof \in BOOLEAN /\ error \in BOOLEAN /\ bound \in BOOLEAN
  /\ interest \in {{"recv"}, {"recv", "send"}} /\ ready \in BOOLEAN
  /\ events \in Seq(SUBSET {"recv", "send", "exception"})
  /\ queue \in Seq({"open", "recv", "send", "close"})
  /\ hand \in Seq({"open", "recv", "send", "close"})
  /\ dpc \in DataStates
  /\ good \in BOOLEAN
  /\ wpc \in [Thread -> ThreadStates]
  /\ excuse \subseteq {"refused", "late data", "stale size", "fin", "reset", "memory"}

(* The types of the state; the buffers never hold less than nothing.       *)
TypeOK == Counts /\ Controls

(* Every byte the application wrote goes to the socket once and in order:  *)
(* a chunk begins where the bytes sent before it end, whatever the socket  *)
(* took of them and whatever the writers added meanwhile.                  *)
InOrder == dpc = "socket" => from = handed /\ from + size <= written

(* A connection is closed with bytes still unsent only if the peer ended   *)
(* it, a callback refused it, data arrived after close(), or close() came  *)
(* between the two looks of the data thread at size and eof; never because *)
(* a fill failed.                                                          *)
UnsentExcused == ~ bound /\ handed < written => \E e \in excuse : e # "memory"

(* What is written goes out as long as the peer reads and nothing closes   *)
(* the connection: no edge of epoll is lost between the writers that       *)
(* declare the interest in sending and the data thread that withdraws it.  *)
(* Not so after a fill that failed: it stores bytes without declaring it.  *)
NoLostSend ==
  (handed < written) ~> (handed = written \/ ~ bound \/ "memory" \in excuse)

(* What the data thread receives is taken by the callbacks: recv_notify is *)
(* not lost when it merges with one that waits, nor when bytes arrive      *)
(* between the callback's look at the buffer and the end of its event.     *)
NoLostRecv ==
  (taken < received) ~> (taken = received \/ eof \/ ~ bound)

(* Bytes that no callback has looked at have a recv_notify that waits or   *)
(* is in hand with its callback still to look, or the data thread is about *)
(* to post one.                                                            *)
First == IF wpc["business"] \in {"read", "return"} THEN 2 ELSE 1
Announced ==
  taken + look < received /\ ~ eof /\ dpc \notin {"recv", "notify", "offer"} =>
    \/ \E i \in 1 .. Len(queue) : queue[i] = "recv"
    \/ \E i \in First .. Len(hand) : hand[i] = "recv"

(* What the peer sent before it ended the connection is read before        *)
(* on_close is called: recv_notify stays ahead of close_notify through     *)
(* every merge, unless the application itself closed or refused.           *)
ReadBeforeClose ==
  hand # << >> /\ Head(hand) = "close" /\ ~ eof /\ "refused" \notin excuse => Unread = 0

(* close() closes: at once, or when the send buffer has drained (which it  *)
(* may never do after a fill that failed).                                 *)
CloseCompletes == eof ~> (error \/ "memory" \in excuse)

(* The promise of set_eof() and close(): no more data is received, but the *)
(* send buffer is still sent.  Arriving data does not make the connection  *)
(* drop it.                                                                *)
LateDataHarmless == ~ bound /\ handed < written => excuse # {"late data"}

=============================================================================
