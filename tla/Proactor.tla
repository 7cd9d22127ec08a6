------------------------------ MODULE Proactor ------------------------------
(***************************************************************************)
(* One connection of the Windows build: TcpXactor over an I/O completion   *)
(* port (src/net/xactor/proactor.cpp) with the overlapped send and receive *)
(* of TcpConnection (src/net/xactor/connection.cpp).                       *)
(*                                                                         *)
(* The connection is made by an IOCP thread in do_accept or by a thread in *)
(* create_connection.  From then on the IOCP threads handle its            *)
(* completions, one business thread its events, and the application calls  *)
(* send_buffer_fill_len and close from its callbacks and from threads of   *)
(* its own.  A step is one critical section, or one unlocked use of        *)
(* m_async_send.  The bytes of the stream are numbered from 1.             *)
(***************************************************************************)
EXTENDS Integers, Sequences, FiniteSets, SequencesExt

CONSTANTS
  Maker,     \* the thread that makes the connection
  Iocp,      \* the threads of the completion port
  Biz,       \* the business thread of the connection
  App,       \* the threads of the application
  Chunk,     \* bytes m_async_send.buffer holds (buffer_size)
  Scenarios  \* what may happen: the IOCP threads that run, how the peer may end
             \* the connection ("fin", "reset"), what fails ("bind", "recv"), and
             \* bounds: bytes the application writes, receives that end with data

ASSUME ProactorAssumption ==
  /\ Maker \notin Iocp \cup App \cup {Biz} /\ Biz \notin Iocp \cup App
  /\ Iocp \cap App = {}
  /\ Chunk \in Nat \ {0}
  /\ Scenarios \subseteq [threads : SUBSET Iocp, write : Nat, recv : Nat,
                          ends : SUBSET {"fin", "reset"}, fails : SUBSET {"bind", "recv"}]

Caller == App \cup {Biz}
Thread == Iocp \cup Caller \cup {Maker}

VARIABLES
  scenario,  \* the scenario that was chosen
  place,     \* the set the connection is in: "none", "normal", "closed"; "freed"
  binded,    \* whether it is in m_binded_connection_set
  refs,      \* m_references
  eof,       \* m_eof
  error,     \* m_error
  events,    \* its events in the list of the business thread
  batch,     \* business_event_list of the business thread
  stored,    \* bytes that entered m_send_buffer
  dropped,   \* bytes that left it
  held,      \* m_async_send.buffer: the byte in each place, 0 if none was put there
  skip,      \* m_async_send.data: places of the buffer before the first byte ...
  len,       \* ... and how many bytes
  sends,     \* WSASends under way: what they send
  recving,   \* whether a WSARecv is under way
  done,      \* completions in the port
  wire,      \* bytes the socket took, in order
  arrived,   \* receives that ended with data
  peer,      \* the peer: "open", "fin", "reset"
  pc,        \* control of each thread inside the connection, with a length
  biz,       \* control of the business thread between its calls
  session,   \* what the application was told: "new", "open", "closed"
  crowded,   \* history: a caller was past the wait of connection_send with another
             \* one, or m_error let it through while m_async_send was in use
  bare,      \* history: a thread without a reference took the binding away
  stranded   \* history: an IOCP thread dropped the last reference

set == <<place, binded, refs>>
flags == <<eof, error>>
queues == <<events, batch>>
buffer == <<stored, dropped>>
async == <<held, skip, len>>
port == <<sends, recving, done>>
outside == <<wire, arrived, peer>>
past == <<scenario, session, crowded, bare, stranded>>

vars == <<set, flags, queues, buffer, async, port, outside, pc, biz, past>>

At(t) == pc[t].at
Go(t, at) == pc' = [pc EXCEPT ![t].at = at]
Size == stored - dropped
Least(m, n) == IF m < n THEN m ELSE n

Init ==
  /\ scenario \in Scenarios
  /\ place = "none" /\ binded = FALSE /\ refs = 0
  /\ eof = FALSE /\ error = FALSE
  /\ events = << >> /\ batch = << >>
  /\ stored = 0 /\ dropped = 0
  /\ held = [j \in 1 .. Chunk |-> 0] /\ skip = 0 /\ len = 0
  /\ sends = << >> /\ recving = FALSE /\ done = << >>
  /\ wire = << >> /\ arrived = 0 /\ peer = "open"
  /\ pc = [t \in Thread |-> [at |-> IF t = Maker THEN "insert" ELSE "idle", n |-> 0]]
  /\ biz = "idle"
  /\ session = "new" /\ crowded = FALSE /\ bare = FALSE /\ stranded = FALSE

\* Mutant of AppendEvent: a merged event takes a reference as well.
AppendCounted(kind) ==
  /\ refs' = refs + 1
  /\ events' = IF Contains(events, kind) THEN events ELSE Append(events, kind)

(* append_business_event: an event that waits already is not added again. *)
AppendEvent(kind) ==
  IF Contains(events, kind) THEN UNCHANGED <<refs, events>>
  ELSE refs' = refs + 1 /\ events' = Append(events, kind)

(* Where a thread goes on after a call of do_close or a successful post. *)
After(t) == IF t \in Iocp THEN "deref" ELSE "idle"

-----------------------------------------------------------------------------
(* do_accept and do_connect: the connection enters the normal set ...      *)
Insert ==
  /\ At(Maker) = "insert"
  /\ place' = "normal"
  /\ Go(Maker, "bind")
  /\ UNCHANGED <<binded, refs, flags, queues, buffer, async, port, outside, biz, past>>

(* ... is associated with the port ... *)
Bind ==
  /\ At(Maker) = "bind"
  /\ binded' = TRUE /\ refs' = refs + 1
  /\ Go(Maker, "notify")
  /\ UNCHANGED <<place, flags, queues, buffer, async, port, outside, biz, past>>

(* ... or goes to the closed set ... *)
BindFails ==
  /\ At(Maker) = "bind" /\ "bind" \in scenario.fails
  /\ place' = "closed"
  /\ Go(Maker, "idle")
  /\ UNCHANGED <<binded, refs, flags, queues, buffer, async, port, outside, biz, past>>

(* ... is announced ... *)
Announce ==
  /\ At(Maker) = "notify"
  /\ AppendEvent("open")
  /\ Go(Maker, "again")
  /\ UNCHANGED <<place, binded, flags, batch, buffer, async, port, outside, biz, past>>

(* post_recv, here and in do_recv.  The thread that made the connection    *)
(* has no reference: if the connection was freed its call is undefined.    *)
PostRecv(t) ==
  /\ At(t) = "again" /\ place # "freed"
  /\ recving' = TRUE
  /\ Go(t, After(t))
  /\ UNCHANGED <<set, flags, queues, buffer, async, sends, done, outside, biz, past>>

(* If post_recv fails the connection is closed, but by do_connect, which   *)
(* returns false and leaves it open.                                       *)
PostRecvFails(t) ==
  /\ At(t) = "again" /\ place # "freed" /\ ("recv" \in scenario.fails \/ peer = "reset")
  /\ \/ Go(t, "close")
     \/ t = Maker /\ Go(t, "idle")
  /\ UNCHANGED <<set, flags, queues, buffer, async, port, outside, biz, past>>

-----------------------------------------------------------------------------
(* The calls of the application, from a callback, or from its own threads  *)
(* while it knows the connection: between on_accept or on_connect and      *)
(* on_close.                                                               *)
Calls(t) ==
  /\ At(t) = "idle"
  /\ \/ t = Biz /\ biz = "run"
     \/ t \in App /\ session = "open"


Starts(k) == Size = 0

(* send_buffer_fill_len: the caller that finds the buffer empty sends. *)
Fill(t, k) ==
  /\ Calls(t) /\ ~ eof /\ ~ error
  /\ stored + k <= scenario.write
  /\ stored' = stored + k
  /\ Go(t, IF Starts(k) THEN "send" ELSE "idle")
  /\ UNCHANGED <<set, flags, queues, dropped, async, port, outside, biz, past>>

(* connection_send: another thread may have sent the data ... *)
SendCheck(t) ==
  /\ At(t) = "send" /\ place # "freed"
  /\ Go(t, IF Size = 0 THEN "idle" ELSE "wait")
  /\ UNCHANGED <<set, flags, queues, buffer, async, port, outside, biz, past>>

\* Mutant of Free: m_async_send is taken although a send is under way.
FreeAlways == TRUE

(* post_event->buffer == post_event->data.buf && 0 == post_event->data.len *)
Free == skip = 0 /\ len = 0

PastWait(t) == At(t) \in {"look", "size", "copy", "post"}

(* ... "wait do_send finish", polled without a lock ... *)
Wait(t) ==
  /\ At(t) = "wait" /\ place # "freed"
  /\ Free \/ error
  /\ Go(t, "look")
  /\ crowded' = (crowded \/ ~ Free \/ \E u \in Caller \ {t} : PastWait(u))
  /\ UNCHANGED <<set, flags, queues, buffer, async, port, outside, biz,
                 scenario, session, bare, stranded>>

(* ... look again ... *)
SendLook(t) ==
  /\ At(t) = "look" /\ place # "freed"
  /\ Go(t, IF Size = 0 THEN "idle" ELSE "size")
  /\ UNCHANGED <<set, flags, queues, buffer, async, port, outside, biz, past>>

(* ... the length is set ... *)
SendSize(t) ==
  /\ At(t) = "size" /\ place # "freed"
  /\ skip' = 0 /\ len' = Least(Chunk, Size)
  /\ pc' = [pc EXCEPT ![t] = [at |-> "copy", n |-> Least(Chunk, Size)]]
  /\ UNCHANGED <<set, flags, queues, buffer, held, port, outside, biz, past>>

(* ... send_buffer_copy_len, here and in do_send ... *)
Copy(t) ==
  /\ At(t) = "copy" /\ place # "freed"
  /\ IF error \/ pc[t].n > Size
       THEN Go(t, "close") /\ UNCHANGED held
       ELSE /\ Go(t, "post")
            /\ held' = [j \in 1 .. Chunk |-> IF j <= pc[t].n THEN dropped + j ELSE held[j]]
  /\ UNCHANGED <<set, flags, queues, buffer, skip, len, port, outside, biz, past>>

(* ... and post_send, which fails when the peer has reset the connection.  *)
PostSend(t) ==
  /\ At(t) = "post" /\ place # "freed"
  /\ IF peer = "reset"
       THEN Go(t, "close") /\ UNCHANGED sends
       ELSE /\ Go(t, After(t))
            /\ sends' = Append(sends, [skip |-> skip, len |-> len])
  /\ UNCHANGED <<set, flags, queues, buffer, async, recving, done, outside, biz, past>>

(* TcpConnection::close *)
Close(t) ==
  /\ Calls(t) /\ ~ eof /\ ~ error
  /\ eof' = TRUE
  /\ Go(t, IF Size = 0 THEN "close" ELSE "idle")
  /\ UNCHANGED <<set, error, queues, buffer, async, port, outside, biz, past>>

-----------------------------------------------------------------------------
\* Mutant of Unbinds: whoever closes takes a reference away.
UnbindsAlways == TRUE

(* delete_connection_from_iocp: "binded-set make sure we will not close    *)
(* connection more times"                                                  *)
Unbinds == binded

(* close_connection: the thread that takes the binding away ...            *)
CloseUnbind(t) ==
  /\ At(t) = "close" /\ place # "freed"
  /\ IF Unbinds
       THEN /\ binded' = FALSE /\ refs' = refs - 1
            /\ Go(t, "error")
            /\ bare' = (bare \/ t \in App \cup {Maker})
       ELSE /\ Go(t, After(t))
            /\ UNCHANGED <<binded, refs, bare>>
  /\ UNCHANGED <<place, flags, queues, buffer, async, port, outside, biz,
                 scenario, session, crowded, stranded>>

\* Mutant of SetError: the connection goes on receiving.
SetErrorNot == UNCHANGED error

SetError == error' = TRUE

(* ... sets the error ... *)
CloseError(t) ==
  /\ At(t) = "error" /\ place # "freed"
  /\ SetError
  /\ Go(t, "closed")
  /\ UNCHANGED <<set, eof, queues, buffer, async, port, outside, biz, past>>

(* ... and posts close_notify. *)
ClosePost(t) ==
  /\ At(t) = "closed" /\ place # "freed"
  /\ AppendEvent("close")
  /\ Go(t, After(t))
  /\ UNCHANGED <<place, binded, flags, batch, buffer, async, port, outside, biz, past>>

-----------------------------------------------------------------------------
(* The threads of the port.  A completion whose connection is not in the   *)
(* normal set is dropped; one that failed, and one without data, close the *)
(* connection.                                                             *)
Handled(c) ==
  IF ~ c.good \/ c.n = 0 THEN "close" ELSE IF c.kind = "send" THEN "sent" ELSE "recv"

Dequeue(i) ==
  LET c == Head(done)
  IN  /\ i \in scenario.threads /\ At(i) = "idle" /\ done # << >>
      /\ done' = Tail(done)
      /\ IF place = "normal"
           THEN /\ refs' = refs + 1
                /\ pc' = [pc EXCEPT ![i] = [at |-> Handled(c), n |-> c.n]]
           ELSE UNCHANGED <<refs, pc>>
      /\ UNCHANGED <<place, binded, flags, queues, buffer, async, sends, recving,
                     outside, biz, past>>

(* do_recv: recv_buffer_fill_len ... *)
RecvFill(i) ==
  /\ At(i) = "recv"
  /\ Go(i, IF eof \/ error THEN "close" ELSE "mark")
  /\ UNCHANGED <<set, flags, queues, buffer, async, port, outside, biz, past>>

(* ... recv_notify if the water mark is reached, then post_recv. *)
RecvMark(i) ==
  /\ At(i) = "mark"
  /\ \/ AppendEvent("recv")
     \/ UNCHANGED <<refs, events>>
  /\ Go(i, "again")
  /\ UNCHANGED <<place, binded, flags, batch, buffer, async, port, outside, biz, past>>

(* do_send: send_buffer_drop_len ... *)
SendDrop(i) ==
  /\ At(i) = "sent"
  /\ IF error \/ pc[i].n > Size
       THEN Go(i, "close") /\ UNCHANGED dropped
       ELSE Go(i, "drop") /\ dropped' = dropped + pc[i].n
  /\ UNCHANGED <<set, flags, queues, stored, async, port, outside, biz, past>>

(* data.buf += data_len, data.len -= data_len *)
Rest(n) == skip' = skip + n /\ len' = len - n /\ UNCHANGED held

(* ... all was sent: the next chunk, or m_async_send is free; or the rest  *)
(* of the chunk ...                                                        *)
SendNext(i) ==
  LET n == pc[i].n
      more == Least(Chunk, Size)
  IN  /\ At(i) = "drop"
      /\ \/ /\ n = len
            /\ skip' = 0 /\ len' = more
            /\ pc' = [pc EXCEPT ![i] =
                        [at |-> IF more = 0 THEN "empty" ELSE "copy", n |-> more]]
            /\ UNCHANGED held
         \/ n < len /\ Rest(n) /\ Go(i, "post")
         \/ n > len /\ Go(i, "close") /\ UNCHANGED async
      /\ UNCHANGED <<set, flags, queues, buffer, port, outside, biz, past>>

(* ... the buffer is empty: send_notify, then close if eof. *)
SendEmpty(i) ==
  /\ At(i) = "empty"
  /\ AppendEvent("send")
  /\ Go(i, "eof")
  /\ UNCHANGED <<place, binded, flags, batch, buffer, async, port, outside, biz, past>>

SendEof(i) ==
  /\ At(i) = "eof"
  /\ Go(i, IF eof THEN "close" ELSE "deref")
  /\ UNCHANGED <<set, flags, queues, buffer, async, port, outside, biz, past>>

(* decrease_reference; the connection is not removed here. *)
Deref(i) ==
  /\ At(i) = "deref"
  /\ refs' = refs - 1
  /\ stranded' = (stranded \/ (refs = 1 /\ place = "normal" /\ ~ binded
                                 /\ biz \notin {"check", "remove"}))
  /\ Go(i, "idle")
  /\ UNCHANGED <<place, binded, flags, queues, buffer, async, port, outside, biz,
                 scenario, session, crowded, bare>>

-----------------------------------------------------------------------------
(* The business thread: the list of events ... *)
Take ==
  /\ biz = "idle" /\ events # << >>
  /\ batch' = events /\ events' = << >>
  /\ biz' = "next"
  /\ UNCHANGED <<set, flags, buffer, async, port, outside, pc, past>>

(* ... one callback after the other; on_close is the application's last    *)
(* chance to end the calls of its own threads ...                          *)
CallbackBegin ==
  /\ biz = "next" /\ batch # << >>
  /\ Head(batch) = "close" => \A a \in App : At(a) = "idle"
  /\ session' = CASE Head(batch) = "open" -> "open"
                  [] Head(batch) = "close" -> "closed"
                  [] OTHER -> session
  /\ biz' = "run"
  /\ UNCHANGED <<set, flags, queues, buffer, async, port, outside, pc, scenario,
                 crowded, bare, stranded>>

(* ... which may ask for the connection to be closed ... *)
CallbackEnd ==
  /\ biz = "run" /\ At(Biz) = "idle"
  /\ biz' = "deref"
  /\ \/ UNCHANGED pc
     \/ Head(batch) # "close" /\ Go(Biz, "close")
  /\ UNCHANGED <<set, flags, queues, buffer, async, port, outside, past>>

(* ... decrease_reference ... *)
EventDone ==
  /\ biz = "deref" /\ At(Biz) = "idle"
  /\ refs' = refs - 1
  /\ biz' = "check"
  /\ UNCHANGED <<place, binded, flags, queues, buffer, async, port, outside, pc, past>>

NextEvent ==
  /\ batch' = Tail(batch)
  /\ biz' = IF Len(batch) = 1 THEN "idle" ELSE "next"

(* ... has_reference ... *)
Check ==
  /\ biz = "check" /\ place # "freed"
  /\ IF refs = 0 THEN biz' = "remove" /\ UNCHANGED batch ELSE NextEvent
  /\ UNCHANGED <<set, flags, events, buffer, async, port, outside, pc, past>>

\* Mutant of RemovedTo: the connection stays in the normal set.
RemovedToNormal == "normal"

RemovedTo == "closed"

(* ... and remove_connection. *)
RemoveConnection ==
  /\ biz = "remove" /\ place # "freed"
  /\ place' = RemovedTo
  /\ NextEvent
  /\ UNCHANGED <<binded, refs, flags, events, buffer, async, port, outside, pc, past>>

(* ! connection->has_reference() *)
Invalid == refs = 0

(* destroy_invalid_connections, by any business thread; the socket is      *)
(* closed with the connection.                                             *)
Sweep ==
  /\ place = "closed" /\ Invalid
  /\ place' = "freed"
  /\ UNCHANGED <<binded, refs, flags, queues, buffer, async, port, outside, pc, biz, past>>

-----------------------------------------------------------------------------
(* What is in the place j of m_async_send.buffer, and behind it. *)
Byte(j) == IF j \in DOMAIN held THEN held[j] ELSE 0

(* The system: an overlapped send takes part of its bytes or all ...       *)
Sent(k) ==
  LET s == Head(sends)
  IN  /\ sends # << >> /\ (k \in 1 .. s.len \/ k = s.len) /\ peer # "reset" /\ place # "freed"
      /\ wire' = wire \o [j \in 1 .. k |-> Byte(s.skip + j)]
      /\ sends' = Tail(sends)
      /\ done' = Append(done, [kind |-> "send", n |-> k, good |-> TRUE])
      /\ UNCHANGED <<set, flags, queues, buffer, async, recving, arrived, peer, pc, biz,
                     past>>

(* ... a receive ends with data, or with none when the peer has ended ...  *)
Received ==
  /\ recving /\ place # "freed"
  /\ \/ peer = "open" /\ arrived < scenario.recv /\ arrived' = arrived + 1
        /\ done' = Append(done, [kind |-> "recv", n |-> 1, good |-> TRUE])
     \/ peer = "fin" /\ UNCHANGED arrived
        /\ done' = Append(done, [kind |-> "recv", n |-> 0, good |-> TRUE])
  /\ recving' = FALSE
  /\ UNCHANGED <<set, flags, queues, buffer, async, sends, wire, peer, pc, biz, past>>

(* ... both fail after a reset, or when the socket was closed ... *)
SendFails ==
  /\ sends # << >> /\ (peer = "reset" \/ place = "freed")
  /\ sends' = Tail(sends)
  /\ done' = Append(done, [kind |-> "send", n |-> 0, good |-> FALSE])
  /\ UNCHANGED <<set, flags, queues, buffer, async, recving, outside, pc, biz, past>>

RecvFails ==
  /\ recving /\ (peer = "reset" \/ place = "freed")
  /\ recving' = FALSE
  /\ done' = Append(done, [kind |-> "recv", n |-> 0, good |-> FALSE])
  /\ UNCHANGED <<set, flags, queues, buffer, async, sends, outside, pc, biz, past>>

(* ... and the peer may end the connection. *)
PeerLeaves(end) ==
  /\ peer = "open" /\ place # "none"
  /\ peer' = end
  /\ UNCHANGED <<set, flags, queues, buffer, async, port, wire, arrived, pc, biz, past>>

-----------------------------------------------------------------------------
Making == Insert \/ Bind \/ BindFails \/ Announce

(* What a thread does once it is inside a call. *)
Going(t) ==
  \/ PostRecv(t) \/ PostRecvFails(t)
  \/ SendCheck(t) \/ Wait(t) \/ SendLook(t) \/ SendSize(t) \/ Copy(t) \/ PostSend(t)
  \/ CloseUnbind(t) \/ CloseError(t) \/ ClosePost(t)

Handling(i) ==
  \/ Dequeue(i) \/ RecvFill(i) \/ RecvMark(i)
  \/ SendDrop(i) \/ SendNext(i) \/ SendEmpty(i) \/ SendEof(i) \/ Deref(i)

Business ==
  Take \/ CallbackBegin \/ CallbackEnd \/ EventDone \/ Check \/ RemoveConnection

Kernel == (\E k \in 0 .. Chunk : Sent(k)) \/ SendFails \/ RecvFails

Next ==
  \/ Making
  \/ \E t \in Caller : Close(t) \/ \E k \in 1 .. scenario.write : Fill(t, k)
  \/ \E t \in Thread : Going(t)
  \/ \E i \in Iocp : Handling(i)
  \/ Business \/ Sweep
  \/ Kernel \/ Received
  \/ \E end \in scenario.ends : PeerLeaves(end)

Spec == Init /\ [][Next]_vars

(* Threads run, and sends end.  The application need not call, nor the     *)
(* peer send or leave.                                                     *)
Fairness ==
  /\ WF_vars(Making \/ Going(Maker))
  /\ \A i \in Iocp : WF_vars(Handling(i) \/ Going(i))
  /\ WF_vars(Business \/ Going(Biz))
  /\ \A a \in App : WF_vars(Going(a))
  /\ WF_vars(Sweep) /\ WF_vars(Kernel)

FairSpec == Spec /\ Fairness

-----------------------------------------------------------------------------
Kind == {"open", "recv", "send", "close"}
InCall ==
  {"send", "wait", "look", "size", "copy", "post", "close", "error", "closed", "again"}
InIocp == {"recv", "mark", "sent", "drop", "empty", "eof", "deref"}

(* Type correctness. *)
TypeOK ==
  /\ scenario \in Scenarios
  /\ place \in {"none", "normal", "closed", "freed"} /\ binded \in BOOLEAN /\ refs \in Nat
  /\ eof \in BOOLEAN /\ error \in BOOLEAN
  /\ events \in Seq(Kind) /\ batch \in Seq(Kind)
  /\ stored \in 0 .. scenario.write /\ dropped \in 0 .. stored
  /\ held \in [1 .. Chunk -> 0 .. scenario.write] /\ skip \in Nat /\ len \in 0 .. Chunk
  /\ sends \in Seq([skip : Nat, len : 0 .. Chunk]) /\ recving \in BOOLEAN
  /\ done \in Seq([kind : {"send", "recv"}, n : Nat, good : BOOLEAN])
  /\ wire \in Seq(0 .. scenario.write) /\ arrived \in 0 .. scenario.recv
  /\ peer \in {"open", "fin", "reset"}
  /\ pc \in [Thread -> [at : {"idle", "insert", "bind", "notify"} \cup InCall \cup InIocp,
                        n : Nat]]
  /\ biz \in {"idle", "next", "run", "deref", "check", "remove"}
  /\ session \in {"new", "open", "closed"}
  /\ crowded \in BOOLEAN /\ bare \in BOOLEAN /\ stranded \in BOOLEAN

Holders == {i \in Iocp : At(i) # "idle"}

One(b) == IF b THEN 1 ELSE 0

(* m_references counts the binding, the waiting events, the events the     *)
(* business thread has taken and not yet ended, and the IOCP threads that  *)
(* handle a completion; so what any of them refers to is not freed         *)
(* (append_business_event against the decrements of both loops).           *)
RefsCountHolders ==
  /\ refs = One(binded) + Len(events) + Len(batch)
              - One(biz \in {"check", "remove"}) + Cardinality(Holders)
  /\ refs > 0 => place # "freed"

(* After its last decrease_reference the business thread still uses the    *)
(* connection: it is not freed meanwhile, unless a thread without a        *)
(* reference closed it (proactor.cpp lines 1206-1212).                     *)
RemovedIsLive ==
  biz \in {"check", "remove"} /\ ~ bare => place # "freed"

(* The socket takes the bytes in order, each once, if no two callers were  *)
(* past the wait of connection_send together, the wait being a look and    *)
(* not a lock, and if the error let none through: it would change the      *)
(* length do_send compares with and the rest would be old bytes of the     *)
(* buffer (lines 278-309 against 728-753).                                 *)
InOrder ==
  crowded \/ \A j \in DOMAIN wire : wire[j] = j


(* A connection that was closed is freed, unless an IOCP thread was the    *)
(* last to refer to it: only the business threads move it to the closed    *)
(* set, and none will look again (lines 1126-1132 against 1206-1212).      *)
Reclaimed ==
  (place = "normal" /\ error) ~> (place = "freed" \/ stranded \/ bare)

=============================================================================
