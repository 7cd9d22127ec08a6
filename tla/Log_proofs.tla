----------------------------- MODULE Log_proofs -----------------------------
(***************************************************************************)
(* Theorems about module Log, for any number of writers, texts and seconds *)
(* and any room in a record: an AsynLog neither loses, doubles nor         *)
(* reorders text (AsynInOrder), an exit writes what had been saved before  *)
(* it began (ExitWrites), a LazyLog holds what was saved since its last    *)
(* flush (LazyHolds), the state has its types (TypeOK), and the files of a *)
(* log hold all that was written to it (FilesComplete).                    *)
(***************************************************************************)
EXTENDS Log, FiniteSetTheorems, SequenceTheorems, WellFoundedInduction, TLAPS

(* The types that have an AsynLog while the logs are in use.               *)
Queued == {t \in Type : config.mode[t] = "asyn"}

WtStates == {"off", "loop", "take", "write", "current", "end"}

(* Where each writer stands, and the text it has in hand there.            *)
CallsOK ==
  /\ calls \in Nat
  /\ pc \in [Writer -> [at : {"idle", "check", "save"}, type : Type,
                        n : 0 .. MaxTexts, level : Level]]
  /\ \A w \in Writer : pc[w].at # "idle" => pc[w].n > 0

(* The logs there are, and sequences of texts in those of the AsynLogs.    *)
LogsOK ==
  /\ config \in Configs
  /\ mode \in [Type -> Mode \cup {"none"}]
  /\ \A t \in Type : mode[t] \in {"none", config.mode[t]}
  /\ has \in [Type -> BOOLEAN]
  /\ saved = [t \in Type |-> saved[t]] /\ written = [t \in Type |-> written[t]]
  /\ current = [t \in Type |-> current[t]] /\ pool = [t \in Type |-> pool[t]]
  /\ \A t \in Queued : /\ saved[t] \in Seq(Text) /\ written[t] \in Seq(Text)
                       /\ current[t] \in Seq(Text) /\ pool[t] \in Seq(Text)
  /\ wt \in [at : WtStates, type : Type, last : BOOLEAN]
  /\ taken \in Seq(Text)

(* A log that is not there holds no text, nor does a record that is not    *)
(* there, nor the write thread anywhere but where it writes its list.      *)
EmptyOK ==
  /\ taken # << >> => wt.at = "write"
  /\ \A t \in Type : ~ has[t] => current[t] = << >>
  /\ owner = "off" => \A t \in Type :
       mode[t] = "none" /\ current[t] = << >> /\ pool[t] = << >>

(* The write thread lives between its creation and its join, when there is *)
(* an AsynLog, and it always works on one.                                 *)
ThreadOK ==
  /\ owner = "thread" => \E t \in Type : Asyn(t)
  /\ wt.at # "off" => owner \in {"on", "release", "join"} /\ \E t \in Type : Asyn(t)
  /\ wt.at \in {"take", "write", "current"} => Asyn(wt.type)

(* The inductive invariant behind AsynInOrder.                             *)
OrderInv == CallsOK /\ LogsOK /\ EmptyOK /\ ThreadOK /\ AsynInOrder

(* From DisableAll on no call of a writer begins to save; if none was then *)
(* past its look at s_log_type_open, none ever saves.                      *)
ClosingOK ==
  owner \in {"release", "join", "delete"} =>
    /\ \A t \in Type : ~ open[t]
    /\ \A t \in Queued : kept[t] \in Nat /\ Len(saved[t]) >= kept[t]
    /\ quiet => \A w \in Writer : pc[w].at # "save"

(* Only after release_write_thread does the write thread make a pass that  *)
(* it takes for its last, or end.                                          *)
LastOK ==
  /\ wt.at # "off" /\ owner \in {"on", "release"} => running
  /\ wt.at # "off" /\ (wt.last \/ wt.at = "end") => owner = "join"
  /\ wt.at \in {"off", "loop", "end"} => ~ wt.last

(* The last pass has taken the records of log t, or is through with it.    *)
InLast(t) == wt.last /\ wt.type = t /\ wt.at \in {"write", "current"}
Done(t) ==
  \/ wt.at = "end" \/ owner = "delete"
  \/ /\ wt.last /\ wt.type = "debug" /\ t = "run"
     /\ wt.at \in {"take", "write", "current"}

(* What the last pass leaves behind: nothing at all, or if a call may      *)
(* still save, one record at most of what was saved before the exit.       *)
LeftOK ==
  \A t \in Type : Asyn(t) /\ owner \in {"join", "delete"} /\ (InLast(t) \/ Done(t)) =>
    IF quiet THEN pool[t] = << >> /\ (Done(t) => current[t] = << >>)
    ELSE Len(written[t]) + Len(TakenOf(t)) >= kept[t] - PerRecord

(* The current record of an AsynLog has room for what is in it.            *)
RoomOK == \A t \in Queued : Len(current[t]) <= PerRecord

(* The inductive invariant behind ExitWrites.                              *)
ExitInv == OrderInv /\ RoomOK /\ ClosingOK /\ LastOK /\ LeftOK

USE DEF asyn, thread, control, writers, past

-----------------------------------------------------------------------------
(* Three and four sequences, put end to end, are a sequence whose length   *)
(* is the sum of theirs.                                                   *)
LEMMA Sums ==
  ASSUME NEW S, NEW a \in Seq(S), NEW b \in Seq(S), NEW c \in Seq(S), NEW d \in Seq(S)
  PROVE  /\ a \o b \in Seq(S) /\ a \o b \o c \in Seq(S) /\ a \o b \o c \o d \in Seq(S)
         /\ Len(a \o b \o c \o d) = Len(a) + Len(b) + Len(c) + Len(d)
         /\ Len(a) \in Nat /\ Len(b) \in Nat /\ Len(c) \in Nat /\ Len(d) \in Nat
<1>1. a \o b \in Seq(S) /\ Len(a \o b) = Len(a) + Len(b)
  BY ConcatProperties
<1>2. a \o b \o c \in Seq(S) /\ Len(a \o b \o c) = Len(a) + Len(b) + Len(c)
  BY <1>1, ConcatProperties
<1>3. a \o b \o c \o d \in Seq(S) /\ Len(a \o b \o c \o d) = Len(a \o b \o c) + Len(d)
  BY <1>2, ConcatProperties
<1>. QED
  BY <1>1, <1>2, <1>3

(* A text appended to the second of two sequences is appended to both.     *)
LEMMA AppendLast ==
  \A p, d \in Seq(Text), x \in Text : Append(p \o d, x) = p \o Append(d, x)
<1>. SUFFICES ASSUME NEW p \in Seq(Text), NEW d \in Seq(Text), NEW x \in Text
              PROVE  Append(p \o d, x) = p \o Append(d, x)
  BY Zenon
<1>1. p \o d \in Seq(Text) /\ <<x>> \in Seq(Text)
  BY ConcatProperties
<1>2. Append(p \o d, x) = (p \o d) \o <<x>>
  BY <1>1, AppendIsConcat
<1>3. (p \o d) \o <<x>> = p \o (d \o <<x>>)
  BY <1>1, ConcatAssociative
<1>. QED
  BY <1>2, <1>3, AppendIsConcat

(* The last of three sequences may move to the end of the second.          *)
LEMMA MoveLast ==
  \A p, c, d \in Seq(Text) : (p \o c) \o d = (p \o (c \o d)) \o << >>
<1>. SUFFICES ASSUME NEW p \in Seq(Text), NEW c \in Seq(Text), NEW d \in Seq(Text)
              PROVE  (p \o c) \o d = (p \o (c \o d)) \o << >>
  BY Zenon
<1>1. c \o d \in Seq(Text)
  BY ConcatProperties
<1>2. (p \o c) \o d = p \o (c \o d)
  BY ConcatAssociative
<1>. QED
  BY <1>1, <1>2, ConcatProperties, ConcatEmptySeq

(* The first n texts of a list and the rest are the list.                  *)
LEMMA Parts ==
  ASSUME NEW S, NEW s \in Seq(S), NEW n \in Nat
  PROVE  /\ Front(s, n) \in Seq(S) /\ Rest(s, n) \in Seq(S)
         /\ Front(s, n) \o Rest(s, n) = s
<1>. DEFINE k == Least(n, Len(s))
<1>1. k \in 0 .. Len(s) /\ Len(s) \in Nat
  BY DEF Least
<1>. HIDE DEF k
<1>2. SubSeq(s, 1, k) \in Seq(S) /\ SubSeq(s, k + 1, Len(s)) \in Seq(S)
  BY <1>1, SubSeqProperties
<1>3. SubSeq(s, 1, k) \o SubSeq(s, k + 1, Len(s)) = SubSeq(s, 1, Len(s))
  <2>1. 1 \in 1 .. Len(s) + 1 /\ k \in 1 - 1 .. Len(s) /\ Len(s) \in k .. Len(s)
    BY <1>1
  <2>. QED
    BY <2>1, ConcatAdjacentSubSeq
<1>. QED
  BY <1>2, <1>3, SubSeqFull DEF Front, Rest, k

-----------------------------------------------------------------------------
(* The state that OrderInv and ExitInv speak of, without the writers.      *)
parts == <<config, mode, open, current, has, pool, wt, taken, running, owner,
           saved, written, kept, quiet>>

(* A save into a SyncLog or a LazyLog, as far as an AsynLog sees it.       *)
SaveOther(w) ==
  /\ pc[w].at = "save" /\ mode[pc[w].type] \in {"sync", "lazy"}
  /\ \E xs : saved' = [saved EXCEPT ![pc[w].type] = xs]
  /\ \E xs : written' = [written EXCEPT ![pc[w].type] = xs]
  /\ UNCHANGED <<config, mode, open, current, has, pool, wt, taken, running, owner,
                 kept, quiet>>

(* What a writer does: it looks, drops or saves its text, and goes on.     *)
LEMMA WriterMoves ==
  ASSUME CallsOK, LogsOK, NEW w \in Writer, WriterStep(w)
  PROVE  \/ Check(w) /\ UNCHANGED parts
         \/ pc[w].at = "save" /\ Advance(w) /\ (UNCHANGED parts \/ SaveOther(w))
         \/ SaveAppend(w) \/ SaveRecord(w)
<1>1. Check(w) => UNCHANGED parts
  BY DEF Check, parts
<1>2. Discard(w) => pc[w].at = "save" /\ Advance(w) /\ UNCHANGED parts
  BY DEF Discard, parts
<1>3. SaveNowhere(w) => pc[w].at = "save" /\ Advance(w) /\ UNCHANGED parts
  BY DEF SaveNowhere, Accepting, parts
<1>4. SaveSync(w) => SaveOther(w) /\ Advance(w)
  BY DEF SaveSync, Accepting, WriteFile, Saved, SaveOther
<1>5. SaveLazy(w) => SaveOther(w) /\ Advance(w)
  <2>1. written = [written EXCEPT ![pc[w].type] = written[pc[w].type]]
    BY DEF CallsOK, LogsOK
  <2>. QED
    BY <2>1 DEF SaveLazy, Accepting, Saved, SaveOther
<1>6. SaveUrgent(w) => SaveOther(w) /\ Advance(w)
  <2>. SUFFICES ASSUME SaveUrgent(w) PROVE SaveOther(w) /\ Advance(w)
    OBVIOUS
  <2>1. pc[w].at = "save" /\ mode[pc[w].type] = "lazy" /\ Advance(w)
    BY DEF SaveUrgent, Accepting
  <2>2. \E xs : written' = [written EXCEPT ![pc[w].type] = xs]
    BY DEF SaveUrgent
  <2>3. Saved(pc[w].type, TextOf(w))
    BY DEF SaveUrgent
  <2>4. UNCHANGED <<config, mode, open, current, has, pool, wt, taken, running, owner,
                    kept, quiet>>
    BY DEF SaveUrgent
  <2>. QED
    BY <2>1, <2>2, <2>3, <2>4 DEF SaveOther, Saved
<1>. QED
  BY <1>1, <1>2, <1>3, <1>4, <1>5, <1>6 DEF WriterStep, SaveOther

(* The steps that touch these parts.                                       *)
LEMMA PartMoves ==
  ASSUME CallsOK, LogsOK, Next
  PROVE  \/ UNCHANGED parts
         \/ \E w \in Writer : SaveOther(w) \/ SaveAppend(w) \/ SaveRecord(w)
         \/ WtPass \/ WtTake \/ WtWrite \/ WtReturn \/ WtCurrent
         \/ \E l \in config.levels : Create(l)
         \/ Enable \/ AcquireThread \/ \E t \in Type : Switch(t)
         \/ DisableAll \/ ReleaseThread \/ JoinThread \/ Delete
<1>1. ASSUME NEW w \in Writer, NEW t \in Type, NEW l \in Level, Call(w, t, l)
      PROVE  UNCHANGED parts
  BY <1>1 DEF Call, parts
<1>2. ASSUME NEW t \in Type, NEW l \in config.levels, SetLevel(t, l)
      PROVE  UNCHANGED parts
  BY <1>2 DEF SetLevel, parts
<1>3. Tick => UNCHANGED parts
  BY DEF Tick, parts
<1>. QED
  BY <1>1, <1>2, <1>3, WriterMoves DEF Next, WriteThread, InitLog, ExitLog

(* A text in hand is a text.                                               *)
LEMMA InHand ==
  ASSUME CallsOK, NEW w \in Writer, pc[w].at = "save"
  PROVE  TextOf(w) \in Text /\ pc[w].type \in Type
<1>1. pc[w] \in [at : {"idle", "check", "save"}, type : Type, n : 0 .. MaxTexts,
                  level : Level]
  BY DEF CallsOK
<1>2. pc[w].n \in 1 .. MaxTexts
  BY <1>1, LogAssumption DEF CallsOK
<1>. QED
  BY <1>1, <1>2 DEF TextOf, Text

(* A writer that goes on does so in order.                                 *)
LEMMA AdvanceOK ==
  ASSUME CallsOK, NEW w \in Writer, pc[w].at # "idle", Advance(w)
  PROVE  CallsOK'
<1>1. pc[w] \in [at : {"idle", "check", "save"}, type : Type, n : 0 .. MaxTexts,
                  level : Level] /\ pc[w].n > 0
  BY DEF CallsOK
<1>2. /\ Advanced(pc[w]) \in [at : {"idle", "check", "save"}, type : Type,
                              n : 0 .. MaxTexts, level : Level]
      /\ Advanced(pc[w]).at # "idle" => Advanced(pc[w]).n > 0
  <2>1. CASE pc[w].type = "run"
    <3>1. Advanced(pc[w]) = [[pc[w] EXCEPT !.at = "check"] EXCEPT !.type = "debug"]
      BY <2>1 DEF Advanced
    <3>. QED
      BY <1>1, <3>1 DEF Type
  <2>2. CASE pc[w].type # "run"
    <3>1. Advanced(pc[w]) = [at |-> "idle", type |-> "debug", n |-> 0, level |-> 0]
      BY <2>2 DEF Advanced
    <3>. QED
      BY <3>1, LogAssumption DEF Type, Level
  <2>. QED
    BY <2>1, <2>2
<1>. QED
  BY <1>2 DEF CallsOK, Advance

(* Every step keeps the writers in order.                                  *)
LEMMA CallsStep ==
  ASSUME CallsOK, LogsOK, Next
  PROVE  CallsOK'
<1>1. ASSUME NEW w \in Writer, NEW t \in Type, NEW l \in Level, Call(w, t, l)
      PROVE  CallsOK'
  <2>1. calls + 1 \in 1 .. MaxTexts
    BY <1>1, LogAssumption DEF Call, CallsOK, LogsOK, Config
  <2>. QED
    BY <1>1, <2>1 DEF Call, CallsOK
<1>2. ASSUME NEW w \in Writer, WriterStep(w)
      PROVE  CallsOK'
  <2>1. CASE Check(w)
    <3>1. CASE UNCHANGED calls /\ pc' = [pc EXCEPT ![w].at = "save"]
      BY <2>1, <3>1 DEF Check, CallsOK
    <3>. QED
      BY <2>1, <3>1, AdvanceOK DEF Check
  <2>2. CASE SaveAppend(w) \/ SaveRecord(w)
    BY <2>2, AdvanceOK DEF SaveAppend, SaveRecord, Accepting
  <2>. QED
    BY <1>2, <2>1, <2>2, WriterMoves, AdvanceOK
<1>3. CASE UNCHANGED <<calls, pc>>
  BY <1>3 DEF CallsOK
<1>4. WriteThread \/ InitLog \/ ExitLog \/ DisableAll \/ Tick => UNCHANGED <<calls, pc>>
  BY DEF WriteThread, WtPass, WtTake, WtWrite, WtReturn, WtCurrent, InitLog, Enable,
         AcquireThread, ExitLog, ReleaseThread, JoinThread, Delete, DisableAll, Tick
<1>5. ASSUME NEW t \in Type, NEW l \in config.levels,
             Create(l) \/ Switch(t) \/ SetLevel(t, l)
      PROVE  UNCHANGED <<calls, pc>>
  BY <1>5 DEF Create, Switch, SetLevel
<1>. QED
  BY <1>1, <1>2, <1>3, <1>4, <1>5 DEF Next, Create, Switch

-----------------------------------------------------------------------------
(* An AsynLog in use is one of the configuration.                          *)
LEMMA AsynQueued ==
  ASSUME LogsOK, NEW t \in Type, Asyn(t)
  PROVE  t \in Queued
BY DEF LogsOK, Asyn, Queued

(* A text saved elsewhere is not saved in an AsynLog.                      *)
LEMMA OtherNotQueued ==
  ASSUME CallsOK, LogsOK, NEW w \in Writer, SaveOther(w)
  PROVE  /\ pc[w].type \in Type \ Queued
         /\ \A t \in Queued : saved'[t] = saved[t] /\ written'[t] = written[t]
         /\ saved' = [t \in Type |-> saved'[t]] /\ written' = [t \in Type |-> written'[t]]
<1>1. pc[w].type \in Type
  BY InHand DEF SaveOther
<1>2. pc[w].type \notin Queued
  BY <1>1 DEF SaveOther, Queued, LogsOK
<1>3. PICK xs : saved' = [saved EXCEPT ![pc[w].type] = xs]
  BY DEF SaveOther
<1>4. PICK ys : written' = [written EXCEPT ![pc[w].type] = ys]
  BY DEF SaveOther
<1>. QED
  BY <1>1, <1>2, <1>3, <1>4 DEF LogsOK, Queued

(* Where the write thread goes on when it is through with a log.           *)
LEMMA AfterLogOK ==
  ASSUME LogsOK
  PROVE  /\ AfterLog \in [at : WtStates, type : Type, last : BOOLEAN]
         /\ \/ /\ AfterLog.at = "take" /\ AfterLog.type = "debug" /\ Asyn("debug")
               /\ AfterLog.last = wt.last /\ wt.type = "run"
            \/ /\ AfterLog.at = IF wt.last THEN "end" ELSE "loop"
               /\ AfterLog.last = FALSE
               /\ ~ (wt.type = "run" /\ Asyn("debug"))
<1>1. wt \in [at : WtStates, type : Type, last : BOOLEAN]
  BY DEF LogsOK
<1>2. CASE wt.type = "run" /\ Asyn("debug")
  <2>1. AfterLog = [[wt EXCEPT !.at = "take"] EXCEPT !.type = "debug"]
    BY <1>2 DEF AfterLog
  <2>. QED
    BY <1>1, <1>2, <2>1 DEF WtStates, Type
<1>3. CASE ~ (wt.type = "run" /\ Asyn("debug"))
  <2>1. AfterLog = [at |-> IF wt.last THEN "end" ELSE "loop", type |-> "run", last |-> FALSE]
    BY <1>3 DEF AfterLog
  <2>. QED
    BY <1>3, <2>1 DEF WtStates, Type
<1>. QED
  BY <1>2, <1>3

(* Every step keeps the logs right.                                        *)
LEMMA LogsStep ==
  ASSUME CallsOK, LogsOK, ThreadOK, Next
  PROVE  LogsOK'
<1>. USE DEF LogsOK
<1>0. Queued \subseteq Type /\ << >> \in Seq(Text)
  BY EmptySeq DEF Queued
<1>1. CASE UNCHANGED parts
  BY <1>1 DEF parts, Queued
<1>2. ASSUME NEW w \in Writer, SaveOther(w)
      PROVE  LogsOK'
  <2>1. UNCHANGED <<config, mode, has, current, pool, wt, taken>> /\ Queued' = Queued
    BY <1>2 DEF SaveOther, Queued
  <2>. QED
    BY <1>2, <2>1, OtherNotQueued
<1>3. ASSUME NEW w \in Writer, SaveAppend(w)
      PROVE  LogsOK'
  <2>1. TextOf(w) \in Text /\ pc[w].type \in Queued
    BY <1>3, InHand DEF SaveAppend, Accepting, Queued
  <2>2. /\ Append(saved[pc[w].type], TextOf(w)) \in Seq(Text)
        /\ Append(current[pc[w].type], TextOf(w)) \in Seq(Text)
    BY <2>1, AppendProperties
  <2>3. UNCHANGED <<config, mode, has, written, pool, wt, taken>> /\ Queued' = Queued
    BY <1>3 DEF SaveAppend, Queued
  <2>. QED
    BY <1>0, <1>3, <2>1, <2>2, <2>3 DEF SaveAppend, Saved
<1>4. ASSUME NEW w \in Writer, SaveRecord(w)
      PROVE  LogsOK'
  <2>1. TextOf(w) \in Text /\ pc[w].type \in Queued
    BY <1>4, InHand DEF SaveRecord, Accepting, Queued
  <2>2. /\ Append(saved[pc[w].type], TextOf(w)) \in Seq(Text)
        /\ pool[pc[w].type] \o current[pc[w].type] \in Seq(Text)
        /\ <<TextOf(w)>> \in Seq(Text)
    <3>1. <<TextOf(w)>> \in Seq(Text)
      BY <2>1
    <3>2. pool[pc[w].type] \in Seq(Text) /\ current[pc[w].type] \in Seq(Text)
      BY <2>1
    <3>3. Append(saved[pc[w].type], TextOf(w)) \in Seq(Text)
      BY <2>1, AppendProperties
    <3>. QED
      BY <3>1, <3>2, <3>3, ConcatProperties
  <2>3. UNCHANGED <<config, mode, written, wt, taken>> /\ Queued' = Queued
    BY <1>4 DEF SaveRecord, Queued
  <2>4. \/ saved' = saved
        \/ saved' = [saved EXCEPT ![pc[w].type] = Append(@, TextOf(w))]
    BY <1>4 DEF SaveRecord, Saved
  <2>5. \/ pool' = pool
        \/ pool' = [pool EXCEPT ![pc[w].type] = @ \o current[pc[w].type]]
    BY <1>4 DEF SaveRecord, Released
  <2>6. \E got \in BOOLEAN :
          /\ has' = [has EXCEPT ![pc[w].type] = got]
          /\ current' = [current EXCEPT ![pc[w].type] = IF got THEN <<TextOf(w)>> ELSE << >>]
    BY <1>4 DEF SaveRecord, Obtained, May
  <2>7. has' \in [Type -> BOOLEAN]
    BY <2>6
  <2>8. /\ current' = [t \in Type |-> current'[t]]
        /\ \A t \in Queued : current'[t] \in Seq(Text)
    BY <1>0, <2>1, <2>2, <2>6
  <2>9. /\ saved' = [t \in Type |-> saved'[t]] /\ pool' = [t \in Type |-> pool'[t]]
        /\ \A t \in Queued : saved'[t] \in Seq(Text) /\ pool'[t] \in Seq(Text)
    BY <1>0, <2>1, <2>2, <2>4, <2>5
  <2>. QED
    BY <2>3, <2>7, <2>8, <2>9
<1>5. CASE WtPass
  BY <1>5 DEF WtPass, First, Type, WtStates, Queued
<1>6. CASE WtTake
  <2>1. wt.type \in Queued
    BY <1>6, AsynQueued DEF WtTake, ThreadOK
  <2>2. UNCHANGED <<config, mode, has, saved, written, current>> /\ Queued' = Queued
    BY <1>6 DEF WtTake, Queued
  <2>3. wt' \in [at : WtStates, type : Type, last : BOOLEAN]
    BY <1>6 DEF WtTake, WtStates
  <2>. QED
    BY <1>0, <1>6, <2>1, <2>2, <2>3 DEF WtTake
<1>7. CASE WtWrite
  <2>1. wt.type \in Queued
    BY <1>7, AsynQueued DEF WtWrite, ThreadOK
  <2>2. UNCHANGED <<config, mode, has, saved, current, pool, wt>> /\ Queued' = Queued
    BY <1>7 DEF WtWrite, Queued
  <2>3. Front(taken, PerRecord) \in Seq(Text) /\ Rest(taken, PerRecord) \in Seq(Text)
    BY Parts, LogAssumption
  <2>4. written[wt.type] \o Front(taken, PerRecord) \in Seq(Text)
    BY <2>1, <2>3, ConcatProperties
  <2>. QED
    BY <1>0, <1>7, <2>1, <2>2, <2>3, <2>4 DEF WtWrite, WriteFile
<1>8. CASE WtReturn
  <2>1. wt' \in [at : WtStates, type : Type, last : BOOLEAN]
    BY <1>8 DEF WtReturn, WtStates
  <2>. QED
    BY <1>8, <2>1 DEF WtReturn, Queued
<1>9. CASE WtCurrent
  <2>1. wt.type \in Queued
    BY <1>9, AsynQueued DEF WtCurrent, ThreadOK
  <2>2. UNCHANGED <<config, mode, has, saved, pool, taken>> /\ Queued' = Queued
    BY <1>9 DEF WtCurrent, Queued
  <2>3. written[wt.type] \o current[wt.type] \in Seq(Text)
    BY <2>1, ConcatProperties
  <2>4. wt' \in [at : WtStates, type : Type, last : BOOLEAN]
    BY <1>9, AfterLogOK DEF WtCurrent
  <2>5. \/ UNCHANGED <<written, current>>
        \/ /\ written' = [written EXCEPT ![wt.type] = @ \o current[wt.type]]
           /\ current' = [current EXCEPT ![wt.type] = << >>]
    BY <1>9 DEF WtCurrent, WriteFile
  <2>. QED
    BY <1>0, <2>1, <2>2, <2>3, <2>4, <2>5
<1>10. ASSUME NEW l \in config.levels, Create(l)
       PROVE  LogsOK'
  <2>1. config.mode \in [Type -> Mode]
    BY LogAssumption DEF Config
  <2>2. UNCHANGED <<config, written, current, pool, wt, taken>> /\ Queued' = Queued
    BY <1>10 DEF Create, Queued
  <2>3. has' \in [Type -> BOOLEAN]
    BY <1>10, <2>1 DEF Create, May
  <2>4. mode' = config.mode /\ saved' = written
    BY <1>10 DEF Create
  <2>. QED
    BY <1>0, <2>1, <2>2, <2>3, <2>4
<1>11. CASE AcquireThread
  <2>1. wt' = wt \/ wt' = [wt EXCEPT !.at = "loop"]
    BY <1>11 DEF AcquireThread
  <2>2. wt' \in [at : WtStates, type : Type, last : BOOLEAN]
    BY <2>1 DEF WtStates
  <2>. QED
    BY <1>11, <2>2 DEF AcquireThread, Queued
<1>12. CASE JoinThread
  <2>1. wt' \in [at : WtStates, type : Type, last : BOOLEAN]
    BY <1>12 DEF JoinThread, WtStates
  <2>. QED
    BY <1>12, <2>1 DEF JoinThread, Queued
<1>13. CASE Delete
  BY <1>0, <1>13 DEF Delete, Queued
<1>14. CASE Enable \/ DisableAll \/ ReleaseThread
  BY <1>14 DEF Enable, DisableAll, ReleaseThread, Queued
<1>15. ASSUME NEW t \in Type, Switch(t)
       PROVE  LogsOK'
  BY <1>15 DEF Switch, Queued
<1>. QED
  BY <1>1, <1>2, <1>3, <1>4, <1>5, <1>6, <1>7, <1>8, <1>9, <1>10, <1>11, <1>12, <1>13,
     <1>14, <1>15, PartMoves

-----------------------------------------------------------------------------
(* Every step keeps text out of what is not there.                         *)
LEMMA EmptyStep ==
  ASSUME CallsOK, LogsOK, EmptyOK, ThreadOK, Next
  PROVE  EmptyOK'
<1>. USE DEF EmptyOK
<1>1. CASE UNCHANGED parts
  BY <1>1 DEF parts
<1>2. ASSUME NEW w \in Writer, SaveOther(w)
      PROVE  EmptyOK'
  BY <1>2 DEF SaveOther
<1>3. ASSUME NEW w \in Writer, SaveAppend(w)
      PROVE  EmptyOK'
  <2>1. pc[w].type \in Type /\ Asyn(pc[w].type) /\ has[pc[w].type]
    BY <1>3, InHand DEF SaveAppend, Accepting, Asyn
  <2>2. owner # "off"
    BY <2>1 DEF Asyn
  <2>. QED
    BY <1>3, <2>1, <2>2 DEF SaveAppend, LogsOK
<1>4. ASSUME NEW w \in Writer, SaveRecord(w)
      PROVE  EmptyOK'
  <2>1. pc[w].type \in Type /\ Asyn(pc[w].type)
    BY <1>4, InHand DEF SaveRecord, Accepting, Asyn
  <2>2. owner # "off"
    BY <2>1 DEF Asyn
  <2>3. PICK got \in BOOLEAN :
          /\ has' = [has EXCEPT ![pc[w].type] = got]
          /\ current' = [current EXCEPT ![pc[w].type] = IF got THEN <<TextOf(w)>> ELSE << >>]
    BY <1>4 DEF SaveRecord, Obtained, May
  <2>4. UNCHANGED <<wt, taken, owner>>
    BY <1>4 DEF SaveRecord
  <2>. QED
    BY <2>1, <2>2, <2>3, <2>4 DEF LogsOK
<1>5. CASE WtPass
  BY <1>5 DEF WtPass, ThreadOK
<1>6. CASE WtTake
  <2>1. owner # "off" /\ wt'.at = "write"
    BY <1>6 DEF WtTake, ThreadOK, LogsOK
  <2>. QED
    BY <1>6, <2>1 DEF WtTake
<1>7. CASE WtWrite
  BY <1>7 DEF WtWrite
<1>8. CASE WtReturn
  BY <1>8 DEF WtReturn
<1>9. CASE WtCurrent
  <2>1. owner # "off" /\ taken = << >>
    BY <1>9 DEF WtCurrent, ThreadOK
  <2>2. current' = current \/ current' = [current EXCEPT ![wt.type] = << >>]
    BY <1>9 DEF WtCurrent
  <2>. QED
    BY <1>9, <2>1, <2>2 DEF WtCurrent, LogsOK
<1>10. ASSUME NEW l \in config.levels, Create(l)
       PROVE  EmptyOK'
  BY <1>10 DEF Create
<1>11. CASE AcquireThread
  BY <1>11 DEF AcquireThread, ThreadOK
<1>12. CASE JoinThread
  BY <1>12 DEF JoinThread, Joined
<1>13. CASE Delete
  BY <1>13 DEF Delete
<1>14. CASE Enable \/ DisableAll \/ ReleaseThread
  BY <1>14 DEF Enable, DisableAll, ReleaseThread
<1>15. ASSUME NEW t \in Type, Switch(t)
       PROVE  EmptyOK'
  BY <1>15 DEF Switch
<1>. QED
  BY <1>1, <1>2, <1>3, <1>4, <1>5, <1>6, <1>7, <1>8, <1>9, <1>10, <1>11, <1>12, <1>13,
     <1>14, <1>15, PartMoves

(* Every step keeps the write thread where there is an AsynLog for it.     *)
LEMMA ThreadStep ==
  ASSUME CallsOK, LogsOK, EmptyOK, ThreadOK, Next
  PROVE  ThreadOK'
<1>. USE DEF ThreadOK, Asyn
<1>1. CASE UNCHANGED parts
  BY <1>1 DEF parts
<1>2. ASSUME NEW w \in Writer, SaveOther(w) \/ SaveAppend(w) \/ SaveRecord(w)
      PROVE  ThreadOK'
  <2>1. UNCHANGED <<mode, wt, owner>>
    BY <1>2 DEF SaveOther, SaveAppend, SaveRecord
  <2>. QED
    BY <2>1
<1>3. CASE WtPass
  BY <1>3 DEF WtPass, First, Type
<1>4. CASE WtTake \/ WtWrite \/ WtReturn
  <2>1. UNCHANGED <<mode, owner>> /\ wt.at # "off" /\ Asyn(wt.type) /\ wt'.type = wt.type
    BY <1>4 DEF WtTake, WtWrite, WtReturn, LogsOK
  <2>. QED
    BY <2>1
<1>5. CASE WtCurrent
  <2>1. UNCHANGED <<mode, owner>> /\ wt.at # "off"
    BY <1>5 DEF WtCurrent
  <2>2. wt'.at = "take" => Asyn(wt'.type)
    BY <1>5, AfterLogOK DEF WtCurrent
  <2>3. wt'.at \in {"take", "end", "loop"}
    BY <1>5, AfterLogOK DEF WtCurrent
  <2>. QED
    BY <2>1, <2>2, <2>3
<1>6. ASSUME NEW l \in config.levels, Create(l)
      PROVE  ThreadOK'
  BY <1>6 DEF Create
<1>7. CASE AcquireThread
  <2>1. UNCHANGED mode /\ \E t \in Type : Asyn(t)
    BY <1>7 DEF AcquireThread
  <2>2. \/ owner' = "on" /\ wt' = [wt EXCEPT !.at = "loop"]
        \/ owner' = "failed" /\ wt' = wt
    BY <1>7 DEF AcquireThread
  <2>3. wt.at = "off"
    BY <1>7 DEF AcquireThread
  <2>. QED
    BY <2>1, <2>2, <2>3 DEF LogsOK
<1>8. CASE JoinThread
  BY <1>8 DEF JoinThread, LogsOK
<1>9. CASE Delete
  BY <1>9 DEF Delete
<1>10. CASE Enable
  BY <1>10 DEF Enable
<1>11. CASE DisableAll
  BY <1>11 DEF DisableAll
<1>12. CASE ReleaseThread
  BY <1>12 DEF ReleaseThread
<1>13. ASSUME NEW t \in Type, Switch(t)
       PROVE  ThreadOK'
  BY <1>13 DEF Switch
<1>. QED
  BY <1>1, <1>2, <1>3, <1>4, <1>5, <1>6, <1>7, <1>8, <1>9, <1>10, <1>11, <1>12, <1>13,
     PartMoves

-----------------------------------------------------------------------------
(* The four places where a text of an AsynLog can be are sequences.        *)
LEMMA Places ==
  ASSUME LogsOK, NEW t \in Type, Asyn(t)
  PROVE  /\ saved[t] \in Seq(Text) /\ written[t] \in Seq(Text) /\ TakenOf(t) \in Seq(Text)
         /\ pool[t] \in Seq(Text) /\ current[t] \in Seq(Text)
<1>1. t \in Queued /\ << >> \in Seq(Text)
  BY AsynQueued, EmptySeq
<1>. QED
  BY <1>1 DEF LogsOK, TakenOf

(* A step of the owner moves no text and begins no log.                    *)
LEMMA OwnerKeepsText ==
  ASSUME EmptyOK, ThreadOK,
         AcquireThread \/ JoinThread \/ Enable \/ DisableAll \/ ReleaseThread
           \/ \E t \in Type : Switch(t)
  PROVE  /\ UNCHANGED <<mode, saved, written, pool, current, taken, has>>
         /\ UNCHANGED wt \/ taken = << >>
<1>1. AcquireThread => UNCHANGED <<mode, saved, written, pool, current, taken, has>>
  BY DEF AcquireThread
<1>2. JoinThread => UNCHANGED <<mode, saved, written, pool, current, taken, has>>
  BY DEF JoinThread
<1>3. Enable \/ DisableAll \/ ReleaseThread =>
        UNCHANGED <<mode, saved, written, pool, current, taken, has, wt>>
  BY DEF Enable, DisableAll, ReleaseThread
<1>4. ASSUME NEW t \in Type, Switch(t)
      PROVE  UNCHANGED <<mode, saved, written, pool, current, taken, has, wt>>
  BY <1>4 DEF Switch
<1>5. AcquireThread \/ JoinThread => taken = << >>
  BY DEF AcquireThread, JoinThread, Joined, EmptyOK, ThreadOK
<1>. QED
  BY <1>1, <1>2, <1>3, <1>4, <1>5

(* Every step keeps the text of the AsynLogs in order.                     *)
LEMMA OrderStep ==
  ASSUME OrderInv, Next
  PROVE  AsynInOrder'
<1>. USE DEF OrderInv
<1>1. CASE UNCHANGED parts
  BY <1>1 DEF parts, AsynInOrder, TakenOf, Asyn
<1>2. ASSUME NEW w \in Writer, SaveOther(w)
      PROVE  AsynInOrder'
  <2>1. UNCHANGED <<mode, wt, taken, pool, current>>
    BY <1>2 DEF SaveOther
  <2>. QED
    BY <1>2, <2>1, OtherNotQueued, AsynQueued DEF AsynInOrder, TakenOf, Asyn
<1>3. ASSUME NEW w \in Writer, SaveAppend(w), NEW t \in Type, Asyn(t)'
      PROVE  (saved[t] = written[t] \o TakenOf(t) \o pool[t] \o current[t])'
  <2>1. UNCHANGED <<mode, wt, taken, pool, written>> /\ Asyn(t)
    BY <1>3 DEF SaveAppend, Asyn
  <2>2. TextOf(w) \in Text /\ pc[w].type \in Type
    BY <1>3, InHand DEF SaveAppend, Accepting
  <2>3. /\ saved[t] = written[t] \o TakenOf(t) \o pool[t] \o current[t]
        /\ TakenOf(t)' = TakenOf(t)
    BY <2>1 DEF AsynInOrder, TakenOf
  <2>4. CASE t = pc[w].type
    <3>1. /\ saved'[t] = Append(saved[t], TextOf(w))
          /\ current'[t] = Append(current[t], TextOf(w))
      BY <1>3, <2>2, <2>4 DEF SaveAppend, Saved, LogsOK
    <3>2. /\ written[t] \in Seq(Text) /\ TakenOf(t) \in Seq(Text)
          /\ pool[t] \in Seq(Text) /\ current[t] \in Seq(Text)
      BY <2>1, Places
    <3>3. saved'[t] = written[t] \o TakenOf(t) \o pool[t] \o current'[t]
      <4>1. Append(written[t] \o TakenOf(t) \o pool[t] \o current[t], TextOf(w))
              = written[t] \o TakenOf(t) \o pool[t] \o Append(current[t], TextOf(w))
        <5>. DEFINE front == written[t] \o TakenOf(t) \o pool[t]
        <5>1. front \in Seq(Text)
          BY <3>2, Sums
        <5>. HIDE DEF front
        <5>2. Append(front \o current[t], TextOf(w)) = front \o Append(current[t], TextOf(w))
          BY <2>2, <3>2, <5>1, AppendLast
        <5>. QED
          BY <5>2 DEF front
      <4>. QED
        BY <2>3, <3>1, <4>1
    <3>. QED
      BY <2>1, <2>3, <3>3
  <2>5. CASE t # pc[w].type
    <3>1. saved'[t] = saved[t] /\ current'[t] = current[t]
      BY <1>3, <2>5 DEF SaveAppend, Saved, LogsOK
    <3>. QED
      BY <2>1, <2>3, <3>1
  <2>. QED
    BY <2>4, <2>5
<1>4. ASSUME NEW w \in Writer, SaveRecord(w), NEW t \in Type, Asyn(t)'
      PROVE  (saved[t] = written[t] \o TakenOf(t) \o pool[t] \o current[t])'
  <2>1. UNCHANGED <<mode, wt, taken, written>> /\ Asyn(t)
    BY <1>4 DEF SaveRecord, Asyn
  <2>2. TextOf(w) \in Text /\ pc[w].type \in Type
    BY <1>4, InHand DEF SaveRecord, Accepting
  <2>3. /\ saved[t] = written[t] \o TakenOf(t) \o pool[t] \o current[t]
        /\ TakenOf(t)' = TakenOf(t)
    BY <2>1 DEF AsynInOrder, TakenOf
  <2>4. PICK got \in BOOLEAN :
          /\ current' = [current EXCEPT ![pc[w].type] = IF got THEN <<TextOf(w)>> ELSE << >>]
          /\ IF got THEN Saved(pc[w].type, TextOf(w)) ELSE UNCHANGED saved
    BY <1>4 DEF SaveRecord, Obtained, May
  <2>5. pool' = IF has[pc[w].type] THEN Released(pc[w].type) ELSE pool
    BY <1>4 DEF SaveRecord
  <2>6. CASE t = pc[w].type
    <3>1. /\ written[t] \in Seq(Text) /\ TakenOf(t) \in Seq(Text)
          /\ pool[t] \in Seq(Text) /\ current[t] \in Seq(Text) /\ saved[t] \in Seq(Text)
      BY <2>1, Places
    <3>2. pool'[t] = pool[t] \o current[t]
      <4>1. CASE has[t]
        BY <2>2, <2>5, <2>6, <4>1 DEF Released, LogsOK
      <4>2. CASE ~ has[t]
        <5>1. current[t] = << >>
          BY <4>2 DEF EmptyOK
        <5>. QED
          BY <2>5, <2>6, <3>1, <4>2, <5>1, ConcatEmptySeq
      <4>. QED
        BY <4>1, <4>2
    <3>3. saved[t] = written[t] \o TakenOf(t) \o pool'[t] \o << >>
      <4>1. written[t] \o TakenOf(t) \o pool[t] \o current[t]
              = written[t] \o TakenOf(t) \o (pool[t] \o current[t]) \o << >>
        <5>. DEFINE front == written[t] \o TakenOf(t)
        <5>1. front \in Seq(Text)
          BY <3>1, Sums
        <5>. HIDE DEF front
        <5>2. (front \o pool[t]) \o current[t] = (front \o (pool[t] \o current[t])) \o << >>
          BY <3>1, <5>1, MoveLast
        <5>. QED
          BY <5>2 DEF front
      <4>. QED
        BY <2>3, <3>2, <4>1
    <3>4. pool'[t] \in Seq(Text) /\ << >> \in Seq(Text)
      BY <3>1, <3>2, ConcatProperties, EmptySeq
    <3>5. CASE got
      <4>1. saved'[t] = Append(saved[t], TextOf(w)) /\ current'[t] = <<TextOf(w)>>
        BY <2>2, <2>4, <2>6, <3>5 DEF Saved, LogsOK
      <4>2. Append(<< >>, TextOf(w)) = <<TextOf(w)>>
        OBVIOUS
      <4>3. saved'[t] = written[t] \o TakenOf(t) \o pool'[t] \o current'[t]
        <5>1. Append(written[t] \o TakenOf(t) \o pool'[t] \o << >>, TextOf(w))
                = written[t] \o TakenOf(t) \o pool'[t] \o Append(<< >>, TextOf(w))
          <6>. DEFINE front == written[t] \o TakenOf(t) \o pool'[t]
          <6>1. front \in Seq(Text)
            BY <3>1, <3>4, Sums
          <6>. HIDE DEF front
          <6>2. Append(front \o << >>, TextOf(w)) = front \o Append(<< >>, TextOf(w))
            BY <2>2, <3>4, <6>1, AppendLast
          <6>. QED
            BY <6>2 DEF front
        <5>. QED
          BY <3>3, <4>1, <4>2, <5>1
      <4>. QED
        BY <2>1, <2>3, <4>3
    <3>6. CASE ~ got
      <4>1. saved'[t] = saved[t] /\ current'[t] = << >>
        BY <2>2, <2>4, <2>6, <3>6 DEF LogsOK
      <4>. QED
        BY <2>1, <2>3, <3>3, <4>1
    <3>. QED
      BY <3>5, <3>6
  <2>7. CASE t # pc[w].type
    <3>1. saved'[t] = saved[t] /\ current'[t] = current[t] /\ pool'[t] = pool[t]
      BY <2>4, <2>5, <2>7 DEF Saved, Released, LogsOK
    <3>. QED
      BY <2>1, <2>3, <3>1
  <2>. QED
    BY <2>6, <2>7
<1>5. CASE WtPass
  <2>1. UNCHANGED <<mode, saved, written, pool, current, taken>> /\ taken = << >>
    BY <1>5 DEF WtPass, EmptyOK
  <2>. QED
    BY <2>1 DEF AsynInOrder, TakenOf, Asyn
<1>6. ASSUME WtTake, NEW t \in Type, Asyn(t)'
      PROVE  (saved[t] = written[t] \o TakenOf(t) \o pool[t] \o current[t])'
  <2>1. UNCHANGED <<mode, saved, written, current>> /\ Asyn(t) /\ wt'.type = wt.type
    BY <1>6 DEF WtTake, Asyn, LogsOK
  <2>2. taken = << >> /\ taken' = pool[wt.type] /\ pool' = [pool EXCEPT ![wt.type] = << >>]
    BY <1>6 DEF WtTake, EmptyOK
  <2>3. saved[t] = written[t] \o TakenOf(t) \o pool[t] \o current[t]
    BY <2>1 DEF AsynInOrder
  <2>4. CASE t = wt.type
    <3>1. TakenOf(t) = << >> /\ TakenOf(t)' = pool[t] /\ pool'[t] = << >>
      BY <2>1, <2>2, <2>4 DEF TakenOf, LogsOK
    <3>2. /\ written[t] \in Seq(Text) /\ pool[t] \in Seq(Text) /\ current[t] \in Seq(Text)
          /\ written[t] \o pool[t] \in Seq(Text)
      BY <2>1, Places, ConcatProperties
    <3>3. /\ written[t] \o << >> \o pool[t] = written[t] \o pool[t]
          /\ written[t] \o pool[t] \o << >> = written[t] \o pool[t]
      BY <3>2, ConcatEmptySeq
    <3>. QED
      BY <2>1, <2>3, <3>1, <3>3
  <2>5. CASE t # wt.type
    <3>1. TakenOf(t)' = TakenOf(t) /\ pool'[t] = pool[t]
      BY <2>1, <2>2, <2>5 DEF TakenOf, LogsOK
    <3>. QED
      BY <2>1, <2>3, <3>1
  <2>. QED
    BY <2>4, <2>5
<1>7. ASSUME WtWrite, NEW t \in Type, Asyn(t)'
      PROVE  (saved[t] = written[t] \o TakenOf(t) \o pool[t] \o current[t])'
  <2>1. UNCHANGED <<mode, saved, pool, current, wt>> /\ Asyn(t)
    BY <1>7 DEF WtWrite, Asyn
  <2>2. /\ taken' = Rest(taken, PerRecord)
        /\ written' = [written EXCEPT ![wt.type] = @ \o Front(taken, PerRecord)]
    BY <1>7 DEF WtWrite, WriteFile
  <2>3. saved[t] = written[t] \o TakenOf(t) \o pool[t] \o current[t]
    BY <2>1 DEF AsynInOrder
  <2>4. CASE t = wt.type
    <3>. DEFINE f == Front(taken, PerRecord)
                r == Rest(taken, PerRecord)
    <3>1. TakenOf(t) = taken /\ TakenOf(t)' = r /\ written'[t] = written[t] \o f
      BY <2>1, <2>2, <2>4 DEF TakenOf, LogsOK
    <3>2. f \in Seq(Text) /\ r \in Seq(Text) /\ f \o r = taken
      BY Parts, LogAssumption DEF LogsOK
    <3>. HIDE DEF f, r
    <3>3. written[t] \in Seq(Text)
      BY <2>1, Places
    <3>4. (written[t] \o f) \o r = written[t] \o taken
      <4>1. \A a, b, c \in Seq(Text) : (a \o b) \o c = a \o (b \o c)
        BY ConcatAssociative
      <4>. QED
        BY <3>2, <3>3, <4>1
    <3>. QED
      BY <2>1, <2>3, <3>1, <3>4
  <2>5. CASE t # wt.type
    <3>1. TakenOf(t)' = TakenOf(t) /\ written'[t] = written[t]
      BY <2>1, <2>2, <2>5 DEF TakenOf, LogsOK
    <3>. QED
      BY <2>1, <2>3, <3>1
  <2>. QED
    BY <2>4, <2>5
<1>8. CASE WtReturn
  <2>1. UNCHANGED <<mode, saved, written, pool, current, taken>> /\ taken = << >>
    BY <1>8 DEF WtReturn
  <2>. QED
    BY <2>1 DEF AsynInOrder, TakenOf, Asyn
<1>9. ASSUME WtCurrent, NEW t \in Type, Asyn(t)'
      PROVE  (saved[t] = written[t] \o TakenOf(t) \o pool[t] \o current[t])'
  <2>1. UNCHANGED <<mode, saved, pool, taken>> /\ Asyn(t) /\ taken = << >>
    BY <1>9 DEF WtCurrent, Asyn, EmptyOK
  <2>2. TakenOf(t) = << >> /\ TakenOf(t)' = << >>
    BY <2>1 DEF TakenOf
  <2>3. saved[t] = written[t] \o TakenOf(t) \o pool[t] \o current[t]
    BY <2>1 DEF AsynInOrder
  <2>4. CASE NoneWaiting(wt.type) /\ has[wt.type] /\ t = wt.type
    <3>1. written'[t] = written[t] \o current[t] /\ current'[t] = << >> /\ pool[t] = << >>
      BY <1>9, <2>4 DEF WtCurrent, WriteFile, NoneWaiting, LogsOK
    <3>2. /\ written[t] \in Seq(Text) /\ current[t] \in Seq(Text)
          /\ written[t] \o current[t] \in Seq(Text)
      BY <2>1, Places, ConcatProperties
    <3>3. /\ written[t] \o << >> \o << >> \o current[t] = written[t] \o current[t]
          /\ (written[t] \o current[t]) \o << >> \o << >> \o << >> = written[t] \o current[t]
      BY <3>2, ConcatEmptySeq
    <3>. QED
      BY <2>1, <2>2, <2>3, <3>1, <3>3
  <2>5. CASE ~ (NoneWaiting(wt.type) /\ has[wt.type]) \/ t # wt.type
    <3>1. written'[t] = written[t] /\ current'[t] = current[t]
      BY <1>9, <2>5 DEF WtCurrent, WriteFile, LogsOK
    <3>. QED
      BY <2>1, <2>2, <2>3, <3>1
  <2>. QED
    BY <2>4, <2>5
<1>10. ASSUME NEW l \in config.levels, Create(l), NEW t \in Type, Asyn(t)'
       PROVE  (saved[t] = written[t] \o TakenOf(t) \o pool[t] \o current[t])'
  <2>1. saved' = written /\ UNCHANGED <<written, pool, current, wt, taken, config>>
    BY <1>10 DEF Create
  <2>2. pool[t] = << >> /\ current[t] = << >> /\ TakenOf(t)' = << >>
    BY <1>10, <2>1 DEF Create, EmptyOK, ThreadOK, TakenOf
  <2>3. written[t] \in Seq(Text)
    BY <1>10 DEF Create, Asyn, LogsOK, Queued
  <2>. QED
    BY <2>1, <2>2, <2>3, ConcatEmptySeq
<1>11. CASE Delete
  BY <1>11 DEF Delete, AsynInOrder, Asyn
<1>12. CASE \/ AcquireThread \/ JoinThread \/ Enable \/ DisableAll \/ ReleaseThread
            \/ \E t \in Type : Switch(t)
  <2>1. UNCHANGED <<mode, saved, written, pool, current>> /\ \A t : TakenOf(t)' = TakenOf(t)
    BY <1>12, OwnerKeepsText DEF TakenOf
  <2>. QED
    BY <2>1 DEF AsynInOrder, Asyn
<1>. QED
  BY <1>1, <1>2, <1>3, <1>4, <1>5, <1>6, <1>7, <1>8, <1>9, <1>10, <1>11, <1>12,
     PartMoves DEF AsynInOrder

(* The inductive invariant holds at the start.                             *)
LEMMA InitOrder == Init => OrderInv
<1>. SUFFICES ASSUME Init PROVE OrderInv
  OBVIOUS
<1>1. << >> \in Seq(Text)
  BY EmptySeq
<1>2. CallsOK
  BY LogAssumption DEF Init, CallsOK, Type, Level
<1>3. LogsOK
  BY <1>1 DEF Init, LogsOK, WtStates, Queued, Type
<1>4. EmptyOK /\ ThreadOK /\ AsynInOrder
  BY DEF Init, EmptyOK, ThreadOK, AsynInOrder, Asyn
<1>. QED
  BY <1>2, <1>3, <1>4 DEF OrderInv

(* Every step keeps the inductive invariant.                               *)
LEMMA OrderInvStep ==
  ASSUME OrderInv, [Next]_vars
  PROVE  OrderInv'
<1>1. CASE Next
  BY <1>1, CallsStep, LogsStep, EmptyStep, ThreadStep, OrderStep DEF OrderInv
<1>2. CASE UNCHANGED vars
  BY <1>2 DEF vars, OrderInv, CallsOK, LogsOK, EmptyOK, ThreadOK, AsynInOrder, Queued, TakenOf,
              Asyn
<1>. QED
  BY <1>1, <1>2

(* What was written, what the write thread has taken, what waits in the    *)
(* data pool and the current record are, end to end, what was saved in an  *)
(* AsynLog, whoever saves and whenever the write thread runs.              *)
THEOREM LogInOrder == Spec => []AsynInOrder
<1>1. OrderInv => AsynInOrder
  BY DEF OrderInv
<1>. QED
  BY <1>1, InitOrder, OrderInvStep, PTL DEF Spec

-----------------------------------------------------------------------------
(* Every step leaves the current record room for what is in it.            *)
LEMMA RoomStep ==
  ASSUME OrderInv, RoomOK, Next
  PROVE  RoomOK'
<1>. USE DEF OrderInv
<1>0. PerRecord \in Nat \ {0} /\ Len(<< >>) = 0 /\ Queued' = Queued
  <2>1. config' = config
    BY PartMoves DEF parts, SaveOther, SaveAppend, SaveRecord, WtPass, WtTake, WtWrite, WtReturn,
       WtCurrent, Create, Enable, AcquireThread, Switch, DisableAll, ReleaseThread,
       JoinThread, Delete
  <2>. QED
    BY <2>1, LogAssumption DEF Queued
<1>1. CASE UNCHANGED current
  BY <1>0, <1>1 DEF RoomOK
<1>2. ASSUME NEW w \in Writer, SaveAppend(w)
      PROVE  RoomOK'
  <2>1. pc[w].type \in Queued /\ TextOf(w) \in Text
    BY <1>2, InHand DEF SaveAppend, Accepting, LogsOK, Queued
  <2>2. current[pc[w].type] \in Seq(Text)
    BY <2>1 DEF LogsOK
  <2>3. Len(Append(current[pc[w].type], TextOf(w))) = Len(current[pc[w].type]) + 1
    BY <2>1, <2>2, AppendProperties
  <2>4. Len(current[pc[w].type]) + 1 <= PerRecord
    BY <1>0, <1>2, <2>2 DEF SaveAppend, Full
  <2>5. current' = [current EXCEPT ![pc[w].type] = Append(@, TextOf(w))]
    BY <1>2 DEF SaveAppend
  <2>. QED
    BY <1>0, <2>3, <2>4, <2>5 DEF RoomOK, LogsOK, Queued
<1>3. ASSUME NEW w \in Writer, SaveRecord(w)
      PROVE  RoomOK'
  <2>1. PICK got \in BOOLEAN :
          current' = [current EXCEPT ![pc[w].type] = IF got THEN <<TextOf(w)>> ELSE << >>]
    BY <1>3 DEF SaveRecord, Obtained, May
  <2>2. Len(<<TextOf(w)>>) = 1
    OBVIOUS
  <2>. QED
    BY <1>0, <2>1, <2>2 DEF RoomOK, LogsOK, Queued
<1>4. CASE WtCurrent
  <2>1. current' = current \/ current' = [current EXCEPT ![wt.type] = << >>]
    BY <1>4 DEF WtCurrent
  <2>. QED
    BY <1>0, <2>1 DEF RoomOK, LogsOK, Queued
<1>5. CASE Delete
  BY <1>0, <1>5 DEF Delete, RoomOK, Queued
<1>6. \A w \in Writer : SaveOther(w) => UNCHANGED current
  BY DEF SaveOther
<1>7. \A l \in config.levels : Create(l) => UNCHANGED current
  BY DEF Create
<1>8. \A t \in Type : Switch(t) => UNCHANGED current
  BY DEF Switch
<1>9. WtPass \/ WtTake \/ WtWrite \/ WtReturn \/ Enable \/ AcquireThread \/ DisableAll
        \/ ReleaseThread \/ JoinThread => UNCHANGED current
  BY DEF WtPass, WtTake, WtWrite, WtReturn, Enable, AcquireThread, DisableAll, ReleaseThread,
         JoinThread
<1>. QED
  BY <1>1, <1>2, <1>3, <1>4, <1>5, <1>6, <1>7, <1>8, <1>9, PartMoves DEF parts

(* Every step keeps the look at s_log_type_open shut once an exit began,   *)
(* and takes nothing from what is saved.                                   *)
LEMMA ClosingStep ==
  ASSUME OrderInv, ClosingOK, Next
  PROVE  ClosingOK'
<1>. USE DEF OrderInv
<1>. DEFINE Exiting == owner \in {"release", "join", "delete"}
            AtSave == {w \in Writer : pc[w].at = "save"}
<1>1. ASSUME Exiting, UNCHANGED <<config, open, kept, quiet>>, AtSave' \subseteq AtSave,
             \A t \in Queued : Len(saved'[t]) \in Nat /\ Len(saved'[t]) >= Len(saved[t])
      PROVE  ClosingOK'
  <2>1. Queued' = Queued /\ \A t \in Queued : Len(saved[t]) \in Nat
    BY <1>1 DEF Queued, LogsOK
  <2>2. \A t \in Queued : kept[t] \in Nat /\ Len(saved'[t]) >= kept[t]
    BY <1>1, <2>1 DEF ClosingOK
  <2>3. (\A w \in Writer : pc[w].at # "save") => \A w \in Writer : pc'[w].at # "save"
    BY <1>1
  <2>. QED
    BY <1>1, <2>1, <2>2, <2>3 DEF ClosingOK
<1>2. ASSUME UNCHANGED <<config, open, kept, quiet, saved, pc>>, Exiting' => Exiting
      PROVE  ClosingOK'
  BY <1>2 DEF ClosingOK, Queued
<1>3. ASSUME NEW w \in Writer, WriterStep(w)
      PROVE  ClosingOK'
  <2>1. CASE ~ Exiting
    <3>1. UNCHANGED owner
      BY <1>3, WriterMoves DEF parts, SaveOther, SaveAppend, SaveRecord
    <3>. QED
      BY <2>1, <3>1 DEF ClosingOK
  <2>2. CASE Exiting
    <3>1. UNCHANGED <<config, open, kept, quiet>>
      BY <1>3, WriterMoves DEF parts, SaveOther, SaveAppend, SaveRecord
    <3>2. ~ open[pc[w].type]
      BY <2>2 DEF ClosingOK, CallsOK
    <3>3. Advance(w)
      BY <1>3, <3>2, WriterMoves DEF Check, SaveAppend, SaveRecord
    <3>4. AtSave' \subseteq AtSave
      BY <3>3 DEF Advance, Advanced, CallsOK
    <3>5. ASSUME NEW t \in Queued
          PROVE  Len(saved'[t]) \in Nat /\ Len(saved'[t]) >= Len(saved[t])
      <4>1. saved[t] \in Seq(Text)
        BY DEF LogsOK
      <4>2. CASE saved'[t] = saved[t]
        BY <4>1, <4>2
      <4>3. CASE \E x \in Text : saved'[t] = Append(saved[t], x)
        BY <4>1, <4>3, AppendProperties
      <4>4. CASE SaveAppend(w) \/ SaveRecord(w)
        <5>1. TextOf(w) \in Text
          BY <4>4, InHand DEF SaveAppend, SaveRecord, Accepting
        <5>2. saved' = saved \/ saved' = [saved EXCEPT ![pc[w].type] = Append(@, TextOf(w))]
          BY <4>4 DEF SaveAppend, SaveRecord, Saved
        <5>. QED
          BY <4>2, <4>3, <5>1, <5>2 DEF LogsOK, Queued
      <4>. QED
        BY <1>3, <4>2, <4>4, WriterMoves, OtherNotQueued DEF parts
    <3>. QED
      BY <1>1, <2>2, <3>1, <3>4, <3>5
  <2>. QED
    BY <2>1, <2>2
<1>4. CASE DisableAll
  <2>1. /\ open' = [t \in Type |-> FALSE] /\ kept' = [t \in Type |-> Len(saved[t])]
        /\ quiet' = \A w \in Writer : pc[w].at # "save"
        /\ UNCHANGED <<config, saved, pc>>
    BY <1>4 DEF DisableAll
  <2>2. \A t \in Queued : Len(saved[t]) \in Nat /\ Len(saved[t]) >= Len(saved[t])
    BY DEF LogsOK
  <2>3. \A t \in Queued : kept'[t] \in Nat /\ Len(saved'[t]) >= kept'[t]
    BY <2>1, <2>2 DEF Queued
  <2>4. quiet' => \A w \in Writer : pc'[w].at # "save"
    BY <2>1
  <2>5. Queued' = Queued /\ \A t \in Type : ~ open'[t]
    BY <2>1 DEF Queued
  <2>. QED
    BY <2>3, <2>4, <2>5 DEF ClosingOK
<1>5. ASSUME NEW w \in Writer, NEW t \in Type, NEW l \in Level, Call(w, t, l)
      PROVE  ClosingOK'
  <2>1. UNCHANGED <<config, open, kept, quiet, saved, owner>> /\ AtSave' \subseteq AtSave
    BY <1>5 DEF Call, CallsOK
  <2>2. \A u \in Queued : Len(saved[u]) \in Nat /\ Len(saved[u]) >= Len(saved[u])
    BY DEF LogsOK
  <2>3. CASE Exiting
    BY <1>1, <2>1, <2>2, <2>3
  <2>. QED
    BY <2>1, <2>3 DEF ClosingOK
<1>6. CASE WriteThread \/ Tick
  <2>1. UNCHANGED <<config, open, kept, quiet, saved, pc, owner>>
    BY <1>6 DEF WriteThread, WtPass, WtTake, WtWrite, WtReturn, WtCurrent, WriteFile, Tick
  <2>. QED
    BY <1>2, <2>1
<1>7. CASE ExitLog
  <2>1. UNCHANGED <<config, open, kept, quiet, saved, pc>> /\ (Exiting' => Exiting)
    BY <1>7 DEF ExitLog, ReleaseThread, JoinThread, Delete
  <2>. QED
    BY <1>2, <2>1
<1>8. ASSUME InitLog \/ \E t \in Type, l \in config.levels : SetLevel(t, l)
      PROVE  ClosingOK'
  <2>1. owner' \notin {"release", "join", "delete"}
    BY <1>8 DEF InitLog, Enable, AcquireThread, SetLevel
  <2>. QED
    BY <2>1 DEF ClosingOK
<1>9. ASSUME NEW l \in config.levels, Create(l)
      PROVE  ClosingOK'
  BY <1>9 DEF ClosingOK, Create
<1>10. ASSUME NEW t \in Type, Switch(t)
       PROVE  ClosingOK'
  BY <1>10 DEF ClosingOK, Switch
<1>. QED
  BY <1>3, <1>4, <1>5, <1>6, <1>7, <1>8, <1>9, <1>10 DEF Next

(* Every step keeps the last pass where release_write_thread put it.       *)
LEMMA LastStep ==
  ASSUME OrderInv, LastOK, Next
  PROVE  LastOK'
<1>. USE DEF OrderInv, LastOK
<1>0. wt \in [at : WtStates, type : Type, last : BOOLEAN]
  BY DEF LogsOK
<1>1. CASE UNCHANGED <<wt, owner, running>>
  BY <1>1
<1>2. CASE WtPass
  <2>1. wt' = [at |-> "take", type |-> First, last |-> ~ running] /\ wt.at = "loop"
    BY <1>2 DEF WtPass
  <2>2. UNCHANGED <<owner, running>> /\ owner \in {"on", "release", "join"}
    BY <1>2 DEF WtPass, ThreadOK
  <2>. QED
    BY <2>1, <2>2
<1>3. CASE WtTake \/ WtReturn
  <2>1. /\ wt'.last = wt.last /\ wt'.at \in {"write", "current"} /\ wt.at \in {"take", "write"}
        /\ UNCHANGED <<owner, running>>
    BY <1>0, <1>3 DEF WtTake, WtReturn
  <2>. QED
    BY <2>1
<1>4. CASE WtCurrent
  <2>1. wt' = AfterLog /\ wt.at = "current" /\ UNCHANGED <<owner, running>>
    BY <1>4 DEF WtCurrent
  <2>2. \/ AfterLog.at = "take" /\ AfterLog.last = wt.last
        \/ AfterLog.at = (IF wt.last THEN "end" ELSE "loop") /\ AfterLog.last = FALSE
    BY AfterLogOK
  <2>. QED
    BY <1>0, <2>1, <2>2
<1>5. CASE AcquireThread
  <2>1. wt.at = "off"
    BY <1>5 DEF AcquireThread, ThreadOK
  <2>2. \/ wt' = [wt EXCEPT !.at = "loop"] /\ running' = TRUE
        \/ wt' = wt
    BY <1>5 DEF AcquireThread, Started
  <2>. QED
    BY <1>0, <2>1, <2>2
<1>6. CASE ReleaseThread
  <2>1. UNCHANGED wt /\ owner' = "join" /\ owner = "release"
    BY <1>6 DEF ReleaseThread
  <2>. QED
    BY <2>1
<1>7. CASE JoinThread
  <2>1. wt' = [wt EXCEPT !.at = "off"] /\ wt.at = "end"
    BY <1>7 DEF JoinThread, Joined
  <2>. QED
    BY <1>0, <2>1
<1>8. CASE DisableAll
  BY <1>8 DEF DisableAll
<1>9. CASE Delete \/ Enable \/ \E l \in config.levels : Create(l)
  <2>1. owner \in {"delete", "enable", "off"} /\ UNCHANGED wt
    BY <1>9 DEF Delete, Enable, Create
  <2>. QED
    BY <2>1 DEF ThreadOK
<1>10. ASSUME NEW w \in Writer, SaveOther(w) \/ SaveAppend(w) \/ SaveRecord(w)
       PROVE  UNCHANGED <<wt, owner>> /\ running' = running
  BY <1>10 DEF SaveOther, SaveAppend, SaveRecord
<1>11. ASSUME NEW t \in Type, Switch(t)
       PROVE  UNCHANGED <<wt, owner, running>>
  BY <1>11 DEF Switch
<1>12. WtWrite \/ UNCHANGED parts => UNCHANGED <<wt, owner, running>>
  BY DEF WtWrite, parts
<1>. QED
  BY <1>1, <1>2, <1>3, <1>4, <1>5, <1>6, <1>7, <1>8, <1>9, <1>10, <1>11, <1>12, PartMoves

-----------------------------------------------------------------------------
(* The texts of an AsynLog are as many as have been saved in it.           *)
LEMMA Lengths ==
  ASSUME LogsOK, AsynInOrder, NEW t \in Type, Asyn(t)
  PROVE  /\ Len(written[t]) \in Nat /\ Len(TakenOf(t)) \in Nat
         /\ Len(pool[t]) \in Nat /\ Len(current[t]) \in Nat
         /\ Len(saved[t]) = Len(written[t]) + Len(TakenOf(t)) + Len(pool[t]) + Len(current[t])
<1>1. /\ written[t] \in Seq(Text) /\ TakenOf(t) \in Seq(Text)
      /\ pool[t] \in Seq(Text) /\ current[t] \in Seq(Text)
  BY Places
<1>2. saved[t] = written[t] \o TakenOf(t) \o pool[t] \o current[t]
  BY DEF AsynInOrder
<1>3. Len(written[t] \o TakenOf(t) \o pool[t] \o current[t])
        = Len(written[t]) + Len(TakenOf(t)) + Len(pool[t]) + Len(current[t])
  BY <1>1, Sums
<1>. QED
  BY <1>1, <1>2, <1>3

(* What LeftOK says of log t.                                              *)
LeftOf(t) ==
  IF quiet THEN pool[t] = << >> /\ (Done(t) => current[t] = << >>)
  ELSE Len(written[t]) + Len(TakenOf(t)) >= kept[t] - PerRecord

(* Every step keeps what the last pass leaves behind.                      *)
LEMMA LeftStep ==
  ASSUME ExitInv, Next, NEW t \in Type, Asyn(t)', owner' \in {"join", "delete"},
         (InLast(t) \/ Done(t))'
  PROVE  LeftOf(t)'
<1>. USE DEF ExitInv, OrderInv
<1>. DEFINE Past == owner \in {"join", "delete"} /\ (InLast(t) \/ Done(t))
<1>0. wt \in [at : WtStates, type : Type, last : BOOLEAN]
  BY DEF LogsOK
<1>1. ASSUME Past, Asyn(t)
      PROVE  LeftOf(t)
  BY <1>1 DEF LeftOK, LeftOf
<1>2. ASSUME UNCHANGED <<mode, owner, wt, taken, kept, quiet, written>>,
             quiet => UNCHANGED <<pool, current>>
      PROVE  LeftOf(t)'
  <2>1. Asyn(t) /\ Past
    BY <1>2 DEF Asyn, InLast, Done
  <2>2. LeftOf(t)
    BY <1>1, <2>1
  <2>. QED
    BY <1>2, <2>2 DEF LeftOf, Done, TakenOf
<1>3. ASSUME NEW w \in Writer, SaveOther(w)
      PROVE  LeftOf(t)'
  <2>1. UNCHANGED <<mode, owner, wt, taken, kept, quiet, pool, current>>
    BY <1>3 DEF SaveOther
  <2>2. Asyn(t) /\ Past
    BY <2>1 DEF Asyn, InLast, Done
  <2>3. written'[t] = written[t]
    BY <1>3, <2>2, AsynQueued, OtherNotQueued
  <2>4. LeftOf(t)
    BY <1>1, <2>2
  <2>. QED
    BY <2>1, <2>3, <2>4 DEF LeftOf, Done, TakenOf
<1>4. ASSUME NEW w \in Writer, SaveAppend(w) \/ SaveRecord(w)
      PROVE  LeftOf(t)'
  <2>1. UNCHANGED <<mode, owner, wt, taken, kept, quiet, written>> /\ pc[w].at = "save"
    BY <1>4 DEF SaveAppend, SaveRecord, Accepting
  <2>2. ~ quiet
    BY <2>1 DEF ClosingOK
  <2>. QED
    BY <1>2, <2>1, <2>2
<1>5. CASE WtPass
  <2>1. /\ UNCHANGED <<mode, owner>> /\ wt'.at = "take" /\ wt'.type = First
        /\ wt.at = "loop" /\ Asyn(t)
    BY <1>5 DEF WtPass, Asyn
  <2>2. owner # "delete"
    BY <2>1 DEF ThreadOK
  <2>3. FALSE
    BY <2>1, <2>2 DEF InLast, Done, First
  <2>. QED
    BY <2>3
<1>6. CASE WtTake
  <2>1. /\ UNCHANGED <<mode, owner, kept, quiet, written, current, saved>> /\ Asyn(t)
        /\ wt.at = "take" /\ wt'.at = "write" /\ wt'.type = wt.type /\ wt'.last = wt.last
        /\ taken' = pool[wt.type] /\ pool' = [pool EXCEPT ![wt.type] = << >>]
    BY <1>0, <1>6 DEF WtTake, Asyn
  <2>2. taken = << >> /\ owner # "delete" /\ owner = "join"
    BY <2>1 DEF EmptyOK, ThreadOK
  <2>3. CASE t = wt.type
    <3>1. pool'[t] = << >> /\ TakenOf(t)' = pool[t] /\ TakenOf(t) = << >>
      BY <2>1, <2>2, <2>3 DEF LogsOK, TakenOf
    <3>2. ~ Done(t)'
      BY <2>1, <2>2, <2>3 DEF Done
    <3>3. /\ Len(written[t]) \in Nat /\ Len(TakenOf(t)) \in Nat
          /\ Len(pool[t]) \in Nat /\ Len(current[t]) \in Nat
          /\ Len(saved[t]) = Len(written[t]) + Len(TakenOf(t)) + Len(pool[t]) + Len(current[t])
      BY <2>1, Lengths
    <3>4. /\ Len(current[t]) <= PerRecord /\ kept[t] \in Nat /\ Len(saved[t]) >= kept[t]
          /\ Len(TakenOf(t)) = 0 /\ PerRecord \in Nat
      BY <2>1, <2>2, <3>1, AsynQueued, LogAssumption DEF RoomOK, ClosingOK
    <3>5. \A a, b, c, d, k, p, s \in Nat :
             s = a + b + c + d /\ b = 0 /\ d <= p /\ s >= k => a + c >= k - p
      OBVIOUS
    <3>6. Len(saved[t]) \in Nat
      BY <2>1, Places
    <3>7. Len(written[t]) + Len(pool[t]) >= kept[t] - PerRecord
      BY <3>3, <3>4, <3>5, <3>6
    <3>. QED
      BY <2>1, <3>1, <3>2, <3>7 DEF LeftOf
  <2>4. CASE t # wt.type
    <3>1. pool'[t] = pool[t] /\ TakenOf(t)' = << >> /\ TakenOf(t) = << >>
      BY <2>1, <2>2, <2>4 DEF LogsOK, TakenOf
    <3>2. Done(t) /\ (InLast(t) \/ Done(t))
      BY <2>1, <2>2, <2>4 DEF InLast, Done
    <3>3. LeftOf(t)
      BY <1>1, <2>1, <2>2, <3>2
    <3>. QED
      BY <2>1, <3>1, <3>2, <3>3 DEF LeftOf
  <2>. QED
    BY <2>3, <2>4
<1>7. CASE WtWrite
  <2>1. /\ UNCHANGED <<mode, owner, wt, kept, quiet, pool, current>> /\ Asyn(t)
        /\ taken' = Rest(taken, PerRecord)
        /\ written' = [written EXCEPT ![wt.type] = @ \o Front(taken, PerRecord)]
    BY <1>7 DEF WtWrite, WriteFile, Asyn
  <2>2. Past
    BY <2>1 DEF InLast, Done
  <2>3. LeftOf(t)
    BY <1>1, <2>1, <2>2
  <2>4. Len(written'[t]) + Len(TakenOf(t)') = Len(written[t]) + Len(TakenOf(t))
    <3>1. CASE t # wt.type
      BY <2>1, <3>1 DEF TakenOf, LogsOK
    <3>2. CASE t = wt.type
      <4>. DEFINE f == Front(taken, PerRecord)
                  r == Rest(taken, PerRecord)
      <4>1. f \in Seq(Text) /\ r \in Seq(Text) /\ f \o r = taken
        BY Parts, LogAssumption DEF LogsOK
      <4>2. written'[t] = written[t] \o f /\ TakenOf(t)' = r /\ TakenOf(t) = taken
        BY <2>1, <3>2 DEF TakenOf, LogsOK
      <4>. HIDE DEF f, r
      <4>3. written[t] \in Seq(Text)
        BY <2>1, Places
      <4>4. /\ Len(f \o r) = Len(f) + Len(r)
            /\ Len(written[t] \o f) = Len(written[t]) + Len(f)
        BY <4>1, <4>3, ConcatProperties
      <4>5. Len(written[t]) \in Nat /\ Len(f) \in Nat /\ Len(r) \in Nat
        BY <4>1, <4>3
      <4>6. \A a, b, c \in Nat : (a + b) + c = a + (b + c)
        OBVIOUS
      <4>7. (Len(written[t]) + Len(f)) + Len(r) = Len(written[t]) + (Len(f) + Len(r))
        BY <4>5, <4>6
      <4>8. Len(taken) = Len(f) + Len(r)
        BY <4>1, <4>4
      <4>. QED
        BY <4>2, <4>4, <4>7, <4>8
    <3>. QED
      BY <3>1, <3>2
  <2>. QED
    BY <2>1, <2>3, <2>4 DEF LeftOf, Done
<1>8. CASE WtReturn
  <2>1. /\ UNCHANGED <<mode, owner, kept, quiet, pool, current, written, taken>> /\ Asyn(t)
        /\ wt.at = "write" /\ wt'.at = "current" /\ wt'.type = wt.type /\ wt'.last = wt.last
    BY <1>0, <1>8 DEF WtReturn, Asyn
  <2>2. Past /\ (Done(t)' => Done(t))
    BY <2>1 DEF InLast, Done
  <2>3. LeftOf(t)
    BY <1>1, <2>1, <2>2
  <2>. QED
    BY <2>1, <2>2, <2>3 DEF LeftOf, TakenOf
<1>9. CASE WtCurrent
  <2>1. /\ UNCHANGED <<mode, owner, kept, quiet, pool, taken>> /\ Asyn(t)
        /\ wt.at = "current" /\ wt' = AfterLog /\ taken = << >>
    BY <1>9 DEF WtCurrent, Asyn, EmptyOK
  <2>2. owner = "join" /\ TakenOf(t) = << >> /\ TakenOf(t)' = << >>
    BY <2>1 DEF ThreadOK, TakenOf
  <2>3. wt.last /\ Done(t)'
    BY <1>0, <2>1, <2>2, AfterLogOK DEF InLast, Done
  <2>4. t = wt.type \/ Done(t)
    BY <1>0, <2>1, <2>2, <2>3, AfterLogOK DEF Done, Type
  <2>5. LeftOf(t)
    BY <1>1, <2>1, <2>2, <2>3, <2>4 DEF InLast
  <2>6. CASE quiet
    <3>1. pool[t] = << >>
      BY <2>5, <2>6 DEF LeftOf
    <3>2. current'[t] = << >>
      <4>1. CASE t = wt.type /\ has[t]
        BY <1>9, <3>1, <4>1 DEF WtCurrent, NoneWaiting, LogsOK
      <4>2. CASE ~ (t = wt.type /\ has[t])
        <5>1. current[t] = << >>
          BY <2>4, <2>5, <2>6, <4>2 DEF LeftOf, EmptyOK
        <5>2. current' = current \/ current' = [current EXCEPT ![wt.type] = << >>]
          BY <1>9 DEF WtCurrent
        <5>. QED
          BY <5>1, <5>2 DEF LogsOK
      <4>. QED
        BY <4>1, <4>2
    <3>. QED
      BY <2>1, <2>6, <3>1, <3>2 DEF LeftOf
  <2>7. CASE ~ quiet
    <3>1. written' = written \/ written' = [written EXCEPT ![wt.type] = @ \o current[wt.type]]
      BY <1>9 DEF WtCurrent, WriteFile
    <3>2. written[t] \in Seq(Text) /\ current[t] \in Seq(Text)
      BY <2>1, Places
    <3>3. Len(written[t] \o current[t]) = Len(written[t]) + Len(current[t])
      BY <3>2, ConcatProperties
    <3>4. /\ Len(written'[t]) >= Len(written[t])
          /\ Len(written'[t]) \in Nat /\ Len(written[t]) \in Nat
      <4>1. written'[t] = written[t] \/ written'[t] = written[t] \o current[t]
        BY <3>1 DEF LogsOK
      <4>2. Len(written[t]) \in Nat /\ Len(current[t]) \in Nat
        BY <3>2
      <4>3. /\ Len(written[t]) + Len(current[t]) \in Nat
            /\ Len(written[t]) + Len(current[t]) >= Len(written[t])
        <5>1. \A a, b \in Nat : a + b \in Nat /\ a + b >= a
          OBVIOUS
        <5>. QED
          BY <4>2, <5>1, Zenon
      <4>4. CASE written'[t] = written[t]
        BY <4>2, <4>4
      <4>5. CASE written'[t] = written[t] \o current[t]
        BY <3>3, <4>2, <4>3, <4>5
      <4>. QED
        BY <4>1, <4>4, <4>5
    <3>5. kept[t] \in Nat /\ PerRecord \in Nat
      BY <2>1, <2>2, AsynQueued, LogAssumption DEF ClosingOK
    <3>6. Len(written[t]) + Len(TakenOf(t)) >= kept[t] - PerRecord
      BY <2>5, <2>7 DEF LeftOf
    <3>7. Len(written'[t]) + Len(TakenOf(t)') >= kept[t] - PerRecord
      BY <2>2, <3>4, <3>5, <3>6
    <3>. QED
      BY <2>1, <2>7, <3>7 DEF LeftOf
  <2>. QED
    BY <2>6, <2>7
<1>10. CASE ReleaseThread
  <2>1. owner = "release" /\ UNCHANGED wt /\ owner' = "join"
    BY <1>10 DEF ReleaseThread
  <2>2. wt.at # "off" /\ (wt.last \/ wt.at = "end")
    BY <2>1 DEF InLast, Done
  <2>3. FALSE
    BY <2>1, <2>2 DEF LastOK
  <2>. QED
    BY <2>3
<1>11. CASE JoinThread
  <2>1. /\ UNCHANGED <<mode, kept, quiet, pool, current, written, taken>> /\ Asyn(t)
        /\ owner = "join" /\ wt.at = "end" /\ wt'.type = wt.type
    BY <1>0, <1>11 DEF JoinThread, Joined, Asyn
  <2>2. Past /\ Done(t)
    BY <2>1 DEF Done
  <2>3. LeftOf(t)
    BY <1>1, <2>1, <2>2
  <2>. QED
    BY <2>1, <2>2, <2>3 DEF LeftOf, TakenOf
<1>12. CASE DisableAll
  BY <1>12 DEF DisableAll, Asyn
<1>13. CASE Delete \/ Enable \/ AcquireThread \/ \E l \in config.levels : Create(l)
  BY <1>13 DEF Delete, Enable, AcquireThread, Create
<1>14. CASE \E u \in Type : Switch(u)
  BY <1>14 DEF Switch
<1>15. CASE UNCHANGED parts
  BY <1>2, <1>15 DEF parts
<1>. QED
  BY <1>3, <1>4, <1>5, <1>6, <1>7, <1>8, <1>9, <1>10, <1>11, <1>12, <1>13, <1>14, <1>15,
     PartMoves

(* The inductive invariant holds at the start.                             *)
LEMMA InitExit == Init => ExitInv
<1>. SUFFICES ASSUME Init PROVE ExitInv
  OBVIOUS
<1>1. RoomOK
  BY LogAssumption DEF Init, RoomOK, Queued
<1>2. ClosingOK /\ LastOK /\ LeftOK
  BY DEF Init, ClosingOK, LastOK, LeftOK
<1>. QED
  BY <1>1, <1>2, InitOrder DEF ExitInv

(* Every step keeps the inductive invariant.                               *)
LEMMA ExitInvStep ==
  ASSUME ExitInv, [Next]_vars
  PROVE  ExitInv'
<1>1. CASE Next
  <2>1. OrderInv' /\ RoomOK' /\ ClosingOK' /\ LastOK'
    BY <1>1, OrderInvStep, RoomStep, ClosingStep, LastStep DEF ExitInv
  <2>2. LeftOK'
    BY <1>1, LeftStep DEF LeftOK, LeftOf
  <2>. QED
    BY <2>1, <2>2 DEF ExitInv
<1>2. CASE UNCHANGED vars
  <2>1. OrderInv'
    BY <1>2, OrderInvStep DEF ExitInv
  <2>. QED
    BY <1>2, <2>1 DEF vars, ExitInv, RoomOK, ClosingOK, LastOK, LeftOK, InLast, Done, TakenOf,
       Queued, Asyn
<1>. QED
  BY <1>1, <1>2

(* When stupid_log_exit deletes an AsynLog, all that was saved before the  *)
(* exit began is written, except for one record at most, and that only if  *)
(* a call was then past its look at s_log_type_open.                       *)
THEOREM ExitLeavesNothing == Spec => []ExitWrites
<1>1. ASSUME ExitInv, NEW t \in Type, Asyn(t), owner = "delete"
      PROVE  Len(written[t]) >= IF quiet THEN kept[t] ELSE kept[t] - PerRecord
  <2>. USE DEF ExitInv, OrderInv
  <2>1. Done(t) /\ TakenOf(t) = << >>
    BY <1>1 DEF Done, TakenOf, ThreadOK, EmptyOK
  <2>2. LeftOf(t)
    BY <1>1, <2>1 DEF LeftOK, LeftOf
  <2>3. /\ Len(written[t]) \in Nat /\ Len(TakenOf(t)) \in Nat
        /\ Len(pool[t]) \in Nat /\ Len(current[t]) \in Nat
        /\ Len(saved[t]) = Len(written[t]) + Len(TakenOf(t)) + Len(pool[t]) + Len(current[t])
    BY <1>1, Lengths
  <2>4. kept[t] \in Nat /\ Len(saved[t]) >= kept[t] /\ PerRecord \in Nat /\ Len(TakenOf(t)) = 0
    BY <1>1, <2>1, AsynQueued, LogAssumption DEF ClosingOK
  <2>5. CASE quiet
    <3>1. Len(pool[t]) = 0 /\ Len(current[t]) = 0
      BY <2>1, <2>2, <2>5 DEF LeftOf
    <3>. QED
      BY <2>3, <2>4, <2>5, <3>1
  <2>6. CASE ~ quiet
    BY <2>2, <2>3, <2>4, <2>6 DEF LeftOf
  <2>. QED
    BY <2>5, <2>6
<1>2. ExitInv => ExitWrites
  BY <1>1 DEF ExitWrites
<1>. QED
  BY <1>2, InitExit, ExitInvStep, PTL DEF Spec

-----------------------------------------------------------------------------
(* What a LazyLog holds: s is what was saved, of which the last flush took *)
(* the first f texts.  A ring that has run over holds the newest text      *)
(* where the first one was.                                                *)
Holds(r, s, f) ==
  LET n == Len(s) - f
  IN  /\ f <= Len(s) /\ r.begin = 0 /\ r.count = Least(n, Reserve)
      /\ DOMAIN r.slots = 0 .. (r.count - 1)
      /\ \A i \in 0 .. (r.count - 1) :
           r.slots[i] = s[f + (IF i = 0 /\ n > Reserve THEN n ELSE i + 1)]

IsRing(r) ==
  /\ r = [array |-> r.array, slots |-> r.slots, begin |-> r.begin, count |-> r.count]
  /\ r.array \in BOOLEAN

LazyOK ==
  /\ ring = [t \in Type |-> ring[t]] /\ \A t \in Type : IsRing(ring[t])
  /\ \A t \in Type : mode[t] = "lazy" /\ ring[t].array => Holds(ring[t], saved[t], flushed[t])

(* Every log holds texts, and what was flushed is counted.                 *)
TextsOK ==
  /\ \A t \in Type : saved[t] \in Seq(Text) /\ written[t] \in Seq(Text)
  /\ flushed \in [Type -> Nat]

LazyInv == OrderInv /\ TextsOK /\ LazyOK

(* A ring that was just made, or emptied, holds what was saved since: nothing. *)
LEMMA FreshHolds ==
  ASSUME NEW a \in BOOLEAN, NEW s \in Seq(Text)
  PROVE  IsRing(Ring!NewRing(a)) /\ Holds(Ring!NewRing(a), s, Len(s)) /\ Ring!NewRing(a).array = a
<1>1. Len(s) \in Nat /\ Reserve \in Nat \ {0}
  BY LogAssumption
<1>. QED
  BY <1>1 DEF IsRing, Holds, Ring!NewRing, Least

(* The record a push makes. *)
LEMMA PushShape ==
  ASSUME NEW r, NEW x,
         r = [array |-> r.array, slots |-> r.slots, begin |-> r.begin, count |-> r.count]
  PROVE  Ring!Push(r, x) =
           [array |-> r.array,
            slots |-> [i \in (DOMAIN r.slots) \cup {Ring!PushIndex(r)} |->
                        IF i = Ring!PushIndex(r) THEN x ELSE r.slots[i]],
            begin |-> r.begin, count |-> Ring!Counted(r)]
<1>. DEFINE p == Ring!PushIndex(r)
            c == Ring!Counted(r)
            d == [i \in (DOMAIN r.slots) \cup {p} |-> IF i = p THEN x ELSE r.slots[i]]
<1>1. Ring!Push(r, x) = [r EXCEPT !.slots = d, !.count = c]
  BY DEF Ring!Push
<1>. HIDE DEF p, c, d
<1>. DEFINE a == r.array
            e == r.slots
            b == r.begin
            k == r.count
<1>2. r = [array |-> a, slots |-> e, begin |-> b, count |-> k]
  OBVIOUS
<1>. HIDE DEF a, e, b, k
<1>3. [r EXCEPT !.slots = d, !.count = c] = [array |-> a, slots |-> d, begin |-> b, count |-> c]
  <2>1. [r EXCEPT !.slots = d, !.count = c] = [[r EXCEPT !.slots = d] EXCEPT !.count = c]
    OBVIOUS
  <2>2. [r EXCEPT !.slots = d] = [array |-> a, slots |-> d, begin |-> b, count |-> k]
    BY <1>2
  <2>3. [[array |-> a, slots |-> d, begin |-> b, count |-> k] EXCEPT !.count = c]
          = [array |-> a, slots |-> d, begin |-> b, count |-> c]
    OBVIOUS
  <2>. QED
    BY <2>1, <2>2, <2>3, Zenon
<1>. QED
  BY <1>1, <1>3 DEF p, c, d, a, b

(* A text that is pushed is the next one held, or takes the place of the   *)
(* first.                                                                  *)
LEMMA PushHolds ==
  ASSUME NEW r, IsRing(r), NEW s \in Seq(Text), NEW f \in Nat, Holds(r, s, f), NEW x \in Text
  PROVE  /\ IsRing(Ring!Push(r, x)) /\ Holds(Ring!Push(r, x), Append(s, x), f)
         /\ Ring!Push(r, x).array = r.array
<1>. DEFINE p == Ring!PushIndex(r)
            c == Ring!Counted(r)
            sl == [i \in (DOMAIN r.slots) \cup {p} |-> IF i = p THEN x ELSE r.slots[i]]
            q == Ring!Push(r, x)
            n == Len(s) - f
            z == Append(s, x)
<1>1. /\ Reserve \in Nat \ {0} /\ Len(s) \in Nat /\ n \in Nat /\ f + n = Len(s)
      /\ r.begin = 0 /\ r.count = Least(n, Reserve)
      /\ DOMAIN r.slots = 0 .. (r.count - 1)
  BY LogAssumption DEF Holds
<1>2. q = [array |-> r.array, slots |-> sl, begin |-> r.begin, count |-> c]
  BY PushShape DEF IsRing
<1>3. /\ z \in Seq(Text) /\ Len(z) = Len(s) + 1 /\ z[Len(s) + 1] = x
      /\ \A i \in 1 .. Len(s) : z[i] = s[i]
  BY AppendProperties
<1>4. r.count \in Nat /\ r.count <= Reserve /\ r.count <= n /\ (r.count < Reserve => r.count = n)
  <2>. DEFINE k == r.count
  <2>1. k = Least(n, Reserve) /\ n \in Nat /\ Reserve \in Nat
    BY <1>1
  <2>. HIDE DEF k, n
  <2>2. k \in Nat /\ k <= Reserve /\ k <= n /\ (k < Reserve => k = n)
    BY <2>1 DEF Least
  <2>. QED
    BY <2>2 DEF k
<1>5. p = IF r.count < Reserve THEN r.count ELSE 0
  <2>1. p = r.count % Reserve
    BY <1>1, <1>4 DEF Ring!PushIndex
  <2>2. r.count < Reserve => r.count % Reserve = r.count
    BY <1>1, <1>4
  <2>3. Reserve % Reserve = 0
    BY <1>1
  <2>. DEFINE k == r.count
  <2>. HIDE DEF p, k
  <2>4. p = k % Reserve /\ k \in Nat /\ k <= Reserve /\ (k < Reserve => k % Reserve = k)
    BY <1>4, <2>1, <2>2 DEF k
  <2>5. p = IF k < Reserve THEN k ELSE 0
    BY <1>1, <2>3, <2>4
  <2>. QED
    BY <2>5 DEF k
<1>6. c = IF r.count < Reserve THEN r.count + 1 ELSE r.count
  BY DEF Ring!Counted
<1>. HIDE DEF p, c, q, n, z
<1>7. c = Least(n + 1, Reserve) /\ c \in Nat
  BY <1>1, <1>4, <1>6 DEF Least
<1>8. DOMAIN sl = 0 .. (c - 1)
  BY <1>1, <1>4, <1>5, <1>6
<1>9. ASSUME NEW i \in 0 .. (c - 1)
      PROVE  sl[i] = z[f + (IF i = 0 /\ n + 1 > Reserve THEN n + 1 ELSE i + 1)]
  <2>1. CASE i = p
    <3>1. sl[i] = x
      BY <1>8, <2>1
    <3>2. f + (IF i = 0 /\ n + 1 > Reserve THEN n + 1 ELSE i + 1) = Len(s) + 1
      BY <1>1, <1>4, <1>5, <2>1
    <3>. QED
      BY <1>3, <3>1, <3>2
  <2>2. CASE i # p
    <3>1. sl[i] = r.slots[i]
      BY <1>8, <2>2
    <3>2. i \in 0 .. (r.count - 1) /\ ~ (i = 0 /\ n + 1 > Reserve)
      BY <1>1, <1>4, <1>5, <1>6, <2>2
    <3>3. r.slots[i] = s[f + (i + 1)]
      BY <1>1, <3>2 DEF Holds, n
    <3>4. f + (i + 1) \in 1 .. Len(s)
      BY <1>1, <1>4, <3>2
    <3>. QED
      BY <1>3, <3>1, <3>2, <3>3, <3>4
  <2>. QED
    BY <2>1, <2>2
<1>10. Len(z) - f = n + 1 /\ f <= Len(z)
  BY <1>1, <1>3
<1>11. q.slots = sl /\ q.begin = 0 /\ q.count = c /\ q.array = r.array
  BY <1>1, <1>2
<1>. HIDE DEF sl
<1>12. Holds(q, z, f)
  BY <1>7, <1>8, <1>9, <1>10, <1>11 DEF Holds
<1>13. IsRing(q)
  BY <1>2, <1>11 DEF IsRing
<1>. QED
  BY <1>11, <1>12, <1>13 DEF q, z

(* What a flush writes.                                                    *)
LEMMA FlushHolds ==
  ASSUME NEW r, NEW s \in Seq(Text), NEW f \in Nat, Holds(r, s, f)
  PROVE  LET n == Len(s) - f
             held == Ring!Flushed(r)
         IN  /\ held \in Seq(Text) /\ Len(held) = Least(n, Reserve)
             /\ \A i \in 1 .. Least(n, Reserve) :
                  held[i] = s[f + (IF i = 1 /\ n > Reserve THEN n ELSE i)]
             /\ n \in Nat /\ Reserve \in Nat \ {0}
<1>. DEFINE n == Len(s) - f
            at(i) == f + (IF i = 1 /\ n > Reserve THEN n ELSE i)
<1>1. /\ Reserve \in Nat \ {0} /\ Len(s) \in Nat /\ n \in Nat /\ f + n = Len(s)
      /\ r.begin = 0 /\ r.count = Least(n, Reserve)
  BY LogAssumption DEF Holds
<1>2. r.count \in Nat /\ r.count <= Reserve /\ r.count <= n
  BY <1>1 DEF Least
<1>3. ASSUME NEW i \in 1 .. r.count
      PROVE  r.slots[(r.begin + i - 1) % Reserve] = s[at(i)] /\ s[at(i)] \in Text
  <2>1. (r.begin + i - 1) % Reserve = i - 1
    <3>1. r.begin + i - 1 = i - 1 /\ i - 1 \in Nat /\ i - 1 < Reserve
      BY <1>1, <1>2
    <3>. QED
      BY <1>1, <3>1
  <2>2. i - 1 \in 0 .. (r.count - 1) /\ (i - 1 = 0 <=> i = 1) /\ (i - 1) + 1 = i
    BY <1>2
  <2>3. r.slots[i - 1] = s[at(i)]
    BY <1>1, <2>2 DEF Holds
  <2>4. at(i) \in 1 .. Len(s)
    BY <1>1, <1>2
  <2>. QED
    BY <2>1, <2>3, <2>4
<1>. HIDE DEF n, at
<1>4. Ring!Flushed(r) = [i \in 1 .. r.count |-> s[at(i)]]
  BY <1>3 DEF Ring!Flushed
<1>5. Ring!Flushed(r) \in Seq(Text) /\ Len(Ring!Flushed(r)) = r.count
  <2>. DEFINE h == Ring!Flushed(r)
              c == r.count
  <2>1. h \in [1 .. c -> Text]
    BY <1>3, <1>4
  <2>2. c \in Nat
    BY <1>2
  <2>. HIDE DEF h, c
  <2>3. h \in Seq(Text) /\ Len(h) = c
    BY <2>1, <2>2
  <2>. QED
    BY <2>3 DEF h, c
<1>6. \A i \in 1 .. r.count : Ring!Flushed(r)[i] = s[at(i)]
  BY <1>4
<1>7. \A i \in 1 .. Least(n, Reserve) :
        Ring!Flushed(r)[i] = s[f + (IF i = 1 /\ n > Reserve THEN n ELSE i)]
  BY <1>1, <1>6 DEF at
<1>8. Ring!Flushed(r) \in Seq(Text) /\ Len(Ring!Flushed(r)) = Least(n, Reserve)
  BY <1>1, <1>5
<1>. QED
  BY <1>1, <1>7, <1>8, Zenon DEF n

(* The logs as a LazyLog sees them.                                        *)
books == <<mode, ring, saved, written, flushed>>

(* A step that changes none of them. *)
LEMMA BooksKept ==
  ASSUME TextsOK, LazyOK, UNCHANGED books
  PROVE  TextsOK' /\ LazyOK'
BY DEF books, TextsOK, LazyOK

(* The steps that change none of them. *)
LEMMA BooksIdle ==
  /\ \A w \in Writer, t \in Type, l \in Level : Call(w, t, l) => UNCHANGED books
  /\ \A w \in Writer : Check(w) \/ Discard(w) \/ SaveNowhere(w) => UNCHANGED books
  /\ WtPass \/ WtTake \/ WtReturn \/ InitLog \/ DisableAll \/ ReleaseThread \/ JoinThread \/ Tick
       => UNCHANGED books
  /\ \A t \in Type : Switch(t) => UNCHANGED books
  /\ \A t \in Type, l \in config.levels : SetLevel(t, l) => UNCHANGED books
<1>. USE DEF books
<1>1. \A w \in Writer, t \in Type, l \in Level : Call(w, t, l) => UNCHANGED books
  BY DEF Call
<1>2. \A w \in Writer : Check(w) \/ Discard(w) \/ SaveNowhere(w) => UNCHANGED books
  BY DEF Check, Discard, SaveNowhere, Advance
<1>3. WtPass \/ WtTake \/ WtReturn => UNCHANGED books
  BY DEF WtPass, WtTake, WtReturn
<1>4. InitLog \/ DisableAll \/ ReleaseThread \/ JoinThread \/ Tick => UNCHANGED books
  BY DEF InitLog, Enable, AcquireThread, DisableAll, ReleaseThread, JoinThread, Tick
<1>5. \A t \in Type : Switch(t) => UNCHANGED books
  BY DEF Switch
<1>6. \A t \in Type, l \in config.levels : SetLevel(t, l) => UNCHANGED books
  BY DEF SetLevel
<1>. QED
  BY <1>1, <1>2, <1>3, <1>4, <1>5, <1>6

(* A step that adds to what one log has saved and written.                 *)
LEMMA BooksGrow ==
  ASSUME TextsOK, LazyOK, LogsOK, NEW t \in Type, NEW s \in Seq(Text), NEW x \in Seq(Text),
         saved' = [saved EXCEPT ![t] = s], written' = [written EXCEPT ![t] = x],
         mode[t] # "lazy" \/ s = saved[t], UNCHANGED <<mode, ring, flushed>>
  PROVE  TextsOK' /\ LazyOK'
<1>1. /\ saved'[t] = s /\ \A u \in Type \ {t} : saved'[u] = saved[u]
      /\ written'[t] = x /\ \A u \in Type \ {t} : written'[u] = written[u]
  BY DEF LogsOK
<1>2. TextsOK'
  BY <1>1 DEF TextsOK
<1>3. LazyOK'
  BY <1>1 DEF LazyOK
<1>. QED
  BY <1>2, <1>3

(* A step that saves into a LazyLog, with or without a flush.              *)
LEMMA BooksPush ==
  ASSUME TextsOK, LazyOK, LogsOK, NEW t \in Type, NEW r, NEW f \in Nat, NEW x \in Seq(Text),
         NEW s \in Seq(Text), IsRing(r), Holds(r, s, f),
         ring' = [ring EXCEPT ![t] = r], saved' = [saved EXCEPT ![t] = s],
         flushed' = [flushed EXCEPT ![t] = f], written' = [written EXCEPT ![t] = x],
         UNCHANGED mode
  PROVE  TextsOK' /\ LazyOK'
<1>1. /\ saved'[t] = s /\ \A u \in Type \ {t} : saved'[u] = saved[u]
      /\ written'[t] = x /\ \A u \in Type \ {t} : written'[u] = written[u]
      /\ ring'[t] = r /\ \A u \in Type \ {t} : ring'[u] = ring[u]
      /\ ring' = [u \in Type |-> ring'[u]]
      /\ flushed'[t] = f /\ \A u \in Type \ {t} : flushed'[u] = flushed[u]
      /\ flushed' \in [Type -> Nat]
  BY DEF LogsOK, LazyOK, TextsOK
<1>2. TextsOK'
  BY <1>1 DEF TextsOK
<1>3. LazyOK'
  BY <1>1 DEF LazyOK
<1>. QED
  BY <1>2, <1>3

(* Every step keeps the rings right.                                       *)
LEMMA LazyStep ==
  ASSUME OrderInv, TextsOK, LazyOK, Next
  PROVE  TextsOK' /\ LazyOK'
<1>. USE DEF OrderInv
<1>1. CASE UNCHANGED books
  BY <1>1, BooksKept
<1>2. ASSUME NEW w \in Writer, pc[w].at = "save"
      PROVE  /\ pc[w].type \in Type /\ TextOf(w) \in Text
             /\ saved[pc[w].type] \in Seq(Text) /\ written[pc[w].type] \in Seq(Text)
             /\ flushed[pc[w].type] \in Nat
             /\ Append(saved[pc[w].type], TextOf(w)) \in Seq(Text)
             /\ Len(Append(saved[pc[w].type], TextOf(w))) = Len(saved[pc[w].type]) + 1
             /\ <<TextOf(w)>> \in Seq(Text)
  <2>1. pc[w].type \in Type /\ TextOf(w) \in Text
    BY <1>2, InHand
  <2>2. saved[pc[w].type] \in Seq(Text) /\ written[pc[w].type] \in Seq(Text)
    BY <2>1 DEF TextsOK
  <2>. QED
    BY <2>1, <2>2, AppendProperties DEF TextsOK
<1>3. ASSUME NEW w \in Writer, SaveSync(w)
      PROVE  TextsOK' /\ LazyOK'
  <2>. DEFINE t == pc[w].type
  <2>1. pc[w].at = "save" /\ mode[t] = "sync"
    BY <1>3 DEF SaveSync, Accepting
  <2>2. /\ written' = [written EXCEPT ![t] = @ \o <<TextOf(w)>>]
        /\ saved' = [saved EXCEPT ![t] = Append(@, TextOf(w))]
        /\ UNCHANGED <<mode, ring, flushed>>
    BY <1>3 DEF SaveSync, WriteFile, Saved
  <2>3. written[t] \o <<TextOf(w)>> \in Seq(Text)
    BY <1>2, <2>1, ConcatProperties
  <2>. QED
    BY <1>2, <2>1, <2>2, <2>3, BooksGrow
<1>4. ASSUME NEW w \in Writer, SaveAppend(w) \/ SaveRecord(w)
      PROVE  TextsOK' /\ LazyOK'
  <2>. DEFINE t == pc[w].type
  <2>1. pc[w].at = "save" /\ mode[t] = "asyn"
    BY <1>4 DEF SaveAppend, SaveRecord, Accepting
  <2>2. /\ \/ saved' = [saved EXCEPT ![t] = Append(@, TextOf(w))]
           \/ saved' = saved
        /\ UNCHANGED <<mode, ring, flushed, written>>
    BY <1>4 DEF SaveAppend, SaveRecord, Saved
  <2>3. saved = [saved EXCEPT ![t] = saved[t]] /\ written = [written EXCEPT ![t] = written[t]]
    BY <1>2, <2>1 DEF LogsOK
  <2>4. PICK s \in Seq(Text) : saved' = [saved EXCEPT ![t] = s]
    BY <1>2, <2>1, <2>2, <2>3
  <2>5. t \in Type /\ written[t] \in Seq(Text) /\ written' = [written EXCEPT ![t] = written[t]]
    BY <1>2, <2>1, <2>2, <2>3
  <2>6. mode[t] # "lazy" /\ UNCHANGED <<mode, ring, flushed>>
    BY <2>1, <2>2
  <2>. HIDE DEF t
  <2>. QED
    BY <2>4, <2>5, <2>6, BooksGrow
<1>5. ASSUME NEW w \in Writer, SaveLazy(w)
      PROVE  TextsOK' /\ LazyOK'
  <2>. DEFINE t == pc[w].type
              r == Ring!Push(ring[t], TextOf(w))
              s == Append(saved[t], TextOf(w))
  <2>1. pc[w].at = "save" /\ mode[t] = "lazy" /\ ring[t].array
    BY <1>5 DEF SaveLazy, Accepting
  <2>2. /\ ring' = [ring EXCEPT ![t] = r] /\ saved' = [saved EXCEPT ![t] = s]
        /\ UNCHANGED <<mode, flushed, written>>
    BY <1>5 DEF SaveLazy, Saved
  <2>3. flushed = [flushed EXCEPT ![t] = flushed[t]] /\ written = [written EXCEPT ![t] = written[t]]
    BY <1>2, <2>1 DEF LogsOK, TextsOK
  <2>4. IsRing(r) /\ Holds(r, s, flushed[t])
    BY <1>2, <2>1, PushHolds DEF LazyOK
  <2>. HIDE DEF r, s
  <2>5. s \in Seq(Text)
    BY <1>2, <2>1 DEF s
  <2>. QED
    BY <1>2, <2>1, <2>2, <2>3, <2>4, <2>5, BooksPush
<1>6. ASSUME NEW w \in Writer, SaveUrgent(w)
      PROVE  TextsOK' /\ LazyOK'
  <2>. DEFINE t == pc[w].type
              r == Ring!Push(ring[t], TextOf(w))
              s == Append(saved[t], TextOf(w))
              e == Ring!Emptied(r)
              x == Ring!Flushed(r)
  <2>1. pc[w].at = "save" /\ mode[t] = "lazy" /\ ring[t].array
    BY <1>6 DEF SaveUrgent, Accepting
  <2>2. /\ ring' = [ring EXCEPT ![t] = e] /\ saved' = [saved EXCEPT ![t] = s]
        /\ flushed' = [flushed EXCEPT ![t] = Len(saved[t]) + 1]
        /\ UNCHANGED mode
    BY <1>6 DEF SaveUrgent, Saved
  <2>3. written' = [written EXCEPT ![t] = written[t] \o x]
    BY <1>6 DEF SaveUrgent
  <2>4. IsRing(r) /\ Holds(r, s, flushed[t]) /\ r.array = ring[t].array /\ s \in Seq(Text)
    BY <1>2, <2>1, PushHolds DEF LazyOK
  <2>5. Len(s) = Len(saved[t]) + 1 /\ Len(saved[t]) + 1 \in Nat
    BY <1>2, <2>1
  <2>. HIDE DEF r, s
  <2>6. x \in Seq(Text)
    BY <1>2, <2>1, <2>4, FlushHolds
  <2>7. IsRing(e) /\ Holds(e, s, Len(s))
    <3>1. r.array \in BOOLEAN
      BY <2>4 DEF IsRing
    <3>. QED
      BY <2>4, <3>1, FreshHolds DEF Ring!Emptied
  <2>. HIDE DEF e, x
  <2>8. written[t] \o x \in Seq(Text)
    BY <1>2, <2>1, <2>6, ConcatProperties
  <2>. QED
    BY <1>2, <2>1, <2>2, <2>3, <2>4, <2>5, <2>7, <2>8, BooksPush
<1>7. CASE WtWrite \/ WtCurrent
  <2>1. wt.type \in Queued /\ wt.type \in Type
    BY <1>7, AsynQueued DEF WtWrite, WtCurrent, ThreadOK, LogsOK
  <2>2. /\ current[wt.type] \in Seq(Text) /\ Front(taken, PerRecord) \in Seq(Text)
        /\ written[wt.type] \in Seq(Text) /\ saved[wt.type] \in Seq(Text)
    BY <2>1, Parts, LogAssumption DEF LogsOK
  <2>3. /\ UNCHANGED <<saved, mode, ring, flushed>>
        /\ \/ written' = [written EXCEPT ![wt.type] = @ \o Front(taken, PerRecord)]
           \/ written' = [written EXCEPT ![wt.type] = @ \o current[wt.type]]
           \/ written' = written
    BY <1>7 DEF WtWrite, WtCurrent, WriteFile
  <2>4. /\ written[wt.type] \o Front(taken, PerRecord) \in Seq(Text)
        /\ written[wt.type] \o current[wt.type] \in Seq(Text)
    BY <2>2, ConcatProperties
  <2>5. /\ saved = [saved EXCEPT ![wt.type] = saved[wt.type]]
        /\ written = [written EXCEPT ![wt.type] = written[wt.type]]
    BY <2>1 DEF LogsOK
  <2>. QED
    BY <2>1, <2>2, <2>3, <2>4, <2>5, BooksGrow
<1>8. ASSUME NEW l \in config.levels, Create(l)
      PROVE  TextsOK' /\ LazyOK'
  <2>1. /\ saved' = written /\ written' = written /\ flushed' = [t \in Type |-> Len(written[t])]
    BY <1>8 DEF Create
  <2>2. PICK got \in [Type -> BOOLEAN] :
          ring' = [t \in Type |-> Ring!NewRing(config.mode[t] = "lazy" /\ got[t])]
    BY <1>8 DEF Create, May
  <2>3. \A t \in Type : written[t] \in Seq(Text) /\ Len(written[t]) \in Nat
    BY DEF TextsOK
  <2>4. ASSUME NEW t \in Type
        PROVE  IsRing(ring'[t]) /\ Holds(ring'[t], saved'[t], flushed'[t])
    <3>. DEFINE a == config.mode[t] = "lazy" /\ got[t]
    <3>1. ring'[t] = Ring!NewRing(a) /\ a \in BOOLEAN
      BY <2>2
    <3>2. saved'[t] \in Seq(Text) /\ flushed'[t] = Len(saved'[t])
      BY <2>1, <2>3
    <3>. HIDE DEF a
    <3>. QED
      BY <3>1, <3>2, FreshHolds
  <2>5. ring' = [t \in Type |-> ring'[t]]
    BY <2>2
  <2>6. TextsOK'
    BY <2>1, <2>3 DEF TextsOK
  <2>. QED
    BY <2>4, <2>5, <2>6 DEF LazyOK
<1>9. CASE Delete
  <2>1. /\ UNCHANGED <<saved, written, flushed>>
        /\ ring' = [t \in Type |-> Ring!NewRing(FALSE)]
    BY <1>9 DEF Delete
  <2>2. /\ IsRing(Ring!NewRing(FALSE)) /\ Ring!NewRing(FALSE).array = FALSE
    BY FreshHolds, EmptySeq
  <2>. HIDE DEF Ring!NewRing
  <2>3. \A t \in Type : ring'[t] = Ring!NewRing(FALSE)
    BY <2>1
  <2>4. LazyOK'
    BY <2>1, <2>2, <2>3 DEF LazyOK
  <2>. QED
    BY <2>1, <2>4 DEF TextsOK
<1>. HIDE DEF OrderInv
<1>10. CASE \E w \in Writer : WriterStep(w)
  BY <1>1, <1>3, <1>4, <1>5, <1>6, <1>10, BooksIdle DEF WriterStep
<1>11. CASE WriteThread \/ ExitLog
  BY <1>1, <1>7, <1>9, <1>11, BooksIdle DEF WriteThread, ExitLog
<1>. QED
  BY <1>1, <1>8, <1>10, <1>11, BooksIdle DEF Next

(* The invariant of the rings holds at the start, and every step keeps it. *)
LEMMA InitLazy == Init => LazyInv
<1>. SUFFICES ASSUME Init PROVE LazyInv
  OBVIOUS
<1>1. \A t \in Type : ring[t] = Ring!NewRing(FALSE)
  BY DEF Init
<1>2. IsRing(Ring!NewRing(FALSE)) /\ Ring!NewRing(FALSE).array = FALSE
  BY FreshHolds, EmptySeq
<1>3. LazyOK
  BY <1>1, <1>2 DEF Init, LazyOK
<1>4. TextsOK
  BY EmptySeq DEF Init, TextsOK
<1>. QED
  BY <1>3, <1>4, InitOrder DEF LazyInv

(* Every step keeps it. *)
LEMMA LazyInvStep ==
  ASSUME LazyInv, [Next]_vars
  PROVE  LazyInv'
<1>1. OrderInv'
  BY OrderInvStep DEF LazyInv
<1>2. CASE Next
  BY <1>1, <1>2, LazyStep DEF LazyInv
<1>3. CASE UNCHANGED vars
  BY <1>1, <1>3, BooksKept DEF LazyInv, vars, books
<1>. QED
  BY <1>2, <1>3

(* A LazyLog holds what was saved since its last flush, in order, up to    *)
(* its capacity.  Beyond it, it holds the newest text, which a flush       *)
(* writes first, then the second to the Reserve-th text saved since the    *)
(* flush; the texts in between are lost (with room for three, a, b, c, d   *)
(* and e leave e, b, c).  So for every capacity and every sequence of      *)
(* texts and flushes.                                                      *)
THEOREM LazyLogHolds == Spec => []LazyHolds
<1>1. ASSUME LazyInv, NEW t \in Type, mode[t] = "lazy", ring[t].array
      PROVE  LET since == Rest(saved[t], flushed[t])
                 held == Ring!Flushed(ring[t])
             IN  held = IF Len(since) <= Reserve THEN since
                        ELSE <<since[Len(since)]>> \o SubSeq(since, 2, Reserve)
  <2>. DEFINE s == saved[t]
              f == flushed[t]
              n == Len(s) - f
              since == Rest(s, f)
              held == Ring!Flushed(ring[t])
              over == <<since[Len(since)]>> \o SubSeq(since, 2, Reserve)
  <2>1. s \in Seq(Text) /\ f \in Nat /\ Holds(ring[t], s, f)
    BY <1>1 DEF LazyInv, TextsOK, LazyOK
  <2>2. /\ held \in Seq(Text) /\ Len(held) = Least(n, Reserve)
        /\ \A i \in 1 .. Least(n, Reserve) :
             held[i] = s[f + (IF i = 1 /\ n > Reserve THEN n ELSE i)]
        /\ n \in Nat /\ Reserve \in Nat \ {0}
    <3>. HIDE DEF s, f
    <3>. QED
      BY <2>1, FlushHolds
  <2>3. Len(s) \in Nat /\ f <= Len(s) /\ f + n = Len(s)
    BY <2>1, <2>2 DEF Holds
  <2>4. since = SubSeq(s, f + 1, Len(s))
    <3>1. Least(f, Len(s)) = f
      BY <2>1, <2>3 DEF Least
    <3>. QED
      BY <3>1 DEF Rest
  <2>. HIDE DEF held, since
  <2>5. since \in Seq(Text) /\ Len(since) = n /\ \A i \in 1 .. n : since[i] = s[f + i]
    <3>. HIDE DEF s, f, n
    <3>1. f + 1 \in Int /\ Len(s) \in Int /\ \A i \in (f + 1) .. Len(s) : s[i] \in Text
      BY <2>1, <2>3
    <3>2. /\ SubSeq(s, f + 1, Len(s)) \in Seq(Text)
          /\ Len(SubSeq(s, f + 1, Len(s))) =
               IF f + 1 <= Len(s) THEN Len(s) - (f + 1) + 1 ELSE 0
          /\ \A i \in 1 .. (Len(s) - (f + 1) + 1) :
               SubSeq(s, f + 1, Len(s))[i] = s[(f + 1) + i - 1]
      BY <3>1, SubSeqProperties
    <3>3. Len(s) - (f + 1) + 1 = n
      BY <2>1, <2>2, <2>3
    <3>4. \A i \in 1 .. n : (f + 1) + i - 1 = f + i
      BY <2>1, <2>2
    <3>5. since \in Seq(Text)
      BY <2>4, <3>2
    <3>6. Len(since) = n
      <4>1. CASE f + 1 <= Len(s)
        BY <2>4, <3>2, <3>3, <4>1
      <4>2. CASE ~ (f + 1 <= Len(s))
        <5>1. n = 0
          BY <2>1, <2>2, <2>3, <4>2
        <5>. QED
          BY <2>4, <3>2, <4>2, <5>1
      <4>. QED
        BY <4>1, <4>2
    <3>7. \A i \in 1 .. n : since[i] = s[(f + 1) + i - 1]
      BY <2>4, <3>2, <3>3
    <3>8. ASSUME NEW i \in 1 .. n
          PROVE  since[i] = s[f + i]
      <4>1. since[i] = s[(f + 1) + i - 1]
        BY <3>7
      <4>2. (f + 1) + i - 1 = f + i
        BY <3>4
      <4>. QED
        BY <4>1, <4>2, Zenon
    <3>. QED
      BY <3>5, <3>6, <3>8
  <2>. HIDE DEF since, s, f, n
  <2>6. CASE n <= Reserve
    <3>1. Least(n, Reserve) = n
      BY <2>2, <2>6 DEF Least
    <3>2. Len(held) = n /\ \A i \in 1 .. n : held[i] = s[f + i]
      BY <2>2, <2>6, <3>1
    <3>3. held = since
      BY <2>2, <2>5, <3>2, SeqEqual
    <3>. QED
      BY <2>5, <2>6, <3>3 DEF since, held, s, f
  <2>7. CASE n > Reserve
    <3>1. Least(n, Reserve) = Reserve
      BY <2>2, <2>7 DEF Least
    <3>2. Len(held) = Reserve /\ held[1] = s[f + n] /\ \A i \in 2 .. Reserve : held[i] = s[f + i]
      BY <2>2, <2>7, <3>1
    <3>3. /\ SubSeq(since, 2, Reserve) \in Seq(Text)
          /\ Len(SubSeq(since, 2, Reserve)) = Reserve - 1
          /\ \A i \in 1 .. (Reserve - 1) : SubSeq(since, 2, Reserve)[i] = since[i + 1]
      <4>1. 2 \in 1 .. Len(since) + 1 /\ Reserve \in 1 .. Len(since)
        BY <2>2, <2>5, <2>7
      <4>. QED
        BY <2>2, <2>5, <4>1, SubSeqProperties
    <3>4. since[n] = s[f + n] /\ since[n] \in Text /\ <<since[n]>> \in Seq(Text)
      BY <2>2, <2>5, <2>7
    <3>5. /\ over \in Seq(Text) /\ Len(over) = Reserve /\ over[1] = since[n]
          /\ \A i \in 2 .. Reserve : over[i] = since[i]
      <4>. DEFINE z == SubSeq(since, 2, Reserve)
                  y == <<since[n]>>
      <4>1. Len(y) = 1 /\ y[1] = since[n]
        OBVIOUS
      <4>2. y \in Seq(Text) /\ z \in Seq(Text) /\ Len(z) = Reserve - 1
            /\ \A i \in 1 .. (Reserve - 1) : z[i] = since[i + 1]
        BY <3>3, <3>4
      <4>3. over = y \o z
        BY <2>5
      <4>. HIDE DEF y, z, over
      <4>4. /\ over \in Seq(Text) /\ Len(over) = Len(y) + Len(z)
            /\ \A i \in 1 .. (Len(y) + Len(z)) :
                 over[i] = IF i <= Len(y) THEN y[i] ELSE z[i - Len(y)]
        BY <4>2, <4>3, ConcatProperties
      <4>5. ASSUME NEW i \in 2 .. Reserve PROVE over[i] = since[i]
        <5>1. i - 1 \in 1 .. (Reserve - 1) /\ i \in 1 .. Reserve /\ ~ (i <= 1) /\ (i - 1) + 1 = i
          BY <2>2
        <5>2. over[i] = z[i - 1]
          BY <2>2, <4>1, <4>2, <4>4, <5>1
        <5>. QED
          BY <4>2, <5>1, <5>2
      <4>. QED
        BY <2>2, <4>1, <4>2, <4>4, <4>5
    <3>. HIDE DEF over
    <3>6. held = over
      <4>1. \A i \in 1 .. Reserve : held[i] = over[i]
        <5>1. \A i \in 2 .. Reserve : i \in 1 .. n /\ since[i] = s[f + i]
          BY <2>2, <2>5, <2>7
        <5>2. \A i \in 1 .. Reserve : i = 1 \/ i \in 2 .. Reserve
          BY <2>2
        <5>. QED
          BY <3>2, <3>4, <3>5, <5>1, <5>2
      <4>. QED
        BY <2>2, <3>2, <3>5, <4>1, SeqEqual
    <3>7. ~ (Len(since) <= Reserve)
      BY <2>2, <2>5, <2>7
    <3>8. held = IF Len(since) <= Reserve THEN since
                 ELSE <<since[Len(since)]>> \o SubSeq(since, 2, Reserve)
      BY <3>6, <3>7 DEF over
    <3>. QED
      BY <3>8 DEF since, held, s, f
  <2>. QED
    BY <2>2, <2>6, <2>7
<1>2. LazyInv => LazyHolds
  BY <1>1 DEF LazyHolds
<1>. QED
  BY <1>2, InitLazy, LazyInvStep, PTL DEF Spec

-----------------------------------------------------------------------------
(* Multiples of the room in a record.                                      *)
LEMMA Divided ==
  ASSUME NEW p \in Nat \ {0}, NEW a \in Nat
  PROVE  a = p * (a \div p) + (a % p) /\ a \div p \in Nat /\ a % p \in 0 .. (p - 1)
<1>1. a = p * (a \div p) + (a % p)
  OBVIOUS
<1>2. a \div p \in Nat
  OBVIOUS
<1>3. a % p \in 0 .. (p - 1)
  OBVIOUS
<1>. QED
  BY <1>1, <1>2, <1>3

LEMMA Further ==
  ASSUME NEW p \in Nat \ {0}, NEW q \in Nat, NEW d \in Nat, q > d
  PROVE  p * q >= p * d + p
<1>1. q - d - 1 \in Nat /\ q = (q - d - 1) + d + 1
  OBVIOUS
<1>2. p * q = p * (q - d - 1) + p * d + p
  BY <1>1
<1>3. p * (q - d - 1) >= 0 /\ p * d \in Nat /\ p * q \in Nat
  BY <1>1
<1>. QED
  BY <1>2, <1>3

LEMMA Multiple ==
  ASSUME NEW p \in Nat \ {0}, NEW q \in Nat
  PROVE  (p * q) % p = 0
<1>. DEFINE d == (p * q) \div p
            r == (p * q) % p
<1>1. p * q \in Nat /\ p \in Nat /\ p > 0
  OBVIOUS
<1>2. d \in Nat /\ r \in 0 .. (p - 1) /\ p * q = p * d + r
  BY <1>1, Divided
<1>. HIDE DEF d, r
<1>3. q > d => p * q >= p * d + p
  BY <1>2, Further
<1>4. d > q => p * d >= p * q + p
  BY <1>2, Further
<1>. QED
  BY <1>1, <1>2, <1>3, <1>4 DEF r

(* A record joins whole records, or leaves them.                           *)
LEMMA WholeRecords ==
  ASSUME NEW p \in Nat \ {0}, NEW a \in Nat, a % p = 0
  PROVE  (a + p) % p = 0 /\ (a > 0 => a >= p /\ (a - p) % p = 0)
<1>. DEFINE k == a \div p
<1>1. k \in Nat /\ a = p * k /\ p \in Nat /\ p > 0
  BY Divided
<1>. HIDE DEF k
<1>2. a + p = p * (k + 1)
  BY <1>1
<1>3. a > 0 => k - 1 \in Nat /\ a - p = p * (k - 1)
  BY <1>1
<1>4. (p * (k + 1)) % p = 0
  BY <1>1, Multiple
<1>5. ASSUME a > 0 PROVE (p * (k - 1)) % p = 0 /\ p * (k - 1) >= 0
  BY <1>1, <1>3, <1>5, Multiple
<1>6. a > 0 => a >= p
  BY <1>1, <1>3, <1>5
<1>. QED
  BY <1>2, <1>3, <1>4, <1>5, <1>6

-----------------------------------------------------------------------------
Owners == {"off", "enable", "thread", "failed", "on", "release", "join", "delete"}

FlagsOK ==
  /\ open \in [Type -> BOOLEAN] /\ minimum \in [Type -> Level]
  /\ idle \in [Type -> Nat] /\ records \in Nat /\ running \in BOOLEAN
  /\ owner \in Owners /\ calls \in 0 .. MaxTexts
  /\ kept \in [Type -> Nat] /\ quiet \in BOOLEAN

(* Only an AsynLog has records, and those that wait are full.              *)
RecordsOK ==
  /\ \A t \in Type \ Queued : current[t] = << >> /\ pool[t] = << >>
  /\ \A t \in Type : Len(pool[t]) % PerRecord = 0
  /\ Len(taken) % PerRecord = 0

TypeInv == LazyInv /\ RoomOK /\ FlagsOK /\ RecordsOK

(* Every step keeps the flags and counts right. *)
LEMMA FlagsStep ==
  ASSUME OrderInv, TextsOK, FlagsOK, Next
  PROVE  FlagsOK'
<1>. USE DEF OrderInv
<1>0. /\ MaxTexts \in Nat /\ PerRecord \in Nat \ {0} /\ config \in Config
      /\ config.texts \in 0 .. MaxTexts /\ config.levels \subseteq Level
  BY LogAssumption DEF LogsOK, Config
<1>1. ASSUME NEW w \in Writer, NEW t \in Type, NEW l \in Level, Call(w, t, l)
      PROVE  FlagsOK'
  BY <1>0, <1>1 DEF Call, FlagsOK
<1>2. ASSUME NEW w \in Writer, WriterStep(w)
      PROVE  FlagsOK'
  <2>1. idle' \in [Type -> Nat] /\ UNCHANGED <<open, minimum, records, running, owner, calls,
                                               kept, quiet>>
    <3>1. CASE SaveRecord(w)
      <4>1. idle' = [idle EXCEPT ![pc[w].type] = Used(pc[w].type)]
        BY <3>1 DEF SaveRecord
      <4>2. pc[w].type \in Type
        BY <3>1, InHand DEF SaveRecord, Accepting
      <4>3. Used(pc[w].type) \in Nat
        BY <4>2 DEF Used, FlagsOK
      <4>. QED
        BY <3>1, <4>1, <4>3 DEF SaveRecord, FlagsOK, Advance
    <3>2. CASE Check(w) \/ Discard(w) \/ SaveSync(w) \/ SaveAppend(w) \/ SaveLazy(w)
                 \/ SaveNowhere(w)
      BY <3>2 DEF Check, Discard, SaveSync, SaveAppend, SaveLazy, SaveNowhere, FlagsOK, Advance
    <3>3. CASE SaveUrgent(w)
      BY <3>3 DEF SaveUrgent, FlagsOK, Advance
    <3>. QED
      BY <1>2, <3>1, <3>2, <3>3 DEF WriterStep
  <2>. QED
    BY <2>1 DEF FlagsOK
<1>3. CASE WtPass \/ WtWrite \/ WtCurrent \/ Tick
  BY <1>3 DEF WtPass, WtWrite, WtCurrent, Tick, FlagsOK
<1>4. CASE WtTake
  <2>1. wt.type \in Queued
    BY <1>4, AsynQueued DEF WtTake, ThreadOK, LogsOK
  <2>2. Len(pool[wt.type]) \in Nat
    BY <2>1 DEF LogsOK
  <2>3. Len(pool[wt.type]) \div PerRecord \in Nat
    BY <1>0, <2>2, Divided
  <2>. QED
    BY <1>4, <2>3 DEF WtTake, FlagsOK
<1>5. CASE WtReturn
  <2>1. idle' = [idle EXCEPT ![wt.type] = @ + records] /\ records' = 0
    BY <1>5 DEF WtReturn
  <2>2. idle[wt.type] + records \in Nat
    BY DEF FlagsOK, LogsOK
  <2>3. idle' \in [Type -> Nat]
    BY <2>1, <2>2 DEF FlagsOK
  <2>. QED
    BY <1>5, <2>1, <2>3 DEF WtReturn, FlagsOK
<1>6. ASSUME NEW l \in config.levels, Create(l)
      PROVE  FlagsOK'
  <2>1. l \in Level
    BY <1>0, <1>6
  <2>. QED
    BY <1>6, <2>1 DEF Create, FlagsOK, Owners
<1>7. CASE Enable \/ AcquireThread \/ ReleaseThread \/ JoinThread \/ Delete
  <2>1. CASE Enable
    BY <2>1 DEF Enable, FlagsOK, Owners
  <2>2. CASE AcquireThread
    <3>1. PICK created \in BOOLEAN : /\ running' = (created /\ Started)
                                     /\ owner' = IF created THEN "on" ELSE "failed"
      BY <2>2 DEF AcquireThread, May
    <3>2. running' \in BOOLEAN /\ owner' \in Owners
      BY <3>1 DEF Started, Owners
    <3>. QED
      BY <2>2, <3>2 DEF AcquireThread, FlagsOK
  <2>3. CASE ReleaseThread \/ JoinThread
    BY <2>3 DEF ReleaseThread, JoinThread, FlagsOK, Owners, Stopped
  <2>4. CASE Delete
    BY <2>4 DEF Delete, FlagsOK, Owners
  <2>. QED
    BY <1>7, <2>1, <2>2, <2>3, <2>4
<1>8. ASSUME NEW t \in Type, Switch(t)
      PROVE  FlagsOK'
  BY <1>8 DEF Switch, FlagsOK
<1>9. ASSUME NEW t \in Type, NEW l \in config.levels, SetLevel(t, l)
      PROVE  FlagsOK'
  BY <1>0, <1>9 DEF SetLevel, FlagsOK
<1>10. CASE DisableAll
  <2>1. \A t \in Type : Len(saved[t]) \in Nat
    BY DEF TextsOK
  <2>. QED
    BY <1>10, <2>1 DEF DisableAll, FlagsOK, Owners
<1>. HIDE DEF OrderInv
<1>. QED
  BY <1>1, <1>2, <1>3, <1>4, <1>5, <1>6, <1>7, <1>8, <1>9, <1>10
     DEF Next, WriteThread, InitLog, ExitLog

(* Every step moves whole records. *)
LEMMA RecordsStep ==
  ASSUME OrderInv, RoomOK, RecordsOK, Next
  PROVE  RecordsOK'
<1>. USE DEF OrderInv
<1>0. /\ PerRecord \in Nat \ {0} /\ Len(<< >>) = 0 /\ 0 % PerRecord = 0
      /\ Queued' = Queued /\ Queued \subseteq Type
  <2>1. config' = config
    BY PartMoves DEF parts, SaveOther, SaveAppend, SaveRecord, WtPass, WtTake, WtWrite, WtReturn,
       WtCurrent, Create, Enable, AcquireThread, Switch, DisableAll, ReleaseThread,
       JoinThread, Delete
  <2>. QED
    BY <2>1, LogAssumption DEF Queued
<1>1. CASE UNCHANGED <<current, pool, taken>>
  BY <1>0, <1>1 DEF RecordsOK
<1>2. ASSUME NEW w \in Writer, SaveAppend(w)
      PROVE  RecordsOK'
  <2>1. pc[w].type \in Queued
    BY <1>2, InHand DEF SaveAppend, Accepting, LogsOK, Queued
  <2>2. /\ current' = [current EXCEPT ![pc[w].type] = Append(@, TextOf(w))]
        /\ UNCHANGED <<pool, taken>>
    BY <1>2 DEF SaveAppend
  <2>. QED
    BY <1>0, <2>1, <2>2 DEF RecordsOK, LogsOK
<1>3. ASSUME NEW w \in Writer, SaveRecord(w)
      PROVE  RecordsOK'
  <2>. DEFINE t == pc[w].type
  <2>1. t \in Queued
    BY <1>3, InHand DEF SaveRecord, Accepting, LogsOK, Queued
  <2>2. PICK got \in BOOLEAN :
          current' = [current EXCEPT ![t] = IF got THEN <<TextOf(w)>> ELSE << >>]
    BY <1>3 DEF SaveRecord, Obtained, May
  <2>3. taken' = taken /\ (pool' = pool \/ pool' = [pool EXCEPT ![t] = @ \o current[t]])
    BY <1>3 DEF SaveRecord, Released
  <2>4. pool[t] \in Seq(Text) /\ current[t] \in Seq(Text)
    BY <2>1 DEF LogsOK
  <2>5. CASE ~ has[t]
    <3>1. pool' = pool
      BY <1>3, <2>5 DEF SaveRecord
    <3>. QED
      BY <1>0, <2>1, <2>2, <2>3, <3>1 DEF RecordsOK, LogsOK
  <2>6. CASE has[t]
    <3>1. Full(t) /\ pool' = [pool EXCEPT ![t] = @ \o current[t]]
      BY <1>3, <2>6 DEF SaveRecord, Released
    <3>2. Len(current[t]) = PerRecord
      BY <1>0, <2>1, <2>4, <3>1 DEF Full, RoomOK
    <3>3. Len(pool[t] \o current[t]) = Len(pool[t]) + PerRecord /\ Len(pool[t]) \in Nat
      <4>1. Len(pool[t] \o current[t]) = Len(pool[t]) + Len(current[t])
        BY <2>4, ConcatProperties
      <4>. QED
        BY <2>4, <3>2, <4>1
    <3>4. Len(pool[t] \o current[t]) % PerRecord = 0
      BY <1>0, <2>1, <3>3, WholeRecords DEF RecordsOK
    <3>5. \A u \in Type : Len(pool'[u]) % PerRecord = 0
      BY <1>0, <2>1, <3>1, <3>4 DEF RecordsOK, LogsOK
    <3>6. \A u \in Type \ Queued : current'[u] = << >> /\ pool'[u] = << >>
      BY <2>1, <2>2, <3>1 DEF RecordsOK, LogsOK
    <3>. QED
      BY <1>0, <2>3, <3>5, <3>6 DEF RecordsOK
  <2>. QED
    BY <2>5, <2>6
<1>4. CASE WtTake
  <2>1. wt.type \in Type
    BY DEF LogsOK
  <2>2. taken' = pool[wt.type] /\ pool' = [pool EXCEPT ![wt.type] = << >>] /\ current' = current
    BY <1>4 DEF WtTake
  <2>. QED
    BY <1>0, <2>1, <2>2 DEF RecordsOK, LogsOK
<1>5. CASE WtWrite
  <2>1. taken' = Rest(taken, PerRecord) /\ taken # << >> /\ UNCHANGED <<pool, current>>
    BY <1>5 DEF WtWrite
  <2>2. taken \in Seq(Text) /\ Len(taken) \in Nat /\ Len(taken) > 0
    <3>1. taken \in Seq(Text) /\ Len(taken) \in Nat
      BY DEF LogsOK
    <3>2. Len(taken) # 0
      BY <2>1, <3>1, EmptySeq
    <3>. QED
      BY <3>1, <3>2
  <2>3. Len(taken) >= PerRecord /\ (Len(taken) - PerRecord) % PerRecord = 0
    BY <1>0, <2>2, WholeRecords DEF RecordsOK
  <2>4. Rest(taken, PerRecord) = SubSeq(taken, PerRecord + 1, Len(taken))
    <3>. DEFINE l == Len(taken)
    <3>1. l \in Nat /\ l >= PerRecord
      BY <2>2, <2>3
    <3>. HIDE DEF l
    <3>2. Least(PerRecord, l) = PerRecord
      BY <1>0, <3>1 DEF Least
    <3>. QED
      BY <3>2 DEF Rest, l
  <2>5. Len(taken') = Len(taken) - PerRecord
    <3>1. /\ PerRecord + 1 \in Int /\ Len(taken) \in Int
          /\ \A i \in (PerRecord + 1) .. Len(taken) : taken[i] \in Text
      BY <1>0, <2>2
    <3>2. Len(SubSeq(taken, PerRecord + 1, Len(taken))) =
            IF PerRecord + 1 <= Len(taken) THEN Len(taken) - (PerRecord + 1) + 1 ELSE 0
      BY <3>1, SubSeqProperties
    <3>. QED
      BY <1>0, <2>1, <2>2, <2>3, <2>4, <3>2
  <2>. QED
    BY <1>0, <2>1, <2>3, <2>5 DEF RecordsOK
<1>6. CASE WtCurrent
  <2>1. wt.type \in Queued
    BY <1>6, AsynQueued DEF WtCurrent, ThreadOK, LogsOK
  <2>2. /\ current' = current \/ current' = [current EXCEPT ![wt.type] = << >>]
        /\ UNCHANGED <<pool, taken>>
    BY <1>6 DEF WtCurrent
  <2>. QED
    BY <1>0, <2>1, <2>2 DEF RecordsOK, LogsOK
<1>7. CASE Delete
  BY <1>0, <1>7 DEF Delete, RecordsOK
<1>8. \A w \in Writer : SaveOther(w) => UNCHANGED <<current, pool, taken>>
  BY DEF SaveOther
<1>9. \A l \in config.levels : Create(l) => UNCHANGED <<current, pool, taken>>
  BY DEF Create
<1>10. \A t \in Type : Switch(t) => UNCHANGED <<current, pool, taken>>
  BY DEF Switch
<1>11. WtPass \/ WtReturn \/ Enable \/ AcquireThread \/ DisableAll
        \/ ReleaseThread \/ JoinThread => UNCHANGED <<current, pool, taken>>
  BY DEF WtPass, WtReturn, Enable, AcquireThread, DisableAll, ReleaseThread, JoinThread
<1>. QED
  BY <1>1, <1>2, <1>3, <1>4, <1>5, <1>6, <1>7, <1>8, <1>9, <1>10, <1>11, PartMoves DEF parts

(* The invariant of the types holds in every reachable state. *)
LEMMA TypeInvHolds == Spec => []TypeInv
<1>1. Init => TypeInv
  <2>. SUFFICES ASSUME Init PROVE TypeInv
    OBVIOUS
  <2>1. RoomOK /\ OrderInv
    BY InitExit DEF ExitInv
  <2>2. FlagsOK
    <3>1. 0 \in 0 .. MaxTexts /\ 0 \in Level
      BY LogAssumption DEF Level
    <3>. QED
      BY <3>1 DEF Init, FlagsOK, Owners
  <2>3. RecordsOK
    <3>1. Len(<< >>) = 0 /\ 0 % PerRecord = 0
      BY LogAssumption
    <3>. QED
      BY <3>1 DEF Init, RecordsOK
  <2>4. LazyInv
    BY InitLazy
  <2>. QED
    BY <2>1, <2>2, <2>3, <2>4 DEF TypeInv
<1>2. TypeInv /\ [Next]_vars => TypeInv'
  <2>. SUFFICES ASSUME TypeInv, [Next]_vars PROVE TypeInv'
    OBVIOUS
  <2>1. LazyInv'
    BY LazyInvStep DEF TypeInv
  <2>2. CASE Next
    BY <2>1, <2>2, RoomStep, FlagsStep, RecordsStep DEF TypeInv, LazyInv
  <2>3. CASE UNCHANGED vars
    BY <2>1, <2>3 DEF TypeInv, vars, RoomOK, FlagsOK, RecordsOK, Queued
  <2>. QED
    BY <2>2, <2>3
<1>. QED
  BY <1>1, <1>2, PTL DEF Spec

(* Every variable has its type in every reachable state: in particular no  *)
(* record of an AsynLog overflows, and only full ones wait for the write   *)
(* thread.                                                                 *)
THEOREM TypeCorrect == Spec => []TypeOK
<1>1. TypeInv => TypeOK
  <2>. SUFFICES ASSUME TypeInv PROVE TypeOK
    OBVIOUS
  <2>. USE DEF TypeInv, LazyInv, OrderInv
  <2>0. PerRecord \in Nat \ {0} /\ Len(<< >>) = 0 /\ 0 % PerRecord = 0
    BY LogAssumption
  <2>1. ASSUME NEW t \in Type
        PROVE  /\ Len(current[t]) <= PerRecord /\ current[t] \in Seq(Text)
               /\ pool[t] \in Seq(Text) /\ Len(TakenOf(t)) % PerRecord = 0
    <3>1. CASE t \in Queued
      BY <2>0, <3>1 DEF RoomOK, LogsOK, RecordsOK, TakenOf
    <3>2. CASE t \notin Queued
      <4>1. current[t] = << >> /\ pool[t] = << >>
        BY <3>2 DEF RecordsOK
      <4>. QED
        BY <2>0, <4>1, EmptySeq DEF RecordsOK, TakenOf
    <3>. QED
      BY <3>1, <3>2
  <2>2. RecordsFit
    BY <2>1 DEF RecordsFit, RecordsOK
  <2>3. /\ current \in [Type -> Seq(Text)] /\ pool \in [Type -> Seq(Text)]
        /\ saved \in [Type -> Seq(Text)] /\ written \in [Type -> Seq(Text)]
    BY <2>1 DEF LogsOK, TextsOK
  <2>. QED
    BY <2>2, <2>3 DEF TypeOK, LogsOK, CallsOK, TextsOK, FlagsOK, Owners, WtStates
<1>. QED
  BY <1>1, TypeInvHolds, PTL

-----------------------------------------------------------------------------
(* Induction: a set with zero and with the next of each of its numbers has *)
(* all natural numbers, since no number outside it is the least one.       *)
LEMMA AllNaturals ==
  ASSUME NEW T, 0 \in T, \A n \in Nat : n \in T => n + 1 \in T
  PROVE  Nat \subseteq T
<1>. DEFINE Missing == Nat \ T
            R == OpToRel(<, Nat)
<1>. SUFFICES ASSUME Missing # {} PROVE FALSE
  OBVIOUS
<1>1. PICK x \in Missing : \A y \in Missing : ~ (<<y, x>> \in R)
  <2>. HIDE DEF R
  <2>1. IsWellFoundedOn(R, Nat)
    BY NatLessThanWellFounded DEF R
  <2>. QED
    BY <2>1, WFMin
<1>2. \A y \in Missing : ~ (y < x)
  BY <1>1 DEF OpToRel, R
<1>. HIDE DEF R
<1>3. x \in Nat /\ x # 0 /\ x \notin T
  OBVIOUS
<1>4. x - 1 \in Nat /\ (x - 1) + 1 = x /\ x - 1 < x
  BY <1>3
<1>5. x - 1 \in T
  BY <1>2, <1>4
<1>. QED
  BY <1>3, <1>4, <1>5

(* What the archives hold.  Archives(old) is the last value of a recursive *)
(* function, which exists: it can be extended by one second.               *)
LEMMA ArchivesExist ==
  ASSUME NEW old, NEW m \in Nat
  PROVE  \E g : g = [s \in -1 .. m |-> IF s = -1 THEN << >> ELSE g[s - 1] \o Archive(old, s)]
<1>. DEFINE Is(n, g) ==
              g = [s \in -1 .. n |-> IF s = -1 THEN << >> ELSE g[s - 1] \o Archive(old, s)]
            T == {n \in Nat : \E g : Is(n, g)}
<1>1. 0 \in T
  <2>. DEFINE g == [s \in -1 .. 0 |-> IF s = -1 THEN << >> ELSE << >> \o Archive(old, s)]
  <2>1. \A s \in -1 .. 0 : s # -1 => s = 0 /\ s - 1 = -1
    OBVIOUS
  <2>2. g[-1] = << >>
    OBVIOUS
  <2>3. Is(0, g)
    BY <2>1, <2>2
  <2>. QED
    BY <2>3
<1>2. ASSUME NEW n \in Nat, n \in T PROVE n + 1 \in T
  <2>1. PICK g : Is(n, g)
    BY <1>2
  <2>. DEFINE h == [s \in -1 .. (n + 1) |-> IF s = n + 1 THEN g[n] \o Archive(old, n + 1) ELSE g[s]]
              k == [s \in -1 .. (n + 1) |-> IF s = -1 THEN << >> ELSE h[s - 1] \o Archive(old, s)]
  <2>2. ASSUME NEW s \in -1 .. (n + 1) PROVE h[s] = k[s]
    <3>1. CASE s = n + 1
      <4>1. h[s] = g[n] \o Archive(old, s)
        BY <3>1
      <4>2. s - 1 = n /\ s # -1 /\ n \in -1 .. (n + 1) /\ n # n + 1
        BY <3>1
      <4>3. h[n] = g[n]
        BY <4>2
      <4>4. k[s] = h[s - 1] \o Archive(old, s)
        BY <4>2
      <4>. QED
        BY <4>1, <4>2, <4>3, <4>4
    <3>2. CASE s = -1
      <4>1. s \in -1 .. n /\ s # n + 1
        BY <3>2
      <4>2. g[s] = << >>
        BY <2>1, <3>2, <4>1
      <4>. QED
        BY <3>2, <4>1, <4>2
    <3>3. CASE s # n + 1 /\ s # -1
      <4>1. s \in -1 .. n /\ s - 1 \in -1 .. (n + 1) /\ s - 1 # n + 1
        BY <3>3
      <4>2. g[s] = g[s - 1] \o Archive(old, s)
        BY <2>1, <3>3, <4>1
      <4>3. h[s] = g[s] /\ h[s - 1] = g[s - 1]
        BY <3>3, <4>1
      <4>4. k[s] = h[s - 1] \o Archive(old, s)
        BY <3>3
      <4>. QED
        BY <4>2, <4>3, <4>4
    <3>. QED
      BY <3>1, <3>2, <3>3
  <2>3. h = k
    <3>1. h = [s \in -1 .. (n + 1) |-> h[s]] /\ k = [s \in -1 .. (n + 1) |-> k[s]]
      OBVIOUS
    <3>. HIDE DEF h, k
    <3>. QED
      BY <2>2, <3>1
  <2>4. Is(n + 1, h)
    BY <2>3, Zenon
  <2>. HIDE DEF Is, h
  <2>5. n + 1 \in Nat /\ \E f : Is(n + 1, f)
    BY <2>4
  <2>. QED
    BY <2>5
<1>. HIDE DEF T
<1>3. m \in T
  BY <1>1, <1>2, AllNaturals
<1>. QED
  BY <1>3 DEF T

(* So it is what its definition says. *)
LEMMA ArchivesOf ==
  ASSUME NEW old
  PROVE  \E g : /\ g[-1] = << >> /\ Archives(old) = g[MaxSecond]
                /\ \A s \in 0 .. MaxSecond : g[s] = g[s - 1] \o Archive(old, s)
<1>. DEFINE P(g) ==
       g = [s \in -1 .. MaxSecond |-> IF s = -1 THEN << >> ELSE g[s - 1] \o Archive(old, s)]
<1>. DEFINE u == CHOOSE g : P(g)
<1>1. MaxSecond \in Nat
  BY LogAssumption
<1>2. P(u)
  <2>1. \E g : P(g)
    BY <1>1, ArchivesExist
  <2>. HIDE DEF P
  <2>. QED
    BY <2>1
<1>3. Archives(old) = u[MaxSecond]
  BY Zenon DEF Archives
<1>. HIDE DEF u
<1>4. u[-1] = << >> /\ \A s \in 0 .. MaxSecond : u[s] = u[s - 1] \o Archive(old, s)
  <2>1. -1 \in -1 .. MaxSecond /\ \A s \in 0 .. MaxSecond : s \in -1 .. MaxSecond /\ s # -1
    BY <1>1
  <2>. QED
    BY <1>2, <2>1
<1>. QED
  BY <1>3, <1>4

(* Up to every second the archives hold texts. *)
LEMMA ArchivesType ==
  ASSUME NEW old, NEW g, g[-1] = << >>,
         \A s \in 0 .. MaxSecond : g[s] = g[s - 1] \o Archive(old, s),
         \A s \in 0 .. MaxSecond : Archive(old, s) \in Seq(Text)
  PROVE  \A s \in -1 .. MaxSecond : g[s] \in Seq(Text)
<1>. DEFINE Typed(s) == g[s] \in Seq(Text)
            T == {n \in Nat : n - 1 <= MaxSecond => Typed(n - 1)}
<1>0. MaxSecond \in Nat
  BY LogAssumption
<1>1. 0 \in T
  <2>1. 0 - 1 = -1 /\ << >> \in Seq(Text)
    OBVIOUS
  <2>. QED
    BY <2>1
<1>2. ASSUME NEW n \in Nat, n \in T PROVE n + 1 \in T
  <2>1. CASE n <= MaxSecond
    <3>1. n \in 0 .. MaxSecond /\ n - 1 <= MaxSecond /\ (n + 1) - 1 = n
      BY <1>0, <2>1
    <3>2. g[n - 1] \in Seq(Text) /\ Archive(old, n) \in Seq(Text)
      BY <1>2, <3>1
    <3>3. g[n] = g[n - 1] \o Archive(old, n)
      BY <3>1
    <3>4. g[n - 1] \o Archive(old, n) \in Seq(Text)
      BY <3>2, ConcatProperties
    <3>5. Typed(n)
      BY <3>3, <3>4
    <3>. HIDE DEF Typed
    <3>. QED
      BY <3>1, <3>5
  <2>2. CASE ~ (n <= MaxSecond)
    BY <1>0, <2>2
  <2>. QED
    BY <2>1, <2>2
<1>. HIDE DEF T
<1>3. Nat \subseteq T
  BY <1>1, <1>2, AllNaturals
<1>4. ASSUME NEW s \in -1 .. MaxSecond PROVE g[s] \in Seq(Text)
  <2>1. s + 1 \in Nat /\ (s + 1) - 1 = s /\ s <= MaxSecond
    BY <1>0
  <2>2. s + 1 \in T
    BY <1>3, <2>1
  <2>. QED
    BY <2>1, <2>2 DEF T
<1>. QED
  BY <1>4

(* An archive later than the others comes after them. *)
LEMMA ArchiveAdded ==
  ASSUME NEW k \in 0 .. MaxSecond, NEW D \in SUBSET (0 .. k), k \notin D,
         NEW old \in [D -> Seq(Text)], NEW x \in Seq(Text)
  PROVE  /\ Archives(old) \in Seq(Text)
         /\ Archives([s \in D \cup {k} |-> IF s = k THEN x ELSE old[s]]) = Archives(old) \o x
<1>. DEFINE new == [s \in D \cup {k} |-> IF s = k THEN x ELSE old[s]]
<1>0. MaxSecond \in Nat /\ k \in Nat /\ k <= MaxSecond
  BY LogAssumption
<1>1. PICK g : /\ g[-1] = << >> /\ Archives(old) = g[MaxSecond]
               /\ \A s \in 0 .. MaxSecond : g[s] = g[s - 1] \o Archive(old, s)
  BY ArchivesOf
<1>2. PICK h : /\ h[-1] = << >> /\ Archives(new) = h[MaxSecond]
               /\ \A s \in 0 .. MaxSecond : h[s] = h[s - 1] \o Archive(new, s)
  BY ArchivesOf
<1>3. \A s \in 0 .. MaxSecond : Archive(old, s) \in Seq(Text)
  BY DEF Archive
<1>4. /\ Archive(old, k) = << >> /\ Archive(new, k) = x
      /\ \A s \in 0 .. MaxSecond : s < k => Archive(new, s) = Archive(old, s)
      /\ \A s \in 0 .. MaxSecond : k < s => Archive(new, s) = << >> /\ Archive(old, s) = << >>
  BY <1>0 DEF Archive
<1>5. \A s \in -1 .. MaxSecond : g[s] \in Seq(Text)
  BY <1>1, <1>3, ArchivesType
<1>. HIDE DEF new
<1>. DEFINE Claim(s) == h[s] = IF s < k THEN g[s] ELSE g[s] \o x
            T == {n \in Nat : n - 1 <= MaxSecond => Claim(n - 1)}
<1>6. 0 \in T
  <2>1. 0 - 1 = -1 /\ -1 < k
    BY <1>0
  <2>. QED
    BY <1>1, <1>2, <2>1
<1>7. ASSUME NEW n \in Nat, n \in T PROVE n + 1 \in T
  <2>1. CASE n <= MaxSecond
    <3>1. /\ n \in 0 .. MaxSecond /\ n - 1 <= MaxSecond /\ (n + 1) - 1 = n
          /\ n - 1 \in -1 .. MaxSecond
      BY <1>0, <2>1
    <3>2. Claim(n - 1)
      BY <1>7, <3>1
    <3>3. h[n] = h[n - 1] \o Archive(new, n) /\ g[n] = g[n - 1] \o Archive(old, n)
      BY <1>1, <1>2, <3>1
    <3>4. g[n - 1] \in Seq(Text) /\ g[n - 1] \o << >> = g[n - 1]
          /\ (g[n - 1] \o x) \o << >> = g[n - 1] \o x
      <4>1. g[n - 1] \in Seq(Text)
        BY <1>5, <3>1
      <4>2. g[n - 1] \o x \in Seq(Text)
        BY <4>1
      <4>. QED
        BY <4>1, <4>2, ConcatEmptySeq
    <3>5. CASE n < k
      <4>1. n - 1 < k /\ Archive(new, n) = Archive(old, n)
        BY <1>0, <1>4, <3>1, <3>5
      <4>2. Claim(n)
        BY <3>2, <3>3, <3>5, <4>1
      <4>. QED
        BY <3>1, <4>2
    <3>6. CASE n = k
      <4>1. n - 1 < k /\ ~ (n < k) /\ Archive(new, n) = x /\ Archive(old, n) = << >>
        BY <1>0, <1>4, <3>6
      <4>2. Claim(n)
        BY <3>2, <3>3, <3>4, <4>1
      <4>. QED
        BY <3>1, <4>2
    <3>7. CASE k < n
      <4>1. ~ (n - 1 < k) /\ ~ (n < k) /\ Archive(new, n) = << >> /\ Archive(old, n) = << >>
        BY <1>0, <1>4, <3>1, <3>7
      <4>2. Claim(n)
        BY <3>2, <3>3, <3>4, <4>1
      <4>. QED
        BY <3>1, <4>2
    <3>. QED
      BY <1>0, <3>5, <3>6, <3>7
  <2>2. CASE ~ (n <= MaxSecond)
    BY <1>0, <2>2
  <2>. QED
    BY <2>1, <2>2
<1>. HIDE DEF T
<1>8. Nat \subseteq T
  BY <1>6, <1>7, AllNaturals
<1>9. Claim(MaxSecond)
  <2>1. MaxSecond + 1 \in T /\ (MaxSecond + 1) - 1 = MaxSecond
    BY <1>0, <1>8
  <2>. HIDE DEF Claim
  <2>. QED
    BY <1>0, <2>1 DEF T
<1>10. MaxSecond \in -1 .. MaxSecond /\ ~ (MaxSecond < k)
  BY <1>0
<1>. QED
  BY <1>1, <1>2, <1>5, <1>9, <1>10 DEF new

-----------------------------------------------------------------------------
(* The files.  w is what was written to file f, and no archive is later    *)
(* than second k.  An archive was made by a rotation, and if each rotation *)
(* made one and no text was missed, the file and its archives hold w.      *)
OldFiles(k) == UNION {[D -> Seq(Text)] : D \in SUBSET (0 .. k)}

FileState(k) ==
  [open : BOOLEAN, cur : Seq(Text), old : OldFiles(k), rotations : Nat, missed : Nat]

FileHolds(f, w, k) ==
  /\ f \in FileState(k) /\ w \in Seq(Text)
  /\ Cardinality(DOMAIN f.old) <= f.rotations
  /\ f.missed = 0 /\ f.rotations = Cardinality(DOMAIN f.old)
       => Archives(f.old) \o f.cur = w

FilesOK ==
  /\ second \in 0 .. config.seconds
  /\ file = [t \in Type |-> file[t]]
  /\ \A t \in Type : FileHolds(file[t], written[t], second)

LEMMA Regroup == \A x, y, z \in Seq(Text) : x \o (y \o z) = (x \o y) \o z
BY ConcatAssociative

(* The archives are finitely many, and texts end to end. *)
LEMMA OldFilesOK ==
  ASSUME NEW k \in 0 .. MaxSecond, NEW old \in OldFiles(k)
  PROVE  /\ DOMAIN old \in SUBSET (0 .. k) /\ old \in [DOMAIN old -> Seq(Text)]
         /\ IsFiniteSet(DOMAIN old) /\ Cardinality(DOMAIN old) \in Nat
         /\ Archives(old) \in Seq(Text)
<1>0. MaxSecond \in Nat /\ k \in Nat /\ k <= MaxSecond
  BY LogAssumption
<1>1. PICK D \in SUBSET (0 .. k) : old \in [D -> Seq(Text)]
  BY DEF OldFiles
<1>2. DOMAIN old = D
  BY <1>1
<1>3. IsFiniteSet(DOMAIN old) /\ Cardinality(DOMAIN old) \in Nat
  <2>1. IsFiniteSet(0 .. k)
    BY <1>0, FS_Interval
  <2>2. IsFiniteSet(D)
    BY <1>1, <2>1, FS_Subset
  <2>. QED
    BY <1>2, <2>2, FS_CardinalityType
<1>4. PICK g : /\ g[-1] = << >> /\ Archives(old) = g[MaxSecond]
               /\ \A s \in 0 .. MaxSecond : g[s] = g[s - 1] \o Archive(old, s)
  BY ArchivesOf
<1>5. \A s \in 0 .. MaxSecond : Archive(old, s) \in Seq(Text)
  BY <1>1 DEF Archive
<1>6. \A s \in -1 .. MaxSecond : g[s] \in Seq(Text)
  BY <1>4, <1>5, ArchivesType
<1>7. Archives(old) \in Seq(Text)
  <2>1. MaxSecond \in -1 .. MaxSecond
    BY <1>0
  <2>. QED
    BY <1>4, <1>6, <2>1
<1>. QED
  BY <1>1, <1>2, <1>3, <1>7

(* A rotation with a rename. *)
LEMMA RotateHolds ==
  ASSUME NEW k \in 0 .. MaxSecond, NEW f \in FileState(k), NEW o \in BOOLEAN,
         NEW r \in BOOLEAN, NEW w, FileHolds(f, w, k)
  PROVE  FileHolds(Files!Rotate(f, k, r, o), w, k)
<1>. DEFINE old == Files!Archived(f, k, r)
            g == Files!Rotate(f, k, r, o)
            D == DOMAIN f.old
<1>1. /\ D \in SUBSET (0 .. k) /\ f.old \in [D -> Seq(Text)] /\ f.old \in OldFiles(k)
      /\ IsFiniteSet(D) /\ Cardinality(D) \in Nat /\ Archives(f.old) \in Seq(Text)
  BY OldFilesOK DEF FileState
<1>2. /\ f.cur \in Seq(Text) /\ f.rotations \in Nat /\ f.missed \in Nat /\ f.open \in BOOLEAN
      /\ Cardinality(D) <= f.rotations
      /\ f.missed = 0 /\ f.rotations = Cardinality(D) => Archives(f.old) \o f.cur = w
      /\ w \in Seq(Text)
  BY DEF FileState, FileHolds
<1>3. /\ old \in OldFiles(k) /\ IsFiniteSet(DOMAIN old)
      /\ Cardinality(DOMAIN old) <= f.rotations + 1
      /\ Cardinality(DOMAIN old) = f.rotations + 1 => r /\ k \notin D
  <2>1. CASE ~ r
    <3>1. old = f.old
      BY <2>1 DEF Files!Archived
    <3>. QED
      BY <1>1, <1>2, <3>1
  <2>2. CASE r
    <3>1. old = [s \in D \cup {k} |-> IF s = k THEN f.cur ELSE f.old[s]]
      BY <2>2 DEF Files!Archived
    <3>2. DOMAIN old = D \cup {k} /\ old \in [D \cup {k} -> Seq(Text)]
      BY <1>1, <1>2, <3>1
    <3>3. D \cup {k} \in SUBSET (0 .. k)
      <4>1. k \in 0 .. k
        BY LogAssumption
      <4>. QED
        BY <1>1, <4>1
    <3>4. old \in OldFiles(k)
      BY <3>2, <3>3 DEF OldFiles
    <3>5. /\ IsFiniteSet(D \cup {k})
          /\ Cardinality(D \cup {k}) = IF k \in D THEN Cardinality(D) ELSE Cardinality(D) + 1
      BY <1>1, FS_AddElement
    <3>. HIDE DEF old, D
    <3>. QED
      BY <1>1, <1>2, <2>2, <3>2, <3>4, <3>5
  <2>. QED
    BY <2>1, <2>2
<1>4. /\ g = [[[[f EXCEPT !.old = old] EXCEPT !.cur = << >>] EXCEPT !.open = o]
                EXCEPT !.rotations = f.rotations + 1]
  BY DEF Files!Rotate
<1>5. /\ g \in FileState(k) /\ g.old = old /\ g.cur = << >> /\ g.missed = f.missed
      /\ g.rotations = f.rotations + 1
  <2>1. f.rotations + 1 \in Nat /\ << >> \in Seq(Text)
    BY <1>2
  <2>. HIDE DEF old, g
  <2>2. g = [open |-> o, cur |-> << >>, old |-> old, rotations |-> f.rotations + 1,
             missed |-> f.missed]
    BY <1>4 DEF FileState
  <2>. QED
    BY <1>2, <1>3, <2>1, <2>2 DEF FileState
<1>6. ASSUME g.missed = 0, g.rotations = Cardinality(DOMAIN g.old)
      PROVE  Archives(g.old) \o g.cur = w
  <2>1. r /\ k \notin D
    BY <1>3, <1>5, <1>6
  <2>2. old = [s \in D \cup {k} |-> IF s = k THEN f.cur ELSE f.old[s]]
    BY <2>1 DEF Files!Archived
  <2>3. Archives(old) = Archives(f.old) \o f.cur
    <3>. HIDE DEF D, old
    <3>1. /\ D \in SUBSET (0 .. k) /\ k \notin D /\ f.old \in [D -> Seq(Text)]
          /\ f.cur \in Seq(Text)
      BY <1>1, <1>2, <2>1
    <3>2. Archives([s \in D \cup {k} |-> IF s = k THEN f.cur ELSE f.old[s]])
            = Archives(f.old) \o f.cur
      BY <3>1, ArchiveAdded
    <3>. QED
      BY <2>2, <3>2, Zenon
  <2>4. Cardinality(DOMAIN old) = Cardinality(D) + 1
    <3>1. DOMAIN old = D \cup {k}
      BY <2>2
    <3>. QED
      BY <1>1, <2>1, <3>1, FS_AddElement
  <2>. HIDE DEF old, g, D
  <2>5. f.missed = 0 /\ f.rotations = Cardinality(D)
    BY <1>1, <1>2, <1>5, <1>6, <2>4
  <2>6. Archives(old) = w
    BY <1>2, <2>3, <2>5
  <2>. QED
    BY <1>2, <1>5, <2>6, ConcatEmptySeq
<1>. HIDE DEF old, g, D
<1>7. Cardinality(DOMAIN g.old) <= g.rotations
  BY <1>3, <1>5
<1>. QED
  BY <1>2, <1>5, <1>6, <1>7 DEF FileHolds, g

(* A write. *)
LEMMA WriteHolds ==
  ASSUME NEW k \in 0 .. MaxSecond, NEW f, NEW w, FileHolds(f, w, k), NEW xs \in Seq(Text),
         NEW r \in BOOLEAN, NEW o \in BOOLEAN
  PROVE  FileHolds(Files!Write(f, xs, k, r, o), w \o xs, k)
<1>. DEFINE grown == [f EXCEPT !.cur = @ \o xs]
            late == [f EXCEPT !.missed = @ + Len(xs)]
<1>0. /\ f \in FileState(k) /\ w \in Seq(Text) /\ Len(xs) \in Nat
      /\ Cardinality(DOMAIN f.old) <= f.rotations
      /\ f.missed = 0 /\ f.rotations = Cardinality(DOMAIN f.old)
           => Archives(f.old) \o f.cur = w
  <2>1. Len(xs) \in Nat
    BY LenProperties
  <2>. QED
    BY <2>1, Zenon DEF FileHolds
<1>1. /\ f.cur \in Seq(Text) /\ f.rotations \in Nat /\ f.missed \in Nat
      /\ Archives(f.old) \in Seq(Text)
  BY <1>0, OldFilesOK DEF FileState
<1>2. w \o xs \in Seq(Text) /\ f.cur \o xs \in Seq(Text)
  BY <1>0, <1>1, ConcatProperties
<1>3. FileHolds(late, w \o xs, k)
  <2>1. f.missed + Len(xs) \in Nat
    BY <1>0, <1>1
  <2>2. /\ late \in FileState(k) /\ late.missed = f.missed + Len(xs) /\ late.old = f.old
        /\ late.cur = f.cur /\ late.rotations = f.rotations
    BY <1>0, <2>1 DEF FileState
  <2>. HIDE DEF late
  <2>3. ASSUME late.missed = 0
        PROVE  f.missed = 0 /\ w \o xs = w
    <3>1. f.missed = 0 /\ Len(xs) = 0
      BY <1>0, <1>1, <2>2, <2>3
    <3>2. xs = << >>
      BY <3>1, EmptySeq
    <3>. QED
      BY <1>0, <3>1, <3>2, ConcatEmptySeq
  <2>. QED
    BY <1>0, <1>2, <2>2, <2>3 DEF FileHolds
<1>4. FileHolds(grown, w \o xs, k) /\ grown \in FileState(k)
  <2>1. /\ grown \in FileState(k) /\ grown.cur = f.cur \o xs /\ grown.old = f.old
        /\ grown.missed = f.missed /\ grown.rotations = f.rotations
    BY <1>0, <1>2 DEF FileState
  <2>2. Archives(f.old) \o (f.cur \o xs) = (Archives(f.old) \o f.cur) \o xs
    <3>. DEFINE a == Archives(f.old)
                c == f.cur
    <3>1. a \in Seq(Text) /\ c \in Seq(Text) /\ xs \in Seq(Text)
      BY <1>1
    <3>. HIDE DEF a, c
    <3>2. a \o (c \o xs) = (a \o c) \o xs
      BY <3>1, Regroup
    <3>. QED
      BY <3>2 DEF a, c
  <2>. HIDE DEF grown
  <2>. QED
    BY <1>0, <1>2, <2>1, <2>2 DEF FileHolds
<1>5. FileHolds(Files!Rotate(grown, k, r, o), w \o xs, k)
  <2>. HIDE DEF grown
  <2>. QED
    BY <1>4, RotateHolds
<1>6. \/ Files!Write(f, xs, k, r, o) = late
      \/ Files!Write(f, xs, k, r, o) = grown
      \/ Files!Write(f, xs, k, r, o) = Files!Rotate(grown, k, r, o)
  BY Zenon DEF Files!Write
<1>. HIDE DEF grown, late
<1>. QED
  BY <1>3, <1>4, <1>5, <1>6

(* What a flush may do to a file, one text after the other. *)
IsStored(g, F, x, m) ==
  g = [i \in 0 .. m |-> IF i = 0 THEN F ELSE AfterWrite(g[i - 1], x[i])]

LEMMA StoredExist ==
  ASSUME NEW F, NEW x, NEW m \in Nat
  PROVE  \E g : IsStored(g, F, x, m)
<1>. USE DEF IsStored
<1>. DEFINE Is(n, g) == IsStored(g, F, x, n)
            T == {n \in Nat : \E g : Is(n, g)}
<1>1. 0 \in T
  <2>. DEFINE g == [i \in 0 .. 0 |-> F]
  <2>1. \A i \in 0 .. 0 : i = 0
    OBVIOUS
  <2>2. g = [i \in 0 .. 0 |-> IF i = 0 THEN F ELSE AfterWrite(g[i - 1], x[i])]
    BY <2>1
  <2>. HIDE DEF g
  <2>3. 0 \in Nat /\ \E f : Is(0, f)
    BY <2>2
  <2>. HIDE DEF Is
  <2>. QED
    BY <2>3
<1>2. ASSUME NEW n \in Nat, n \in T PROVE n + 1 \in T
  <2>1. PICK g : Is(n, g)
    BY <1>2
  <2>. DEFINE h == [i \in 0 .. (n + 1) |-> IF i = n + 1 THEN AfterWrite(g[n], x[n + 1]) ELSE g[i]]
              k1 == [i \in 0 .. (n + 1) |-> IF i = 0 THEN F ELSE AfterWrite(h[i - 1], x[i])]
  <2>2. ASSUME NEW i \in 0 .. (n + 1) PROVE h[i] = k1[i]
    <3>1. CASE i = n + 1
      <4>1. h[i] = AfterWrite(g[n], x[i])
        BY <3>1
      <4>2. i - 1 = n /\ i # 0 /\ n \in 0 .. (n + 1) /\ n # n + 1
        BY <3>1
      <4>3. h[n] = g[n]
        BY <4>2
      <4>4. k1[i] = AfterWrite(h[i - 1], x[i])
        BY <4>2
      <4>. QED
        BY <4>1, <4>2, <4>3, <4>4
    <3>2. CASE i = 0
      <4>1. i \in 0 .. n /\ i # n + 1
        BY <3>2
      <4>2. g[i] = F
        BY <2>1, <3>2, <4>1
      <4>. QED
        BY <3>2, <4>1, <4>2
    <3>3. CASE i # n + 1 /\ i # 0
      <4>1. i \in 0 .. n /\ i - 1 \in 0 .. (n + 1) /\ i - 1 # n + 1
        BY <3>3
      <4>2. g[i] = AfterWrite(g[i - 1], x[i])
        BY <2>1, <3>3, <4>1
      <4>3. h[i] = g[i] /\ h[i - 1] = g[i - 1]
        BY <3>3, <4>1
      <4>4. k1[i] = AfterWrite(h[i - 1], x[i])
        BY <3>3
      <4>. QED
        BY <4>2, <4>3, <4>4
    <3>. QED
      BY <3>1, <3>2, <3>3
  <2>3. h = k1
    <3>1. h = [i \in 0 .. (n + 1) |-> h[i]] /\ k1 = [i \in 0 .. (n + 1) |-> k1[i]]
      OBVIOUS
    <3>. HIDE DEF h, k1
    <3>. QED
      BY <2>2, <3>1
  <2>4. Is(n + 1, h)
    BY <2>3, Zenon
  <2>. HIDE DEF Is, h
  <2>5. n + 1 \in Nat /\ \E f : Is(n + 1, f)
    BY <2>4
  <2>. QED
    BY <2>5
<1>. HIDE DEF T
<1>3. m \in T
  BY <1>1, <1>2, AllNaturals
<1>. QED
  BY <1>3 DEF T

(* After a flush a file holds what it held and what was flushed. *)
LEMMA AfterFlushHolds ==
  ASSUME NEW t \in Type, NEW x \in Seq(Text), NEW w, second \in 0 .. MaxSecond,
         FileHolds(file[t], w, second), NEW e \in AfterFlush(t, x)
  PROVE  FileHolds(e, w \o x, second)
<1>. DEFINE l == Len(x)
            P(g) == IsStored(g, {file[t]}, x, l)
            u == CHOOSE g : P(g)
<1>0. /\ l \in Nat /\ w \in Seq(Text)
      /\ May("rename") \subseteq BOOLEAN /\ May("open") \subseteq BOOLEAN
  <2>1. l \in Nat
    BY LenProperties
  <2>2. May("rename") \subseteq BOOLEAN /\ May("open") \subseteq BOOLEAN
    BY Zenon DEF May
  <2>. QED
    BY <2>1, <2>2, Zenon DEF FileHolds
<1>1. AfterFlush(t, x) = u[l]
  BY Zenon DEF AfterFlush, IsStored
<1>. HIDE DEF l
<1>2. P(u)
  <2>1. \E g : P(g)
    BY <1>0, StoredExist
  <2>. HIDE DEF P
  <2>. QED
    BY <2>1
<1>. HIDE DEF u
<1>3. u[0] = {file[t]}
  BY <1>0, <1>2 DEF IsStored
<1>4. \A i \in 1 .. l : u[i] = AfterWrite(u[i - 1], x[i])
  <2>1. \A i \in 1 .. l : i \in 0 .. l /\ i # 0
    BY <1>0
  <2>. QED
    BY <1>2, <2>1, Zenon DEF IsStored
<1>. HIDE DEF P
<1>. DEFINE Claim(n) == \A f \in u[n] : FileHolds(f, w \o SubSeq(x, 1, n), second)
            T == {n \in Nat : n <= l => Claim(n)}
<1>5. 0 \in T
  <2>1. SubSeq(x, 1, 0) = << >> /\ w \o << >> = w
    BY <1>0, ConcatEmptySeq, SubSeqEmpty
  <2>2. Claim(0)
    BY <1>3, <2>1
  <2>. HIDE DEF Claim
  <2>. QED
    BY <2>2
<1>6. ASSUME NEW n \in Nat, n \in T PROVE n + 1 \in T
  <2>1. CASE n + 1 <= l
    <3>1. n <= l /\ n + 1 \in 1 .. l /\ (n + 1) - 1 = n
      BY <1>0, <2>1
    <3>2. Claim(n)
      BY <1>6, <3>1
    <3>. DEFINE y == x[n + 1]
                z == SubSeq(x, 1, n)
    <3>3. y \in Text /\ <<y>> \in Seq(Text) /\ z \in Seq(Text)
      BY <3>1, ElementOfSeq DEF l
    <3>4. SubSeq(x, 1, n + 1) = z \o <<y>>
      <4>1. SubSeq(x, 1, n + 1) = Append(z, y)
        BY <3>1 DEF l
      <4>. QED
        BY <3>3, <4>1, AppendIsConcat
    <3>. HIDE DEF y, z
    <3>5. w \o (z \o <<y>>) = (w \o z) \o <<y>>
      BY <1>0, <3>3, Regroup
    <3>6. ASSUME NEW f \in u[n + 1]
          PROVE  FileHolds(f, w \o SubSeq(x, 1, n + 1), second)
      <4>1. PICK d \in u[n], r \in May("rename"), o \in May("open") :
                f = Files!Write(d, <<y>>, second, r, o)
        <5>1. u[n + 1] = AfterWrite(u[n], y)
          BY <1>4, <3>1 DEF y
        <5>. QED
          BY <5>1 DEF AfterWrite
      <4>2. FileHolds(d, w \o z, second)
        BY <3>2 DEF z
      <4>3. r \in BOOLEAN /\ o \in BOOLEAN
        BY <1>0
      <4>4. FileHolds(f, (w \o z) \o <<y>>, second)
        BY <3>3, <4>1, <4>2, <4>3, WriteHolds
      <4>. QED
        BY <3>4, <3>5, <4>4
    <3>7. Claim(n + 1)
      BY <3>6
    <3>. HIDE DEF Claim
    <3>. QED
      BY <3>7
  <2>2. CASE ~ (n + 1 <= l)
    BY <2>2
  <2>. QED
    BY <2>1, <2>2
<1>. HIDE DEF T
<1>7. l \in T
  BY <1>0, <1>5, <1>6, AllNaturals
<1>8. Claim(l)
  <2>. HIDE DEF Claim
  <2>. QED
    BY <1>0, <1>7 DEF T
<1>9. SubSeq(x, 1, l) = x
  BY SubSeqFull DEF l
<1>. QED
  BY <1>1, <1>8, <1>9

(* Without archives there is nothing in them. *)
LEMMA ArchivesNone == Archives(<< >>) = << >>
<1>0. MaxSecond \in Nat /\ \A s \in Nat : Archive(<< >>, s) = << >>
  BY LogAssumption DEF Archive
<1>1. PICK g : /\ g[-1] = << >> /\ Archives(<< >>) = g[MaxSecond]
               /\ \A s \in 0 .. MaxSecond : g[s] = g[s - 1] \o Archive(<< >>, s)
  BY ArchivesOf
<1>. DEFINE Claim(s) == g[s] = << >>
            T == {n \in Nat : n - 1 <= MaxSecond => Claim(n - 1)}
<1>2. 0 \in T
  <2>1. 0 - 1 = -1
    OBVIOUS
  <2>. QED
    BY <1>1, <2>1
<1>3. ASSUME NEW n \in Nat, n \in T PROVE n + 1 \in T
  <2>1. CASE n <= MaxSecond
    <3>1. n \in 0 .. MaxSecond /\ n - 1 <= MaxSecond /\ (n + 1) - 1 = n
      BY <1>0, <2>1
    <3>2. Claim(n - 1)
      BY <1>3, <3>1
    <3>3. g[n] = << >> \o << >>
      BY <1>0, <1>1, <3>1, <3>2
    <3>4. Claim(n)
      BY <3>3
    <3>. HIDE DEF Claim
    <3>. QED
      BY <3>1, <3>4
  <2>2. CASE ~ (n <= MaxSecond)
    BY <1>0, <2>2
  <2>. QED
    BY <2>1, <2>2
<1>. HIDE DEF T
<1>4. MaxSecond + 1 \in T /\ (MaxSecond + 1) - 1 = MaxSecond
  BY <1>0, <1>2, <1>3, AllNaturals
<1>5. Claim(MaxSecond)
  <2>. HIDE DEF Claim
  <2>. QED
    BY <1>0, <1>4 DEF T
<1>. QED
  BY <1>1, <1>5

(* The files that a step leaves alone. *)
LEMMA FilesKept ==
  ASSUME FilesOK, UNCHANGED <<config, second, file, written>>
  PROVE  FilesOK'
BY DEF FilesOK

(* One file changes, and what was written to it. *)
LEMMA FilesGrow ==
  ASSUME FilesOK, LogsOK, NEW t \in Type, NEW e, NEW w, FileHolds(e, w, second),
         file' = [file EXCEPT ![t] = e], written' = [written EXCEPT ![t] = w],
         UNCHANGED <<config, second>>
  PROVE  FilesOK'
<1>1. /\ file'[t] = e /\ \A u \in Type \ {t} : file'[u] = file[u]
      /\ written'[t] = w /\ \A u \in Type \ {t} : written'[u] = written[u]
      /\ file' = [u \in Type |-> file'[u]]
  BY DEF FilesOK, LogsOK
<1>2. ASSUME NEW u \in Type
      PROVE  FileHolds(file'[u], written'[u], second')
  BY <1>1 DEF FilesOK
<1>. QED
  BY <1>1, <1>2 DEF FilesOK

LEMMA FilesWritten ==
  ASSUME FilesOK, LogsOK, NEW t \in Type, NEW xs \in Seq(Text), WriteFile(t, xs),
         UNCHANGED <<config, second>>
  PROVE  FilesOK'
<1>1. second \in 0 .. MaxSecond
  BY LogAssumption DEF FilesOK, LogsOK, Config
<1>2. PICK r \in May("rename"), o \in May("open") :
        file' = [file EXCEPT ![t] = Files!Write(file[t], xs, second, r, o)]
  BY DEF WriteFile
<1>3. r \in BOOLEAN /\ o \in BOOLEAN
  BY DEF May
<1>4. FileHolds(Files!Write(file[t], xs, second, r, o), written[t] \o xs, second)
  BY <1>1, <1>3, WriteHolds DEF FilesOK
<1>5. written' = [written EXCEPT ![t] = written[t] \o xs]
  BY DEF WriteFile
<1>. QED
  BY <1>2, <1>4, <1>5, FilesGrow

(* Every step keeps the files right. *)
LEMMA FilesStep ==
  ASSUME LazyInv, FilesOK, Next
  PROVE  FilesOK'
<1>. USE DEF LazyInv, OrderInv
<1>1. CASE UNCHANGED <<config, second, file, written>>
  BY <1>1, FilesKept
<1>2. ASSUME NEW w \in Writer, SaveSync(w)
      PROVE  FilesOK'
  <2>1. pc[w].type \in Type /\ <<TextOf(w)>> \in Seq(Text)
    BY <1>2, InHand DEF SaveSync, Accepting
  <2>2. WriteFile(pc[w].type, <<TextOf(w)>>) /\ UNCHANGED <<config, second>>
    BY <1>2 DEF SaveSync
  <2>. QED
    BY <2>1, <2>2, FilesWritten
<1>3. ASSUME NEW w \in Writer, SaveUrgent(w)
      PROVE  FilesOK'
  <2>. DEFINE t == pc[w].type
              r == Ring!Push(ring[t], TextOf(w))
              s == Append(saved[t], TextOf(w))
              x == Ring!Flushed(r)
  <2>1. pc[w].at = "save" /\ mode[t] = "lazy" /\ ring[t].array
    BY <1>3 DEF SaveUrgent, Accepting
  <2>2. t \in Type /\ TextOf(w) \in Text
    BY <2>1, InHand
  <2>3. saved[t] \in Seq(Text) /\ flushed[t] \in Nat
    BY <2>2 DEF TextsOK
  <2>4. IsRing(r) /\ Holds(r, s, flushed[t]) /\ s \in Seq(Text)
    BY <2>1, <2>2, <2>3, PushHolds DEF LazyOK
  <2>5. PICK e \in AfterFlush(t, x) : file' = [file EXCEPT ![t] = e]
    BY <1>3 DEF SaveUrgent
  <2>6. written' = [written EXCEPT ![t] = written[t] \o x] /\ UNCHANGED <<config, second>>
    BY <1>3 DEF SaveUrgent
  <2>. HIDE DEF r, s
  <2>7. x \in Seq(Text)
    BY <2>3, <2>4, FlushHolds
  <2>8. second \in 0 .. MaxSecond /\ FileHolds(file[t], written[t], second)
    BY <2>2, LogAssumption DEF FilesOK, LogsOK, Config
  <2>. HIDE DEF x, t
  <2>9. FileHolds(e, written[t] \o x, second)
    BY <2>2, <2>5, <2>7, <2>8, AfterFlushHolds
  <2>. QED
    BY <2>2, <2>5, <2>6, <2>9, FilesGrow
<1>4. CASE WtWrite \/ WtCurrent
  <2>1. wt.type \in Queued /\ wt.type \in Type
    BY <1>4, AsynQueued DEF WtWrite, WtCurrent, ThreadOK, LogsOK
  <2>2. current[wt.type] \in Seq(Text) /\ Front(taken, PerRecord) \in Seq(Text)
    BY <2>1, Parts, LogAssumption DEF LogsOK
  <2>3. UNCHANGED <<config, second>>
    BY <1>4 DEF WtWrite, WtCurrent
  <2>4. \/ WriteFile(wt.type, Front(taken, PerRecord))
        \/ WriteFile(wt.type, current[wt.type])
        \/ UNCHANGED <<file, written>>
    BY <1>4 DEF WtWrite, WtCurrent
  <2>. QED
    BY <2>1, <2>2, <2>3, <2>4, <1>1, FilesWritten
<1>5. ASSUME NEW l \in config.levels, Create(l)
      PROVE  FilesOK'
  <2>1. PICK reopened \in [Type -> BOOLEAN] :
          file' = [t \in Type |-> [file[t] EXCEPT !.open = reopened[t]]]
    <3>1. May("open") \subseteq BOOLEAN
      BY Zenon DEF May
    <3>2. PICK reopened \in [Type -> May("open")] :
            file' = [t \in Type |-> [file[t] EXCEPT !.open = reopened[t]]]
      BY <1>5, Zenon DEF Create
    <3>. QED
      BY <3>1, <3>2
  <2>2. UNCHANGED <<config, second, written>>
    BY <1>5 DEF Create
  <2>3. ASSUME NEW t \in Type
        PROVE  FileHolds(file'[t], written[t], second)
    <3>1. file'[t] = [file[t] EXCEPT !.open = reopened[t]] /\ reopened[t] \in BOOLEAN
      BY <2>1
    <3>2. FileHolds(file[t], written[t], second)
      BY DEF FilesOK
    <3>3. /\ file'[t] \in FileState(second) /\ file'[t].cur = file[t].cur
          /\ file'[t].old = file[t].old /\ file'[t].rotations = file[t].rotations
          /\ file'[t].missed = file[t].missed
      BY <3>1, <3>2 DEF FileHolds, FileState
    <3>. QED
      BY <3>2, <3>3 DEF FileHolds
  <2>4. file' = [t \in Type |-> file'[t]]
    BY <2>1
  <2>. QED
    BY <2>2, <2>3, <2>4 DEF FilesOK
<1>6. CASE Tick
  <2>1. /\ second < config.seconds /\ second' = second + 1
        /\ UNCHANGED <<config, file, written>>
    BY <1>6 DEF Tick
  <2>2. second + 1 \in 0 .. config.seconds /\ second \in Nat
    BY <2>1, LogAssumption DEF FilesOK, LogsOK, Config
  <2>3. OldFiles(second) \subseteq OldFiles(second + 1)
    <3>1. 0 .. second \subseteq 0 .. (second + 1)
      BY <2>2
    <3>. QED
      BY <3>1 DEF OldFiles
  <2>4. ASSUME NEW t \in Type
        PROVE  FileHolds(file[t], written[t], second + 1)
    <3>1. FileHolds(file[t], written[t], second)
      BY DEF FilesOK
    <3>2. file[t] \in FileState(second + 1)
      BY <2>3, <3>1 DEF FileHolds, FileState
    <3>. QED
      BY <3>1, <3>2 DEF FileHolds
  <2>. QED
    BY <2>1, <2>2, <2>4 DEF FilesOK
<1>. HIDE DEF LazyInv, OrderInv
<1>7. ASSUME NEW w \in Writer, WriterStep(w)
      PROVE  FilesOK'
  <2>1. Check(w) \/ Discard(w) \/ SaveAppend(w) \/ SaveRecord(w) \/ SaveLazy(w) \/ SaveNowhere(w)
          => UNCHANGED <<config, second, file, written>>
    BY DEF Check, Discard, SaveAppend, SaveRecord, SaveLazy, SaveNowhere
  <2>. QED
    BY <1>1, <1>2, <1>3, <1>7, <2>1 DEF WriterStep
<1>8. WtPass \/ WtTake \/ WtReturn => UNCHANGED <<config, second, file, written>>
  BY DEF WtPass, WtTake, WtReturn
<1>9. InitLog \/ DisableAll \/ ExitLog => UNCHANGED <<config, second, file, written>>
  BY DEF InitLog, Enable, AcquireThread, DisableAll, ExitLog, ReleaseThread, JoinThread, Delete
<1>10. /\ \A t \in Type : Switch(t) => UNCHANGED <<config, second, file, written>>
       /\ \A t \in Type, l \in config.levels :
            SetLevel(t, l) => UNCHANGED <<config, second, file, written>>
       /\ \A w \in Writer, t \in Type, l \in Level :
            Call(w, t, l) => UNCHANGED <<config, second, file, written>>
  BY DEF Switch, SetLevel, Call
<1>. QED
  BY <1>1, <1>4, <1>5, <1>6, <1>7, <1>8, <1>9, <1>10 DEF Next, WriteThread

(* Until a text meets a closed file, a rename fails or two rotations fall  *)
(* into one second, the archives by time and the current file hold all     *)
(* that was written to a log, in order, whatever its kind, however often   *)
(* the logs were made and deleted, for any file size.                      *)
THEOREM FilesKeepAll == Spec => []FilesComplete
<1>1. Init => FilesOK
  <2>. SUFFICES ASSUME Init PROVE FilesOK
    OBVIOUS
  <2>1. second = 0 /\ config.seconds \in Nat
    BY LogAssumption DEF Init, Config
  <2>2. FileHolds(Files!NewFile, << >>, 0)
    <3>. DEFINE f == Files!NewFile
    <3>1. /\ f.open = TRUE /\ f.cur = << >> /\ f.old = << >> /\ f.rotations = 0 /\ f.missed = 0
          /\ f = [open |-> TRUE, cur |-> << >>, old |-> << >>, rotations |-> 0, missed |-> 0]
      BY DEF Files!NewFile
    <3>2. << >> \in Seq(Text)
      OBVIOUS
    <3>3. DOMAIN << >> = {} /\ Cardinality({}) = 0 /\ << >> \in [{} -> Seq(Text)]
      BY FS_EmptySet
    <3>4. << >> \in OldFiles(0)
      BY <3>3 DEF OldFiles
    <3>. HIDE DEF f
    <3>5. f \in FileState(0)
      BY <3>1, <3>2, <3>4 DEF FileState
    <3>6. << >> \o << >> = << >>
      OBVIOUS
    <3>7. FileHolds(f, << >>, 0)
      BY <3>1, <3>2, <3>3, <3>5, <3>6, ArchivesNone DEF FileHolds
    <3>. QED
      BY <3>7 DEF f
  <2>3. /\ file = [t \in Type |-> Files!NewFile]
        /\ written = [t \in Type |-> << >>]
    BY DEF Init
  <2>. HIDE DEF Files!NewFile
  <2>. QED
    BY <2>1, <2>2, <2>3 DEF FilesOK
<1>2. LazyInv /\ FilesOK /\ [Next]_vars => FilesOK'
  <2>. SUFFICES ASSUME LazyInv, FilesOK, [Next]_vars PROVE FilesOK'
    OBVIOUS
  <2>1. CASE Next
    BY <2>1, FilesStep
  <2>2. CASE UNCHANGED vars
    BY <2>2, FilesKept DEF vars
  <2>. QED
    BY <2>1, <2>2
<1>3. FilesOK => FilesComplete
  BY DEF FilesOK, FileHolds, FilesComplete
<1>. QED
  BY <1>1, <1>2, <1>3, InitLazy, LazyInvStep, PTL DEF Spec

=============================================================================
