-------------------------------- MODULE Log --------------------------------
(***************************************************************************)
(* The logs of the library: stupid_log_init, stupid_log_exit, stupid_run_  *)
(* log and stupid_debug_log (src/base/log/log.cpp), called through the     *)
(* LogSwitch (src/base/utility/log_switch.cpp), over a SyncLog, LazyLog or *)
(* AsynLog for each of the two types, and the write thread all AsynLogs    *)
(* share (src/base/log/asyn_log.cpp).                                      *)
(*                                                                         *)
(* A text is one unit of a record, so a full record of an AsynLog holds    *)
(* PerRecord texts; the records of m_data_pool are kept end to end.  A     *)
(* step is one critical section or one unlocked look at a global.          *)
(***************************************************************************)
EXTENDS Integers, Sequences, FiniteSets, TLC

CONSTANTS
  Writer,      \* threads that log
  Configs,     \* configurations: the mode of each type, the calls the
               \* program makes (the type they begin with, the level), the
               \* minimum levels it sets, what may fail, and bounds: texts,
               \* calls of LogSwitch::init, levels set or types enabled or
               \* disabled, and seconds that pass
  PerRecord,   \* texts a record of an AsynLog holds (ASYN_RECORD_SIZE)
  Reserve,     \* records of a LazyLog (buffer_count)
  MaxSize,     \* texts after which a file is rotated (file_size)
  MaxTexts,    \* bound: texts of all writers
  MaxSecond    \* bound: seconds that pass

Type == {"run", "debug"}
Mode == {"sync", "asyn", "lazy"}
Level == 0 .. 4   \* CRI_LEVEL .. TRK_LEVEL
ErrLevel == 1
Config == [mode : [Type -> Mode], calls : SUBSET (Type \X Level),
           levels : SUBSET Level, fails : SUBSET {"memory", "thread", "rename", "open"},
           texts : 0 .. MaxTexts, inits : Nat, changes : Nat,
           seconds : 0 .. MaxSecond]

ASSUME LogAssumption ==
  /\ Configs \subseteq Config
  /\ PerRecord \in Nat \ {0} /\ Reserve \in Nat \ {0} /\ MaxSize \in Nat
  /\ MaxTexts \in Nat /\ MaxSecond \in Nat

VARIABLES
  config,    \* the configuration that was chosen
  mode,      \* s_log: the kind of the log of each type, "none" if there is none
  open,      \* s_log_type_open
  minimum,   \* m_min_log_level
  current,   \* m_current_record of an AsynLog: the texts in it
  has,       \* m_current_record is not null
  pool,      \* m_data_pool: the texts in its records
  idle,      \* m_idle_pool: how many records
  ring,      \* m_record, m_begin and m_count of a LazyLog
  file,      \* the files of LogBase
  second,    \* the clock
  wt,        \* the write thread: control, type and whether this pass is the last
  taken,     \* record_list of try_write_file: the texts in it
  records,   \* the records that were in it
  running,   \* m_running of the write thread
  owner,     \* control of the thread that uses the LogSwitch
  inits,     \* calls of LogSwitch::init so far
  changes,   \* changes of levels and types so far
  calls,     \* calls of the writers so far
  pc,        \* control of each writer, with the type and text in hand
  saved,     \* history: texts that entered a log, in order
  written,   \* history: texts given to LogBase::write, in order
  flushed,   \* history: texts that had entered a LazyLog at its last flush
  kept,      \* history: texts that had entered a log when its exit began
  quiet      \* history: no call was past its look at that moment

asyn == <<current, has, pool, idle>>
thread == <<wt, taken, records, running>>
control == <<config, mode, open, minimum, owner, inits, changes>>
writers == <<calls, pc>>
past == <<saved, written, flushed, kept, quiet>>

vars == <<asyn, ring, file, second, thread, control, writers, past>>

Files == INSTANCE LogFile
Ring == INSTANCE LazyRing

Text == [n : 1 .. MaxTexts, level : Level]

Least(m, n) == IF m < n THEN m ELSE n
Front(s, n) == SubSeq(s, 1, Least(n, Len(s)))
Rest(s, n) == SubSeq(s, Least(n, Len(s)) + 1, Len(s))

May(what) == IF what \in config.fails THEN BOOLEAN ELSE {TRUE}

Init ==
  /\ config \in Configs
  /\ mode = [t \in Type |-> "none"] /\ open = [t \in Type |-> FALSE]
  /\ minimum = [t \in Type |-> 0]
  /\ current = [t \in Type |-> << >>] /\ has = [t \in Type |-> FALSE]
  /\ pool = [t \in Type |-> << >>] /\ idle = [t \in Type |-> 0]
  /\ ring = [t \in Type |-> Ring!NewRing(FALSE)]
  /\ file = [t \in Type |-> Files!NewFile] /\ second = 0
  /\ wt = [at |-> "off", type |-> "run", last |-> FALSE]
  /\ taken = << >> /\ records = 0 /\ running = FALSE
  /\ owner = "off" /\ inits = 0 /\ changes = 0
  /\ calls = 0
  /\ pc = [w \in Writer |-> [at |-> "idle", type |-> "debug", n |-> 0, level |-> 0]]
  /\ saved = [t \in Type |-> << >>] /\ written = [t \in Type |-> << >>]
  /\ flushed = [t \in Type |-> 0] /\ kept = [t \in Type |-> 0]
  /\ quiet = TRUE

(* The clock of the system. *)
Tick ==
  /\ second < config.seconds
  /\ second' = second + 1
  /\ UNCHANGED <<asyn, ring, file, thread, control, writers, past>>

-----------------------------------------------------------------------------
(* LogBase::write of one buffer. *)
WriteFile(t, xs) ==
  /\ \E renamed \in May("rename"), reopened \in May("open") :
       file' = [file EXCEPT ![t] = Files!Write(@, xs, second, renamed, reopened)]
  /\ written' = [written EXCEPT ![t] = @ \o xs]

Saved(t, x) == saved' = [saved EXCEPT ![t] = Append(@, x)]

(* ObjectPool::acquire: an idle record, else a new one. *)
Obtained(t) == IF idle[t] > 0 THEN {TRUE} ELSE May("memory")
Used(t) == IF idle[t] > 0 THEN idle[t] - 1 ELSE 0

\* Mutant of Full: the last text of a record is stored behind its end.
FullLate(t) == Len(current[t]) > PerRecord

(* ASYN_RECORD_SIZE < m_current_record->size + size *)
Full(t) == Len(current[t]) + 1 > PerRecord

-----------------------------------------------------------------------------
(* The writers.  stupid_run_log begins with the run log and goes on with   *)
(* the debug log; stupid_debug_log is its second half.                     *)
Call(w, t, l) ==
  /\ pc[w].at = "idle" /\ calls < config.texts /\ <<t, l>> \in config.calls
  /\ calls' = calls + 1
  /\ pc' = [pc EXCEPT ![w] = [at |-> "check", type |-> t, n |-> calls + 1, level |-> l]]
  /\ UNCHANGED <<asyn, ring, file, second, thread, control, past>>

Advanced(c) ==
  IF c.type = "run" THEN [c EXCEPT !.at = "check", !.type = "debug"]
                    ELSE [at |-> "idle", type |-> "debug", n |-> 0, level |-> 0]

Advance(w) ==
  /\ pc' = [pc EXCEPT ![w] = Advanced(@)]
  /\ UNCHANGED calls

(* The look at s_log_type_open and s_log, without a lock. *)
Check(w) ==
  LET t == pc[w].type
  IN  /\ pc[w].at = "check"
      /\ IF open[t] /\ mode[t] # "none"
           THEN pc' = [pc EXCEPT ![w].at = "save"] /\ UNCHANGED calls
           ELSE Advance(w)
      /\ UNCHANGED <<asyn, ring, file, second, thread, control, past>>

TextOf(w) == [n |-> pc[w].n, level |-> pc[w].level]

(* push_record: the level is too high, or the log was deleted after the    *)
(* look: the text then goes to freed memory, unless the program ends.      *)
Discard(w) ==
  LET t == pc[w].type
  IN  /\ pc[w].at = "save"
      /\ mode[t] = "none" \/ pc[w].level > minimum[t]
      /\ Advance(w)
      /\ UNCHANGED <<asyn, ring, file, second, thread, control, past>>

Accepting(w, m) ==
  LET t == pc[w].type
  IN  pc[w].at = "save" /\ mode[t] = m /\ pc[w].level <= minimum[t]

(* SyncLog::save_record *)
SaveSync(w) ==
  LET t == pc[w].type
  IN  /\ Accepting(w, "sync")
      /\ WriteFile(t, <<TextOf(w)>>)
      /\ Saved(t, TextOf(w))
      /\ Advance(w)
      /\ UNCHANGED <<asyn, ring, second, thread, control, flushed, kept, quiet>>

(* AsynLog::save_record: into the current record ... *)
SaveAppend(w) ==
  LET t == pc[w].type
  IN  /\ Accepting(w, "asyn") /\ has[t] /\ ~ Full(t)
      /\ current' = [current EXCEPT ![t] = Append(@, TextOf(w))]
      /\ Saved(t, TextOf(w))
      /\ Advance(w)
      /\ UNCHANGED <<has, pool, idle, ring, file, second, thread, control, written,
                     flushed, kept, quiet>>

(* m_data_pool.release(m_current_record) *)
Released(t) == [pool EXCEPT ![t] = @ \o current[t]]

(* ... or into a new one, when there is none or it is full; without memory *)
(* for a new one the text is dropped.                                      *)
SaveRecord(w) ==
  LET t == pc[w].type
  IN  /\ Accepting(w, "asyn") /\ (has[t] => Full(t))
      /\ pool' = IF has[t] THEN Released(t) ELSE pool
      /\ idle' = [idle EXCEPT ![t] = Used(t)]
      /\ \E got \in Obtained(t) :
           /\ has' = [has EXCEPT ![t] = got]
           /\ current' = [current EXCEPT ![t] = IF got THEN <<TextOf(w)>> ELSE << >>]
           /\ IF got THEN Saved(t, TextOf(w)) ELSE UNCHANGED saved
      /\ Advance(w)
      /\ UNCHANGED <<ring, file, second, thread, control, written, flushed, kept,
                     quiet>>

Urgent(l) == ErrLevel >= l

(* LazyLog::save_record; an urgent text flushes the ring. *)
SaveLazy(w) ==
  LET t == pc[w].type
      pushed == Ring!Push(ring[t], TextOf(w))
  IN  /\ Accepting(w, "lazy") /\ ring[t].array /\ ~ Urgent(pc[w].level)
      /\ ring' = [ring EXCEPT ![t] = pushed]
      /\ Saved(t, TextOf(w))
      /\ Advance(w)
      /\ UNCHANGED <<asyn, file, second, thread, control, written, flushed, kept,
                     quiet>>

(* What may become of files when a text is written to each ... *)
AfterWrite(files, x) ==
  {Files!Write(f, <<x>>, second, renamed, reopened) :
     f \in files, renamed \in May("rename"), reopened \in May("open")}

(* ... and of the file when flush() writes record by record, all in one    *)
(* second.                                                                 *)
AfterFlush(t, texts) ==
  LET stored[i \in 0 .. Len(texts)] ==
        IF i = 0 THEN {file[t]} ELSE AfterWrite(stored[i - 1], texts[i])
  IN  stored[Len(texts)]

(* An urgent text is pushed, and all of the ring is written. *)
SaveUrgent(w) ==
  LET t == pc[w].type
      pushed == Ring!Push(ring[t], TextOf(w))
      texts == Ring!Flushed(pushed)
  IN  /\ Accepting(w, "lazy") /\ ring[t].array /\ Urgent(pc[w].level)
      /\ ring' = [ring EXCEPT ![t] = Ring!Emptied(pushed)]
      /\ \E f \in AfterFlush(t, texts) : file' = [file EXCEPT ![t] = f]
      /\ written' = [written EXCEPT ![t] = @ \o texts]
      /\ Saved(t, TextOf(w))
      /\ flushed' = [flushed EXCEPT ![t] = Len(saved[t]) + 1]
      /\ Advance(w)
      /\ UNCHANGED <<asyn, second, thread, control, kept, quiet>>

(* A LazyLog without its array saves nothing. *)
SaveNowhere(w) ==
  /\ Accepting(w, "lazy") /\ ~ ring[pc[w].type].array
  /\ Advance(w)
  /\ UNCHANGED <<asyn, ring, file, second, thread, control, past>>

-----------------------------------------------------------------------------
(* The write thread.  s_asyn_log_obj_list holds the AsynLogs in the order  *)
(* stupid_log_init made them; while the thread lives it does not change.   *)
Asyn(t) == mode[t] = "asyn"
First == IF Asyn("run") THEN "run" ELSE "debug"

(* write_file: a pass, and one more after release_write_thread.            *)
WtPass ==
  /\ wt.at = "loop"
  /\ wt' = [at |-> "take", type |-> First, last |-> ~ running]
  /\ UNCHANGED <<asyn, ring, file, second, taken, records, running, control,
                 writers, past>>

(* try_write_file: asyn_log->m_data_pool >> record_list *)
WtTake ==
  LET t == wt.type
  IN  /\ wt.at = "take"
      /\ taken' = pool[t]
      /\ records' = Len(pool[t]) \div PerRecord
      /\ pool' = [pool EXCEPT ![t] = << >>]
      /\ wt' = [wt EXCEPT !.at = "write"]
      /\ UNCHANGED <<current, has, idle, ring, file, second, running, control,
                     writers, past>>

(* One record of the list is written. *)
WtWrite ==
  /\ wt.at = "write" /\ taken # << >>
  /\ WriteFile(wt.type, Front(taken, PerRecord))
  /\ taken' = Rest(taken, PerRecord)
  /\ UNCHANGED <<asyn, ring, second, wt, records, running, control, writers, saved,
                 flushed, kept, quiet>>

(* m_idle_pool << record_list *)
WtReturn ==
  /\ wt.at = "write" /\ taken = << >>
  /\ idle' = [idle EXCEPT ![wt.type] = @ + records]
  /\ records' = 0
  /\ wt' = [wt EXCEPT !.at = "current"]
  /\ UNCHANGED <<current, has, pool, ring, file, second, taken, running, control,
                 writers, past>>

\* Mutant of NoneWaiting: the current record overtakes those that wait.
NoneWaitingEver(t) == TRUE

(* 0 == asyn_log->m_data_pool.size() *)
NoneWaiting(t) == pool[t] = << >>

AfterLog ==
  IF wt.type = "run" /\ Asyn("debug") THEN [wt EXCEPT !.at = "take", !.type = "debug"]
  ELSE [at |-> IF wt.last THEN "end" ELSE "loop", type |-> "run", last |-> FALSE]

(* Under m_current_record_locker: the current record is written if no full *)
(* one waits.                                                              *)
WtCurrent ==
  LET t == wt.type
  IN  /\ wt.at = "current"
      /\ IF NoneWaiting(t) /\ has[t]
           THEN /\ WriteFile(t, current[t])
                /\ current' = [current EXCEPT ![t] = << >>]
           ELSE UNCHANGED <<file, written, current>>
      /\ wt' = AfterLog
      /\ UNCHANGED <<has, pool, idle, ring, second, taken, records, running,
                     control, writers, saved, flushed, kept, quiet>>

-----------------------------------------------------------------------------
(* The thread that owns the LogSwitch.  stupid_log_init makes the logs ... *)
Create(l) ==
  /\ owner = "off" /\ inits < config.inits
  /\ inits' = inits + 1
  /\ mode' = config.mode
  /\ minimum' = [t \in Type |-> l]
  /\ \E got \in [Type -> May("memory")] :
       /\ has' = [t \in Type |-> config.mode[t] = "asyn" /\ got[t]]
       /\ ring' = [t \in Type |-> Ring!NewRing(config.mode[t] = "lazy" /\ got[t])]
  /\ \E reopened \in [Type -> May("open")] :
       file' = [t \in Type |-> [file[t] EXCEPT !.open = reopened[t]]]
  /\ saved' = written
  /\ flushed' = [t \in Type |-> Len(written[t])]
  /\ owner' = "enable"
  /\ UNCHANGED <<config, current, pool, idle, second, thread, open, changes,
                 writers, written, kept, quiet>>

(* ... enables all of them ... *)
Enable ==
  /\ owner = "enable"
  /\ open' = [t \in Type |-> TRUE]
  /\ owner' = IF \E t \in Type : Asyn(t) THEN "thread" ELSE "on"
  /\ UNCHANGED <<asyn, ring, file, second, thread, config, mode, minimum, inits,
                 changes, writers, past>>

\* Mutant of Started: m_running is set when the thread already looks at it.
StartedLate == FALSE

(* UnixJoinThread::acquire: m_running is set before the thread begins. *)
Started == TRUE

(* ... and starts the write thread if there is an AsynLog; without it init *)
(* fails and the LogSwitch will not call stupid_log_exit.                  *)
AcquireThread ==
  /\ owner = "thread"
  /\ \E created \in May("thread") :
       /\ running' = (created /\ Started)
       /\ wt' = IF created THEN [wt EXCEPT !.at = "loop"] ELSE wt
       /\ owner' = IF created THEN "on" ELSE "failed"
  /\ UNCHANGED <<asyn, ring, file, second, taken, records, config, mode, open, minimum,
                 inits, changes, writers, past>>

(* stupid_log_enable, stupid_log_disable, stupid_log_set_level *)
Switch(t) ==
  /\ owner = "on" /\ changes < config.changes
  /\ changes' = changes + 1
  /\ open' = [open EXCEPT ![t] = ~ @]
  /\ UNCHANGED <<asyn, ring, file, second, thread, config, mode, minimum, owner,
                 inits, writers, past>>

SetLevel(t, l) ==
  /\ owner = "on" /\ changes < config.changes /\ minimum[t] # l
  /\ changes' = changes + 1
  /\ minimum' = [minimum EXCEPT ![t] = l]
  /\ UNCHANGED <<asyn, ring, file, second, thread, config, mode, open, owner,
                 inits, writers, past>>

(* UnixJoinThread::release *)
Stopped == FALSE

(* stupid_log_exit disables all ... *)
DisableAll ==
  /\ owner = "on"
  /\ open' = [t \in Type |-> FALSE]
  /\ kept' = [t \in Type |-> Len(saved[t])]
  /\ quiet' = \A w \in Writer : pc[w].at # "save"
  /\ owner' = IF \E t \in Type : Asyn(t) THEN "release" ELSE "delete"
  /\ UNCHANGED <<asyn, ring, file, second, thread, config, mode, minimum, inits,
                 changes, writers, saved, written, flushed>>

(* ... stops the write thread ... *)
ReleaseThread ==
  /\ owner = "release"
  /\ running' = Stopped
  /\ owner' = "join"
  /\ UNCHANGED <<asyn, ring, file, second, wt, taken, records, config, mode, open, minimum,
                 inits, changes, writers, past>>

\* Mutant of Joined: exit does not wait for the write thread.
JoinedEarly == wt.at \in {"loop", "end"}

(* pthread_join *)
Joined == wt.at = "end"
JoinThread ==
  /\ owner = "join" /\ Joined
  /\ wt' = [wt EXCEPT !.at = "off"]
  /\ owner' = "delete"
  /\ UNCHANGED <<asyn, ring, file, second, taken, records, running, config, mode, open,
                 minimum, inits, changes, writers, past>>

(* ... and deletes the logs with the records they hold. *)
Delete ==
  /\ owner = "delete"
  /\ mode' = [t \in Type |-> "none"]
  /\ has' = [t \in Type |-> FALSE]
  /\ current' = [t \in Type |-> << >>] /\ pool' = [t \in Type |-> << >>]
  /\ idle' = [t \in Type |-> 0]
  /\ ring' = [t \in Type |-> Ring!NewRing(FALSE)]
  /\ owner' = "off"
  /\ UNCHANGED <<file, second, thread, config, open, minimum, inits, changes,
                 writers, past>>

-----------------------------------------------------------------------------
WriterStep(w) ==
  \/ Check(w) \/ Discard(w)
  \/ SaveSync(w) \/ SaveAppend(w) \/ SaveRecord(w)
  \/ SaveLazy(w) \/ SaveUrgent(w) \/ SaveNowhere(w)

WriteThread == WtPass \/ WtTake \/ WtWrite \/ WtReturn \/ WtCurrent

InitLog == Enable \/ AcquireThread
ExitLog == ReleaseThread \/ JoinThread \/ Delete

Next ==
  \/ \E w \in Writer, t \in Type, l \in Level : Call(w, t, l)
  \/ \E w \in Writer : WriterStep(w)
  \/ WriteThread
  \/ \E l \in config.levels : Create(l)
  \/ InitLog
  \/ \E t \in Type : Switch(t)
  \/ \E t \in Type, l \in config.levels : SetLevel(t, l)
  \/ DisableAll
  \/ ExitLog
  \/ Tick

Spec == Init /\ [][Next]_vars

(* Threads run: the write thread, a writer inside a call, and the owner    *)
(* inside init or exit.  Nobody has to log, to exit, or to let time pass.  *)
Fairness ==
  /\ \A w \in Writer : WF_vars(WriterStep(w))
  /\ WF_vars(WriteThread)
  /\ WF_vars(InitLog) /\ WF_vars(ExitLog)

FairSpec == Spec /\ Fairness

-----------------------------------------------------------------------------
TakenOf(t) == IF wt.type = t THEN taken ELSE << >>

(* A record never holds more than it has room for, and what waits in the   *)
(* data pool are full records, whatever was written in between             *)
(* (AsynLog::save_record, lines 75-88).                                    *)
RecordsFit ==
  \A t \in Type :
    /\ Len(current[t]) <= PerRecord
    /\ Len(pool[t]) % PerRecord = 0 /\ Len(TakenOf(t)) % PerRecord = 0

(* Type correctness, and no record of an AsynLog overflows. *)
TypeOK ==
  /\ RecordsFit
  /\ config \in Configs
  /\ mode \in [Type -> Mode \cup {"none"}]
  /\ open \in [Type -> BOOLEAN] /\ minimum \in [Type -> Level]
  /\ current \in [Type -> Seq(Text)] /\ pool \in [Type -> Seq(Text)]
  /\ has \in [Type -> BOOLEAN] /\ idle \in [Type -> Nat]
  /\ wt \in [at : {"off", "loop", "take", "write", "current", "end"},
             type : Type, last : BOOLEAN]
  /\ taken \in Seq(Text) /\ records \in Nat /\ running \in BOOLEAN
  /\ owner \in {"off", "enable", "thread", "failed", "on", "release", "join", "delete"}
  /\ pc \in [Writer -> [at : {"idle", "check", "save"}, type : Type,
                        n : 0 .. MaxTexts, level : Level]]
  /\ calls \in 0 .. MaxTexts
  /\ \A w \in Writer : pc[w].at # "idle" => pc[w].n > 0
  /\ saved \in [Type -> Seq(Text)] /\ written \in [Type -> Seq(Text)]
  /\ flushed \in [Type -> Nat] /\ kept \in [Type -> Nat] /\ quiet \in BOOLEAN

(* An AsynLog neither loses, doubles nor reorders text: what was written,  *)
(* the records in the hands of the write thread, those of the data pool    *)
(* and the current record are, end to end, what was saved                  *)
(* (AsynLog::save_record against try_write_file).                          *)
AsynInOrder ==
  \A t \in Type : Asyn(t) =>
    saved[t] = written[t] \o TakenOf(t) \o pool[t] \o current[t]

(* When stupid_log_exit deletes an AsynLog, every text saved before the    *)
(* exit began has been written, unless a call was past its look at         *)
(* s_log_type_open then: its text may move the current record into the     *)
(* data pool behind the last pass, and that one record is lost (write_file *)
(* and lines 165-180 of asyn_log.cpp).                                     *)
ExitWrites ==
  \A t \in Type : Asyn(t) /\ owner = "delete" =>
    Len(written[t]) >= IF quiet THEN kept[t] ELSE kept[t] - PerRecord

(* A LazyLog holds what was saved since its last flush, in order, up to    *)
(* its capacity.  Beyond it, every text takes the one slot at m_begin, so  *)
(* a flush writes the newest first, then the second to the Reserve-th text *)
(* saved since the last flush; those in between are lost.                  *)
LazyHolds ==
  \A t \in Type : mode[t] = "lazy" /\ ring[t].array =>
    LET since == Rest(saved[t], flushed[t])
        held == Ring!Flushed(ring[t])
    IN  held = IF Len(since) <= Reserve THEN since
               ELSE <<since[Len(since)]>> \o SubSeq(since, 2, Reserve)

Archive(old, s) == IF s \in DOMAIN old THEN old[s] ELSE << >>

Archives(old) ==
  LET upto[s \in -1 .. MaxSecond] ==
        IF s = -1 THEN << >> ELSE upto[s - 1] \o Archive(old, s)
  IN  upto[MaxSecond]

(* The archives by time, then the current file, hold all that was written, *)
(* in order, if no file was closed at a write, no rename failed and no two *)
(* rotations fell into one second (LogBase::write).                        *)
FilesComplete ==
  \A t \in Type :
    file[t].missed = 0 /\ file[t].rotations = Cardinality(DOMAIN file[t].old)
      => Archives(file[t].old) \o file[t].cur = written[t]

(* An AsynLog catches up: while the log is in use, a time comes when all   *)
(* that was saved is written, if the write thread could be created         *)
(* (try_write_file leaves the current record when full ones wait again).   *)
AsynWritten ==
  \A t \in Type :
    (Asyn(t) /\ owner = "on") ~> (written[t] = saved[t] \/ owner = "off")

=============================================================================
