------------------------------- MODULE MCLog -------------------------------
(***************************************************************************)
(* Configurations of the logs for TLC.                                     *)
(***************************************************************************)
EXTENDS Log

Of(run, debug) == [t \in Type |-> IF t = "run" THEN run ELSE debug]

(* One busy AsynLog; two AsynLogs that are begun twice and may lack        *)
(* memory, the thread or the archive; a SyncLog and a LazyLog under every  *)
(* text; a LazyLog whose level changes, the last two with files that may   *)
(* not open again; a SyncLog with texts for two archives of two seconds.   *)
MCConfigs ==
  { [mode |-> Of("sync", "asyn"), calls |-> {<<"debug", 3>>},
     levels |-> {3}, fails |-> {}, texts |-> 5, inits |-> 1, changes |-> 0,
     seconds |-> 0],
    [mode |-> Of("asyn", "asyn"), calls |-> {<<"debug", 3>>},
     levels |-> {3}, fails |-> {"memory", "thread", "rename"}, texts |-> 2,
     inits |-> 2, changes |-> 0, seconds |-> 1],
    [mode |-> Of("sync", "lazy"), calls |-> {<<"run", 1>>},
     levels |-> {3}, fails |-> {"open"}, texts |-> 3, inits |-> 1, changes |-> 0,
     seconds |-> 1],
    [mode |-> Of("sync", "lazy"), calls |-> {<<"debug", 1>>, <<"debug", 3>>},
     levels |-> {0, 3}, fails |-> {"memory", "open"}, texts |-> 3, inits |-> 1,
     changes |-> 1, seconds |-> 0],
    [mode |-> Of("lazy", "sync"), calls |-> {<<"debug", 1>>},
     levels |-> {3}, fails |-> {}, texts |-> 5, inits |-> 1, changes |-> 0,
     seconds |-> 1] }

=============================================================================
