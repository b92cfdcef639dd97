------------------------------ MODULE HotReload ------------------------------
(***************************************************************************)
(* The process of main.go: the application instance, its tuner, the        *)
(* goroutine that reloads the configuration and the one that shuts down.   *)
(*                                                                         *)
(* ctx, cancel and tuner are globals that all of them use; only tuner (and *)
(* one of the writes to ctx) is under mu.  A reload stops the tuner,       *)
(* cancels the context, sleeps three seconds, makes a new context and      *)
(* leaves the rest (cmd.Run, a new tuner) to a goroutine it does not wait  *)
(* for.                                                                    *)
(*                                                                         *)
(* An instance (server or client) ends when its context is cancelled.  A   *)
(* process that ends by itself is started again by the service manager.    *)
(* Time appears in two guards: two seconds (the ticker) are enough for     *)
(* main's goroutine, and three (the sleep) for that of the previous        *)
(* reload, to load the file and start its tuner.                           *)
(***************************************************************************)
EXTENDS Integers, FiniteSets

CONSTANTS
    AutoTune,    \* the process was started without --no-auto-tune
    MaxEdits     \* bound: changes of the configuration file

ASSUME HotReloadAssumption == AutoTune \in BOOLEAN /\ MaxEdits \in Nat

Starters == 0..MaxEdits     \* 0 is main's goroutine, the others are hotReload's
None == -1

VARIABLES
    up,         \* the process is running
    file,       \* modification time of the configuration file
    broken,     \* modification times at which it could not be parsed
    ctx,        \* number of the context in the global ctx
    cancelled,  \* contexts whose cancel was called
    running,    \* instances cmd.Run started: starter, context, file they read
    starter,    \* pc of the goroutines that call cmd.Run
    tuner,      \* the global tuner: the starter that made it, or None
    tuners,     \* tuners whose goroutine runs
    reload,     \* pc of hotReload
    modTime, lastModTime,     \* hotReload's locals
    shutdown,   \* pc of handleShutdown
    signals,    \* SIGINT, SIGTERM, SIGQUIT received (at most two matter)
    missed      \* history: a version first seen by hotReload's initial Stat

fileVars == <<file, broken>>
ctxVars == <<ctx, cancelled>>
tunerVars == <<tuner, tuners>>
reloadVars == <<reload, modTime, lastModTime>>
vars == <<up, fileVars, ctxVars, running, starter, tunerVars, reloadVars,
          shutdown, signals, missed>>

(* main has spawned its three goroutines. *)
Started ==
    /\ up' = TRUE
    /\ ctx' = 0 /\ cancelled' = {}
    /\ running' = {}
    /\ starter' = [i \in Starters |-> IF i = 0 THEN "run" ELSE "none"]
    /\ tuner' = None /\ tuners' = {}
    /\ reload' = "stat" /\ modTime' = 0 /\ lastModTime' = 0
    /\ shutdown' = "wait"

Init ==
    /\ up = TRUE
    /\ file = 0 /\ broken = {}
    /\ ctx = 0 /\ cancelled = {}
    /\ running = {}
    /\ starter = [i \in Starters |-> IF i = 0 THEN "run" ELSE "none"]
    /\ tuner = None /\ tuners = {}
    /\ reload = "stat" /\ modTime = 0 /\ lastModTime = 0
    /\ shutdown = "wait" /\ signals = 0 /\ missed = None

Exit == up' = FALSE /\ UNCHANGED <<fileVars, ctxVars, running, starter, tunerVars,
                                   reloadVars, shutdown, signals, missed>>

-----------------------------------------------------------------------------
(* The environment *)

(* A new version; one written in two steps is broken in between. *)
Edit ==
    /\ file < MaxEdits
    /\ file' = file + 1
    /\ broken' \in {broken, broken \cup {file + 1}}
    /\ UNCHANGED <<up, ctxVars, running, starter, tunerVars, reloadVars, shutdown, signals, missed>>

Signal ==
    /\ up /\ signals < 2
    /\ signals' = signals + 1
    /\ UNCHANGED <<up, fileVars, ctxVars, running, starter, tunerVars, reloadVars, shutdown, missed>>

(* The service manager (Restart=always, after three seconds) starts a      *)
(* process again that was not told to stop.                                *)
ServiceStarts ==
    /\ ~up /\ signals = 0
    /\ Started
    /\ UNCHANGED <<fileVars, signals, missed>>

-----------------------------------------------------------------------------
(* The goroutines that start an instance: cmd.Run reads the file and the   *)
(* context as they are now; a file it cannot parse ends the process.       *)
Run(i) ==
    /\ up /\ starter[i] = "run"
    /\ \/ file \in broken /\ Exit
       \/ /\ file \notin broken
          /\ running' = running \cup {[starter |-> i, ctx |-> ctx, file |-> file]}
          /\ starter' = [starter EXCEPT ![i] = IF AutoTune THEN "tune" ELSE "wait"]
          /\ UNCHANGED <<up, fileVars, ctxVars, tunerVars, reloadVars, shutdown, signals, missed>>

(* tuner = NewTuner(...); tuner.Start(), under mu. *)
StartTuner(i) ==
    /\ up /\ starter[i] = "tune"
    /\ starter' = [starter EXCEPT ![i] = "wait"]
    /\ tuner' = i /\ tuners' = tuners \cup {i}
    /\ UNCHANGED <<up, fileVars, ctxVars, running, reloadVars, shutdown, signals, missed>>

(* main's goroutine waits for its context, hotReload's does not. *)
StarterEnds(i) ==
    /\ up /\ starter[i] = "wait"
    /\ i = 0 => 0 \in cancelled
    /\ starter' = [starter EXCEPT ![i] = "done"]
    /\ UNCHANGED <<up, fileVars, ctxVars, running, tunerVars, reloadVars, shutdown, signals, missed>>

-----------------------------------------------------------------------------
(* hotReload *)

(* The version hotReload starts from is the one it finds, not the one      *)
(* cmd.Run read.                                                           *)
ReloadStat ==
    /\ up /\ reload = "stat"
    /\ reload' = "select"
    /\ modTime' = file /\ lastModTime' = file
    /\ missed' = IF \E r \in running : r.file < file THEN file ELSE missed
    /\ UNCHANGED <<up, fileVars, ctxVars, running, starter, tunerVars, shutdown, signals>>

ReloadEnds ==
    /\ up /\ reload = "select" /\ ctx \in cancelled
    /\ reload' = "done"
    /\ UNCHANGED <<up, fileVars, ctxVars, running, starter, tunerVars, modTime,
                   lastModTime, shutdown, signals, missed>>

(* Mutant: modification times are compared in too coarse a unit. *)
ReloadSeesLater ==
    /\ up /\ reload = "select" /\ file > lastModTime + 1
    /\ starter[0] \notin {"run", "tune"}
    /\ modTime' = file
    /\ reload' = "stop"
    /\ UNCHANGED <<up, fileVars, ctxVars, running, starter, tunerVars, lastModTime,
                   shutdown, signals, missed>>

(* A tick finds a newer file.  The first tick comes two seconds after the  *)
(* start; a tick that fell into the sleep of a reload is served at once.   *)
ReloadSees ==
    /\ up /\ reload = "select" /\ file > lastModTime
    /\ starter[0] \notin {"run", "tune"}
    /\ modTime' = file
    /\ reload' = "stop"
    /\ UNCHANGED <<up, fileVars, ctxVars, running, starter, tunerVars, lastModTime,
                   shutdown, signals, missed>>

(* tuner.Stop() waits for the tuner's goroutine; tuner = nil. *)
ReloadStopsTuner ==
    /\ up /\ reload = "stop"
    /\ reload' = "cancel"
    /\ tuners' = tuners \ {tuner} /\ tuner' = None
    /\ UNCHANGED <<up, fileVars, ctxVars, running, starter, modTime, lastModTime,
                   shutdown, signals, missed>>

(* Mutant: the old instance is not stopped. *)
ReloadCancelsNothing ==
    /\ up /\ reload = "cancel"
    /\ reload' = "sleep"
    /\ UNCHANGED <<up, fileVars, ctxVars, running, starter, tunerVars, modTime,
                   lastModTime, shutdown, signals, missed>>

ReloadCancels ==
    /\ up /\ reload = "cancel"
    /\ reload' = "sleep"
    /\ cancelled' = cancelled \cup {ctx}
    /\ UNCHANGED <<up, fileVars, ctx, running, starter, tunerVars, modTime,
                   lastModTime, shutdown, signals, missed>>

(* After the three seconds, a context nobody else knows of. *)
ReloadContext ==
    /\ up /\ reload = "sleep"
    /\ \A i \in Starters : starter[i] \notin {"run", "tune"}
    /\ reload' = "start"
    /\ ctx' = ctx + 1
    /\ UNCHANGED <<up, fileVars, cancelled, running, starter, tunerVars, modTime,
                   lastModTime, shutdown, signals, missed>>

(* Each reload made one context, so its number also numbers the goroutine. *)
ReloadStarts ==
    /\ up /\ reload = "start"
    /\ reload' = "select"
    /\ starter' = [starter EXCEPT ![ctx] = "run"]
    /\ lastModTime' = modTime
    /\ UNCHANGED <<up, fileVars, ctxVars, running, tunerVars, modTime, shutdown, signals, missed>>

-----------------------------------------------------------------------------
(* handleShutdown and forceShutdown *)

ShutdownBegins ==
    /\ up /\ shutdown = "wait" /\ signals > 0
    /\ shutdown' = "stop"
    /\ cancelled' = cancelled \cup {ctx}
    /\ UNCHANGED <<up, fileVars, ctx, running, starter, tunerVars, reloadVars, signals, missed>>

ShutdownStopsTuner ==
    /\ up /\ shutdown = "stop"
    /\ shutdown' = "join"
    /\ tuners' = tuners \ {tuner}
    /\ UNCHANGED <<up, fileVars, ctxVars, running, starter, tuner, reloadVars, signals, missed>>

(* Mutant: only a second signal forces. *)
ForceShutdownOnSignal == up /\ shutdown # "wait" /\ signals = 2 /\ Exit

(* A second signal, or five seconds after the first: os.Exit(1). *)
ForceShutdown == up /\ shutdown # "wait" /\ Exit

(* wg.Wait() in main returns once hotReload and every starter are done. *)
MainReturns ==
    /\ up /\ reload = "done"
    /\ \A i \in Starters : starter[i] \in {"none", "done"}
    /\ Exit

-----------------------------------------------------------------------------
StarterStep(i) == Run(i) \/ StartTuner(i) \/ StarterEnds(i)
ReloadStep == \/ ReloadStat \/ ReloadEnds \/ ReloadSees \/ ReloadStopsTuner \/ ReloadCancels
              \/ ReloadContext \/ ReloadStarts
ShutdownStep == ShutdownBegins \/ ShutdownStopsTuner \/ ForceShutdown \/ MainReturns

Next == \/ Edit \/ Signal \/ ServiceStarts \/ ReloadStep \/ ShutdownStep
        \/ \E i \in Starters : StarterStep(i)

(* Goroutines run; the ticker, the five second timer and the service       *)
(* manager's timer fire.                                                   *)
Fairness == /\ WF_vars(ServiceStarts) /\ WF_vars(ReloadStep) /\ WF_vars(ShutdownStep)
            /\ \A i \in Starters : WF_vars(StarterStep(i))

Spec == Init /\ [][Next]_vars
FairSpec == Spec /\ Fairness

-----------------------------------------------------------------------------
Live == {r \in running : r.ctx \notin cancelled}

(* "Gracefully stop previous instance (cancel context) and start a new     *)
(* one": two instances are never live together, whatever reloads and       *)
(* signals interleave; they would fight for the same ports.                *)
OneInstance == Cardinality(Live) <= 1

(* A shutdown request ends the process, also one that a reload overlaps. *)
Exits == signals > 0 ~> ~up

(* Unless told to stop, the process ends up running the last version of    *)
(* the file if that can be parsed at all: also when it was changed again   *)
(* while a reload was under way, and when the process read it half-written *)
(* and died of it, once or several times.  The exception is an edit between *)
(* the load of a fresh process and hotReload's first look at the file.     *)
Converges ==
    <>[](signals = 0 /\ file \notin broken /\ missed # file
            => up /\ \E r \in Live : r.file = file)

(* "Stops current Tuner if enabled ... Restarts Tuner (if enabled) with    *)
(* updated config": there is one tuner at a time.                          *)
OneTuner == Cardinality(tuners) <= 1
=============================================================================
