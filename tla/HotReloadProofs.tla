--------------------------- MODULE HotReloadProofs ---------------------------
(***************************************************************************)
(* Two instances of the application are never live together, for any       *)
(* number of edits of the configuration file.                              *)
(*                                                                         *)
(* OneInstance is not inductive: cmd.Run uses the context it finds in the  *)
(* global ctx, so it has to be known that whoever is about to call it is   *)
(* alone and that the context it will find is unused.  OneStart says so;   *)
(* Numbered relates contexts to modification times, because the goroutine  *)
(* of a reload is numbered by the context it was started with.             *)
(***************************************************************************)
EXTENDS HotReload, FiniteSetTheorems, TLAPS

Times == 0..MaxEdits

(* The values of the variables. *)
Typed ==
    /\ up \in BOOLEAN
    /\ file \in Times /\ broken \subseteq Times
    /\ ctx \in Starters /\ cancelled \subseteq Starters
    /\ running \subseteq [starter : Starters, ctx : Starters, file : Times]
    /\ starter \in [Starters -> {"none", "run", "tune", "wait", "done"}]
    /\ tuner \in Starters \cup {None} /\ tuners \subseteq Starters
    /\ reload \in {"stat", "select", "stop", "cancel", "sleep", "start", "done"}
    /\ modTime \in Times /\ lastModTime \in Times
    /\ shutdown \in {"wait", "stop", "join"}
    /\ signals \in 0..2
    /\ missed \in Times \cup {None}

(* A reload makes one context and takes one modification time, newer than  *)
(* the last, so there are never more contexts than edits.                  *)
Numbered ==
    /\ modTime <= file
    /\ reload = "stat" => ctx = 0
    /\ reload \in {"select", "done"} => ctx <= lastModTime /\ lastModTime <= file
    /\ reload \in {"stop", "cancel", "sleep"} => ctx <= lastModTime /\ lastModTime < modTime
    /\ reload = "start" => ctx <= modTime

(* Every context but the current one is cancelled, the current one too     *)
(* once a reload sleeps; instances have contexts made so far.              *)
Replaced ==
    /\ \A c \in Starters : c < ctx => c \in cancelled
    /\ reload = "sleep" => ctx \in cancelled
    /\ \A r \in running : r.ctx <= ctx

(* The goroutine that is about to call cmd.Run is that of the current      *)
(* context, which no instance has yet; one instance has it afterwards.     *)
OneStart ==
    /\ \A i \in Starters : starter[i] = "run" => i = ctx /\ reload # "start"
    /\ (reload = "start" \/ \E i \in Starters : starter[i] = "run")
         => \A r \in running : r.ctx # ctx
    /\ \A r, s \in running : r.ctx = ctx /\ s.ctx = ctx => r = s

Single == Typed /\ Numbered /\ Replaced /\ OneStart

-----------------------------------------------------------------------------
(* A fresh process satisfies the invariant, at the first start of main.go  *)
(* and at every start by the service manager.                              *)
LEMMA InitSingle == Init => Single
<1> SUFFICES ASSUME Init PROVE Single
    OBVIOUS
<1>1. 0 \in Starters /\ 0 \in Times /\ MaxEdits \in Nat
    BY HotReloadAssumption DEF Starters, Times
<1>2. Typed
    BY <1>1 DEF Init, Typed
<1>3. Numbered
    BY <1>1 DEF Init, Numbered
<1>4. Replaced
    BY <1>1 DEF Init, Replaced, Starters
<1>5. OneStart
    BY <1>1 DEF Init, OneStart
<1> QED
    BY <1>2, <1>3, <1>4, <1>5 DEF Single

(* The service manager starts the process again. *)
LEMMA StartedSingle == Single /\ ServiceStarts => Single'
<1> SUFFICES ASSUME Single, ServiceStarts PROVE Single'
    OBVIOUS
<1>1. 0 \in Starters /\ 0 \in Times /\ MaxEdits \in Nat /\ Typed
    BY HotReloadAssumption DEF Starters, Times, Single
<1>2. Typed'
    BY <1>1 DEF ServiceStarts, Started, fileVars, Typed
<1>3. Numbered'
    BY <1>1 DEF ServiceStarts, Started, fileVars, Numbered, Typed, Times
<1>4. Replaced'
    BY <1>1 DEF ServiceStarts, Started, Replaced, Starters
<1>5. OneStart'
    BY <1>1 DEF ServiceStarts, Started, OneStart
<1> QED
    BY <1>2, <1>3, <1>4, <1>5 DEF Single

(* The end of the process changes nothing but up. *)
LEMMA ExitSingle == Single /\ Exit => Single'
BY DEF Exit, fileVars, ctxVars, tunerVars, reloadVars, Single, Typed, Numbered, Replaced, OneStart

(* cmd.Run, the tuner it starts and the end of a starter. *)
LEMMA StarterSingle ==
    ASSUME Single, NEW i \in Starters, StarterStep(i)
    PROVE  Single'
<1>1. Typed /\ Numbered /\ Replaced /\ OneStart /\ MaxEdits \in Nat
    BY HotReloadAssumption DEF Single
<1>2. CASE Run(i)
    <2>1. CASE Exit
        BY <2>1, ExitSingle
    <2>2. CASE ~Exit
        <3> DEFINE n == [starter |-> i, ctx |-> ctx, file |-> file]
        <3>1. /\ running' = running \cup {n}
              /\ starter' = [starter EXCEPT ![i] = IF AutoTune THEN "tune" ELSE "wait"]
              /\ starter[i] = "run"
              /\ UNCHANGED <<up, file, broken, ctx, cancelled, tuner, tuners, reload, modTime,
                             lastModTime, shutdown, signals, missed>>
            BY <1>2, <2>2 DEF Run, fileVars, ctxVars, tunerVars, reloadVars
        <3>2. n \in [starter : Starters, ctx : Starters, file : Times] /\ n.ctx = ctx
            BY <1>1 DEF Typed
        <3>3. Typed'
            BY <1>1, <3>1, <3>2 DEF Typed
        <3>4. Numbered'
            BY <1>1, <3>1 DEF Numbered
        <3>5. Replaced'
            BY <1>1, <3>1, <3>2 DEF Replaced, Typed, Starters
        <3>6. /\ i = ctx /\ reload # "start" /\ \A r \in running : r.ctx # ctx
              /\ \A j \in Starters : j # i => starter[j] # "run"
            BY <1>1, <3>1 DEF OneStart
        <3>7. \A j \in Starters : starter'[j] # "run"
            BY <1>1, <3>1, <3>6 DEF Typed
        <3>8. OneStart'
            BY <3>1, <3>2, <3>6, <3>7 DEF OneStart
        <3> QED
            BY <3>3, <3>4, <3>5, <3>8 DEF Single
    <2> QED
        BY <2>1, <2>2
<1>3. CASE StartTuner(i) \/ StarterEnds(i)
    <2>1. /\ UNCHANGED <<up, file, broken, ctx, cancelled, running, reload, modTime,
                         lastModTime, shutdown, signals, missed>>
          /\ starter' \in [Starters -> {"none", "run", "tune", "wait", "done"}]
          /\ \A j \in Starters : starter'[j] = "run" => starter[j] = "run"
          /\ tuner' \in Starters \cup {None} /\ tuners' \subseteq Starters
        BY <1>1, <1>3 DEF StartTuner, StarterEnds, fileVars, ctxVars, tunerVars, reloadVars, Typed
    <2>2. Typed' /\ Numbered' /\ Replaced'
        BY <1>1, <2>1 DEF Typed, Numbered, Replaced
    <2>3. OneStart'
        BY <1>1, <2>1 DEF OneStart
    <2> QED
        BY <2>2, <2>3 DEF Single
<1> QED
    BY <1>2, <1>3 DEF StarterStep

(* The steps of hotReload that touch neither ctx nor a starter. *)
LEMMA WatchSingle ==
    ASSUME Single,
           ReloadStat \/ ReloadEnds \/ ReloadSees \/ ReloadStopsTuner \/ ReloadCancels
    PROVE  Single'
<1>1. Typed /\ Numbered /\ Replaced /\ OneStart /\ MaxEdits \in Nat
    BY HotReloadAssumption DEF Single
<1>2. /\ UNCHANGED <<up, file, broken, ctx, running, starter, shutdown, signals>>
      /\ cancelled \subseteq cancelled' /\ cancelled' \subseteq Starters
      /\ reload # "start" /\ reload' # "start"
      /\ reload' = "sleep" => ctx \in cancelled'
    BY <1>1 DEF ReloadStat, ReloadEnds, ReloadSees, ReloadStopsTuner, ReloadCancels,
                fileVars, ctxVars, tunerVars, Typed
<1>3. Typed'
    BY <1>1, <1>2 DEF ReloadStat, ReloadEnds, ReloadSees, ReloadStopsTuner, ReloadCancels,
                      fileVars, ctxVars, tunerVars, Typed
<1>4. Numbered'
    BY <1>1 DEF ReloadStat, ReloadEnds, ReloadSees, ReloadStopsTuner, ReloadCancels,
                fileVars, ctxVars, tunerVars, Typed, Numbered, Times, Starters
<1>5. Replaced'
    BY <1>1, <1>2 DEF Replaced
<1>6. OneStart'
    BY <1>1, <1>2 DEF OneStart
<1> QED
    BY <1>3, <1>4, <1>5, <1>6 DEF Single

(* The new context is one nobody has an instance for. *)
LEMMA ContextSingle == Single /\ ReloadContext => Single'
<1> SUFFICES ASSUME Single, ReloadContext PROVE Single'
    OBVIOUS
<1>1. Typed /\ Numbered /\ Replaced /\ OneStart /\ MaxEdits \in Nat
    BY HotReloadAssumption DEF Single
<1>2. /\ reload = "sleep" /\ reload' = "start" /\ ctx' = ctx + 1
      /\ \A i \in Starters : starter[i] # "run"
      /\ UNCHANGED <<up, file, broken, cancelled, running, starter, tuner, tuners, modTime,
                     lastModTime, shutdown, signals, missed>>
    BY DEF ReloadContext, fileVars, tunerVars
<1>3. ctx + 1 <= modTime /\ ctx \in Nat /\ ctx + 1 \in Starters
    BY <1>1, <1>2 DEF Numbered, Typed, Times, Starters
<1>4. \A r \in running : r.ctx # ctx + 1 /\ r.ctx <= ctx + 1 /\ r.ctx \in Nat
    BY <1>1, <1>3 DEF Replaced, Typed, Starters
<1>5. Typed'
    BY <1>1, <1>2, <1>3 DEF Typed
<1>6. Numbered'
    BY <1>1, <1>2, <1>3 DEF Numbered
<1>7. Replaced'
    BY <1>1, <1>2, <1>3, <1>4 DEF Replaced, Starters
<1>8. OneStart'
    BY <1>2, <1>4 DEF OneStart
<1> QED
    BY <1>5, <1>6, <1>7, <1>8 DEF Single

(* The goroutine of the new context is started. *)
LEMMA StartsSingle == Single /\ ReloadStarts => Single'
<1> SUFFICES ASSUME Single, ReloadStarts PROVE Single'
    OBVIOUS
<1>1. Typed /\ Numbered /\ Replaced /\ OneStart /\ MaxEdits \in Nat
    BY HotReloadAssumption DEF Single
<1>2. /\ reload = "start" /\ reload' = "select" /\ lastModTime' = modTime
      /\ starter' = [starter EXCEPT ![ctx] = "run"]
      /\ UNCHANGED <<up, file, broken, ctx, cancelled, running, tuner, tuners, modTime,
                     shutdown, signals, missed>>
    BY DEF ReloadStarts, fileVars, ctxVars, tunerVars
<1>3. /\ \A r \in running : r.ctx # ctx
      /\ \A i \in Starters : starter[i] # "run"
    BY <1>1, <1>2 DEF OneStart
<1>4. Typed'
    BY <1>1, <1>2 DEF Typed
<1>5. Numbered'
    BY <1>1, <1>2 DEF Numbered
<1>6. Replaced'
    BY <1>1, <1>2 DEF Replaced
<1>7. OneStart'
    BY <1>1, <1>2, <1>3 DEF OneStart, Typed
<1> QED
    BY <1>4, <1>5, <1>6, <1>7 DEF Single

(* handleShutdown and forceShutdown. *)
LEMMA ShutdownSingle == Single /\ ShutdownStep => Single'
<1> SUFFICES ASSUME Single, ShutdownStep PROVE Single'
    OBVIOUS
<1>1. Typed /\ Numbered /\ Replaced /\ OneStart
    BY DEF Single
<1>2. CASE ShutdownBegins \/ ShutdownStopsTuner
    <2>1. /\ UNCHANGED <<up, file, broken, ctx, running, starter, tuner, reload, modTime,
                         lastModTime, signals, missed>>
          /\ cancelled \subseteq cancelled' /\ cancelled' \subseteq Starters
          /\ tuners' \subseteq Starters
          /\ shutdown' \in {"wait", "stop", "join"}
        BY <1>1, <1>2 DEF ShutdownBegins, ShutdownStopsTuner, fileVars, ctxVars, tunerVars,
                          reloadVars, Typed
    <2> QED
        BY <1>1, <2>1 DEF Single, Typed, Numbered, Replaced, OneStart
<1>3. CASE ForceShutdown \/ MainReturns
    BY <1>3, ExitSingle DEF ForceShutdown, MainReturns
<1> QED
    BY <1>2, <1>3 DEF ShutdownStep

(* A change of the file or a signal. *)
LEMMA EnvironmentSingle == Single /\ (Edit \/ Signal) => Single'
<1> SUFFICES ASSUME Single, Edit \/ Signal PROVE Single'
    OBVIOUS
<1>1. Typed /\ Numbered /\ Replaced /\ OneStart /\ MaxEdits \in Nat
    BY HotReloadAssumption DEF Single
<1>2. /\ UNCHANGED <<up, ctx, cancelled, running, starter, tuner, tuners, reload, modTime,
                     lastModTime, shutdown, missed>>
      /\ file' \in Times /\ file <= file' /\ broken' \subseteq Times /\ signals' \in 0..2
    <2>1. CASE Edit
        BY <1>1, <2>1 DEF Edit, ctxVars, tunerVars, reloadVars, Typed, Times
    <2>2. CASE Signal
        BY <1>1, <2>2 DEF Signal, fileVars, ctxVars, tunerVars, reloadVars, Typed, Times
    <2> QED
        BY <2>1, <2>2
<1>3. Typed' /\ Replaced' /\ OneStart'
    BY <1>1, <1>2 DEF Typed, Replaced, OneStart
<1>4. Numbered'
    BY <1>1, <1>2 DEF Numbered, Typed, Times, Starters
<1> QED
    BY <1>3, <1>4 DEF Single

-----------------------------------------------------------------------------
(* Of the instances whose context is not cancelled there is at most one. *)
LEMMA SingleLive == Single => OneInstance
<1> SUFFICES ASSUME Single PROVE Cardinality(Live) <= 1
    BY DEF OneInstance
<1>1. \A r, s \in Live : r = s
    BY HotReloadAssumption DEF Live, Single, Replaced, OneStart, Typed, Starters
<1>2. CASE Live = {}
    BY <1>2, FS_EmptySet
<1>3. CASE Live # {}
    <2>1. PICK r : Live = {r}
        BY <1>1, <1>3
    <2>2. Cardinality({r}) = 1
        BY FS_Singleton
    <2> QED
        BY <2>1, <2>2
<1> QED
    BY <1>2, <1>3

(* Every step of main, hotReload, the tuner and the shutdown keeps the     *)
(* invariant.                                                              *)
LEMMA SingleStep == Single /\ [Next]_vars => Single'
<1> SUFFICES ASSUME Single, [Next]_vars PROVE Single'
    OBVIOUS
<1>1. CASE UNCHANGED vars
    BY <1>1 DEF vars, fileVars, ctxVars, tunerVars, reloadVars, Single, Typed, Numbered,
                Replaced, OneStart
<1>2. CASE ReloadStep
    BY <1>2, WatchSingle, ContextSingle, StartsSingle DEF ReloadStep
<1>3. CASE ~ReloadStep /\ Next
    BY <1>3, EnvironmentSingle, StartedSingle, ShutdownSingle, StarterSingle DEF Next
<1> QED
    BY <1>1, <1>2, <1>3

(* The invariant of the process. *)
THEOREM SingleAlways == Spec => []Single
<1> QED
    BY InitSingle, SingleStep, PTL DEF Spec

(* "Gracefully stop previous instance (cancel context) and start a new     *)
(* one" in main.go: two instances are never live together, however many    *)
(* reloads, signals, broken files and restarts of the process interleave.  *)
THEOREM OneInstanceAlways == Spec => []OneInstance
<1> QED
    BY SingleAlways, SingleLive, PTL
=============================================================================
