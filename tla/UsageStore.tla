----------------------------- MODULE UsageStore -----------------------------
(***************************************************************************)
(* The usage monitor: bytes per port, from the relays to the log file.     *)
(*                                                                         *)
(* Relays add to a map in memory.  Every fifteen seconds Monitor's ticker  *)
(* starts a saveUsageData goroutine, whether or not the last one is done:  *)
(* it reads the file, takes everything out of the map, adds the two up and *)
(* writes the file, which is truncated first.  The web panel reads the     *)
(* file and creates it when there is none.                                 *)
(*                                                                         *)
(* A restart of the transport makes a new Usage; relays of the old run go  *)
(* on adding to theirs.  On the server the old ticker ends and the new     *)
(* Usage is monitored; on the client it is the other way round.            *)
(***************************************************************************)
EXTENDS Integers, FiniteSets

CONSTANTS
    UsPorts,
    UsSavers,     \* bound: saveUsageData goroutines at one time
    UsInstances,  \* bound: Usage values made one after the other
    UsMaxBytes    \* bound: units of traffic

ASSUME UsageStoreAssumption ==
    /\ IsFiniteSet(UsSavers)
    /\ UsInstances \in Nat \ {0} /\ UsMaxBytes \in Nat

VARIABLES
    usSide,     \* which side of the tunnel this is
    usMem,      \* Usage value -> dataStore
    usCurrent,  \* the Usage value of the running transport
    usSaver,    \* saveUsageData goroutines: pc, Usage value, file read, data taken
    usFile,     \* the log file: missing, empty, ok or partial, and its usage
    usPanel,    \* getUsageFromFile: idle, or about to create or fill the file
    usAdded,    \* history: units added, by port
    usExcused   \* history: savers overlapped, a write failed, the process
                \* ended, or the panel created the file while it was saved

usVars == <<usSide, usMem, usCurrent, usSaver, usFile, usPanel, usAdded, usExcused>>

UsZero == [p \in UsPorts |-> 0]
UsSum(a, b) == [p \in UsPorts |-> a[p] + b[p]]
UsOff == [pc |-> "off", from |-> 1, seen |-> UsZero, took |-> UsZero]
UsFileOf(state, usage) == [state |-> state, usage |-> usage]
UsBusy(s) == usSaver[s].pc # "off"

UsInit ==
    /\ usSide \in {"server", "client"}
    /\ usMem = [i \in 1..UsInstances |-> UsZero]
    /\ usCurrent = 1
    /\ usSaver = [s \in UsSavers |-> UsOff]
    /\ usFile = UsFileOf("missing", UsZero)
    /\ usPanel = "idle"
    /\ usAdded = UsZero
    /\ usExcused = FALSE

-----------------------------------------------------------------------------
(* AddOrUpdatePort, under mu, by a relay of the current run or an older one. *)
UsAdd(i, p) ==
    /\ i <= usCurrent /\ \A q \in UsPorts : usAdded[q] < UsMaxBytes
    /\ usMem' = [usMem EXCEPT ![i][p] = @ + 1]
    /\ usAdded' = [usAdded EXCEPT ![p] = @ + 1]
    /\ UNCHANGED <<usSide, usCurrent, usSaver, usFile, usPanel, usExcused>>

(* The Usage value whose ticker runs: Start of the server's transport      *)
(* starts Monitor, that of the client's transports leaves it to the one    *)
(* the client began with.                                                  *)
UsMonitored(i) == i = (IF usSide = "server" THEN usCurrent ELSE 1)

UsTick(s, i) ==
    /\ UsMonitored(i) /\ ~UsBusy(s)
    /\ usSaver' = [usSaver EXCEPT ![s] = [UsOff EXCEPT !.pc = "read", !.from = i]]
    /\ usExcused' = (usExcused \/ \E r \in UsSavers : UsBusy(r))
    /\ UNCHANGED <<usSide, usMem, usCurrent, usFile, usPanel, usAdded>>

(* Step 1.  A file that cannot be opened ends the goroutine; one that      *)
(* cannot be decoded is cleaned up.                                        *)
UsRead(s) ==
    /\ usSaver[s].pc = "read"
    /\ \/ /\ usFile.state # "partial"
          /\ usSaver' = [usSaver EXCEPT ![s].pc = "collect", ![s].seen = usFile.usage]
       \/ /\ usFile.state = "partial"
          /\ usSaver' = [usSaver EXCEPT ![s].pc = "remove"]
       \/ /\ usFile.state # "missing"
          /\ usSaver' = [usSaver EXCEPT ![s] = UsOff]
    /\ UNCHANGED <<usSide, usMem, usCurrent, usFile, usPanel, usAdded, usExcused>>

(* cleanupCorruptedFile: a step that fails leaves the rest out, and the    *)
(* saver goes on with an empty list.                                       *)
UsCleanupFails(s) ==
    /\ usSaver[s].pc \in {"remove", "create", "fill"}
    /\ usSaver' = [usSaver EXCEPT ![s].pc = "collect"]
    /\ UNCHANGED <<usSide, usMem, usCurrent, usFile, usPanel, usAdded, usExcused>>

(* Whoever has the removed file open writes it in vain: a saver is done,   *)
(* another cleanup goes on, the panel is idle again.                       *)
UsCleanupRemoves(s) ==
    /\ usSaver[s].pc = "remove" /\ usFile.state # "missing"
    /\ usFile' = UsFileOf("missing", UsZero)
    /\ usSaver' = [r \in UsSavers |-> CASE r = s -> [usSaver[r] EXCEPT !.pc = "create"]
                                        [] usSaver[r].pc = "write" -> UsOff
                                        [] usSaver[r].pc = "fill" ->
                                             [usSaver[r] EXCEPT !.pc = "collect"]
                                        [] OTHER -> usSaver[r]]
    /\ usPanel' = IF usPanel = "fill" THEN "idle" ELSE usPanel
    /\ UNCHANGED <<usSide, usMem, usCurrent, usAdded, usExcused>>

UsCleanupCreates(s) ==
    /\ usSaver[s].pc = "create"
    /\ usFile' = UsFileOf("empty", UsZero)
    /\ usSaver' = [usSaver EXCEPT ![s].pc = "fill"]
    /\ UNCHANGED <<usSide, usMem, usCurrent, usPanel, usAdded, usExcused>>

(* "[]" comes first in the file, and a decoder reads no further. *)
UsCleanupFills(s) ==
    /\ usSaver[s].pc = "fill"
    /\ usFile' = UsFileOf("ok", UsZero)
    /\ usSaver' = [usSaver EXCEPT ![s].pc = "collect"]
    /\ UNCHANGED <<usSide, usMem, usCurrent, usPanel, usAdded, usExcused>>

(* Mutant: the map is read and not emptied. *)
UsCollectCopies(s) ==
    /\ usSaver[s].pc = "collect"
    /\ usSaver' = [usSaver EXCEPT ![s].pc = "truncate", ![s].took = usMem[usSaver[s].from]]
    /\ UNCHANGED <<usSide, usMem, usCurrent, usFile, usPanel, usAdded, usExcused>>

(* Step 2: collectUsageDataFromSyncMap, under mu. *)
UsCollect(s) ==
    /\ usSaver[s].pc = "collect"
    /\ usSaver' = [usSaver EXCEPT ![s].pc = "truncate", ![s].took = usMem[usSaver[s].from]]
    /\ usMem' = [usMem EXCEPT ![usSaver[s].from] = UsZero]
    /\ UNCHANGED <<usSide, usCurrent, usFile, usPanel, usAdded, usExcused>>

(* Mutant: what is in memory replaces what the file had for a port. *)
UsMergeReplaces(seen, took) == [p \in UsPorts |-> IF took[p] > 0 THEN took[p] ELSE seen[p]]
(* Steps 3 and 4. *)
UsMerge(seen, took) == [p \in UsPorts |-> seen[p] + took[p]]

(* Step 6, os.WriteFile: the file is opened and truncated, or cannot be. *)
UsTruncate(s) ==
    /\ usSaver[s].pc = "truncate"
    /\ \/ /\ usFile' = UsFileOf("empty", UsZero)
          /\ usSaver' = [usSaver EXCEPT ![s].pc = "write"]
          /\ UNCHANGED usExcused
       \/ /\ usSaver' = [usSaver EXCEPT ![s] = UsOff]
          /\ usExcused' = TRUE
          /\ UNCHANGED usFile
    /\ UNCHANGED <<usSide, usMem, usCurrent, usPanel, usAdded>>

UsWrite(s) ==
    /\ usSaver[s].pc = "write"
    /\ \/ /\ usFile' = UsFileOf("ok", UsMerge(usSaver[s].seen, usSaver[s].took))
          /\ UNCHANGED usExcused
       \/ /\ usFile' = UsFileOf("partial", UsZero)
          /\ usExcused' = TRUE
    /\ usSaver' = [usSaver EXCEPT ![s] = UsOff]
    /\ UNCHANGED <<usSide, usMem, usCurrent, usPanel, usAdded>>

-----------------------------------------------------------------------------
(* getUsageFromFile: there is no file, so it is opened with O_CREATE and   *)
(* O_TRUNC, whatever is there by then, and "[]" is written.  A step that   *)
(* fails ends the request.                                                 *)
UsPanelLooks ==
    /\ usPanel = "idle" /\ usFile.state = "missing"
    /\ usPanel' = "create"
    /\ UNCHANGED <<usSide, usMem, usCurrent, usSaver, usFile, usAdded, usExcused>>

UsPanelCreates ==
    /\ usPanel = "create"
    /\ usFile' = UsFileOf("empty", UsZero)
    /\ usPanel' = "fill"
    /\ usExcused' = (usExcused \/ usFile.state # "missing" \/ \E s \in UsSavers : UsBusy(s))
    /\ UNCHANGED <<usSide, usMem, usCurrent, usSaver, usAdded>>

UsPanelFills ==
    /\ usPanel = "fill"
    /\ usFile' = UsFileOf("ok", UsZero)
    /\ usPanel' = "idle"
    /\ usExcused' = (usExcused \/ usFile.state # "empty" \/ \E s \in UsSavers : UsBusy(s))
    /\ UNCHANGED <<usSide, usMem, usCurrent, usSaver, usAdded>>

UsPanelFails ==
    /\ usPanel \in {"create", "fill"}
    /\ usPanel' = "idle"
    /\ UNCHANGED <<usSide, usMem, usCurrent, usSaver, usFile, usAdded, usExcused>>

(* Restart of the transport: a new Usage.  Savers under way go on. *)
UsRestart ==
    /\ usCurrent < UsInstances
    /\ usCurrent' = usCurrent + 1
    /\ UNCHANGED <<usSide, usMem, usSaver, usFile, usPanel, usAdded, usExcused>>

(* The process ends and is started again. *)
UsCrash ==
    /\ usMem' = [i \in 1..UsInstances |-> UsZero]
    /\ usCurrent' = 1
    /\ usSaver' = [s \in UsSavers |-> UsOff]
    /\ usPanel' = "idle"
    /\ usExcused' = TRUE
    /\ UNCHANGED <<usSide, usFile, usAdded>>

UsSaverStep(s) == \/ \E i \in 1..UsInstances : UsTick(s, i)
                  \/ UsRead(s) \/ UsCleanupFails(s) \/ UsCleanupRemoves(s)
                  \/ UsCleanupCreates(s) \/ UsCleanupFills(s) \/ UsCollect(s) \/ UsTruncate(s) \/ UsWrite(s)
UsNext == \/ \E i \in 1..UsInstances, p \in UsPorts : UsAdd(i, p)
          \/ \E s \in UsSavers : UsSaverStep(s)
          \/ UsPanelLooks \/ UsPanelCreates \/ UsPanelFills \/ UsPanelFails \/ UsRestart \/ UsCrash

UsSpec == UsInit /\ [][UsNext]_usVars

-----------------------------------------------------------------------------
UsUsage == [UsPorts -> Nat]

UsTypeOK ==
    /\ usSide \in {"server", "client"}
    /\ usMem \in [1..UsInstances -> UsUsage]
    /\ usCurrent \in 1..UsInstances
    /\ usSaver \in [UsSavers -> [pc : {"off", "read", "remove", "create", "fill",
                                       "collect", "truncate", "write"},
                                 from : 1..UsInstances, seen : UsUsage, took : UsUsage]]
    /\ usFile \in [state : {"missing", "empty", "ok", "partial"}, usage : UsUsage]
    /\ usPanel \in {"idle", "create", "fill"}
    /\ usAdded \in UsUsage
    /\ usExcused \in BOOLEAN

(* The units of traffic of a port in memory, in any Usage value. *)
UsUnits(mem, p) == UNION {{<<i, k>> : k \in 1..mem[i][p]} : i \in 1..UsInstances}
UsInMemory(mem, p) == Cardinality(UsUnits(mem, p))

(* No unit of traffic is counted twice, however savers, panel, failed      *)
(* writes, restarts and crashes interleave: what the file shows and what   *)
(* is still in memory never exceed what the relays added.                  *)
UsNeverOvercounts ==
    \A p \in UsPorts : usFile.usage[p] + UsInMemory(usMem, p) <= usAdded[p]

(* Nothing is lost as long as one saver runs at a time, writes succeed,    *)
(* the process lives and the panel does not create the file meanwhile:     *)
(* every unit added is in the file, in memory or with the saver, also      *)
(* across restarts of the transport.                                       *)
UsAccounted ==
    \/ usExcused
    \/ \A p \in UsPorts :
         usAdded[p] = UsInMemory(usMem, p)
             + (IF \E s \in UsSavers : usSaver[s].pc \in {"truncate", "write"}
                THEN LET s == CHOOSE s \in UsSavers : usSaver[s].pc \in {"truncate", "write"}
                     IN  UsSum(usSaver[s].seen, usSaver[s].took)[p]
                ELSE usFile.usage[p])
=============================================================================
