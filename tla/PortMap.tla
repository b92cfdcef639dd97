------------------------------- MODULE PortMap -------------------------------
(***************************************************************************)
(* parsePortMappings: the user ports of the server, across restarts.       *)
(*                                                                         *)
(* Once the control channel is up, a goroutine walks config.Ports and      *)
(* starts a listener per port, in a range one per millisecond, without a   *)
(* look at any context.  A listener binds its port, or ends the process,   *)
(* and waits for the context that is in the s.ctx field by then.  Restart  *)
(* cancels the context and puts a new one there two seconds later, so a    *)
(* goroutine that is still walking by then opens ports for the new run,    *)
(* which opens them too.                                                   *)
(*                                                                         *)
(* A mapping is a record: its form, its first and last port; PmTop + 1     *)
(* stands for every number above the highest port.  Remote addresses, and  *)
(* port 0 of an address (a port the kernel chooses), are left out.  Time   *)
(* is in milliseconds, the pace of a range; a goroutine that can run does  *)
(* so before the clock ticks.                                              *)
(***************************************************************************)
EXTENDS Integers, Sequences, FiniteSets

CONSTANTS
    PmMappings,  \* mappings a configuration may list
    PmLength,    \* bound: mappings in a configuration
    PmTop,       \* the highest port number (65535)
    PmForeign,   \* ports that others may hold: processes, the tunnel, the web page
    PmSleep,     \* time.Sleep in Restart (2000)
    PmRuns       \* bound: runs of the transport

PmForms == {"port", "range", "port=remote", "range=remote", "ip:port=remote", "invalid"}

ASSUME PortMapAssumption ==
    /\ \A m \in PmMappings : m.form \in PmForms /\ {m.lo, m.hi} \subseteq 0..(PmTop + 1)
    /\ \A m \in PmMappings : m.form = "ip:port=remote" => m.lo > 0
    /\ {PmLength, PmTop, PmRuns} \subseteq Nat \ {0} /\ PmSleep \in Nat
    /\ PmForeign \subseteq 1..PmTop

VARIABLES
    pmPorts,    \* config.Ports
    pmRun,      \* the run whose context is in s.ctx
    pmLive,     \* that context is not cancelled
    pmRestart,  \* Restart: milliseconds of sleep left, -1 when it is not running
    pmOpener,   \* run -> parsePortMappings: pc, mapping and port it is at
    pmBound,    \* ports that are bound; all wait for the context of pmRun
    pmUp        \* the process runs

pmVars == <<pmPorts, pmRun, pmLive, pmRestart, pmOpener, pmBound, pmUp>>

PmConfigs == UNION {[1..n -> PmMappings] : n \in 1..PmLength}
PmNoOpener == [pc |-> "none", at |-> 1, next |-> 0]

PmInit ==
    /\ pmPorts \in PmConfigs
    /\ pmRun = 1 /\ pmLive = TRUE /\ pmRestart = -1
    /\ pmOpener = [r \in 1..PmRuns |-> PmNoOpener]
    /\ pmBound = {}
    /\ pmUp = TRUE

-----------------------------------------------------------------------------
PmIsRange(m) == m.form \in {"range", "range=remote"}

(* What parsePortMappings refuses with Fatalf. *)
PmRefused(m) ==
    \/ m.form = "invalid"
    \/ m.form \in {"port", "range", "range=remote"}
       /\ ~(1 <= m.lo /\ m.lo <= m.hi /\ m.hi <= PmTop)

(* The address of "port=remote" is ":port" for ports strictly between 1    *)
(* and 65535 and otherwise the text as it is, which no listener accepts;   *)
(* nor does one accept an address with a port above the highest.           *)
PmHasAddress(m, port) ==
    /\ m.form = "port=remote" => port > 1 /\ port < PmTop
    /\ m.form = "ip:port=remote" => port <= PmTop

(* The control channel of the current run is established. *)
PmLinkUp ==
    /\ pmLive /\ pmRestart = -1 /\ pmOpener[pmRun].pc = "none"
    /\ pmOpener' = [pmOpener EXCEPT ![pmRun] =
                      [pc |-> "ready", at |-> 1, next |-> pmPorts[1].lo]]
    /\ UNCHANGED <<pmPorts, pmRun, pmLive, pmRestart, pmBound, pmUp>>

(* Mutant: the last port of a range is left out. *)
PmAdvanceShort(o) ==
    IF PmIsRange(pmPorts[o.at]) /\ o.next + 1 < pmPorts[o.at].hi
      THEN [o EXCEPT !.pc = "sleep", !.next = @ + 1]
    ELSE IF o.at = Len(pmPorts) THEN [o EXCEPT !.pc = "done"]
    ELSE [pc |-> IF PmIsRange(pmPorts[o.at]) THEN "sleep" ELSE "ready",
          at |-> o.at + 1, next |-> pmPorts[o.at + 1].lo]

(* After a port: the next of the range a millisecond later, or the next    *)
(* mapping, at once unless the last one was a range.                       *)
PmAdvance(o) ==
    IF PmIsRange(pmPorts[o.at]) /\ o.next < pmPorts[o.at].hi
      THEN [o EXCEPT !.pc = "sleep", !.next = @ + 1]
    ELSE IF o.at = Len(pmPorts) THEN [o EXCEPT !.pc = "done"]
    ELSE [pc |-> IF PmIsRange(pmPorts[o.at]) THEN "sleep" ELSE "ready",
          at |-> o.at + 1, next |-> pmPorts[o.at + 1].lo]

(* One port: startListeners and localListener, up to the wait for the      *)
(* context.  A cancelled one closes the listener at once.  What another    *)
(* holds at this moment, net.Listen refuses.                               *)
PmOpen(r) ==
    \E held \in SUBSET (PmForeign \cap {pmOpener[r].next}) :
    LET o == pmOpener[r]
        m == pmPorts[o.at]
        fatal == PmRefused(m) \/ ~PmHasAddress(m, o.next) \/ o.next \in pmBound \cup held
    IN  /\ o.pc = "ready"
        /\ pmUp' = ~fatal
        /\ pmBound' = IF fatal THEN {} ELSE IF pmLive THEN pmBound \cup {o.next} ELSE pmBound
        /\ pmOpener' = [pmOpener EXCEPT ![r] = IF fatal THEN o ELSE PmAdvance(o)]
        /\ UNCHANGED <<pmPorts, pmRun, pmLive, pmRestart>>

(* Restart cancels the context: every listener that waits for it closes. *)
PmRestartBegins ==
    /\ pmLive /\ pmRestart = -1 /\ pmRun < PmRuns
    /\ pmLive' = FALSE
    /\ pmBound' = {}
    /\ pmRestart' = PmSleep
    /\ UNCHANGED <<pmPorts, pmRun, pmOpener, pmUp>>

(* Mutant: the new context is made without the sleep. *)
PmRestartHurries ==
    /\ pmRestart >= 0
    /\ pmRun' = pmRun + 1
    /\ pmLive' = TRUE
    /\ pmRestart' = -1
    /\ UNCHANGED <<pmPorts, pmOpener, pmBound, pmUp>>

PmRestartEnds ==
    /\ pmRestart = 0
    /\ pmRun' = pmRun + 1
    /\ pmLive' = TRUE
    /\ pmRestart' = -1
    /\ UNCHANGED <<pmPorts, pmOpener, pmBound, pmUp>>

PmTick ==
    /\ pmRestart # 0 /\ \A r \in 1..PmRuns : pmOpener[r].pc # "ready"
    /\ \/ pmRestart > 0
       \/ \E r \in 1..PmRuns : pmOpener[r].pc = "sleep"
    /\ pmRestart' = IF pmRestart > 0 THEN pmRestart - 1 ELSE pmRestart
    /\ pmOpener' = [r \in 1..PmRuns |->
                      IF pmOpener[r].pc = "sleep" THEN [pmOpener[r] EXCEPT !.pc = "ready"]
                      ELSE pmOpener[r]]
    /\ UNCHANGED <<pmPorts, pmRun, pmLive, pmBound, pmUp>>

PmNext == /\ pmUp
          /\ \/ PmLinkUp \/ PmRestartBegins \/ PmRestartEnds \/ PmTick
             \/ \E r \in 1..PmRuns : PmOpen(r)

PmSpec == PmInit /\ [][PmNext]_pmVars

-----------------------------------------------------------------------------
PmTypeOK ==
    /\ pmPorts \in PmConfigs
    /\ pmRun \in 1..PmRuns /\ pmLive \in BOOLEAN /\ pmRestart \in -1..PmSleep
    /\ pmOpener \in [1..PmRuns -> [pc : {"none", "ready", "sleep", "done"},
                                   at : 1..PmLength, next : 0..(PmTop + 1)]]
    /\ pmBound \subseteq 0..(PmTop + 1)
    /\ pmUp \in BOOLEAN

PmPortsOf(m) == IF PmIsRange(m) THEN m.lo..m.hi ELSE {m.lo}
PmRangePorts(ports) ==
    UNION {{<<i, p>> : p \in PmPortsOf(ports[i])} :
             i \in {j \in 1..Len(ports) : PmIsRange(ports[j])}}

(* The process ends in parsePortMappings only for what is wrong in the     *)
(* configuration - a mapping that cannot be parsed, port 1 or 65535 with a *)
(* remote address, a port listed twice - for a port that others hold, or   *)
(* because ranges with more ports than Restart sleeps milliseconds are     *)
(* still being opened for the old run when the new one begins.             *)
PmExitExplained ==
    ~pmUp => \/ \E i \in 1..Len(pmPorts) :
                  PmRefused(pmPorts[i]) \/ ~PmHasAddress(pmPorts[i], pmPorts[i].lo)
             \/ \E i, j \in 1..Len(pmPorts) :
                  i # j /\ PmPortsOf(pmPorts[i]) \cap PmPortsOf(pmPorts[j]) # {}
             \/ \E i \in 1..Len(pmPorts) : PmPortsOf(pmPorts[i]) \cap PmForeign # {}
             \/ Cardinality(PmRangePorts(pmPorts)) >= PmSleep

(* When the current run has walked its mappings, all their ports listen,   *)
(* whatever earlier runs were doing.                                       *)
PmAllListen ==
    pmUp /\ pmLive /\ pmOpener[pmRun].pc = "done" =>
        pmBound = UNION {PmPortsOf(pmPorts[i]) : i \in 1..Len(pmPorts)}
=============================================================================
