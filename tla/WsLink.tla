-------------------------------- MODULE WsLink --------------------------------
(***************************************************************************)
(* How the two sides of the ws and wss transports find each other again.   *)
(*                                                                         *)
(* There is no token handshake as in TcpLink: the client asks for /channel *)
(* and is linked once the request is upgraded.  The server takes the first *)
(* request for its control channel; another one while it believes to have  *)
(* a control channel closes both and restarts it.  Every request has its   *)
(* own goroutine, and the check of the field is not one step with the      *)
(* assignment.  The reading goroutines of both sides read whatever is in   *)
(* the field by then: nil ends the process.                                *)
(*                                                                         *)
(* Restart and channelHandler are the same machine on both sides.  Time is *)
(* in seconds, the unit of every timer involved; a goroutine that can run  *)
(* does so before the clock ticks, timers that expire together are served  *)
(* in any order.                                                           *)
(***************************************************************************)
EXTENDS Integers, Sequences, FiniteSets

CONSTANTS
    Slots,          \* identities for the connections alive at one time
    Nil,
    GsAtOnce,       \* bound: goroutines of one kind alive at one time
    RestartSleep,   \* time.Sleep in Restart: 2
    RetryInterval,  \* client config.RetryInterval: 3
    DialAttempts,   \* attempts of WebSocketDialer: 3
    MaxRetries,     \* maxRetries of the reading goroutines: 3
    ServiceRestart, \* RestartSec of the service unit: 3
    ReloadSleep,    \* time.Sleep of the hot reload: 3
    MaxFaults,      \* bound: cuts, silent losses, kills and reloads
    RecoverWithin   \* seconds claimed by RecoversInTime

ASSUME WsLinkAssumption ==
    /\ Nil \notin Slots
    /\ {RetryInterval, MaxFaults, RecoverWithin} \subseteq Nat
    /\ {RestartSleep, ServiceRestart, ReloadSleep} \subseteq Nat \ {0}
    /\ {DialAttempts, MaxRetries, GsAtOnce} \subseteq Nat \ {0}

Side == {"server", "client"}
Other(s) == IF s = "server" THEN "client" ELSE "server"
Gs == 1..GsAtOnce
Lowest(S) == CHOOSE i \in S : \A j \in S : i <= j

(* A side that is not running: it has yet to close the control channel, in *)
(* Restart or for a hot reload; or it waits to run again, in Restart, for  *)
(* the reload, or for the service manager.                                 *)
Closing == {"close", "shutdown"}
Asleep == {"sleep", "reload", "dead"}

VARIABLES
    conn,     \* slot -> both ends, what each is to read, silent: lost unnoticed
    ctx,      \* side -> its context is live
    control,  \* side -> its controlChannel field
    restart,  \* side -> Restart, hot reload or death of the process: pc, timer
    pending,  \* side -> Restart goroutines spawned and not yet at TryLock
    handler,  \* side -> channelHandlers: pc, messageChan
    reader,   \* side -> their reading goroutines, by the same index
    request,  \* slot -> the server's goroutine for a /channel request
    dialer,   \* the client's goroutines in channelDialer
    bound,    \* the user ports are bound under the server's current context
    faults,   \* faults so far (bound)
    down      \* history: seconds without a link since the last fault

sideVars == <<ctx, control, restart, pending, handler, reader, bound>>
vars == <<conn, sideVars, request, dialer, faults, down>>

NoConn == [end |-> [s \in Side |-> "closed"], inbox |-> [s \in Side |-> <<>>],
           silent |-> FALSE]
NewConn == [NoConn EXCEPT !.end = [s \in Side |-> "open"]]
NoReader == [pc |-> "none", conn |-> Nil, retries |-> 0, timer |-> 0]
NoHandler == [pc |-> "none", msgs |-> <<>>]
NoDialer == [pc |-> "none", timer |-> 0, attempt |-> 1, stale |-> FALSE]
Idle == [pc |-> "idle", timer |-> 0]

Holds(s, k) == \/ control[s] = k
               \/ \E i \in Gs : reader[s][i].conn = k
               \/ s = "server" /\ request[k] # "none"
Free(k) == conn[k].end["client"] = "closed" /\ \A s \in Side : ~Holds(s, k)

(* A read returns a message, or an error once the connection is closed     *)
(* here, or there and that has arrived; a write to a connection the peer   *)
(* has closed may or may not fail.                                         *)
CanRead(s, k) == conn[k].end[s] = "open" /\ conn[k].inbox[s] # <<>>
PeerGone(s, k) == conn[k].end[Other(s)] = "closed" /\ ~conn[k].silent
ReadFails(s, k) == \/ conn[k].end[s] = "closed"
                   \/ conn[k].inbox[s] = <<>> /\ PeerGone(s, k)
WriteFails(s, k) == conn[k].end[s] = "closed" \/ PeerGone(s, k)
WriteWorks(s, k) == conn[k].end[s] = "open"
Closed(C, s, k) == IF k = Nil THEN C
                   ELSE [C EXCEPT ![k].end[s] = "closed", ![k].inbox[s] = <<>>]

Init ==
    /\ conn = [k \in Slots |-> NoConn]
    /\ ctx = [s \in Side |-> TRUE]
    /\ control = [s \in Side |-> Nil]
    /\ restart = [s \in Side |-> Idle]
    /\ pending = [s \in Side |-> 0]
    /\ handler = [s \in Side |-> [i \in Gs |-> NoHandler]]
    /\ reader = [s \in Side |-> [i \in Gs |-> NoReader]]
    /\ request = [k \in Slots |-> "none"]
    /\ dialer = [i \in Gs |-> IF i = 1 THEN [NoDialer EXCEPT !.pc = "top"] ELSE NoDialer]
    /\ bound = FALSE /\ faults = 0 /\ down = 0

-----------------------------------------------------------------------------
(* Restart *)

RestartBegin(s) ==
    /\ pending[s] > 0 /\ restart[s].pc = "idle"
    /\ pending' = [pending EXCEPT ![s] = @ - 1]
    /\ restart' = [restart EXCEPT ![s] = [pc |-> "close", timer |-> RestartSleep]]
    /\ ctx' = [ctx EXCEPT ![s] = FALSE]
    /\ bound' = (bound /\ s # "server")
    /\ dialer' = [i \in Gs |-> IF s = "client" /\ dialer[i].pc = "attempt"
                                 THEN [dialer[i] EXCEPT !.stale = TRUE] ELSE dialer[i]]
    /\ UNCHANGED <<conn, control, handler, reader, request, faults, down>>

RestartSkip(s) ==
    /\ pending[s] > 0 /\ restart[s].pc # "idle"
    /\ pending' = [pending EXCEPT ![s] = @ - 1]
    /\ UNCHANGED <<conn, ctx, control, restart, handler, reader, bound, request, dialer,
                   faults, down>>

(* channelHandler may or may not get SG_Closed out before the close. *)
RestartClose(s) ==
    /\ restart[s].pc \in Closing
    /\ conn' = Closed(conn, s, control[s])
    /\ restart' = [restart EXCEPT ![s].pc = IF @ = "close" THEN "sleep" ELSE "reload"]
    /\ UNCHANGED <<ctx, control, pending, handler, reader, bound, request, dialer,
                   faults, down>>

(* Mutant: the field keeps the closed connection. *)
RestartFinishKeepsControl(s) ==
    /\ restart[s].pc \in Asleep /\ restart[s].timer = 0
    /\ restart' = [restart EXCEPT ![s] = Idle]
    /\ ctx' = [ctx EXCEPT ![s] = TRUE]
    /\ dialer' = IF s = "server" THEN dialer
                 ELSE [dialer EXCEPT ![Lowest({i \in Gs : dialer[i].pc = "none"})].pc = "top"]
    /\ UNCHANGED <<conn, control, pending, handler, reader, bound, request, faults, down>>

(* The fields are re-initialised and Start runs: the server listens again, *)
(* the client dials.                                                       *)
RestartFinish(s) ==
    /\ restart[s].pc \in Asleep /\ restart[s].timer = 0
    /\ restart' = [restart EXCEPT ![s] = Idle]
    /\ ctx' = [ctx EXCEPT ![s] = TRUE]
    /\ control' = [control EXCEPT ![s] = Nil]
    /\ dialer' = IF s = "server" THEN dialer
                 ELSE [dialer EXCEPT ![Lowest({i \in Gs : dialer[i].pc = "none"})].pc = "top"]
    /\ UNCHANGED <<conn, pending, handler, reader, bound, request, faults, down>>

(* The process ends; systemd starts it ServiceRestart seconds later, and   *)
(* from there on it does what RestartFinish does.                          *)
ProcessDies(s) ==
    /\ conn' = [k \in Slots |-> [conn[k] EXCEPT !.end[s] = "closed", !.inbox[s] = <<>>]]
    /\ ctx' = [ctx EXCEPT ![s] = FALSE]
    /\ control' = [control EXCEPT ![s] = Nil]
    /\ restart' = [restart EXCEPT ![s] = [pc |-> "dead", timer |-> ServiceRestart]]
    /\ pending' = [pending EXCEPT ![s] = 0]
    /\ handler' = [handler EXCEPT ![s] = [i \in Gs |-> NoHandler]]
    /\ reader' = [reader EXCEPT ![s] = [i \in Gs |-> NoReader]]
    /\ bound' = (bound /\ s # "server")
    /\ request' = IF s = "server" THEN [k \in Slots |-> "none"] ELSE request
    /\ dialer' = IF s = "client" THEN [i \in Gs |-> NoDialer] ELSE dialer

-----------------------------------------------------------------------------
(* channelHandler and its reading goroutine *)

SpawnHandler(s) ==
    LET i == Lowest({j \in Gs : reader[s][j].pc = "none" /\ handler[s][j].pc = "none"})
    IN  /\ reader' = [reader EXCEPT ![s][i] = [NoReader EXCEPT !.pc = "check"]]
        /\ handler' = [handler EXCEPT ![s][i] = [NoHandler EXCEPT !.pc = "run"]]

(* The fields are read each time around; ReadMessage of nil panics. *)
ReaderCheck(s, i) ==
    /\ reader[s][i].pc = "check"
    /\ \/ /\ ctx[s] => control[s] # Nil
          /\ reader' = [reader EXCEPT ![s][i] = IF ctx[s]
                          THEN [@ EXCEPT !.pc = "read", !.conn = control[s]] ELSE NoReader]
          /\ UNCHANGED <<conn, ctx, control, restart, pending, handler, bound, request, dialer>>
       \/ ctx[s] /\ control[s] = Nil /\ ProcessDies(s)
    /\ UNCHANGED <<faults, down>>

(* The message goes to the channel of the handler that spawned the reader, *)
(* which for a leftover of an earlier run nobody reads.                    *)
ReaderGets(s, i) ==
    LET k == reader[s][i].conn
    IN  /\ reader[s][i].pc = "read" /\ CanRead(s, k)
        /\ conn' = [conn EXCEPT ![k].inbox[s] = Tail(@)]
        /\ reader' = [reader EXCEPT ![s][i] = [NoReader EXCEPT !.pc = "check"]]
        /\ handler' = [handler EXCEPT ![s][i].msgs =
                         IF handler[s][i].pc = "run" THEN Append(@, Head(conn[k].inbox[s])) ELSE @]
        /\ UNCHANGED <<ctx, control, restart, pending, bound, request, dialer, faults, down>>

(* Mutant: the third failure ends the goroutine and nothing else. *)
ReaderFailsQuietly(s, i) ==
    LET r == reader[s][i]
    IN  /\ r.pc = "read" /\ ReadFails(s, r.conn)
        /\ reader' = [reader EXCEPT ![s][i] =
                        IF r.retries + 1 >= MaxRetries THEN NoReader
                        ELSE [pc |-> "sleep", conn |-> Nil, retries |-> r.retries + 1,
                              timer |-> r.retries + 1]]
        /\ UNCHANGED <<conn, ctx, control, restart, pending, handler, bound, request,
                       dialer, faults, down>>

(* A try more after one second, and after two; the third failure restarts. *)
ReaderFails(s, i) ==
    LET r == reader[s][i]
        last == r.retries + 1 >= MaxRetries
    IN  /\ r.pc = "read" /\ ReadFails(s, r.conn)
        /\ reader' = [reader EXCEPT ![s][i] =
                        IF last THEN NoReader
                        ELSE [pc |-> "sleep", conn |-> Nil, retries |-> r.retries + 1,
                              timer |-> r.retries + 1]]
        /\ pending' = [pending EXCEPT ![s] = IF last THEN @ + 1 ELSE @]
        /\ UNCHANGED <<conn, ctx, control, restart, handler, bound, request, dialer,
                       faults, down>>

ReaderWakes(s, i) ==
    /\ reader[s][i].pc = "sleep" /\ reader[s][i].timer = 0
    /\ reader' = [reader EXCEPT ![s][i].pc = "check"]
    /\ UNCHANGED <<conn, ctx, control, restart, pending, handler, bound, request, dialer,
                   faults, down>>

(* A reader left behind by a hot reload finds its transport's context done *)
(* as soon as its read returns.  (If that was its third failure it asks    *)
(* the old transport for a Restart, whose new context is done as well, as  *)
(* the parent context is: the dialer it starts returns, the listener shuts *)
(* down.)                                                                  *)
ReaderLeaves(s, i) ==
    LET r == reader[s][i]
    IN  /\ r.pc = "old" /\ (CanRead(s, r.conn) \/ ReadFails(s, r.conn))
        /\ reader' = [reader EXCEPT ![s][i] = NoReader]
        /\ UNCHANGED <<conn, ctx, control, restart, pending, handler, bound, request, dialer,
                       faults, down>>

(* The context is done: a last SG_Closed, if it still can be written. *)
HandlerCancelled(s, i) ==
    /\ handler[s][i].pc = "run" /\ ~ctx[s]
    /\ handler' = [handler EXCEPT ![s][i] = NoHandler]
    /\ \/ /\ WriteWorks(s, control[s])
          /\ conn' = IF conn[control[s]].end[Other(s)] = "open"
                     THEN [conn EXCEPT ![control[s]].inbox[Other(s)] = Append(@, "closed")]
                     ELSE conn
       \/ WriteFails(s, control[s]) /\ UNCHANGED conn
    /\ UNCHANGED <<ctx, control, restart, pending, reader, bound, request, dialer, faults, down>>

(* SG_Closed ends the handler and restarts.  Heartbeats change nothing. *)
HandlerMessage(s, i) ==
    /\ handler[s][i].pc = "run" /\ handler[s][i].msgs # <<>>
    /\ handler' = [handler EXCEPT ![s][i] = NoHandler]
    /\ pending' = [pending EXCEPT ![s] = @ + 1]
    /\ UNCHANGED <<conn, ctx, control, restart, reader, bound, request, dialer, faults, down>>

(* A heartbeat, a request for a tunnel or the client's answer to a         *)
(* heartbeat cannot be written.                                            *)
WriteError(s, i) ==
    /\ handler[s][i].pc = "run" /\ control[s] # Nil /\ WriteFails(s, control[s])
    /\ handler' = [handler EXCEPT ![s][i] = NoHandler]
    /\ pending' = [pending EXCEPT ![s] = @ + 1]
    /\ UNCHANGED <<conn, ctx, control, restart, reader, bound, request, dialer, faults, down>>

-----------------------------------------------------------------------------
(* Server: the handler of a /channel request *)

RequestChecks(k) ==
    /\ request[k] = "check"
    /\ \/ /\ control["server"] # Nil
          /\ conn' = Closed(Closed(conn, "server", control["server"]), "server", k)
          /\ request' = [request EXCEPT ![k] = "none"]
          /\ pending' = [pending EXCEPT !["server"] = @ + 1]
       \/ /\ control["server"] = Nil
          /\ request' = [request EXCEPT ![k] = "set"]
          /\ UNCHANGED <<conn, pending>>
    /\ UNCHANGED <<ctx, control, restart, handler, reader, bound, dialer, faults, down>>

(* The field is set, channelHandler, parsePortMappings and the handleLoops *)
(* are spawned.  (Ports that are bound already would end the process: see  *)
(* OneControl.)                                                            *)
RequestSets(k) ==
    /\ request[k] = "set"
    /\ control' = [control EXCEPT !["server"] = k]
    /\ SpawnHandler("server")
    /\ bound' = ctx["server"]
    /\ request' = [request EXCEPT ![k] = "none"]
    /\ UNCHANGED <<conn, ctx, restart, pending, dialer, faults, down>>

-----------------------------------------------------------------------------
(* Client: channelDialer *)

DialerTop(i) ==
    /\ dialer[i].pc = "top"
    /\ dialer' = [dialer EXCEPT ![i] =
                    IF ctx["client"] THEN [NoDialer EXCEPT !.pc = "attempt"] ELSE NoDialer]
    /\ UNCHANGED <<conn, sideVars, request, faults, down>>

(* Mutant: the loop goes on after the control channel is established. *)
DialerConnectsGoesOn(i, k) ==
    /\ dialer[i].pc = "attempt" /\ dialer[i].timer = 0 /\ ~dialer[i].stale
    /\ ctx["server"] /\ Free(k)
    /\ conn' = [conn EXCEPT ![k] = NewConn]
    /\ request' = [request EXCEPT ![k] = "check"]
    /\ control' = [control EXCEPT !["client"] = k]
    /\ dialer' = [dialer EXCEPT ![i] = [NoDialer EXCEPT !.pc = "top"]]
    /\ SpawnHandler("client")
    /\ UNCHANGED <<ctx, restart, pending, bound, faults, down>>

(* The request is upgraded: the field is set, whatever was in it, and      *)
(* poolMaintainer and channelHandler are spawned.                          *)
DialerConnects(i, k) ==
    /\ dialer[i].pc = "attempt" /\ dialer[i].timer = 0 /\ ~dialer[i].stale
    /\ ctx["server"] /\ Free(k)
    /\ conn' = [conn EXCEPT ![k] = NewConn]
    /\ request' = [request EXCEPT ![k] = "check"]
    /\ control' = [control EXCEPT !["client"] = k]
    /\ dialer' = [dialer EXCEPT ![i] = NoDialer]
    /\ SpawnHandler("client")
    /\ UNCHANGED <<ctx, restart, pending, bound, faults, down>>

(* Nobody listens, or the context this dialer got is done: back off, and   *)
(* after the last attempt sleep RetryInterval.                             *)
DialerRefused(i) ==
    LET d == dialer[i]
    IN  /\ d.pc = "attempt" /\ d.timer = 0
        /\ ~ctx["server"] \/ d.stale
        /\ dialer' = [dialer EXCEPT ![i] =
                        IF d.attempt < DialAttempts
                        THEN [d EXCEPT !.attempt = @ + 1, !.timer = 2 ^ (d.attempt - 1)]
                        ELSE [NoDialer EXCEPT !.pc = "retry", !.timer = RetryInterval]]
        /\ UNCHANGED <<conn, sideVars, request, faults, down>>

(* The context is looked at again: the field's, not the one of this run. *)
DialerRetries(i) ==
    /\ dialer[i].pc = "retry" /\ dialer[i].timer = 0
    /\ dialer' = [dialer EXCEPT ![i] = [NoDialer EXCEPT !.pc = "top"]]
    /\ UNCHANGED <<conn, sideVars, request, faults, down>>

-----------------------------------------------------------------------------
(* The environment *)

(* The runtime closes a connection nobody refers to any more. *)
Collect(s, k) ==
    /\ conn[k].end[s] = "open" /\ ~Holds(s, k)
    /\ conn' = Closed(conn, s, k)
    /\ UNCHANGED <<sideVars, request, dialer, faults, down>>

Fault == faults < MaxFaults /\ faults' = faults + 1 /\ down' = 0

(* The control connection breaks visibly for both sides. *)
Cut ==
    /\ Fault
    /\ \E k \in {control[s] : s \in Side} \ {Nil} : conn' = [conn EXCEPT ![k] = NoConn]
    /\ UNCHANGED <<sideVars, request, dialer>>

(* The connection is lost without a sign: side s runs into it first, and   *)
(* the other does not learn of it until keep-alive or a write of its own   *)
(* does (Detect).                                                          *)
SilentLoss(s) ==
    /\ Fault
    /\ \E k \in {control[t] : t \in Side} \ {Nil} :
         /\ conn[k].end[s] = "open" /\ conn[k].end[Other(s)] = "open"
         /\ conn' = [Closed(conn, s, k) EXCEPT ![k].silent = TRUE]
    /\ UNCHANGED <<sideVars, request, dialer>>

Detect(k) ==
    /\ conn[k].silent
    /\ conn' = [conn EXCEPT ![k].silent = FALSE]
    /\ down' = 0
    /\ UNCHANGED <<sideVars, request, dialer, faults>>

(* The process is killed, in the middle of its Restart or not. *)
Kill(s) == Fault /\ restart[s].pc # "dead" /\ ProcessDies(s)

(* The configuration changed: the parent context is cancelled and a new    *)
(* transport starts ReloadSleep seconds later.  The server's listener      *)
(* closes the control channel; the client leaves that to the collector,    *)
(* unless it is in the middle of a Restart, which then goes on and starts  *)
(* nothing.  What else is left of the old transport finds its context      *)
(* done; only a reader in ReadMessage stays, and holds the connection.     *)
Reload(s) ==
    /\ Fault
    /\ restart[s].pc \in {"idle", "close", "sleep"}
    /\ restart' = [restart EXCEPT ![s] =
                     [pc |-> IF s = "server" \/ @.pc = "close" THEN "shutdown" ELSE "reload",
                      timer |-> ReloadSleep]]
    /\ ctx' = [ctx EXCEPT ![s] = FALSE]
    /\ pending' = [pending EXCEPT ![s] = 0]
    /\ bound' = (bound /\ s # "server")
    /\ dialer' = IF s = "client" THEN [i \in Gs |-> NoDialer] ELSE dialer
    /\ reader' = [reader EXCEPT ![s] = [i \in Gs |->
                    IF reader[s][i].pc \in {"read", "old"}
                    THEN [reader[s][i] EXCEPT !.pc = "old"] ELSE NoReader]]
    /\ UNCHANGED <<conn, control, handler, request>>

-----------------------------------------------------------------------------
GoroutineStep(s, i) == \/ ReaderCheck(s, i) \/ ReaderGets(s, i)
                       \/ ReaderFails(s, i) \/ ReaderWakes(s, i) \/ ReaderLeaves(s, i)
                       \/ HandlerCancelled(s, i) \/ HandlerMessage(s, i)
RestartStep(s) == \/ RestartBegin(s) \/ RestartSkip(s) \/ RestartClose(s) \/ RestartFinish(s)
DialerStep(i) == \/ DialerTop(i) \/ DialerRefused(i) \/ DialerRetries(i)
                 \/ \E k \in Slots : DialerConnects(i, k)
Urgent == \/ \E s \in Side : RestartStep(s) \/ \E i \in Gs : GoroutineStep(s, i)
          \/ \E i \in Gs : DialerStep(i)
          \/ \E k \in Slots : RequestChecks(k) \/ RequestSets(k)

Linked ==
    LET k == control["server"]
    IN  /\ k # Nil /\ control["client"] = k
        /\ \A s \in Side : /\ conn[k].end[s] = "open" /\ ctx[s]
                           /\ \E i \in Gs : handler[s][i].pc = "run"

Sooner(t) == IF t > 0 THEN t - 1 ELSE 0

(* Some goroutine can run: ENABLED Urgent, spelled out. *)
Runnable ==
    \/ \E s \in Side :
         \/ pending[s] > 0 \/ restart[s].pc \in Closing
         \/ restart[s].pc \in Asleep /\ restart[s].timer = 0
         \/ \E i \in Gs :
              LET r == reader[s][i]
              IN  \/ r.pc = "check"
                  \/ r.pc = "sleep" /\ r.timer = 0
                  \/ r.pc \in {"read", "old"} /\ (CanRead(s, r.conn) \/ ReadFails(s, r.conn))
                  \/ handler[s][i].pc = "run" /\ (~ctx[s] \/ handler[s][i].msgs # <<>>)
    \/ \E i \in Gs :
         \/ dialer[i].pc = "top"
         \/ dialer[i].pc \in {"attempt", "retry"} /\ dialer[i].timer = 0
    \/ \E k \in Slots : request[k] # "none"

(* One second passes once every goroutine that can run has run. *)
Tick ==
    /\ ~Runnable
    /\ restart' = [s \in Side |-> [restart[s] EXCEPT !.timer = Sooner(@)]]
    /\ reader' = [s \in Side |-> [i \in Gs |-> [reader[s][i] EXCEPT !.timer = Sooner(@)]]]
    /\ dialer' = [i \in Gs |-> [dialer[i] EXCEPT !.timer = Sooner(@)]]
    /\ down' = IF Linked \/ (\E k \in Slots : conn[k].silent) THEN 0
               ELSE IF down > RecoverWithin THEN down ELSE down + 1
    /\ UNCHANGED <<conn, ctx, control, pending, handler, bound, request, faults>>

Environment == \/ Cut \/ \E s \in Side : SilentLoss(s) \/ Kill(s) \/ Reload(s)
               \/ \E s \in Side, i \in Gs : WriteError(s, i)
               \/ \E s \in Side, k \in Slots : Collect(s, k)
               \/ \E k \in Slots : Detect(k)

Next == Urgent \/ Tick \/ Environment

(* The clock advances, runnable goroutines run, a silent loss is noticed   *)
(* (TCP keep-alive), unreachable connections are finalised.                *)
Fairness == /\ WF_vars(Urgent) /\ WF_vars(Tick)
            /\ \A k \in Slots : WF_vars(Detect(k)) /\ \A s \in Side : WF_vars(Collect(s, k))

Spec == Init /\ [][Next]_vars
FairSpec == Spec /\ Fairness

-----------------------------------------------------------------------------
(* The goroutines of two requests never both find the field nil, although  *)
(* nothing serialises them, and one that did finds the user ports free: a  *)
(* second parsePortMappings would end the process.  This rests on the      *)
(* client: it has one dialer at a time, across restarts of both sides.     *)
OneControl ==
    \A k \in Slots : request[k] = "set" =>
        /\ control["server"] = Nil /\ ~bound
        /\ \A j \in Slots \ {k} : request[j] # "set"

(* The link heals: once the faults stop, both sides end up for good with   *)
(* the same, open control connection and their handlers running on it,     *)
(* although every failure on one side may restart or end the other.        *)
Relinks == <>[]Linked

(* ... within RecoverWithin seconds of the last fault (of its detection,   *)
(* when the loss is silent).                                               *)
RecoversInTime == down <= RecoverWithin
=============================================================================
