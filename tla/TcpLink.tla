------------------------------- MODULE TcpLink -------------------------------
(***************************************************************************)
(* How the two sides of the tcp transport find each other again.           *)
(*                                                                         *)
(* The control connection dies (a cut, a silent loss, a killed process);   *)
(* each side notices on its own, restarts on its own and they meet in the  *)
(* handshake: the client dials, sends the token and waits two seconds for  *)
(* the echo; the server takes dialed connections from tunnelChannel one by *)
(* one and gives each two seconds to present the token.                    *)
(*                                                                         *)
(* Both sides are the same machine in the code (Restart, channelHandler    *)
(* and its reading goroutine), so most actions take the side as argument.  *)
(*                                                                         *)
(* Time is in seconds, the unit of every timer involved.  A goroutine that *)
(* can run does so before the clock ticks (Tick waits for Urgent), and the *)
(* network delivers within the tick; timers that expire together are       *)
(* served in any order, so all ties are explored.                          *)
(***************************************************************************)
EXTENDS Integers, Sequences, FiniteSets

CONSTANTS
    Slots,          \* identities for the connections alive at one time
    Nil,
    GsAtOnce,       \* bound: goroutines of one kind alive at one time
    ChannelSize,    \* config.ChannelSize: capacity of the server's tunnelChannel
    RestartSleep,   \* time.Sleep in Restart: 2
    TokenDeadline,  \* read deadline of both handshakes: 2
    RetryInterval,  \* client config.RetryInterval: 3
    DialAttempts,   \* attempts of TcpDialer: 3
    MaxRetries,     \* maxRetries of the reading goroutines: 3
    ServiceRestart, \* RestartSec of the service unit: 3
    MaxFaults,      \* bound: cuts, silent losses, kills and failed token sends
    MaxTunnels,     \* bound: tunnels of the pool the client dials
    RecoverWithin   \* seconds claimed by RecoversInTime

ASSUME TcpLinkAssumption ==
    /\ Nil \notin Slots
    /\ ChannelSize \in Nat \ {0}
    /\ {RestartSleep, TokenDeadline, RetryInterval, ServiceRestart} \subseteq Nat
    /\ {DialAttempts, MaxRetries, GsAtOnce} \subseteq Nat \ {0}
    /\ {MaxFaults, MaxTunnels, RecoverWithin} \subseteq Nat

Side == {"server", "client"}
Other(s) == IF s = "server" THEN "client" ELSE "server"
(* Identities for the goroutines of one kind: the current run's and what   *)
(* earlier runs left behind.                                               *)
Gs == 1..GsAtOnce
Lowest(S) == CHOOSE i \in S : \A j \in S : i <= j

VARIABLES
    conn,      \* slot -> connection: kind, both ends, bytes to be read by each
    ctx,       \* side -> its context is live
    control,   \* side -> its controlChannel field
    restart,   \* side -> Restart goroutine, or the process that is down: pc, timer
    pending,   \* side -> Restart goroutines spawned and not yet at TryLock
    handler,   \* side -> channelHandler: pc, its reader, its message channel
    reader,    \* side -> reading goroutines
    queue,     \* the server's tunnelChannel
    starter,   \* the server's goroutines in Start / channelHandshake
    bound,     \* the user ports are bound under the server's current context
    dialer,    \* the client's goroutines in channelDialer
    tunnels,   \* pool tunnels dialed so far (bound)
    faults,    \* faults so far (bound)
    down       \* history: seconds without a link since the last fault

sideVars == <<ctx, control, restart, pending, handler, reader>>
vars == <<conn, sideVars, queue, starter, bound, dialer, tunnels, faults, down>>

-----------------------------------------------------------------------------
(* Connections *)

FreshConn == [kind |-> "none", end |-> [s \in Side |-> "closed"],
              inbox |-> [s \in Side |-> <<>>], silent |-> FALSE]
NoReader == [pc |-> "none", conn |-> Nil, retries |-> 0, timer |-> 0, kept |-> 0]
NoHandler == [pc |-> "none", reader |-> 1, msgs |-> <<>>]
NoStarter == [pc |-> "none", conn |-> Nil, timer |-> 0]
NoDialer == [pc |-> "none", conn |-> Nil, timer |-> 0, attempt |-> 1, stale |-> FALSE]
Idle == [pc |-> "idle", timer |-> 0]

Queued(k) == \E i \in 1..Len(queue) : queue[i] = k
ServerHolds(k) == \/ Queued(k) \/ control["server"] = k
                  \/ \E i \in Gs : starter[i].conn = k \/ reader["server"][i].conn = k
ClientHolds(k) == \/ control["client"] = k
                  \/ \E i \in Gs : dialer[i].conn = k \/ reader["client"][i].conn = k
(* Nobody can tell any more what becomes of it: the slot can be reused. *)
Free(k) == /\ conn[k].end["client"] = "closed"
           /\ ~ServerHolds(k) /\ ~ClientHolds(k)

(* A read returns the next byte, or an error once the connection is closed *)
(* here, or closed there and the close has arrived; otherwise it blocks.   *)
CanRead(s, k) == conn[k].end[s] = "open" /\ conn[k].inbox[s] # <<>>
ReadFails(s, k) ==
    \/ conn[k].end[s] = "closed"
    \/ /\ conn[k].inbox[s] = <<>>
       /\ conn[k].end[Other(s)] = "closed" /\ ~conn[k].silent
AfterRead(s, k) == [conn EXCEPT ![k].inbox[s] = Tail(@)]

(* A write to a connection the peer has closed may or may not fail. *)
WriteFails(s, k) ==
    \/ k = Nil
    \/ conn[k].end[s] = "closed"
    \/ conn[k].end[Other(s)] = "closed" /\ ~conn[k].silent
WriteWorks(s, k) == k # Nil /\ conn[k].end[s] = "open"
AfterWrite(C, s, k, m) ==
    IF C[k].end[Other(s)] = "open"
    THEN [C EXCEPT ![k].inbox[Other(s)] = Append(@, m)]
    ELSE C

Closed(s, k) == IF k = Nil THEN conn
                ELSE [conn EXCEPT ![k].end[s] = "closed", ![k].inbox[s] = <<>>]

FreeStarter == Lowest({i \in Gs : starter[i].pc = "none"})
FreeDialer == Lowest({i \in Gs : dialer[i].pc = "none"})
FreeReader(s) == Lowest({i \in Gs : reader[s][i].pc = "none"})

(* go channelHandler(), which spawns its reading goroutine. *)
SpawnHandler(s, pc) ==
    /\ reader' = [reader EXCEPT ![s][FreeReader(s)] = [NoReader EXCEPT !.pc = "check"]]
    /\ handler' = [handler EXCEPT
                     ![s] = [pc |-> pc, reader |-> FreeReader(s), msgs |-> <<>>]]

-----------------------------------------------------------------------------
(* Both processes have just been started. *)
Init ==
    /\ conn = [k \in Slots |-> FreshConn]
    /\ ctx = [s \in Side |-> TRUE]
    /\ control = [s \in Side |-> Nil]
    /\ restart = [s \in Side |-> Idle]
    /\ pending = [s \in Side |-> 0]
    /\ handler = [s \in Side |-> NoHandler]
    /\ reader = [s \in Side |-> [i \in Gs |-> NoReader]]
    /\ queue = <<>>
    /\ starter = [i \in Gs |-> IF i = 1 THEN [NoStarter EXCEPT !.pc = "select"]
                                          ELSE NoStarter]
    /\ dialer = [i \in Gs |-> IF i = 1 THEN [NoDialer EXCEPT !.pc = "top"]
                                         ELSE NoDialer]
    /\ bound = FALSE /\ tunnels = 0 /\ faults = 0 /\ down = 0

-----------------------------------------------------------------------------
(* Restart, on either side *)

RestartBegin(s) ==
    /\ pending[s] > 0 /\ restart[s].pc = "idle"
    /\ pending' = [pending EXCEPT ![s] = @ - 1]
    /\ restart' = [restart EXCEPT ![s].pc = "close"]
    /\ ctx' = [ctx EXCEPT ![s] = FALSE]
    /\ dialer' = [i \in Gs |-> IF s = "client" /\ dialer[i].pc = "attempt"
                                 THEN [dialer[i] EXCEPT !.stale = TRUE] ELSE dialer[i]]
    /\ bound' = (bound /\ s # "server")
    /\ UNCHANGED <<conn, control, handler, reader, queue, starter, tunnels, faults, down>>

RestartSkip(s) ==
    /\ pending[s] > 0 /\ restart[s].pc # "idle"
    /\ pending' = [pending EXCEPT ![s] = @ - 1]
    /\ UNCHANGED <<conn, ctx, control, restart, handler, reader, queue, starter,
                   dialer, bound, tunnels, faults, down>>

(* controlChannel.Close() runs after cancel(): channelHandler may or may   *)
(* not get SG_Closed out in between.                                       *)
RestartClose(s) ==
    /\ restart[s].pc = "close"
    /\ conn' = Closed(s, control[s])
    /\ restart' = [restart EXCEPT ![s] = [pc |-> "sleep", timer |-> RestartSleep]]
    /\ UNCHANGED <<ctx, control, pending, handler, reader, queue, starter, dialer,
                   bound, tunnels, faults, down>>

(* The fields are re-initialised and Start runs: the server listens again  *)
(* with an empty tunnelChannel, the client goes dialing.  Connections in   *)
(* the old tunnelChannel are dropped without being closed.                 *)
RestartFinish(s) ==
    /\ restart[s].pc \in {"sleep", "dead"} /\ restart[s].timer = 0
    /\ restart' = [restart EXCEPT ![s] = Idle]
    /\ ctx' = [ctx EXCEPT ![s] = TRUE]
    /\ control' = [control EXCEPT ![s] = Nil]
    /\ \/ /\ s = "server"
          /\ queue' = <<>>
          /\ starter' = [starter EXCEPT ![FreeStarter].pc = "select"]
          /\ UNCHANGED dialer
       \/ /\ s = "client"
          /\ dialer' = [dialer EXCEPT ![FreeDialer].pc = "top"]
          /\ UNCHANGED <<queue, starter>>
    /\ UNCHANGED <<conn, pending, handler, reader, bound, tunnels, faults, down>>

(* The process of a side ends and systemd starts it ServiceRestart seconds *)
(* later (Restart=always, RestartSec=3); from there on it does what        *)
(* RestartFinish does.                                                     *)
ProcessDies(s) ==
    /\ conn' = [k \in Slots |-> [conn[k] EXCEPT !.end[s] = "closed", !.inbox[s] = <<>>]]
    /\ ctx' = [ctx EXCEPT ![s] = FALSE]
    /\ control' = [control EXCEPT ![s] = Nil]
    /\ restart' = [restart EXCEPT ![s] = [pc |-> "dead", timer |-> ServiceRestart]]
    /\ pending' = [pending EXCEPT ![s] = 0]
    /\ handler' = [handler EXCEPT ![s] = NoHandler]
    /\ reader' = [reader EXCEPT ![s] = [i \in Gs |-> NoReader]]
    /\ queue' = IF s = "server" THEN <<>> ELSE queue
    /\ starter' = IF s = "server" THEN [i \in Gs |-> NoStarter] ELSE starter
    /\ bound' = (bound /\ s # "server")
    /\ dialer' = IF s = "client" THEN [i \in Gs |-> NoDialer] ELSE dialer

-----------------------------------------------------------------------------
(* The reading goroutine of channelHandler, on either side.  It re-reads   *)
(* the ctx and controlChannel fields each time around.                     *)

(* Mutant: one retry too many. *)
LastTryOffByOne(r) == r.retries + 1 > MaxRetries
LastTry(r) == r.retries + 1 >= MaxRetries

ReaderFailed(r) ==
    IF LastTry(r)
    THEN NoReader
    ELSE [r EXCEPT !.pc = "sleep", !.conn = Nil, !.retries = @ + 1, !.timer = r.retries + 1]
ReaderAsksRestart(r) == IF LastTry(r) THEN 1 ELSE 0

ReaderCheck(s, i) ==
    /\ reader[s][i].pc = "check"
    /\ \/ /\ ~ctx[s]
          /\ reader' = [reader EXCEPT ![s][i] = NoReader]
          /\ UNCHANGED pending
       \/ /\ ctx[s] /\ control[s] # Nil
          /\ reader' = [reader EXCEPT ![s][i].pc = "read", ![s][i].conn = control[s]]
          /\ UNCHANGED pending
       \/ /\ ctx[s] /\ control[s] = Nil     \* "unsupported connection type"
          /\ reader' = [reader EXCEPT ![s][i] = ReaderFailed(@)]
          /\ pending' = [pending EXCEPT ![s] = @ + ReaderAsksRestart(reader[s][i])]
    /\ UNCHANGED <<conn, ctx, control, restart, handler, queue, starter, dialer,
                   bound, tunnels, faults, down>>

(* A byte goes to the message channel of the channelHandler that spawned   *)
(* the goroutine.  A leftover of an earlier run feeds a channel nobody     *)
(* reads; the server's holds one byte, the next one blocks it for good.    *)
ReaderGets(s, i) ==
    LET r == reader[s][i]
        m == Head(conn[r.conn].inbox[s])
        owned == handler[s].pc # "none" /\ handler[s].reader = i
    IN  /\ r.pc = "read" /\ CanRead(s, r.conn)
        /\ conn' = AfterRead(s, r.conn)
        /\ \/ /\ owned
              /\ handler' = [handler EXCEPT ![s].msgs = Append(@, m)]
              /\ reader' = [reader EXCEPT ![s][i] = [NoReader EXCEPT !.pc = "check"]]
           \/ /\ ~owned
              /\ reader' = [reader EXCEPT ![s][i] =
                              IF r.kept = 0 \/ s = "client"
                              THEN [NoReader EXCEPT !.pc = "check", !.kept = 1]
                              ELSE NoReader]
              /\ UNCHANGED handler
        /\ UNCHANGED <<ctx, control, restart, pending, queue, starter, dialer,
                       bound, tunnels, faults, down>>

(* Mutant: giving up without a Restart. *)
ReaderFailsQuietly(s, i) ==
    /\ reader[s][i].pc = "read" /\ ReadFails(s, reader[s][i].conn)
    /\ reader' = [reader EXCEPT ![s][i] = ReaderFailed(@)]
    /\ UNCHANGED <<conn, ctx, control, restart, pending, handler, queue, starter,
                   dialer, bound, tunnels, faults, down>>

ReaderFails(s, i) ==
    /\ reader[s][i].pc = "read" /\ ReadFails(s, reader[s][i].conn)
    /\ reader' = [reader EXCEPT ![s][i] = ReaderFailed(@)]
    /\ pending' = [pending EXCEPT ![s] = @ + ReaderAsksRestart(reader[s][i])]
    /\ UNCHANGED <<conn, ctx, control, restart, handler, queue, starter, dialer,
                   bound, tunnels, faults, down>>

ReaderWakes(s, i) ==
    /\ reader[s][i].pc = "sleep" /\ reader[s][i].timer = 0
    /\ reader' = [reader EXCEPT ![s][i].pc = "check"]
    /\ UNCHANGED <<conn, ctx, control, restart, pending, handler, queue, starter,
                   dialer, bound, tunnels, faults, down>>

-----------------------------------------------------------------------------
(* channelHandler *)

HandlerEnds(s, asks) ==
    /\ handler' = [handler EXCEPT ![s] = NoHandler]
    /\ pending' = [pending EXCEPT ![s] = @ + asks]

(* The context is done: a last SG_Closed, if it still can be written. *)
HandlerCancelled(s) ==
    /\ handler[s].pc = "run" /\ ~ctx[s]
    /\ HandlerEnds(s, 0)
    /\ \/ WriteWorks(s, control[s]) /\ conn' = AfterWrite(conn, s, control[s], "closed")
       \/ WriteFails(s, control[s]) /\ UNCHANGED conn
    /\ UNCHANGED <<ctx, control, restart, reader, queue, starter, dialer,
                   bound, tunnels, faults, down>>

(* The server measures the round trip before anything else. *)
HandlerMeasures ==
    /\ handler["server"].pc = "rtt"
    /\ \/ /\ WriteWorks("server", control["server"])
          /\ conn' = AfterWrite(conn, "server", control["server"], "rtt")
          /\ handler' = [handler EXCEPT !["server"].pc = "run"]
          /\ UNCHANGED pending
       \/ /\ WriteFails("server", control["server"])
          /\ HandlerEnds("server", 1)
          /\ UNCHANGED conn
    /\ UNCHANGED <<ctx, control, restart, reader, queue, starter, dialer,
                   bound, tunnels, faults, down>>

(* SG_Closed restarts; SG_RTT ends the server's measurement and is echoed  *)
(* by the client.                                                          *)
HandlerMessage(s) ==
    LET m == Head(handler[s].msgs)
        done == [handler EXCEPT ![s].msgs = Tail(@)]
    IN  /\ handler[s].pc = "run" /\ handler[s].msgs # <<>>
        /\ \/ m = "closed" /\ HandlerEnds(s, 1) /\ UNCHANGED conn
           \/ /\ m = "rtt" /\ s = "server"
              /\ handler' = done /\ UNCHANGED <<conn, pending>>
           \/ /\ m = "rtt" /\ s = "client" /\ WriteWorks(s, control[s])
              /\ conn' = AfterWrite(conn, s, control[s], "rtt")
              /\ handler' = done /\ UNCHANGED pending
           \/ /\ m = "rtt" /\ s = "client" /\ WriteFails(s, control[s])
              /\ HandlerEnds(s, 1) /\ UNCHANGED conn
        /\ UNCHANGED <<ctx, control, restart, reader, queue, starter, dialer,
                       bound, tunnels, faults, down>>

(* The server's heartbeat or request cannot be written.  (One that can     *)
(* changes nothing here.)                                                  *)
HeartbeatFails ==
    /\ handler["server"].pc = "run" /\ WriteFails("server", control["server"])
    /\ HandlerEnds("server", 1)
    /\ UNCHANGED <<conn, ctx, control, restart, reader, queue, starter, dialer,
                   bound, tunnels, faults, down>>

-----------------------------------------------------------------------------
(* Server: Start and channelHandshake *)

StarterCancelled(i) ==
    /\ starter[i].pc = "select" /\ ~ctx["server"]
    /\ starter' = [starter EXCEPT ![i].pc = "finish"]
    /\ UNCHANGED <<conn, sideVars, queue, dialer, bound, tunnels, faults, down>>

StarterTakes(i) ==
    /\ starter[i].pc = "select" /\ queue # <<>>
    /\ starter' = [starter EXCEPT ![i] = [pc |-> "verify", conn |-> Head(queue),
                                          timer |-> TokenDeadline]]
    /\ queue' = Tail(queue)
    /\ UNCHANGED <<conn, sideVars, dialer, bound, tunnels, faults, down>>

(* The token arrived and is echoed: this is the control channel, even if   *)
(* the client has given up on it meanwhile.                                *)
StarterAccepts(i) ==
    LET k == starter[i].conn IN
    /\ starter[i].pc = "verify" /\ CanRead("server", k)
    /\ WriteWorks("server", k)
    /\ conn' = AfterWrite(AfterRead("server", k), "server", k, "token")
    /\ control' = [control EXCEPT !["server"] = k]
    /\ starter' = [starter EXCEPT ![i] = [NoStarter EXCEPT !.pc = "finish"]]
    /\ UNCHANGED <<ctx, restart, pending, handler, reader, queue, dialer,
                   bound, tunnels, faults, down>>

(* Mutant: no read deadline while the token is awaited. *)
StarterRejectsNoDeadline(i) ==
    LET k == starter[i].conn IN
    /\ starter[i].pc = "verify"
    /\ ReadFails("server", k) \/ (CanRead("server", k) /\ WriteFails("server", k))
    /\ conn' = Closed("server", k)
    /\ starter' = [starter EXCEPT ![i] = [NoStarter EXCEPT !.pc = "select"]]
    /\ UNCHANGED <<sideVars, queue, dialer, bound, tunnels, faults, down>>

(* Nothing in time, end of file, or the echo cannot be written. *)
StarterRejects(i) ==
    LET k == starter[i].conn IN
    /\ starter[i].pc = "verify"
    /\ \/ starter[i].timer = 0 /\ ~CanRead("server", k)
       \/ ReadFails("server", k)
       \/ CanRead("server", k) /\ WriteFails("server", k)
    /\ conn' = Closed("server", k)
    /\ starter' = [starter EXCEPT ![i] = [NoStarter EXCEPT !.pc = "select"]]
    /\ UNCHANGED <<sideVars, queue, dialer, bound, tunnels, faults, down>>

(* Start returns.  With a control channel it has spawned channelHandler    *)
(* and the listeners of the user ports; net.Listen on a port a leftover    *)
(* Start has bound already ends the process (logger.Fatalf).               *)
StarterFinishes(i) ==
    /\ starter[i].pc = "finish"
    /\ \/ /\ control["server"] # Nil /\ ~bound
          /\ bound' = ctx["server"]
          /\ starter' = [starter EXCEPT ![i] = NoStarter]
          /\ SpawnHandler("server", "rtt")
          /\ UNCHANGED <<conn, ctx, control, restart, pending, queue, dialer>>
       \/ control["server"] # Nil /\ bound /\ ProcessDies("server")
       \/ /\ control["server"] = Nil
          /\ starter' = [starter EXCEPT ![i] = NoStarter]
          /\ UNCHANGED <<conn, sideVars, queue, bound, dialer>>
    /\ UNCHANGED <<tunnels, faults, down>>

(* With a control channel, a handleLoop gives the next connection in       *)
(* tunnelChannel to a user: a pool tunnel leaves for its relay; a client   *)
(* that was waiting for the token gets a target address instead.           *)
HandleLoopTakes ==
    LET k == Head(queue) IN
    /\ handler["server"].pc = "run" /\ ctx["server"] /\ queue # <<>>
    /\ queue' = Tail(queue)
    /\ conn' = IF conn[k].kind = "tunnel"
               THEN [conn EXCEPT ![k] = FreshConn]
               ELSE AfterWrite(conn, "server", k, "addr")
    /\ UNCHANGED <<sideVars, starter, dialer, bound, tunnels, faults, down>>

-----------------------------------------------------------------------------
(* Client: channelDialer and the pool *)

QueueTakesOne == Len(queue) < ChannelSize

(* acceptTunnelConn queues a dialed connection, or closes it; it is        *)
(* listening exactly while the server's context is live.                   *)
Accepted(k, kind, hello) ==
    LET end == IF QueueTakesOne THEN "open" ELSE "closed"
    IN  /\ Free(k)
        /\ conn' = [conn EXCEPT ![k] =
                      [kind |-> kind,
                       end |-> [s \in Side |-> IF s = "server" THEN end ELSE "open"],
                       inbox |-> [s \in Side |-> IF s = "server" /\ end = "open"
                                                 THEN hello ELSE <<>>],
                       silent |-> FALSE]]
        /\ queue' = IF end = "open" THEN Append(queue, k) ELSE queue

DialerTop(i) ==
    /\ dialer[i].pc = "top"
    /\ dialer' = [dialer EXCEPT ![i] =
                    IF ctx["client"] THEN [NoDialer EXCEPT !.pc = "attempt"] ELSE NoDialer]
    /\ UNCHANGED <<conn, sideVars, queue, starter, bound, tunnels, faults, down>>

(* TcpDialer succeeds and the token is sent. *)
DialerConnects(i, k) ==
    /\ dialer[i].pc = "attempt" /\ dialer[i].timer = 0 /\ ~dialer[i].stale
    /\ ctx["server"]
    /\ Accepted(k, "control", <<"token">>)
    /\ dialer' = [dialer EXCEPT ![i] = [NoDialer EXCEPT !.pc = "await", !.conn = k,
                                                        !.timer = TokenDeadline]]
    /\ UNCHANGED <<sideVars, starter, bound, tunnels, faults, down>>

(* The server closed the connection before the token got out: the dialer   *)
(* starts over without sleeping.                                           *)
DialerSendFails(i) ==
    LET k == dialer[i].conn IN
    /\ faults < MaxFaults /\ faults' = faults + 1
    /\ dialer[i].pc = "await" /\ dialer[i].timer = TokenDeadline
    /\ conn[k].end["server"] = "closed"
    /\ conn' = Closed("client", k)
    /\ dialer' = [dialer EXCEPT ![i] = [NoDialer EXCEPT !.pc = "top"]]
    /\ UNCHANGED <<sideVars, queue, starter, bound, tunnels, down>>

(* Nobody is listening, or the context this TcpDialer got is done: back    *)
(* off, and after the last attempt sleep RetryInterval.                    *)
DialerRefused(i) ==
    LET d == dialer[i] IN
    /\ d.pc = "attempt" /\ d.timer = 0
    /\ ~ctx["server"] \/ d.stale
    /\ dialer' = [dialer EXCEPT ![i] =
                    IF d.attempt < DialAttempts
                    THEN [d EXCEPT !.attempt = @ + 1, !.timer = 2 ^ (d.attempt - 1)]
                    ELSE [NoDialer EXCEPT !.pc = "retry", !.timer = RetryInterval]]
    /\ UNCHANGED <<conn, sideVars, queue, starter, bound, tunnels, faults, down>>

(* The echo arrived: poolMaintainer and channelHandler are spawned. *)
DialerLinked(i) ==
    LET k == dialer[i].conn IN
    /\ dialer[i].pc = "await" /\ CanRead("client", k)
    /\ Head(conn[k].inbox["client"]) = "token"
    /\ conn' = AfterRead("client", k)
    /\ control' = [control EXCEPT !["client"] = k]
    /\ dialer' = [dialer EXCEPT ![i] = NoDialer]
    /\ SpawnHandler("client", "run")
    /\ UNCHANGED <<ctx, restart, pending, queue, starter, bound, tunnels, faults, down>>

(* Timeout, end of file, or something that is not the token. *)
DialerGivesUp(i) ==
    LET k == dialer[i].conn IN
    /\ dialer[i].pc = "await"
    /\ \/ dialer[i].timer = 0 /\ ~CanRead("client", k)
       \/ ReadFails("client", k)
       \/ CanRead("client", k) /\ Head(conn[k].inbox["client"]) # "token"
    /\ conn' = Closed("client", k)
    /\ dialer' = [dialer EXCEPT ![i] = [NoDialer EXCEPT !.pc = "retry",
                                                        !.timer = RetryInterval]]
    /\ UNCHANGED <<sideVars, queue, starter, bound, tunnels, faults, down>>

DialerRetries(i) ==
    /\ dialer[i].pc = "retry" /\ dialer[i].timer = 0
    /\ dialer' = [dialer EXCEPT ![i] = [NoDialer EXCEPT !.pc = "top"]]
    /\ UNCHANGED <<conn, sideVars, queue, starter, bound, tunnels, faults, down>>

(* A tunnelDialer connects; it says nothing until it is spoken to, and it  *)
(* outlives the client's Restart.                                          *)
DialTunnel(k) ==
    /\ handler["client"].pc = "run" /\ ctx["client"] /\ ctx["server"]
    /\ tunnels < MaxTunnels
    /\ Accepted(k, "tunnel", <<>>)
    /\ tunnels' = tunnels + 1
    /\ UNCHANGED <<sideVars, starter, bound, dialer, faults, down>>

(* tunnelDialer's receive fails once the server has closed the tunnel. *)
TunnelCloses(k) ==
    /\ conn[k].kind = "tunnel" /\ conn[k].end["client"] = "open"
    /\ conn[k].end["server"] = "closed"
    /\ conn' = Closed("client", k)
    /\ UNCHANGED <<sideVars, queue, starter, dialer, bound, tunnels, faults, down>>

-----------------------------------------------------------------------------
(* The environment *)

(* The runtime closes a connection the server no longer refers to; one     *)
(* that went to a relay is closed when the user leaves.                    *)
Collect(k) ==
    /\ conn[k].end["server"] = "open" /\ ~ServerHolds(k)
    /\ conn[k].end["client"] = "open"
    /\ conn' = Closed("server", k)
    /\ UNCHANGED <<sideVars, queue, starter, dialer, bound, tunnels, faults, down>>

Fault == faults < MaxFaults /\ faults' = faults + 1 /\ down' = 0

(* A control connection, or a candidate for one, breaks visibly for both   *)
(* sides.                                                                  *)
Cut ==
    /\ Fault
    /\ \E k \in Slots :
         /\ conn[k].kind = "control" /\ \E s \in Side : conn[k].end[s] = "open"
         /\ conn' = [conn EXCEPT ![k] = [FreshConn EXCEPT !.kind = "control"]]
    /\ UNCHANGED <<sideVars, queue, starter, dialer, bound, tunnels>>

(* The same connection is lost without a sign: side s runs into it first,  *)
(* and the other, which may be reading without a deadline, does not learn  *)
(* of it until keep-alive or a heartbeat of its own does (Detect).         *)
SilentLoss(s) ==
    /\ Fault
    /\ \E k \in Slots :
         /\ conn[k].kind = "control" /\ conn[k].end[s] = "open"
         /\ conn[k].end[Other(s)] = "open"
         /\ conn' = [Closed(s, k) EXCEPT ![k].silent = TRUE]
    /\ UNCHANGED <<sideVars, queue, starter, dialer, bound, tunnels>>

Detect(k) ==
    /\ conn[k].silent
    /\ conn' = [conn EXCEPT ![k].silent = FALSE]
    /\ down' = 0
    /\ UNCHANGED <<sideVars, queue, starter, dialer, bound, tunnels, faults>>

(* A process is killed, in the middle of its Restart or not, and started   *)
(* again by its service manager.                                           *)
Kill(s) ==
    /\ Fault
    /\ restart[s].pc # "dead"
    /\ ProcessDies(s)
    /\ UNCHANGED tunnels

-----------------------------------------------------------------------------
SideStep(s) == \/ RestartBegin(s) \/ RestartSkip(s) \/ RestartClose(s) \/ RestartFinish(s)
               \/ HandlerCancelled(s) \/ HandlerMessage(s)
               \/ \E i \in Gs : \/ ReaderCheck(s, i) \/ ReaderGets(s, i)
                                  \/ ReaderFails(s, i) \/ ReaderWakes(s, i)
StarterStep(i) == \/ StarterCancelled(i) \/ StarterTakes(i) \/ StarterAccepts(i)
                  \/ StarterRejects(i) \/ StarterFinishes(i)
DialerStep(i) == \/ DialerTop(i) \/ DialerRefused(i) \/ DialerLinked(i)
                 \/ DialerGivesUp(i) \/ DialerRetries(i)
                 \/ \E k \in Slots : DialerConnects(i, k)

Urgent == \/ \E s \in Side : SideStep(s)
          \/ HandlerMeasures
          \/ \E i \in Gs : StarterStep(i) \/ DialerStep(i)
          \/ \E k \in Slots : TunnelCloses(k)

Linked ==
    LET k == control["server"] IN
    /\ k # Nil /\ control["client"] = k
    /\ \A s \in Side : /\ conn[k].end[s] = "open"
                       /\ ctx[s] /\ handler[s].pc = "run"

Sooner(t) == IF t > 0 THEN t - 1 ELSE 0

(* One second passes once every goroutine that can run has run. *)
Tick ==
    /\ ~ENABLED Urgent
    /\ restart' = [s \in Side |-> [restart[s] EXCEPT !.timer = Sooner(@)]]
    /\ reader' = [s \in Side |-> [i \in Gs |-> [reader[s][i] EXCEPT !.timer = Sooner(@)]]]
    /\ starter' = [i \in Gs |-> [starter[i] EXCEPT !.timer = Sooner(@)]]
    /\ dialer' = [i \in Gs |-> [dialer[i] EXCEPT !.timer = Sooner(@)]]
    /\ down' = IF Linked \/ (\E k \in Slots : conn[k].silent) THEN 0
               ELSE IF down > RecoverWithin THEN down ELSE down + 1
    /\ UNCHANGED <<conn, ctx, control, pending, handler, queue, bound, tunnels, faults>>

Environment == \/ HeartbeatFails \/ HandleLoopTakes
               \/ \E i \in Gs : DialerSendFails(i)
               \/ Cut \/ \E s \in Side : SilentLoss(s) \/ Kill(s)
               \/ \E k \in Slots : DialTunnel(k) \/ Collect(k) \/ Detect(k)

Next == Urgent \/ Tick \/ Environment

(* The clock advances, runnable goroutines run, a silent loss is noticed   *)
(* (TCP keep-alive), unreachable connections are finalised.                *)
Fairness == /\ WF_vars(Urgent) /\ WF_vars(Tick)
            /\ \A k \in Slots : WF_vars(Collect(k)) /\ WF_vars(Detect(k))

Spec == Init /\ [][Next]_vars
FairSpec == Spec /\ Fairness

-----------------------------------------------------------------------------
(* The link heals: once the faults stop, both sides end up for good with   *)
(* the same, open control connection and their handlers running on it.     *)
Relinks == <>[]Linked

(* ... within RecoverWithin seconds of the last fault (of its detection,   *)
(* when the loss is silent), whichever side noticed first and whatever     *)
(* was left in tunnelChannel and of the previous run.                      *)
RecoversInTime == down <= RecoverWithin
=============================================================================
