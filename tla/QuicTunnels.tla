----------------------------- MODULE QuicTunnels -----------------------------
(***************************************************************************)
(* Tunnels of the quic transport, both sides, across restarts of the       *)
(* server.                                                                 *)
(*                                                                         *)
(* handleTunConn gives one tunnel at a time to a handleSession, which puts *)
(* MuxCon users on it, each on a stream.  handleTunConn goes on when the   *)
(* session signals on the unbuffered channel next: because it is full or   *)
(* because it failed.  The client dials tunnels when asked (SG_Chan, one   *)
(* per full session) and when poolChecker counts too few of them.          *)
(*                                                                         *)
(* ctx, localChan, tunnelChan and getNewConnChan are fields that Restart   *)
(* replaces; a goroutine keeps those it read when it entered its select,   *)
(* and reads them again the next time round, in whatever run that is.      *)
(*                                                                         *)
(* A connection that arrives while s.controlChannel is nil is given to a   *)
(* channelHandshake of its own.  Nothing makes these wait for each other:  *)
(* two may succeed.  Some port is configured, and a handshake that would   *)
(* succeed in the moment between Restart's cancel and the end of           *)
(* TunnelListener fails here.                                              *)
(***************************************************************************)
EXTENDS Integers, Sequences, FiniteSets

CONSTANTS
    QtMaxTunnels,   \* bound: tunnels at a time
    QtMaxLocals,    \* bound: connections of users
    QtMaxRuns,      \* bound: runs of the server
    QtMaxLinks,     \* bound: handshakes and keepalives at a time
    QtChannelSize,  \* config.ChannelSize
    QtMuxCon,       \* config.MuxCon
    QtPoolSize      \* config.ConnectionPool of the client

ASSUME QuicTunnelsAssumption ==
    /\ {QtMaxTunnels, QtMaxLocals, QtMaxLinks, QtPoolSize} \subseteq Nat
    /\ {QtMaxRuns, QtChannelSize, QtMuxCon} \subseteq Nat \ {0}

QtTunnels == 1..QtMaxTunnels
QtRuns == 1..QtMaxRuns

VARIABLES
    qtRun,      \* number of the context in s.ctx
    qtPhase,    \* it is live, cancelled, or cancelled with its listener closed;
                \* or the process has exited
    qtControl,  \* s.controlChannel is set
    qtCold,     \* s.coldStart
    qtLinks,    \* how many handshakes, keepalives starting (AcceptStream) and
                \* keepalives in their loop there are
    qtTun,      \* tunnel -> its state
    qtQueue,    \* run -> its tunnelChan
    qtLocal,    \* run -> users in its localChan
    qtLoop,     \* run -> the handleTunConn it started: pc, run whose fields it holds
    qtRequests, \* elements of getNewConnChan
    qtPool,     \* the client's poolChecker was started
    qtAccepted, \* users put in a localChan so far
    qtEnded     \* relays that ended so far

qtServer == <<qtRun, qtPhase, qtControl, qtCold, qtLinks>>
qtVars == <<qtServer, qtTun, qtQueue, qtLocal, qtLoop, qtRequests, qtPool, qtAccepted, qtEnded>>

(* client: tunnelDialer and handleTunnelConn; at: place at the server;     *)
(* dead: closed; pc, run, loop, count, relays: its handleSession.          *)
QtNewTunnel == [client |-> "none", at |-> "none", dead |-> FALSE, pc |-> "none", run |-> 1,
                loop |-> 1, count |-> 0, relays |-> 0]

QtDone(r) == r < qtRun \/ qtPhase \in {"cancelled", "closed"}
QtNoLinks == [handshakes |-> 0, starting |-> 0, keeping |-> 0]
QtKeepers == qtLinks.starting + qtLinks.keeping

QtInit ==
    /\ qtRun = 1 /\ qtPhase = "live" /\ qtLinks = QtNoLinks
    /\ qtControl = FALSE /\ qtCold = TRUE /\ qtPool = FALSE
    /\ qtTun = [t \in QtTunnels |-> QtNewTunnel]
    /\ qtQueue = [r \in QtRuns |-> <<>>]
    /\ qtLocal = [r \in QtRuns |-> 0]
    /\ qtLoop = [r \in QtRuns |-> [pc |-> "none", run |-> r]]
    /\ qtRequests = 0 /\ qtAccepted = 0 /\ qtEnded = 0

-----------------------------------------------------------------------------
(* The control connection *)

(* acceptTunCon finds no control connection: go s.channelHandshake(conn). *)
QtCandidate ==
    /\ qtPhase = "live" /\ ~qtControl
    /\ qtLinks.handshakes + QtKeepers < QtMaxLinks
    /\ qtLinks' = [qtLinks EXCEPT !.handshakes = @ + 1]
    /\ UNCHANGED <<qtRun, qtPhase, qtControl, qtCold, qtTun, qtQueue, qtLocal, qtLoop,
                   qtRequests, qtPool, qtAccepted, qtEnded>>

(* No stream, no token in time, the wrong one, or an answer that fails. *)
QtHandshakeFails ==
    /\ qtLinks.handshakes > 0
    /\ qtLinks' = [qtLinks EXCEPT !.handshakes = @ - 1]
    /\ UNCHANGED <<qtRun, qtPhase, qtControl, qtCold, qtTun, qtQueue, qtLocal, qtLoop,
                   qtRequests, qtPool, qtAccepted, qtEnded>>

(* channelHandshake accepts the client's token and sets controlChannel,    *)
(* set or not by another handshake meanwhile.  While coldStart is set it   *)
(* starts the ports and handleTunConn.  The client's ChannelDialer starts  *)
(* poolChecker the first time, unless it has given up.                     *)
QtLinkUp ==
    /\ qtPhase = "live" /\ qtLinks.handshakes > 0
    /\ qtCold => qtLoop[qtRun].pc = "none"
    /\ qtControl' = TRUE
    /\ qtLinks' = [qtLinks EXCEPT !.handshakes = @ - 1, !.starting = @ + 1]
    /\ qtPool' \in {qtPool, TRUE}
    /\ qtLoop' = IF qtCold THEN [qtLoop EXCEPT ![qtRun] = [pc |-> "select", run |-> qtRun]]
                 ELSE qtLoop
    /\ UNCHANGED <<qtRun, qtPhase, qtCold, qtTun, qtQueue, qtLocal, qtRequests, qtAccepted, qtEnded>>

(* It does so though another handshake has started them and its keepalive  *)
(* has not cleared coldStart yet: the ports are bound already, and         *)
(* localListener ends the process, with the second handleTunConn.          *)
QtLinkUpTwice ==
    /\ qtPhase = "live" /\ qtLinks.handshakes > 0
    /\ qtCold /\ qtLoop[qtRun].pc # "none"
    /\ qtPhase' = "exited"
    /\ UNCHANGED <<qtRun, qtControl, qtCold, qtLinks, qtTun, qtQueue, qtLocal, qtLoop,
                   qtRequests, qtPool, qtAccepted, qtEnded>>

(* keepalive accepts its stream, on the controlChannel it read. *)
QtKeeperStarts ==
    /\ qtPhase = "live" /\ qtLinks.starting > 0
    /\ qtLinks' = [qtLinks EXCEPT !.starting = @ - 1, !.keeping = @ + 1]
    /\ qtCold' = FALSE
    /\ UNCHANGED <<qtRun, qtPhase, qtControl, qtTun, qtQueue, qtLocal, qtLoop, qtRequests,
                   qtPool, qtAccepted, qtEnded>>

(* AcceptStream, at its start and at every ping, on the nil controlChannel *)
(* that another keepalive left.                                            *)
QtKeeperPanics ==
    /\ qtPhase = "live" /\ QtKeepers > 0 /\ ~qtControl
    /\ qtPhase' = "exited"
    /\ UNCHANGED <<qtRun, qtControl, qtCold, qtLinks, qtTun, qtQueue, qtLocal, qtLoop,
                   qtRequests, qtPool, qtAccepted, qtEnded>>

(* keepalive: a failed read or write, an unexpected message or the 300s    *)
(* timeout forget the control connection, its own or the one that another  *)
(* handshake put there, with the request in hand or not.                   *)
QtLinkLost ==
    /\ qtPhase = "live" /\ qtLinks.keeping > 0
    /\ qtControl' = FALSE
    /\ qtLinks' = [qtLinks EXCEPT !.keeping = @ - 1]
    /\ \E n \in {0, 1} : n <= qtRequests /\ qtRequests' = qtRequests - n
    /\ UNCHANGED <<qtRun, qtPhase, qtCold, qtTun, qtQueue, qtLocal, qtLoop, qtPool, qtAccepted,
                   qtEnded>>

(* A keepalive cannot accept a stream: go s.Restart(), which cancels ctx.  *)
(* Every keepalive ends: it sees the cancelled context, or its own stream  *)
(* fails, and TryLock refuses its Restart.                                 *)
QtRestartBegins ==
    /\ qtPhase = "live" /\ QtKeepers > 0 /\ qtRun < QtMaxRuns
    /\ qtPhase' = "cancelled"
    /\ qtLinks' = [qtLinks EXCEPT !.starting = 0, !.keeping = 0]
    /\ UNCHANGED <<qtRun, qtControl, qtCold, qtTun, qtQueue, qtLocal, qtLoop, qtRequests,
                   qtPool, qtAccepted, qtEnded>>

(* TunnelListener returns and closes its socket: no connection survives.   *)
QtListenerEnds ==
    /\ qtPhase = "cancelled"
    /\ qtPhase' = "closed" /\ qtLinks' = QtNoLinks
    /\ qtTun' = [t \in QtTunnels |-> [qtTun[t] EXCEPT !.dead = @ \/ qtTun[t].at # "none"]]
    /\ UNCHANGED <<qtRun, qtControl, qtCold, qtQueue, qtLocal, qtLoop, qtRequests, qtPool,
                   qtAccepted, qtEnded>>

QtRestartEnds ==
    /\ qtPhase = "closed"
    /\ qtRun' = qtRun + 1 /\ qtPhase' = "live"
    /\ qtControl' = FALSE /\ qtCold' = TRUE /\ qtRequests' = 0
    /\ UNCHANGED <<qtLinks, qtTun, qtQueue, qtLocal, qtLoop, qtPool, qtAccepted, qtEnded>>

-----------------------------------------------------------------------------
(* The client's tunnels *)

QtInQueue(t) == \E r \in QtRuns : \E i \in 1..Len(qtQueue[r]) : qtQueue[r][i] = t

(* The number names a tunnel that is over on both sides, or none yet. *)
QtFree(t) == /\ qtTun[t].client = "none" /\ qtTun[t].pc \in {"none", "ended"}
             /\ qtTun[t].relays = 0 /\ ~QtInQueue(t)

(* go c.tunnelDialer(), n times; the numbers that are free are taken in    *)
(* order.                                                                  *)
QtSpawn(n) ==
    LET free == {t \in QtTunnels : QtFree(t)}
        Rank(t) == Cardinality({x \in free : x <= t})
    IN  /\ n <= Cardinality(free)
        /\ qtTun' = [t \in QtTunnels |-> CASE t \notin free -> qtTun[t]
                                          [] t \in free /\ Rank(t) <= n ->
                                               [QtNewTunnel EXCEPT !.client = "start"]
                                          [] OTHER -> QtNewTunnel]

(* A keepalive sends SG_Chan; channelListener starts a tunnelDialer,       *)
(* unless it has given this control connection up.                         *)
QtSendRequest ==
    /\ qtPhase = "live" /\ qtLinks.keeping > 0 /\ qtRequests > 0
    /\ qtRequests' = qtRequests - 1
    /\ QtSpawn(1) \/ UNCHANGED qtTun
    /\ UNCHANGED <<qtServer, qtQueue, qtLocal, qtLoop, qtPool, qtAccepted, qtEnded>>

(* activeConnections: counted from the start of tunnelDialer to its end.   *)
QtActive == Cardinality({t \in QtTunnels : qtTun[t].client \in {"dial", "open"}})

(* poolChecker, every 350ms. *)
QtPoolCheck ==
    /\ qtPool /\ QtActive < QtPoolSize \div 2
    /\ QtSpawn(QtPoolSize - QtActive)
    /\ UNCHANGED <<qtServer, qtQueue, qtLocal, qtLoop, qtRequests, qtPool, qtAccepted, qtEnded>>

(* tunnelDialer counts itself.  Its Restart of the client is for a nil     *)
(* controlChannel, which only that Restart makes: it never runs.           *)
QtDialStarts(t) ==
    /\ qtTun[t].client = "start"
    /\ qtTun' = [qtTun EXCEPT ![t].client = "dial"]
    /\ UNCHANGED <<qtServer, qtQueue, qtLocal, qtLoop, qtRequests, qtPool, qtAccepted, qtEnded>>

(* quicDialer succeeds while the server listens, or fails. *)
QtDials(t) ==
    /\ qtTun[t].client = "dial"
    /\ \/ /\ qtPhase # "closed"
          /\ qtTun' = [qtTun EXCEPT ![t].client = "open", ![t].at = "wire"]
       \/ qtTun' = [qtTun EXCEPT ![t].client = "none"]
    /\ UNCHANGED <<qtServer, qtQueue, qtLocal, qtLoop, qtRequests, qtPool, qtAccepted, qtEnded>>

(* acceptTunCon: without a control connection the tunnel is taken for one  *)
(* and waits in channelHandshake for a stream that the client never opens. *)
(* A tunnel that does not fit in tunnelChan is left open.                  *)
QtAccept(t) ==
    /\ qtTun[t].at = "wire" /\ ~qtTun[t].dead /\ qtPhase # "closed"
    /\ LET fits == qtControl /\ Len(qtQueue[qtRun]) < QtChannelSize
           at == IF ~qtControl THEN "handshake" ELSE IF fits THEN "queue" ELSE "left"
       IN  /\ qtTun' = [qtTun EXCEPT ![t].at = at]
           /\ qtQueue' = [qtQueue EXCEPT ![qtRun] = IF fits THEN Append(@, t) ELSE @]
    /\ UNCHANGED <<qtServer, qtLocal, qtLoop, qtRequests, qtPool, qtAccepted, qtEnded>>

QtBreaks(t) ==
    /\ qtTun[t].client = "open" /\ ~qtTun[t].dead
    /\ qtTun' = [qtTun EXCEPT ![t].dead = TRUE]
    /\ UNCHANGED <<qtServer, qtQueue, qtLocal, qtLoop, qtRequests, qtPool, qtAccepted, qtEnded>>

(* handleTunnelConn: AcceptStream fails on a closed tunnel. *)
QtClientEnds(t) ==
    /\ qtTun[t].client = "open" /\ qtTun[t].dead
    /\ qtTun' = [qtTun EXCEPT ![t].client = "none"]
    /\ UNCHANGED <<qtServer, qtQueue, qtLocal, qtLoop, qtRequests, qtPool, qtAccepted, qtEnded>>

-----------------------------------------------------------------------------
(* acceptLocalCon; a user that does not fit is closed at once. *)
QtAcceptLocal ==
    /\ qtLoop[qtRun].pc # "none" /\ qtPhase # "closed" /\ qtAccepted < QtMaxLocals
    /\ qtLocal[qtRun] < QtChannelSize
    /\ qtLocal' = [qtLocal EXCEPT ![qtRun] = @ + 1]
    /\ qtAccepted' = qtAccepted + 1
    /\ UNCHANGED <<qtServer, qtTun, qtQueue, qtLoop, qtRequests, qtPool, qtEnded>>

(* handleTunConn takes a tunnel, starts its session and waits on next,     *)
(* where it looks at no context.                                           *)
QtLoopTakes(l) ==
    LET r == qtLoop[l].run IN
    /\ qtLoop[l].pc = "select" /\ qtQueue[r] # <<>>
    /\ qtQueue' = [qtQueue EXCEPT ![r] = Tail(@)]
    /\ qtLoop' = [qtLoop EXCEPT ![l].pc = "next"]
    /\ LET t == Head(qtQueue[r])
       IN  qtTun' = [qtTun EXCEPT ![t].at = "session", ![t].pc = "select", ![t].run = qtRun,
                                  ![t].loop = l]
    /\ UNCHANGED <<qtServer, qtLocal, qtRequests, qtPool, qtAccepted, qtEnded>>

QtLoopCancelled(l) ==
    /\ qtLoop[l].pc = "select" /\ QtDone(qtLoop[l].run)
    /\ qtLoop' = [qtLoop EXCEPT ![l].pc = "ended"]
    /\ UNCHANGED <<qtServer, qtTun, qtQueue, qtLocal, qtRequests, qtPool, qtAccepted, qtEnded>>

(* The one second timer: the fields are read again. *)
QtLoopTimer(l) ==
    /\ qtLoop[l].pc = "select" /\ qtLoop[l].run # qtRun
    /\ qtLoop' = [qtLoop EXCEPT ![l].run = qtRun]
    /\ UNCHANGED <<qtServer, qtTun, qtQueue, qtLocal, qtRequests, qtPool, qtAccepted, qtEnded>>

-----------------------------------------------------------------------------
(* handleSession *)

(* It returns, with its local variables. *)
QtReturned(x) == [x EXCEPT !.pc = "ended", !.run = 1, !.loop = 1, !.count = 0]

QtSessionCancelled(t) ==
    /\ qtTun[t].pc = "select" /\ QtDone(qtTun[t].run)
    /\ qtTun' = [qtTun EXCEPT ![t] = QtReturned(@)]
    /\ UNCHANGED <<qtServer, qtQueue, qtLocal, qtLoop, qtRequests, qtPool, qtAccepted, qtEnded>>

QtTakeLocal(t) ==
    /\ qtTun[t].pc = "select" /\ qtLocal[qtTun[t].run] > 0
    /\ qtLocal' = [qtLocal EXCEPT ![qtTun[t].run] = @ - 1]
    /\ qtTun' = [qtTun EXCEPT ![t].pc = "open"]
    /\ UNCHANGED <<qtServer, qtQueue, qtLoop, qtRequests, qtPool, qtAccepted, qtEnded>>

(* A stream is opened and the address is sent: the relay starts, and with  *)
(* the last stream of the tunnel the session gives way to the next one.    *)
QtOpenStream(t) ==
    /\ qtTun[t].pc = "open" /\ ~qtTun[t].dead
    /\ LET full == qtTun[t].count + 1 = QtMuxCon
       IN  qtTun' = [qtTun EXCEPT ![t].count = @ + 1, ![t].relays = @ + 1,
                                  ![t].pc = IF full THEN "signal" ELSE "select",
                                  ![t].run = IF full THEN @ ELSE qtRun]
    /\ UNCHANGED <<qtServer, qtQueue, qtLocal, qtLoop, qtRequests, qtPool, qtAccepted, qtEnded>>

(* Mutant: the user goes with the session. *)
QtStreamFailsForgets(t) ==
    /\ qtTun[t].pc = "open"
    /\ qtTun' = [qtTun EXCEPT ![t].dead = TRUE, ![t].pc = "fail", ![t].run = qtRun]
    /\ UNCHANGED <<qtServer, qtQueue, qtLocal, qtLoop, qtRequests, qtPool, qtAccepted, qtEnded>>

(* Neither works on a closed tunnel, and the send can fail on an open one: *)
(* the session closes the tunnel and puts the user back.                   *)
QtStreamFails(t) ==
    /\ qtTun[t].pc = "open"
    /\ qtTun' = [qtTun EXCEPT ![t].dead = TRUE, ![t].pc = "back", ![t].run = qtRun]
    /\ UNCHANGED <<qtServer, qtQueue, qtLocal, qtLoop, qtRequests, qtPool, qtAccepted, qtEnded>>

(* Mutant: the failed session returns without a signal. *)
QtPutBackReturns(t) ==
    /\ qtTun[t].pc = "back" /\ qtLocal[qtTun[t].run] < QtChannelSize
    /\ qtLocal' = [qtLocal EXCEPT ![qtTun[t].run] = @ + 1]
    /\ qtTun' = [qtTun EXCEPT ![t] = QtReturned(@)]
    /\ UNCHANGED <<qtServer, qtQueue, qtLoop, qtRequests, qtPool, qtAccepted, qtEnded>>

(* s.localChan <- incomingConn blocks while the channel is full. *)
QtPutBack(t) ==
    /\ qtTun[t].pc = "back" /\ qtLocal[qtTun[t].run] < QtChannelSize
    /\ qtLocal' = [qtLocal EXCEPT ![qtTun[t].run] = @ + 1]
    /\ qtTun' = [qtTun EXCEPT ![t].pc = "fail"]
    /\ UNCHANGED <<qtServer, qtQueue, qtLoop, qtRequests, qtPool, qtAccepted, qtEnded>>

(* next <- struct{}{}, and handleTunConn is back at its select. *)
QtSignal(t) ==
    /\ qtTun[t].pc \in {"fail", "signal"} /\ qtLoop[qtTun[t].loop].pc = "next"
    /\ qtLoop' = [qtLoop EXCEPT ![qtTun[t].loop] = [pc |-> "select", run |-> qtRun]]
    /\ qtTun' = [qtTun EXCEPT ![t] = IF @.pc = "fail" THEN QtReturned(@)
                                           ELSE [@ EXCEPT !.pc = "request"]]
    /\ UNCHANGED <<qtServer, qtQueue, qtLocal, qtRequests, qtPool, qtAccepted, qtEnded>>

QtRequest(t) ==
    /\ qtTun[t].pc = "request"
    /\ qtRequests' = IF qtRequests < QtChannelSize THEN qtRequests + 1 ELSE qtRequests
    /\ qtTun' = [qtTun EXCEPT ![t].pc = "drain"]
    /\ UNCHANGED <<qtServer, qtQueue, qtLocal, qtLoop, qtPool, qtAccepted, qtEnded>>

(* QConnectionHandler returns and its goroutine sends to done. *)
QtRelayEnds(t) ==
    /\ qtTun[t].relays > 0
    /\ qtTun' = [qtTun EXCEPT ![t].relays = @ - 1]
    /\ qtEnded' = qtEnded + 1
    /\ UNCHANGED <<qtServer, qtQueue, qtLocal, qtLoop, qtRequests, qtPool, qtAccepted>>

(* All MuxCon relays have sent to done: the full session closes its tunnel.*)
QtDrained(t) ==
    /\ qtTun[t].pc = "drain" /\ qtTun[t].count - qtTun[t].relays = QtMuxCon
    /\ qtTun' = [qtTun EXCEPT ![t] = [QtReturned(@) EXCEPT !.dead = TRUE]]
    /\ UNCHANGED <<qtServer, qtQueue, qtLocal, qtLoop, qtRequests, qtPool, qtAccepted, qtEnded>>

-----------------------------------------------------------------------------
QtTunnelStep(t) ==
    \/ QtDialStarts(t) \/ QtDials(t) \/ QtAccept(t) \/ QtBreaks(t) \/ QtClientEnds(t)
    \/ QtSessionCancelled(t) \/ QtTakeLocal(t) \/ QtOpenStream(t) \/ QtStreamFails(t)
    \/ QtPutBack(t) \/ QtSignal(t) \/ QtRequest(t) \/ QtRelayEnds(t) \/ QtDrained(t)
QtNext ==
    /\ qtPhase # "exited"
    /\ \/ QtCandidate \/ QtHandshakeFails \/ QtLinkUp \/ QtLinkUpTwice
       \/ QtKeeperStarts \/ QtKeeperPanics \/ QtLinkLost \/ QtSendRequest
       \/ QtRestartBegins \/ QtListenerEnds \/ QtRestartEnds
       \/ QtPoolCheck \/ QtAcceptLocal
       \/ \E l \in QtRuns : QtLoopTakes(l) \/ QtLoopCancelled(l) \/ QtLoopTimer(l)
       \/ \E t \in QtTunnels : QtTunnelStep(t)

QtSpec == QtInit /\ [][QtNext]_qtVars

-----------------------------------------------------------------------------
QtTypeOK ==
    /\ qtRun \in QtRuns /\ qtPhase \in {"live", "cancelled", "closed", "exited"}
    /\ qtLinks \in [handshakes : 0..QtMaxLinks, starting : 0..QtMaxLinks,
                    keeping : 0..QtMaxLinks]
    /\ {qtControl, qtCold, qtPool} \subseteq BOOLEAN
    /\ qtTun \in [QtTunnels ->
         [client : {"none", "start", "dial", "open"}, dead : BOOLEAN,
          at : {"none", "wire", "handshake", "queue", "left", "session"},
          pc : {"none", "select", "open", "back", "fail", "signal", "request", "drain", "ended"},
          run : QtRuns, loop : QtRuns, count : 0..QtMuxCon, relays : 0..QtMuxCon]]
    /\ \A r \in QtRuns : qtQueue[r] \in Seq(QtTunnels) /\ Len(qtQueue[r]) <= QtChannelSize
    /\ qtLocal \in [QtRuns -> 0..QtChannelSize]
    /\ qtLoop \in [QtRuns -> [pc : {"none", "select", "next", "ended"}, run : QtRuns]]
    /\ qtRequests \in 0..QtChannelSize
    /\ qtAccepted \in 0..QtMaxLocals /\ qtEnded \in 0..QtMaxLocals

(* Sessions of handleTunConn l that have yet to signal on its next. *)
QtOwing(l) == {t \in QtTunnels : qtTun[t].loop = l
                  /\ qtTun[t].pc \in {"select", "open", "back", "fail", "signal"}}

(* The hand-over on next is exact: handleTunConn waits for the one session *)
(* that still owes it a signal, and no session owes one that nobody waits  *)
(* for, however sessions fill up, fail, put users back or outlive a        *)
(* restart.  Only a handleTunConn whose run was cancelled may wait for     *)
(* nobody: its session returned on ctx.Done().                             *)
QtHandover ==
    \A l \in QtRuns :
        IF qtLoop[l].pc = "next"
        THEN Cardinality(QtOwing(l)) = 1 \/ (QtOwing(l) = {} /\ QtDone(l))
        ELSE QtOwing(l) = {}

QtSumOver(S, f(_)) == Cardinality(UNION {{<<x, i>> : i \in 1..f(x)} : x \in S})

(* No user is lost between localChan, the sessions and the relays: each    *)
(* one accepted is queued in a run, held by a session, or relayed by one   *)
(* until its relay ends, though its session may fail, its tunnel break and *)
(* its run end meanwhile.                                                  *)
QtUsersKept ==
    LET Queued(r) == qtLocal[r]
        Relayed(t) == qtTun[t].relays
        held == {t \in QtTunnels : qtTun[t].pc \in {"open", "back"}}
    IN  qtAccepted = QtSumOver(QtRuns, Queued) + Cardinality(held)
                     + QtSumOver(QtTunnels, Relayed) + qtEnded
=============================================================================
