--------------------------- MODULE TcpServerProofs ---------------------------
(***************************************************************************)
(* Who owns which connection of the tcp server, and what its users see,    *)
(* for every number of connections, channel size, number of handleLoops    *)
(* and number of restarts.                                                 *)
(***************************************************************************)
EXTENDS TcpServer, TLAPS

(* What a goroutine holds follows from where it stands. *)
StarterShape(x) == (x.conn # NoConn) <=> (x.pc = "read")
LoopShape(x) == /\ (x.local # NoConn) <=> (x.pc \in {"check", "wait", "send"})
                /\ (x.tunnel # NoConn) <=> (x.pc = "send")

(* TypeOK without the goroutines. *)
Rest ==
    /\ ctx \in Runs /\ chan \in Runs /\ cancelled \in BOOLEAN
    /\ restart \in {"idle", "sleep", "swap"} /\ pending \in Nat
    /\ controlChannel \in Candidates \cup {NoConn}
    /\ tunnelChannel \in [Runs -> SUBSET Conns]
    /\ localChannel \in [Runs -> SUBSET Locals]
    /\ reqNewConnChan \in [Runs -> 0..ChannelSize]
    /\ listening \in SUBSET Runs /\ serving \in SUBSET Runs
    /\ reader \in [Runs -> {"gone", "read"}]
    /\ connState \in [Conns \cup Locals -> {"outside", "open", "closed"}]
    /\ relays \in SUBSET [local : Locals, tunnel : Conns]
    /\ born \in [Locals -> Runs \cup {-1}]

StartersTyped == /\ starter \in [Runs -> Goroutine]
                 /\ \A r \in Runs : StarterShape(starter[r])
LoopsTyped == /\ loop \in [Loops -> LoopState]
              /\ \A g \in Loops : LoopShape(loop[g])

(* TypeOK with the shapes: the type invariant that is inductive. *)
Typed == Rest /\ StartersTyped /\ LoopsTyped /\ handler \in [Runs -> Goroutine]

(* A tunnel connection is in one place, and in one of its kind. *)
TunnelApart(c) ==
    /\ \A r, s \in Runs : c \in tunnelChannel[r] /\ c \in tunnelChannel[s] => r = s
    /\ \A r, s \in Runs : starter[r].conn = c /\ starter[s].conn = c => r = s
    /\ \A g, h \in Loops : loop[g].tunnel = c /\ loop[h].tunnel = c => g = h
    /\ \A p, q \in relays : p.tunnel = c /\ q.tunnel = c => p = q
    /\ \A r, s \in Runs : c \in tunnelChannel[r] => starter[s].conn # c
    /\ \A r \in Runs, g \in Loops : c \in tunnelChannel[r] => loop[g].tunnel # c
    /\ \A r \in Runs, p \in relays : c \in tunnelChannel[r] => p.tunnel # c
    /\ \A r \in Runs, g \in Loops : starter[r].conn = c => loop[g].tunnel # c
    /\ \A r \in Runs, p \in relays : starter[r].conn = c => p.tunnel # c
    /\ \A g \in Loops, p \in relays : loop[g].tunnel = c => p.tunnel # c
    /\ controlChannel = c =>
         /\ \A r \in Runs : c \notin tunnelChannel[r] /\ starter[r].conn # c
         /\ \A g \in Loops : loop[g].tunnel # c
         /\ \A p \in relays : p.tunnel # c

(* So is a user connection. *)
LocalApart(l) ==
    /\ \A r, s \in Runs : l \in localChannel[r] /\ l \in localChannel[s] => r = s
    /\ \A g, h \in Loops : loop[g].local = l /\ loop[h].local = l => g = h
    /\ \A p, q \in relays : p.local = l /\ q.local = l => p = q
    /\ \A r \in Runs, g \in Loops : l \in localChannel[r] => loop[g].local # l
    /\ \A r \in Runs, p \in relays : l \in localChannel[r] => p.local # l
    /\ \A g \in Loops, p \in relays : loop[g].local = l => p.local # l

(* A connection that somebody other than the control channel holds is      *)
(* open; one the server has not accepted is held by nobody.                *)
HeldOpen ==
    /\ \A r \in Runs : \A c \in tunnelChannel[r] \cup localChannel[r] : connState[c] = "open"
    /\ \A r \in Runs : starter[r].conn # NoConn => connState[starter[r].conn] = "open"
    /\ \A g \in Loops : loop[g].local # NoConn => connState[loop[g].local] = "open"
    /\ \A g \in Loops : loop[g].tunnel # NoConn => connState[loop[g].tunnel] = "open"
    /\ \A p \in relays : connState[p.local] = "open" /\ connState[p.tunnel] = "open"
    /\ controlChannel # NoConn => connState[controlChannel] # "outside"

(* The inductive invariant of the ownership theorems. *)
Owned ==
    /\ Typed
    /\ HeldOpen
    /\ \A c \in Conns : TunnelApart(c)
    /\ \A l \in Locals : LocalApart(l)

(* The book of the runs: s.ctx is ahead of the channels only inside        *)
(* Restart; the handleLoops of a run do not exist before its Start has     *)
(* finished; and a user connection is in a channel of the run it was       *)
(* accepted for, or with a loop whose select captured that run's context   *)
(* or a later one.                                                         *)
RunBook ==
    /\ ctx = IF restart = "swap" THEN chan + 1 ELSE chan
    /\ cancelled <=> (restart = "sleep")
    /\ \A r \in Runs : starter[r].pc # "gone" => r <= chan
    /\ \A g \in Loops : g[1] > chan \/ starter[g[1]].pc # "gone" => loop[g] = IdleLoop
    /\ \A g \in Loops : loop[g].chan <= loop[g].ctx /\ loop[g].ctx <= ctx
    /\ \A r \in Runs : \A l \in localChannel[r] : born[l] = r
    /\ \A g \in Loops : loop[g].local # NoConn => born[loop[g].local] \in 0..loop[g].ctx

-----------------------------------------------------------------------------
(* Types *)

(* The inductive form implies the type invariant the run checks. *)
LEMMA TypedTypeOK == Typed => TypeOK
BY DEF Typed, TypeOK, Rest, StartersTyped, LoopsTyped

(* The records a goroutine starts with or ends as. *)
LEMMA Records ==
    /\ Gone \in Goroutine /\ StarterShape(Gone)
    /\ IdleLoop \in LoopState /\ LoopShape(IdleLoop)
<1>1. 0 \in Runs
    BY TcpServerAssumption DEF Runs
<1> QED
    BY <1>1 DEF Gone, IdleLoop, Goroutine, LoopState, StarterShape, LoopShape

(* The first run starts with one handshake and nothing else. *)
LEMMA InitTyped == Init => Typed
<1> SUFFICES ASSUME Init PROVE Typed
    OBVIOUS
<1>1. 0 \in Runs /\ NoConn \in Candidates \cup {NoConn} /\ 0 \in 0..ChannelSize
    BY TcpServerAssumption DEF Runs
<1>2. starter \in [Runs -> Goroutine] /\ \A r \in Runs : StarterShape(starter[r])
    <2>1. [Gone EXCEPT !.pc = "select"] \in Goroutine /\ StarterShape([Gone EXCEPT !.pc = "select"])
        BY <1>1 DEF Gone, Goroutine, StarterShape
    <2> QED
        BY <2>1, Records DEF Init
<1>3. /\ handler \in [Runs -> Goroutine]
      /\ loop \in [Loops -> LoopState] /\ \A g \in Loops : LoopShape(loop[g])
    BY Records DEF Init
<1> QED
    BY <1>1, <1>2, <1>3 DEF Init, Typed, Rest, StartersTyped, LoopsTyped

(* What an action does to one goroutine. *)
LEMMA StarterUpdate ==
    ASSUME Typed, NEW r \in Runs, NEW x \in Goroutine, StarterShape(x),
           starter' = [starter EXCEPT ![r] = x]
    PROVE  StartersTyped'
BY DEF Typed, StartersTyped

(* A handleLoop that moves to a well formed state leaves the others well   *)
(* formed.                                                                 *)
LEMMA LoopUpdate ==
    ASSUME Typed, NEW g \in Loops, NEW x \in LoopState, LoopShape(x),
           loop' = [loop EXCEPT ![g] = x]
    PROVE  LoopsTyped'
BY DEF Typed, LoopsTyped

(* Closing connections leaves each of them outside, open or closed. *)
LEMMA CloseType ==
    ASSUME Rest, NEW S
    PROVE  Close(S) \in [Conns \cup Locals -> {"outside", "open", "closed"}]
BY DEF Rest, Close

(* Steps of the listeners, of channelHandler and of its reader. *)
LEMMA ServiceTyped ==
    ASSUME Typed, NEW r \in Runs,
           AcceptStep \/ CloseListeners(r) \/ HandlerCancelled(r) \/ HandlerRequest(r)
             \/ HandlerGivesUp(r) \/ ReaderEnds(r)
    PROVE  Typed'
<1> USE DEF Typed, lifeVars, queueVars, listenVars
<1>1. CASE \E c \in Conns : AcceptTunnelConn(c)
    <2>1. PICK c \in Conns : AcceptTunnelConn(c)
        BY <1>1
    <2>2. Close({c}) \in [Conns \cup Locals -> {"outside", "open", "closed"}]
        BY CloseType
    <2>3. /\ [connState EXCEPT ![c] = "open"] \in [Conns \cup Locals -> {"outside", "open", "closed"}]
          /\ [tunnelChannel EXCEPT ![chan] = @ \cup {c}] \in [Runs -> SUBSET Conns]
        BY DEF Rest
    <2>4. Rest'
        BY <2>1, <2>2, <2>3 DEF AcceptTunnelConn, Rest
    <2> QED
        BY <2>1, <2>4 DEF AcceptTunnelConn, StartersTyped, LoopsTyped
<1>2. CASE \E l \in Locals : AcceptLocalConn(l)
    <2>1. PICK l \in Locals : AcceptLocalConn(l)
        BY <1>2
    <2>2. Close({l}) \in [Conns \cup Locals -> {"outside", "open", "closed"}]
        BY CloseType
    <2>3. /\ [connState EXCEPT ![l] = "open"] \in [Conns \cup Locals -> {"outside", "open", "closed"}]
          /\ [localChannel EXCEPT ![chan] = @ \cup {l}] \in [Runs -> SUBSET Locals]
        BY DEF Rest
    <2>4. /\ reqNewConnChan' \in [Runs -> 0..ChannelSize]
          /\ born' \in [Locals -> Runs \cup {-1}]
        BY <2>1, TcpServerAssumption DEF AcceptLocalConn, Rest
    <2>5. Rest'
        BY <2>1, <2>2, <2>3, <2>4, ZenonT(60) DEF AcceptLocalConn, Rest
    <2> QED
        BY <2>1, <2>5 DEF AcceptLocalConn, StartersTyped, LoopsTyped
<1>3. CASE CloseListeners(r)
    BY <1>3 DEF CloseListeners, Rest, StartersTyped, LoopsTyped
<1>4. CASE HandlerCancelled(r)
    BY <1>4, Records DEF HandlerCancelled, Rest, StartersTyped, LoopsTyped
<1>5. CASE HandlerRequest(r)
    <2>1. Rest'
        BY <1>5, TcpServerAssumption DEF HandlerRequest, Rest, Goroutine
    <2>2. Select(handler[r], "select") \in Goroutine
        <3>1. handler[r] \in Goroutine /\ ctx \in Runs /\ chan \in Runs
            BY DEF Rest
        <3> QED
            BY <3>1 DEF Select, Goroutine
    <2> QED
        BY <1>5, <2>1, <2>2, Records
        DEF HandlerRequest, StartersTyped, LoopsTyped
<1>6. CASE HandlerGivesUp(r)
    BY <1>6, Records DEF HandlerGivesUp, Rest, StartersTyped, LoopsTyped
<1>7. CASE ReaderEnds(r)
    BY <1>7 DEF ReaderEnds, Rest, StartersTyped, LoopsTyped
<1> QED
    BY <1>1, <1>2, <1>3, <1>4, <1>5, <1>6, <1>7 DEF AcceptStep

(* Steps of Start and channelHandshake. *)
LEMMA StartTyped ==
    ASSUME Typed, NEW r \in Runs,
           HandshakeCancelled(r) \/ (\E c \in Conns : HandshakeTake(r, c))
             \/ HandshakeReject(r) \/ HandshakeAccept(r) \/ StartFinish(r)
    PROVE  Typed'
<1> USE DEF Typed, lifeVars, queueVars, listenVars
<1> DEFINE x == starter[r]
<1>x. x \in Goroutine /\ StarterShape(x)
    BY DEF StartersTyped
<1>1. CASE HandshakeCancelled(r)
    <2> DEFINE y == [x EXCEPT !.pc = "finish"]
    <2>1. y \in Goroutine /\ StarterShape(y) /\ starter' = [starter EXCEPT ![r] = y]
        BY <1>x, <1>1 DEF HandshakeCancelled, Goroutine, StarterShape, StartersTyped
    <2>2. StartersTyped'
        BY <2>1, StarterUpdate
    <2> QED
        BY <1>1, <2>2 DEF HandshakeCancelled, Rest, LoopsTyped
<1>2. CASE \E c \in Conns : HandshakeTake(r, c)
    <2>0. PICK c \in Conns : HandshakeTake(r, c)
        BY <1>2
    <2> DEFINE y == [x EXCEPT !.pc = "read", !.conn = c]
    <2>1. y \in Goroutine /\ StarterShape(y) /\ starter' = [starter EXCEPT ![r] = y]
        BY <1>x, <2>0, TcpServerAssumption
        DEF HandshakeTake, Goroutine, StarterShape, StartersTyped, Conns
    <2>2. StartersTyped'
        BY <2>1, StarterUpdate
    <2>3. Rest'
        BY <2>0, <1>x DEF HandshakeTake, Rest, Goroutine
    <2> QED
        BY <2>0, <2>2, <2>3 DEF HandshakeTake, LoopsTyped
<1>3. CASE HandshakeReject(r)
    <2> DEFINE y == [Select(x, "select") EXCEPT !.conn = NoConn]
    <2>1. y \in Goroutine /\ StarterShape(y) /\ starter' = [starter EXCEPT ![r] = y]
        BY <1>x, <1>3 DEF HandshakeReject, Select, Goroutine, StarterShape, StartersTyped, Rest
    <2>2. StartersTyped'
        BY <2>1, StarterUpdate
    <2>3. Close({x.conn}) \in [Conns \cup Locals -> {"outside", "open", "closed"}]
        BY CloseType
    <2> QED
        BY <1>3, <2>2, <2>3 DEF HandshakeReject, Rest, LoopsTyped
<1>4. CASE HandshakeAccept(r)
    <2> DEFINE y == [x EXCEPT !.pc = "finish", !.conn = NoConn]
    <2>1. y \in Goroutine /\ StarterShape(y) /\ starter' = [starter EXCEPT ![r] = y]
        BY <1>x, <1>4 DEF HandshakeAccept, Goroutine, StarterShape, StartersTyped
    <2>2. StartersTyped'
        BY <2>1, StarterUpdate
    <2> QED
        BY <1>4, <2>2 DEF HandshakeAccept, Rest, LoopsTyped
<1>5. CASE StartFinish(r)
    <2>1. StartersTyped'
        BY <1>5, Records, StarterUpdate DEF StartFinish, StartersTyped
    <2>2. /\ Select(Gone, "select") \in Goroutine
          /\ Select(IdleLoop, "take") \in LoopState /\ LoopShape(Select(IdleLoop, "take"))
        BY Records DEF Select, Gone, IdleLoop, Goroutine, LoopState, LoopShape, Rest
    <2>3. LoopsTyped' /\ handler' \in [Runs -> Goroutine]
        BY <1>5, <2>2 DEF StartFinish, LoopsTyped
    <2>4. Rest'
        BY <1>5 DEF StartFinish, Rest
    <2> QED
        BY <2>1, <2>3, <2>4
<1> QED
    BY <1>1, <1>2, <1>3, <1>4, <1>5

(* Restart keeps the types. *)
LEMMA RestartTyped == Typed /\ RestartStep => Typed'
<1> SUFFICES ASSUME Typed, RestartStep PROVE Typed'
    OBVIOUS
<1> USE DEF Typed, lifeVars, queueVars, listenVars
<1>1. CASE RestartBegin
    <2>1. Close({controlChannel}) \in [Conns \cup Locals -> {"outside", "open", "closed"}]
        BY CloseType
    <2>2. connState' \in [Conns \cup Locals -> {"outside", "open", "closed"}]
        BY <1>1, <2>1, Zenon DEF RestartBegin
    <2>a. pending' \in Nat
        BY <1>1 DEF RestartBegin, Rest
    <2>3. Rest'
        BY <1>1, <2>2, <2>a DEF RestartBegin, Rest
    <2> QED
        BY <1>1, <2>3 DEF RestartBegin, StartersTyped, LoopsTyped
<1>2. CASE RestartSkip
    BY <1>2 DEF RestartSkip, Rest, StartersTyped, LoopsTyped
<1>3. CASE RestartContext
    <2>1. ctx + 1 \in Runs
        BY <1>3, TcpServerAssumption DEF RestartContext, Rest, Runs
    <2> QED
        BY <1>3, <2>1 DEF RestartContext, Rest, StartersTyped, LoopsTyped
<1>4. CASE RestartChannels
    <2> DEFINE y == [Gone EXCEPT !.pc = "select", !.ctx = ctx, !.chan = ctx]
    <2>1. y \in Goroutine /\ StarterShape(y) /\ ctx \in Runs
        BY DEF Gone, Goroutine, StarterShape, Rest
    <2>2. StartersTyped'
        BY <1>4, <2>1, StarterUpdate DEF RestartChannels, StartersTyped
    <2> QED
        BY <1>4, <2>1, <2>2 DEF RestartChannels, Rest, LoopsTyped
<1> QED
    BY <1>1, <1>2, <1>3, <1>4 DEF RestartStep

(* Every step of a handleLoop keeps the types. *)
LEMMA LoopTyped ==
    ASSUME Typed, NEW g \in Loops, LoopStep(g)
    PROVE  Typed'
<1> USE DEF Typed, lifeVars, queueVars, listenVars
<1> DEFINE x == loop[g]
<1>x. x \in LoopState /\ LoopShape(x)
    BY DEF LoopsTyped
<1>0. Select(IdleLoop, "take") \in LoopState /\ LoopShape(Select(IdleLoop, "take"))
    BY Records DEF Select, IdleLoop, LoopState, LoopShape, Rest
<1>1. CASE LoopCancelled(g)
    BY <1>1, Records, LoopUpdate DEF LoopCancelled, Rest, StartersTyped
<1>2. CASE \E l \in Locals : LoopTake(g, l)
    <2>0. PICK l \in Locals : LoopTake(g, l)
        BY <1>2
    <2> DEFINE y == [x EXCEPT !.pc = "check", !.local = l]
    <2>1. y \in LoopState /\ LoopShape(y) /\ loop' = [loop EXCEPT ![g] = y]
        BY <1>x, <2>0, TcpServerAssumption DEF LoopTake, LoopState, LoopShape, LoopsTyped
    <2>2. LoopsTyped'
        BY <2>1, LoopUpdate
    <2>3. Rest'
        BY <2>0, <1>x DEF LoopTake, Rest, LoopState
    <2> QED
        BY <2>0, <2>2, <2>3 DEF LoopTake, StartersTyped
<1>3. CASE LoopCheck(g)
    <2> DEFINE y == Select(x, "wait")
    <2>1. y \in LoopState /\ (x.pc = "check" => LoopShape(y))
        BY <1>x DEF Select, LoopState, LoopShape, Rest
    <2>2. LoopsTyped'
        BY <1>0, <1>3, <2>1, LoopUpdate DEF LoopCheck
    <2>3. Close({x.local}) \in [Conns \cup Locals -> {"outside", "open", "closed"}]
        BY CloseType
    <2>4. Rest'
        BY <1>3, <2>3 DEF LoopCheck, Rest
    <2> QED
        BY <1>3, <2>2, <2>4 DEF LoopCheck, StartersTyped
<1>4. CASE \E c \in Conns : LoopTunnel(g, c)
    <2>0. PICK c \in Conns : LoopTunnel(g, c)
        BY <1>4
    <2> DEFINE y == [x EXCEPT !.pc = "send", !.tunnel = c]
    <2>1. y \in LoopState /\ LoopShape(y) /\ loop' = [loop EXCEPT ![g] = y]
        <3>1. c # NoConn /\ x.local # NoConn
            BY <1>x, <2>0, TcpServerAssumption DEF LoopTunnel, LoopShape, Conns
        <3> QED
            BY <1>x, <2>0, <3>1 DEF LoopTunnel, LoopState, LoopShape, LoopsTyped
    <2>2. LoopsTyped'
        BY <2>1, LoopUpdate
    <2>3. Rest'
        BY <2>0, <1>x DEF LoopTunnel, Rest, LoopState
    <2> QED
        BY <2>0, <2>2, <2>3 DEF LoopTunnel, StartersTyped
<1>5. CASE LoopSend(g)
    <2> DEFINE y == [x EXCEPT !.pc = "check", !.tunnel = NoConn]
    <2>1. y \in LoopState /\ LoopShape(y)
        BY <1>x, <1>5 DEF LoopSend, LoopState, LoopShape
    <2>2. ASSUME loop' = [loop EXCEPT ![g] = Select(IdleLoop, "take")] PROVE LoopsTyped'
        BY <1>0, <2>2, LoopUpdate
    <2>3. ASSUME loop' = [loop EXCEPT ![g].pc = "check", ![g].tunnel = NoConn] PROVE LoopsTyped'
        <3>1. loop' = [loop EXCEPT ![g] = y]
            BY <2>3 DEF LoopsTyped
        <3> QED
            BY <2>1, <3>1, LoopUpdate
    <2>4. LoopsTyped'
        BY <1>5, <2>2, <2>3 DEF LoopSend
    <2>5. Close({x.tunnel}) \in [Conns \cup Locals -> {"outside", "open", "closed"}]
        BY CloseType
    <2>6. [local |-> x.local, tunnel |-> x.tunnel] \in [local : Locals, tunnel : Conns]
        BY <1>x, <1>5 DEF LoopSend, LoopState, LoopShape
    <2>7. Rest'
        BY <1>5, <2>5, <2>6 DEF LoopSend, Rest
    <2> QED
        BY <1>5, <2>4, <2>7 DEF LoopSend, StartersTyped
<1> QED
    BY <1>1, <1>2, <1>3, <1>4, <1>5 DEF LoopStep

(* Every step of the server keeps the types. *)
LEMMA TypedStep == Typed /\ [Next]_vars => Typed'
<1> SUFFICES ASSUME Typed, [Next]_vars PROVE Typed'
    OBVIOUS
<1>1. CASE UNCHANGED vars
    BY <1>1 DEF vars, lifeVars, queueVars, listenVars, Typed, Rest, StartersTyped, LoopsTyped
<1>2. CASE AcceptStep
    <2>1. 0 \in Runs
        BY TcpServerAssumption DEF Runs
    <2> QED
        BY <1>2, <2>1, ServiceTyped
<1>3. CASE \E r \in Runs : RunStep(r)
    BY <1>3, ServiceTyped, StartTyped DEF RunStep
<1> QED
    BY <1>1, <1>2, <1>3, RestartTyped, LoopTyped DEF Next

(* The state of the tcp server keeps its shape and its channels their      *)
(* capacity, however many restarts overlap with goroutines of earlier      *)
(* runs.                                                                   *)
THEOREM TypeCorrect == Spec => []TypeOK
<1>1. Spec => []Typed
    BY InitTyped, TypedStep, PTL DEF Spec
<1> QED
    BY <1>1, TypedTypeOK, PTL

-----------------------------------------------------------------------------
(* Owners *)

Apart == /\ \A c \in Conns : TunnelApart(c)
         /\ \A l \in Locals : LocalApart(l)

(* The connection state after a close. *)
LEMMA CloseValue ==
    ASSUME Rest, NEW S, NEW d \in Conns \cup Locals
    PROVE  Close(S)[d] = IF d \in S THEN "closed" ELSE connState[d]
BY DEF Rest, Close

(* Where connections are kept. *)
LEMMA Places ==
    ASSUME Typed
    PROVE  /\ \A r \in Runs : tunnelChannel[r] \subseteq Conns /\ localChannel[r] \subseteq Locals
           /\ \A r \in Runs : starter[r].conn \in Conns \cup {NoConn}
           /\ \A g \in Loops : loop[g].local \in Locals \cup {NoConn}
           /\ \A g \in Loops : loop[g].tunnel \in Conns \cup {NoConn}
           /\ \A p \in relays : p.local \in Locals /\ p.tunnel \in Conns
           /\ controlChannel \in Conns \cup {NoConn}
           /\ NoConn \notin Conns /\ NoConn \notin Locals
           /\ \A d \in Conns : d \notin Locals
BY TcpServerAssumption
DEF Typed, Rest, StartersTyped, LoopsTyped, Goroutine, LoopState, Conns

(* At the start nobody owns anything. *)
LEMMA InitOwned == Init => Owned
<1> SUFFICES ASSUME Init PROVE Owned
    OBVIOUS
<1>1. Typed
    BY InitTyped
<1>2. \A r \in Runs : starter[r].conn = NoConn
    BY DEF Init, Gone
<1>3. \A g \in Loops : loop[g].local = NoConn /\ loop[g].tunnel = NoConn
    BY DEF Init, IdleLoop
<1>4. NoConn \notin Conns /\ NoConn \notin Locals
    BY TcpServerAssumption DEF Conns
<1>5. HeldOpen
    BY <1>2, <1>3 DEF Init, HeldOpen
<1>6. Apart
    BY <1>2, <1>3, <1>4 DEF Init, Apart, TunnelApart, LocalApart
<1> QED
    BY <1>1, <1>5, <1>6 DEF Owned, Apart

(* acceptTunnelConn: the connection came from outside, where nobody held it. *)
LEMMA AcceptTunnelOwned ==
    ASSUME Owned, NEW c \in Conns, AcceptTunnelConn(c)
    PROVE  HeldOpen' /\ Apart'
<1>1. /\ \A r \in Runs : c \notin tunnelChannel[r] /\ starter[r].conn # c
      /\ \A g \in Loops : loop[g].tunnel # c
      /\ \A p \in relays : p.tunnel # c
      /\ controlChannel # c /\ c \notin Locals
    BY TcpServerAssumption DEF Owned, HeldOpen, Conns, AcceptTunnelConn
<1>2. \A d \in Conns \cup Locals : d # c => connState'[d] = connState[d]
    BY CloseValue DEF Owned, Typed, Rest, AcceptTunnelConn
<1>3. c \in tunnelChannel'[chan] => connState'[c] = "open"
    BY <1>1 DEF Owned, Typed, Rest, AcceptTunnelConn
<1>4. HeldOpen'
    <2>1. \A r \in Runs : tunnelChannel'[r] \subseteq tunnelChannel[r] \cup {c}
        BY DEF Owned, Typed, Rest, AcceptTunnelConn
    <2>2. \A r \in Runs : c \in tunnelChannel'[r] => r = chan
        BY <1>1 DEF Owned, Typed, Rest, AcceptTunnelConn
    <2> QED
        BY <1>1, <1>2, <1>3, <2>1, <2>2, Places DEF Owned, HeldOpen, AcceptTunnelConn
<1>5. ASSUME NEW d \in Conns PROVE TunnelApart(d)'
    <2>1. \A r \in Runs : d \in tunnelChannel'[r] => d \in tunnelChannel[r] \/ (d = c /\ r = chan)
        BY DEF Owned, Typed, Rest, AcceptTunnelConn
    <2>2. TunnelApart(d)
        BY DEF Owned
    <2> QED
        BY <1>1, <2>1, <2>2 DEF TunnelApart, AcceptTunnelConn
<1>6. ASSUME NEW l \in Locals PROVE LocalApart(l)'
    BY DEF Owned, LocalApart, AcceptTunnelConn
<1> QED
    BY <1>4, <1>5, <1>6 DEF Apart

(* acceptLocalConn: likewise. *)
LEMMA AcceptLocalOwned ==
    ASSUME Owned, NEW l \in Locals, AcceptLocalConn(l)
    PROVE  HeldOpen' /\ Apart'
<1>1. /\ \A r \in Runs : l \notin localChannel[r]
      /\ \A g \in Loops : loop[g].local # l
      /\ \A p \in relays : p.local # l
      /\ l \notin Conns
    BY TcpServerAssumption DEF Owned, HeldOpen, Conns, AcceptLocalConn
<1>2. \A d \in Conns \cup Locals : d # l => connState'[d] = connState[d]
    BY CloseValue DEF Owned, Typed, Rest, AcceptLocalConn
<1>3. l \in localChannel'[chan] => connState'[l] = "open"
    BY <1>1 DEF Owned, Typed, Rest, AcceptLocalConn
<1>4. HeldOpen'
    <2>1. \A r \in Runs : localChannel'[r] \subseteq localChannel[r] \cup {l}
        BY DEF Owned, Typed, Rest, AcceptLocalConn
    <2>2. \A r \in Runs : l \in localChannel'[r] => r = chan
        BY <1>1 DEF Owned, Typed, Rest, AcceptLocalConn
    <2> QED
        BY <1>1, <1>2, <1>3, <2>1, <2>2, Places DEF Owned, HeldOpen, AcceptLocalConn
<1>5. ASSUME NEW d \in Conns PROVE TunnelApart(d)'
    BY DEF Owned, TunnelApart, AcceptLocalConn
<1>6. ASSUME NEW m \in Locals PROVE LocalApart(m)'
    BY <1>1 DEF Owned, Typed, Rest, LocalApart, AcceptLocalConn
<1> QED
    BY <1>4, <1>5, <1>6 DEF Apart

(* channelHandshake: the connection moves from the channel to the          *)
(* goroutine, and from there to nobody, closed, or to the control channel. *)
LEMMA HandshakeOwned ==
    ASSUME Owned, NEW r \in Runs,
           HandshakeCancelled(r) \/ (\E c \in Conns : HandshakeTake(r, c))
             \/ HandshakeReject(r) \/ HandshakeAccept(r)
    PROVE  HeldOpen' /\ Apart'
<1>0. /\ starter[r] \in Goroutine /\ StarterShape(starter[r])
      /\ starter \in [Runs -> Goroutine] /\ tunnelChannel \in [Runs -> SUBSET Conns]
      /\ Rest /\ HeldOpen
      /\ \A d \in Conns : TunnelApart(d)
      /\ \A l \in Locals : LocalApart(l)
    BY DEF Owned, Typed, Rest, StartersTyped
<1>p. Typed
    BY DEF Owned
<1>1. CASE HandshakeCancelled(r)
    <2>1. \A s \in Runs : starter'[s].conn = starter[s].conn
        BY <1>0, <1>1 DEF HandshakeCancelled, Goroutine
    <2>2. HeldOpen'
        BY <1>0, <1>1, <2>1 DEF HandshakeCancelled, queueVars, HeldOpen
    <2>3. Apart'
        BY <1>0, <1>1, <2>1 DEF HandshakeCancelled, queueVars, Apart, TunnelApart, LocalApart
    <2> QED
        BY <2>2, <2>3
<1>2. CASE \E c \in Conns : HandshakeTake(r, c)
    <2>1. PICK c \in Conns : HandshakeTake(r, c)
        BY <1>2
    <2>2. HeldOpen'
        BY <1>0, <2>1 DEF HandshakeTake, HeldOpen, Goroutine
    <2>3. ASSUME NEW d \in Conns PROVE TunnelApart(d)'
        <3>1. \A s \in Runs : /\ d \in tunnelChannel'[s] => d \in tunnelChannel[s]
                              /\ starter'[s].conn = IF s = r THEN c ELSE starter[s].conn
            BY <1>0, <2>1 DEF HandshakeTake, Goroutine
        <3>2. TunnelApart(d) /\ TunnelApart(c) /\ starter[r].chan \in Runs
            BY <1>0 DEF Goroutine
        <3>3. c \in tunnelChannel[starter[r].chan] /\ \A s \in Runs : c \notin tunnelChannel'[s]
            BY <1>0, <2>1, <3>2, ZenonT(60) DEF HandshakeTake, TunnelApart
        <3>4. loop' = loop /\ relays' = relays /\ controlChannel' = controlChannel
            BY <2>1 DEF HandshakeTake
        <3> QED
            BY <3>1, <3>2, <3>3, <3>4 DEF TunnelApart
    <2>4. ASSUME NEW l \in Locals PROVE LocalApart(l)'
        BY <1>0, <2>1 DEF HandshakeTake, LocalApart
    <2> QED
        BY <2>2, <2>3, <2>4 DEF Apart
<1>3. CASE HandshakeReject(r)
    <2> DEFINE c == starter[r].conn
    <2>1. c \in Conns /\ c \notin Locals
        BY <1>0, <1>3, TcpServerAssumption DEF HandshakeReject, Goroutine, StarterShape, Conns
    <2>2. \A s \in Runs : starter'[s].conn = IF s = r THEN NoConn ELSE starter[s].conn
        BY <1>0, <1>3 DEF HandshakeReject, Goroutine, Select
    <2>3. \A d \in Conns \cup Locals : d # c => connState'[d] = connState[d]
        BY <1>0, <1>3, CloseValue DEF HandshakeReject
    <2>4. connState'[c] = "closed"
        BY <1>0, <1>3, <2>1 DEF HandshakeReject, Close, Rest
    <2>5. TunnelApart(c)
        BY <1>0, <2>1
    <2>a. /\ loop' = loop /\ relays' = relays /\ controlChannel' = controlChannel
          /\ tunnelChannel' = tunnelChannel /\ localChannel' = localChannel
        BY <1>3 DEF HandshakeReject, queueVars
    <2>6. HeldOpen'
        BY <1>0, <1>p, <2>1, <2>2, <2>3, <2>4, <2>5, <2>a, Places DEF HeldOpen, TunnelApart
    <2>7. Apart'
        BY <1>0, <1>3, <2>2, TcpServerAssumption
        DEF HandshakeReject, Apart, queueVars, TunnelApart, LocalApart, Conns
    <2> QED
        BY <2>6, <2>7
<1>4. CASE HandshakeAccept(r)
    <2> DEFINE c == starter[r].conn
    <2>1. \A s \in Runs : starter'[s].conn = IF s = r THEN NoConn ELSE starter[s].conn
        BY <1>0, <1>4 DEF HandshakeAccept, Goroutine
    <2>2. c \in Conns /\ c # NoConn /\ controlChannel' = c
        BY <1>0, <1>4, TcpServerAssumption DEF HandshakeAccept, StarterShape, Conns
    <2>3. TunnelApart(c)
        BY <1>0, <2>2
    <2>4. HeldOpen'
        BY <1>0, <1>4, <2>1, <2>2 DEF HandshakeAccept, HeldOpen, queueVars
    <2>5. ASSUME NEW d \in Conns PROVE TunnelApart(d)'
        BY <1>0, <1>4, <2>1, <2>2, <2>3, TcpServerAssumption
        DEF HandshakeAccept, queueVars, TunnelApart, Conns
    <2>6. ASSUME NEW l \in Locals PROVE LocalApart(l)'
        BY <1>0, <1>4 DEF HandshakeAccept, queueVars, LocalApart
    <2> QED
        BY <2>4, <2>5, <2>6 DEF Apart
<1> QED
    BY <1>1, <1>2, <1>3, <1>4

(* Start's end and Restart only take owners away, or close the control     *)
(* channel, which nobody else holds.                                       *)
LEMMA RestartOwned ==
    ASSUME Owned, RestartBegin \/ RestartChannels \/ \E r \in Runs : StartFinish(r)
    PROVE  HeldOpen' /\ Apart'
<1>0. /\ Rest /\ HeldOpen /\ Typed
      /\ starter \in [Runs -> Goroutine]
      /\ \A d \in Conns : TunnelApart(d)
      /\ \A l \in Locals : LocalApart(l)
    BY DEF Owned, Typed, StartersTyped
<1>1. CASE RestartBegin
    <2>1. /\ starter' = starter /\ loop' = loop /\ relays' = relays
          /\ controlChannel' = controlChannel
          /\ tunnelChannel' = tunnelChannel /\ localChannel' = localChannel
        BY <1>1 DEF RestartBegin, queueVars
    <2>2. \A d \in Conns \cup Locals :
            connState'[d] = IF d = controlChannel THEN "closed" ELSE connState[d]
        BY <1>0, <1>1 DEF RestartBegin, Close, Rest
    <2>3. Apart'
        BY <1>0, <2>1 DEF Apart, TunnelApart, LocalApart
    <2>4. controlChannel \notin Locals
        BY <1>0, Places
    <2>5. controlChannel # NoConn => TunnelApart(controlChannel)
        BY <1>0, Places
    <2>6. HeldOpen'
        BY <1>0, <2>1, <2>2, <2>4, <2>5, Places DEF HeldOpen, TunnelApart
    <2> QED
        BY <2>3, <2>6
<1>2. CASE RestartChannels
    <2>1. /\ loop' = loop /\ relays' = relays /\ connState' = connState
          /\ controlChannel' = NoConn
          /\ tunnelChannel' = tunnelChannel /\ localChannel' = localChannel
        BY <1>2 DEF RestartChannels, queueVars
    <2>2. \A r \in Runs : starter'[r].conn \in {starter[r].conn, NoConn}
        BY <1>0, <1>2 DEF RestartChannels, Gone, Rest
    <2>3. HeldOpen'
        BY <1>0, <2>1, <2>2 DEF HeldOpen
    <2>4. Apart'
        BY <1>0, <2>1, <2>2, Places DEF Apart, TunnelApart, LocalApart
    <2> QED
        BY <2>3, <2>4
<1>3. CASE \E r \in Runs : StartFinish(r)
    <2>1. PICK r \in Runs : StartFinish(r)
        BY <1>3
    <2>2. /\ relays' = relays /\ connState' = connState /\ controlChannel' = controlChannel
          /\ tunnelChannel' = tunnelChannel /\ localChannel' = localChannel
        BY <2>1 DEF StartFinish, queueVars
    <2>3. \A s \in Runs : starter'[s].conn \in {starter[s].conn, NoConn}
        BY <1>0, <2>1 DEF StartFinish, Gone
    <2>4. Select(IdleLoop, "take").local = NoConn /\ Select(IdleLoop, "take").tunnel = NoConn
        BY DEF Select, IdleLoop
    <2>5. \A g \in Loops : /\ loop'[g].local \in {loop[g].local, NoConn}
                           /\ loop'[g].tunnel \in {loop[g].tunnel, NoConn}
        BY <2>1, <2>4 DEF StartFinish
    <2>6. HeldOpen'
        BY <1>0, <2>2, <2>3, <2>5 DEF HeldOpen
    <2>7. Apart'
        BY <1>0, <2>2, <2>3, <2>5, Places DEF Apart, TunnelApart, LocalApart
    <2> QED
        BY <2>6, <2>7
<1> QED
    BY <1>1, <1>2, <1>3

(* A handleLoop takes a user connection out of localChannel: it changes    *)
(* its owner.                                                              *)
LEMMA LoopTakeOwned ==
    ASSUME Owned, NEW g \in Loops, NEW l \in Locals, LoopTake(g, l)
    PROVE  HeldOpen' /\ Apart'
<1>1. loop[g] \in LoopState
    BY DEF Owned, Typed, LoopsTyped
<1>2. HeldOpen'
    BY <1>1 DEF Owned, Typed, Rest, HeldOpen, LoopTake, LoopsTyped, LoopState
<1>3. ASSUME NEW c \in Conns PROVE TunnelApart(c)'
    BY <1>1 DEF Owned, Typed, Rest, TunnelApart, LoopTake, LoopsTyped, LoopState
<1>4. ASSUME NEW m \in Locals PROVE LocalApart(m)'
    BY <1>1 DEF Owned, Typed, Rest, LocalApart, LoopTake, LoopsTyped, LoopState
<1> QED
    BY <1>2, <1>3, <1>4 DEF Apart

(* handleLoop: a connection in hand is closed and dropped, dropped, or     *)
(* goes with the other one to a relay.                                     *)
LEMMA LoopOwned ==
    ASSUME Owned, NEW g \in Loops,
           LoopCancelled(g) \/ LoopCheck(g) \/ (\E c \in Conns : LoopTunnel(g, c)) \/ LoopSend(g)
    PROVE  HeldOpen' /\ Apart'
<1>0. /\ Rest /\ HeldOpen /\ Typed
      /\ loop \in [Loops -> LoopState] /\ loop[g] \in LoopState /\ LoopShape(loop[g])
      /\ \A d \in Conns : TunnelApart(d)
      /\ \A l \in Locals : LocalApart(l)
    BY DEF Owned, Typed, LoopsTyped
<1>s. Select(IdleLoop, "take").local = NoConn /\ Select(IdleLoop, "take").tunnel = NoConn
    BY DEF Select, IdleLoop
<1>1. CASE LoopCancelled(g)
    <2>1. /\ starter' = starter /\ relays' = relays /\ connState' = connState
          /\ controlChannel' = controlChannel
          /\ tunnelChannel' = tunnelChannel /\ localChannel' = localChannel
        BY <1>1 DEF LoopCancelled, queueVars
    <2>2. \A h \in Loops : /\ loop'[h].local \in {loop[h].local, NoConn}
                           /\ loop'[h].tunnel \in {loop[h].tunnel, NoConn}
        BY <1>0, <1>1 DEF LoopCancelled, IdleLoop
    <2>3. HeldOpen'
        BY <1>0, <2>1, <2>2 DEF HeldOpen
    <2>4. Apart'
        BY <1>0, <2>1, <2>2, Places DEF Apart, TunnelApart, LocalApart
    <2> QED
        BY <2>3, <2>4
<1>2. CASE LoopCheck(g)
    <2> DEFINE m == loop[g].local
    <2>0. m \in Locals /\ m \notin Conns /\ loop[g].tunnel = NoConn
        BY <1>0, <1>2, Places DEF LoopCheck, LoopShape
    <2>1. /\ starter' = starter /\ relays' = relays
          /\ controlChannel' = controlChannel
          /\ tunnelChannel' = tunnelChannel /\ localChannel' = localChannel
        BY <1>2 DEF LoopCheck, queueVars
    <2>2. \A h \in Loops : h # g => loop'[h] = loop[h]
        BY <1>0, <1>2 DEF LoopCheck
    <2>3. loop'[g].tunnel = NoConn /\ loop'[g].local \in {m, NoConn}
        <3>1. Select(loop[g], "wait").tunnel = NoConn /\ Select(loop[g], "wait").local = m
            BY <1>0, <2>0 DEF Select, LoopState
        <3> QED
            BY <1>0, <1>s, <1>2, <3>1 DEF LoopCheck
    <2>4. \A d \in Conns \cup Locals : d # m => connState'[d] = connState[d]
        BY <1>0, <1>2, CloseValue DEF LoopCheck
    <2>5. loop'[g].local = m => connState' = connState
        BY <1>0, <1>s, <1>2, <2>0, Places DEF LoopCheck
    <2>6. LocalApart(m)
        BY <1>0, <2>0
    <2>7. HeldOpen'
        BY <1>0, <2>0, <2>1, <2>2, <2>3, <2>4, <2>5, <2>6, Places DEF HeldOpen, LocalApart
    <2>8. Apart'
        <3>1. \A h \in Loops : /\ loop'[h].local \in {loop[h].local, NoConn}
                               /\ loop'[h].tunnel \in {loop[h].tunnel, NoConn}
            BY <2>2, <2>3
        <3> QED
            BY <1>0, <2>1, <3>1, Places DEF Apart, TunnelApart, LocalApart
    <2> QED
        BY <2>7, <2>8
<1>3. CASE \E c \in Conns : LoopTunnel(g, c)
    <2>0. PICK c \in Conns : LoopTunnel(g, c)
        BY <1>3
    <2>1. /\ starter' = starter /\ relays' = relays /\ connState' = connState
          /\ controlChannel' = controlChannel /\ localChannel' = localChannel
        BY <2>0 DEF LoopTunnel
    <2>2. \A h \in Loops : /\ loop'[h].local = loop[h].local
                           /\ loop'[h].tunnel = IF h = g THEN c ELSE loop[h].tunnel
        BY <1>0, <2>0 DEF LoopTunnel, LoopState
    <2>3. /\ loop[g].chan \in Runs /\ c \in tunnelChannel[loop[g].chan]
          /\ \A r \in Runs : tunnelChannel'[r] \subseteq tunnelChannel[r]
          /\ c \notin tunnelChannel'[loop[g].chan]
        BY <1>0, <2>0 DEF LoopTunnel, LoopState, Rest
    <2>4. TunnelApart(c) /\ \A r \in Runs : c \notin tunnelChannel'[r]
        BY <1>0, <2>3 DEF TunnelApart
    <2>5. HeldOpen'
        BY <1>0, <2>1, <2>2, <2>3 DEF HeldOpen
    <2>6. ASSUME NEW d \in Conns PROVE TunnelApart(d)'
        <3>1. TunnelApart(d)
            BY <1>0
        <3> QED
            BY <2>1, <2>2, <2>3, <2>4, <3>1 DEF TunnelApart
    <2>7. ASSUME NEW l \in Locals PROVE LocalApart(l)'
        BY <1>0, <2>1, <2>2 DEF LocalApart
    <2> QED
        BY <2>5, <2>6, <2>7 DEF Apart
<1>4. CASE LoopSend(g)
    <2> DEFINE m == loop[g].local
               c == loop[g].tunnel
    <2>0. /\ m \in Locals /\ c \in Conns /\ m \notin Conns /\ c \notin Locals
          /\ m # NoConn /\ c # NoConn
        BY <1>0, <1>4, Places DEF LoopSend, LoopShape
    <2>1. /\ starter' = starter /\ controlChannel' = controlChannel
          /\ tunnelChannel' = tunnelChannel /\ localChannel' = localChannel
        BY <1>4 DEF LoopSend, queueVars
    <2>2. TunnelApart(c) /\ LocalApart(m)
        BY <1>0, <2>0
    <2>3. CASE relays' = relays \cup {[local |-> m, tunnel |-> c]} /\ UNCHANGED connState
                 /\ loop' = [loop EXCEPT ![g] = Select(IdleLoop, "take")]
        <3>1. \A h \in Loops : /\ loop'[h].local = IF h = g THEN NoConn ELSE loop[h].local
                               /\ loop'[h].tunnel = IF h = g THEN NoConn ELSE loop[h].tunnel
            BY <1>0, <1>s, <2>3
        <3> DEFINE n == [local |-> m, tunnel |-> c]
        <3>2. n.local = m /\ n.tunnel = c /\ \A p \in relays' : p \in relays \/ p = n
            BY <2>3
        <3> HIDE DEF n
        <3>3. HeldOpen'
            BY <1>0, <2>0, <2>1, <2>3, <3>1, <3>2 DEF HeldOpen
        <3>4. ASSUME NEW d \in Conns PROVE TunnelApart(d)'
            <4>1. TunnelApart(d)
                BY <1>0
            <4> QED
                BY <2>0, <2>1, <2>2, <3>1, <3>2, <4>1, Places, <1>0 DEF TunnelApart
        <3>5. ASSUME NEW l \in Locals PROVE LocalApart(l)'
            <4>1. LocalApart(l)
                BY <1>0
            <4> QED
                BY <2>0, <2>1, <2>2, <3>1, <3>2, <4>1, Places, <1>0 DEF LocalApart
        <3> QED
            BY <3>3, <3>4, <3>5 DEF Apart
    <2>4. CASE connState' = Close({c}) /\ UNCHANGED relays
                 /\ loop' = [loop EXCEPT ![g].pc = "check", ![g].tunnel = NoConn]
        <3>1. \A h \in Loops : /\ loop'[h].local = loop[h].local
                               /\ loop'[h].tunnel = IF h = g THEN NoConn ELSE loop[h].tunnel
            BY <1>0, <2>4 DEF LoopState
        <3>2. \A d \in Conns \cup Locals : d # c => connState'[d] = connState[d]
            BY <1>0, <2>4, CloseValue
        <3>3. connState'[c] = "closed" /\ relays' = relays
            BY <1>0, <2>0, <2>4 DEF Close, Rest
        <3>4. HeldOpen'
            BY <1>0, <2>0, <2>1, <2>2, <3>1, <3>2, <3>3, Places DEF HeldOpen, TunnelApart
        <3>5. Apart'
            BY <1>0, <2>1, <3>1, <3>3, Places DEF Apart, TunnelApart, LocalApart
        <3> QED
            BY <3>4, <3>5
    <2> QED
        BY <1>4, <2>3, <2>4 DEF LoopSend
<1> QED
    BY <1>1, <1>2, <1>3, <1>4

(* The steps that leave every owner alone. *)
LEMMA QuietOwned ==
    ASSUME Owned,
           UNCHANGED <<tunnelChannel, localChannel, starter, loop, relays, controlChannel, connState>>
    PROVE  HeldOpen' /\ Apart'
BY DEF Owned, HeldOpen, Apart, TunnelApart, LocalApart

(* Every step of the server keeps each connection with one owner. *)
LEMMA OwnedStep == Owned /\ [Next]_vars => Owned'
<1> SUFFICES ASSUME Owned, [Next]_vars PROVE HeldOpen' /\ Apart'
    BY TypedStep DEF Owned, Apart
<1> USE DEF vars, lifeVars, queueVars, listenVars
<1>1. CASE UNCHANGED vars
    BY <1>1, QuietOwned
<1>2. CASE AcceptStep
    BY <1>2, AcceptTunnelOwned, AcceptLocalOwned DEF AcceptStep
<1>3. ASSUME NEW r \in Runs, RunStep(r) PROVE HeldOpen' /\ Apart'
    <2>1. CASE CloseListeners(r)
        BY <2>1, QuietOwned DEF CloseListeners
    <2>2. CASE HandlerCancelled(r)
        BY <2>2, QuietOwned DEF HandlerCancelled
    <2>3. CASE HandlerRequest(r)
        BY <2>3, QuietOwned DEF HandlerRequest
    <2>4. CASE HandlerGivesUp(r)
        BY <2>4, QuietOwned DEF HandlerGivesUp
    <2>5. CASE ReaderEnds(r)
        BY <2>5, QuietOwned DEF ReaderEnds
    <2>6. CASE StartFinish(r)
        BY <2>6, RestartOwned
    <2> QED
        BY <1>3, <2>1, <2>2, <2>3, <2>4, <2>5, <2>6, HandshakeOwned DEF RunStep
<1>4. CASE RestartStep
    <2>1. CASE RestartSkip
        BY <2>1, QuietOwned DEF RestartSkip
    <2>2. CASE RestartContext
        BY <2>2, QuietOwned DEF RestartContext
    <2> QED
        BY <1>4, <2>1, <2>2, RestartOwned DEF RestartStep
<1>5. ASSUME NEW g \in Loops, LoopStep(g) PROVE HeldOpen' /\ Apart'
    BY <1>5, LoopTakeOwned, LoopOwned DEF LoopStep
<1> QED
    BY <1>1, <1>2, <1>3, <1>4, <1>5 DEF Next

(* Ownership holds in every state of every run of the server. *)
LEMMA AlwaysOwned == Spec => []Owned
BY InitOwned, OwnedStep, PTL DEF Spec

(* Two owners of one connection are the same owner. *)
LEMMA OwnedOneOwner == Owned => OneOwner
<1> SUFFICES ASSUME Owned PROVE OneOwner
    OBVIOUS
<1>1. ASSUME NEW c \in Conns, NEW o1 \in TunnelOwners(c), NEW o2 \in TunnelOwners(c)
      PROVE  o1 = o2
    <2>1. TunnelApart(c)
        BY DEF Owned
    <2> QED
        BY <2>1 DEF TunnelOwners, TunnelApart
<1>2. ASSUME NEW l \in Locals, NEW o1 \in LocalOwners(l), NEW o2 \in LocalOwners(l)
      PROVE  o1 = o2
    <2>1. LocalApart(l)
        BY DEF Owned
    <2> QED
        BY <2>1 DEF LocalOwners, LocalApart
<1> QED
    BY <1>1, <1>2 DEF OneOwner

(* No two parts of the tcp server ever hold the same connection: acceptors, *)
(* channelHandshake, handleLoops of any run, relays and the control        *)
(* channel.                                                                *)
THEOREM OneOwnerAlways == Spec => []OneOwner
BY AlwaysOwned, OwnedOneOwner, PTL

(* What handleLoop holds or hands to TCPConnectionHandler has not been     *)
(* closed by the server.                                                   *)
THEOREM OwnedIsOpenAlways == Spec => []OwnedIsOpen
<1>1. Owned => OwnedIsOpen
    BY DEF Owned, HeldOpen, OwnedIsOpen
<1> QED
    BY <1>1, AlwaysOwned, PTL

-----------------------------------------------------------------------------
(* Runs *)

(* At the start only the handshake of the first run is there. *)
LEMMA InitRunBook == Init => RunBook
<1> SUFFICES ASSUME Init PROVE RunBook
    OBVIOUS
<1>1. \A g \in Loops : loop[g] = IdleLoop
    BY DEF Init
<1>2. \A r \in Runs : starter[r].pc # "gone" => r = 0
    BY DEF Init, Gone
<1> QED
    BY <1>1, <1>2, TcpServerAssumption DEF Init, RunBook, IdleLoop, Runs

(* What every step needs: the numbers are numbers. *)
LEMMA RunNumbers ==
    ASSUME Typed
    PROVE  /\ ctx \in Nat /\ chan \in Nat
           /\ \A r \in Runs : r \in Nat
           /\ \A g \in Loops : g[1] \in Runs /\ loop[g].ctx \in Nat /\ loop[g].chan \in Nat
BY TcpServerAssumption DEF Typed, Rest, LoopsTyped, LoopState, Runs, Loops

(* The steps that leave the runs, Start, the loops and the users alone. *)
LEMMA QuietBook ==
    ASSUME RunBook,
           UNCHANGED <<ctx, chan, cancelled, restart, loop, localChannel, born>>,
           \A r \in Runs : (starter'[r].pc = "gone") <=> (starter[r].pc = "gone")
    PROVE  RunBook'
<1>1. \A g \in Loops : g[1] \in Runs
    BY DEF Loops
<1> QED
    BY <1>1 DEF RunBook

(* channelHandshake acts for its own run. *)
LEMMA HandshakeBook ==
    ASSUME Typed, RunBook, NEW r \in Runs,
           HandshakeCancelled(r) \/ (\E c \in Conns : HandshakeTake(r, c))
             \/ HandshakeReject(r) \/ HandshakeAccept(r)
    PROVE  RunBook'
<1>0. starter \in [Runs -> Goroutine] /\ starter[r] \in Goroutine
    BY DEF Typed, StartersTyped
<1> USE DEF lifeVars, queueVars
<1>1. CASE HandshakeCancelled(r)
    <2>1. \A s \in Runs : (starter'[s].pc = "gone") <=> (starter[s].pc = "gone")
        BY <1>0, <1>1 DEF HandshakeCancelled, Goroutine
    <2> QED
        BY <1>1, <2>1, QuietBook DEF HandshakeCancelled
<1>2. CASE \E c \in Conns : HandshakeTake(r, c)
    <2>0. PICK c \in Conns : HandshakeTake(r, c)
        BY <1>2
    <2>1. \A s \in Runs : (starter'[s].pc = "gone") <=> (starter[s].pc = "gone")
        <3>1. /\ starter' = [starter EXCEPT ![r].pc = "read", ![r].conn = c]
              /\ starter[r].pc = "select"
            BY <2>0, Zenon DEF HandshakeTake
        <3> QED
            BY <1>0, <3>1 DEF Goroutine
    <2> QED
        BY <1>2, <2>1, QuietBook DEF HandshakeTake
<1>3. CASE HandshakeReject(r)
    <2>1. \A s \in Runs : (starter'[s].pc = "gone") <=> (starter[s].pc = "gone")
        BY <1>0, <1>3 DEF HandshakeReject, Select, Goroutine
    <2> QED
        BY <1>3, <2>1, QuietBook DEF HandshakeReject
<1>4. CASE HandshakeAccept(r)
    <2>1. \A s \in Runs : (starter'[s].pc = "gone") <=> (starter[s].pc = "gone")
        BY <1>0, <1>4 DEF HandshakeAccept, Goroutine
    <2> QED
        BY <1>4, <2>1, QuietBook DEF HandshakeAccept
<1> QED
    BY <1>1, <1>2, <1>3, <1>4

(* The rest of Start spawns its loops once, and only then do they exist. *)
LEMMA StartFinishBook ==
    ASSUME Typed, RunBook, NEW r \in Runs, StartFinish(r)
    PROVE  RunBook'
<1>1. r <= chan /\ chan <= ctx /\ starter[r].pc # "gone"
    BY RunNumbers DEF RunBook, StartFinish
<1>2. \A s \in Runs : starter'[s].pc # "gone" => s # r /\ starter[s].pc # "gone"
    BY DEF StartFinish, Gone, Typed, StartersTyped
<1>3. \A g \in Loops : \/ loop'[g] = loop[g]
                       \/ g[1] = r /\ loop'[g] = Select(IdleLoop, "take")
    BY DEF StartFinish
<1>4. /\ Select(IdleLoop, "take").ctx = ctx /\ Select(IdleLoop, "take").chan = chan
      /\ Select(IdleLoop, "take").local = NoConn
    BY DEF Select, IdleLoop
<1>5. /\ ctx' = ctx /\ chan' = chan /\ restart' = restart /\ cancelled' = cancelled
      /\ localChannel' = localChannel /\ born' = born
    BY DEF StartFinish, lifeVars, queueVars
<1> QED
    BY <1>1, <1>2, <1>3, <1>4, <1>5, RunNumbers DEF RunBook

(* A user connection is new to every queue and every loop. *)
LEMMA AcceptLocalBook ==
    ASSUME Owned, RunBook, NEW l \in Locals, AcceptLocalConn(l)
    PROVE  RunBook'
<1>1. /\ ctx' = ctx /\ chan' = chan /\ restart' = restart /\ cancelled' = cancelled
      /\ loop' = loop /\ starter' = starter
    BY DEF AcceptLocalConn, lifeVars
<1>2. /\ \A r \in Runs : l \notin localChannel[r]
      /\ \A g \in Loops : loop[g].local # l
    BY TcpServerAssumption DEF Owned, HeldOpen, AcceptLocalConn
<1>3. \A m \in Locals : m # l => born'[m] = born[m]
    BY DEF AcceptLocalConn, Owned, Typed, Rest
<1>4. \A r \in Runs : \A m \in localChannel'[r] :
         m \in localChannel[r] \/ (m = l /\ r = chan /\ born'[l] = chan)
    BY DEF AcceptLocalConn, Owned, Typed, Rest
<1>5. \A r \in Runs : \A m \in localChannel'[r] : born'[m] = r
    BY <1>2, <1>3, <1>4, Places DEF RunBook, Owned
<1>6. \A g \in Loops : loop'[g].local # NoConn => born'[loop'[g].local] \in 0..loop'[g].ctx
    BY <1>1, <1>2, <1>3, Places DEF RunBook, Owned
<1> QED
    BY <1>1, <1>5, <1>6 DEF RunBook

(* Restart cancels the run before it replaces the channels. *)
LEMMA RestartBook ==
    ASSUME Typed, RunBook, RestartStep
    PROVE  RunBook'
<1>0. \A g \in Loops : g[1] \in Runs
    BY DEF Loops
<1>1. CASE RestartBegin
    BY <1>1 DEF RestartBegin, RunBook, queueVars
<1>2. CASE RestartSkip
    BY <1>2, QuietBook DEF RestartSkip, queueVars
<1>3. CASE RestartContext
    BY <1>3, RunNumbers DEF RestartContext, RunBook, queueVars
<1>4. CASE RestartChannels
    <2>1. /\ ctx = chan + 1 /\ chan' = ctx /\ ctx' = ctx /\ cancelled' = cancelled /\ ~cancelled
          /\ restart' = "idle" /\ loop' = loop /\ localChannel' = localChannel /\ born' = born
        BY <1>4 DEF RestartChannels, RunBook, queueVars
    <2>2. \A r \in Runs : starter'[r].pc # "gone" => r = ctx \/ starter[r].pc # "gone"
        BY <1>4 DEF RestartChannels, Typed, StartersTyped
    <2> QED
        BY <1>0, <2>1, <2>2, RunNumbers DEF RunBook
<1> QED
    BY <1>1, <1>2, <1>3, <1>4 DEF RestartStep

(* A handleLoop never gets ahead of the runs that have begun. *)
LEMMA LoopBook ==
    ASSUME Owned, RunBook, NEW g \in Loops, LoopStep(g)
    PROVE  RunBook'
<1>0. /\ Typed /\ loop \in [Loops -> LoopState] /\ loop[g] \in LoopState /\ LoopShape(loop[g])
      /\ \A h \in Loops : h[1] \in Runs
    BY DEF Owned, Typed, LoopsTyped, Loops
<1>1. loop[g].pc # "gone"
    BY DEF LoopStep, LoopCancelled, LoopTake, LoopCheck, LoopTunnel, LoopSend
<1>2. ~(g[1] > chan) /\ starter[g[1]].pc = "gone"
    BY <1>1 DEF RunBook, IdleLoop
<1>3. /\ ctx' = ctx /\ chan' = chan /\ restart' = restart /\ cancelled' = cancelled
      /\ starter' = starter /\ born' = born
    BY DEF LoopStep, LoopCancelled, LoopTake, LoopCheck, LoopTunnel, LoopSend, lifeVars
<1>4. \A h \in Loops : h # g => loop'[h] = loop[h]
    BY <1>0 DEF LoopStep, LoopCancelled, LoopTake, LoopCheck, LoopTunnel, LoopSend
<1>5. \A r \in Runs : localChannel'[r] \subseteq localChannel[r]
    BY <1>0 DEF LoopStep, LoopCancelled, LoopTake, LoopCheck, LoopTunnel, LoopSend, queueVars, Typed, Rest
<1>6. /\ loop'[g].chan <= loop'[g].ctx /\ loop'[g].ctx <= ctx
      /\ loop'[g].local # NoConn => born[loop'[g].local] \in 0..loop'[g].ctx
    <2>0. chan <= ctx
        BY <1>0, RunNumbers DEF RunBook
    <2>a. /\ IdleLoop.ctx = 0 /\ IdleLoop.chan = 0 /\ IdleLoop.local = NoConn
          /\ Select(IdleLoop, "take").ctx = ctx /\ Select(IdleLoop, "take").chan = chan
          /\ Select(IdleLoop, "take").local = NoConn
        BY DEF IdleLoop, Select
    <2>1. CASE LoopCancelled(g)
        BY <1>0, <2>1, <2>a, RunNumbers DEF LoopCancelled
    <2>2. CASE \E l \in Locals : LoopTake(g, l)
        <3>1. PICK l \in Locals : LoopTake(g, l)
            BY <2>2
        <3>2. loop'[g].chan = loop[g].chan /\ loop'[g].ctx = loop[g].ctx /\ loop'[g].local = l
            BY <1>0, <3>1 DEF LoopTake, LoopState
        <3>3. born[l] = loop[g].chan
            BY <1>0, <3>1 DEF LoopTake, LoopState, RunBook
        <3> QED
            BY <1>0, <3>2, <3>3, RunNumbers DEF RunBook
    <2>3. CASE LoopCheck(g)
        <3>1. CASE loop' = [loop EXCEPT ![g] = Select(loop[g], "wait")]
            <4>1. loop'[g].chan = chan /\ loop'[g].ctx = ctx /\ loop'[g].local = loop[g].local
                BY <1>0, <3>1 DEF Select, LoopState
            <4> QED
                BY <1>0, <2>0, <4>1, RunNumbers DEF RunBook
        <3>2. CASE loop' = [loop EXCEPT ![g] = Select(IdleLoop, "take")]
            BY <1>0, <2>0, <2>a, <3>2, RunNumbers
        <3> QED
            BY <2>3, <3>1, <3>2 DEF LoopCheck
    <2>4. CASE \E c \in Conns : LoopTunnel(g, c)
        <3>1. loop'[g].chan = loop[g].chan /\ loop'[g].ctx = loop[g].ctx /\ loop'[g].local = loop[g].local
            BY <1>0, <2>4 DEF LoopTunnel, LoopState
        <3> QED
            BY <3>1 DEF RunBook
    <2>5. CASE LoopSend(g)
        <3>1. CASE loop' = [loop EXCEPT ![g] = Select(IdleLoop, "take")]
            BY <1>0, <2>0, <2>a, <3>1, RunNumbers
        <3>2. CASE loop' = [loop EXCEPT ![g].pc = "check", ![g].tunnel = NoConn]
            <4>1. loop'[g].chan = loop[g].chan /\ loop'[g].ctx = loop[g].ctx /\ loop'[g].local = loop[g].local
                BY <1>0, <3>2 DEF LoopState
            <4> QED
                BY <4>1 DEF RunBook
        <3> QED
            BY <2>5, <3>1, <3>2 DEF LoopSend
    <2> QED
        BY <2>1, <2>2, <2>3, <2>4, <2>5 DEF LoopStep
<1> QED
    BY <1>0, <1>2, <1>3, <1>4, <1>5, <1>6 DEF RunBook

(* Every step of the server keeps the book of the runs. *)
LEMMA BookStep == Owned /\ RunBook /\ [Next]_vars => RunBook'
<1> SUFFICES ASSUME Owned, RunBook, [Next]_vars PROVE RunBook'
    OBVIOUS
<1>0. Typed
    BY DEF Owned
<1> USE DEF lifeVars, queueVars
<1>1. CASE UNCHANGED vars
    BY <1>1, QuietBook DEF vars
<1>2. CASE AcceptStep
    <2>1. ASSUME NEW c \in Conns, AcceptTunnelConn(c) PROVE RunBook'
        BY <2>1, QuietBook DEF AcceptTunnelConn
    <2> QED
        BY <1>2, <2>1, AcceptLocalBook DEF AcceptStep
<1>3. ASSUME NEW r \in Runs, RunStep(r) PROVE RunBook'
    <2>1. CASE CloseListeners(r)
        BY <2>1, QuietBook DEF CloseListeners
    <2>2. CASE HandlerCancelled(r)
        BY <2>2, QuietBook DEF HandlerCancelled
    <2>3. CASE HandlerRequest(r)
        BY <2>3, QuietBook DEF HandlerRequest
    <2>4. CASE HandlerGivesUp(r)
        BY <2>4, QuietBook DEF HandlerGivesUp
    <2>5. CASE ReaderEnds(r)
        BY <2>5, QuietBook DEF ReaderEnds
    <2> QED
        BY <1>0, <1>3, <2>1, <2>2, <2>3, <2>4, <2>5, HandshakeBook, StartFinishBook DEF RunStep
<1> QED
    BY <1>0, <1>1, <1>2, <1>3, RestartBook, LoopBook DEF Next

-----------------------------------------------------------------------------
(* The service *)

Ended == {r \in Runs : Done(r)}

(* The tunnel of a user's relay. *)
TunnelOf(S) == IF S = {} THEN NoConn ELSE (CHOOSE p \in S : TRUE).tunnel

(* The tunnel a user sees is a function of the relays of that user. *)
LEMMA TunnelOfRelays ==
    /\ UserTunnel = [l \in Locals |-> TunnelOf(RelaysOf(l))]
    /\ UserTunnel' = [l \in Locals |-> TunnelOf(RelaysOf(l)')]
BY Zenon DEF UserTunnel, TunnelOf

(* What the users of the ports see is unchanged. *)
LEMMA SameUsers ==
    ASSUME relays' = relays,
           \A l \in Locals : connState'[l] = connState[l] /\ (Waits(l)' <=> Waits(l))
    PROVE  UserState' = UserState /\ UserTunnel' = UserTunnel
<1>1. \A l \in Locals : RelaysOf(l)' = RelaysOf(l)
    BY DEF RelaysOf
<1> QED
    BY <1>1, TunnelOfRelays DEF UserState

(* One user connection changes, no relay starts. *)
LEMMA OneUser ==
    ASSUME NEW l \in Locals, NEW v, relays' = relays,
           \A m \in Locals \ {l} : connState'[m] = connState[m] /\ (Waits(m)' <=> Waits(m)),
           UserState'[l] = v
    PROVE  UserState' = [UserState EXCEPT ![l] = v] /\ UserTunnel' = UserTunnel
<1>1. \A m \in Locals : RelaysOf(m)' = RelaysOf(m)
    BY DEF RelaysOf
<1>2. UserTunnel' = UserTunnel
    BY <1>1, TunnelOfRelays
<1>3. \A m \in Locals \ {l} : UserState'[m] = UserState[m]
    BY <1>1 DEF UserState
<1>4. UserState' = [m \in Locals |-> UserState'[m]] /\ UserState = [m \in Locals |-> UserState[m]]
    BY DEF UserState
<1> QED
    BY <1>2, <1>3, <1>4

(* While no context changes, the runs that have ended are the same. *)
LEMMA SameRuns ==
    ASSUME ctx' = ctx, cancelled' = cancelled
    PROVE  Ended' = Ended
BY DEF Ended, Done

(* The initial state of the server is one of the service. *)
LEMMA InitService == Init => Service!Init
<1> SUFFICES ASSUME Init PROVE Service!Init
    OBVIOUS
<1>1. \A l \in Locals : connState[l] = "outside" /\ RelaysOf(l) = {}
    BY DEF Init, RelaysOf
<1>2. UserState = [l \in Locals |-> "outside"] /\ UserTunnel = [l \in Locals |-> NoConn]
    BY <1>1 DEF UserState, UserTunnel
<1>3. {r \in Runs : Done(r)} = {}
    BY TcpServerAssumption DEF Init, Done, Runs
<1> QED
    BY <1>2, <1>3 DEF Init, Service!Init

(* The steps the users do not see. *)
LEMMA Stutter ==
    ASSUME relays' = relays, ctx' = ctx, cancelled' = cancelled, chan' = chan, born' = born,
           \A l \in Locals : connState'[l] = connState[l] /\ (Waits(l)' <=> Waits(l))
    PROVE  UNCHANGED Service!vars
BY SameUsers, SameRuns DEF Service!vars, Ended

(* acceptLocalConn accepts or refuses one user. *)
LEMMA AcceptServes ==
    ASSUME Owned, NEW l \in Locals, AcceptLocalConn(l)
    PROVE  Service!Accept(l) \/ Service!Close(l)
<1>0. /\ Rest /\ Typed /\ connState \in [Conns \cup Locals -> {"outside", "open", "closed"}]
      /\ localChannel \in [Runs -> SUBSET Locals] /\ chan \in Runs /\ born \in [Locals -> Runs \cup {-1}]
    BY DEF Owned, Typed, Rest
<1>1. /\ relays' = relays /\ loop' = loop /\ ctx' = ctx /\ chan' = chan /\ cancelled' = cancelled
    BY DEF AcceptLocalConn, lifeVars
<1>2. UserState[l] = "outside"
    BY DEF UserState, AcceptLocalConn
<1>3. Ended' = Ended
    BY <1>1, SameRuns
<1>4. CASE /\ localChannel' = [localChannel EXCEPT ![chan] = @ \cup {l}]
           /\ connState' = [connState EXCEPT ![l] = "open"]
           /\ born' = [born EXCEPT ![l] = chan]
    <2>1. \A m \in Locals \ {l} : connState'[m] = connState[m] /\ (Waits(m)' <=> Waits(m))
        BY <1>0, <1>1, <1>4 DEF Waits
    <2>2. Waits(l)' /\ connState'[l] = "open"
        BY <1>0, <1>1, <1>4 DEF Waits
    <2>3. UserState'[l] = "waiting"
        BY <2>2 DEF UserState
    <2>4. UserState' = [UserState EXCEPT ![l] = "waiting"] /\ UserTunnel' = UserTunnel
        BY <1>1, <2>1, <2>3, OneUser
    <2> QED
        BY <1>1, <1>2, <1>3, <1>4, <2>4 DEF Service!Accept, Ended
<1>5. CASE connState' = Close({l}) /\ UNCHANGED <<localChannel, born>>
    <2>1. \A m \in Locals \ {l} : connState'[m] = connState[m] /\ (Waits(m)' <=> Waits(m))
        BY <1>0, <1>1, <1>5, CloseValue DEF Waits
    <2>2. connState'[l] = "closed"
        BY <1>0, <1>5 DEF Close
    <2>3. UserState'[l] = "closed"
        BY <2>2 DEF UserState
    <2>4. UserState' = [UserState EXCEPT ![l] = "closed"] /\ UserTunnel' = UserTunnel
        BY <1>1, <2>1, <2>3, OneUser
    <2> QED
        BY <1>1, <1>2, <1>3, <1>5, <2>4 DEF Service!Close, Ended
<1> QED
    BY <1>4, <1>5 DEF AcceptLocalConn

(* A run that is older than an ended one has ended. *)
LEMMA EndedBelow ==
    ASSUME Typed, NEW r \in Nat, NEW q \in 0..r, Done(r), q \in Runs
    PROVE  q \in Ended
BY RunNumbers DEF Ended, Done

(* handleLoop: what each of its steps is for the user in its hands. *)
LEMMA LoopServes ==
    ASSUME Owned, RunBook, NEW g \in Loops, LoopStep(g)
    PROVE  [Service!Next]_(Service!vars)
<1>0. /\ Rest /\ Typed /\ HeldOpen
      /\ loop \in [Loops -> LoopState] /\ loop[g] \in LoopState /\ LoopShape(loop[g])
      /\ localChannel \in [Runs -> SUBSET Locals]
      /\ \A l \in Locals : LocalApart(l)
      /\ \A c \in Conns : TunnelApart(c)
    BY DEF Owned, Typed, Rest, LoopsTyped
<1>1. ctx' = ctx /\ chan' = chan /\ cancelled' = cancelled /\ born' = born
    BY DEF LoopStep, LoopCancelled, LoopTake, LoopCheck, LoopTunnel, LoopSend, lifeVars
<1>2. Ended' = Ended
    BY <1>1, SameRuns
<1>3. \A h \in Loops : h # g => loop'[h] = loop[h]
    BY <1>0 DEF LoopStep, LoopCancelled, LoopTake, LoopCheck, LoopTunnel, LoopSend
<1>s. Select(IdleLoop, "take").local = NoConn /\ IdleLoop.local = NoConn /\ NoConn \notin Locals
    BY TcpServerAssumption DEF Select, IdleLoop
<1>m. PICK m : m = loop[g].local
    OBVIOUS
(* The user in hand is served by nobody else. *)
<1>4. ASSUME m # NoConn
      PROVE  /\ m \in Locals /\ connState[m] = "open"
             /\ \A r \in Runs : m \notin localChannel[r]
             /\ \A h \in Loops : h # g => loop[h].local # m
             /\ RelaysOf(m) = {}
             /\ UserState[m] = "waiting"
    <2>1. m \in Locals /\ connState[m] = "open" /\ LocalApart(m)
        BY <1>0, <1>4, <1>m, Places DEF HeldOpen
    <2>2. /\ \A r \in Runs : m \notin localChannel[r]
          /\ \A h \in Loops : h # g => loop[h].local # m
          /\ RelaysOf(m) = {}
        BY <1>m, <2>1 DEF LocalApart, RelaysOf
    <2>3. UserState[m] = "waiting"
        BY <1>m, <2>1 DEF UserState, Waits
    <2> QED
        BY <2>1, <2>2, <2>3
(* Dropping it changes what waits for no other user. *)
<1>5. ASSUME m # NoConn, loop'[g].local = NoConn, localChannel' = localChannel
      PROVE  ~Waits(m)' /\ \A l \in Locals \ {m} : Waits(l)' <=> Waits(l)
    BY <1>3, <1>4, <1>5, <1>m, <1>s DEF Waits
<1>6. CASE LoopCancelled(g)
    <2>1. /\ relays' = relays /\ connState' = connState /\ localChannel' = localChannel
          /\ loop'[g] = IdleLoop /\ Done(loop[g].ctx)
        BY <1>0, <1>6 DEF LoopCancelled, queueVars
    <2>2. CASE m = NoConn
        <3>1. \A l \in Locals : Waits(l)' <=> Waits(l)
            BY <1>3, <1>m, <1>s, <2>1, <2>2 DEF Waits
        <3> QED
            BY <1>1, <2>1, <3>1, Stutter
    <2>3. CASE m # NoConn
        <3>1. ~Waits(m)' /\ \A l \in Locals \ {m} : Waits(l)' <=> Waits(l)
            BY <1>5, <1>s, <2>1, <2>3
        <3>2. RelaysOf(m)' = {} /\ connState'[m] = "open" /\ m \in Locals
            BY <1>4, <2>1, <2>3 DEF RelaysOf
        <3>3. UserState'[m] = "lost"
            BY <3>1, <3>2 DEF UserState
        <3>4. UserState' = [UserState EXCEPT ![m] = "lost"] /\ UserTunnel' = UserTunnel
            BY <2>1, <3>1, <3>2, <3>3, OneUser
        <3>5. born[m] \in 0..loop[g].ctx /\ loop[g].ctx \in Nat /\ born[m] \in Runs
            <4>1. born[m] \in Runs \cup {-1}
                BY <1>0, <3>2 DEF Rest
            <4> QED
                BY <1>0, <1>m, <2>3, <4>1, RunNumbers DEF RunBook
        <3>6. born[m] \in Ended
            BY <1>0, <2>1, <3>5, EndedBelow
        <3>7. Service!Forget(m)
            BY <1>1, <1>2, <1>4, <2>3, <3>4, <3>6 DEF Service!Forget, Ended
        <3> QED
            BY <3>2, <3>7 DEF Service!Next
    <2> QED
        BY <2>2, <2>3
<1>7. CASE \E l \in Locals : LoopTake(g, l)
    <2>1. PICK l \in Locals : LoopTake(g, l)
        BY <1>7
    <2>2. /\ relays' = relays /\ connState' = connState /\ m = NoConn
          /\ loop'[g].local = l /\ loop[g].chan \in Runs /\ l \in localChannel[loop[g].chan]
        BY <1>0, <1>m, <2>1 DEF LoopTake, LoopState, LoopShape
    <2>3. \A k \in Locals : k # l => \A r \in Runs : k \in localChannel'[r] <=> k \in localChannel[r]
        BY <1>0, <2>1 DEF LoopTake
    <2>4. Waits(l) /\ Waits(l)'
        BY <2>2 DEF Waits
    <2>5. \A k \in Locals \ {l} : Waits(k)' <=> Waits(k)
        <3>1. \A k \in Locals \ {l} : \A h \in Loops : loop'[h].local = k <=> loop[h].local = k
            BY <1>3, <1>m, <1>s, <2>2
        <3> QED
            BY <2>3, <3>1 DEF Waits
    <2>6. \A k \in Locals : Waits(k)' <=> Waits(k)
        BY <2>4, <2>5
    <2> QED
        BY <1>1, <2>2, <2>6, Stutter
<1>8. CASE LoopCheck(g)
    <2>1. /\ relays' = relays /\ localChannel' = localChannel /\ m # NoConn
        BY <1>0, <1>8, <1>m DEF LoopCheck, queueVars, LoopShape
    <2>2. CASE loop' = [loop EXCEPT ![g] = Select(loop[g], "wait")] /\ UNCHANGED connState
        <3>1. loop'[g].local = m
            BY <1>0, <1>m, <2>2 DEF Select, LoopState
        <3>2. \A k \in Locals : Waits(k)' <=> Waits(k)
            BY <1>3, <1>m, <2>1, <3>1 DEF Waits
        <3> QED
            BY <1>1, <2>1, <2>2, <3>2, Stutter
    <2>3. CASE connState' = Close({m}) /\ loop' = [loop EXCEPT ![g] = Select(IdleLoop, "take")]
        <3>1. loop'[g].local = NoConn
            BY <1>0, <1>s, <2>3
        <3>2. \A l \in Locals \ {m} : connState'[l] = connState[l] /\ (Waits(l)' <=> Waits(l))
            BY <1>0, <1>5, <2>1, <2>3, <3>1, CloseValue
        <3>3. connState'[m] = "closed" /\ m \in Locals
            BY <1>0, <1>4, <2>1, <2>3 DEF Close, Rest
        <3>4. UserState'[m] = "closed"
            BY <3>3 DEF UserState
        <3>5. UserState' = [UserState EXCEPT ![m] = "closed"] /\ UserTunnel' = UserTunnel
            BY <2>1, <3>2, <3>3, <3>4, OneUser
        <3>6. Service!Close(m)
            BY <1>1, <1>2, <1>4, <2>1, <3>5 DEF Service!Close, Ended
        <3> QED
            BY <3>3, <3>6 DEF Service!Next
    <2> QED
        BY <1>8, <1>m, <2>2, <2>3 DEF LoopCheck
<1>9. CASE \E c \in Conns : LoopTunnel(g, c)
    <2>1. /\ relays' = relays /\ connState' = connState /\ localChannel' = localChannel
          /\ loop'[g].local = m
        BY <1>0, <1>9, <1>m DEF LoopTunnel, LoopState
    <2>2. \A k \in Locals : Waits(k)' <=> Waits(k)
        BY <1>3, <1>m, <2>1 DEF Waits
    <2> QED
        BY <1>1, <2>1, <2>2, Stutter
<1>10. CASE LoopSend(g)
    <2>c. PICK c : c = loop[g].tunnel
        OBVIOUS
    <2>1. localChannel' = localChannel /\ m # NoConn /\ c # NoConn /\ c \in Conns /\ c \notin Locals
        BY <1>0, <1>10, <1>m, <2>c, Places DEF LoopSend, queueVars, LoopShape
    <2>2. CASE /\ relays' = relays \cup {[local |-> m, tunnel |-> c]} /\ UNCHANGED connState
               /\ loop' = [loop EXCEPT ![g] = Select(IdleLoop, "take")]
        <3> DEFINE n == [local |-> m, tunnel |-> c]
        <3>1. ~Waits(m)' /\ \A l \in Locals \ {m} : Waits(l)' <=> Waits(l)
            BY <1>0, <1>5, <1>s, <2>1, <2>2
        <3>2. n.local = m /\ n.tunnel = c /\ relays' = relays \cup {n}
            BY <2>2
        <3> HIDE DEF n
        <3>3. RelaysOf(m)' = {n} /\ \A l \in Locals \ {m} : RelaysOf(l)' = RelaysOf(l)
            BY <1>4, <2>1, <3>2 DEF RelaysOf
        <3>4. /\ UserState'[m] = "relayed" /\ m \in Locals
              /\ \A l \in Locals \ {m} : UserState'[l] = UserState[l]
            BY <1>4, <2>1, <2>2, <3>1, <3>3 DEF UserState
        <3>5. UserState' = [UserState EXCEPT ![m] = "relayed"]
            <4>1. UserState' = [k \in Locals |-> UserState'[k]] /\ UserState = [k \in Locals |-> UserState[k]]
                BY DEF UserState
            <4> QED
                BY <3>4, <4>1
        <3>6. UserTunnel' = [UserTunnel EXCEPT ![m] = c]
            <4>1. TunnelOf({n}) = c
                BY <3>2 DEF TunnelOf
            <4> QED
                BY <3>3, <3>4, <4>1, TunnelOfRelays
        <3>7. \A v \in Locals : UserTunnel[v] # c
            <4> TAKE v \in Locals
            <4>1. UserTunnel[v] = NoConn \/ \E p \in relays : UserTunnel[v] = p.tunnel
                BY DEF UserTunnel, RelaysOf
            <4>2. TunnelApart(c)
                BY <1>0, <2>1
            <4> QED
                BY <2>1, <2>c, <4>1, <4>2 DEF TunnelApart
        <3>8. Service!Join(m)
            BY <1>1, <1>2, <1>4, <2>1, <3>5, <3>6, <3>7 DEF Service!Join, Ended
        <3> QED
            BY <3>4, <3>8 DEF Service!Next
    <2>3. CASE /\ connState' = Close({c}) /\ UNCHANGED relays
               /\ loop' = [loop EXCEPT ![g].pc = "check", ![g].tunnel = NoConn]
        <3>1. loop'[g].local = m
            BY <1>0, <1>m, <2>3 DEF LoopState
        <3>2. \A k \in Locals : connState'[k] = connState[k] /\ (Waits(k)' <=> Waits(k))
            <4>1. \A k \in Locals : Waits(k)' <=> Waits(k)
                BY <1>3, <1>m, <2>1, <3>1 DEF Waits
            <4> QED
                BY <1>0, <2>1, <2>3, <4>1, CloseValue
        <3> QED
            BY <1>1, <2>3, <3>2, Stutter
    <2> QED
        BY <1>10, <1>m, <2>c, <2>2, <2>3 DEF LoopSend
<1> QED
    BY <1>6, <1>7, <1>8, <1>9, <1>10 DEF LoopStep

(* Restart ends a period and, later, begins the next one. *)
LEMMA RestartServes ==
    ASSUME Owned, RunBook, RestartStep
    PROVE  [Service!Next]_(Service!vars)
<1>0. Rest /\ Typed /\ ctx \in Runs /\ chan \in Runs
    BY DEF Owned, Typed, Rest
<1>1. CASE RestartBegin
    <2>1. /\ relays' = relays /\ loop' = loop /\ localChannel' = localChannel
          /\ ctx' = ctx /\ chan' = chan /\ cancelled' = TRUE /\ born' = born
        BY <1>1 DEF RestartBegin, queueVars
    <2>2. \A l \in Locals : connState'[l] = connState[l] /\ (Waits(l)' <=> Waits(l))
        <3>1. \A l \in Locals : l \notin {controlChannel}
            BY <1>0, Places
        <3>2. \A l \in Locals : Close({controlChannel})[l] = connState[l]
            BY <1>0, <3>1, CloseValue
        <3>3. connState' = Close({controlChannel})
            BY <1>1, Zenon DEF RestartBegin
        <3> QED
            BY <2>1, <3>2, <3>3 DEF Waits
    <2>3. UserState' = UserState /\ UserTunnel' = UserTunnel
        BY <2>1, <2>2, SameUsers
    <2>4. chan = ctx /\ ~cancelled
        BY <1>1 DEF RestartBegin, RunBook
    <2>5. Ended' = Ended \cup {chan} /\ chan \notin Ended
        BY <1>0, <2>1, <2>4, RunNumbers DEF Ended, Done
    <2>6. Service!End
        BY <2>1, <2>3, <2>5 DEF Service!End, Ended
    <2> QED
        BY <2>6 DEF Service!Next
<1>2. CASE RestartSkip
    BY <1>2, Stutter DEF RestartSkip, Waits, queueVars
<1>3. CASE RestartContext
    <2>1. /\ relays' = relays /\ loop' = loop /\ localChannel' = localChannel /\ connState' = connState
          /\ ctx' = ctx + 1 /\ chan' = chan /\ cancelled' = FALSE /\ born' = born
        BY <1>3 DEF RestartContext, queueVars
    <2>2. cancelled
        BY <1>3 DEF RestartContext, RunBook
    <2>3. Ended' = Ended
        BY <1>0, <2>1, <2>2, RunNumbers DEF Ended, Done
    <2>4. UserState' = UserState /\ UserTunnel' = UserTunnel
        BY <2>1, SameUsers DEF Waits
    <2> QED
        BY <2>1, <2>3, <2>4 DEF Service!vars, Ended
<1>4. CASE RestartChannels
    <2>1. /\ relays' = relays /\ loop' = loop /\ localChannel' = localChannel /\ connState' = connState
          /\ ctx' = ctx /\ chan' = ctx /\ cancelled' = cancelled /\ born' = born
        BY <1>4 DEF RestartChannels, queueVars
    <2>2. ctx = chan + 1
        BY <1>4 DEF RestartChannels, RunBook
    <2>3. Ended' = Ended /\ chan \in Ended
        BY <1>0, <2>1, <2>2, RunNumbers, SameRuns DEF Ended, Done
    <2>4. UserState' = UserState /\ UserTunnel' = UserTunnel
        BY <2>1, SameUsers DEF Waits
    <2>5. Service!Renew
        BY <2>1, <2>2, <2>3, <2>4 DEF Service!Renew, Ended
    <2> QED
        BY <2>5 DEF Service!Next
<1> QED
    BY <1>1, <1>2, <1>3, <1>4 DEF RestartStep

(* Steps of the tunnel acceptor, of Start and of channelHandler: no user   *)
(* sees them.                                                              *)
LEMMA RunServes ==
    ASSUME Owned, RunBook, NEW r \in Runs,
           RunStep(r) \/ \E c \in Conns : AcceptTunnelConn(c)
    PROVE  UNCHANGED Service!vars
<1>0. Rest /\ Typed
    BY DEF Owned, Typed
<1>1. relays' = relays /\ ctx' = ctx /\ cancelled' = cancelled /\ chan' = chan /\ born' = born
      /\ localChannel' = localChannel
    BY DEF RunStep, AcceptTunnelConn, CloseListeners, HandshakeCancelled, HandshakeTake, HandshakeReject,
           HandshakeAccept, StartFinish, HandlerCancelled, HandlerRequest, HandlerGivesUp, ReaderEnds,
           lifeVars, queueVars
<1>2. \A l \in Locals : connState'[l] = connState[l]
    <2>1. CASE \E c \in Conns : AcceptTunnelConn(c)
        <3>1. PICK c \in Conns : AcceptTunnelConn(c)
            BY <2>1
        <3>2. c \notin Locals
            BY <1>0, Places
        <3>3. \A l \in Locals : Close({c})[l] = connState[l]
            BY <1>0, <3>2, CloseValue
        <3> QED
            BY <1>0, <3>1, <3>2, <3>3 DEF AcceptTunnelConn, Rest
    <2>2. CASE HandshakeReject(r)
        <3>1. starter[r].conn \notin Locals
            BY <1>0, Places DEF Conns
        <3>2. \A l \in Locals : Close({starter[r].conn})[l] = connState[l]
            BY <1>0, <3>1, CloseValue
        <3> QED
            BY <2>2, <3>2 DEF HandshakeReject
    <2>3. CASE RunStep(r) /\ ~HandshakeReject(r)
        BY <2>3 DEF RunStep, CloseListeners, HandshakeCancelled, HandshakeTake, HandshakeAccept,
                    StartFinish, HandlerCancelled, HandlerRequest, HandlerGivesUp, ReaderEnds
    <2> QED
        BY <2>1, <2>2, <2>3
<1>3. \A g \in Loops : loop'[g].local = loop[g].local
    <2>1. CASE StartFinish(r)
        <3>1. \A g \in Loops : g[1] = r => loop[g] = IdleLoop
            BY <2>1 DEF StartFinish, RunBook
        <3>2. Select(IdleLoop, "take").local = IdleLoop.local
            BY DEF Select, IdleLoop
        <3> QED
            BY <2>1, <3>1, <3>2 DEF StartFinish
    <2>2. CASE ~StartFinish(r)
        <3>1. loop' = loop
            BY <2>2 DEF RunStep, AcceptTunnelConn, CloseListeners, HandshakeCancelled, HandshakeTake,
                        HandshakeReject, HandshakeAccept, HandlerCancelled, HandlerRequest,
                        HandlerGivesUp, ReaderEnds
        <3> QED
            BY <3>1
    <2> QED
        BY <2>1, <2>2
<1>4. \A l \in Locals : Waits(l)' <=> Waits(l)
    BY <1>1, <1>3 DEF Waits
<1> QED
    BY <1>1, <1>2, <1>4, Stutter

(* Every step of the server is a step of the service or leaves it          *)
(* unchanged.                                                              *)
LEMMA ServiceStep == Owned /\ RunBook /\ [Next]_vars => [Service!Next]_(Service!vars)
<1> SUFFICES ASSUME Owned, RunBook, [Next]_vars PROVE [Service!Next]_(Service!vars)
    OBVIOUS
<1>1. CASE UNCHANGED vars
    BY <1>1, Stutter DEF vars, lifeVars, queueVars, Waits
<1>2. CASE AcceptStep
    <2>1. 0 \in Runs
        BY TcpServerAssumption DEF Runs
    <2>2. ASSUME NEW l \in Locals, AcceptLocalConn(l) PROVE Service!Next
        BY <2>2, AcceptServes DEF Service!Next
    <2> QED
        BY <1>2, <2>1, <2>2, RunServes DEF AcceptStep
<1> QED
    BY <1>1, <1>2, RunServes, RestartServes, LoopServes DEF Next

(* The tcp server implements the service its users rely on: whatever a     *)
(* restart leaves behind, a user connection moves only forward, is joined  *)
(* to a tunnel of its own, and is forgotten only by a run that was         *)
(* cancelled.                                                              *)
THEOREM Serves == Spec => ServesUsers
<1>1. Spec => []RunBook
    BY InitRunBook, BookStep, AlwaysOwned, PTL DEF Spec
<1> QED
    BY InitService, ServiceStep, AlwaysOwned, <1>1, PTL DEF Spec, ServesUsers, Service!Spec
=============================================================================
