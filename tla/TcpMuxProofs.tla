---------------------------- MODULE TcpMuxProofs ----------------------------
(***************************************************************************)
(* Slots, sessions and requests of the tcpmux server, for every mux_con,   *)
(* channel size, pool size and number of sessions, faults and restarts.    *)
(***************************************************************************)
EXTENDS TcpMux, FiniteSetTheorems, TLAPS

(* A slot of a session is held by a relay, by the user connection in hand  *)
(* (or the wait for one), or was leaked.  TypeOK's bounds on relays rest   *)
(* on it.                                                                  *)
SlotBook ==
    \A s \in Sessions :
        sess[s].used = sess[s].relays + sess[s].old + sess[s].leaked
                           + (IF sess[s].pc \in {"slot", "free"} THEN 0 ELSE 1)

Typed == TypeOK /\ SlotBook

(* The server starts with empty channels and free slots. *)
LEMMA InitTyped == Init => Typed
BY TcpMuxAssumption DEF Init, Typed, TypeOK, SlotBook, NoSession, Serving

(* Steps that leave the sessions alone. *)
LEMMA SupplyTyped == Typed /\ (AcceptLocal \/ SupplyStep \/ PoolStep) => Typed'
<1> SUFFICES ASSUME Typed, AcceptLocal \/ SupplyStep \/ PoolStep PROVE Typed'
    OBVIOUS
<1> USE TcpMuxAssumption DEF Typed, TypeOK, SlotBook, drifts, bounds, supply, accepting
<1>1. CASE AcceptLocal
    BY <1>1 DEF AcceptLocal
<1>2. CASE CountStream
    BY <1>2 DEF CountStream
<1>3. CASE CompareCounters
    BY <1>3 DEF CompareCounters, Request
<1>4. CASE SendRequest
    BY <1>4 DEF SendRequest
<1>5. CASE ReceiveRequest
    BY <1>5 DEF ReceiveRequest
<1>6. CASE DialTunnel
    BY <1>6 DEF DialTunnel
<1>7. CASE AcceptTunnel
    BY <1>7 DEF AcceptTunnel
<1>8. CASE GrowPool
    BY <1>8 DEF GrowPool
<1>9. CASE ShrinkPool
    BY <1>9 DEF ShrinkPool
<1> QED
    BY <1>1, <1>2, <1>3, <1>4, <1>5, <1>6, <1>7, <1>8, <1>9 DEF SupplyStep, PoolStep

(* What a session record may be. *)
Pcs == Serving \cup {"free", "fail", "stuck", "ended"}
Record == [pc : Pcs,
           alive : BOOLEAN, counted : BOOLEAN, used : 0..MuxCon,
           relays : 0..MuxCon, old : 0..MuxCon, leaked : 0..MuxCon]
Balanced(g) == g.used = g.relays + g.old + g.leaked
                            + (IF g.pc \in {"slot", "free"} THEN 0 ELSE 1)

(* One session changes into another balanced record, and the counters      *)
(* stay integers: that is all a step of handleSession does to Typed.       *)
LEMMA OneSession ==
    ASSUME Typed, NEW s \in Sessions, NEW g \in Record, Balanced(g),
           sess' = [sess EXCEPT ![s] = g]
    PROVE  /\ sess' \in [Sessions -> Record]
           /\ SlotBook'
<1>1. sess \in [Sessions -> Record]
    BY DEF Typed, TypeOK, Record, Pcs
<1>2. \A t \in Sessions : Balanced(sess'[t])
    BY <1>1 DEF Typed, SlotBook, Balanced
<1> QED
    BY <1>1, <1>2 DEF SlotBook, Balanced

(* A goroutine that returns leaves a balanced record. *)
LEMMA EndedBalanced ==
    ASSUME NEW g \in Record, Balanced(g), g.pc \notin {"slot", "free"}
    PROVE  Ended(g) \in Record /\ Balanced(Ended(g))
<1>1. NoSession \in Record /\ Balanced(NoSession)
    BY TcpMuxAssumption DEF NoSession, Record, Balanced, Pcs, Serving
<1> DEFINE g1 == [g EXCEPT !.pc = "ended"]
           h == [g1 EXCEPT !.alive = FALSE]
<1>2. Ended(g) = IF g.relays + g.old = 0 THEN NoSession ELSE h
    BY DEF Ended
<1>3. /\ g1 \in Record /\ g1.pc = "ended" /\ g1.used = g.used
      /\ g1.relays = g.relays /\ g1.old = g.old /\ g1.leaked = g.leaked
    BY DEF Record, Pcs
<1> HIDE DEF g1
<1>4. h \in Record /\ Balanced(h)
    BY <1>3 DEF Record, Balanced
<1> HIDE DEF h
<1> QED
    BY <1>1, <1>2, <1>4

(* TypeOK without the sessions. *)
Numbers ==
    /\ phase \in {"running", "stopping", "linking"}
    /\ localCh \in 0..ChannelSize /\ reqCh \in 0..ChannelSize
    /\ tunnelCh \in 0..ChannelSize /\ tokens \in 0..FlowCap
    /\ {counting, comparing, wire, dialing, backlog, newPoolSize} \subseteq Nat
    /\ {streamCounter, sessionCounter} \subseteq Int
    /\ {lost, swallowed, streamDrift, sessionDrift, arrived, faults, restarts} \subseteq Nat

(* Every step of a handleSession goroutine, its relays and its end. *)
LEMMA SessionTyped ==
    ASSUME Typed, NEW s \in Sessions,
           SessionStep(s) \/ SessionCancelled(s) \/ RelayEnds(s) \/ SessionDies(s)
    PROVE  Typed'
<1> DEFINE g == sess[s]
<1>1. g \in Record /\ Balanced(g)
    BY DEF Typed, TypeOK, SlotBook, Record, Pcs, Balanced
<1>2. SUFFICES Numbers' /\ \E h \in Record : Balanced(h) /\ sess' = [sess EXCEPT ![s] = h]
    BY OneSession DEF Typed, TypeOK, Record, Pcs, Numbers
<1>3. Numbers
    BY DEF Typed, TypeOK, Numbers
<1> USE DEF Numbers, sessionOnly, drifts, bounds, supply, accepting
<1>4. CASE HandleLoop(s)
    <2>1. Numbers'
        BY TcpMuxAssumption, <1>3, <1>4 DEF HandleLoop
    <2> DEFINE h == NewSession
    <2>a. h \in Record /\ Balanced(h)
        BY TcpMuxAssumption, <1>1, <1>4 DEF HandleLoop, Record, Pcs, Balanced, Serving, NewSession
    <2>b. sess' = [sess EXCEPT ![s] = h]
        BY <1>4 DEF HandleLoop
    <2> HIDE DEF h
    <2> QED
        BY <2>1, <2>a, <2>b
<1>5. CASE TakeSlot(s)
    <2>1. Numbers'
        BY TcpMuxAssumption, <1>3, <1>5 DEF TakeSlot
    <2> DEFINE g1 == [g EXCEPT !.pc = "select"]
               h == [g1 EXCEPT !.used = @ + 1]
    <2>a. sess' = [sess EXCEPT ![s] = h]
        BY <1>5 DEF TakeSlot
    <2>b. /\ g1 \in Record /\ g1.pc = "select"
          /\ g1.used = g.used /\ g1.relays = g.relays /\ g1.old = g.old /\ g1.leaked = g.leaked
        BY <1>1 DEF Record, Pcs, Serving
    <2> HIDE DEF g1
    <2>c. h \in Record /\ Balanced(h)
        BY TcpMuxAssumption, <1>1, <1>5, <2>b DEF TakeSlot, Balanced, Record
    <2> HIDE DEF h
    <2> QED
        BY <2>1, <2>a, <2>c
<1>6. CASE SessionCancelled(s)
    <2>1. Numbers'
        BY TcpMuxAssumption, <1>3, <1>6 DEF SessionCancelled
    <2> DEFINE h == Ended(g)
    <2>a. h \in Record /\ Balanced(h)
        BY TcpMuxAssumption, <1>1, <1>6, EndedBalanced DEF SessionCancelled
    <2>b. sess' = [sess EXCEPT ![s] = h]
        BY <1>6 DEF SessionCancelled
    <2> HIDE DEF h
    <2> QED
        BY <2>1, <2>a, <2>b
<1>7. CASE TakeLocal(s)
    <2>1. Numbers'
        BY TcpMuxAssumption, <1>3, <1>7 DEF TakeLocal
    <2>2. CASE sess' = [sess EXCEPT ![s].pc = "open"]
        <3> DEFINE h == [g EXCEPT !.pc = "open"]
        <3>a. h \in Record /\ Balanced(h)
            BY TcpMuxAssumption, <1>1, <1>7, <2>2 DEF TakeLocal, Record, Pcs, Balanced, Serving
        <3>b. sess' = [sess EXCEPT ![s] = h]
            BY <1>7, <2>2 DEF TakeLocal
        <3> HIDE DEF h
        <3> QED
            BY <2>1, <3>a, <3>b
    <2>3. CASE sess' = [sess EXCEPT ![s].pc = "slot", ![s].used = @ - 1]
        <3> DEFINE g1 == [g EXCEPT !.pc = "slot"]
                   h == [g1 EXCEPT !.used = @ - 1]
        <3>a. sess' = [sess EXCEPT ![s] = h]
            BY <2>3, Zenon
        <3>b. /\ g1 \in Record /\ g1.pc = "slot"
              /\ g1.used = g.used /\ g1.relays = g.relays /\ g1.old = g.old /\ g1.leaked = g.leaked
            BY <1>1 DEF Record, Pcs, Serving
        <3> HIDE DEF g1
        <3>c. h \in Record /\ Balanced(h)
            BY TcpMuxAssumption, <1>1, <1>7, <2>3, <3>b DEF TakeLocal, Balanced, Record
        <3> HIDE DEF h
        <3> QED
            BY <2>1, <3>a, <3>c
    <2> QED
        BY <1>7, <2>2, <2>3 DEF TakeLocal
<1>8. CASE OpenStream(s)
    <2>1. Numbers'
        BY TcpMuxAssumption, <1>3, <1>8 DEF OpenStream
    <2>2. CASE sess' = [sess EXCEPT ![s].pc = "send"]
        <3> DEFINE h == [g EXCEPT !.pc = "send"]
        <3>a. h \in Record /\ Balanced(h)
            BY TcpMuxAssumption, <1>1, <1>8, <2>2 DEF OpenStream, Record, Pcs, Balanced, Serving
        <3>b. sess' = [sess EXCEPT ![s] = h]
            BY <1>8, <2>2 DEF OpenStream
        <3> HIDE DEF h
        <3> QED
            BY <2>1, <3>a, <3>b
    <2>3. CASE sess' = [sess EXCEPT ![s].pc = "fail"]
        <3> DEFINE h == [g EXCEPT !.pc = "fail"]
        <3>a. h \in Record /\ Balanced(h)
            BY TcpMuxAssumption, <1>1, <1>8, <2>3 DEF OpenStream, Record, Pcs, Balanced, Serving
        <3>b. sess' = [sess EXCEPT ![s] = h]
            BY <1>8, <2>3 DEF OpenStream
        <3> HIDE DEF h
        <3> QED
            BY <2>1, <3>a, <3>b
    <2> QED
        BY <1>8, <2>2, <2>3 DEF OpenStream
<1>9. CASE SendAddr(s)
    <2>1. Numbers'
        BY TcpMuxAssumption, <1>3, <1>9 DEF SendAddr
    <2>2. CASE sess' = [sess EXCEPT ![s].pc = "slot", ![s].relays = @ + 1]
        <3> DEFINE g1 == [g EXCEPT !.pc = "slot"]
                   h == [g1 EXCEPT !.relays = @ + 1]
        <3>a. sess' = [sess EXCEPT ![s] = h]
            BY <2>2, Zenon
        <3>b. /\ g1 \in Record /\ g1.pc = "slot"
              /\ g1.used = g.used /\ g1.relays = g.relays /\ g1.old = g.old /\ g1.leaked = g.leaked
            BY <1>1 DEF Record, Pcs, Serving
        <3> HIDE DEF g1
        <3>c. h \in Record /\ Balanced(h)
            BY TcpMuxAssumption, <1>1, <1>9, <2>2, <3>b DEF SendAddr, Balanced, Record
        <3> HIDE DEF h
        <3> QED
            BY <2>1, <3>a, <3>c
    <2>3. CASE sess' = [sess EXCEPT ![s].pc = "requeue"]
        <3> DEFINE h == [g EXCEPT !.pc = "requeue"]
        <3>a. h \in Record /\ Balanced(h)
            BY TcpMuxAssumption, <1>1, <1>9, <2>3 DEF SendAddr, Record, Pcs, Balanced, Serving
        <3>b. sess' = [sess EXCEPT ![s] = h]
            BY <1>9, <2>3 DEF SendAddr
        <3> HIDE DEF h
        <3> QED
            BY <2>1, <3>a, <3>b
    <2> QED
        BY <1>9, <2>2, <2>3 DEF SendAddr
<1>10. CASE Requeue(s)
    <2>1. Numbers'
        BY TcpMuxAssumption, <1>3, <1>10 DEF Requeue
    <2> DEFINE g1 == [g EXCEPT !.pc = "slot"]
               h == [g1 EXCEPT !.leaked = @ + 1]
    <2>a. sess' = [sess EXCEPT ![s] = h]
        BY <1>10 DEF Requeue
    <2>b. /\ g1 \in Record /\ g1.pc = "slot"
          /\ g1.used = g.used /\ g1.relays = g.relays /\ g1.old = g.old /\ g1.leaked = g.leaked
        BY <1>1 DEF Record, Pcs, Serving
    <2> HIDE DEF g1
    <2>c. h \in Record /\ Balanced(h)
        BY TcpMuxAssumption, <1>1, <1>10, <2>b DEF Requeue, Balanced, Record
    <2> HIDE DEF h
    <2> QED
        BY <2>1, <2>a, <2>c
<1>11. CASE FailSession(s)
    <2>1. Numbers'
        BY TcpMuxAssumption, <1>3, <1>11 DEF FailSession, Request
    <2> DEFINE h == Ended(g)
    <2>a. h \in Record /\ Balanced(h)
        BY TcpMuxAssumption, <1>1, <1>11, EndedBalanced DEF FailSession
    <2>b. sess' = [sess EXCEPT ![s] = h]
        BY <1>11 DEF FailSession
    <2> HIDE DEF h
    <2> QED
        BY <2>1, <2>a, <2>b
<1>12. CASE SessionDies(s)
    <2>1. Numbers'
        BY TcpMuxAssumption, <1>3, <1>12 DEF SessionDies
    <2> DEFINE h == [g EXCEPT !.alive = FALSE]
    <2>a. h \in Record /\ Balanced(h)
        BY TcpMuxAssumption, <1>1, <1>12 DEF SessionDies, Record, Pcs, Balanced, Serving
    <2>b. sess' = [sess EXCEPT ![s] = h]
        BY <1>12 DEF SessionDies
    <2> HIDE DEF h
    <2> QED
        BY <2>1, <2>a, <2>b
<1>13. CASE RelayEnds(s)
    <2> DEFINE OneLess == [g EXCEPT !.relays = @ - 1, !.used = @ - 1]
               OneOldLess == [g EXCEPT !.old = @ - 1, !.used = @ - 1]
               Then(h) == IF h.pc = "ended" THEN Ended(h) ELSE h
    <2>0. \/ g.relays > 0 /\ sess' = [sess EXCEPT ![s] = Then(OneLess)] /\ UNCHANGED streamDrift
          \/ g.old > 0 /\ sess' = [sess EXCEPT ![s] = Then(OneOldLess)] /\ streamDrift' = streamDrift + 1
        BY <1>13, Zenon DEF RelayEnds
    <2>1. Numbers'
        <3> HIDE DEF OneLess, OneOldLess, Then
        <3> QED
            BY TcpMuxAssumption, <1>3, <1>13, <2>0 DEF RelayEnds
    <2>2. CASE g.relays > 0 /\ sess' = [sess EXCEPT ![s] = Then(OneLess)]
        <3> DEFINE g1 == [g EXCEPT !.relays = @ - 1]
                   h == [g1 EXCEPT !.used = @ - 1]
        <3>1. sess' = [sess EXCEPT ![s] = Then(h)]
            BY <2>2
        <3>2. /\ g1 \in Record /\ g1.relays = g.relays - 1
              /\ g1.pc = g.pc /\ g1.used = g.used /\ g1.old = g.old /\ g1.leaked = g.leaked
            BY TcpMuxAssumption, <1>1, <2>2 DEF Record
        <3> HIDE DEF g1
        <3>3. h \in Record /\ Balanced(h)
            BY TcpMuxAssumption, <1>1, <2>2, <3>2 DEF Record, Balanced
        <3> HIDE DEF h
        <3>4. Then(h) \in Record /\ Balanced(Then(h))
            BY <3>3, EndedBalanced
        <3> HIDE DEF Then
        <3> QED
            BY <2>1, <3>1, <3>4
    <2>3. CASE g.old > 0 /\ sess' = [sess EXCEPT ![s] = Then(OneOldLess)]
        <3> DEFINE g1 == [g EXCEPT !.old = @ - 1]
                   h == [g1 EXCEPT !.used = @ - 1]
        <3>1. sess' = [sess EXCEPT ![s] = Then(h)]
            BY <2>3
        <3>2. /\ g1 \in Record /\ g1.old = g.old - 1
              /\ g1.pc = g.pc /\ g1.used = g.used /\ g1.relays = g.relays /\ g1.leaked = g.leaked
            BY TcpMuxAssumption, <1>1, <2>3 DEF Record
        <3> HIDE DEF g1
        <3>3. h \in Record /\ Balanced(h)
            BY TcpMuxAssumption, <1>1, <2>3, <3>2 DEF Record, Balanced
        <3> HIDE DEF h
        <3>4. Then(h) \in Record /\ Balanced(Then(h))
            BY <3>3, EndedBalanced
        <3> HIDE DEF Then
        <3> QED
            BY <2>1, <3>1, <3>4
    <2> QED
        BY <2>0, <2>2, <2>3
<1> QED
    BY <1>4, <1>5, <1>6, <1>7, <1>8, <1>9, <1>10, <1>11, <1>12, <1>13 DEF SessionStep

(* Restart leaves the slots of the surviving goroutines as they were. *)
LEMMA RestartTyped == Typed /\ RestartStep => Typed'
<1> SUFFICES ASSUME Typed, RestartStep PROVE Typed'
    OBVIOUS
<1> USE TcpMuxAssumption DEF drifts, bounds, supply, accepting
<1>1. CASE RestartBegin
    BY <1>1 DEF RestartBegin, Typed, TypeOK, SlotBook
<1>2. CASE RestartFinish
    <2>1. ASSUME NEW s \in Sessions
          PROVE  Survivor(sess[s]) \in Record /\ Balanced(Survivor(sess[s]))
        <3> DEFINE g == sess[s]
        <3>1. g \in Record /\ Balanced(g)
            BY DEF Typed, TypeOK, SlotBook, Record, Pcs, Balanced
        <3> HIDE DEF g
        <3>2. Survivor(g) \in Record /\ Balanced(Survivor(g))
            BY <3>1 DEF Survivor, Record, Pcs, Balanced, Serving
        <3> QED
            BY <3>2 DEF g
    <2>2. sess' = [s \in Sessions |-> Survivor(sess[s])]
        BY <1>2 DEF RestartFinish
    <2>3. sess' \in [Sessions -> Record] /\ \A s \in Sessions : Balanced(sess'[s])
        BY <2>1, <2>2
    <2>4. Numbers'
        BY <1>2 DEF RestartFinish, Typed, TypeOK, Numbers
    <2> QED
        BY <2>3, <2>4 DEF Typed, TypeOK, SlotBook, Record, Pcs, Balanced, Numbers
<1>3. CASE LinkUp
    BY <1>3 DEF LinkUp, Typed, TypeOK, SlotBook
<1> QED
    BY <1>1, <1>2, <1>3 DEF RestartStep

(* Every step of the tcpmux server and of its restart keeps the types and  *)
(* the slot book.                                                          *)
LEMMA NextTyped == Typed /\ [Next]_vars => Typed'
<1> SUFFICES ASSUME Typed, [Next]_vars PROVE Typed'
    OBVIOUS
<1>1. CASE Next
    BY <1>1, SupplyTyped, SessionTyped, RestartTyped DEF Next
<1>2. CASE UNCHANGED vars
    BY <1>2 DEF vars, Typed, TypeOK, SlotBook, drifts, bounds, supply, accepting
<1> QED
    BY <1>1, <1>2

(* No channel of the tcpmux server overflows and no session relays more    *)
(* than mux_con user connections, across restarts and failures.            *)
THEOREM MuxTypeCorrect == Spec => []TypeOK
<1>1. Typed => TypeOK
    BY DEF Typed
<1> QED
    BY <1>1, InitTyped, NextTyped, PTL DEF Spec

-----------------------------------------------------------------------------
(* Requests keep up with streams *)

(* What Provisioned multiplies by MuxCon. *)
Total == sessionCounter + Inflight + swallowed

(* Finitely many sessions are in handleSessionError, before and after a    *)
(* step.                                                                   *)
LEMMA FailingFinite ==
    /\ IsFiniteSet(Failing) /\ Cardinality(Failing) \in Nat
    /\ IsFiniteSet(Failing') /\ Cardinality(Failing') \in Nat
BY TcpMuxAssumption, FS_Subset, FS_CardinalityType DEF Failing

(* The steps of a session that neither find it dead nor leave              *)
(* handleSessionError.                                                     *)
Ordinary(s) == \/ HandleLoop(s) \/ TakeSlot(s) \/ SessionCancelled(s) \/ TakeLocal(s)
               \/ SendAddr(s) \/ Requeue(s) \/ RelayEnds(s) \/ SessionDies(s)

(* Such a step leaves the sessions in handleSessionError as they are. *)
LEMMA FailingKept ==
    ASSUME Typed, NEW s \in Sessions, Ordinary(s)
    PROVE  Failing' = Failing
<1> SUFFICES ASSUME NEW t \in Sessions
             PROVE  sess'[t].pc = "fail" <=> sess[t].pc = "fail"
    BY DEF Failing
<1> USE DEF Typed, TypeOK
<1>1. CASE HandleLoop(s)
    BY <1>1 DEF HandleLoop, NewSession
<1>2. CASE TakeSlot(s)
    BY <1>2 DEF TakeSlot
<1>3. CASE SessionCancelled(s)
    BY <1>3 DEF SessionCancelled, Ended, NoSession
<1>4. CASE TakeLocal(s)
    BY <1>4 DEF TakeLocal
<1>5. CASE SendAddr(s)
    BY <1>5 DEF SendAddr
<1>6. CASE Requeue(s)
    BY <1>6 DEF Requeue
<1>7. CASE RelayEnds(s)
    <2> DEFINE Released(h) == IF h.pc = "ended" THEN Ended(h) ELSE h
    <2>1. PICK g : g.pc = sess[s].pc /\ sess' = [sess EXCEPT ![s] = Released(g)]
        BY <1>7, ZenonT(60) DEF RelayEnds
    <2>2. Released(g).pc = "fail" <=> g.pc = "fail"
        BY DEF Ended, NoSession
    <2> HIDE DEF Released
    <2> QED
        BY <2>1, <2>2
<1>8. CASE SessionDies(s)
    BY <1>8 DEF SessionDies
<1> QED
    BY <1>1, <1>2, <1>3, <1>4, <1>5, <1>6, <1>7, <1>8 DEF Ordinary

(* A session found dead is in handleSessionError until it has put its user *)
(* connection back and asked for another session.                          *)
LEMMA FailingGrows ==
    ASSUME Typed, NEW s \in Sessions, OpenStream(s)
    PROVE  Cardinality(Failing') - Cardinality(Failing) = sessionCounter - sessionCounter'
<1> USE DEF Typed, TypeOK
<1>1. CASE sess' = [sess EXCEPT ![s].pc = "send"] /\ UNCHANGED sessionCounter
    <2>1. Failing' = Failing
        BY <1>1 DEF OpenStream, Failing
    <2> QED
        BY <1>1, <2>1, FailingFinite
<1>2. CASE sess' = [sess EXCEPT ![s].pc = "fail"] /\ sessionCounter' = sessionCounter - 1
    <2>1. Failing' = Failing \cup {s} /\ s \notin Failing
        BY <1>2 DEF OpenStream, Failing
    <2>2. Cardinality(Failing') = Cardinality(Failing) + 1
        BY <2>1, FailingFinite, FS_AddElement
    <2> QED
        BY <1>2, <2>2, FailingFinite
<1> QED
    BY <1>1, <1>2 DEF OpenStream

(* handleSessionError ends for exactly one session. *)
LEMMA FailingShrinks ==
    ASSUME Typed, NEW s \in Sessions, FailSession(s)
    PROVE  Cardinality(Failing') = Cardinality(Failing) - 1
<1>1. Failing' = Failing \ {s} /\ s \in Failing
    BY DEF FailSession, Ended, NoSession, Failing, Typed, TypeOK
<1> QED
    BY <1>1, FailingFinite, FS_RemoveElement

(* Multiplication by the slots of a session preserves the order. *)
LEMMA Scaled ==
    ASSUME NEW a \in Int, NEW b \in Int, a <= b, NEW m \in Nat
    PROVE  a * m <= b * m
<1>1. (b - a) * m >= 0
    OBVIOUS
<1>2. (b - a) * m = b * m - a * m
    OBVIOUS
<1> QED
    BY <1>1, <1>2

(* The sessions counted, under way and swallowed are an integer number. *)
LEMMA TotalTyped == (Typed => Total \in Int) /\ (Typed' => Total' \in Int)
BY FailingFinite DEF Typed, TypeOK, Total, Inflight

(* Steps that move a request along, or end a stream, cost no capacity. *)
Covered ==
    phase' # "stopping" /\ lost' = 0 =>
        /\ phase # "stopping" /\ lost = 0
        /\ Total' >= Total
        /\ streamCounter' - comparing' <= streamCounter - comparing

(* A step that costs no capacity keeps every stream provisioned. *)
LEMMA CoveredKeeps == Typed /\ Typed' /\ Provisioned /\ Covered => Provisioned'
<1> SUFFICES ASSUME Typed, Typed', Provisioned, Covered, phase' # "stopping", lost' = 0
             PROVE  streamCounter' <= Total' * MuxCon + comparing'
    BY DEF Provisioned, Total
<1>1. streamCounter <= Total * MuxCon + comparing
    BY DEF Provisioned, Total, Covered
<1>2. Total \in Int /\ Total' \in Int /\ MuxCon \in Nat
    BY TotalTyped, TcpMuxAssumption
<1>3. Total * MuxCon <= Total' * MuxCon
    <2>1. Total <= Total'
        BY <1>2 DEF Covered
    <2> QED
        BY <1>2, <2>1, Scaled
<1>4. /\ {streamCounter, comparing, streamCounter', comparing'} \subseteq Int
      /\ Total * MuxCon \in Int /\ Total' * MuxCon \in Int
    BY <1>2 DEF Typed, TypeOK
<1> HIDE DEF Total
<1> QED
    BY <1>1, <1>3, <1>4 DEF Covered

(* Accepting a user connection, comparing the counters, asking for and     *)
(* accepting a session keep every stream provisioned.                      *)
LEMMA SupplyProvisioned ==
    Typed /\ Provisioned /\ (AcceptLocal \/ SupplyStep \/ PoolStep) => Provisioned'
<1> SUFFICES ASSUME Typed, Provisioned, AcceptLocal \/ SupplyStep \/ PoolStep
             PROVE  Provisioned'
    OBVIOUS
<1>1. Typed'
    BY SupplyTyped
<1>2. sess' = sess /\ Failing' = Failing
    BY DEF AcceptLocal, SupplyStep, PoolStep, CountStream, CompareCounters, SendRequest,
           ReceiveRequest, DialTunnel, AcceptTunnel, GrowPool, ShrinkPool, Failing
<1>3. Cardinality(Failing') = Cardinality(Failing) /\ Cardinality(Failing) \in Nat
    BY <1>2, FailingFinite
<1>4. CASE ~CompareCounters
    <2> USE DEF Covered, Total, Inflight, Typed, TypeOK, drifts, bounds, supply, accepting
    <2>1. Covered
        <3>1. CASE AcceptLocal
            BY <1>3, <3>1 DEF AcceptLocal
        <3>2. CASE CountStream
            BY <1>3, <3>2 DEF CountStream
        <3>3. CASE SendRequest
            BY <1>3, <3>3 DEF SendRequest
        <3>4. CASE ReceiveRequest
            BY <1>3, <3>4 DEF ReceiveRequest
        <3>5. CASE DialTunnel
            BY <1>3, <3>5 DEF DialTunnel
        <3>6. CASE AcceptTunnel
            BY <1>3, <3>6 DEF AcceptTunnel
        <3>7. CASE PoolStep
            BY <1>3, <3>7 DEF PoolStep, GrowPool, ShrinkPool
        <3> QED
            BY <1>4, <3>1, <3>2, <3>3, <3>4, <3>5, <3>6, <3>7 DEF SupplyStep
    <2> QED
        BY <1>1, <2>1, CoveredKeeps
<1>5. CASE CompareCounters
    <2> SUFFICES ASSUME phase' # "stopping", lost' = 0
                 PROVE  streamCounter' <= Total' * MuxCon + comparing'
        BY DEF Provisioned, Total
    <2>1. streamCounter <= Total * MuxCon + comparing
        BY <1>5 DEF Provisioned, Total, CompareCounters, Request, Typed, TypeOK
    <2>2. Total \in Int /\ Total' \in Int /\ MuxCon \in Nat \ {0}
        BY <1>1, TotalTyped, TcpMuxAssumption
    <2>3. CASE NeedSession
        <3>1. Total' = Total + 1 /\ streamCounter' = streamCounter /\ comparing' = comparing - 1
            BY <1>3, <1>5, <2>3 DEF CompareCounters, Request, Total, Inflight, Typed, TypeOK
        <3> HIDE DEF Total
        <3>2. (Total + 1) * MuxCon = Total * MuxCon + MuxCon
            BY <2>2
        <3> QED
            BY <2>1, <2>2, <3>1, <3>2 DEF Typed, TypeOK
    <2>4. CASE ~NeedSession
        <3>1. Total' = Total /\ streamCounter' = streamCounter /\ comparing' = comparing - 1
            BY <1>3, <1>5, <2>4 DEF CompareCounters, Total, Inflight
        <3>2. streamCounter + 1 <= sessionCounter * MuxCon
            BY <2>2, <2>4 DEF NeedSession, Typed, TypeOK
        <3>3. sessionCounter <= Total
            BY FailingFinite DEF Total, Inflight, Typed, TypeOK
        <3> HIDE DEF Total
        <3>4. sessionCounter * MuxCon <= Total * MuxCon
            BY <2>2, <3>3 DEF Typed, TypeOK
        <3>5. comparing' >= 0
            BY <1>1 DEF Typed, TypeOK
        <3> QED
            BY <2>2, <3>1, <3>2, <3>4, <3>5 DEF Typed, TypeOK
    <2> QED
        BY <2>3, <2>4
<1> QED
    BY <1>4, <1>5

(* What a session does on its own, its death included, keeps every stream  *)
(* provisioned.                                                            *)
LEMMA SessionProvisioned ==
    ASSUME Typed, Provisioned, NEW s \in Sessions,
           SessionStep(s) \/ SessionCancelled(s) \/ RelayEnds(s) \/ SessionDies(s)
    PROVE  Provisioned'
<1>1. Typed'
    BY SessionTyped
<1> SUFFICES Covered
    BY <1>1, CoveredKeeps
<1> USE FailingFinite
    DEF Covered, Total, Inflight, Typed, TypeOK, sessionOnly, drifts, bounds, supply, accepting
<1>2. CASE Ordinary(s)
    <2>1. Failing' = Failing
        BY <1>2, FailingKept
    <2>2. Cardinality(Failing') = Cardinality(Failing)
        BY <2>1
    <2>3. CASE HandleLoop(s)
        BY <2>2, <2>3 DEF HandleLoop
    <2>4. CASE TakeSlot(s)
        BY <2>2, <2>4 DEF TakeSlot
    <2>5. CASE SessionCancelled(s)
        BY <2>2, <2>5 DEF SessionCancelled
    <2>6. CASE TakeLocal(s)
        BY <2>2, <2>6 DEF TakeLocal
    <2>7. CASE SendAddr(s)
        BY <2>2, <2>7 DEF SendAddr
    <2>8. CASE Requeue(s)
        BY <2>2, <2>8 DEF Requeue
    <2>9. CASE RelayEnds(s)
        BY <2>2, <2>9 DEF RelayEnds
    <2>10. CASE SessionDies(s)
        BY <2>2, <2>10 DEF SessionDies
    <2> QED
        BY <1>2, <2>3, <2>4, <2>5, <2>6, <2>7, <2>8, <2>9, <2>10 DEF Ordinary
<1>3. CASE OpenStream(s)
    <2>1. Cardinality(Failing') - Cardinality(Failing) = sessionCounter - sessionCounter'
        BY <1>3, FailingGrows
    <2>2. sessionCounter' \in Int
        BY <1>1
    <2> QED
        BY <1>3, <2>1, <2>2 DEF OpenStream
<1>4. CASE FailSession(s)
    <2>1. Cardinality(Failing') = Cardinality(Failing) - 1
        BY <1>4, FailingShrinks
    <2> QED
        BY <1>4, <2>1 DEF FailSession, Request
<1> QED
    BY <1>2, <1>3, <1>4 DEF Ordinary, SessionStep

(* Restart resets both counters, so nothing is owed. *)
LEMMA RestartProvisioned == Typed /\ Provisioned /\ RestartStep => Provisioned'
<1> SUFFICES ASSUME Typed, Provisioned, RestartStep PROVE Provisioned'
    OBVIOUS
<1>1. Typed'
    BY RestartTyped
<1>2. CASE RestartBegin
    BY <1>2 DEF RestartBegin, Provisioned
<1>3. CASE RestartFinish
    <2>1. Total' >= 0 /\ streamCounter' = 0 /\ comparing' = 0
        BY <1>1, <1>3, FailingFinite DEF RestartFinish, Total, Inflight, Typed, TypeOK, accepting
    <2>2. Total' * MuxCon >= 0
        BY <1>1, <2>1, TotalTyped, TcpMuxAssumption
    <2> QED
        BY <1>1, <2>1, <2>2, TotalTyped, TcpMuxAssumption DEF Provisioned, Total
<1>4. CASE LinkUp
    <2>1. Failing' = Failing
        BY <1>4 DEF LinkUp, Failing
    <2>2. Cardinality(Failing') = Cardinality(Failing)
        BY <2>1
    <2>3. Covered
        BY <1>4, <2>2, FailingFinite, TcpMuxAssumption
           DEF LinkUp, Covered, Total, Inflight, Typed, TypeOK, accepting
    <2> QED
        BY <1>1, <2>3, CoveredKeeps
<1> QED
    BY <1>2, <1>3, <1>4 DEF RestartStep

(* Whatever the mux_con, the channel size and the order in which           *)
(* acceptLocalConns increment and compare the two counters, the requests   *)
(* they make keep up with the streams they count, as long as no request or *)
(* session is lost: the counted sessions and those on their way (or        *)
(* swallowed by a token) have a slot for every stream.                     *)
THEOREM MuxProvisioned == Spec => []Provisioned
<1> DEFINE IInv == Typed /\ Provisioned
<1>1. Init => IInv
    <2> SUFFICES ASSUME Init PROVE Provisioned
        BY InitTyped
    <2>1. Total >= 0 /\ streamCounter = 0 /\ comparing = 0
        BY FailingFinite, TcpMuxAssumption DEF Init, Total, Inflight
    <2>2. Total * MuxCon >= 0
        BY <2>1, InitTyped, TotalTyped, TcpMuxAssumption
    <2> QED
        BY <2>1, <2>2, InitTyped, TotalTyped, TcpMuxAssumption DEF Provisioned, Total
<1>2. IInv /\ [Next]_vars => IInv'
    <2> SUFFICES ASSUME Typed, Provisioned, [Next]_vars PROVE Provisioned'
        BY NextTyped
    <2>1. CASE Next
        BY <2>1, SupplyProvisioned, SessionProvisioned, RestartProvisioned DEF Next
    <2>2. CASE UNCHANGED vars
        BY <2>2 DEF vars, Provisioned, Inflight, Failing, supply, accepting
    <2> QED
        BY <2>1, <2>2
<1>3. IInv => Provisioned
    OBVIOUS
<1> QED
    BY <1>1, <1>2, <1>3, PTL DEF Spec

-----------------------------------------------------------------------------
(* sessionCounter *)

(* Finitely many sessions are counted, before and after a step. *)
LEMMA CountedFinite ==
    /\ IsFiniteSet(CountedSessions) /\ Cardinality(CountedSessions) \in Nat
    /\ IsFiniteSet(CountedSessions') /\ Cardinality(CountedSessions') \in Nat
BY TcpMuxAssumption, FS_Subset, FS_CardinalityType DEF CountedSessions

(* The steps of a session that do not change whether it is counted. *)
Steady(s) == \/ TakeSlot(s) \/ TakeLocal(s) \/ SendAddr(s) \/ Requeue(s)
             \/ FailSession(s) \/ RelayEnds(s) \/ SessionDies(s)

(* Such a step leaves the counted sessions as they are. *)
LEMMA CountedKept ==
    ASSUME Typed, NEW s \in Sessions, Steady(s)
    PROVE  CountedSessions' = CountedSessions
<1> SUFFICES ASSUME NEW t \in Sessions
             PROVE  (sess'[t].counted /\ sess'[t].pc \in Serving)
                        <=> (sess[t].counted /\ sess[t].pc \in Serving)
    BY DEF CountedSessions
<1> USE DEF Typed, TypeOK, Serving
<1>1. CASE TakeSlot(s)
    BY <1>1 DEF TakeSlot
<1>2. CASE TakeLocal(s)
    BY <1>2 DEF TakeLocal
<1>3. CASE SendAddr(s)
    BY <1>3 DEF SendAddr
<1>4. CASE Requeue(s)
    BY <1>4 DEF Requeue
<1>5. CASE FailSession(s)
    BY <1>5 DEF FailSession, Ended, NoSession
<1>6. CASE RelayEnds(s)
    <2> DEFINE Released(h) == IF h.pc = "ended" THEN Ended(h) ELSE h
               g1 == [sess[s] EXCEPT !.relays = @ - 1, !.used = @ - 1]
               g2 == [sess[s] EXCEPT !.old = @ - 1, !.used = @ - 1]
    <2>0. \A g \in {g1, g2} : g.pc = sess[s].pc /\ g.counted = sess[s].counted
        OBVIOUS
    <2>a. \/ sess' = [sess EXCEPT ![s] = Released(g1)]
          \/ sess' = [sess EXCEPT ![s] = Released(g2)]
        BY <1>6, Zenon DEF RelayEnds
    <2> HIDE DEF g1, g2
    <2>1. PICK g : /\ g.pc = sess[s].pc /\ g.counted = sess[s].counted
                   /\ sess' = [sess EXCEPT ![s] = Released(g)]
        BY <2>0, <2>a
    <2>2. /\ g.pc # "ended" => Released(g) = g
          /\ g.pc = "ended" => Released(g).pc \in {"free", "ended"}
        BY DEF Ended, NoSession
    <2> HIDE DEF Released
    <2> QED
        BY <2>1, <2>2
<1>7. CASE SessionDies(s)
    BY <1>7 DEF SessionDies
<1> QED
    BY <1>1, <1>2, <1>3, <1>4, <1>5, <1>6, <1>7 DEF Steady

(* Every step of a session changes sessionCounter as it changes the set of *)
(* counted sessions.                                                       *)
LEMMA SessionCounted ==
    ASSUME Typed, SessionCounterExact, NEW s \in Sessions,
           SessionStep(s) \/ SessionCancelled(s) \/ RelayEnds(s) \/ SessionDies(s)
    PROVE  SessionCounterExact'
<1> SUFFICES ASSUME phase' # "stopping"
             PROVE  sessionCounter' + sessionDrift' = Cardinality(CountedSessions')
    BY DEF SessionCounterExact
<1>1. phase' = phase
    BY DEF SessionStep, HandleLoop, TakeSlot, TakeLocal, OpenStream, SendAddr, Requeue,
           FailSession, SessionCancelled, RelayEnds, SessionDies, sessionOnly
<1>2. sessionCounter + sessionDrift = Cardinality(CountedSessions)
    BY <1>1 DEF SessionCounterExact
<1>3. CASE HandleLoop(s)
    <2>1. CountedSessions' = CountedSessions \cup {s} /\ s \notin CountedSessions
        BY <1>3 DEF HandleLoop, NewSession, CountedSessions, Typed, TypeOK, Serving
    <2>2. Cardinality(CountedSessions') = Cardinality(CountedSessions) + 1
        BY <2>1, CountedFinite, FS_AddElement
    <2> QED
        BY <1>2, <1>3, <2>2 DEF HandleLoop, Typed, TypeOK, drifts
<1>4. CASE Steady(s)
    <2>1. CountedSessions' = CountedSessions
        BY <1>4, CountedKept
    <2>2. sessionCounter' = sessionCounter /\ sessionDrift' = sessionDrift
        BY <1>4, Zenon DEF Steady, TakeSlot, TakeLocal, SendAddr, Requeue, FailSession, RelayEnds,
                           SessionDies, drifts
    <2> QED
        BY <1>2, <2>1, <2>2
<1>5. CASE OpenStream(s)
    <2> USE DEF OpenStream, Typed, TypeOK, CountedSessions, Serving
    <2>1. CASE sess' = [sess EXCEPT ![s].pc = "send"] /\ UNCHANGED <<sessionCounter, sessionDrift>>
        <3>1. CountedSessions' = CountedSessions
            BY <1>5, <2>1
        <3> HIDE DEF CountedSessions
        <3> QED
            BY <1>2, <2>1, <3>1
    <2>2. CASE /\ sess' = [sess EXCEPT ![s].pc = "fail"]
               /\ sessionCounter' = sessionCounter - 1
               /\ sessionDrift' = IF sess[s].counted THEN sessionDrift ELSE sessionDrift + 1
        <3>1. CASE sess[s].counted
            <4>1. CountedSessions' = CountedSessions \ {s} /\ s \in CountedSessions
                BY <1>5, <2>2, <3>1
            <4> HIDE DEF CountedSessions
            <4>2. Cardinality(CountedSessions') = Cardinality(CountedSessions) - 1
                BY <4>1, CountedFinite, FS_RemoveElement
            <4> QED
                BY <1>2, <2>2, <3>1, <4>2, CountedFinite
        <3>2. CASE ~sess[s].counted
            <4>1. CountedSessions' = CountedSessions
                BY <1>5, <2>2, <3>2
            <4> HIDE DEF CountedSessions
            <4> QED
                BY <1>2, <2>2, <3>2, <4>1
        <3> QED
            BY <3>1, <3>2
    <2> QED
        BY <1>5, <2>1, <2>2
<1>6. CASE SessionCancelled(s)
    BY <1>1, <1>6 DEF SessionCancelled
<1> QED
    BY <1>3, <1>4, <1>5, <1>6 DEF SessionStep, Steady

(* Restart starts the count again; the goroutines that survive it are not  *)
(* counted, and their decrements are what sessionDrift records.            *)
LEMMA OthersCounted ==
    ASSUME Typed, SessionCounterExact, AcceptLocal \/ SupplyStep \/ PoolStep \/ RestartStep
    PROVE  SessionCounterExact'
<1>1. CASE AcceptLocal \/ SupplyStep \/ PoolStep \/ LinkUp
    <2>1. /\ UNCHANGED <<sess, sessionCounter, sessionDrift>>
          /\ phase' # "stopping" => phase # "stopping"
        BY <1>1 DEF AcceptLocal, SupplyStep, PoolStep, CountStream, CompareCounters, SendRequest,
                    ReceiveRequest, DialTunnel, AcceptTunnel, GrowPool, ShrinkPool, LinkUp, drifts
    <2>2. CountedSessions' = CountedSessions
        BY <2>1 DEF CountedSessions
    <2> QED
        BY <2>1, <2>2 DEF SessionCounterExact
<1>2. CASE RestartBegin
    BY <1>2 DEF RestartBegin, SessionCounterExact
<1>3. CASE RestartFinish
    <2>1. CountedSessions' = {}
        BY <1>3 DEF RestartFinish, Survivor, CountedSessions
    <2> QED
        BY <1>3, <2>1, FS_EmptySet DEF RestartFinish, SessionCounterExact
<1> QED
    BY <1>1, <1>2, <1>3 DEF RestartStep

(* sessionCounter, which acceptLocalConn compares with the streams, is the *)
(* number of sessions of this run still taking user connections, less the  *)
(* decrements of sessions that survived a restart.                         *)
THEOREM MuxSessionCounter == Spec => []SessionCounterExact
<1> DEFINE IInv == Typed /\ SessionCounterExact
<1>1. Init => IInv
    <2> SUFFICES ASSUME Init PROVE SessionCounterExact
        BY InitTyped
    <2>1. CountedSessions = {}
        BY DEF Init, NoSession, CountedSessions
    <2> QED
        BY <2>1, FS_EmptySet DEF Init, SessionCounterExact
<1>2. IInv /\ [Next]_vars => IInv'
    <2> SUFFICES ASSUME Typed, SessionCounterExact, [Next]_vars PROVE SessionCounterExact'
        BY NextTyped
    <2>1. CASE Next
        BY <2>1, OthersCounted, SessionCounted DEF Next
    <2>2. CASE UNCHANGED vars
        BY <2>2 DEF vars, SessionCounterExact, CountedSessions, drifts
    <2> QED
        BY <2>1, <2>2
<1>3. IInv => SessionCounterExact
    OBVIOUS
<1> QED
    BY <1>1, <1>2, <1>3, PTL DEF Spec

-----------------------------------------------------------------------------
(* streamCounter *)

(* A name that is free has nothing left of its session; with it, and with  *)
(* finitely many relays, StreamCounterExact is inductive.                  *)
StreamBook ==
    /\ \A s \in Sessions : sess[s].pc = "free" => sess[s] = NoSession
    /\ IsFiniteSet(Relayed)
    /\ StreamCounterExact

(* The user connection a session has in hand. *)
Bit(g) == IF g.pc \in Holding THEN 1 ELSE 0

(* The sessions that hold a user connection are finitely many. *)
LEMMA HeldFinite ==
    /\ IsFiniteSet(Held) /\ Cardinality(Held) \in Nat
    /\ IsFiniteSet(Held') /\ Cardinality(Held') \in Nat
BY TcpMuxAssumption, FS_Subset, FS_CardinalityType DEF Held

(* One session changes: what it has in hand changes Held. *)
LEMMA HeldChange ==
    ASSUME Typed, NEW s \in Sessions, NEW h, sess' = [sess EXCEPT ![s] = h]
    PROVE  Cardinality(Held') + Bit(sess[s]) = Cardinality(Held) + Bit(h)
<1>0. sess'[s] = h /\ \A t \in Sessions : t # s => sess'[t] = sess[t]
    BY DEF Typed, TypeOK
<1>1. CASE h.pc \in Holding
    <2>1. Held' = Held \cup {s}
        BY <1>0, <1>1 DEF Held
    <2>2. s \in Held <=> sess[s].pc \in Holding
        BY DEF Held
    <2>3. Cardinality(Held') = IF s \in Held THEN Cardinality(Held) ELSE Cardinality(Held) + 1
        BY <2>1, HeldFinite, FS_AddElement
    <2> QED
        BY <1>1, <2>2, <2>3, HeldFinite DEF Bit
<1>2. CASE h.pc \notin Holding
    <2>1. Held' = Held \ {s}
        BY <1>0, <1>2 DEF Held
    <2>2. s \in Held <=> sess[s].pc \in Holding
        BY DEF Held
    <2>3. Cardinality(Held') = IF s \in Held THEN Cardinality(Held) - 1 ELSE Cardinality(Held)
        BY <2>1, HeldFinite, FS_RemoveElement
    <2> QED
        BY <1>2, <2>2, <2>3, HeldFinite DEF Bit
<1> QED
    BY <1>1, <1>2

(* The relays of all sessions, from their numbers f.  g counts one more    *)
(* than f, for session x.                                                  *)
Rows(f) == UNION {{<<t, k>> : k \in 1..f[t]} : t \in Sessions}
OneMore(f, g, x) ==
    /\ f \in [Sessions -> Nat] /\ g \in [Sessions -> Nat] /\ x \in Sessions
    /\ g[x] = f[x] + 1 /\ \A t \in Sessions : t # x => g[t] = f[t]

(* A relay more is one member more. *)
LEMMA RowsGrow ==
    ASSUME NEW f, NEW g, NEW x, OneMore(f, g, x)
    PROVE  \E p : Rows(g) = Rows(f) \cup {p} /\ p \notin Rows(f)
<1>0. /\ f \in [Sessions -> Nat] /\ g \in [Sessions -> Nat] /\ x \in Sessions
      /\ g[x] = f[x] + 1 /\ \A t \in Sessions : t # x => g[t] = f[t]
    BY DEF OneMore
<1>1. 1..g[x] = (1..f[x]) \cup {f[x] + 1}
    BY <1>0
<1>2. \A t \in Sessions : {<<t, k>> : k \in 1..g[t]}
        = IF t = x THEN {<<t, k>> : k \in 1..f[t]} \cup {<<x, f[x] + 1>>}
          ELSE {<<t, k>> : k \in 1..f[t]}
    BY <1>0, <1>1
<1>3. Rows(g) = Rows(f) \cup {<<x, f[x] + 1>>}
    BY <1>0, <1>2 DEF Rows
<1>4. <<x, f[x] + 1>> \notin Rows(f)
    BY <1>0 DEF Rows
<1> QED
    BY <1>3, <1>4

(* The numbers of relays of the sessions. *)
Counts == [t \in Sessions |-> sess[t].relays]

(* One session changes: its relays change Relayed. *)
LEMMA RelayedChange ==
    ASSUME Typed, IsFiniteSet(Relayed), NEW s \in Sessions, NEW h, h.relays \in Nat,
           sess' = [sess EXCEPT ![s] = h],
           \/ h.relays = sess[s].relays \/ h.relays = sess[s].relays + 1
           \/ h.relays + 1 = sess[s].relays
    PROVE  /\ IsFiniteSet(Relayed') /\ Cardinality(Relayed) \in Nat
           /\ Cardinality(Relayed') + sess[s].relays = Cardinality(Relayed) + h.relays
<1>0. /\ Counts \in [Sessions -> Nat] /\ Counts' \in [Sessions -> Nat]
      /\ Counts[s] = sess[s].relays /\ Counts'[s] = h.relays
      /\ \A t \in Sessions : t # s => Counts'[t] = Counts[t]
    BY TcpMuxAssumption DEF Typed, TypeOK, Counts
<1>1. Relayed = Rows(Counts) /\ Relayed' = Rows(Counts')
    BY DEF Relayed, Rows, Counts
<1>2. Cardinality(Relayed) \in Nat
    BY FS_CardinalityType
<1>3. CASE h.relays = sess[s].relays
    <2>1. Counts' = Counts
        BY <1>0, <1>3 DEF Counts
    <2>2. Relayed' = Relayed
        BY <1>1, <2>1
    <2> QED
        BY <1>2, <1>3, <2>2
<1>4. CASE h.relays = sess[s].relays + 1
    <2>1. OneMore(Counts, Counts', s)
        BY <1>0, <1>4 DEF OneMore
    <2>2. PICK p : Rows(Counts') = Rows(Counts) \cup {p} /\ p \notin Rows(Counts)
        BY <2>1, RowsGrow
    <2>3. IsFiniteSet(Rows(Counts)) /\ Cardinality(Rows(Counts)) \in Nat
        BY <1>1, <1>2
    <2>4. /\ IsFiniteSet(Rows(Counts'))
          /\ Cardinality(Rows(Counts')) = Cardinality(Rows(Counts)) + 1
        BY <2>2, <2>3, FS_AddElement
    <2>5. sess[s].relays \in Nat
        BY <1>0
    <2> QED
        BY <1>1, <1>4, <2>3, <2>4, <2>5
<1>5. CASE h.relays + 1 = sess[s].relays
    <2>1. OneMore(Counts', Counts, s)
        BY <1>0, <1>5 DEF OneMore
    <2>2. PICK p : Rows(Counts) = Rows(Counts') \cup {p} /\ p \notin Rows(Counts')
        BY <2>1, RowsGrow
    <2>3. IsFiniteSet(Rows(Counts)) /\ Cardinality(Rows(Counts)) \in Nat
        BY <1>1, <1>2
    <2>4. Rows(Counts') = Rows(Counts) \ {p} /\ p \in Rows(Counts)
        BY <2>2
    <2>5. /\ IsFiniteSet(Rows(Counts'))
          /\ Cardinality(Rows(Counts')) = Cardinality(Rows(Counts)) - 1
        BY <2>3, <2>4, FS_RemoveElement
    <2> QED
        BY <1>1, <1>5, <2>3, <2>5
<1> QED
    BY <1>3, <1>4, <1>5

(* What a step of a session does to the count: what it adds to             *)
(* streamCounter, the drift and the connections being counted it adds to   *)
(* localChannel, the hand or the relays.                                   *)
Square(g, h) ==
    /\ h.relays \in Nat /\ (h.pc = "free" => h = NoSession)
    /\ h.relays = g.relays \/ h.relays = g.relays + 1 \/ h.relays + 1 = g.relays
    /\ streamCounter' + streamDrift' + counting' + localCh + Bit(g) + g.relays
          = streamCounter + streamDrift + counting + localCh' + Bit(h) + h.relays

(* Arithmetic of the two lemmas below. *)
LEMMA SumPositive ==
    ASSUME NEW u \in Nat, NEW a \in Nat, NEW b \in Nat, NEW c \in Nat,
           u = a + b + c \/ u = a + b + c + 1, a > 0 \/ b > 0
    PROVE  u >= 1
OBVIOUS

(* The sums before a step, and what the step adds, give the sums after it. *)
LEMMA SumsSquare ==
    ASSUME NEW c \in Int, NEW l \in Int, NEW n \in Int, NEW r \in Int,
           NEW c1 \in Int, NEW l1 \in Int, NEW n1 \in Int, NEW r1 \in Int,
           NEW x \in Int, NEW y \in Int, NEW x1 \in Int, NEW y1 \in Int,
           c = l + n + r, n1 + x = n + x1, r1 + y = r + y1,
           c1 + l + x + y = c + l1 + x1 + y1
    PROVE  c1 = l1 + n1 + r1
OBVIOUS

(* Every step of a handleSession goroutine, its relays and its end squares. *)
LEMMA SessionSquares ==
    ASSUME Typed, StreamBook, NEW s \in Sessions,
           SessionStep(s) \/ SessionCancelled(s) \/ RelayEnds(s) \/ SessionDies(s)
    PROVE  \E h : sess' = [sess EXCEPT ![s] = h] /\ Square(sess[s], h)
<1> DEFINE g == sess[s]
<1>1. /\ g \in Record /\ g.relays \in Nat /\ g.old \in Nat /\ (g.pc = "free" => g = NoSession)
      /\ NoSession.relays = 0 /\ NoSession.old = 0 /\ ~NoSession.alive
      /\ localCh \in Int /\ streamCounter \in Int /\ streamDrift \in Int /\ counting \in Int
    BY TcpMuxAssumption DEF Typed, TypeOK, Record, Pcs, StreamBook, NoSession
<1>2. ASSUME NEW k \in Record
      PROVE  Ended(k).relays = k.relays /\ Ended(k).pc \in {"free", "ended"}
             /\ (Ended(k).pc = "free" => Ended(k) = NoSession)
    <2>1. k.relays \in Nat /\ k.old \in Nat
        BY TcpMuxAssumption DEF Record
    <2> QED
        BY <2>1 DEF Ended, NoSession, Record
<1> USE DEF sessionOnly, accepting, drifts
<1>3. CASE HandleLoop(s)
    <2>1. sess' = [sess EXCEPT ![s] = NewSession] /\ g.pc = "free"
          /\ UNCHANGED <<streamCounter, streamDrift, counting, localCh>>
        BY <1>3 DEF HandleLoop
    <2>2. Square(g, NewSession)
        BY <1>1, <2>1 DEF Square, Bit, NewSession, Holding
    <2> QED
        BY <2>1, <2>2
<1>4. CASE TakeSlot(s)
    <2> DEFINE h == [g EXCEPT !.pc = "select", !.used = @ + 1]
    <2>1. /\ sess' = [sess EXCEPT ![s] = h] /\ g.pc = "slot"
          /\ UNCHANGED <<streamCounter, streamDrift, counting, localCh>>
        BY <1>4 DEF TakeSlot
    <2>2. h.pc = "select" /\ h.relays = g.relays
        BY <1>1 DEF Record
    <2> HIDE DEF h
    <2>3. Square(g, h)
        BY <1>1, <2>1, <2>2 DEF Square, Bit, Holding
    <2> QED
        BY <2>1, <2>3
<1>5. CASE TakeLocal(s)
    <2>1. g.pc = "select" /\ localCh' = localCh - 1 /\ UNCHANGED <<streamDrift, counting>>
        BY <1>5 DEF TakeLocal
    <2>2. CASE sess' = [sess EXCEPT ![s].pc = "open"] /\ UNCHANGED streamCounter
        <3> DEFINE h == [g EXCEPT !.pc = "open"]
        <3>1. sess' = [sess EXCEPT ![s] = h]
            BY <2>2
        <3>2. h.pc = "open" /\ h.relays = g.relays
            BY <1>1 DEF Record
        <3> HIDE DEF h
        <3>3. Square(g, h)
            BY <1>1, <2>1, <2>2, <3>2 DEF Square, Bit, Holding
        <3> QED
            BY <3>1, <3>3
    <2>3. CASE /\ sess' = [sess EXCEPT ![s].pc = "slot", ![s].used = @ - 1]
               /\ streamCounter' = streamCounter - 1
        <3> DEFINE h == [g EXCEPT !.pc = "slot", !.used = @ - 1]
        <3>1. sess' = [sess EXCEPT ![s] = h]
            BY <2>3
        <3>2. h.pc = "slot" /\ h.relays = g.relays
            BY <1>1 DEF Record
        <3> HIDE DEF h
        <3>3. Square(g, h)
            BY <1>1, <2>1, <2>3, <3>2 DEF Square, Bit, Holding
        <3> QED
            BY <3>1, <3>3
    <2> QED
        BY <1>5, <2>2, <2>3 DEF TakeLocal
<1>6. CASE OpenStream(s) \/ SessionDies(s)
    <2>1. PICK h : /\ sess' = [sess EXCEPT ![s] = h] /\ h.relays = g.relays
                   /\ h.pc # "free"
                   /\ h.pc \in Holding <=> g.pc \in Holding
        <3>1. CASE OpenStream(s) /\ sess' = [sess EXCEPT ![s].pc = "send"]
            <4> DEFINE h == [g EXCEPT !.pc = "send"]
            <4>1. sess' = [sess EXCEPT ![s] = h] /\ g.pc = "open"
                BY <3>1 DEF OpenStream
            <4>2. h.pc = "send" /\ h.relays = g.relays
                BY <1>1 DEF Record
            <4> HIDE DEF h
            <4> QED
                BY <4>1, <4>2 DEF Holding
        <3>2. CASE OpenStream(s) /\ sess' = [sess EXCEPT ![s].pc = "fail"]
            <4> DEFINE h == [g EXCEPT !.pc = "fail"]
            <4>1. sess' = [sess EXCEPT ![s] = h] /\ g.pc = "open"
                BY <3>2 DEF OpenStream
            <4>2. h.pc = "fail" /\ h.relays = g.relays
                BY <1>1 DEF Record
            <4> HIDE DEF h
            <4> QED
                BY <4>1, <4>2 DEF Holding
        <3>3. CASE SessionDies(s)
            <4> DEFINE h == [g EXCEPT !.alive = FALSE]
            <4>1. sess' = [sess EXCEPT ![s] = h] /\ g.pc # "free"
                BY <1>1, <3>3 DEF SessionDies
            <4>2. h.pc = g.pc /\ h.relays = g.relays
                BY <1>1 DEF Record
            <4> HIDE DEF h
            <4> QED
                BY <4>1, <4>2
        <3> QED
            BY <1>6, <3>1, <3>2, <3>3 DEF OpenStream
    <2>2. UNCHANGED <<streamCounter, streamDrift, counting, localCh>>
        BY <1>6, Zenon DEF OpenStream, SessionDies
    <2>3. Square(g, h)
        BY <1>1, <2>1, <2>2 DEF Square, Bit
    <2> QED
        BY <2>1, <2>3
<1>7. CASE SendAddr(s)
    <2>1. g.pc = "send" /\ UNCHANGED <<streamCounter, streamDrift, counting, localCh>>
        BY <1>7 DEF SendAddr
    <2>2. CASE sess' = [sess EXCEPT ![s].pc = "slot", ![s].relays = @ + 1]
        <3> DEFINE h == [g EXCEPT !.pc = "slot", !.relays = @ + 1]
        <3>1. sess' = [sess EXCEPT ![s] = h]
            BY <2>2
        <3>2. h.pc = "slot" /\ h.relays = g.relays + 1
            BY <1>1 DEF Record
        <3> HIDE DEF h
        <3>3. Square(g, h)
            BY <1>1, <2>1, <3>2 DEF Square, Bit, Holding
        <3> QED
            BY <3>1, <3>3
    <2>3. CASE sess' = [sess EXCEPT ![s].pc = "requeue"]
        <3> DEFINE h == [g EXCEPT !.pc = "requeue"]
        <3>1. sess' = [sess EXCEPT ![s] = h]
            BY <2>3
        <3>2. h.pc = "requeue" /\ h.relays = g.relays
            BY <1>1 DEF Record
        <3> HIDE DEF h
        <3>3. Square(g, h)
            BY <1>1, <2>1, <3>2 DEF Square, Bit, Holding
        <3> QED
            BY <3>1, <3>3
    <2> QED
        BY <1>7, <2>2, <2>3 DEF SendAddr
<1>8. CASE Requeue(s)
    <2> DEFINE h == [g EXCEPT !.pc = "slot", !.leaked = @ + 1]
    <2>1. /\ sess' = [sess EXCEPT ![s] = h] /\ g.pc = "requeue" /\ localCh' = localCh + 1
          /\ UNCHANGED <<streamCounter, streamDrift, counting>>
        BY <1>8 DEF Requeue
    <2>2. h.pc = "slot" /\ h.relays = g.relays
        BY <1>1 DEF Record
    <2> HIDE DEF h
    <2>3. Square(g, h)
        BY <1>1, <2>1, <2>2 DEF Square, Bit, Holding
    <2> QED
        BY <2>1, <2>3
<1>9. CASE FailSession(s) \/ SessionCancelled(s)
    <2>1. /\ sess' = [sess EXCEPT ![s] = Ended(g)]
          /\ UNCHANGED <<streamCounter, streamDrift, counting>>
          /\ \/ g.pc = "fail" /\ localCh' = localCh + 1
             \/ g.pc = "select" /\ localCh' = localCh
        BY <1>9, Zenon DEF FailSession, SessionCancelled
    <2>2. /\ Ended(g).relays = g.relays /\ Ended(g).pc \in {"free", "ended"}
          /\ (Ended(g).pc = "free" => Ended(g) = NoSession)
        BY <1>1, <1>2
    <2>3. Square(g, Ended(g))
        BY <1>1, <2>1, <2>2 DEF Square, Bit, Holding
    <2> QED
        BY <2>1, <2>3
<1>10. CASE RelayEnds(s)
    <2> DEFINE Released(k) == IF k.pc = "ended" THEN Ended(k) ELSE k
    <2>1. streamCounter' = streamCounter - 1 /\ UNCHANGED <<counting, localCh>>
        BY <1>10 DEF RelayEnds
    <2>2. ASSUME NEW k \in Record, k.pc = g.pc, g.pc # "free"
          PROVE  /\ Released(k).relays = k.relays /\ Bit(Released(k)) = Bit(g)
                 /\ (Released(k).pc = "free" => Released(k) = NoSession)
        BY <1>2, <2>2 DEF Bit, Holding
    <2>a. g.relays > 0 \/ g.old > 0 => g.pc # "free" /\ g.used - 1 \in 0..MuxCon
        <3>1. g.used = g.relays + g.old + g.leaked + (IF g.pc \in {"slot", "free"} THEN 0 ELSE 1)
            BY DEF Typed, SlotBook
        <3>2. g.used \in 0..MuxCon /\ g.leaked \in Nat /\ MuxCon \in Nat
            BY <1>1, TcpMuxAssumption DEF Record
        <3>3. g.relays > 0 \/ g.old > 0 => g.pc # "free"
            BY <1>1
        <3>4. g.used = g.relays + g.old + g.leaked \/ g.used = g.relays + g.old + g.leaked + 1
            BY <1>1, <3>1, <3>2
        <3>5. g.relays > 0 \/ g.old > 0 => g.used >= 1
            <4>1. g.used \in Nat
                BY <3>2
            <4> HIDE DEF g
            <4> QED
                BY <1>1, <3>2, <3>4, <4>1, SumPositive
        <3> QED
            BY <3>2, <3>3, <3>5
    <2>3. CASE /\ g.relays > 0 /\ UNCHANGED streamDrift
               /\ sess' = [sess EXCEPT ![s] = Released([g EXCEPT !.relays = @ - 1, !.used = @ - 1])]
        <3> DEFINE j == [g EXCEPT !.relays = @ - 1]
                   k == [j EXCEPT !.used = @ - 1]
        <3>0. /\ j \in Record /\ j.pc = g.pc /\ j.used = g.used /\ j.relays = g.relays - 1
              /\ k = [g EXCEPT !.relays = @ - 1, !.used = @ - 1]
            BY TcpMuxAssumption, <1>1, <2>3 DEF Record
        <3>1. k \in Record /\ k.pc = g.pc /\ k.relays = g.relays - 1
            <4> HIDE DEF j
            <4> QED
                BY <2>a, <2>3, <3>0 DEF Record
        <3>2. sess' = [sess EXCEPT ![s] = Released(k)]
            BY <2>3, <3>0
        <3> HIDE DEF k, j
        <3>3. /\ Released(k).relays = k.relays /\ Bit(Released(k)) = Bit(g)
              /\ (Released(k).pc = "free" => Released(k) = NoSession) /\ Bit(g) \in Nat
            BY <2>2, <2>3, <2>a, <3>1 DEF Bit
        <3> HIDE DEF Released
        <3>4. Square(g, Released(k))
            BY <1>1, <2>1, <2>3, <3>1, <3>3 DEF Square
        <3> QED
            BY <3>2, <3>4
    <2>4. CASE /\ g.old > 0 /\ streamDrift' = streamDrift + 1
               /\ sess' = [sess EXCEPT ![s] = Released([g EXCEPT !.old = @ - 1, !.used = @ - 1])]
        <3> DEFINE j == [g EXCEPT !.old = @ - 1]
                   k == [j EXCEPT !.used = @ - 1]
        <3>0. /\ j \in Record /\ j.pc = g.pc /\ j.used = g.used /\ j.relays = g.relays
              /\ k = [g EXCEPT !.old = @ - 1, !.used = @ - 1]
            BY TcpMuxAssumption, <1>1, <2>4 DEF Record
        <3>1. k \in Record /\ k.pc = g.pc /\ k.relays = g.relays
            <4> HIDE DEF j
            <4> QED
                BY <2>a, <2>4, <3>0 DEF Record
        <3>2. sess' = [sess EXCEPT ![s] = Released(k)]
            BY <2>4, <3>0
        <3> HIDE DEF k, j
        <3>3. /\ Released(k).relays = k.relays /\ Bit(Released(k)) = Bit(g)
              /\ (Released(k).pc = "free" => Released(k) = NoSession) /\ Bit(g) \in Nat
            BY <2>2, <2>4, <2>a, <3>1 DEF Bit
        <3> HIDE DEF Released
        <3>4. Square(g, Released(k))
            BY <1>1, <2>1, <2>4, <3>1, <3>3 DEF Square
        <3> QED
            BY <3>2, <3>4
    <2> QED
        BY <1>10, <2>3, <2>4, Zenon DEF RelayEnds
<1> QED
    BY <1>3, <1>4, <1>5, <1>6, <1>7, <1>8, <1>9, <1>10 DEF SessionStep

(* The steps of a session keep streamCounter exact. *)
LEMMA SessionStreams ==
    ASSUME Typed, StreamBook, NEW s \in Sessions,
           SessionStep(s) \/ SessionCancelled(s) \/ RelayEnds(s) \/ SessionDies(s)
    PROVE  StreamBook'
<1>1. PICK h : sess' = [sess EXCEPT ![s] = h] /\ Square(sess[s], h)
    BY SessionSquares
<1>2. /\ Cardinality(Held') + Bit(sess[s]) = Cardinality(Held) + Bit(h)
      /\ IsFiniteSet(Relayed') /\ Cardinality(Relayed) \in Nat
      /\ Cardinality(Relayed') + sess[s].relays = Cardinality(Relayed) + h.relays
    BY <1>1, HeldChange, RelayedChange DEF Square, StreamBook
<1>3. Cardinality(Relayed') \in Nat
    BY <1>2, FS_CardinalityType
<1>4. \A t \in Sessions : sess'[t].pc = "free" => sess'[t] = NoSession
    BY <1>1 DEF Square, StreamBook, Typed, TypeOK
<1>5. /\ sess[s].relays \in Nat /\ h.relays \in Nat /\ Bit(sess[s]) \in Nat /\ Bit(h) \in Nat
      /\ localCh \in Nat /\ streamCounter \in Int /\ streamDrift \in Nat /\ counting \in Nat
    BY <1>1, TcpMuxAssumption DEF Typed, TypeOK, Square, Bit
<1>6. localCh' \in Nat /\ streamCounter' \in Int /\ streamDrift' \in Nat /\ counting' \in Nat
    BY SessionTyped, TcpMuxAssumption DEF Typed, TypeOK
<1>7. streamCounter + streamDrift + counting
        = localCh + Cardinality(Held) + Cardinality(Relayed)
    BY DEF StreamBook, StreamCounterExact
<1>8. streamCounter' + streamDrift' + counting' + localCh + Bit(sess[s]) + sess[s].relays
        = streamCounter + streamDrift + counting + localCh' + Bit(h) + h.relays
    BY <1>1 DEF Square
<1>9. streamCounter' + streamDrift' + counting'
        = localCh' + Cardinality(Held') + Cardinality(Relayed')
    <2> DEFINE c == streamCounter + streamDrift + counting
               c1 == streamCounter' + streamDrift' + counting'
               n == Cardinality(Held)
               n1 == Cardinality(Held')
               r == Cardinality(Relayed)
               r1 == Cardinality(Relayed')
               x == Bit(sess[s])
               x1 == Bit(h)
               y == sess[s].relays
               y1 == h.relays
               l == localCh
               l1 == localCh'
    <2>1. /\ c \in Int /\ c1 \in Int /\ n \in Int /\ n1 \in Int /\ r \in Int /\ r1 \in Int
          /\ x \in Int /\ x1 \in Int /\ y \in Int /\ y1 \in Int /\ l \in Int /\ l1 \in Int
          /\ c = l + n + r /\ n1 + x = n + x1 /\ r1 + y = r + y1
          /\ c1 + l + x + y = c + l1 + x1 + y1
        BY <1>2, <1>3, <1>5, <1>6, <1>7, <1>8, HeldFinite
    <2>2. c1 = l1 + n1 + r1
        <3> HIDE DEF c, c1, n, n1, r, r1, x, x1, y, y1, l, l1
        <3> QED
            BY <2>1, SumsSquare
    <2> QED
        BY <2>2
<1> QED
    BY <1>2, <1>4, <1>9 DEF StreamBook, StreamCounterExact

(* The other steps; Restart starts the count again. *)
LEMMA OthersStreams ==
    ASSUME Typed, StreamBook, AcceptLocal \/ SupplyStep \/ PoolStep \/ RestartStep
    PROVE  StreamBook'
<1>0. /\ localCh \in Nat /\ streamCounter \in Int /\ streamDrift \in Nat /\ counting \in Nat
      /\ Cardinality(Relayed) \in Nat
    BY TcpMuxAssumption, FS_CardinalityType DEF Typed, TypeOK, StreamBook
<1>1. ASSUME UNCHANGED sess
      PROVE  Held' = Held /\ Relayed' = Relayed
    BY <1>1 DEF Held, Relayed
<1>2. CASE AcceptLocal \/ CountStream
    <2>1. /\ UNCHANGED <<sess, streamDrift>>
          /\ streamCounter' + counting' + localCh = streamCounter + counting + localCh'
        BY <1>0, <1>2 DEF AcceptLocal, CountStream, drifts
    <2>2. localCh' \in Nat /\ streamCounter' \in Int /\ counting' \in Nat
        BY <1>2, SupplyTyped, TcpMuxAssumption DEF Typed, TypeOK, SupplyStep
    <2>3. Held' = Held /\ Relayed' = Relayed
        BY <1>1, <2>1
    <2>4. StreamCounterExact'
        <3> DEFINE n == Cardinality(Held)
                   r == Cardinality(Relayed)
                   c == streamCounter + streamDrift + counting
                   c1 == streamCounter' + streamDrift + counting'
                   l == localCh
                   l1 == localCh'
        <3>1. /\ c = l + n + r /\ c1 + l + 0 + 0 = c + l1 + 0 + 0
              /\ n \in Int /\ r \in Int /\ c \in Int /\ c1 \in Int /\ l \in Int /\ l1 \in Int
            BY <1>0, <2>1, <2>2, HeldFinite DEF StreamBook, StreamCounterExact
        <3>2. c1 = l1 + n + r
            <4> HIDE DEF n, r, c, c1, l, l1
            <4> QED
                BY <3>1
        <3> QED
            BY <2>1, <2>3, <3>2 DEF StreamCounterExact
    <2> QED
        BY <2>1, <2>3, <2>4 DEF StreamBook
<1>3. CASE \/ CompareCounters \/ SendRequest \/ ReceiveRequest \/ DialTunnel \/ AcceptTunnel
           \/ PoolStep \/ RestartBegin \/ LinkUp
    <2>1. UNCHANGED <<sess, streamDrift, streamCounter, counting, localCh>>
        BY <1>3, Zenon DEF CompareCounters, SendRequest, ReceiveRequest, DialTunnel, AcceptTunnel,
             PoolStep, GrowPool, ShrinkPool, RestartBegin, LinkUp, drifts, accepting
    <2>2. Held' = Held /\ Relayed' = Relayed
        BY <1>1, <2>1
    <2> QED
        BY <2>1, <2>2 DEF StreamBook, StreamCounterExact
<1>4. CASE RestartFinish
    <2>1. /\ streamCounter' = 0 /\ streamDrift' = 0 /\ counting' = 0 /\ localCh' = 0
          /\ sess' = [s \in Sessions |-> Survivor(sess[s])]
          /\ \A s \in Sessions : Blocked(s)
        BY <1>4 DEF RestartFinish, accepting
    <2>2. \A s \in Sessions : /\ Survivor(sess[s]).relays = 0
                              /\ Survivor(sess[s]).pc \in {"free", "ended", "stuck", "slot"}
                              /\ Survivor(sess[s]).pc = "free" => sess[s].pc = "free"
        BY <2>1 DEF Survivor, Blocked
    <2>3. Survivor(NoSession) = NoSession
        BY DEF Survivor, NoSession
    <2>4. \A s \in Sessions : sess'[s] = Survivor(sess[s])
        BY <2>1
    <2>5. Held' = {}
        BY <2>2, <2>4 DEF Held, Holding
    <2>6. \A s \in Sessions : sess'[s].relays = 0
        BY <2>2, <2>4
    <2>7. Relayed' = {}
        BY <2>6 DEF Relayed
    <2>8. \A s \in Sessions : sess'[s].pc = "free" => sess'[s] = NoSession
        BY <2>2, <2>3, <2>4 DEF StreamBook
    <2> QED
        BY <2>1, <2>5, <2>7, <2>8, FS_EmptySet DEF StreamBook, StreamCounterExact
<1> QED
    BY <1>2, <1>3, <1>4 DEF SupplyStep, RestartStep

(* streamCounter, by which acceptLocalConn decides whether to ask for a    *)
(* session, counts the user connections queued, held by handleSession or   *)
(* relayed since the last restart, but for increments that are due and     *)
(* decrements of relays that survived a restart.                           *)
THEOREM MuxStreamCounter == Spec => []StreamCounterExact
<1> DEFINE IInv == Typed /\ StreamBook
<1>1. Init => IInv
    <2> SUFFICES ASSUME Init PROVE StreamBook
        BY InitTyped
    <2>1. \A s \in Sessions : sess[s] = NoSession
        BY DEF Init
    <2>2. Held = {} /\ Relayed = {}
        BY <2>1 DEF Held, Relayed, NoSession, Holding
    <2> QED
        BY <2>1, <2>2, FS_EmptySet DEF Init, StreamBook, StreamCounterExact
<1>2. IInv /\ [Next]_vars => IInv'
    <2> SUFFICES ASSUME Typed, StreamBook, [Next]_vars PROVE StreamBook'
        BY NextTyped
    <2>1. CASE Next
        BY <2>1, OthersStreams, SessionStreams DEF Next
    <2>2. CASE UNCHANGED vars
        BY <2>2 DEF vars, StreamBook, StreamCounterExact, Held, Relayed, drifts, accepting
    <2> QED
        BY <2>1, <2>2
<1>3. IInv => StreamCounterExact
    BY DEF StreamBook
<1> QED
    BY <1>1, <1>2, <1>3, PTL DEF Spec
=============================================================================
