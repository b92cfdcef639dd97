----------------------------- MODULE WsLinkProofs -----------------------------
(***************************************************************************)
(* OneControl of WsLink for any number of connections, goroutines and      *)
(* faults, and for any timers that are not zero.  The server does nothing  *)
(* to make its control channel the only one: everything rests on the       *)
(* client having one dialer, and that rests on time.  Restart sleeps       *)
(* before it starts the next run, and whatever is left of the run before,  *)
(* on either side, has had its turn when the sleep is over.                *)
(***************************************************************************)
EXTENDS WsLink, TLAPS

(* Types.  How long a dialer backs off is left open: the provers know      *)
(* nothing of 2 ^ n, and nothing depends on it.                            *)
Msg == {"closed"}
ConnType == [end : [Side -> {"open", "closed"}], inbox : [Side -> Seq(Msg)], silent : BOOLEAN]
RestartType == [pc : {"idle"} \cup Closing \cup Asleep, timer : Nat]
HandlerType == [pc : {"none", "run"}, msgs : Seq(Msg)]
ReaderType == [pc : {"none", "check", "read", "sleep", "old"}, conn : Slots \cup {Nil},
               retries : Nat, timer : Nat]
DialerType(t) == [pc : {"none", "top", "attempt", "retry"}, timer : {t}, attempt : Nat,
                  stale : BOOLEAN]

WsTypeOK ==
    /\ conn \in [Slots -> ConnType]
    /\ ctx \in [Side -> BOOLEAN]
    /\ control \in [Side -> Slots \cup {Nil}]
    /\ restart \in [Side -> RestartType]
    /\ pending \in [Side -> Nat]
    /\ handler \in [Side -> [Gs -> HandlerType]]
    /\ reader \in [Side -> [Gs -> ReaderType]]
    /\ request \in [Slots -> {"none", "check", "set"}]
    /\ dialer = [i \in Gs |-> dialer[i]]
    /\ \A i \in Gs : dialer[i] \in DialerType(dialer[i].timer)
    /\ bound \in BOOLEAN

(* A reader never reads nil. *)
ReadsSlot == \A s \in Side, i \in Gs : reader[s][i].pc = "read" => reader[s][i].conn \in Slots

LEMMA NothingTypes ==
    /\ NoConn \in ConnType /\ NewConn \in ConnType
    /\ NoHandler \in HandlerType /\ NoReader \in ReaderType /\ Idle \in RestartType
<1>1. <<>> \in Seq(Msg)
  OBVIOUS
<1>2. NoConn \in ConnType
  BY <1>1 DEF NoConn, ConnType
<1>3. NewConn \in ConnType
  BY <1>1 DEF NoConn, NewConn, ConnType
<1> QED
  BY <1>1, <1>2, <1>3 DEF NoHandler, NoReader, Idle, HandlerType, ReaderType, RestartType

LEMMA DialerTypes ==
    /\ NoDialer \in DialerType(0) /\ NoDialer.pc = "none"
    /\ \A p \in {"top", "attempt"} : /\ [NoDialer EXCEPT !.pc = p] \in DialerType(0)
                                     /\ [NoDialer EXCEPT !.pc = p].pc = p
    /\ \A t : [NoDialer EXCEPT !.pc = "retry", !.timer = t] \in DialerType(t)
  BY DEF NoDialer, DialerType

LEMMA DialerChanges ==
    ASSUME NEW d, d \in DialerType(d.timer), NEW t
    PROVE  /\ [d EXCEPT !.timer = t] \in DialerType(t)
           /\ [d EXCEPT !.timer = t].pc = d.pc
           /\ [d EXCEPT !.pc = "top"] \in DialerType(d.timer)
           /\ [d EXCEPT !.stale = TRUE] \in DialerType(d.timer)
           /\ [d EXCEPT !.attempt = @ + 1, !.timer = t] \in DialerType(t)
<1>1. /\ [d EXCEPT !.timer = t] \in DialerType(t)
      /\ [d EXCEPT !.timer = t].pc = d.pc
  BY DEF DialerType
<1>2. [d EXCEPT !.pc = "top"] \in DialerType(d.timer)
  BY DEF DialerType
<1>3. [d EXCEPT !.stale = TRUE] \in DialerType(d.timer)
  BY DEF DialerType
<1>4. [d EXCEPT !.attempt = @ + 1, !.timer = t] \in DialerType(t)
<2>1. \A n \in Nat : [d EXCEPT !.attempt = n, !.timer = t] \in DialerType(t)
  BY DEF DialerType
<2>2. d.attempt + 1 \in Nat
  BY DEF DialerType
<2> QED
  BY <2>1, <2>2
<1> QED
  BY <1>1, <1>2, <1>3, <1>4

LEMMA DialerTimer ==
    ASSUME NEW t, NEW d, d \in DialerType(t)
    PROVE  d \in DialerType(d.timer)
  BY DEF DialerType

LEMMA TypeInit == Init => WsTypeOK
<1> SUFFICES ASSUME Init PROVE WsTypeOK
  OBVIOUS
<1>1. \A i \in Gs : dialer[i] \in DialerType(0)
  BY DialerTypes DEF Init
<1>2. \A i \in Gs : dialer[i] \in DialerType(dialer[i].timer)
  BY <1>1, DialerTimer
<1>3. dialer = [i \in Gs |-> dialer[i]]
  BY DEF Init
<1> QED
  BY <1>2, <1>3, NothingTypes DEF Init, WsTypeOK

LEMMA ClosedType ==
    ASSUME NEW C \in [Slots -> ConnType], NEW s \in Side, NEW k \in Slots \cup {Nil}
    PROVE  Closed(C, s, k) \in [Slots -> ConnType]
<1>1. CASE k = Nil
  BY <1>1 DEF Closed
<1>2. CASE k # Nil
<2>1. <<>> \in Seq(Msg)
  OBVIOUS
<2> QED
  BY <1>2, <2>1 DEF Closed, ConnType
<1> QED
  BY <1>1, <1>2

LEMMA SpawnType ==
    ASSUME WsTypeOK, NEW s \in Side, SpawnHandler(s)
    PROVE  /\ reader' \in [Side -> [Gs -> ReaderType]]
           /\ handler' \in [Side -> [Gs -> HandlerType]]
           /\ \A t \in Side, i \in Gs :
                reader'[t][i] = reader[t][i] \/ (t = s /\ reader'[t][i].pc = "check")
           /\ \E g : \A t \in Side, i \in Gs : handler'[t][i] = handler[t][i] \/ (t = s /\ i = g)
<1> DEFINE g == Lowest({j \in Gs : reader[s][j].pc = "none" /\ handler[s][j].pc = "none"})
<1> HIDE DEF g
<1>1. /\ reader' = [reader EXCEPT ![s][g] = [NoReader EXCEPT !.pc = "check"]]
      /\ handler' = [handler EXCEPT ![s][g] = [NoHandler EXCEPT !.pc = "run"]]
  BY DEF SpawnHandler, g
<1>2. /\ [NoReader EXCEPT !.pc = "check"] \in ReaderType
      /\ [NoReader EXCEPT !.pc = "check"].pc = "check"
      /\ [NoHandler EXCEPT !.pc = "run"] \in HandlerType
      /\ [NoHandler EXCEPT !.pc = "run"].pc = "run"
<2>1. <<>> \in Seq(Msg)
  OBVIOUS
<2> QED
  BY <2>1 DEF NoReader, NoHandler, ReaderType, HandlerType
<1>3. /\ reader' \in [Side -> [Gs -> ReaderType]]
      /\ handler' \in [Side -> [Gs -> HandlerType]]
  BY <1>1, <1>2 DEF WsTypeOK
<1>4. \A t \in Side, i \in Gs :
        reader'[t][i] = reader[t][i] \/ (t = s /\ reader'[t][i].pc = "check")
<2> TAKE t \in Side, i \in Gs
<2>1. CASE t = s /\ i = g
  BY <1>1, <1>2, <2>1 DEF WsTypeOK
<2>2. CASE ~(t = s /\ i = g)
  BY <1>1, <2>2 DEF WsTypeOK
<2> QED
  BY <2>1, <2>2
<1>5. \A t \in Side, i \in Gs : handler'[t][i] = handler[t][i] \/ (t = s /\ i = g)
<2> TAKE t \in Side, i \in Gs
<2> SUFFICES ASSUME ~(t = s /\ i = g) PROVE handler'[t][i] = handler[t][i]
  OBVIOUS
<2> QED
  BY <1>1 DEF WsTypeOK
<1>6. \E h : \A t \in Side, i \in Gs : handler'[t][i] = handler[t][i] \/ (t = s /\ i = h)
  BY <1>5
<1> QED
  BY <1>3, <1>4, <1>6

(* What can be written and read: message sequences keep their type. *)
LEMMA SeqTypes ==
    ASSUME NEW q \in Seq(Msg)
    PROVE  /\ Append(q, "closed") \in Seq(Msg)
           /\ q # <<>> => Tail(q) \in Seq(Msg) /\ Head(q) \in Msg
  BY DEF Msg

LEMMA RestartTypes ==
    ASSUME WsTypeOK, NEW s \in Side, RestartStep(s)
    PROVE  WsTypeOK'
<1> USE WsLinkAssumption, NothingTypes
<1>1. CASE RestartBegin(s)
<2>1. /\ dialer' = [i \in Gs |-> dialer'[i]]
      /\ \A i \in Gs : dialer'[i] \in DialerType(dialer'[i].timer)
  <3>1. dialer' = [i \in Gs |-> IF s = "client" /\ dialer[i].pc = "attempt"
                                 THEN [dialer[i] EXCEPT !.stale = TRUE] ELSE dialer[i]]
    BY <1>1 DEF RestartBegin
  <3>2. \A i \in Gs : dialer'[i] \in DialerType(dialer[i].timer)
    BY <3>1, DialerChanges DEF WsTypeOK
  <3> QED
    BY <3>1, <3>2, DialerTimer
<2>2. restart' \in [Side -> RestartType] /\ pending' \in [Side -> Nat]
  BY <1>1 DEF RestartBegin, WsTypeOK, RestartType, Closing, Asleep
<2>3. ctx' \in [Side -> BOOLEAN] /\ bound' \in BOOLEAN
  BY <1>1 DEF RestartBegin, WsTypeOK
<2> QED
  BY <1>1, <2>1, <2>2, <2>3 DEF RestartBegin, WsTypeOK
<1>2. CASE RestartSkip(s)
  BY <1>2 DEF RestartSkip, WsTypeOK
<1>3. CASE RestartClose(s)
  BY <1>3, ClosedType DEF RestartClose, WsTypeOK, RestartType, Closing, Asleep
<1>4. CASE RestartFinish(s)
<2>1. /\ dialer' = [i \in Gs |-> dialer'[i]]
      /\ \A i \in Gs : dialer'[i] \in DialerType(dialer'[i].timer)
  <3>1. CASE s = "server"
    BY <1>4, <3>1 DEF RestartFinish, WsTypeOK
  <3>2. CASE s # "server"
    <4> DEFINE g == Lowest({i \in Gs : dialer[i].pc = "none"})
    <4> HIDE DEF g
    <4>1. dialer' = [dialer EXCEPT ![g].pc = "top"]
      BY <1>4, <3>2 DEF RestartFinish, g
    <4>2. \A i \in Gs : dialer'[i] \in DialerType(dialer[i].timer)
      BY <4>1, DialerChanges DEF WsTypeOK
    <4> QED
      BY <4>1, <4>2, DialerTimer DEF WsTypeOK
  <3> QED
    BY <3>1, <3>2
<2> QED
  BY <1>4, <2>1 DEF RestartFinish, WsTypeOK
<1> QED
  BY <1>1, <1>2, <1>3, <1>4 DEF RestartStep

LEMMA DeathTypes ==
    ASSUME WsTypeOK, NEW s \in Side, ProcessDies(s)
    PROVE  WsTypeOK'
<1> USE WsLinkAssumption, NothingTypes
<1>1. conn' \in [Slots -> ConnType]
<2>1. <<>> \in Seq(Msg)
  OBVIOUS
<2> QED
  BY <2>1 DEF ProcessDies, WsTypeOK, ConnType
<1>2. /\ dialer' = [i \in Gs |-> dialer'[i]]
      /\ \A i \in Gs : dialer'[i] \in DialerType(dialer'[i].timer)
  BY DialerTypes, DialerTimer DEF ProcessDies, WsTypeOK
<1>3. restart' \in [Side -> RestartType] /\ pending' \in [Side -> Nat]
  BY DEF ProcessDies, WsTypeOK, RestartType, Closing, Asleep
<1> QED
  BY <1>1, <1>2, <1>3 DEF ProcessDies, WsTypeOK

(* What a reader, a handler and a connection become. *)
LEMMA ReaderChanges ==
    ASSUME NEW r \in ReaderType, NEW k \in Slots \cup {Nil}
    PROVE  /\ [r EXCEPT !.pc = "read", !.conn = k] \in ReaderType
           /\ \A p \in {"check", "old"} : [r EXCEPT !.pc = p] \in ReaderType
  BY DEF ReaderType

LEMMA HandlerChanges ==
    ASSUME NEW h \in HandlerType, NEW m \in Seq(Msg)
    PROVE  [h EXCEPT !.msgs = m] \in HandlerType
  BY DEF HandlerType

LEMMA InboxType ==
    ASSUME WsTypeOK, NEW s \in Side, NEW k \in Slots, NEW m \in Seq(Msg)
    PROVE  [conn EXCEPT ![k].inbox[s] = m] \in [Slots -> ConnType]
<1>1. \A c \in ConnType : [c EXCEPT !.inbox[s] = m] \in ConnType
  BY DEF ConnType
<1>2. [conn[k] EXCEPT !.inbox[s] = m] \in ConnType
  BY <1>1 DEF WsTypeOK
<1> QED
  BY <1>2 DEF WsTypeOK

LEMMA GoroutineTypes ==
    ASSUME WsTypeOK, ReadsSlot, NEW s \in Side, NEW i \in Gs,
           GoroutineStep(s, i) \/ WriteError(s, i)
    PROVE  WsTypeOK'
<1> USE WsLinkAssumption, NothingTypes
<1>1. CASE ReaderCheck(s, i)
<2>1. CASE ctx[s] /\ control[s] = Nil
  BY <1>1, <2>1, DeathTypes DEF ReaderCheck
<2>2. CASE ~(ctx[s] /\ control[s] = Nil)
<3>1. reader' \in [Side -> [Gs -> ReaderType]]
  <4>1. CASE ctx[s]
    <5>1. reader' = [reader EXCEPT ![s][i] = [reader[s][i] EXCEPT !.pc = "read",
                                                                  !.conn = control[s]]]
      BY <1>1, <2>2, <4>1 DEF ReaderCheck, WsTypeOK
    <5>2. reader[s][i] \in ReaderType /\ control[s] \in Slots \cup {Nil}
      BY DEF WsTypeOK
    <5>3. [reader[s][i] EXCEPT !.pc = "read", !.conn = control[s]] \in ReaderType
      BY <5>2, ReaderChanges
    <5> QED
      BY <5>1, <5>3 DEF WsTypeOK
  <4>2. CASE ~ctx[s]
    <5>1. reader' = [reader EXCEPT ![s][i] = NoReader]
      BY <1>1, <4>2 DEF ReaderCheck
    <5> QED
      BY <5>1 DEF WsTypeOK
  <4> QED
    BY <4>1, <4>2
<3> QED
  BY <1>1, <2>2, <3>1 DEF ReaderCheck, WsTypeOK
<2> QED
  BY <2>1, <2>2
<1>2. CASE ReaderGets(s, i)
<2> DEFINE k == reader[s][i].conn
           q == conn[k].inbox[s]
           m == IF handler[s][i].pc = "run" THEN Append(handler[s][i].msgs, Head(q))
                ELSE handler[s][i].msgs
<2>1. reader' \in [Side -> [Gs -> ReaderType]]
  BY <1>2 DEF ReaderGets, WsTypeOK, ReaderType, NoReader
<2>2. k \in Slots /\ q # <<>> /\ conn' = [conn EXCEPT ![k].inbox[s] = Tail(q)]
  BY <1>2 DEF ReaderGets, CanRead, ReadsSlot
<2>3. q \in Seq(Msg)
  BY <2>2 DEF WsTypeOK, ConnType
<2>4. conn' \in [Slots -> ConnType]
  BY <2>2, <2>3, SeqTypes, InboxType
<2>5. handler[s][i] \in HandlerType /\ handler[s][i].msgs \in Seq(Msg)
  BY DEF WsTypeOK, HandlerType
<2>6. m \in Seq(Msg)
  BY <2>2, <2>3, <2>5, SeqTypes DEF Msg
<2>7. handler' = [handler EXCEPT ![s][i] = [handler[s][i] EXCEPT !.msgs = m]]
  BY <1>2 DEF ReaderGets, WsTypeOK
<2>8. [handler[s][i] EXCEPT !.msgs = m] \in HandlerType
  BY <2>5, <2>6, HandlerChanges
<2>9. handler' \in [Side -> [Gs -> HandlerType]]
  BY <2>7, <2>8 DEF WsTypeOK
<2> QED
  BY <1>2, <2>1, <2>4, <2>9 DEF ReaderGets, WsTypeOK
<1>3. CASE ReaderFails(s, i)
  BY <1>3 DEF ReaderFails, WsTypeOK, ReaderType
<1>4. CASE ReaderWakes(s, i)
<2>1. reader' = [reader EXCEPT ![s][i] = [reader[s][i] EXCEPT !.pc = "check"]]
  BY <1>4 DEF ReaderWakes
<2>2. [reader[s][i] EXCEPT !.pc = "check"] \in ReaderType
  <3>1. reader[s][i] \in ReaderType
    BY DEF WsTypeOK
  <3> QED
    BY <3>1, ReaderChanges
<2>3. reader' \in [Side -> [Gs -> ReaderType]]
  BY <2>1, <2>2 DEF WsTypeOK
<2> QED
  BY <1>4, <2>3 DEF ReaderWakes, WsTypeOK
<1>5. CASE ReaderLeaves(s, i)
  BY <1>5 DEF ReaderLeaves, WsTypeOK
<1>6. CASE HandlerCancelled(s, i)
<2> DEFINE k == control[s]
           q == conn[k].inbox[Other(s)]
<2>1. Other(s) \in Side
  BY DEF Other, Side
<2>2. conn' \in [Slots -> ConnType]
  <3>1. CASE conn' = conn
    BY <3>1 DEF WsTypeOK
  <3>2. CASE conn' # conn
    <4>1. conn' = [conn EXCEPT ![k].inbox[Other(s)] = Append(q, "closed")]
      BY <1>6, <3>2 DEF HandlerCancelled
    <4>2. CASE k \in Slots
      <5>1. Append(q, "closed") \in Seq(Msg)
        BY <2>1, <4>2, SeqTypes DEF WsTypeOK, ConnType
      <5> QED
        BY <2>1, <4>1, <4>2, <5>1, InboxType
    <4>3. CASE k \notin Slots
      BY <4>1, <4>3 DEF WsTypeOK
    <4> QED
      BY <4>2, <4>3
  <3> QED
    BY <3>1, <3>2
<2> QED
  BY <1>6, <2>2 DEF HandlerCancelled, WsTypeOK
<1>7. CASE HandlerMessage(s, i)
  BY <1>7 DEF HandlerMessage, WsTypeOK
<1>8. CASE WriteError(s, i)
  BY <1>8 DEF WriteError, WsTypeOK
<1> QED
  BY <1>1, <1>2, <1>3, <1>4, <1>5, <1>6, <1>7, <1>8 DEF GoroutineStep

LEMMA RequestTypes ==
    ASSUME WsTypeOK, NEW k \in Slots, RequestChecks(k) \/ RequestSets(k)
    PROVE  WsTypeOK'
<1>1. CASE RequestChecks(k)
<2>1. conn' \in [Slots -> ConnType]
  <3>1. "server" \in Side /\ control["server"] \in Slots \cup {Nil}
    BY DEF Side, WsTypeOK
  <3>2. Closed(conn, "server", control["server"]) \in [Slots -> ConnType]
    BY <3>1, ClosedType DEF WsTypeOK
  <3>3. Closed(Closed(conn, "server", control["server"]), "server", k) \in [Slots -> ConnType]
    BY <3>1, <3>2, ClosedType
  <3> QED
    BY <1>1, <3>3 DEF RequestChecks, WsTypeOK
<2> QED
  BY <1>1, <2>1 DEF RequestChecks, WsTypeOK, Side
<1>2. CASE RequestSets(k)
<2>1. bound' \in BOOLEAN
  BY <1>2 DEF RequestSets, WsTypeOK, Side
<2>2. /\ reader' \in [Side -> [Gs -> ReaderType]]
      /\ handler' \in [Side -> [Gs -> HandlerType]]
  BY <1>2, SpawnType DEF RequestSets, Side
<2> QED
  BY <1>2, <2>1, <2>2 DEF RequestSets, WsTypeOK
<1> QED
  BY <1>1, <1>2

(* A dialer is replaced by another. *)
LEMMA DialerUpdate ==
    ASSUME WsTypeOK, NEW i \in Gs, NEW d, NEW t, d \in DialerType(t),
           dialer' = [dialer EXCEPT ![i] = d]
    PROVE  /\ dialer' = [j \in Gs |-> dialer'[j]]
           /\ \A j \in Gs : dialer'[j] \in DialerType(dialer'[j].timer)
<1>1. d \in DialerType(d.timer)
  BY DialerTimer
<1>2. DOMAIN dialer = Gs
  BY DEF WsTypeOK
<1> QED
  BY <1>1, <1>2 DEF WsTypeOK

LEMMA DialerStepTypes ==
    ASSUME WsTypeOK, NEW i \in Gs, DialerStep(i)
    PROVE  WsTypeOK'
<1>1. CASE DialerTop(i)
<2>1. PICK d : dialer' = [dialer EXCEPT ![i] = d] /\ d \in DialerType(0)
  BY <1>1, DialerTypes DEF DialerTop
<2> QED
  BY <1>1, <2>1, DialerUpdate DEF DialerTop, WsTypeOK, sideVars
<1>2. CASE DialerRefused(i)
<2>1. PICK d, t : dialer' = [dialer EXCEPT ![i] = d] /\ d \in DialerType(t)
  <3>1. CASE dialer[i].attempt < DialAttempts
    <4> DEFINE t == 2 ^ (dialer[i].attempt - 1)
    <4> HIDE DEF t
    <4>1. dialer' = [dialer EXCEPT ![i] = [dialer[i] EXCEPT !.attempt = @ + 1, !.timer = t]]
      BY <1>2, <3>1 DEF DialerRefused, t
    <4>2. dialer[i] \in DialerType(dialer[i].timer)
      BY DEF WsTypeOK
    <4>3. [dialer[i] EXCEPT !.attempt = @ + 1, !.timer = t] \in DialerType(t)
      BY <4>2, DialerChanges
    <4> QED
      BY <4>1, <4>3
  <3>2. CASE ~(dialer[i].attempt < DialAttempts)
    BY <1>2, <3>2, DialerTypes DEF DialerRefused
  <3> QED
    BY <3>1, <3>2
<2> QED
  BY <1>2, <2>1, DialerUpdate DEF DialerRefused, WsTypeOK, sideVars
<1>3. CASE DialerRetries(i)
<2>1. dialer' = [dialer EXCEPT ![i] = [NoDialer EXCEPT !.pc = "top"]]
  BY <1>3 DEF DialerRetries
<2>2. [NoDialer EXCEPT !.pc = "top"] \in DialerType(0)
  BY DialerTypes
<2> QED
  BY <1>3, <2>1, <2>2, DialerUpdate DEF DialerRetries, WsTypeOK, sideVars
<1>4. ASSUME NEW k \in Slots, DialerConnects(i, k)
      PROVE  WsTypeOK'
<2>1. /\ dialer' = [j \in Gs |-> dialer'[j]]
      /\ \A j \in Gs : dialer'[j] \in DialerType(dialer'[j].timer)
  BY <1>4, DialerTypes, DialerUpdate DEF DialerConnects
<2>2. /\ reader' \in [Side -> [Gs -> ReaderType]]
      /\ handler' \in [Side -> [Gs -> HandlerType]]
  BY <1>4, SpawnType DEF DialerConnects, Side
<2>3. conn' \in [Slots -> ConnType]
  BY <1>4, NothingTypes DEF DialerConnects, WsTypeOK
<2> QED
  BY <1>4, <2>1, <2>2, <2>3 DEF DialerConnects, WsTypeOK
<1> QED
  BY <1>1, <1>2, <1>3, <1>4 DEF DialerStep

LEMMA EnvironmentTypes ==
    ASSUME WsTypeOK, ReadsSlot, Environment
    PROVE  WsTypeOK'
<1> USE WsLinkAssumption
<1>1. ASSUME NEW s \in Side, Kill(s)
      PROVE  WsTypeOK'
  BY <1>1, DeathTypes DEF Kill
<1>2. ASSUME NEW s \in Side, Reload(s)
      PROVE  WsTypeOK'
<2>1. /\ dialer' = [j \in Gs |-> dialer'[j]]
      /\ \A j \in Gs : dialer'[j] \in DialerType(dialer'[j].timer)
  BY <1>2, DialerTypes, DialerTimer DEF Reload, WsTypeOK
<2>2. reader' \in [Side -> [Gs -> ReaderType]]
  <3>1. \A i \in Gs : /\ reader[s][i] \in ReaderType
                      /\ [reader[s][i] EXCEPT !.pc = "old"] \in ReaderType
    <4>1. \A i \in Gs : reader[s][i] \in ReaderType
      BY DEF WsTypeOK
    <4> QED
      BY <4>1, ReaderChanges
  <3> QED
    BY <1>2, <3>1, NothingTypes DEF Reload, WsTypeOK
<2>3. restart' \in [Side -> RestartType] /\ pending' \in [Side -> Nat]
  BY <1>2 DEF Reload, WsTypeOK, RestartType, Closing, Asleep
<2>4. ctx' \in [Side -> BOOLEAN] /\ bound' \in BOOLEAN
  BY <1>2 DEF Reload, WsTypeOK
<2> QED
  BY <1>2, <2>1, <2>2, <2>3, <2>4 DEF Reload, WsTypeOK
<1>3. ASSUME NEW s \in Side, NEW i \in Gs, WriteError(s, i)
      PROVE  WsTypeOK'
  BY <1>3, GoroutineTypes
<1>4. ASSUME NEW s \in Side, NEW k \in Slots, Collect(s, k)
      PROVE  WsTypeOK'
  BY <1>4, ClosedType DEF Collect, WsTypeOK, sideVars
<1>5. CASE Cut
  BY <1>5, NothingTypes DEF Cut, WsTypeOK, sideVars
<1>6. ASSUME NEW s \in Side, SilentLoss(s)
      PROVE  WsTypeOK'
<2>1. PICK k \in Slots : conn' = [Closed(conn, s, k) EXCEPT ![k].silent = TRUE]
  <3>1. PICK k \in {control[t] : t \in Side} \ {Nil} :
           conn' = [Closed(conn, s, k) EXCEPT ![k].silent = TRUE]
    BY <1>6 DEF SilentLoss
  <3>2. k \in Slots
    BY <3>1 DEF WsTypeOK
  <3> QED
    BY <3>1, <3>2
<2>2. Closed(conn, s, k) \in [Slots -> ConnType]
  BY ClosedType DEF WsTypeOK
<2>3. conn' \in [Slots -> ConnType]
  BY <2>1, <2>2 DEF ConnType
<2> QED
  BY <1>6, <2>3 DEF SilentLoss, WsTypeOK, sideVars
<1>7. ASSUME NEW k \in Slots, Detect(k)
      PROVE  WsTypeOK'
<2>1. conn' \in [Slots -> ConnType]
  <3>1. \A c \in ConnType : [c EXCEPT !.silent = FALSE] \in ConnType
    BY DEF ConnType
  <3>2. [conn[k] EXCEPT !.silent = FALSE] \in ConnType
    BY <3>1 DEF WsTypeOK
  <3> QED
    BY <1>7, <3>2 DEF Detect, WsTypeOK
<2> QED
  BY <1>7, <2>1 DEF Detect, WsTypeOK, sideVars
<1> QED
  BY <1>1, <1>2, <1>3, <1>4, <1>5, <1>6, <1>7 DEF Environment

LEMMA TickTypes ==
    ASSUME WsTypeOK, Tick
    PROVE  WsTypeOK'
<1>1. \A t \in Nat : Sooner(t) \in Nat
  BY DEF Sooner
<1>2. restart' \in [Side -> RestartType]
  BY <1>1 DEF Tick, WsTypeOK, RestartType
<1>3. reader' \in [Side -> [Gs -> ReaderType]]
<2>1. \A r \in ReaderType : [r EXCEPT !.timer = Sooner(r.timer)] \in ReaderType
  BY <1>1 DEF ReaderType
<2>2. reader' = [s \in Side |-> [i \in Gs |-> [reader[s][i] EXCEPT !.timer = Sooner(reader[s][i].timer)]]]
  BY DEF Tick
<2> QED
  BY <2>1, <2>2 DEF WsTypeOK
<1>4. /\ dialer' = [j \in Gs |-> dialer'[j]]
      /\ \A j \in Gs : dialer'[j] \in DialerType(dialer'[j].timer)
<2>1. \A i \in Gs : dialer'[i] \in DialerType(Sooner(dialer[i].timer))
  BY DialerChanges DEF Tick, WsTypeOK
<2> QED
  BY <2>1, DialerTimer DEF Tick
<1> QED
  BY <1>2, <1>3, <1>4 DEF Tick, WsTypeOK

LEMMA TypeStep == WsTypeOK /\ ReadsSlot /\ [Next]_vars => WsTypeOK'
<1> SUFFICES ASSUME WsTypeOK, ReadsSlot, [Next]_vars PROVE WsTypeOK'
  OBVIOUS
<1>1. CASE UNCHANGED vars
  BY <1>1 DEF vars, sideVars, WsTypeOK
<1>2. CASE Urgent
  BY <1>2, RestartTypes, GoroutineTypes, DialerStepTypes, RequestTypes DEF Urgent
<1> QED
  BY <1>1, <1>2, TickTypes, EnvironmentTypes DEF Next

-----------------------------------------------------------------------------
(* The inductive invariant *)

(* One dialer and one request at a time: the heart of it. *)
OneDialer == \A i, j \in Gs : dialer[i].pc # "none" /\ dialer[j].pc # "none" => i = j
OneRequest == \A j, k \in Slots : request[j] # "none" /\ request[k] # "none" => j = k

(* Nothing of an earlier run is left that could act on the next one.       *)
NoRequests == \A k \in Slots : request[k] = "none"
NoHandlers(s) == \A i \in Gs : handler[s][i].pc # "run"
ClientCalm == pending["client"] = 0 /\ \A i \in Gs : reader["client"][i].pc # "read"

(* While the client dials it has no control channel and nobody to start a  *)
(* second dialer, and the server's goroutine for an earlier request of it  *)
(* is gone.                                                                *)
DialsAlone ==
    \A i \in Gs : dialer[i].pc # "none" =>
        /\ restart["client"].pc = "idle" /\ control["client"] = Nil
        /\ NoRequests /\ NoHandlers("client") /\ ClientCalm

(* It is so because the sleep of Restart is not over before everything     *)
(* else that can run has run.                                              *)
SleepsFirst == \A s \in Side : restart[s].pc \in Closing => restart[s].timer > 0
Settled ==
    \A s \in Side : restart[s].pc \in Asleep /\ restart[s].timer = 0 =>
        /\ NoRequests /\ NoHandlers(s)
        /\ s = "client" => ClientCalm

(* What makes a leftover run: the context is done, the connection closed.  *)
CtxIdle == \A s \in Side : ctx[s] <=> restart[s].pc = "idle"
ReadsControl ==
    \A i \in Gs : reader["client"][i].pc = "read" =>
        /\ reader["client"][i].conn = control["client"]
        /\ restart["client"].pc \in Asleep =>
             conn[reader["client"][i].conn].end["client"] = "closed"

(* The field is set before the goroutines that use it, and what the server *)
(* binds under a control channel goes with it.                             *)
HandlerHasControl == \A s \in Side, i \in Gs : handler[s][i].pc = "run" => control[s] # Nil
OneHandler == \A s \in Side, i, j \in Gs :
                handler[s][i].pc = "run" /\ handler[s][j].pc = "run" => i = j
BoundUnderControl == bound => control["server"] # Nil /\ ctx["server"]
SetFindsNil == \A k \in Slots : request[k] = "set" => control["server"] = Nil

WsInv ==
    /\ WsTypeOK /\ ReadsSlot
    /\ OneDialer /\ OneRequest /\ DialsAlone
    /\ SleepsFirst /\ Settled /\ CtxIdle /\ ReadsControl
    /\ HandlerHasControl /\ OneHandler /\ BoundUnderControl /\ SetFindsNil

LEMMA InvInit == Init => WsInv
<1> SUFFICES ASSUME Init PROVE WsInv
  OBVIOUS
<1>1. /\ \A i \in Gs : dialer[i].pc # "none" => i = 1
      /\ \A s \in Side : restart[s].pc = "idle" /\ ctx[s] = TRUE /\ control[s] = Nil
      /\ \A s \in Side, i \in Gs : handler[s][i].pc = "none" /\ reader[s][i].pc = "none"
      /\ \A s \in Side : pending[s] = 0
      /\ \A k \in Slots : request[k] = "none"
      /\ ~bound
  BY DialerTypes DEF Init, Idle, NoHandler, NoReader
<1>2. "client" \in Side /\ "server" \in Side
  BY DEF Side
<1>3. OneDialer /\ OneRequest /\ DialsAlone
<2>1. OneDialer /\ OneRequest
  BY <1>1 DEF OneDialer, OneRequest
<2>2. NoRequests /\ NoHandlers("client") /\ ClientCalm
  BY <1>1, <1>2 DEF NoRequests, NoHandlers, ClientCalm
<2> QED
  BY <1>1, <1>2, <2>1, <2>2 DEF DialsAlone
<1>4. CtxIdle
  BY <1>1 DEF CtxIdle
<1>5. SleepsFirst /\ Settled /\ ReadsControl /\ ReadsSlot
  BY <1>1, <1>2 DEF SleepsFirst, Settled, ReadsControl, ReadsSlot, Closing, Asleep
<1>6. HandlerHasControl /\ OneHandler /\ BoundUnderControl /\ SetFindsNil
  BY <1>1 DEF HandlerHasControl, OneHandler, BoundUnderControl, SetFindsNil
<1> QED
  BY <1>3, <1>4, <1>5, <1>6, TypeInit DEF WsInv

-----------------------------------------------------------------------------
(* Most steps only let something end: no request, handler or reading       *)
(* reader appears, no connection opens again, the client's Restart is      *)
(* asked for only by a handler or a reader that was there.                 *)
Calmer ==
    /\ \A k \in Slots : /\ request'[k] # "none" => request[k] # "none"
                        /\ request'[k] = "set" => request[k] = "set" \/ control["server"] = Nil
                        /\ conn[k].end["client"] = "closed" => conn'[k].end["client"] = "closed"
    /\ \A s \in Side, i \in Gs :
         /\ handler'[s][i].pc = "run" => handler[s][i].pc = "run"
         /\ reader'[s][i].pc = "read" => /\ reader[s][i].pc = "read"
                                         /\ reader'[s][i].conn = reader[s][i].conn
         /\ control'[s] # control[s] => /\ control'[s] = Nil
                                        /\ handler'[s][i].pc # "run"
                                        /\ reader'[s][i].pc # "read"
    /\ "server" \in Side /\ (control'["server"] # control["server"] => control'["server"] = Nil)
    /\ \/ pending'["client"] = 0 \/ pending["client"] # 0
       \/ \E i \in Gs : handler["client"][i].pc = "run" \/ reader["client"][i].pc = "read"

DialerCalmer == \A i \in Gs : dialer'[i].pc # "none" => dialer[i].pc # "none"

LEMMA CalmerKeeps ==
    ASSUME WsInv, Calmer
    PROVE  /\ OneRequest' /\ HandlerHasControl' /\ OneHandler' /\ SetFindsNil' /\ ReadsSlot'
           /\ NoRequests => NoRequests'
           /\ \A s \in Side : NoHandlers(s) => NoHandlers(s)'
           /\ ClientCalm /\ NoHandlers("client") => ClientCalm'
<1>0. "client" \in Side
  BY DEF Side
<1>1. OneRequest'
  BY DEF WsInv, OneRequest, Calmer
<1>2. HandlerHasControl'
  BY DEF WsInv, HandlerHasControl, Calmer
<1>3. OneHandler'
  BY DEF WsInv, OneHandler, Calmer
<1>4. SetFindsNil'
  BY DEF WsInv, SetFindsNil, Calmer
<1>5. ReadsSlot'
  BY DEF WsInv, ReadsSlot, Calmer
<1>6. NoRequests => NoRequests'
  BY DEF NoRequests, Calmer
<1>7. \A s \in Side : NoHandlers(s) => NoHandlers(s)'
  BY DEF NoHandlers, Calmer
<1>8. ClientCalm /\ NoHandlers("client") => ClientCalm'
  BY <1>0 DEF ClientCalm, NoHandlers, Calmer
<1> QED
  BY <1>1, <1>2, <1>3, <1>4, <1>5, <1>6, <1>7, <1>8

(* Such a step of a goroutine keeps the invariant. *)
LEMMA CalmerInv ==
    ASSUME WsInv, WsTypeOK', Calmer, DialerCalmer, UNCHANGED <<control, restart, ctx, bound>>
    PROVE  WsInv'
<1>0. "client" \in Side
  BY DEF Side
<1>1. OneDialer'
  BY DEF WsInv, OneDialer, DialerCalmer
<1>2. DialsAlone'
  BY <1>0, CalmerKeeps DEF WsInv, DialsAlone, DialerCalmer
<1>3. SleepsFirst' /\ CtxIdle' /\ BoundUnderControl'
  BY DEF WsInv, SleepsFirst, CtxIdle, BoundUnderControl
<1>4. Settled'
  BY CalmerKeeps DEF WsInv, Settled
<1>5. ReadsControl'
  BY <1>0 DEF WsInv, ReadsControl, ReadsSlot, Calmer
<1> QED
  BY <1>1, <1>2, <1>3, <1>4, <1>5, CalmerKeeps DEF WsInv

-----------------------------------------------------------------------------
(* Restart, and the end of a process *)

LEMMA ClosedEnds ==
    ASSUME NEW C \in [Slots -> ConnType], NEW s \in Side, NEW k \in Slots \cup {Nil}, NEW j \in Slots
    PROVE  /\ C[j].end["client"] = "closed" => Closed(C, s, k)[j].end["client"] = "closed"
           /\ j = k /\ Nil \notin Slots => Closed(C, s, k)[j].end[s] = "closed"
<1>1. CASE k = Nil
  BY <1>1 DEF Closed
<1>2. CASE k # Nil
  BY <1>2 DEF Closed, ConnType, Side
<1> QED
  BY <1>1, <1>2

LEMMA RestartBeginInv ==
    ASSUME WsInv, WsTypeOK', NEW s \in Side, RestartBegin(s)
    PROVE  WsInv'
<1>1. Calmer
  BY DEF RestartBegin, Calmer, WsInv, WsTypeOK, Side
<1>2. pending[s] # 0
  BY DEF RestartBegin, WsInv, WsTypeOK
<1>3. /\ restart'[s] = [pc |-> "close", timer |-> RestartSleep]
      /\ \A t \in Side \ {s} : restart'[t] = restart[t]
  BY DEF RestartBegin, WsInv, WsTypeOK
<1>4. /\ ~ctx'[s]
      /\ \A t \in Side \ {s} : ctx'[t] = ctx[t]
  BY DEF RestartBegin, WsInv, WsTypeOK
<1>5. restart'[s].pc = "close" /\ restart'[s].timer > 0
  BY <1>3, WsLinkAssumption
<1>6. dialer' = dialer
<2>1. s = "client" => \A i \in Gs : dialer[i].pc = "none"
  BY <1>2 DEF WsInv, DialsAlone, ClientCalm
<2> QED
  BY <2>1 DEF RestartBegin, WsInv, WsTypeOK
<1>7. OneDialer'
  BY <1>6 DEF WsInv, OneDialer
<1>8. DialsAlone'
  BY <1>1, <1>2, <1>3, <1>6, CalmerKeeps DEF WsInv, DialsAlone, ClientCalm, RestartBegin, Side
<1>9. SleepsFirst'
  BY <1>3, <1>5 DEF WsInv, SleepsFirst
<1>10. Settled'
  BY <1>1, <1>3, <1>5, CalmerKeeps DEF WsInv, Settled
<1>11. CtxIdle'
  BY <1>3, <1>4, <1>5 DEF WsInv, CtxIdle
<1>12. ReadsControl'
  BY <1>3, <1>5 DEF WsInv, ReadsControl, RestartBegin, Side, Closing, Asleep
<1>13. BoundUnderControl'
  BY <1>4 DEF WsInv, BoundUnderControl, RestartBegin, Side
<1> QED
  BY <1>1, <1>7, <1>8, <1>9, <1>10, <1>11, <1>12, <1>13, CalmerKeeps DEF WsInv

LEMMA RestartSkipInv ==
    ASSUME WsInv, WsTypeOK', NEW s \in Side, RestartSkip(s)
    PROVE  WsInv'
<1>1. Calmer
  BY DEF RestartSkip, Calmer, WsInv, WsTypeOK, Side
<1>2. DialerCalmer /\ UNCHANGED <<control, restart, ctx, bound>>
  BY DEF RestartSkip, DialerCalmer
<1> QED
  BY <1>1, <1>2, CalmerInv

LEMMA RestartCloseInv ==
    ASSUME WsInv, WsTypeOK', NEW s \in Side, RestartClose(s)
    PROVE  WsInv'
<1>1. control[s] \in Slots \cup {Nil}
  BY DEF WsInv, WsTypeOK
<1>2. /\ \A k \in Slots : conn[k].end["client"] = "closed" => conn'[k].end["client"] = "closed"
      /\ control[s] \in Slots => conn'[control[s]].end[s] = "closed"
<2>1. conn \in [Slots -> ConnType] /\ conn' = Closed(conn, s, control[s]) /\ Nil \notin Slots
  BY WsLinkAssumption DEF RestartClose, WsInv, WsTypeOK
<2> QED
  BY <1>1, <2>1, ClosedEnds
<1>3. Calmer
  BY <1>2 DEF RestartClose, Calmer, Side
<1>4. /\ restart'[s].pc \in Asleep /\ restart'[s].timer = restart[s].timer
      /\ restart[s].pc \in Closing /\ restart[s].timer > 0
      /\ \A t \in Side \ {s} : restart'[t] = restart[t]
  BY DEF RestartClose, WsInv, WsTypeOK, RestartType, SleepsFirst, Closing, Asleep
<1>5. OneDialer'
  BY DEF RestartClose, WsInv, OneDialer
<1>6. DialsAlone'
  BY <1>3, <1>4, CalmerKeeps DEF WsInv, DialsAlone, RestartClose, Side, Closing, Asleep
<1>7. SleepsFirst'
  BY <1>4 DEF WsInv, SleepsFirst
<1>8. Settled'
  BY <1>3, <1>4, CalmerKeeps DEF WsInv, Settled
<1>9. CtxIdle'
  BY <1>4 DEF WsInv, CtxIdle, RestartClose, Closing, Asleep
<1>10. ReadsControl'
  BY <1>2, <1>4 DEF WsInv, ReadsControl, ReadsSlot, RestartClose, Side
<1>11. BoundUnderControl'
  BY DEF WsInv, BoundUnderControl, RestartClose
<1> QED
  BY <1>3, <1>5, <1>6, <1>7, <1>8, <1>9, <1>10, <1>11, CalmerKeeps DEF WsInv

(* The next run: what the sleep has settled, a new dialer may rely on. *)
LEMMA RestartFinishInv ==
    ASSUME WsInv, WsTypeOK', NEW s \in Side, RestartFinish(s)
    PROVE  WsInv'
<1>0. "client" \in Side /\ "server" \in Side
  BY DEF Side
<1>1. /\ NoRequests /\ NoHandlers(s)
      /\ s = "client" => ClientCalm
  BY DEF RestartFinish, WsInv, Settled
<1>2. /\ control'[s] = Nil /\ ctx'[s] /\ restart'[s].pc = "idle"
      /\ \A t \in Side \ {s} : control'[t] = control[t] /\ ctx'[t] = ctx[t] /\ restart'[t] = restart[t]
      /\ UNCHANGED <<conn, pending, handler, reader, bound, request>>
  BY DEF RestartFinish, WsInv, WsTypeOK, Idle
<1>3. ~bound \/ s # "server"
  BY DEF RestartFinish, WsInv, BoundUnderControl, CtxIdle, Closing, Asleep
<1>4. OneRequest' /\ NoRequests' /\ NoHandlers(s)' /\ ReadsSlot' /\ OneHandler'
  BY <1>1, <1>2 DEF WsInv, OneRequest, NoRequests, NoHandlers, ReadsSlot, OneHandler
<1>5. HandlerHasControl'
  BY <1>1, <1>2 DEF WsInv, HandlerHasControl, NoHandlers
<1>6. SetFindsNil'
  BY <1>1, <1>2 DEF NoRequests, SetFindsNil
<1>7. OneDialer'
<2>1. CASE s = "server"
  BY <2>1 DEF RestartFinish, WsInv, OneDialer
<2>2. CASE s = "client"
  <3> DEFINE g == Lowest({i \in Gs : dialer[i].pc = "none"})
  <3> HIDE DEF g
  <3>1. dialer' = [dialer EXCEPT ![g].pc = "top"]
    BY <2>2 DEF RestartFinish, g
  <3>2. \A i \in Gs : dialer[i].pc = "none"
    BY <2>2 DEF RestartFinish, WsInv, DialsAlone, Closing, Asleep
  <3>3. \A i \in Gs : i # g => dialer'[i] = dialer[i]
    BY <3>1 DEF WsInv, WsTypeOK
  <3> QED
    BY <3>2, <3>3 DEF OneDialer
<2> QED
  BY <2>1, <2>2 DEF Side
<1>8. DialsAlone'
<2>1. CASE s = "server"
  BY <1>0, <1>2, <2>1 DEF RestartFinish, WsInv, DialsAlone, NoRequests, NoHandlers, ClientCalm
<2>2. CASE s = "client"
  BY <1>1, <1>2, <1>4, <2>2 DEF DialsAlone, ClientCalm
<2> QED
  BY <2>1, <2>2 DEF Side
<1>9. SleepsFirst'
  BY <1>2 DEF WsInv, SleepsFirst, Closing, Asleep
<1>10. Settled'
  BY <1>2 DEF WsInv, Settled, NoRequests, NoHandlers, ClientCalm, Closing, Asleep
<1>11. CtxIdle'
  BY <1>2 DEF WsInv, CtxIdle
<1>12. ReadsControl'
  BY <1>0, <1>1, <1>2 DEF WsInv, ReadsControl, ClientCalm
<1>13. BoundUnderControl'
  BY <1>0, <1>2, <1>3 DEF WsInv, BoundUnderControl
<1> QED
  BY <1>4, <1>5, <1>6, <1>7, <1>8, <1>9, <1>10, <1>11, <1>12, <1>13 DEF WsInv

(* A process ends at any moment; its next run begins as after Restart. *)
LEMMA DeathInv ==
    ASSUME WsInv, WsTypeOK', NEW s \in Side, ProcessDies(s)
    PROVE  WsInv'
<1>0. "client" \in Side /\ "server" \in Side
  BY DEF Side
<1>1. /\ control'[s] = Nil /\ ~ctx'[s]
      /\ restart'[s].pc = "dead" /\ restart'[s].timer = ServiceRestart
      /\ pending'[s] = 0 /\ pending' = [pending EXCEPT ![s] = 0]
      /\ \A t \in Side \ {s} : control'[t] = control[t] /\ ctx'[t] = ctx[t] /\ restart'[t] = restart[t]
<2>1. /\ DOMAIN ctx = Side /\ DOMAIN control = Side /\ DOMAIN restart = Side
      /\ DOMAIN pending = Side
  BY DEF WsInv, WsTypeOK
<2>2. /\ ctx' = [ctx EXCEPT ![s] = FALSE] /\ control' = [control EXCEPT ![s] = Nil]
      /\ restart' = [restart EXCEPT ![s] = [pc |-> "dead", timer |-> ServiceRestart]]
      /\ pending' = [pending EXCEPT ![s] = 0]
  BY DEF ProcessDies
<2> QED
  BY <2>1, <2>2
<1>2. \A t \in Side, i \in Gs :
        /\ t # s => handler'[t][i] = handler[t][i] /\ reader'[t][i] = reader[t][i]
        /\ t = s => handler'[t][i].pc = "none" /\ reader'[t][i].pc = "none"
<2>1. NoHandler.pc = "none" /\ NoReader.pc = "none"
  BY DEF NoHandler, NoReader
<2>2. /\ handler' = [handler EXCEPT ![s] = [i \in Gs |-> NoHandler]]
      /\ reader' = [reader EXCEPT ![s] = [i \in Gs |-> NoReader]]
  BY DEF ProcessDies
<2> QED
  BY <2>1, <2>2 DEF WsInv, WsTypeOK
<1>3. \A k \in Slots : /\ request'[k] = request[k] \/ request'[k] = "none"
                       /\ conn[k].end["client"] = "closed" => conn'[k].end["client"] = "closed"
<2>1. \A k \in Slots : conn[k].end["client"] = "closed" => conn'[k].end["client"] = "closed"
  <3> TAKE k \in Slots
  <3> DEFINE c == conn[k]
  <3>1. c \in ConnType /\ conn'[k] = [c EXCEPT !.end[s] = "closed", !.inbox[s] = <<>>]
    BY DEF ProcessDies, WsInv, WsTypeOK
  <3> HIDE DEF c
  <3>2. c.end["client"] = "closed" =>
          [c EXCEPT !.end[s] = "closed", !.inbox[s] = <<>>].end["client"] = "closed"
    BY <1>0, <3>1 DEF ConnType
  <3> QED
    BY <3>1, <3>2 DEF c
<2>2. \A k \in Slots : request'[k] = request[k] \/ request'[k] = "none"
  BY DEF ProcessDies
<2> QED
  BY <2>1, <2>2
<1>4. \A i \in Gs : /\ dialer'[i].pc # "none" => dialer[i].pc # "none"
                    /\ s = "client" => dialer'[i].pc = "none"
  BY DialerTypes DEF ProcessDies
<1>5. Calmer
  BY <1>0, <1>1, <1>2, <1>3 DEF Calmer, WsInv, WsTypeOK
<1>6. ServiceRestart > 0
  BY WsLinkAssumption
<1>7. OneDialer'
  BY <1>4 DEF WsInv, OneDialer
<1>8. DialsAlone'
  BY <1>0, <1>1, <1>4, <1>5, CalmerKeeps DEF WsInv, DialsAlone, Side
<1>9. SleepsFirst'
  BY <1>1 DEF WsInv, SleepsFirst, Closing, Asleep
<1>10. Settled'
  BY <1>1, <1>5, <1>6, CalmerKeeps DEF WsInv, Settled
<1>11. CtxIdle'
  BY <1>1 DEF WsInv, CtxIdle
<1>12. ReadsControl'
  BY <1>0, <1>1, <1>2, <1>3 DEF WsInv, ReadsControl, ReadsSlot
<1>13. BoundUnderControl'
  BY <1>0, <1>1 DEF WsInv, BoundUnderControl, ProcessDies
<1> QED
  BY <1>5, <1>7, <1>8, <1>9, <1>10, <1>11, <1>12, <1>13, CalmerKeeps DEF WsInv

-----------------------------------------------------------------------------
(* The goroutines of a control channel *)

LEMMA ReaderCheckInv ==
    ASSUME WsInv, WsTypeOK', NEW s \in Side, NEW i \in Gs, ReaderCheck(s, i)
    PROVE  WsInv'
<1>0. "client" \in Side
  BY DEF Side
<1>1. CASE ctx[s] /\ control[s] = Nil
  BY <1>1, DeathInv DEF ReaderCheck
<1>2. CASE ~ctx[s]
<2>1. reader' = [reader EXCEPT ![s][i] = NoReader]
  BY <1>2 DEF ReaderCheck
<2>2. UNCHANGED <<conn, ctx, control, restart, pending, handler, bound, request, dialer>>
  BY <1>2 DEF ReaderCheck
<2>3. \A t \in Side, j \in Gs : reader'[t][j].pc = "read" => reader'[t][j] = reader[t][j]
  BY <2>1 DEF WsInv, WsTypeOK, NoReader
<2>4. Calmer /\ DialerCalmer
  BY <2>2, <2>3 DEF Calmer, DialerCalmer, Side
<2> QED
  BY <2>2, <2>4, CalmerInv
<1>3. CASE ctx[s] /\ control[s] # Nil
<2>1. reader' = [reader EXCEPT ![s][i] = [reader[s][i] EXCEPT !.pc = "read",
                                                              !.conn = control[s]]]
  BY <1>3 DEF ReaderCheck, WsInv, WsTypeOK
<2>2. UNCHANGED <<conn, ctx, control, restart, pending, handler, bound, request, dialer>>
  BY <1>3 DEF ReaderCheck
<2>3. \A t \in Side, j \in Gs :
        \/ reader'[t][j] = reader[t][j]
        \/ t = s /\ reader'[t][j].conn = control[s]
  BY <2>1 DEF WsInv, WsTypeOK, ReaderType
<2>4. restart[s].pc = "idle" /\ control[s] \in Slots
  BY <1>3 DEF WsInv, CtxIdle, WsTypeOK
<2>5. s = "client" => \A j \in Gs : dialer[j].pc = "none"
  BY <1>3 DEF WsInv, DialsAlone
<2>6. ReadsSlot'
  BY <2>3, <2>4 DEF WsInv, ReadsSlot
<2>7. DialsAlone'
  BY <1>0, <2>2, <2>3, <2>5 DEF WsInv, DialsAlone, NoRequests, NoHandlers, ClientCalm
<2>8. Settled'
  BY <1>0, <2>2, <2>3, <2>4 DEF WsInv, Settled, NoRequests, NoHandlers, ClientCalm, Closing, Asleep
<2>9. ReadsControl'
  BY <1>0, <2>2, <2>3, <2>4 DEF WsInv, ReadsControl, Closing, Asleep
<2>10. /\ OneDialer' /\ OneRequest' /\ SleepsFirst' /\ CtxIdle' /\ HandlerHasControl'
       /\ OneHandler' /\ BoundUnderControl' /\ SetFindsNil'
  BY <2>2 DEF WsInv, OneDialer, OneRequest, SleepsFirst, CtxIdle, HandlerHasControl, OneHandler,
     BoundUnderControl, SetFindsNil
<2> QED
  BY <2>6, <2>7, <2>8, <2>9, <2>10 DEF WsInv
<1> QED
  BY <1>1, <1>2, <1>3

LEMMA InboxEnds ==
    ASSUME WsTypeOK, NEW s \in Side, NEW k, NEW m, NEW j \in Slots
    PROVE  [conn EXCEPT ![k].inbox[s] = m][j].end = conn[j].end
  BY DEF WsTypeOK, ConnType

LEMMA ReaderInv ==
    ASSUME WsInv, WsTypeOK', NEW s \in Side, NEW i \in Gs,
           \/ ReaderGets(s, i) \/ ReaderFails(s, i) \/ ReaderWakes(s, i) \/ ReaderLeaves(s, i)
    PROVE  WsInv'
<1>0. "client" \in Side /\ "server" \in Side
  BY DEF Side
<1>1. UNCHANGED <<ctx, control, restart, bound, request, dialer>>
  BY DEF ReaderGets, ReaderFails, ReaderWakes, ReaderLeaves
<1>2. \A k \in Slots : conn'[k].end = conn[k].end
<2>1. CASE ReaderGets(s, i)
  <3>1. PICK k, m : conn' = [conn EXCEPT ![k].inbox[s] = m]
    BY <2>1 DEF ReaderGets
  <3> QED
    BY <3>1, InboxEnds DEF WsInv
<2>2. CASE ~ReaderGets(s, i)
  BY <2>2 DEF ReaderFails, ReaderWakes, ReaderLeaves
<2> QED
  BY <2>1, <2>2
<1>3. \A t \in Side, j \in Gs : handler'[t][j].pc = handler[t][j].pc
<2>1. CASE ReaderGets(s, i)
  <3>1. PICK m : handler' = [handler EXCEPT ![s][i].msgs = m]
    BY <2>1 DEF ReaderGets
  <3> QED
    BY <3>1 DEF WsInv, WsTypeOK, HandlerType
<2>2. CASE ~ReaderGets(s, i)
  BY <2>2 DEF ReaderFails, ReaderWakes, ReaderLeaves
<2> QED
  BY <2>1, <2>2
<1>4. \A t \in Side, j \in Gs : \/ reader'[t][j] = reader[t][j]
                                \/ reader'[t][j].pc # "read"
<2>1. CASE ReaderGets(s, i)
  <3>1. [NoReader EXCEPT !.pc = "check"].pc = "check"
    BY DEF NoReader
  <3>2. reader' = [reader EXCEPT ![s][i] = [NoReader EXCEPT !.pc = "check"]]
    BY <2>1 DEF ReaderGets
  <3> QED
    BY <3>1, <3>2 DEF WsInv, WsTypeOK
<2>2. CASE ReaderFails(s, i)
  BY <2>2 DEF ReaderFails, WsInv, WsTypeOK, NoReader
<2>3. CASE ReaderWakes(s, i)
  BY <2>3 DEF ReaderWakes, WsInv, WsTypeOK, ReaderType
<2>4. CASE ReaderLeaves(s, i)
  BY <2>4 DEF ReaderLeaves, WsInv, WsTypeOK, NoReader
<2> QED
  BY <2>1, <2>2, <2>3, <2>4
<1>5. pending'["client"] = pending["client"] \/ (s = "client" /\ reader["client"][i].pc = "read")
  BY <1>0 DEF ReaderGets, ReaderFails, ReaderWakes, ReaderLeaves, WsInv, WsTypeOK
<1>6. Calmer /\ DialerCalmer
  BY <1>0, <1>1, <1>2, <1>3, <1>4, <1>5 DEF Calmer, DialerCalmer
<1> QED
  BY <1>1, <1>6, CalmerInv

LEMMA HandlerInv ==
    ASSUME WsInv, WsTypeOK', NEW s \in Side, NEW i \in Gs,
           HandlerCancelled(s, i) \/ HandlerMessage(s, i) \/ WriteError(s, i)
    PROVE  WsInv'
<1>0. "client" \in Side /\ "server" \in Side /\ Other(s) \in Side
  BY DEF Side, Other
<1>1. UNCHANGED <<ctx, control, restart, bound, request, dialer, reader>>
  BY DEF HandlerCancelled, HandlerMessage, WriteError
<1>2. \A k \in Slots : conn'[k].end = conn[k].end
<2>1. CASE conn' = conn
  BY <2>1
<2>2. CASE conn' # conn
  <3>1. PICK k, m : conn' = [conn EXCEPT ![k].inbox[Other(s)] = m]
    BY <2>2 DEF HandlerCancelled, HandlerMessage, WriteError
  <3> QED
    BY <1>0, <3>1, InboxEnds DEF WsInv
<2> QED
  BY <2>1, <2>2
<1>3. \A t \in Side, j \in Gs : \/ handler'[t][j] = handler[t][j]
                                \/ handler'[t][j].pc # "run"
<2>1. handler' = [handler EXCEPT ![s][i] = NoHandler]
  BY DEF HandlerCancelled, HandlerMessage, WriteError
<2>2. NoHandler.pc # "run"
  BY DEF NoHandler
<2> QED
  BY <2>1, <2>2 DEF WsInv, WsTypeOK
<1>4. pending'["client"] = pending["client"] \/ (s = "client" /\ handler["client"][i].pc = "run")
  BY <1>0 DEF HandlerCancelled, HandlerMessage, WriteError, WsInv, WsTypeOK
<1>5. Calmer /\ DialerCalmer
  BY <1>0, <1>1, <1>2, <1>3, <1>4 DEF Calmer, DialerCalmer
<1> QED
  BY <1>1, <1>5, CalmerInv

-----------------------------------------------------------------------------
(* The server's requests and the client's dialers *)

LEMMA RequestChecksInv ==
    ASSUME WsInv, WsTypeOK', NEW k \in Slots, RequestChecks(k)
    PROVE  WsInv'
<1>0. "client" \in Side /\ "server" \in Side /\ "client" # "server"
  BY DEF Side
<1>1. UNCHANGED <<ctx, control, restart, bound, dialer, handler, reader>>
  BY DEF RequestChecks
<1>2. \A j \in Slots : conn[j].end["client"] = "closed" => conn'[j].end["client"] = "closed"
<2>1. CASE conn' = conn
  BY <2>1
<2>2. CASE conn' # conn
  <3> DEFINE C == Closed(conn, "server", control["server"])
  <3>1. conn \in [Slots -> ConnType] /\ control["server"] \in Slots \cup {Nil}
    BY <1>0 DEF WsInv, WsTypeOK
  <3>2. C \in [Slots -> ConnType]
    BY <1>0, <3>1, ClosedType
  <3>3. \A j \in Slots : conn[j].end["client"] = "closed" => C[j].end["client"] = "closed"
    BY <1>0, <3>1, ClosedEnds
  <3>4. conn' = Closed(C, "server", k)
    BY <2>2 DEF RequestChecks
  <3> HIDE DEF C
  <3> QED
    BY <1>0, <3>2, <3>3, <3>4, ClosedEnds
<2> QED
  BY <2>1, <2>2
<1>3. \A j \in Slots : /\ request'[j] # "none" => request[j] # "none"
                       /\ request'[j] = "set" => request[j] = "set" \/ control["server"] = Nil
  BY DEF RequestChecks, WsInv, WsTypeOK
<1>4. pending'["client"] = pending["client"]
  BY <1>0 DEF RequestChecks, WsInv, WsTypeOK
<1>5. Calmer /\ DialerCalmer
  BY <1>0, <1>1, <1>2, <1>3, <1>4 DEF Calmer, DialerCalmer
<1> QED
  BY <1>1, <1>5, CalmerInv

(* The goroutines that a control channel gets. *)
LEMMA SpawnAlone ==
    ASSUME WsTypeOK, NEW s \in Side, SpawnHandler(s), NoHandlers(s)
    PROVE  \A i, j \in Gs : handler'[s][i].pc = "run" /\ handler'[s][j].pc = "run" => i = j
  BY SpawnType DEF NoHandlers

LEMMA RequestSetsInv ==
    ASSUME WsInv, WsTypeOK', NEW k \in Slots, RequestSets(k)
    PROVE  WsInv'
<1>0. "client" \in Side /\ "server" \in Side /\ "client" # "server"
  BY DEF Side
<1>1. /\ request[k] = "set" /\ control["server"] = Nil
      /\ \A j \in Slots : j # k => request[j] = "none"
  BY DEF RequestSets, WsInv, OneRequest, SetFindsNil
<1>2. NoHandlers("server")
  BY <1>0, <1>1 DEF WsInv, HandlerHasControl, NoHandlers
<1>3. /\ control'["server"] = k /\ k # Nil
      /\ control'["client"] = control["client"]
      /\ UNCHANGED <<conn, ctx, restart, pending, dialer>>
      /\ bound' = ctx["server"]
  BY <1>0, WsLinkAssumption DEF RequestSets, WsInv, WsTypeOK
<1>4. NoRequests'
  BY <1>1 DEF RequestSets, NoRequests, WsInv, WsTypeOK
<1>5. SpawnHandler("server")
  BY DEF RequestSets
<1>6. \A i \in Gs : /\ handler'["client"][i] = handler["client"][i]
                    /\ reader'["client"][i] = reader["client"][i]
  BY <1>0, <1>5, SpawnType DEF WsInv
<1>7. \A i \in Gs : reader'["server"][i] = reader["server"][i] \/ reader'["server"][i].pc = "check"
  BY <1>0, <1>5, SpawnType DEF WsInv
<1>8. ReadsSlot'
  BY <1>6, <1>7 DEF WsInv, ReadsSlot, Side
<1>9. OneDialer' /\ OneRequest' /\ SetFindsNil'
  BY <1>3, <1>4 DEF WsInv, OneDialer, OneRequest, NoRequests, SetFindsNil
<1>10. DialsAlone'
  BY <1>3, <1>4, <1>6 DEF WsInv, DialsAlone, NoHandlers, ClientCalm
<1>11. SleepsFirst' /\ CtxIdle' /\ ReadsControl'
  BY <1>3, <1>6 DEF WsInv, SleepsFirst, CtxIdle, ReadsControl
<1>12. Settled'
<2>1. \A s \in Side : ~(restart[s].pc \in Asleep /\ restart[s].timer = 0)
  BY <1>1 DEF WsInv, Settled, NoRequests
<2> QED
  BY <1>3, <2>1 DEF Settled
<1>13. HandlerHasControl'
  BY <1>3, <1>6 DEF WsInv, HandlerHasControl, Side
<1>14. OneHandler'
<2>1. \A i, j \in Gs : handler'["server"][i].pc = "run" /\ handler'["server"][j].pc = "run" => i = j
  BY <1>0, <1>2, <1>5, SpawnAlone DEF WsInv
<2> QED
  BY <1>6, <2>1 DEF WsInv, OneHandler, Side
<1>15. BoundUnderControl'
  BY <1>3 DEF BoundUnderControl
<1> QED
  BY <1>8, <1>9, <1>10, <1>11, <1>12, <1>13, <1>14, <1>15 DEF WsInv

LEMMA DialerWaitsInv ==
    ASSUME WsInv, WsTypeOK', NEW i \in Gs, DialerTop(i) \/ DialerRefused(i) \/ DialerRetries(i)
    PROVE  WsInv'
<1>0. "client" \in Side /\ "server" \in Side
  BY DEF Side
<1>1. UNCHANGED <<conn, sideVars, request>>
  BY DEF DialerTop, DialerRefused, DialerRetries
<1>2. dialer[i].pc # "none"
  BY DEF DialerTop, DialerRefused, DialerRetries
<1>3. PICK d : dialer' = [dialer EXCEPT ![i] = d]
  BY DEF DialerTop, DialerRefused, DialerRetries
<1>4. DialerCalmer
  BY <1>2, <1>3 DEF DialerCalmer, WsInv, WsTypeOK
<1>5. Calmer
  BY <1>0, <1>1 DEF Calmer, sideVars
<1> QED
  BY <1>1, <1>4, <1>5, CalmerInv DEF sideVars

(* The only dialer becomes the only request. *)
LEMMA DialerConnectsInv ==
    ASSUME WsInv, WsTypeOK', NEW i \in Gs, NEW k \in Slots, DialerConnects(i, k)
    PROVE  WsInv'
<1>0. "client" \in Side /\ "server" \in Side /\ "client" # "server"
  BY DEF Side
<1>1. dialer[i].pc = "attempt"
  BY DEF DialerConnects
<1>2. /\ restart["client"].pc = "idle" /\ control["client"] = Nil
      /\ NoRequests /\ NoHandlers("client") /\ ClientCalm
  BY <1>1 DEF WsInv, DialsAlone
<1>3. \A j \in Gs : dialer'[j].pc = "none"
<2>1. \A j \in Gs : j # i => dialer[j].pc = "none"
  BY <1>1 DEF WsInv, OneDialer
<2> QED
  BY <2>1, DialerTypes DEF DialerConnects, WsInv, WsTypeOK
<1>4. /\ control'["client"] = k /\ k # Nil
      /\ control'["server"] = control["server"]
      /\ UNCHANGED <<ctx, restart, pending, bound>>
  BY <1>0, WsLinkAssumption DEF DialerConnects, WsInv, WsTypeOK
<1>5. /\ request'[k] = "check"
      /\ \A j \in Slots : j # k => request'[j] = "none"
  BY <1>2 DEF DialerConnects, WsInv, WsTypeOK, NoRequests
<1>6. SpawnHandler("client")
  BY DEF DialerConnects
<1>7. \A j \in Gs : /\ handler'["server"][j] = handler["server"][j]
                    /\ reader'["server"][j] = reader["server"][j]
  BY <1>0, <1>6, SpawnType DEF WsInv
<1>8. \A j \in Gs : reader'["client"][j].pc # "read"
  BY <1>0, <1>2, <1>6, SpawnType DEF WsInv, ClientCalm
<1>9. ReadsSlot' /\ ReadsControl'
  BY <1>7, <1>8 DEF WsInv, ReadsSlot, ReadsControl, Side
<1>10. OneDialer' /\ DialsAlone'
  BY <1>3 DEF OneDialer, DialsAlone
<1>11. OneRequest' /\ SetFindsNil'
  BY <1>5 DEF OneRequest, SetFindsNil
<1>12. SleepsFirst' /\ CtxIdle'
  BY <1>4 DEF WsInv, SleepsFirst, CtxIdle
<1>13. Settled'
<2>1. restart["server"].pc = "idle"
  BY <1>0 DEF DialerConnects, WsInv, CtxIdle
<2> QED
  BY <1>2, <1>4, <2>1 DEF Settled, Side, Closing, Asleep
<1>14. HandlerHasControl'
  BY <1>4, <1>7 DEF WsInv, HandlerHasControl, Side
<1>15. OneHandler'
<2>1. \A j, h \in Gs : handler'["client"][j].pc = "run" /\ handler'["client"][h].pc = "run" => j = h
  BY <1>0, <1>2, <1>6, SpawnAlone DEF WsInv
<2> QED
  BY <1>7, <2>1 DEF WsInv, OneHandler, Side
<1>16. BoundUnderControl'
  BY <1>4 DEF WsInv, BoundUnderControl
<1> QED
  BY <1>9, <1>10, <1>11, <1>12, <1>13, <1>14, <1>15, <1>16 DEF WsInv

-----------------------------------------------------------------------------
(* The environment and the clock *)

LEMMA ReloadInv ==
    ASSUME WsInv, WsTypeOK', NEW s \in Side, Reload(s)
    PROVE  WsInv'
<1>0. "client" \in Side /\ "server" \in Side /\ "client" # "server"
  BY DEF Side
<1>1. /\ ~ctx'[s] /\ pending'[s] = 0
      /\ restart'[s].pc \in {"shutdown", "reload"}
      /\ restart'[s].timer = ReloadSleep
      /\ \A t \in Side \ {s} : ctx'[t] = ctx[t] /\ restart'[t] = restart[t] /\ pending'[t] = pending[t]
      /\ UNCHANGED <<conn, control, handler, request>>
  BY DEF Reload, WsInv, WsTypeOK
<1>2. \A t \in Side, i \in Gs : \/ t # s /\ reader'[t][i] = reader[t][i]
                                \/ t = s /\ reader'[t][i].pc # "read"
<2>1. \A r \in ReaderType : [r EXCEPT !.pc = "old"].pc = "old"
  BY DEF ReaderType
<2>2. NoReader.pc = "none"
  BY DEF NoReader
<2>3. \A i \in Gs : reader[s][i] \in ReaderType
  BY DEF WsInv, WsTypeOK
<2> QED
  BY <2>1, <2>2, <2>3 DEF Reload, WsInv, WsTypeOK
<1>3. \A i \in Gs : /\ dialer'[i].pc # "none" => dialer[i].pc # "none"
                    /\ s = "client" => dialer'[i].pc = "none"
  BY DialerTypes DEF Reload
<1>4. Calmer
  BY <1>0, <1>1, <1>2 DEF Calmer, Side
<1>5. ReloadSleep > 0
  BY WsLinkAssumption
<1>6. OneDialer'
  BY <1>3 DEF WsInv, OneDialer
<1>7. DialsAlone'
  BY <1>0, <1>1, <1>3, <1>4, CalmerKeeps DEF WsInv, DialsAlone
<1>8. SleepsFirst'
  BY <1>1, <1>5 DEF WsInv, SleepsFirst
<1>9. Settled'
  BY <1>1, <1>4, <1>5, CalmerKeeps DEF WsInv, Settled
<1>10. CtxIdle'
  BY <1>1 DEF WsInv, CtxIdle
<1>11. ReadsControl'
  BY <1>0, <1>1, <1>2 DEF WsInv, ReadsControl
<1>12. BoundUnderControl'
  BY <1>0, <1>1 DEF WsInv, BoundUnderControl, Reload
<1> QED
  BY <1>4, <1>6, <1>7, <1>8, <1>9, <1>10, <1>11, <1>12, CalmerKeeps DEF WsInv

LEMMA ConnectionInv ==
    ASSUME WsInv, WsTypeOK',
           \/ Cut \/ \E s \in Side : SilentLoss(s)
           \/ \E k \in Slots : Detect(k) \/ \E s \in Side : Collect(s, k)
    PROVE  WsInv'
<1>0. "client" \in Side /\ "server" \in Side
  BY DEF Side
<1>1. UNCHANGED <<sideVars, request, dialer>>
  BY DEF Cut, SilentLoss, Detect, Collect
<1>2. \A j \in Slots : conn[j].end["client"] = "closed" => conn'[j].end["client"] = "closed"
<2>1. CASE Cut
  <3>1. NoConn.end["client"] = "closed"
    BY <1>0 DEF NoConn
  <3> QED
    BY <2>1, <3>1 DEF Cut, WsInv, WsTypeOK
<2>2. ASSUME NEW s \in Side, SilentLoss(s)
      PROVE  \A j \in Slots : conn[j].end["client"] = "closed" => conn'[j].end["client"] = "closed"
  <3>1. PICK k \in Slots : conn' = [Closed(conn, s, k) EXCEPT ![k].silent = TRUE]
    <4>1. PICK k \in {control[t] : t \in Side} \ {Nil} :
             conn' = [Closed(conn, s, k) EXCEPT ![k].silent = TRUE]
      BY <2>2 DEF SilentLoss
    <4>2. k \in Slots
      BY <4>1 DEF WsInv, WsTypeOK
    <4> QED
      BY <4>1, <4>2
  <3>2. /\ Closed(conn, s, k) \in [Slots -> ConnType]
        /\ \A j \in Slots : conn[j].end["client"] = "closed" =>
              Closed(conn, s, k)[j].end["client"] = "closed"
    <4>1. conn \in [Slots -> ConnType] /\ k \in Slots \cup {Nil}
      BY DEF WsInv, WsTypeOK
    <4> QED
      BY <1>0, <4>1, ClosedType, ClosedEnds
  <3> QED
    BY <3>1, <3>2 DEF ConnType
<2>3. ASSUME NEW k \in Slots, Detect(k)
      PROVE  \A j \in Slots : conn[j].end["client"] = "closed" => conn'[j].end["client"] = "closed"
  BY <2>3 DEF Detect, WsInv, WsTypeOK, ConnType
<2>4. ASSUME NEW k \in Slots, NEW s \in Side, Collect(s, k)
      PROVE  \A j \in Slots : conn[j].end["client"] = "closed" => conn'[j].end["client"] = "closed"
  <3>1. conn \in [Slots -> ConnType] /\ k \in Slots \cup {Nil} /\ conn' = Closed(conn, s, k)
    BY <2>4 DEF Collect, WsInv, WsTypeOK
  <3> QED
    BY <3>1, ClosedEnds
<2> QED
  BY <2>1, <2>2, <2>3, <2>4
<1>3. Calmer /\ DialerCalmer
  BY <1>0, <1>1, <1>2 DEF Calmer, DialerCalmer, sideVars
<1> QED
  BY <1>1, <1>3, CalmerInv DEF sideVars

(* The clock ticks when nothing can run: a Restart that sleeps then has    *)
(* nothing of its run left.                                                *)
LEMMA TickInv ==
    ASSUME WsInv, WsTypeOK', Tick
    PROVE  WsInv'
<1>0. "client" \in Side /\ "server" \in Side
  BY DEF Side
<1>1. /\ NoRequests
      /\ \A s \in Side : /\ pending[s] = 0 /\ restart[s].pc \notin Closing
                         /\ ~ctx[s] => NoHandlers(s)
      /\ \A i \in Gs : reader["client"][i].pc = "read" =>
                         ~ReadFails("client", reader["client"][i].conn)
<2>1. NoRequests
  BY DEF Tick, Runnable, NoRequests
<2>2. \A s \in Side : pending[s] = 0 /\ restart[s].pc \notin Closing
  BY DEF Tick, Runnable, WsInv, WsTypeOK
<2>3. \A s \in Side : ~ctx[s] => NoHandlers(s)
  BY DEF Tick, Runnable, NoHandlers
<2>4. \A i \in Gs : reader["client"][i].pc = "read" =>
                      ~ReadFails("client", reader["client"][i].conn)
  BY <1>0 DEF Tick, Runnable
<2> QED
  BY <2>1, <2>2, <2>3, <2>4
<1>2. restart["client"].pc \in Asleep => ClientCalm
  BY <1>0, <1>1 DEF WsInv, ReadsControl, ReadFails, ClientCalm
<1>3. \A s \in Side : restart[s].pc \in Asleep => NoHandlers(s)
  BY <1>1 DEF WsInv, CtxIdle, Closing, Asleep
<1>4. UNCHANGED <<conn, ctx, control, pending, handler, bound, request>>
  BY DEF Tick
<1>5. \A s \in Side : restart'[s].pc = restart[s].pc
  BY DEF Tick, WsInv, WsTypeOK, RestartType
<1>6. \A s \in Side, i \in Gs : /\ reader'[s][i].pc = reader[s][i].pc
                                /\ reader'[s][i].conn = reader[s][i].conn
<2>1. \A r \in ReaderType : \A t : [r EXCEPT !.timer = t].pc = r.pc /\ [r EXCEPT !.timer = t].conn = r.conn
  BY DEF ReaderType
<2>2. \A s \in Side, i \in Gs : reader[s][i] \in ReaderType
  BY DEF WsInv, WsTypeOK
<2> QED
  BY <2>1, <2>2 DEF Tick
<1>7. \A i \in Gs : dialer'[i].pc = dialer[i].pc
  BY DialerChanges DEF Tick, WsInv, WsTypeOK
<1>8. Calmer
  BY <1>0, <1>4, <1>6 DEF Calmer
<1>9. OneDialer'
  BY <1>7 DEF WsInv, OneDialer
<1>10. DialsAlone'
  BY <1>0, <1>4, <1>5, <1>7, <1>8, CalmerKeeps DEF WsInv, DialsAlone
<1>11. SleepsFirst' /\ CtxIdle' /\ BoundUnderControl'
  BY <1>1, <1>4, <1>5 DEF WsInv, SleepsFirst, CtxIdle, BoundUnderControl
<1>12. Settled'
  BY <1>1, <1>2, <1>3, <1>5, <1>8, CalmerKeeps DEF Settled
<1>13. ReadsControl'
  BY <1>0, <1>4, <1>5, <1>6 DEF WsInv, ReadsControl
<1> QED
  BY <1>8, <1>9, <1>10, <1>11, <1>12, <1>13, CalmerKeeps DEF WsInv

-----------------------------------------------------------------------------
LEMMA InvStep == WsInv /\ [Next]_vars => WsInv'
<1> SUFFICES ASSUME WsInv, [Next]_vars PROVE WsInv'
  OBVIOUS
<1>0. WsTypeOK'
  BY TypeStep DEF WsInv
<1>1. CASE UNCHANGED vars
<2>1. Calmer /\ DialerCalmer /\ UNCHANGED <<control, restart, ctx, bound>>
  BY <1>1 DEF vars, sideVars, Calmer, DialerCalmer, Side
<2> QED
  BY <1>0, <2>1, CalmerInv
<1>2. CASE Urgent
<2>1. ASSUME NEW s \in Side, RestartStep(s) PROVE WsInv'
  BY <1>0, <2>1, RestartBeginInv, RestartSkipInv, RestartCloseInv, RestartFinishInv DEF RestartStep
<2>2. ASSUME NEW s \in Side, NEW i \in Gs, GoroutineStep(s, i) PROVE WsInv'
  BY <1>0, <2>2, ReaderCheckInv, ReaderInv, HandlerInv DEF GoroutineStep
<2>3. ASSUME NEW i \in Gs, DialerStep(i) PROVE WsInv'
  BY <1>0, <2>3, DialerWaitsInv, DialerConnectsInv DEF DialerStep
<2>4. ASSUME NEW k \in Slots, RequestChecks(k) \/ RequestSets(k) PROVE WsInv'
  BY <1>0, <2>4, RequestChecksInv, RequestSetsInv
<2> QED
  BY <1>2, <2>1, <2>2, <2>3, <2>4 DEF Urgent
<1>3. CASE Tick
  BY <1>0, <1>3, TickInv
<1>4. CASE Environment
<2>1. ASSUME NEW s \in Side, Kill(s) PROVE WsInv'
  BY <1>0, <2>1, DeathInv DEF Kill
<2>2. ASSUME NEW s \in Side, Reload(s) PROVE WsInv'
  BY <1>0, <2>2, ReloadInv
<2>3. ASSUME NEW s \in Side, NEW i \in Gs, WriteError(s, i) PROVE WsInv'
  BY <1>0, <2>3, HandlerInv
<2>4. CASE \/ Cut \/ \E s \in Side : SilentLoss(s)
           \/ \E k \in Slots : Detect(k) \/ \E s \in Side : Collect(s, k)
  BY <1>0, <2>4, ConnectionInv
<2> QED
  BY <1>4, <2>1, <2>2, <2>3, <2>4 DEF Environment
<1> QED
  BY <1>1, <1>2, <1>3, <1>4 DEF Next

LEMMA SpecInv == Spec => []WsInv
  BY InvInit, InvStep, PTL DEF Spec

(* Two /channel requests never both find the field nil, and the user ports *)
(* are free when the one that does binds them: the check and the           *)
(* assignment in tunnelListener need no lock as long as clients restart    *)
(* the way this one does.                                                  *)
THEOREM OneControlHolds == Spec => []OneControl
<1>1. WsInv => OneControl
  BY DEF WsInv, OneControl, OneRequest, SetFindsNil, BoundUnderControl
<1> QED
  BY <1>1, SpecInv, PTL

(* channelDialer runs once at a time, over restarts, deaths and reloads of *)
(* both sides, and only while the client has no control channel: Restart   *)
(* never starts one next to another.                                       *)
THEOREM OneDialerHolds ==
    Spec => [](OneDialer /\ \A i \in Gs : dialer[i].pc # "none" => control["client"] = Nil)
<1>1. WsInv => OneDialer /\ \A i \in Gs : dialer[i].pc # "none" => control["client"] = Nil
  BY DEF WsInv, DialsAlone
<1> QED
  BY <1>1, SpecInv, PTL

(* On each side at most one channelHandler runs, and never with the field  *)
(* nil: the write of SG_Closed it ends with, and its heartbeats, find a    *)
(* connection.  (The reading goroutine has no such guarantee.)             *)
THEOREM OneHandlerHolds == Spec => [](OneHandler /\ HandlerHasControl)
<1>1. WsInv => OneHandler /\ HandlerHasControl
  BY DEF WsInv
<1> QED
  BY <1>1, SpecInv, PTL

(* A connection in the field gives way to another one. *)
FieldOverwritten(s) == control[s] # Nil /\ control'[s] # Nil /\ control'[s] # control[s]

(* The controlChannel field of a side is filled only when it is nil and    *)
(* left only for nil: neither a late request nor a late dialer replaces a  *)
(* connection that Restart would then not close.  Nothing in the code      *)
(* looks at what it overwrites (channelDialer not at all, tunnelListener   *)
(* some time before).                                                      *)
THEOREM FieldNeverOverwritten == Spec => [][\A s \in Side : ~FieldOverwritten(s)]_vars
<1>1. ASSUME WsInv, [Next]_vars
      PROVE  [\A s \in Side : ~FieldOverwritten(s)]_vars
<2> SUFFICES ASSUME NEW s \in Side, control[s] # Nil, control'[s] # control[s]
             PROVE  control'[s] = Nil
  BY DEF FieldOverwritten
<2>0. control' # control
  OBVIOUS
<2>1. ASSUME NEW t \in Side, RestartFinish(t) \/ ProcessDies(t) PROVE control'[s] = Nil
  BY <1>1, <2>1 DEF RestartFinish, ProcessDies, WsInv, WsTypeOK
<2>2. ASSUME NEW i \in Gs, NEW k \in Slots, DialerConnects(i, k) PROVE FALSE
  <3>1. control["client"] = Nil /\ control' = [control EXCEPT !["client"] = k]
    BY <1>1, <2>2 DEF DialerConnects, WsInv, DialsAlone
  <3> QED
    BY <1>1, <3>1 DEF WsInv, WsTypeOK
<2>3. ASSUME NEW k \in Slots, RequestSets(k) PROVE FALSE
  <3>1. control["server"] = Nil /\ control' = [control EXCEPT !["server"] = k]
    BY <1>1, <2>3 DEF RequestSets, WsInv, SetFindsNil
  <3> QED
    BY <1>1, <3>1 DEF WsInv, WsTypeOK
<2>4. CASE Urgent
  <3>1. ASSUME NEW t \in Side, RestartStep(t) PROVE control'[s] = Nil
    BY <2>0, <2>1, <3>1 DEF RestartStep, RestartBegin, RestartSkip, RestartClose
  <3>2. ASSUME NEW t \in Side, NEW i \in Gs, GoroutineStep(t, i) PROVE control'[s] = Nil
    BY <2>0, <2>1, <3>2 DEF GoroutineStep, ReaderCheck, ReaderGets, ReaderFails, ReaderWakes,
       ReaderLeaves, HandlerCancelled, HandlerMessage
  <3>3. ASSUME NEW i \in Gs, DialerStep(i) PROVE control'[s] = Nil
    BY <2>0, <2>2, <3>3 DEF DialerStep, DialerTop, DialerRefused, DialerRetries, sideVars
  <3>4. ASSUME NEW k \in Slots, RequestChecks(k) \/ RequestSets(k) PROVE control'[s] = Nil
    BY <2>0, <2>3, <3>4 DEF RequestChecks
  <3> QED
    BY <2>4, <3>1, <3>2, <3>3, <3>4 DEF Urgent
<2>5. CASE Environment
  <3>1. ASSUME NEW t \in Side, Kill(t) PROVE control'[s] = Nil
    BY <2>1, <3>1 DEF Kill
  <3>2. CASE \E t \in Side : Reload(t) \/ \E i \in Gs : WriteError(t, i)
    BY <2>0, <3>2 DEF Reload, WriteError
  <3>3. CASE \/ Cut \/ \E t \in Side : SilentLoss(t)
             \/ \E k \in Slots : Detect(k) \/ \E t \in Side : Collect(t, k)
    BY <2>0, <3>3 DEF Cut, SilentLoss, Detect, Collect, sideVars
  <3> QED
    BY <2>5, <3>1, <3>2, <3>3 DEF Environment
<2>6. ~Tick /\ ~UNCHANGED vars
  BY <2>0 DEF Tick, vars, sideVars
<2> QED
  BY <1>1, <2>4, <2>5, <2>6 DEF Next
<1> QED
  BY <1>1, SpecInv, PTL DEF Spec

=============================================================================
