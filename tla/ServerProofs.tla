---------------------------- MODULE ServerProofs ----------------------------
(***************************************************************************)
(* The server around the sessions, for any number of connections and any   *)
(* UUIDs the vehicles choose: it is a correct use of the registry and, as  *)
(* long as no two connections share a UUID, of the sessions; connectivity  *)
(* events bracket a session; and a drained shutdown has waited for them.   *)
(***************************************************************************)
EXTENDS Server, SocketManagerProofs, FiniteSetTheorems

RegistryResults == INSTANCE SocketRegistryProofs

ServePlaces == {"idle", "request", "upgraded", "registered", "telemetry", "deregistered",
                "done"}

Held == [conn : Conns, op : Op, socket : Conns \cup {NoConn}]

(* One record at a time on each unbuffered path. *)
PathInv ==
    /\ sendingAck \in [Conns -> Seq(Op)] /\ \A c \in Conns : Len(sendingAck[c]) <= 1
    /\ inflight \subseteq OwedRecords /\ stored \subseteq OwedRecords
    /\ kafkaEvent \in Seq(OwedRecords) /\ Len(kafkaEvent) <= 1 /\ Range(kafkaEvent) \subseteq stored
    /\ handler \in Seq(Held) /\ Len(handler) <= 1

ShutdownInv ==
    /\ phase \in {"serving", "stopping", "closing", "drained", "timedOut", "failed"}
    /\ toClose \subseteq Conns
    /\ expired \in BOOLEAN /\ closed \in BOOLEAN /\ exited \in BOOLEAN

(* The registry is in a state of its own specification. *)
MapInv == RegistryResults!RegistryInv

TypeInv ==
    /\ TypeOK /\ PathInv /\ ShutdownInv
    /\ serve \in [Conns -> ServePlaces]
    /\ events \in [Conns -> Seq({"CONNECTED", "DISCONNECTED"})]
----------------------------------------------------------------------------
(* The registry.                                                           *)

LEMMA RegistryMoves ==
    ASSUME serve \in [Conns -> ServePlaces], [ServerNext]_serverVars
    PROVE  [Registry!RegistryNext]_(Registry!registryVars)
<1>1. ASSUME NEW c \in Conns, registerSocket(c) PROVE Registry!Register(c)
  BY <1>1 DEF registerSocket, Registry!Register, registered
<1>2. ASSUME NEW c \in Conns, deregisterSocket(c) PROVE Registry!Deregister(c)
  BY <1>2 DEF deregisterSocket, Registry!Deregister, registered
<1>3. CASE UNCHANGED <<registered, sockets, counter>>
  BY <1>3 DEF Registry!registryVars
<1>4. ASSUME NEW c \in Conns, Accept(c) \/ Upgrade(c) \/ Reject(c)
      PROVE  UNCHANGED <<registered, sockets, counter>>
  BY <1>4 DEF Accept, Upgrade, Reject, registered, registryPart, ServePlaces
<1>5. ASSUME NEW c \in Conns, EventConnected(c) \/ EventDisconnected(c)
      PROVE  UNCHANGED <<registered, sockets, counter>>
  BY <1>5 DEF EventConnected, EventDisconnected, registered, registryPart, ServePlaces
<1>6. ASSUME NEW c \in Conns,
             SessionStep(c) \/ ProduceUnacknowledged(c) \/ ProduceAccepted(c)
      PROVE  UNCHANGED <<registered, sockets, counter>>
  BY <1>6 DEF SessionStep, ProduceUnacknowledged, ProduceAccepted, registered, registryPart
<1>7. ASSUME DeliveryReport \/ handleAcks
      PROVE  UNCHANGED <<registered, sockets, counter>>
  BY <1>7 DEF DeliveryReport, handleAcks, ReceiveAckFromReader, ReceiveAckFromKafka,
              HandlerFindsSocket, HandlerMisses, HandlerResponds, registered, registryPart
<1>8. ASSUME ShutdownSignal \/ ListenerFails \/ DrainTimeout \/ gracefulShutdown
      PROVE  UNCHANGED <<registered, sockets, counter>>
  BY <1>8 DEF ShutdownSignal, ListenerFails, DrainTimeout, gracefulShutdown, CloseAllSockets,
              waitForSocketsDrain, CloseProducers, Exit, RequestClose, registered, registryPart
<1>9. CASE UNCHANGED serverVars
  BY <1>3, <1>9 DEF serverVars, registryPart, registered
<1>10. CASE ServerNext
  BY <1>1, <1>2, <1>3, <1>4, <1>5, <1>6, <1>7, <1>8, <1>10
  DEF ServerNext, ServeBinaryWs, Registry!RegistryNext
<1> QED
  BY <1>9, <1>10

(* The results about the registry, with the registry's own assumption. *)
LEMMA RegistryFacts == /\ RegistryResults!IsFiniteSet(Conns) /\ DOMAIN UUID = Conns
                       /\ IsFiniteSet(Conns)
BY ServerAssumption DEF RegistryResults!IsFiniteSet, IsFiniteSet

LEMMA MapStep ==
    ASSUME MapInv, serve \in [Conns -> ServePlaces], [ServerNext]_serverVars
    PROVE  MapInv'
<1>1. ASSUME NEW c \in Conns, Registry!Register(c) PROVE MapInv'
  <2>1. RegistryResults!Register(c)
    BY <1>1 DEF Registry!Register, Registry!RegisterSocket, Registry!Put,
                RegistryResults!Register, RegistryResults!RegisterSocket, RegistryResults!Put
  <2> QED
    BY <2>1, RegistryFacts, RegistryResults!RegisterPreserves DEF MapInv
<1>2. ASSUME NEW c \in Conns, Registry!Deregister(c) PROVE MapInv'
  <2>1. RegistryResults!Deregister(c)
    BY <1>2 DEF Registry!Deregister, Registry!DeregisterSocket, Registry!Restrict,
                RegistryResults!Deregister, RegistryResults!DeregisterSocket,
                RegistryResults!Restrict
  <2> QED
    BY <2>1, RegistryFacts, RegistryResults!DeregisterPreserves DEF MapInv
<1>3. CASE UNCHANGED <<sockets, counter, registered>>
  BY <1>3 DEF MapInv, RegistryResults!RegistryInv, RegistryResults!RegistryConsistent,
              RegistryResults!CounterIsExact, RegistryResults!NoStaleSocket,
              RegistryResults!MapIsComplete
<1> QED
  BY <1>1, <1>2, <1>3, RegistryMoves DEF Registry!RegistryNext, Registry!registryVars

LEMMA MapInit == ServerInit => MapInv
<1> SUFFICES ASSUME ServerInit PROVE MapInv
  OBVIOUS
<1>1. sockets = << >> /\ counter = 0 /\ registered = {}
  BY DEF ServerInit, Registry!RegistryInit, registered
<1>2. RegistryResults!Cardinality({}) = 0
  BY FS_EmptySet DEF Cardinality, RegistryResults!Cardinality
<1> QED
  BY <1>1, <1>2
  DEF MapInv, RegistryResults!RegistryInv, RegistryResults!RegistryConsistent,
      RegistryResults!CounterIsExact, RegistryResults!NoStaleSocket,
      RegistryResults!MapIsComplete

(* The counter, and what it says when it is zero. *)
LEMMA MapBounds ==
    ASSUME MapInv
    PROVE  /\ counter \in 0 .. Cardinality(Conns)
           /\ counter = Cardinality(registered)
           /\ counter = 0 => registered = {}
           /\ \A u \in DOMAIN sockets : sockets[u] \in registered /\ UUID[sockets[u]] = u
           /\ Range(sockets) \subseteq registered
<1>1. /\ registered \subseteq Conns /\ counter = Cardinality(registered)
      /\ \A u \in DOMAIN sockets : sockets[u] \in registered /\ UUID[sockets[u]] = u
  BY DEF MapInv, RegistryResults!RegistryInv, RegistryResults!RegistryConsistent,
         RegistryResults!CounterIsExact, RegistryResults!NoStaleSocket, Cardinality, RegistryResults!Cardinality
<1>2. /\ IsFiniteSet(registered) /\ Cardinality(registered) <= Cardinality(Conns)
      /\ Cardinality(registered) \in Nat /\ Cardinality(Conns) \in Nat
  BY <1>1, RegistryFacts, FS_Subset, FS_CardinalityType
<1>3. counter = 0 => registered = {}
  BY <1>1, <1>2, FS_EmptySet
<1> QED
  BY <1>1, <1>2, <1>3 DEF Range

----------------------------------------------------------------------------
(* The sessions.                                                           *)

(* A step of the server is a step of one session, or of none; only for
   HandlerResponds does that depend on whose socket handleAcks found. *)
LEMMA SessionMoves ==
    ASSUME TypeInv, ServerNext, ~HandlerResponds
    PROVE  [Next]_vars
<1> USE DEF sessionVars
<1>1. ASSUME NEW c \in Conns, Accept(c) \/ ServeBinaryWs(c) PROVE UNCHANGED vars
  BY <1>1 DEF Accept, ServeBinaryWs, Upgrade, Reject, registerSocket, EventConnected,
              deregisterSocket, EventDisconnected
<1>2. ASSUME NEW c \in Conns, SessionStep(c) PROVE Next
  BY <1>2 DEF SessionStep, ReaderStep, Next, Reader, ProcessMessage, Outside
<1>3. ASSUME NEW c \in Conns, ProduceUnacknowledged(c) \/ ProduceAccepted(c) PROVE Next
  BY <1>3 DEF ProduceUnacknowledged, ProduceAccepted, Next, Reader, ProcessMessage
<1>4. ASSUME NEW c \in Conns, NEW op, ackDue' = [ackDue EXCEPT ![c] = @ \ {op}],
             UNCHANGED <<readerVars, writerVars, writeChan, ws, deadline, stopped, reasonVars>>
      PROVE  [Next]_vars
  <2>1. CASE op \in ackDue[c]
    BY <1>4, <2>1 DEF AckNeverComes, Outside, Next
  <2>2. CASE op \notin ackDue[c]
    <3>1. ackDue \in [Conns -> SUBSET Op]
      BY DEF TypeInv, TypeOK
    <3>2. ackDue[c] \ {op} = ackDue[c]
      BY <2>2
    <3>3. ackDue' = ackDue
      BY <1>4, <3>1, <3>2
    <3> QED
      BY <1>4, <3>3 DEF vars, readerVars, writerVars, reasonVars
  <2> QED
    BY <2>1, <2>2
<1>5. CASE DeliveryReport
  <2> PICK r \in inflight :
          \/ UNCHANGED sessionVars
          \/ /\ ackDue' = [ackDue EXCEPT ![r.conn] = @ \ {r.op}]
             /\ UNCHANGED <<readerVars, writerVars, writeChan, ws, deadline, stopped,
                            reasonVars>>
    BY <1>5 DEF DeliveryReport
  <2>1. r.conn \in Conns
    BY DEF TypeInv, PathInv, OwedRecords
  <2> QED
    BY <1>4, <2>1
<1>6. CASE HandlerMisses
  <2> DEFINE r == Head(handler)
  <2>1. handler # <<>> /\ ackDue' = [ackDue EXCEPT ![r.conn] = @ \ {r.op}]
    BY <1>6 DEF HandlerMisses, Looking
  <2>2. UNCHANGED <<readerVars, writerVars, writeChan, ws, deadline, stopped, reasonVars>>
    BY <1>6 DEF HandlerMisses
  <2>3. r \in Held
    BY <2>1 DEF TypeInv, PathInv
  <2>4. r.conn \in Conns
    BY <2>3 DEF Held
  <2> QED
    BY <1>4, <2>1, <2>2, <2>4
<1>7. ASSUME \/ \E c \in Conns : ReceiveAckFromReader(c)
             \/ ReceiveAckFromKafka \/ HandlerFindsSocket
      PROVE  UNCHANGED vars
  BY <1>7 DEF ReceiveAckFromReader, ReceiveAckFromKafka, HandlerFindsSocket
<1>8. ASSUME \/ ShutdownSignal \/ ListenerFails \/ DrainTimeout
             \/ CloseAllSockets \/ waitForSocketsDrain \/ CloseProducers \/ Exit
      PROVE  UNCHANGED vars
  BY <1>8 DEF ShutdownSignal, ListenerFails, DrainTimeout, CloseAllSockets,
              waitForSocketsDrain, CloseProducers, Exit
<1>9. ASSUME NEW c \in Conns, RequestClose(c) PROVE Next
  BY <1>9 DEF RequestClose, Next, Outside
<1> QED
  BY <1>1, <1>2, <1>3, <1>5, <1>6, <1>7, <1>8, <1>9 DEF ServerNext, handleAcks, gracefulShutdown

(* The answer HandlerResponds gives is well formed, on whatever socket. *)
LEMMA RespondsTyped ==
    ASSUME TypeInv, HandlerResponds
    PROVE  TypeOK'
<1> DEFINE r == Head(handler)
           answer == [kind |-> "ack", msg |-> r.op.msg, txType |-> r.op.txType]
<1>1. /\ handler # <<>> /\ r.socket # NoConn
      /\ respondToVehicle(r.socket, answer)
      /\ ackDue' = [ackDue EXCEPT ![r.conn] = @ \ {r.op}]
      /\ UNCHANGED <<readerVars, writerVars, ws, deadline, stopped, reasonVars>>
  BY DEF HandlerResponds, Looking
<1>2. r \in Held
  BY <1>1 DEF TypeInv, PathInv
<1>3. r.socket \in Conns /\ r.conn \in Conns /\ r.op \in Op
  BY <1>1, <1>2 DEF Held
<1>4. answer \in SocketMessage
  BY <1>3 DEF Op, SocketMessage, Answers
<1>5. TypeOK
  BY DEF TypeInv
<1>6. /\ writeChan' \in [Conns -> Seq(SocketMessage)]
      /\ \A d \in Conns : Len(writeChan'[d]) <= WriteCap
  <2> HIDE DEF r, answer
  <2>1. writeChan' = [writeChan EXCEPT ![r.socket] = Append(@, answer)]
    BY <1>1 DEF respondToVehicle
  <2>2. Len(writeChan[r.socket]) < WriteCap
    BY <1>1 DEF respondToVehicle
  <2> QED
    BY <1>3, <1>4, <1>5, <2>1, <2>2, SocketAssumption DEF TypeOK
<1>7. ackDue' \in [Conns -> SUBSET Op]
  BY <1>1, <1>5 DEF TypeOK
<1> QED
  BY <1>1, <1>5, <1>6, <1>7 DEF readerVars, writerVars, reasonVars, TypeOK

LEMMA TypeInvInit == ServerInit => TypeInv
<1> SUFFICES ASSUME ServerInit PROVE TypeInv
  OBVIOUS
<1>1. TypeOK
  BY TypeInit DEF ServerInit
<1>2. PathInv
  BY DEF ServerInit, PathInv, Range
<1>3. ShutdownInv
  BY DEF ServerInit, ShutdownInv
<1> QED
  BY <1>1, <1>2, <1>3 DEF ServerInit, TypeInv, ServePlaces

LEMMA PathStep ==
    ASSUME TypeInv, MapInv, ServerNext
    PROVE  PathInv'
<1> USE DEF PathInv
<1>1. PathInv /\ todo \in [Conns -> Seq(Op)]
  BY DEF TypeInv, TypeOK
<1>2. CASE UNCHANGED ackVars
  BY <1>1, <1>2 DEF ackVars, Range
<1>3. ASSUME NEW c \in Conns, ProduceAccepted(c) PROVE PathInv'
  <2> DEFINE op == Head(todo[c])
             r == [conn |-> c, op |-> op]
  <2>1. todo[c] # <<>> /\ UNCHANGED <<kafkaEvent, handler>>
    BY <1>3 DEF ProduceAccepted, Produce
  <2>2. op \in Op /\ r \in OwedRecords
    BY <1>1, <2>1 DEF OwedRecords
  <2>3. \/ inflight' = inflight \cup {r} /\ UNCHANGED <<sendingAck, stored>>
        \/ /\ sendingAck' = [sendingAck EXCEPT ![c] = <<op>>]
           /\ stored' = stored \cup {r} /\ UNCHANGED inflight
    BY <1>3 DEF ProduceAccepted
  <2>4. inflight' \subseteq OwedRecords /\ stored' \subseteq OwedRecords /\ stored \subseteq stored'
    BY <1>1, <2>2, <2>3
  <2>5. sendingAck' \in [Conns -> Seq(Op)] /\ \A d \in Conns : Len(sendingAck'[d]) <= 1
    <3>1. CASE sendingAck' = [sendingAck EXCEPT ![c] = <<op>>]
      <4>1. <<op>> \in Seq(Op) /\ Len(<<op>>) = 1
        BY <2>2
      <4> HIDE DEF op
      <4> QED
        BY <1>1, <3>1, <4>1
    <3> QED
      BY <1>1, <2>3, <3>1
  <2> QED
    BY <1>1, <2>1, <2>4, <2>5 DEF Range
<1>4. CASE DeliveryReport
  <2> PICK r \in inflight :
          /\ inflight' = inflight \ {r}
          /\ \/ kafkaEvent' = <<r>> /\ stored' = stored \cup {r}
             \/ UNCHANGED <<kafkaEvent, stored>>
    BY <1>4 DEF DeliveryReport
  <2>1. UNCHANGED <<sendingAck, handler>>
    BY <1>4 DEF DeliveryReport
  <2>2. r \in OwedRecords
    BY <1>1
  <2>3. Range(<<r>>) = {r}
    BY DEF Range
  <2>4. /\ kafkaEvent' \in Seq(OwedRecords) /\ Len(kafkaEvent') <= 1
        /\ Range(kafkaEvent') \subseteq stored'
    <3>1. CASE kafkaEvent' = <<r>> /\ stored' = stored \cup {r}
      BY <2>2, <2>3, <3>1
    <3>2. CASE UNCHANGED <<kafkaEvent, stored>>
      BY <1>1, <3>2
    <3> QED
      BY <3>1, <3>2
  <2>5. Range(kafkaEvent)' = Range(kafkaEvent')
    BY DEF Range
  <2> QED
    BY <1>1, <2>1, <2>2, <2>4, <2>5
<1>5. ASSUME NEW r \in OwedRecords, handler' = Holding(r) PROVE handler' \in Seq(Held) /\ Len(handler') <= 1
  BY <1>5 DEF Holding, Held, OwedRecords
<1>6. ASSUME NEW c \in Conns, ReceiveAckFromReader(c) PROVE PathInv'
  <2>1. /\ sendingAck[c] # <<>> /\ UNCHANGED <<inflight, kafkaEvent, stored>>
        /\ handler' = Holding([conn |-> c, op |-> Head(sendingAck[c])])
        /\ sendingAck' = [sendingAck EXCEPT ![c] = <<>>]
    BY <1>6 DEF ReceiveAckFromReader
  <2>2. [conn |-> c, op |-> Head(sendingAck[c])] \in OwedRecords
    BY <1>1, <2>1 DEF OwedRecords
  <2>3. handler' \in Seq(Held) /\ Len(handler') <= 1
    BY <1>5, <2>1, <2>2
  <2> QED
    BY <1>1, <2>1, <2>3 DEF Range
<1>7. CASE ReceiveAckFromKafka
  <2>1. /\ kafkaEvent # <<>> /\ UNCHANGED <<sendingAck, inflight, stored>>
        /\ handler' = Holding(Head(kafkaEvent)) /\ kafkaEvent' = <<>>
    BY <1>7 DEF ReceiveAckFromKafka
  <2>2. handler' \in Seq(Held) /\ Len(handler') <= 1
    BY <1>1, <1>5, <2>1
  <2> QED
    BY <1>1, <2>1, <2>2 DEF Range
<1>8. CASE HandlerFindsSocket
  <2> DEFINE h == Head(handler)
             s == Registry!GetSocket(UUID[h.conn])
  <2>1. /\ handler # <<>> /\ Registry!Connected(UUID[h.conn])
        /\ handler' = <<[h EXCEPT !.socket = s]>>
        /\ UNCHANGED <<sendingAck, inflight, kafkaEvent, stored>>
    BY <1>8 DEF HandlerFindsSocket, Looking
  <2>2. h \in Held
    BY <1>1, <2>1
  <2>3. s \in Conns
    BY <2>1, MapBounds DEF Registry!Connected, Registry!GetSocket, registered
  <2>4. [h EXCEPT !.socket = s] \in Held
    BY <2>2, <2>3 DEF Held
  <2>5. handler' \in Seq(Held) /\ Len(handler') <= 1
    BY <2>1, <2>4
  <2> QED
    BY <1>1, <2>1, <2>5 DEF Range
<1>9. CASE HandlerMisses \/ HandlerResponds
  <2>1. handler' = <<>> /\ UNCHANGED <<sendingAck, inflight, kafkaEvent, stored>>
    BY <1>9 DEF HandlerMisses, HandlerResponds
  <2> QED
    BY <1>1, <2>1 DEF Range
<1>10. ASSUME NEW c \in Conns,
              Accept(c) \/ ServeBinaryWs(c) \/ SessionStep(c) \/ ProduceUnacknowledged(c)
       PROVE  UNCHANGED ackVars
  BY <1>10 DEF Accept, ServeBinaryWs, Upgrade, Reject, registerSocket, EventConnected,
               deregisterSocket, EventDisconnected, SessionStep, ProduceUnacknowledged
<1>11. ASSUME ShutdownSignal \/ ListenerFails \/ DrainTimeout \/ gracefulShutdown
       PROVE  UNCHANGED ackVars
  BY <1>11 DEF ShutdownSignal, ListenerFails, DrainTimeout, gracefulShutdown, CloseAllSockets,
               waitForSocketsDrain, CloseProducers, Exit, RequestClose
<1> QED
  BY <1>2, <1>3, <1>4, <1>6, <1>7, <1>8, <1>9, <1>10, <1>11 DEF ServerNext, handleAcks

----------------------------------------------------------------------------
(* Where a session is while its handler is in ServeBinaryWs.               *)

(* The connectivity events a handler has produced by now. *)
EventsSoFar(c) ==
    IF ~EventsRouted THEN <<>>
    ELSE CASE serve[c] \in {"telemetry", "deregistered"} -> <<"CONNECTED">>
           [] serve[c] = "done" /\ pc[c] = "returned"    -> <<"CONNECTED", "DISCONNECTED">>
           [] OTHER                                      -> <<>>

(***************************************************************************)
(* The reader runs only between the CONNECTED event and deregistration; a  *)
(* record is on its way through it only inside the read loop; it returns   *)
(* with its disconnection logged; and the drain asks only sockets that     *)
(* were registered, which are gone only when their reader has returned.    *)
(***************************************************************************)
SessionInv(c) ==
    /\ serve[c] \in {"idle", "request", "upgraded", "registered"} => pc[c] = "new"
    /\ serve[c] = "deregistered" => pc[c] = "returned"
    /\ serve[c] = "done" => pc[c] \in {"new", "returned"}
    /\ pc[c] # "loop" => todo[c] = <<>> /\ sendingAck[c] = <<>>
    /\ pc[c] \in {"stop", "returned"} => logged[c] # "notLogged"
    /\ events[c] = EventsSoFar(c)
    /\ c \in toClose \/ closer[c] # "idle" =>
          \/ serve[c] \in {"registered", "telemetry", "deregistered"}
          \/ serve[c] = "done" /\ pc[c] = "returned"

(* The drain ended because nobody was registered any more. *)
DrainInv ==
    phase = "drained" => toClose = {} /\ \A c \in Conns : closer[c] # "idle" => c \notin registered

ServerInv ==
    /\ TypeInv /\ MapInv
    /\ \A c \in Conns : SessionInv(c)
    /\ DrainInv

LEMMA AppendOne == ASSUME NEW a, NEW b PROVE Append(<<a>>, b) = <<a, b>>
<1> DEFINE s == Append(<<a>>, b)
           t == <<a, b>>
<1>1. <<a>> \in Seq({a, b}) /\ Len(<<a>>) = 1
  OBVIOUS
<1>2. s \in Seq({a, b}) /\ Len(s) = 2 /\ s[1] = a /\ s[2] = b
  BY <1>1
<1>3. t \in Seq({a, b}) /\ Len(t) = 2 /\ t[1] = a /\ t[2] = b
  OBVIOUS
<1> HIDE DEF s, t
<1>4. s = t
  BY <1>2, <1>3
<1> QED
  BY <1>4 DEF s, t

(* A step of the handler of one connection leaves its session alone. *)
LEMMA ServeKeepsSessions ==
    ASSUME TypeInv, \A d \in Conns : SessionInv(d), NEW c \in Conns,
           Accept(c) \/ ServeBinaryWs(c), NEW d \in Conns
    PROVE  SessionInv(d)'
<1> USE DEF sessionVars, vars, ackVars, shutdownVars
<1>1. /\ serve \in [Conns -> ServePlaces]
      /\ events \in [Conns -> Seq({"CONNECTED", "DISCONNECTED"})]
      /\ SessionInv(c) /\ SessionInv(d)
  BY DEF TypeInv
<1>2. UNCHANGED <<pc, todo, sendingAck, logged, toClose, closer>>
  BY DEF Accept, ServeBinaryWs, Upgrade, Reject, registerSocket, EventConnected,
         deregisterSocket, EventDisconnected
<1>3. ASSUME Accept(c) \/ Upgrade(c) \/ Reject(c) \/ registerSocket(c) PROVE SessionInv(d)'
  BY <1>1, <1>2, <1>3 DEF Accept, Upgrade, Reject, registerSocket, SessionInv, EventsSoFar
<1>4. CASE EventConnected(c)
  BY <1>1, <1>2, <1>4 DEF EventConnected, dispatchConnectivityEvent, SessionInv, EventsSoFar
<1>5. CASE deregisterSocket(c)
  BY <1>1, <1>2, <1>5 DEF deregisterSocket, SessionInv, EventsSoFar
<1>6. CASE EventDisconnected(c)
  <2>1. serve[c] = "deregistered" /\ serve' = [serve EXCEPT ![c] = "done"] /\ pc[c] = "returned"
    BY <1>1, <1>6 DEF EventDisconnected, SessionInv
  <2>2. CASE ~EventsRouted
    BY <1>1, <1>2, <1>6, <2>1, <2>2
    DEF EventDisconnected, dispatchConnectivityEvent, SessionInv, EventsSoFar
  <2>3. CASE EventsRouted
    <3>1. events[c] = <<"CONNECTED">>
      BY <1>1, <2>1, <2>3 DEF SessionInv, EventsSoFar
    <3>2. events' = [events EXCEPT ![c] = Append(events[c], "DISCONNECTED")]
      BY <1>6, <2>3 DEF EventDisconnected, dispatchConnectivityEvent
    <3>3. Append(<<"CONNECTED">>, "DISCONNECTED") = <<"CONNECTED", "DISCONNECTED">>
      BY AppendOne
    <3>4. /\ events'[c] = <<"CONNECTED", "DISCONNECTED">>
          /\ d # c => events'[d] = events[d]
      BY <1>1, <3>1, <3>2, <3>3
    <3> QED
      BY <1>1, <1>2, <2>1, <2>3, <3>4 DEF SessionInv, EventsSoFar
  <2> QED
    BY <2>2, <2>3
<1> QED
  BY <1>3, <1>4, <1>5, <1>6 DEF ServeBinaryWs

(* A step of the goroutines of one session. *)
LEMMA SessionsKeepPlaces ==
    ASSUME TypeInv, \A d \in Conns : SessionInv(d), NEW c \in Conns,
           SessionStep(c) \/ ProduceUnacknowledged(c) \/ ProduceAccepted(c), NEW d \in Conns
    PROVE  SessionInv(d)'
<1> USE DEF sessionVars, vars, readerVars, writerVars, reasonVars
<1>1. /\ pc \in [Conns -> {"new", "loop", "close", "log", "stop", "returned"}]
      /\ todo \in [Conns -> Seq(Op)] /\ sendingAck \in [Conns -> Seq(Op)]
      /\ closeReason \in [Conns -> Reasons \cup {NoReason}]
      /\ logged \in [Conns -> Reasons \cup {NoReason, "notLogged"}]
      /\ SessionInv(c) /\ SessionInv(d)
  BY DEF TypeInv, TypeOK, PathInv
<1>2. UNCHANGED <<serve, events, toClose>>
  BY DEF SessionStep, ProduceUnacknowledged, ProduceAccepted, shutdownVars
<1>3. ASSUME SessionStep(c), UNCHANGED <<pc, todo, logged, closer>> PROVE SessionInv(d)'
  BY <1>1, <1>2, <1>3 DEF SessionStep, ackVars, SessionInv, EventsSoFar
<1>4. ASSUME SessionStep(c), Writer(c) \/ Drop(c) PROVE SessionInv(d)'
  <2>1. UNCHANGED <<pc, todo, logged, closer>>
    BY <1>4 DEF Writer, Write, WriterTake, WriterStop, WriteOk, WriteError, WriterExit, Drop
  <2> QED
    BY <1>3, <1>4, <2>1
<1>5. ASSUME SessionStep(c), Running(c), ReaderStep(c) PROVE SessionInv(d)'
  <2>0. UNCHANGED sendingAck /\ serve[c] = "telemetry" /\ sendingAck[c] = <<>>
    BY <1>5 DEF SessionStep, Running, ackVars
  <2>1. CASE StartProcessTelemetry(c)
    BY <1>1, <1>2, <2>0, <2>1 DEF StartProcessTelemetry, SessionInv, EventsSoFar
  <2>2. CASE ReadMessage(c)
    <3>1. /\ pc[c] = "loop" /\ UNCHANGED <<pc, logged, closer>>
          /\ d # c => todo'[d] = todo[d]
      BY <1>1, <2>2 DEF ReadMessage, AtReadMessage
    <3> QED
      BY <1>1, <1>2, <2>0, <3>1 DEF SessionInv, EventsSoFar
  <2>3. CASE ReadError(c)
    <3>1. /\ pc[c] = "loop" /\ todo[c] = <<>> /\ pc' = [pc EXCEPT ![c] = "close"]
          /\ UNCHANGED <<todo, logged, closer>>
      BY <2>3 DEF ReadError, AtReadMessage
    <3> QED
      BY <1>1, <1>2, <2>0, <3>1 DEF SessionInv, EventsSoFar
  <2>4. CASE ReadWrongType(c)
    <3>1. /\ pc[c] = "loop" /\ todo[c] = <<>> /\ pc' = [pc EXCEPT ![c] = "close"]
          /\ UNCHANGED <<todo, logged, closer>>
      BY <2>4 DEF ReadWrongType, AtReadMessage
    <3> QED
      BY <1>1, <1>2, <2>0, <3>1 DEF SessionInv, EventsSoFar
  <2>5. CASE ReaderResponds(c)
    <3>1. /\ pc[c] = "loop" /\ UNCHANGED <<pc, logged, closer>>
          /\ d # c => todo'[d] = todo[d]
      BY <1>1, <2>5 DEF ReaderResponds
    <3> QED
      BY <1>1, <1>2, <2>0, <3>1 DEF SessionInv, EventsSoFar
  <2>6. CASE CloseWs(c)
    <3>1. /\ pc[c] = "close" /\ pc' = [pc EXCEPT ![c] = "log"]
          /\ UNCHANGED <<todo, logged, closer>>
      BY <2>6 DEF CloseWs
    <3> QED
      BY <1>1, <1>2, <2>0, <3>1 DEF SessionInv, EventsSoFar
  <2>7. CASE LogDisconnected(c)
    <3>1. /\ pc[c] = "log" /\ pc' = [pc EXCEPT ![c] = "stop"]
          /\ logged' = [logged EXCEPT ![c] = closeReason[c]]
          /\ UNCHANGED <<todo, closer>>
      BY <2>7 DEF LogDisconnected
    <3>2. closeReason[c] # "notLogged"
      BY <1>1 DEF Reasons, NoReason
    <3> QED
      BY <1>1, <1>2, <2>0, <3>1, <3>2 DEF SessionInv, EventsSoFar
  <2>8. CASE CloseStopChan(c)
    <3>1. /\ pc[c] = "stop" /\ pc' = [pc EXCEPT ![c] = "returned"]
          /\ UNCHANGED <<todo, logged, closer>>
      BY <2>8 DEF CloseStopChan
    <3> QED
      BY <1>1, <1>2, <2>0, <3>1 DEF SessionInv, EventsSoFar
  <2> QED
    BY <1>5, <2>1, <2>2, <2>3, <2>4, <2>5, <2>6, <2>7, <2>8 DEF ReaderStep, Teardown
<1>6. ASSUME ProduceUnacknowledged(c) \/ ProduceAccepted(c) PROVE SessionInv(d)'
  <2>1. /\ pc[c] = "loop" /\ UNCHANGED <<pc, logged, closer>> /\ serve[c] = "telemetry"
        /\ d # c => todo'[d] = todo[d] /\ sendingAck'[d] = sendingAck[d]
    BY <1>1, <1>6 DEF ProduceUnacknowledged, ProduceAccepted, Produce, Running, ackVars
  <2> QED
    BY <1>1, <1>2, <2>1 DEF SessionInv, EventsSoFar
<1> QED
  BY <1>4, <1>5, <1>6 DEF SessionStep

(* A step of the delivery goroutine or of handleAcks. *)
LEMMA AcksKeepPlaces ==
    ASSUME TypeInv, \A d \in Conns : SessionInv(d), DeliveryReport \/ handleAcks,
           NEW d \in Conns
    PROVE  SessionInv(d)'
<1> USE DEF sessionVars, vars, readerVars, writerVars, reasonVars
<1>1. UNCHANGED <<serve, events, toClose, pc, todo, logged, closer>>
  BY DEF DeliveryReport, handleAcks, ReceiveAckFromReader, ReceiveAckFromKafka,
         HandlerFindsSocket, HandlerMisses, HandlerResponds, shutdownVars
<1>2. sendingAck[d] = <<>> => sendingAck'[d] = <<>>
  BY DEF DeliveryReport, handleAcks, ReceiveAckFromReader, ReceiveAckFromKafka,
         HandlerFindsSocket, HandlerMisses, HandlerResponds, TypeInv, PathInv
<1>3. SessionInv(d)
  OBVIOUS
<1> QED
  BY <1>1, <1>2, <1>3 DEF SessionInv, EventsSoFar

(* A step of the shutdown: the snapshot holds registered sockets only. *)
LEMMA ShutdownKeepsPlaces ==
    ASSUME TypeInv, MapInv, \A d \in Conns : SessionInv(d),
           ShutdownSignal \/ ListenerFails \/ DrainTimeout \/ gracefulShutdown, NEW d \in Conns
    PROVE  SessionInv(d)'
<1> USE DEF sessionVars, vars, readerVars, writerVars, reasonVars, ackVars
<1>1. SessionInv(d) /\ closer \in [Conns -> {"idle", "recorded", "done"}]
  BY DEF TypeInv, TypeOK
<1>2. UNCHANGED <<serve, events, pc, todo, logged, sendingAck>>
  BY DEF ShutdownSignal, ListenerFails, DrainTimeout, gracefulShutdown, CloseAllSockets,
         waitForSocketsDrain, CloseProducers, Exit, RequestClose, RecordShutdown, CloseForShutdown
<1>3. CASE CloseAllSockets
  <2>1. toClose' \subseteq registered /\ UNCHANGED closer
    BY <1>3, MapBounds DEF CloseAllSockets, Registry!Snapshot, Registry!Range, Range
  <2> QED
    BY <1>1, <1>2, <2>1 DEF SessionInv, EventsSoFar, registered
<1>4. ASSUME NEW c \in Conns, RequestClose(c) PROVE SessionInv(d)'
  <2>1. c \in toClose /\ toClose' \subseteq toClose /\ SessionInv(c)
    BY <1>4 DEF RequestClose
  <2>2. d # c => closer'[d] = closer[d]
    BY <1>1, <1>4 DEF RequestClose, RecordShutdown, CloseForShutdown
  <2> QED
    BY <1>1, <1>2, <2>1, <2>2 DEF SessionInv, EventsSoFar
<1>5. CASE UNCHANGED <<toClose, closer>>
  BY <1>1, <1>2, <1>5 DEF SessionInv, EventsSoFar
<1>6. ASSUME \/ ShutdownSignal \/ ListenerFails \/ DrainTimeout
             \/ waitForSocketsDrain \/ CloseProducers \/ Exit
      PROVE  UNCHANGED <<toClose, closer>>
  BY <1>6 DEF ShutdownSignal, ListenerFails, DrainTimeout, waitForSocketsDrain, CloseProducers,
              Exit
<1> QED
  BY <1>3, <1>4, <1>5, <1>6 DEF gracefulShutdown

LEMMA DrainStep ==
    ASSUME ServerInv, ServerNext
    PROVE  ShutdownInv' /\ DrainInv'
<1> USE DEF sessionVars, vars, shutdownVars
<1>1. /\ ShutdownInv /\ DrainInv /\ MapInv /\ serve \in [Conns -> ServePlaces]
      /\ Range(sockets) \subseteq registered /\ (counter = 0 => registered = {})
      /\ registered \subseteq Conns
  BY MapBounds DEF ServerInv, TypeInv, registered
<1>2. ASSUME UNCHANGED <<phase, toClose, expired, closed, exited, closer>>,
             \A d \in Conns : closer[d] # "idle" /\ d \notin registered => d \notin registered'
      PROVE  ShutdownInv' /\ DrainInv'
  BY <1>1, <1>2 DEF ShutdownInv, DrainInv
<1>3. ASSUME NEW c \in Conns, Accept(c) \/ ServeBinaryWs(c) PROVE ShutdownInv' /\ DrainInv'
  <2>1. UNCHANGED <<phase, toClose, expired, closed, exited, closer>>
    BY <1>3 DEF Accept, ServeBinaryWs, Upgrade, Reject, registerSocket, EventConnected,
                deregisterSocket, EventDisconnected
  <2>2. registerSocket(c) => closer[c] = "idle" /\ serve' = [serve EXCEPT ![c] = "registered"]
    BY DEF registerSocket, ServerInv, SessionInv
  <2>3. ~registerSocket(c) => \A d \in Conns : d \notin registered => d \notin registered'
    BY <1>1, <1>3 DEF Accept, ServeBinaryWs, Upgrade, Reject, EventConnected, deregisterSocket,
                      EventDisconnected, registered
  <2>4. registerSocket(c) => \A d \in Conns : d # c /\ d \notin registered => d \notin registered'
    BY <1>1, <2>2 DEF registered
  <2> QED
    BY <1>2, <2>1, <2>2, <2>3, <2>4
<1>4. ASSUME UNCHANGED <<shutdownVars, serve, closer>> PROVE ShutdownInv' /\ DrainInv'
  BY <1>2, <1>4 DEF registered
<1>5. ASSUME NEW c \in Conns,
             SessionStep(c) \/ ProduceUnacknowledged(c) \/ ProduceAccepted(c)
      PROVE  UNCHANGED <<shutdownVars, serve, closer>>
  <2>1. UNCHANGED <<shutdownVars, serve>>
    BY <1>5 DEF SessionStep, ProduceUnacknowledged, ProduceAccepted
  <2>2. UNCHANGED closer
    BY <1>5 DEF SessionStep, ProduceUnacknowledged, ProduceAccepted, Produce, ReaderStep,
                StartProcessTelemetry, ReadMessage, ReadError, ReadWrongType, ReaderResponds,
                Teardown, CloseWs, LogDisconnected, CloseStopChan, Writer, Write, WriterTake,
                WriterStop, WriteOk, WriteError, WriterExit, Drop, reasonVars
  <2> QED
    BY <2>1, <2>2
<1>6. ASSUME DeliveryReport \/ handleAcks PROVE UNCHANGED <<shutdownVars, serve, closer>>
  BY <1>6 DEF DeliveryReport, handleAcks, ReceiveAckFromReader, ReceiveAckFromKafka,
              HandlerFindsSocket, HandlerMisses, HandlerResponds, reasonVars
<1>7. ASSUME ShutdownSignal \/ ListenerFails \/ DrainTimeout \/ CloseProducers \/ Exit
      PROVE  ShutdownInv' /\ DrainInv'
  BY <1>1, <1>7 DEF ShutdownSignal, ListenerFails, DrainTimeout, CloseProducers, Exit,
                    ShutdownInv, DrainInv, registered
<1>8. CASE CloseAllSockets
  BY <1>1, <1>8 DEF CloseAllSockets, Registry!Snapshot, Registry!Range, Range, ShutdownInv,
                    DrainInv
<1>9. CASE waitForSocketsDrain
  BY <1>1, <1>9 DEF waitForSocketsDrain, Registry!NumConnectedSockets, ShutdownInv, DrainInv,
                    registered
<1>10. ASSUME NEW c \in Conns, RequestClose(c) PROVE ShutdownInv' /\ DrainInv'
  BY <1>1, <1>10 DEF RequestClose, ShutdownInv, DrainInv
<1> QED
  BY <1>3, <1>4, <1>5, <1>6, <1>7, <1>8, <1>9, <1>10 DEF ServerNext, gracefulShutdown

LEMMA ServerInvInit == ServerInit => ServerInv
<1> SUFFICES ASSUME ServerInit PROVE ServerInv
  OBVIOUS
<1>1. TypeInv /\ MapInv
  BY TypeInvInit, MapInit
<1>2. ASSUME NEW c \in Conns PROVE SessionInv(c)
  BY DEF ServerInit, Init, SessionInv, EventsSoFar
<1>3. DrainInv
  BY DEF ServerInit, DrainInv
<1> QED
  BY <1>1, <1>2, <1>3 DEF ServerInv

LEMMA TypeInvStep ==
    ASSUME ServerInv, ServerNext
    PROVE  TypeInv'
<1>1. TypeInv /\ MapInv
  BY DEF ServerInv
<1>2. TypeOK'
  BY <1>1, SessionMoves, RespondsTyped, TypeStep DEF TypeInv
<1>3. PathInv'
  BY <1>1, PathStep
<1>4. ShutdownInv'
  BY DrainStep
<1>5. /\ serve' \in [Conns -> ServePlaces]
      /\ events' \in [Conns -> Seq({"CONNECTED", "DISCONNECTED"})]
  <2>1. /\ serve \in [Conns -> ServePlaces]
        /\ events \in [Conns -> Seq({"CONNECTED", "DISCONNECTED"})]
    BY <1>1 DEF TypeInv
  <2>2. ASSUME NEW c \in Conns, Accept(c) \/ ServeBinaryWs(c)
        PROVE  /\ serve' \in [Conns -> ServePlaces]
               /\ events' \in [Conns -> Seq({"CONNECTED", "DISCONNECTED"})]
    <3>1. serve' \in [Conns -> ServePlaces]
      BY <2>1, <2>2 DEF Accept, ServeBinaryWs, Upgrade, Reject, registerSocket, EventConnected,
                        deregisterSocket, EventDisconnected, ServePlaces
    <3>2. ASSUME NEW status \in {"CONNECTED", "DISCONNECTED"}, dispatchConnectivityEvent(c, status)
          PROVE  events' \in [Conns -> Seq({"CONNECTED", "DISCONNECTED"})]
      BY <2>1, <3>2 DEF dispatchConnectivityEvent
    <3>3. \/ UNCHANGED events
          \/ dispatchConnectivityEvent(c, "CONNECTED")
          \/ dispatchConnectivityEvent(c, "DISCONNECTED")
      BY <2>2 DEF Accept, ServeBinaryWs, Upgrade, Reject, registerSocket, EventConnected,
                  deregisterSocket, EventDisconnected
    <3> QED
      BY <2>1, <3>1, <3>2, <3>3
  <2>3. ASSUME \/ \E c \in Conns :
                     SessionStep(c) \/ ProduceUnacknowledged(c) \/ ProduceAccepted(c)
               \/ DeliveryReport \/ handleAcks
               \/ ShutdownSignal \/ ListenerFails \/ DrainTimeout \/ gracefulShutdown
        PROVE  UNCHANGED <<serve, events>>
    BY <2>3 DEF SessionStep, ProduceUnacknowledged, ProduceAccepted, DeliveryReport, handleAcks,
                ReceiveAckFromReader, ReceiveAckFromKafka, HandlerFindsSocket, HandlerMisses,
                HandlerResponds, ShutdownSignal, ListenerFails, DrainTimeout, gracefulShutdown,
                CloseAllSockets, waitForSocketsDrain, CloseProducers, Exit, RequestClose
  <2> QED
    BY <2>1, <2>2, <2>3 DEF ServerNext
<1> QED
  BY <1>2, <1>3, <1>4, <1>5 DEF TypeInv

LEMMA ServerInvStep == ServerInv /\ [ServerNext]_serverVars => ServerInv'
<1> SUFFICES ASSUME ServerInv, [ServerNext]_serverVars PROVE ServerInv'
  OBVIOUS
<1>1. TypeInv /\ MapInv /\ (\A d \in Conns : SessionInv(d)) /\ serve \in [Conns -> ServePlaces]
  BY DEF ServerInv, TypeInv
<1>2. MapInv'
  BY <1>1, MapStep
<1>3. CASE ServerNext
  <2>1. TypeInv' /\ DrainInv'
    BY <1>3, TypeInvStep, DrainStep
  <2>2. ASSUME NEW d \in Conns PROVE SessionInv(d)'
    BY <1>1, <1>3, ServeKeepsSessions, SessionsKeepPlaces, AcksKeepPlaces, ShutdownKeepsPlaces
    DEF ServerNext
  <2> QED
    BY <1>2, <2>1, <2>2 DEF ServerInv
<1>4. CASE UNCHANGED serverVars
  <2> USE <1>4 DEF serverVars, vars, registryPart, ackVars, shutdownVars
  <2>1. TypeInv'
    <3>1. TypeOK'
      BY <1>1, TypeStep DEF TypeInv
    <3>2. PathInv' /\ ShutdownInv'
      BY <1>1 DEF TypeInv, PathInv, ShutdownInv, Range
    <3> QED
      BY <1>1, <3>1, <3>2 DEF TypeInv
  <2>2. DrainInv' /\ \A d \in Conns : SessionInv(d)'
    BY DEF ServerInv, DrainInv, SessionInv, EventsSoFar, registered
  <2> QED
    BY <1>2, <2>1, <2>2 DEF ServerInv
<1> QED
  BY <1>3, <1>4

(* The invariant of the whole server, whatever UUIDs the vehicles choose. *)
THEOREM ServerInvariant == ServerSpec => []ServerInv
BY ServerInvInit, ServerInvStep, PTL DEF ServerSpec

(* Each of the server's variables keeps to its type: at most one record waits
   on each unbuffered path, and the counter never exceeds the connections. *)
THEOREM ServerTyped == ServerSpec => []ServerTypeOK
<1>1. ServerInv => ServerTypeOK
  <2> SUFFICES ASSUME ServerInv PROVE ServerTypeOK
    OBVIOUS
  <2>1. TypeInv /\ counter \in 0 .. Cardinality(Conns) /\ Range(sockets) \subseteq Conns
    BY MapBounds DEF ServerInv, registered
  <2> QED
    BY <2>1 DEF TypeInv, PathInv, ShutdownInv, ServePlaces, Held, ServerTypeOK
<1> QED
  BY <1>1, ServerInvariant, PTL

(* Counter and map stay those of the connected sockets while ServeBinaryWs runs
   for every connection. *)
THEOREM RegistryStays == ServerSpec => []RegistryStaysConsistent
<1>1. ServerInv => RegistryStaysConsistent
  BY DEF ServerInv, MapInv, RegistryResults!RegistryInv, RegistryStaysConsistent,
         RegistryResults!RegistryConsistent, Registry!RegistryConsistent,
         RegistryResults!CounterIsExact, Registry!CounterIsExact,
         RegistryResults!NoStaleSocket, Registry!NoStaleSocket,
         RegistryResults!MapIsComplete, Registry!MapIsComplete,
         RegistryResults!UniqueUUIDs, Registry!UniqueUUIDs,
         RegistryResults!Cardinality, Registry!Cardinality, Cardinality
<1> QED
  BY <1>1, ServerInvariant, PTL

(* Nothing of a session comes before its CONNECTED event, and after its
   DISCONNECTED event the session is over. *)
THEOREM ConnectivityBrackets == ServerSpec => []ConnectivityBracketsSession
<1>1. ServerInv => ConnectivityBracketsSession
  <2> SUFFICES ASSUME ServerInv, EventsRouted, NEW c \in Conns
               PROVE  /\ events[c] = <<>> => pc[c] = "new"
                      /\ "DISCONNECTED" \in Range(events[c]) =>
                            /\ events[c] = <<"CONNECTED", "DISCONNECTED">>
                            /\ pc[c] = "returned" /\ logged[c] # "notLogged"
                            /\ sendingAck[c] = <<>> /\ todo[c] = <<>>
                            /\ c \notin Range(sockets)
    BY DEF ConnectivityBracketsSession
  <2>1. /\ SessionInv(c) /\ serve[c] \in ServePlaces /\ Range(sockets) \subseteq registered
    BY MapBounds DEF ServerInv, TypeInv
  <2>2. Range(<<>>) = {} /\ Range(<<"CONNECTED">>) = {"CONNECTED"}
    BY DEF Range
  <2>3. /\ <<"CONNECTED">> # <<>> /\ <<"CONNECTED", "DISCONNECTED">> # <<>>
    OBVIOUS
  <2>4. events[c] = <<>> => pc[c] = "new"
    BY <2>1, <2>3 DEF SessionInv, EventsSoFar, ServePlaces
  <2>5. ASSUME "DISCONNECTED" \in Range(events[c])
        PROVE  serve[c] = "done" /\ pc[c] = "returned"
    BY <2>1, <2>2, <2>5 DEF SessionInv, EventsSoFar
  <2>6. ASSUME serve[c] = "done", pc[c] = "returned"
        PROVE  /\ events[c] = <<"CONNECTED", "DISCONNECTED">> /\ logged[c] # "notLogged"
               /\ sendingAck[c] = <<>> /\ todo[c] = <<>> /\ c \notin Range(sockets)
    BY <2>1, <2>6 DEF SessionInv, EventsSoFar, registered
  <2> QED
    BY <2>4, <2>5, <2>6
<1> QED
  BY <1>1, ServerInvariant, PTL

(* A drain that ends before its deadline has waited for every session that it
   asked to close. *)
THEOREM DrainWaits == ServerSpec => []DrainedMeansReturned
<1>1. ServerInv => DrainedMeansReturned
  BY DEF ServerInv, DrainInv, SessionInv, registered, DrainedMeansReturned
<1> QED
  BY <1>1, ServerInvariant, PTL

(* The server uses the registry as its specification says: a socket is taken
   out once, after it was put in. *)
THEOREM UsesRegistry == ServerSpec => ImplementsRegistry
<1>1. ServerInit => Registry!RegistryInit
  BY DEF ServerInit, Registry!RegistryInit
<1>2. ServerInv /\ [ServerNext]_serverVars => [Registry!RegistryNext]_(Registry!registryVars)
  BY RegistryMoves DEF ServerInv, TypeInv
<1> QED
  BY <1>1, <1>2, ServerInvariant, PTL DEF ServerSpec, ImplementsRegistry, Registry!RegistrySpec

(* When no two vehicles share a UUID the map holds every connected socket. *)
LEMMA MapComplete ==
    ASSUME MapInv, Registry!UniqueUUIDs
    PROVE  /\ Range(sockets) = registered
           /\ \A c \in registered : UUID[c] \in DOMAIN sockets /\ sockets[UUID[c]] = c
           /\ \A u \in DOMAIN sockets, c \in Conns : u = UUID[c] => sockets[u] = c
<1>1. /\ registered \subseteq Conns /\ \A c \in registered : UUID[c] \in DOMAIN sockets
      /\ \A c, d \in Conns : UUID[c] = UUID[d] => c = d
  BY DEF MapInv, RegistryResults!RegistryInv, RegistryResults!RegistryConsistent,
         RegistryResults!MapIsComplete, RegistryResults!UniqueUUIDs, Registry!UniqueUUIDs
<1>2. /\ \A u \in DOMAIN sockets : sockets[u] \in registered /\ UUID[sockets[u]] = u
      /\ Range(sockets) \subseteq registered
  BY MapBounds
<1>3. \A c \in registered : UUID[c] \in DOMAIN sockets /\ sockets[UUID[c]] = c
  BY <1>1, <1>2
<1>4. \A u \in DOMAIN sockets, c \in Conns : u = UUID[c] => sockets[u] = c
  BY <1>1, <1>2
<1> QED
  BY <1>2, <1>3, <1>4 DEF Range

(* CloseAllSockets then asks every connected socket, as its comment says. *)
THEOREM DrainAsksAll ==
    ASSUME Registry!UniqueUUIDs
    PROVE  ServerSpec => CloseAllSocketsAsksAll
<1>1. ServerInv /\ [ServerNext]_serverVars
        => [phase = "stopping" /\ phase' = "closing" => toClose' = registered]_serverVars
  <2> SUFFICES ASSUME ServerInv, ServerNext, phase = "stopping", phase' = "closing"
               PROVE  toClose' = registered
    OBVIOUS
  <2>1. CloseAllSockets \/ phase' \in {phase, "stopping", "failed", "drained", "timedOut"}
    BY DEF ServerNext, Accept, ServeBinaryWs, Upgrade, Reject, registerSocket, EventConnected,
           deregisterSocket, EventDisconnected, SessionStep, ProduceUnacknowledged,
           ProduceAccepted, DeliveryReport, handleAcks, ReceiveAckFromReader,
           ReceiveAckFromKafka, HandlerFindsSocket, HandlerMisses, HandlerResponds,
           ShutdownSignal, ListenerFails, DrainTimeout, gracefulShutdown, CloseAllSockets,
           waitForSocketsDrain, CloseProducers, Exit, RequestClose, shutdownVars
  <2>2. toClose' = Range(sockets)
    BY <2>1 DEF CloseAllSockets, Registry!Snapshot, Registry!Range, Range
  <2> QED
    BY <2>2, MapComplete DEF ServerInv
<1> QED
  BY <1>1, ServerInvariant, PTL DEF ServerSpec, CloseAllSocketsAsksAll
=============================================================================
