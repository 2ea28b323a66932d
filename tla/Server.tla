------------------------------- MODULE Server -------------------------------
(***************************************************************************)
(* The whole server: the sessions of SocketManager behind ServeBinaryWs,   *)
(* the socket registry, the one handleAcks goroutine, producers that       *)
(* acknowledge from the reader's own call (nats, kinesis, pubsub, zmq,     *)
(* mqtt) or from a delivery goroutine (kafka), and the graceful shutdown   *)
(* of cmd/main.go.                                                         *)
(*                                                                         *)
(* Every step is a step of a session of SocketManager, or leaves all of    *)
(* SocketManager's variables alone.                                        *)
(***************************************************************************)
EXTENDS SocketManager, FiniteSets

CONSTANTS
    UUID,             \* the UUID each connection's socket gets
    AsyncDispatchers, \* dispatchers that report delivery later: kafka
    EventsRouted      \* the "connectivity" topic has a dispatch rule

ASSUME ServerAssumption ==
    /\ IsFiniteSet(Conns)
    /\ DOMAIN UUID = Conns
    /\ AsyncDispatchers \subseteq Dispatchers
    /\ EventsRouted \in BOOLEAN

VARIABLES
    serve,      \* where ServeBinaryWs is for each connection
    events,     \* connectivity events produced for each connection, in order
    sockets, counter, \* the registry
    sendingAck, \* a reader blocked in ProcessReliableAck: its Produce call
    inflight,   \* records kafka accepted and has not reported on
    kafkaEvent, \* the delivery goroutine blocked on ackChan: its record
    stored,     \* Produce calls of reliable dispatchers that succeeded
    handler,    \* what handleAcks is working on
    phase,      \* where startServer and gracefulShutdown are
    toClose,    \* sockets of the snapshot still to be asked to close
    expired,    \* shutdownDrainTimeout has passed
    closed,     \* the producers are closed
    exited      \* the process is gone

sessionVars  == vars
registryPart == <<sockets, counter>>
ackVars      == <<sendingAck, inflight, kafkaEvent, stored, handler>>
shutdownVars == <<phase, toClose, expired, closed, exited>>
serverVars   == <<vars, serve, events, registryPart, ackVars, shutdownVars>>

registered == {c \in Conns : serve[c] \in {"registered", "telemetry"}}

Registry == INSTANCE SocketRegistry

NoConn == "noConn"

ServerInit ==
    /\ Init
    /\ serve = [c \in Conns |-> "idle"]
    /\ events = [c \in Conns |-> <<>>]
    /\ Registry!RegistryInit
    /\ sendingAck = [c \in Conns |-> <<>>]
    /\ inflight = {} /\ kafkaEvent = <<>> /\ stored = {} /\ handler = <<>>
    /\ phase = "serving" /\ toClose = {}
    /\ expired = FALSE /\ closed = FALSE /\ exited = FALSE

----------------------------------------------------------------------------
(* ServeBinaryWs.                                                          *)

(* net/http accepts a connection and runs the handler on it. *)
Accept(c) ==
    /\ serve[c] = "idle" /\ phase = "serving"
    /\ serve' = [serve EXCEPT ![c] = "request"]
    /\ UNCHANGED <<sessionVars, events, registryPart, ackVars, shutdownVars>>

(* promoteToWebsocket hijacks it: net/http no longer knows of it. *)
Upgrade(c) ==
    /\ serve[c] = "request"
    /\ serve' = [serve EXCEPT ![c] = "upgraded"]
    /\ UNCHANGED <<sessionVars, events, registryPart, ackVars, shutdownVars>>

(* The upgrade fails, the certificate has no identity or the connector
   refuses the VIN: the handler returns without a session. *)
Reject(c) ==
    /\ serve[c] \in {"request", "upgraded"}
    /\ serve' = [serve EXCEPT ![c] = "done"]
    /\ UNCHANGED <<sessionVars, events, registryPart, ackVars, shutdownVars>>

registerSocket(c) ==
    /\ serve[c] = "upgraded"
    /\ Registry!RegisterSocket(c)
    /\ serve' = [serve EXCEPT ![c] = "registered"]
    /\ UNCHANGED <<sessionVars, events, ackVars, shutdownVars>>

dispatchConnectivityEvent(c, status) ==
    events' = IF EventsRouted THEN [events EXCEPT ![c] = Append(@, status)] ELSE events

EventConnected(c) ==
    /\ serve[c] = "registered"
    /\ dispatchConnectivityEvent(c, "CONNECTED")
    /\ serve' = [serve EXCEPT ![c] = "telemetry"]
    /\ UNCHANGED <<sessionVars, registryPart, ackVars, shutdownVars>>

(* Mutant: deregistered without waiting for ProcessTelemetry to return. *)
deregisterSocket_NotDeferred(c) ==
    /\ serve[c] = "telemetry"
    /\ Registry!DeregisterSocket(c)
    /\ serve' = [serve EXCEPT ![c] = "deregistered"]
    /\ UNCHANGED <<sessionVars, events, ackVars, shutdownVars>>

(* Mutant: the handler returns and leaves its socket in the registry. *)
deregisterSocket_Forgotten(c) ==
    /\ serve[c] = "telemetry" /\ pc[c] = "returned"
    /\ serve' = [serve EXCEPT ![c] = "deregistered"]
    /\ UNCHANGED <<sessionVars, events, registryPart, ackVars, shutdownVars>>

(* The deferred deregisterSocket: first the registry, then the event. *)
deregisterSocket(c) ==
    /\ serve[c] = "telemetry" /\ pc[c] = "returned"
    /\ Registry!DeregisterSocket(c)
    /\ serve' = [serve EXCEPT ![c] = "deregistered"]
    /\ UNCHANGED <<sessionVars, events, ackVars, shutdownVars>>

EventDisconnected(c) ==
    /\ serve[c] = "deregistered"
    /\ dispatchConnectivityEvent(c, "DISCONNECTED")
    /\ serve' = [serve EXCEPT ![c] = "done"]
    /\ UNCHANGED <<sessionVars, registryPart, ackVars, shutdownVars>>

----------------------------------------------------------------------------
(* The goroutines of a session.                                            *)

Running(c) == serve[c] = "telemetry" /\ sendingAck[c] = <<>>

(* The reader's steps other than Produce. *)
ReaderStep(c) ==
    \/ StartProcessTelemetry(c) \/ ReadMessage(c) \/ ReadError(c) \/ ReadWrongType(c)
    \/ ReaderResponds(c) \/ Teardown(c)

SessionStep(c) ==
    /\ \/ Running(c) /\ ReaderStep(c)
       \/ Writer(c)
       \/ serve[c] # "idle" /\ Drop(c)
    /\ UNCHANGED <<serve, events, registryPart, ackVars, shutdownVars>>

(* Produce fails, or the dispatcher does not acknowledge this topic. *)
ProduceUnacknowledged(c) ==
    /\ Running(c) /\ Produce(c)
    /\ UNCHANGED ackDue
    /\ UNCHANGED <<serve, events, registryPart, ackVars, shutdownVars>>

(* The dispatcher took the record and will acknowledge it: a synchronous one
   before Produce returns, kafka when its delivery report comes. *)
ProduceAccepted(c) ==
    /\ Running(c) /\ Produce(c)
    /\ LET op == Head(todo[c])
       IN  /\ op \in ackDue'[c]
           /\ IF op.to \in AsyncDispatchers
              THEN /\ inflight' = inflight \cup {[conn |-> c, op |-> op]}
                   /\ UNCHANGED <<sendingAck, stored>>
              ELSE /\ sendingAck' = [sendingAck EXCEPT ![c] = <<op>>]
                   /\ stored' = stored \cup {[conn |-> c, op |-> op]}
                   /\ UNCHANGED inflight
    /\ UNCHANGED <<kafkaEvent, handler, serve, events, registryPart, shutdownVars>>

----------------------------------------------------------------------------
(* The kafka delivery goroutine and handleAcks; ackChan has no buffer.     *)

(* Mutant: a report is taken for a delivery without looking at its error. *)
DeliveryReport_ErrorIgnored ==
    /\ kafkaEvent = <<>>
    /\ \E r \in inflight :
          /\ inflight' = inflight \ {r}
          /\ kafkaEvent' = <<r>>
          /\ stored' \in {stored, stored \cup {r}}
    /\ UNCHANGED <<sessionVars, sendingAck, handler, serve, events, registryPart,
                   shutdownVars>>

(* Mutant: a report overwrites the one nobody has received yet. *)
DeliveryReport_Overwrites ==
    /\ \E r \in inflight :
          /\ inflight' = inflight \ {r}
          /\ kafkaEvent' = <<r>>
          /\ stored' = stored \cup {r}
    /\ UNCHANGED <<sessionVars, sendingAck, handler, serve, events, registryPart,
                   shutdownVars>>

(* handleProducerEvents takes one report at a time. *)
DeliveryReport ==
    /\ kafkaEvent = <<>>
    /\ \E r \in inflight :
          /\ inflight' = inflight \ {r}
          /\ \/ /\ kafkaEvent' = <<r>>
                /\ stored' = stored \cup {r}
                /\ UNCHANGED sessionVars
             \/ /\ ackDue' = [ackDue EXCEPT ![r.conn] = @ \ {r.op}]
                /\ UNCHANGED <<readerVars, writerVars, writeChan, ws, deadline,
                               stopped, reasonVars, kafkaEvent, stored>>
    /\ UNCHANGED <<sendingAck, handler, serve, events, registryPart, shutdownVars>>

Holding(r) == <<[conn |-> r.conn, op |-> r.op, socket |-> NoConn]>>

(* Mutant: handleAcks has no loop and returns after its first ack. *)
ReceiveAckFromReader_Once(c) ==
    /\ handler = <<>> /\ sendingAck[c] # <<>>
    /\ \A d \in Conns : \A a \in Range(HandedOver(d)) : DirectAnswer(a)
    /\ handler' = Holding([conn |-> c, op |-> Head(sendingAck[c])])
    /\ sendingAck' = [sendingAck EXCEPT ![c] = <<>>]
    /\ UNCHANGED <<sessionVars, inflight, kafkaEvent, stored, serve, events,
                   registryPart, shutdownVars>>

ReceiveAckFromReader(c) ==
    /\ handler = <<>> /\ sendingAck[c] # <<>>
    /\ handler' = Holding([conn |-> c, op |-> Head(sendingAck[c])])
    /\ sendingAck' = [sendingAck EXCEPT ![c] = <<>>]
    /\ UNCHANGED <<sessionVars, inflight, kafkaEvent, stored, serve, events,
                   registryPart, shutdownVars>>

ReceiveAckFromKafka ==
    /\ handler = <<>> /\ kafkaEvent # <<>>
    /\ handler' = Holding(Head(kafkaEvent))
    /\ kafkaEvent' = <<>>
    /\ UNCHANGED <<sessionVars, sendingAck, inflight, stored, serve, events,
                   registryPart, shutdownVars>>

Looking == handler # <<>> /\ Head(handler).socket = NoConn

HandlerFindsSocket ==
    /\ Looking
    /\ LET uuid == UUID[Head(handler).conn]
       IN  /\ Registry!Connected(uuid)
           /\ handler' = <<[Head(handler) EXCEPT !.socket = Registry!GetSocket(uuid)]>>
    /\ UNCHANGED <<sessionVars, sendingAck, inflight, kafkaEvent, stored, serve,
                   events, registryPart, shutdownVars>>

(* The ack is only counted as missed. *)
HandlerMisses ==
    /\ Looking
    /\ LET r == Head(handler)
       IN  /\ ~Registry!Connected(UUID[r.conn])
           /\ ackDue' = [ackDue EXCEPT ![r.conn] = @ \ {r.op}]
    /\ handler' = <<>>
    /\ UNCHANGED <<readerVars, writerVars, writeChan, ws, deadline, stopped,
                   reasonVars, sendingAck, inflight, kafkaEvent, stored, serve,
                   events, registryPart, shutdownVars>>

(* Mutant: the record is answered and kept, and so answered again. *)
HandlerResponds_Again ==
    /\ handler # <<>> /\ ~Looking
    /\ LET r == Head(handler)
       IN  respondToVehicle(r.socket, [kind |-> "ack", msg |-> r.op.msg,
                                       txType |-> r.op.txType])
    /\ UNCHANGED <<readerVars, writerVars, ws, deadline, stopped, reasonVars, ackDue,
                   ackVars, serve, events, registryPart, shutdownVars>>

(* Blocks while that socket's writeChan is full, and with it every other ack. *)
HandlerResponds ==
    /\ handler # <<>> /\ ~Looking
    /\ LET r == Head(handler)
       IN  /\ respondToVehicle(r.socket, [kind |-> "ack", msg |-> r.op.msg,
                                          txType |-> r.op.txType])
           /\ ackDue' = [ackDue EXCEPT ![r.conn] = @ \ {r.op}]
    /\ handler' = <<>>
    /\ UNCHANGED <<readerVars, writerVars, ws, deadline, stopped, reasonVars,
                   sendingAck, inflight, kafkaEvent, stored, serve, events,
                   registryPart, shutdownVars>>

handleAcks ==
    \/ \E c \in Conns : ReceiveAckFromReader(c)
    \/ ReceiveAckFromKafka \/ HandlerFindsSocket \/ HandlerMisses \/ HandlerResponds

----------------------------------------------------------------------------
(* startServer and gracefulShutdown.                                       *)

(* SIGTERM or SIGINT: server.Shutdown closes the listener. *)
ShutdownSignal ==
    /\ phase = "serving"
    /\ phase' = "stopping"
    /\ UNCHANGED <<sessionVars, serve, events, registryPart, ackVars, toClose,
                   expired, closed, exited>>

(* ListenAndServeTLS returns by itself: no drain, straight to the producers. *)
ListenerFails ==
    /\ phase = "serving"
    /\ phase' = "failed"
    /\ UNCHANGED <<sessionVars, serve, events, registryPart, ackVars, toClose,
                   expired, closed, exited>>

DrainTimeout ==
    /\ phase \in {"stopping", "closing"} /\ ~expired
    /\ expired' = TRUE
    /\ UNCHANGED <<sessionVars, serve, events, registryPart, ackVars, phase, toClose,
                   closed, exited>>

(* Shutdown returns once no handler is running on a connection it still
   tracks, or at the deadline; then CloseAllSockets takes its snapshot. *)
CloseAllSockets ==
    /\ phase = "stopping"
    /\ expired \/ \A c \in Conns : serve[c] # "request"
    /\ toClose' = Registry!Snapshot
    /\ phase' = "closing"
    /\ UNCHANGED <<sessionVars, serve, events, registryPart, ackVars, expired, closed,
                   exited>>

(* RequestClose, socket after socket. *)
RequestClose(c) ==
    /\ c \in toClose
    /\ \/ /\ \A d \in toClose : closer[d] # "recorded"
          /\ RecordShutdown(c)
          /\ UNCHANGED toClose
       \/ /\ CloseForShutdown(c)
          /\ toClose' = toClose \ {c}
    /\ UNCHANGED <<serve, events, registryPart, ackVars, phase, expired, closed, exited>>

(* Mutant: the drain waits for the sockets without a deadline. *)
waitForSocketsDrain_NoDeadline ==
    /\ phase = "closing" /\ toClose = {}
    /\ Registry!NumConnectedSockets = 0 /\ phase' = "drained"
    /\ UNCHANGED <<sessionVars, serve, events, registryPart, ackVars, toClose, expired,
                   closed, exited>>

waitForSocketsDrain ==
    /\ phase = "closing" /\ toClose = {}
    /\ \/ Registry!NumConnectedSockets = 0 /\ phase' = "drained"
       \/ Registry!NumConnectedSockets # 0 /\ expired /\ phase' = "timedOut"
    /\ UNCHANGED <<sessionVars, serve, events, registryPart, ackVars, toClose, expired,
                   closed, exited>>

CloseProducers ==
    /\ phase \in {"drained", "timedOut", "failed"} /\ ~closed
    /\ closed' = TRUE
    /\ UNCHANGED <<sessionVars, serve, events, registryPart, ackVars, phase, toClose,
                   expired, exited>>

(* startServer returns and so does main. *)
Exit ==
    /\ closed
    /\ exited' = TRUE
    /\ UNCHANGED <<sessionVars, serve, events, registryPart, ackVars, phase, toClose,
                   expired, closed>>

----------------------------------------------------------------------------
ServeBinaryWs(c) ==
    Upgrade(c) \/ Reject(c) \/ registerSocket(c) \/ EventConnected(c)
      \/ deregisterSocket(c) \/ EventDisconnected(c)

gracefulShutdown ==
    \/ CloseAllSockets \/ waitForSocketsDrain \/ CloseProducers \/ Exit
    \/ \E c \in Conns : RequestClose(c)

ServerNext ==
    /\ ~exited
    /\ \/ \E c \in Conns :
             \/ Accept(c) \/ ServeBinaryWs(c) \/ SessionStep(c)
             \/ ProduceUnacknowledged(c) \/ ProduceAccepted(c)
       \/ DeliveryReport \/ handleAcks
       \/ ShutdownSignal \/ ListenerFails \/ DrainTimeout \/ gracefulShutdown

ServerSpec == ServerInit /\ [][ServerNext]_serverVars

(***************************************************************************)
(* Every goroutine that can run does.  The vehicles and the operator are   *)
(* free: no message, disconnection, certificate or signal is promised.     *)
(***************************************************************************)
Own(A) == ~exited /\ A

ReaderProgress(c) ==
    /\ Running(c)
    /\ StartProcessTelemetry(c) \/ ReadError(c) \/ ReaderResponds(c) \/ Teardown(c)
    /\ UNCHANGED <<serve, events, registryPart, ackVars, shutdownVars>>

WriterProgress(c) ==
    Writer(c) /\ UNCHANGED <<serve, events, registryPart, ackVars, shutdownVars>>

ServerFairness ==
    /\ \A c \in Conns :
          /\ WF_serverVars(Own(ServeBinaryWs(c)))
          /\ WF_serverVars(Own(ReaderProgress(c)))
          /\ WF_serverVars(Own(ProduceUnacknowledged(c) \/ ProduceAccepted(c)))
          /\ WF_serverVars(Own(WriterProgress(c)))
    /\ WF_serverVars(Own(DeliveryReport))
    /\ WF_serverVars(Own(handleAcks))
    /\ WF_serverVars(Own(gracefulShutdown))
    /\ WF_serverVars(Own(DrainTimeout))

ServerFairSpec == ServerSpec /\ ServerFairness

----------------------------------------------------------------------------
(* Safety.                                                                 *)

OwedRecords == [conn : Conns, op : Op]

(* The server's own variables: one record at a time on each unbuffered path. *)
ServerTypeOK ==
    /\ serve \in [Conns -> {"idle", "request", "upgraded", "registered", "telemetry",
                            "deregistered", "done"}]
    /\ events \in [Conns -> Seq({"CONNECTED", "DISCONNECTED"})]
    /\ counter \in 0 .. Cardinality(Conns)
    /\ Range(sockets) \subseteq Conns
    /\ \A c \in Conns : sendingAck[c] \in Seq(Op) /\ Len(sendingAck[c]) <= 1
    /\ inflight \subseteq OwedRecords /\ stored \subseteq OwedRecords
    /\ Range(kafkaEvent) \subseteq stored /\ Len(kafkaEvent) <= 1
    /\ handler \in Seq([conn : Conns, op : Op, socket : Conns \cup {NoConn}])
    /\ Len(handler) <= 1
    /\ phase \in {"serving", "stopping", "closing", "drained", "timedOut", "failed"}
    /\ toClose \subseteq Conns
    /\ expired \in BOOLEAN /\ closed \in BOOLEAN /\ exited \in BOOLEAN

(***************************************************************************)
(* A vehicle gets a reliable ack only for a record of its own that the     *)
(* acknowledging dispatcher reported stored, and at most one for each such *)
(* report, whichever way the record went: through the reader or through    *)
(* kafka's delivery goroutine, and whatever sessions ended meanwhile.      *)
(***************************************************************************)
AcksEarnedOn(c) ==
    \A i \in 1 .. MaxMsgs :
        Cardinality({k \in DOMAIN HandedOver(c) :
                        LET a == HandedOver(c)[k] IN ~DirectAnswer(a) /\ a.msg = i})
          <= Cardinality({r \in stored : r.conn = c /\ r.op.msg = i /\ OwesAck(r.op)})

ReliableAcksAreEarned == \A c \in Conns : AcksEarnedOn(c)

(* No other vehicle chose this one's UUID. *)
Unshared(c) == \A d \in Conns : UUID[d] = UUID[c] => d = c

(* However its ack travels, through the reader or through kafka's goroutine, a
   record is acknowledged only after its dispatcher took it.  The ack finds its
   vehicle by the record's UUID, so it is to the vehicle of that name. *)
Promise == INSTANCE ReliableAck WITH
    taken        <- {<<UUID[r.conn], r.op.msg>> : r \in stored},
    acknowledged <- UNION {{<<UUID[c], a.msg>> :
                              a \in {b \in Range(HandedOver(c)) : ~DirectAnswer(b)}} :
                           c \in Conns}

ImplementsReliableAck == Promise!AckSpec

(* The one way handleAcks stops for good, and all reliable acks with it: the
   socket it found has a full writeChan and no writer any more. *)
HandlerStuck ==
    /\ handler # <<>> /\ ~Looking
    /\ LET c == Head(handler).socket
       IN  writer[c] = "done" /\ Len(writeChan[c]) = WriteCap

(* Nobody on the path of an ack has a step to take: kafka's goroutine has no
   report to give, handleAcks none to receive, or its answer does not fit and
   the writer that would make room is waiting or gone. *)
AckPathAtRest ==
    /\ inflight # {} => kafkaEvent # <<>>
    /\ kafkaEvent # <<>> \/ (\E c \in Conns : sendingAck[c] # <<>>) => handler # <<>>
    /\ ~Looking
    /\ handler # <<>> =>
          LET c == Head(handler).socket
          IN  Len(writeChan[c]) = WriteCap /\ WriterAtRest(c)

(***************************************************************************)
(* No owed ack is forgotten.  When nobody on the path can move, every      *)
(* record a dispatcher accepted was answered or given up, by a failed      *)
(* delivery or a missing socket, and no reader is left in                  *)
(* ProcessReliableAck; or handleAcks is stuck on a socket without a writer.*)
(***************************************************************************)
NoAckForgotten ==
    AckPathAtRest =>
        HandlerStuck \/ \A c \in Conns : ackDue[c] = {} /\ sendingAck[c] = <<>>

(* The connectivity stream brackets a session: nothing is read before CONNECTED,
   and after DISCONNECTED the session is over, its disconnection logged, its
   socket out of the registry and no Produce call of it left to come. *)
ConnectivityBracketsSession ==
    EventsRouted =>
        \A c \in Conns :
            /\ events[c] = <<>> => pc[c] = "new"
            /\ "DISCONNECTED" \in Range(events[c]) =>
                  /\ events[c] = <<"CONNECTED", "DISCONNECTED">>
                  /\ pc[c] = "returned" /\ logged[c] # "notLogged"
                  /\ sendingAck[c] = <<>> /\ todo[c] = <<>>
                  /\ c \notin Range(sockets)

(* The server is a correct use of SocketManager and of SocketRegistry: each of
   its steps is a step of one session, and one of the registry, or a stutter. *)
ImplementsSessions == Spec

ImplementsRegistry == Registry!RegistrySpec

(* The counter and the map stay those of the sockets that are connected. *)
RegistryStaysConsistent == Registry!RegistryConsistent

(* A drain that ends because no socket is left, and not at its deadline, ends
   after every session it asked to close has logged its disconnection, given
   its last record to the dispatchers and returned. *)
DrainedMeansReturned ==
    phase = "drained" =>
        \A c \in Conns : closer[c] # "idle" =>
            /\ pc[c] = "returned" /\ logged[c] # "notLogged"
            /\ todo[c] = <<>> /\ sendingAck[c] = <<>>

(* CloseAllSockets asks every socket connected at its snapshot (its comment
   says so): it does as long as no two sockets share a UUID. *)
CloseAllSocketsAsksAll ==
    [][phase = "stopping" /\ phase' = "closing" => toClose' = registered]_serverVars

(* What the comments on gracefulShutdown and shutdownDrainTimeout say: once
   every socket has drained, nothing is dispatched to a closed producer.  The
   DISCONNECTED event comes after the counter drops, so it may be. *)
ProduceCalled ==
    \E c \in Conns :
        \/ events'[c] # events[c]
        \/ todo[c] # <<>> /\ Head(todo[c]).do = "produce" /\ todo'[c] = Tail(todo[c])

NothingProducedAfterDrain ==
    [][phase = "drained" /\ closed => ~ProduceCalled]_serverVars

----------------------------------------------------------------------------
(* Liveness, under ServerFairSpec.                                         *)

(* A reader that hands a record to handleAcks gets on, so that the rendezvous
   on ackChan and the sends on writeChan never wait on one another, except
   behind a handler stuck on a socket whose writer is gone. *)
AckPathProgress ==
    \A c \in Conns :
        sendingAck[c] # <<>> ~> (sendingAck[c] = <<>> \/ HandlerStuck \/ exited)

(* A shutdown signal ends the process, whatever the sessions do. *)
ShutdownTerminates == phase = "stopping" ~> exited
=============================================================================
