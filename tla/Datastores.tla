----------------------------- MODULE Datastores -----------------------------
(***************************************************************************)
(* The producers of src/datastore behind a dispatched record: what each of *)
(* them does between Produce and the reliable ack, with the store and the  *)
(* network behind it free to be slow, to fail and to come back, and with   *)
(* the process closing the producers while records are still dispatched.   *)
(*                                                                         *)
(* Readers stands for the reader goroutines of the sessions.  Each takes a *)
(* record through the producers of its record type in order.  handleAcks is*)
(* always ready for an ack here; Server shows when that is so.             *)
(***************************************************************************)
EXTENDS ProducerConfig, MqttPayload, FiniteSets

CONSTANTS
    Readers,
    Payloads,   \* record type -> payloads a vehicle may send
    MaxRecords  \* bound on the records each reader dispatches

ASSUME StoresAssumption == MaxRecords \in Nat

ASSUME PayloadsAssumption ==
    /\ "V" \in DOMAIN Payloads => Payloads["V"] \subseteq [version : STRING, data : Seq(Data)]
    /\ "alerts" \in DOMAIN Payloads => Payloads["alerts"] \subseteq Seq(Alerts)

VARIABLES
    at,         \* where each reader is
    job,        \* its record, the position in its rules, its mqtt tokens
    given,      \* records read so far, per reader
    flight,     \* messages a client library holds, outcome unknown
    received,   \* messages the store has
    token,      \* messages the mqtt client reported on -> whether it went well
    accepted,   \* <<dispatcher, record>>: the producer saw it succeed
    acked,      \* <<dispatcher, record>>: acknowledged through ackChan
    link,       \* each producer's client: "up", "down", "closed", "gone"
    closing,    \* the nats producer's closing flag
    natsEnd,    \* how the nats client closed, and whether its callback ran
    delivery,   \* the kafka record handleProducerEvents is acknowledging
    crashed     \* a panic outside the handlers ended the process

readerState == <<at, job, given>>
storeState  == <<flight, received, token, accepted, delivery>>
closeState  == <<link, closing, natsEnd, crashed>>
storeVars   == <<configVars, readerState, storeState, acked, closeState>>

NoJob == [rec |-> <<>>, pos |-> 0, tokens |-> {}, late |-> FALSE, err |-> FALSE]

StoresInit ==
    /\ ConfigInit
    /\ at = [r \in Readers |-> "idle"]
    /\ job = [r \in Readers |-> NoJob]
    /\ given = [r \in Readers |-> 0]
    /\ flight = {} /\ received = {} /\ token = << >> /\ accepted = {} /\ acked = {}
    /\ link = [d \in ToSet(DataStores) |-> "up"]
    /\ delivery = <<>> /\ closing = FALSE /\ natsEnd = "open" /\ crashed = FALSE

Running == Started /\ stage # "closed" /\ ~crashed

Item(d, rec, m) == [to |-> d, rec |-> rec, part |-> m]

(* What every store but mqtt gets: the payload as one message. *)
Whole == [topic |-> <<>>, value |-> <<>>, marshals |-> TRUE]

----------------------------------------------------------------------------
(* Dispatch.                                                               *)

Read(r) ==
    /\ Running /\ at[r] = "idle" /\ given[r] < MaxRecords
    /\ \E t \in Topics \cap DOMAIN Payloads : \E p \in Payloads[t] :
          job' = [job EXCEPT ![r] = [NoJob EXCEPT
                    !.rec = [by |-> r, n |-> given[r] + 1, topic |-> t, payload |-> p],
                    !.pos = 1]]
    /\ given' = [given EXCEPT ![r] = @ + 1]
    /\ at' = [at EXCEPT ![r] = "dispatch"]
    /\ UNCHANGED <<configVars, storeState, acked, closeState>>

Rules(r) == rules[job[r].rec.topic]

AtStore(r, d) ==
    /\ Running /\ at[r] = "dispatch"
    /\ job[r].pos <= Len(Rules(r)) /\ Rules(r)[job[r].pos] = d

(* The end of Dispatch. *)
Dispatched(r) ==
    /\ Running /\ at[r] = "dispatch" /\ job[r].pos > Len(Rules(r))
    /\ at' = [at EXCEPT ![r] = "idle"]
    /\ job' = [job EXCEPT ![r] = NoJob]
    /\ UNCHANGED <<configVars, given, storeState, acked, closeState>>

(* net/http recovers a panic of the handler; the session ends with it. *)
Panic(r) ==
    /\ at' = [at EXCEPT ![r] = "panicked"]
    /\ UNCHANGED <<configVars, job, given, storeState, acked, closeState>>

ProduceOnNil(r) == AtStore(r, NilProducer) /\ Panic(r)

(* Produce returns: to the next producer. *)
Return(r) ==
    /\ at' = [at EXCEPT ![r] = "dispatch"]
    /\ job' = [job EXCEPT ![r] = [NoJob EXCEPT !.rec = job[r].rec, !.pos = job[r].pos + 1]]
    /\ UNCHANGED given

Acknowledges(d, rec) == d \in DOMAIN reliable /\ rec.topic \in reliable[d]

(* ProcessReliableAck, from a Produce that succeeded. *)
ProcessReliableAck(r, d) ==
    /\ accepted' = accepted \cup {<<d, job[r].rec>>}
    /\ IF Acknowledges(d, job[r].rec)
       THEN at' = [at EXCEPT ![r] = "ack"] /\ UNCHANGED <<job, given>>
       ELSE Return(r)

(* The rendezvous on ackChan, and with it the end of Produce. *)
SendAck(r) ==
    /\ Running /\ at[r] = "ack"
    /\ acked' = acked \cup {<<Rules(r)[job[r].pos], job[r].rec>>}
    /\ Return(r)
    /\ UNCHANGED <<configVars, storeState, closeState>>

----------------------------------------------------------------------------
(* Synchronous stores: logger, kinesis, pubsub, zmq.                       *)

ProduceLogger(r) ==
    /\ AtStore(r, "logger") /\ Return(r)
    /\ UNCHANGED <<configVars, storeState, acked, closeState>>

(* PutRecord and result.Get return when the service has answered, or gave up;
   after Close pubsub refuses, while closing kinesis does nothing. *)
ProduceSync(r, d) ==
    /\ d \in {"kinesis", "pubsub"} /\ AtStore(r, d)
    /\ \/ /\ link[d] = "up"
          /\ received' = received \cup {Item(d, job[r].rec, Whole)}
          /\ ProcessReliableAck(r, d)
       \/ /\ received' \in {received, received \cup {Item(d, job[r].rec, Whole)}}
          /\ link[d] # "up" => received' = received
          /\ UNCHANGED accepted /\ Return(r)
    /\ UNCHANGED <<configVars, flight, token, delivery, acked, closeState>>

(* A PUB socket drops what no subscriber takes and reports success.  Close
   sets the socket to nil, and a send on nil panics. *)
ProduceZmq(r) ==
    /\ AtStore(r, "zmq")
    /\ \/ link["zmq"] = "gone" /\ Panic(r)
       \/ /\ link["zmq"] = "up"
          /\ received' \in {received, received \cup {Item("zmq", job[r].rec, Whole)}}
          /\ ProcessReliableAck(r, "zmq")
          /\ UNCHANGED <<configVars, flight, token, delivery, acked, closeState>>
       \/ /\ link["zmq"] # "gone" /\ Return(r)
          /\ UNCHANGED <<configVars, storeState, acked, closeState>>

----------------------------------------------------------------------------
(* Nats: PublishMsg copies the message into a buffer.                      *)

ProduceNats(r) ==
    /\ AtStore(r, "nats")
    /\ \/ /\ link["nats"] # "closed"
          /\ flight' = flight \cup {Item("nats", job[r].rec, Whole)}
          /\ ProcessReliableAck(r, "nats")
          /\ UNCHANGED <<configVars, received, token, delivery, acked, closeState>>
       \/ /\ Return(r)      \* closed, or the reconnect buffer is full
          /\ UNCHANGED <<configVars, storeState, acked, closeState>>

Buffered(d) == {x \in flight : x.to = d}

(* The library flushes, loses what was on the wire of a connection that
   breaks, reconnects, or gives up (MaxReconnects(-1), but not every error
   is retried) and then runs the ClosedHandler. *)
NatsFlush ==
    /\ link["nats"] = "up" /\ Buffered("nats") # {}
    /\ received' = received \cup Buffered("nats")
    /\ flight' = flight \ Buffered("nats")
    /\ UNCHANGED <<configVars, readerState, token, accepted, delivery, acked, closeState>>

NatsLink ==
    /\ \/ /\ link["nats"] = "up" /\ link' = [link EXCEPT !["nats"] = "down"]
          /\ flight' \in {flight, flight \ Buffered("nats")}
       \/ link["nats"] = "down" /\ link' = [link EXCEPT !["nats"] = "up"] /\ UNCHANGED flight
    /\ UNCHANGED <<configVars, readerState, received, token, accepted, delivery, acked, closing,
                   natsEnd, crashed>>

NatsGivesUp ==
    /\ link["nats"] = "down"
    /\ link' = [link EXCEPT !["nats"] = "closed"]
    /\ natsEnd' = "lost"
    /\ flight' = flight \ Buffered("nats")
    /\ UNCHANGED <<configVars, readerState, received, token, accepted, delivery, acked, closing,
                   crashed>>

(* The panic is in a goroutine of the library: nothing recovers it. *)
ClosedHandler ==
    /\ natsEnd \in {"lost", "closed"}
    /\ crashed' = ~closing
    /\ natsEnd' = IF natsEnd = "lost" THEN "lostHandled" ELSE "closedHandled"
    /\ flight' = IF closing THEN flight ELSE {}
    /\ UNCHANGED <<configVars, readerState, received, token, accepted, delivery, acked,
                   link, closing>>

----------------------------------------------------------------------------
(* Kafka: Produce queues, the broker answers, handleProducerEvents acks.   *)

ProduceKafka(r) ==
    /\ AtStore(r, "kafka")
    /\ \/ /\ link["kafka"] = "up"
          /\ flight' = flight \cup {Item("kafka", job[r].rec, Whole)}
       \/ UNCHANGED flight
    /\ Return(r)
    /\ UNCHANGED <<configVars, received, token, accepted, delivery, acked, closeState>>

KafkaStores ==
    /\ \E x \in Buffered("kafka") : received' = received \cup {x}
    /\ UNCHANGED <<configVars, readerState, flight, token, accepted, delivery, acked, closeState>>

(* Mutant: the branch of a failed report lacks its "continue". *)
DeliveryReport_ErrorAcked(x) ==
    /\ accepted' = IF x \in received THEN accepted \cup {<<"kafka", x.rec>>} ELSE accepted
    /\ delivery' = IF Acknowledges("kafka", x.rec) THEN <<x.rec>> ELSE <<>>

(* A report with TopicPartition.Error, or a kafka.Error, is only logged. *)
DeliveryReport(x) ==
    \/ /\ x \in received
       /\ accepted' = accepted \cup {<<"kafka", x.rec>>}
       /\ delivery' = IF Acknowledges("kafka", x.rec) THEN <<x.rec>> ELSE <<>>
    \/ UNCHANGED <<accepted, delivery>>

handleProducerEvents ==
    /\ link["kafka"] = "up" /\ delivery = <<>>
    /\ \E x \in Buffered("kafka") : DeliveryReport(x) /\ flight' = flight \ {x}
    /\ UNCHANGED <<configVars, readerState, received, token, acked, closeState>>

SendDeliveryAck ==
    /\ Running /\ delivery # <<>>
    /\ acked' = acked \cup {<<"kafka", Head(delivery)>>}
    /\ delivery' = <<>>
    /\ UNCHANGED <<configVars, readerState, flight, received, token, accepted, closeState>>

----------------------------------------------------------------------------
(* Mqtt: all messages of a record are published, then their tokens are     *)
(* waited for under one timeout.                                           *)

TypedTopics == {"V", "alerts", "errors", "connectivity"}

MqttItems(rec, messages) == {Item("mqtt", rec, m) : m \in messages}

(* The mqtt client has reported on the messages. *)
Reported(items, ok) ==
    [x \in items \cup DOMAIN token |-> IF x \in items THEN ok ELSE token[x]]

(* Mutant: the message is queued although its token has failed. *)
Publish_AlsoQueued(items) ==
    /\ flight' = flight \cup items
    /\ token' = IF link["mqtt"] = "up" THEN token ELSE Reported(items, FALSE)

(* Publish on a client that was disconnected fails at once. *)
Publish(items) ==
    IF link["mqtt"] = "up" THEN flight' = flight \cup items /\ UNCHANGED token
    ELSE token' = Reported(items, FALSE) /\ UNCHANGED flight

(* The messages go out while the payload is walked: one that cannot be
   marshalled ends Produce with some of the others published and no wait. *)
ProduceMqtt(r) ==
    /\ AtStore(r, "mqtt")
    /\ LET rec  == job[r].rec
           all  == PayloadMessages(rec.topic, rec.payload)
           good == {m \in all : m.marshals}
       IN  \/ PayloadPanics(rec.topic, rec.payload) /\ Panic(r)
           \/ /\ ~PayloadPanics(rec.topic, rec.payload)
              /\ rec.topic \in TypedTopics /\ good = all
              /\ Publish(MqttItems(rec, all))
              /\ at' = [at EXCEPT ![r] = "waiting"]
              /\ job' = [job EXCEPT ![r].tokens = MqttItems(rec, all)]
              /\ UNCHANGED <<configVars, given, received, accepted, delivery, acked,
                             closeState>>
           \/ /\ ~PayloadPanics(rec.topic, rec.payload)
              /\ rec.topic \notin TypedTopics \/ good # all
              /\ \E sent \in SUBSET good :
                    flight' = IF link["mqtt"] = "up" /\ rec.topic \in TypedTopics
                              THEN flight \cup MqttItems(rec, sent) ELSE flight
              /\ Return(r)
              /\ UNCHANGED <<configVars, received, token, accepted, delivery, acked,
                             closeState>>

(* Mutant: a token that is not done is waited for without a limit. *)
waitTokenTimeout_Unlimited(r, x) ==
    /\ x \in DOMAIN token
    /\ job' = [job EXCEPT ![r] = [job[r] EXCEPT !.tokens = @ \ {x}, !.err = @ \/ ~token[x]]]

(* Mutant: the last token decides. *)
waitTokenTimeout_LastWins(r, x) ==
    /\ x \in DOMAIN token \/ job[r].late
    /\ job' = [job EXCEPT ![r] = [job[r] EXCEPT !.tokens = @ \ {x},
                                                !.err = x \notin DOMAIN token \/ ~token[x]]]

(* A token that is done counts even when no time remains. *)
waitTokenTimeout(r, x) ==
    /\ x \in DOMAIN token \/ job[r].late
    /\ job' = [job EXCEPT ![r] = [job[r] EXCEPT !.tokens = @ \ {x},
                                                !.err = @ \/ x \notin DOMAIN token \/ ~token[x]]]

(* The tokens come in the order of a Go map of fields or alerts: any order. *)
WaitForToken(r) ==
    /\ Running /\ at[r] = "waiting"
    /\ \E x \in job[r].tokens : waitTokenTimeout(r, x)
    /\ UNCHANGED <<configVars, at, given, storeState, acked, closeState>>

(* PublishTimeout runs out for the record, whichever token is waited for. *)
PublishTimeout(r) ==
    /\ Running /\ at[r] = "waiting" /\ ~job[r].late
    /\ job' = [job EXCEPT ![r].late = TRUE]
    /\ UNCHANGED <<configVars, at, given, storeState, acked, closeState>>

AllTokensSeen(r) ==
    /\ Running /\ at[r] = "waiting" /\ job[r].tokens = {}
    /\ token' = Restrict(token, {x \in DOMAIN token : x.rec # job[r].rec})
    /\ IF job[r].err THEN Return(r) /\ UNCHANGED accepted ELSE ProcessReliableAck(r, "mqtt")
    /\ UNCHANGED <<configVars, flight, received, delivery, acked, closeState>>

Report(x, ok) ==
    token' = IF \E r \in Readers : x \in job[r].tokens THEN Reported({x}, ok) ELSE token

(* The broker gets a message, and confirms it (PUBACK, PUBCOMP) when QoS is
   not zero; with QoS 0 a message is done once it is written.  A connection
   that breaks may take any message with it. *)
MqttBroker ==
    /\ \E x \in Buffered("mqtt") :
          \/ x \notin received /\ received' = received \cup {x} /\ UNCHANGED <<flight, token>>
          \/ /\ x \in received \/ config.qos = 0
             /\ flight' = flight \ {x} /\ Report(x, TRUE) /\ UNCHANGED received
          \/ flight' = flight \ {x} /\ Report(x, FALSE) /\ UNCHANGED received
    /\ UNCHANGED <<configVars, readerState, accepted, delivery, acked, closeState>>

----------------------------------------------------------------------------
(* startServer closes the producers, whether or not the readers are done.  *)

StopServing ==
    /\ stage = "serving" /\ stage' = "closing"
    /\ UNCHANGED <<config, producers, reliable, rules, readerState, storeState, acked,
                   closeState>>

CloseClient(d) ==
    /\ stage = "closing" /\ d \in producers
    /\ link' = [link EXCEPT ![d] = IF d = "zmq" /\ @ = "closed" THEN "gone" ELSE "closed"]

(* pubsub refuses from now on.  The zmq socket is closed and then set to nil. *)
CloseSync ==
    /\ \/ CloseClient("pubsub") /\ link["pubsub"] = "up"
       \/ CloseClient("zmq") /\ link["zmq"] # "gone"
    /\ UNCHANGED <<configVars, readerState, storeState, acked, closing, natsEnd, crashed>>

(* kafkaProducer.Close does not flush: what it has not sent is dropped. *)
CloseKafka ==
    /\ CloseClient("kafka") /\ link["kafka"] = "up"
    /\ flight' = flight \ Buffered("kafka")
    /\ UNCHANGED <<configVars, readerState, received, token, accepted, delivery, acked,
                   closing, natsEnd, crashed>>

(* Disconnect fails the tokens that are still waited for. *)
CloseMqtt ==
    /\ CloseClient("mqtt") /\ link["mqtt"] = "up"
    /\ flight' = flight \ Buffered("mqtt")
    /\ token' = Reported(Buffered("mqtt"), FALSE)
    /\ UNCHANGED <<configVars, readerState, received, accepted, delivery, acked, closing,
                   natsEnd, crashed>>

MarkClosing ==
    /\ stage = "closing" /\ "nats" \in producers /\ ~closing
    /\ closing' = TRUE
    /\ UNCHANGED <<configVars, readerState, storeState, acked, link, natsEnd, crashed>>

(* natsConn.Close flushes if there is a connection. *)
DisconnectNats ==
    /\ CloseClient("nats") /\ link["nats"] # "closed"
    /\ received' = IF link["nats"] = "up" THEN received \cup Buffered("nats") ELSE received
    /\ flight' = flight \ Buffered("nats")
    /\ natsEnd' = "closed"
    /\ UNCHANGED <<configVars, readerState, token, accepted, delivery, acked, closing, crashed>>

(* Mutant: the connection is closed before the flag is set. *)
CloseNats_FlagLast ==
    DisconnectNats \/ (link["nats"] = "closed" /\ MarkClosing)

CloseNats ==
    MarkClosing \/ (closing /\ DisconnectNats)

(* main returns: every client is closed (kinesis and logger have none). *)
Exit ==
    /\ stage = "closing"
    /\ \A d \in producers \ {"logger", "kinesis"} : link[d] \in {"closed", "gone"}
    /\ "zmq" \in producers => link["zmq"] = "gone"
    /\ "nats" \in producers => closing
    /\ stage' = "closed"
    /\ UNCHANGED <<config, producers, reliable, rules, readerState, storeState, acked,
                   closeState>>

----------------------------------------------------------------------------
Produce(r) ==
    \/ ProduceOnNil(r) \/ ProduceLogger(r) \/ ProduceZmq(r) \/ ProduceNats(r)
    \/ ProduceKafka(r) \/ ProduceMqtt(r)
    \/ \E d \in {"kinesis", "pubsub"} : ProduceSync(r, d)

ReaderStep(r) ==
    Dispatched(r) \/ Produce(r) \/ SendAck(r) \/ WaitForToken(r) \/ AllTokensSeen(r)

Outside == NatsFlush \/ NatsLink \/ NatsGivesUp \/ KafkaStores \/ MqttBroker

Closing == CloseSync \/ CloseKafka \/ CloseMqtt \/ CloseNats \/ Exit

Start == ConfigureProducers /\ UNCHANGED <<readerState, storeState, acked, closeState>>

StoresNext ==
    /\ ~crashed /\ stage # "closed"
    /\ \/ Start
       \/ \E r \in Readers : Read(r) \/ ReaderStep(r) \/ PublishTimeout(r)
       \/ handleProducerEvents \/ SendDeliveryAck \/ ClosedHandler
       \/ Outside \/ StopServing \/ Closing

StoresSpec == StoresInit /\ [][StoresNext]_storeVars

(* The readers and their timers run; no broker, no link and no shutdown is
   promised to do anything.  PutRecord and result.Get do return. *)
StoresFairSpec ==
    /\ StoresSpec
    /\ \A r \in Readers :
          /\ WF_storeVars(~crashed /\ ReaderStep(r))
          /\ WF_storeVars(PublishTimeout(r))

----------------------------------------------------------------------------
(* Properties.                                                             *)

(* The messages of a record at one store. *)
MessagesAt(d, rec) ==
    IF d = "mqtt" THEN PayloadMessages(rec.topic, rec.payload) ELSE {Whole}

ItemsAt(d, rec) == {Item(d, rec, m) : m \in MessagesAt(d, rec)}

(* The variables of the producers; a message is in one place only once its
   client has reported on it, and a reader holds a record while it works. *)
StoresTypeOK ==
    /\ at \in [Readers -> {"idle", "dispatch", "waiting", "ack", "panicked"}]
    /\ given \in [Readers -> 0 .. MaxRecords]
    /\ \A r \in Readers : at[r] # "idle" <=> job[r].rec # <<>>
    /\ \A x \in flight \cup received \cup DOMAIN token :
          x.to \in producers /\ x \in ItemsAt(x.to, x.rec)
    /\ DOMAIN token \cap flight = {}
    /\ link \in [ToSet(DataStores) -> {"up", "down", "closed", "gone"}]
    /\ Len(delivery) <= 1
    /\ closing \in BOOLEAN /\ crashed \in BOOLEAN

(* The stores that confirm what they got: mqtt does unless QoS is 0. *)
Confirming(d) == d \in {"kafka", "kinesis", "pubsub"} \/ (d = "mqtt" /\ config.qos > 0)

(***************************************************************************)
(* A record acknowledged by a store that confirms has all its messages in  *)
(* that store: every field and every alert topic of it for mqtt, although  *)
(* its tokens share one timeout, tokens fail one by one and messages of a  *)
(* failed Produce are published all the same.                              *)
(***************************************************************************)
ConfirmedAcksAreStored ==
    \A x \in acked : Confirming(x[1]) => ItemsAt(x[1], x[2]) \subseteq received

(***************************************************************************)
(* What src/datastore/mqtt/README.md and src/README.md say of reliable     *)
(* acks: acknowledged data is not lost.  It is lost with nats, zmq and QoS *)
(* 0, whose producers acknowledge what no store has confirmed.             *)
(***************************************************************************)
AckedDataIsNotLost ==
    \A x \in acked : ItemsAt(x[1], x[2]) \subseteq flight \cup received

(* The panic that ends the process is that of a connection the nats client
   gave up, never that of our own Close, however late the callback runs. *)
IntentionalCloseNeverPanics == crashed => natsEnd = "lostHandled"

(* A dispatch panics, and ends its session, only for a dispatcher name that
   does not exist, for a datum without a value on its way to mqtt, or on the
   zmq socket of a server that is closing its producers. *)
PanicsHaveCause ==
    \A r \in Readers : at[r] = "panicked" =>
        LET rec   == job[r].rec
            names == ToSet(config.records[rec.topic])
        IN  \/ ~(names \subseteq KnownDispatchers)
            \/ "mqtt" \in names /\ PayloadPanics(rec.topic, rec.payload)
            \/ "zmq" \in names /\ stage # "serving"

(* The unit of every timestamp can be told. *)
TimesUnambiguous ==
    "alerts" \in DOMAIN Payloads =>
        \A p \in Payloads["alerts"] : \A i \in DOMAIN p : Unambiguous(p[i])

(***************************************************************************)
(* The current state mqtt publishes of an alert is the latest start the    *)
(* vehicle sent for that name, whichever unit each timestamp came in, and  *)
(* the history has every occurrence in the order in which they were sent.  *)
(***************************************************************************)
AlertTopicsTellThePayload ==
    \A x \in flight \cup received : x.to = "mqtt" /\ x.rec.topic = "alerts" =>
        LET sent  == alertsHistory(x.rec.payload, x.part.topic[1])
            times == {sent[i].at : i \in DOMAIN sent} \ {NoTime}
        IN  IF x.part.topic[2] = "current"
            THEN /\ x.part.value[1].startedAt \in times
                 /\ \A t \in times : t <= x.part.value[1].startedAt
            ELSE [i \in DOMAIN x.part.value |-> x.part.value[i].startedAt]
                   = [i \in DOMAIN sent |-> sent[i].at]

(* The names of the braking states, as their numbers go for a client. *)
BrakingStates(version) ==
    IF version = "1.3.0" THEN <<"unavailable", "standby", "enabled", "standstill", "unknown">>
    ELSE <<"unknown", "unavailable", "standby", "enabled", "standstill">>

(* A field that mqtt publishes has the last value the vehicle sent for it, and
   of a braking state the meaning it had for that vehicle's client; a number no
   client of ours knows stays as it is. *)
FieldTopicsTellThePayload ==
    \A x \in flight \cup received : x.to = "mqtt" /\ x.rec.topic = "V" =>
        LET sent == x.rec.payload.data
            same == {i \in DOMAIN sent : sent[i].key = x.part.topic[1]}
            told == x.part.value[1]
        IN  \E i \in same :
                /\ \A j \in same : j <= i
                /\ told.kind = sent[i].value.kind
                /\ IF told.kind = "braking" /\ sent[i].value.n \in 0 .. 4
                   THEN BrakingStates("current")[told.n + 1]
                          = BrakingStates(x.rec.payload.version)[sent[i].value.n + 1]
                   ELSE told.n = sent[i].value.n

(* The producers keep the promise of a reliable ack, on every path. *)
Promise == INSTANCE ReliableAck WITH
    taken        <- {x \in accepted : Acknowledges(x[1], x[2])},
    acknowledged <- acked

ImplementsReliableAck == Promise!AckSpec

(* Produce returns, so that the session reads on: no broker that is silent, no
   token and no timeout holds a reader for good. *)
ProduceReturns ==
    \A r \in Readers :
        at[r] # "idle" ~> (at[r] \in {"idle", "panicked"} \/ crashed \/ stage = "closed")
=============================================================================
