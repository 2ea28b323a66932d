-------------------------- MODULE DatastoresProofs --------------------------
(***************************************************************************)
(* The producers, for every configuration, any payloads and any number of  *)
(* readers and records: they keep the promise of ReliableAck, what a store *)
(* that confirms acknowledged is in that store, our own close never ends   *)
(* the process, a dispatch panics only for the causes named, and what mqtt *)
(* publishes is what the vehicle sent.                                     *)
(***************************************************************************)
EXTENDS Datastores, ProducerConfigProofs, WellFoundedInduction

(* What a reader works on. *)
Recs == {rec \in [by : Readers, n : Nat, topic : DOMAIN Payloads,
                  payload : UNION {Payloads[t] : t \in DOMAIN Payloads}] :
            rec.payload \in Payloads[rec.topic]}

Tokens == UNION {ItemsAt("mqtt", rec) : rec \in Recs}

Jobs == [rec : Recs \cup {<<>>}, pos : Nat, tokens : SUBSET Tokens, late : BOOLEAN,
         err : BOOLEAN]

(* The reader r is in a Produce of the dispatcher d. *)
In(r, d) == job[r].pos \in DOMAIN Rules(r) /\ Rules(r)[job[r].pos] = d

(* Readers work only on a server that has started, each on a record of its own,
   and wait for tokens only in mqtt's Produce and only for that record's. *)
WorkInv(r) ==
    /\ at[r] = "idle" => job[r].rec = <<>>
    /\ at[r] # "idle" =>
          /\ Started
          /\ job[r].rec \in Recs /\ job[r].rec.by = r /\ job[r].rec.topic \in Topics
          /\ job[r].pos # 0
    /\ at[r] # "waiting" => job[r].tokens = {}
    /\ at[r] = "waiting" =>
          In(r, "mqtt") /\ job[r].tokens \subseteq ItemsAt("mqtt", job[r].rec)

Places == {"idle", "dispatch", "waiting", "ack", "panicked"}

ReaderInv ==
    /\ at \in [Readers -> Places]
    /\ given \in [Readers -> 0 .. MaxRecords]
    /\ job \in [Readers -> Jobs]
    /\ \A r \in Readers : WorkInv(r)

LinkInv ==
    /\ link \in [ToSet(DataStores) -> {"up", "down", "closed", "gone"}]
    /\ link["zmq"] = "gone" => stage \in {"closing", "closed"}

(* Every message is one of its record's, sent by a server that has started; a token
   is reported on once its message has left the client, and stays only while its
   record is waited for. *)
MessageInv ==
    /\ \A x \in flight \cup received \cup DOMAIN token :
          /\ Started /\ x.to \in producers
          /\ x \in ItemsAt(x.to, x.rec) /\ x.rec \in Recs
    /\ \A x \in DOMAIN token : x.to = "mqtt"
    /\ DOMAIN token \cap flight = {}
    /\ IF link["mqtt"] = "up"
       THEN \A x \in DOMAIN token : \E r \in Readers : at[r] = "waiting" /\ x.rec = job[r].rec
       ELSE Buffered("mqtt") = {}

(* Success is known of a message only once the store has it, and of a record only
   once each of its messages is known to have succeeded. *)
StoredInv ==
    /\ \A x \in accepted : Confirming(x[1]) => ItemsAt(x[1], x[2]) \subseteq received
    /\ config.qos > 0 =>
          /\ \A x \in DOMAIN token : token[x] => x \in received
          /\ \A r \in Readers : at[r] = "waiting" =>
                \A x \in ItemsAt("mqtt", job[r].rec) :
                    x \in job[r].tokens \/ job[r].err \/ x \in received

Taken == {x \in accepted : Acknowledges(x[1], x[2])}

(* Whoever is about to acknowledge a record has it accepted. *)
AckInv ==
    /\ accepted # {} => Started
    /\ acked \subseteq accepted
    /\ \A r \in Readers : at[r] = "ack" =>
          \E d \in producers : In(r, d) /\ <<d, job[r].rec>> \in Taken
    /\ delivery # <<>> => Len(delivery) = 1 /\ <<"kafka", Head(delivery)>> \in Taken

(* Who closed the nats connection: the producer, after it set the flag, or the
   library, which is the only one whose callback may find the flag unset. *)
NatsInv ==
    /\ closing \in BOOLEAN /\ crashed \in BOOLEAN
    /\ natsEnd \in {"closed", "closedHandled"} => closing
    /\ IntentionalCloseNeverPanics

StoresInv ==
    /\ ConfigInv /\ ReaderInv /\ LinkInv /\ MessageInv /\ StoredInv /\ AckInv /\ NatsInv
    /\ PanicsHaveCause
----------------------------------------------------------------------------
(* Names, configuration and the reader's position.                         *)

LEMMA StoreNames ==
    ToSet(DataStores) = {"kafka", "pubsub", "kinesis", "zmq", "mqtt", "nats"}
BY DEF ToSet, DataStores

(* Start-up is over once a server is started: then nothing changes what it
   configured, and before only the configuration changes. *)
LEMMA ConfigSettles ==
    ASSUME ConfigInv, [StoresNext]_storeVars
    PROVE  /\ ConfigInv'
           /\ config' = config
           /\ producers \subseteq producers'
           /\ Started => Started' /\ UNCHANGED <<producers, reliable, rules>>
           /\ stage' # stage =>
                 UNCHANGED <<readerState, storeState, acked, closeState>>
           /\ stage \in {"closing", "closed"} => stage' \in {"closing", "closed"}
<1>1. CASE UNCHANGED configVars
  BY <1>1, ConfigFrame DEF configVars, Started
<1>2. CASE Start
  <2>1. ConfigInv'
    BY <1>2, ConfigureStep DEF Start
  <2>2. /\ config' = config /\ producers \subseteq producers' /\ ~Started
        /\ stage \notin {"closing", "closed"}
    BY <1>2 DEF Start, ConfigureProducers, configureReliableAckSources, ConstructProducer,
                ConfigureRules, ConnectMqtt, ConfigInv, Started
  <2> QED
    BY <1>2, <2>1, <2>2 DEF Start
<1>3. CASE StopServing \/ Exit
  <2>1. /\ UNCHANGED <<config, producers, reliable, rules>> /\ Started /\ Started'
        /\ stage' \in {"closing", "closed"}
        /\ UNCHANGED <<readerState, storeState, acked, closeState>>
    BY <1>3 DEF StopServing, Exit, Started
  <2> QED
    BY <2>1, ConfigFrame
<1>4. UNCHANGED configVars \/ Start \/ StopServing \/ Exit
  <2>1. CASE UNCHANGED storeVars
    BY <2>1 DEF storeVars
  <2>2. ASSUME NEW r \in Readers, Read(r) \/ ReaderStep(r) \/ PublishTimeout(r)
        PROVE  UNCHANGED configVars
    BY <2>2 DEF Read, ReaderStep, Dispatched, Produce, ProduceOnNil, ProduceLogger, ProduceZmq,
                ProduceNats, ProduceKafka, ProduceMqtt, ProduceSync, Panic, SendAck,
                WaitForToken, AllTokensSeen, PublishTimeout
  <2>3. CASE handleProducerEvents \/ SendDeliveryAck \/ ClosedHandler \/ Outside
    BY <2>3 DEF handleProducerEvents, SendDeliveryAck, ClosedHandler, Outside, NatsFlush,
                NatsLink, NatsGivesUp, KafkaStores, MqttBroker
  <2>4. CASE CloseSync \/ CloseKafka \/ CloseMqtt \/ CloseNats
    BY <2>4 DEF CloseSync, CloseKafka, CloseMqtt, CloseNats, MarkClosing, DisconnectNats,
                CloseClient, configVars
  <2> QED
    BY <2>1, <2>2, <2>3, <2>4 DEF StoresNext, Closing
<1> QED
  BY <1>1, <1>2, <1>3, <1>4
----------------------------------------------------------------------------
(* The clients of the stores.                                              *)

(* The steps that leave every client, the nats flag and the process alone. *)
LEMMA QuietSteps ==
    ASSUME [StoresNext]_storeVars
    PROVE  \/ UNCHANGED closeState
           \/ ~crashed /\ (ClosedHandler \/ NatsLink \/ NatsGivesUp)
           \/ ~crashed /\ (CloseSync \/ CloseKafka \/ CloseMqtt \/ CloseNats)
<1>1. CASE UNCHANGED storeVars
  BY <1>1 DEF storeVars
<1>2. CASE Start \/ StopServing \/ Exit
  BY <1>2 DEF Start, StopServing, Exit
<1>3. ASSUME NEW r \in Readers, Read(r) \/ ReaderStep(r) \/ PublishTimeout(r)
      PROVE  UNCHANGED closeState
  BY <1>3 DEF Read, ReaderStep, Dispatched, Produce, ProduceOnNil, ProduceLogger, ProduceZmq,
              ProduceNats, ProduceKafka, ProduceMqtt, ProduceSync, Panic, SendAck,
              WaitForToken, AllTokensSeen, PublishTimeout
<1>4. CASE handleProducerEvents \/ SendDeliveryAck \/ NatsFlush \/ KafkaStores \/ MqttBroker
  BY <1>4 DEF handleProducerEvents, SendDeliveryAck, NatsFlush, KafkaStores, MqttBroker
<1> QED
  BY <1>1, <1>2, <1>3, <1>4 DEF StoresNext, Outside, Closing

LEMMA NatsStep ==
    ASSUME NatsInv, [StoresNext]_storeVars
    PROVE  NatsInv'
<1> USE DEF NatsInv, IntentionalCloseNeverPanics
<1>1. CASE UNCHANGED closeState
  BY <1>1 DEF closeState
<1>2. CASE ~crashed /\ (NatsGivesUp \/ NatsLink)
  BY <1>2 DEF NatsGivesUp, NatsLink
<1>3. CASE ~crashed /\ ClosedHandler
  BY <1>3 DEF ClosedHandler
<1>4. CASE ~crashed /\ CloseNats
  <2>1. CASE MarkClosing
    BY <2>1 DEF MarkClosing
  <2>2. CASE closing /\ DisconnectNats
    <3>1. natsEnd' = "closed" /\ UNCHANGED <<closing, crashed>>
      BY <2>2 DEF DisconnectNats
    <3> QED
      BY <1>4, <2>2, <3>1
  <2> QED
    BY <1>4, <2>1, <2>2 DEF CloseNats
<1>5. CASE ~crashed /\ (CloseSync \/ CloseKafka \/ CloseMqtt)
  <2>1. UNCHANGED <<closing, natsEnd, crashed>>
    BY <1>5 DEF CloseSync, CloseKafka, CloseMqtt
  <2> QED
    BY <2>1
<1> QED
  BY <1>1, <1>2, <1>3, <1>4, <1>5, QuietSteps

LEMMA LinkStep ==
    ASSUME ConfigInv, LinkInv, [StoresNext]_storeVars
    PROVE  LinkInv'
<1> USE DEF LinkInv
<1>1. stage \in {"closing", "closed"} => stage' \in {"closing", "closed"}
  BY ConfigSettles
<1>2. CASE UNCHANGED closeState
  BY <1>1, <1>2 DEF closeState
<1>3. CASE ClosedHandler
  BY <1>1, <1>3 DEF ClosedHandler
<1>4. CASE NatsLink \/ NatsGivesUp
  BY <1>1, <1>4, StoreNames DEF NatsLink, NatsGivesUp
<1>5. CASE CloseSync \/ CloseKafka \/ CloseMqtt \/ CloseNats
  <2>1. CASE UNCHANGED link
    BY <1>1, <2>1
  <2>2. CASE link' # link
    BY <1>1, <1>5, <2>2, StoreNames
    DEF CloseSync, CloseKafka, CloseMqtt, CloseNats, MarkClosing, DisconnectNats, CloseClient
  <2> QED
    BY <2>1, <2>2
<1> QED
  BY <1>2, <1>3, <1>4, <1>5, QuietSteps
----------------------------------------------------------------------------
(* The readers.                                                            *)

(* A reader in a Produce is at a rule of its record's type. *)
LEMMA AtRule ==
    ASSUME ConfigInv, ReaderInv, NEW r \in Readers, NEW d, AtStore(r, d)
    PROVE  /\ at[r] = "dispatch" /\ Started /\ In(r, d)
           /\ \/ d \in producers /\ d # NilProducer
                 /\ config.records[job[r].rec.topic][job[r].pos] = d
              \/ d = NilProducer
                 /\ config.records[job[r].rec.topic][job[r].pos] \notin KnownDispatchers
           /\ job[r].pos \in DOMAIN config.records[job[r].rec.topic]
           /\ job[r].rec \in Recs
<1>1. /\ at[r] = "dispatch" /\ Started /\ job[r].pos <= Len(Rules(r)) /\ Rules(r)[job[r].pos] = d
      /\ job[r].pos \in Nat \ {0} /\ job[r].rec.topic \in Topics /\ job[r].rec \in Recs
  BY DEF AtStore, Running, ReaderInv, WorkInv, Jobs
<1>2. /\ Rules(r) \in Seq(STRING \cup {NilProducer})
      /\ DOMAIN Rules(r) = DOMAIN config.records[job[r].rec.topic]
      /\ \A i \in DOMAIN Rules(r) :
            \/ /\ config.records[job[r].rec.topic][i] \in producers
               /\ Rules(r)[i] = config.records[job[r].rec.topic][i]
            \/ /\ config.records[job[r].rec.topic][i] \notin KnownDispatchers
               /\ Rules(r)[i] = NilProducer
  BY <1>1, RuleOf DEF Rules
<1>3. job[r].pos \in DOMAIN Rules(r)
  <2> DEFINE s == Rules(r)
             k == job[r].pos
  <2>1. s \in Seq(STRING \cup {NilProducer}) /\ k \in Nat \ {0} /\ k <= Len(s)
    BY <1>1, <1>2
  <2> HIDE DEF s, k
  <2>2. k \in DOMAIN s
    BY <2>1
  <2> QED
    BY <2>2 DEF s, k
<1>4. producers \subseteq KnownDispatchers
  BY <1>1 DEF ConfigInv, Started
<1> QED
  BY <1>1, <1>2, <1>3, <1>4, ConfigsAssumption DEF In

(* Only the place of one reader changes. *)
Only(r) ==
    /\ at' = [at EXCEPT ![r] = at'[r]]
    /\ job' = [job EXCEPT ![r] = job'[r]]

LEMMA WorkFrame ==
    ASSUME ConfigInv, [StoresNext]_storeVars, NEW r, WorkInv(r),
           at'[r] = at[r], job'[r] = job[r]
    PROVE  WorkInv(r)'
<1>1. config' = config /\ (Started => Started' /\ rules' = rules)
  BY ConfigSettles
<1> QED
  BY <1>1 DEF WorkInv, In, Rules, Topics, ItemsAt, Item, MessagesAt, Whole

LEMMA OneReader ==
    ASSUME ConfigInv, ReaderInv, [StoresNext]_storeVars, NEW r \in Readers, Only(r),
           at'[r] \in Places, job'[r] \in Jobs, given' \in [Readers -> 0 .. MaxRecords],
           WorkInv(r)'
    PROVE  ReaderInv'
<1>1. at' \in [Readers -> Places] /\ job' \in [Readers -> Jobs]
  BY DEF Only, ReaderInv
<1>2. ASSUME NEW q \in Readers PROVE WorkInv(q)'
  <2>1. CASE q = r
    BY <2>1
  <2>2. CASE q # r
    <3>1. at'[q] = at[q] /\ job'[q] = job[q]
      BY <2>2 DEF Only, ReaderInv
    <3> QED
      BY <3>1, WorkFrame DEF ReaderInv
  <2> QED
    BY <2>1, <2>2
<1> QED
  BY <1>1, <1>2 DEF ReaderInv

(* The ways in which a Produce leaves its reader. *)
Returns(r) == at[r] \in {"dispatch", "waiting", "ack"} /\ Return(r)

Panics(r) ==
    /\ at[r] = "dispatch" /\ at' = [at EXCEPT ![r] = "panicked"] /\ UNCHANGED <<job, given>>

Acks(r) ==
    /\ at[r] \in {"dispatch", "waiting"} /\ job[r].tokens = {}
    /\ \E d \in producers : In(r, d) /\ Acknowledges(d, job[r].rec)
    /\ at' = [at EXCEPT ![r] = "ack"] /\ UNCHANGED <<job, given>>

Waits(r) ==
    /\ at[r] = "dispatch" /\ In(r, "mqtt")
    /\ at' = [at EXCEPT ![r] = "waiting"]
    /\ job' = [job EXCEPT ![r].tokens = ItemsAt("mqtt", job[r].rec)]
    /\ UNCHANGED given

LEMMA ProduceMoves ==
    ASSUME ConfigInv, ReaderInv, NEW r \in Readers, Produce(r)
    PROVE  Returns(r) \/ Panics(r) \/ Acks(r) \/ Waits(r)
<1>1. ASSUME NEW d, AtStore(r, d)
      PROVE  /\ at[r] = "dispatch" /\ In(r, d) /\ job[r].tokens = {}
             /\ d \in producers \/ d = NilProducer
  BY <1>1, AtRule DEF ReaderInv, WorkInv
<1>2. NilProducer \notin ToSet(DataStores)
  BY ConfigsAssumption DEF KnownDispatchers
<1>3. ASSUME NEW d \in ToSet(DataStores), AtStore(r, d), ProcessReliableAck(r, d)
      PROVE  Returns(r) \/ Acks(r)
  <2>1. at[r] = "dispatch" /\ In(r, d) /\ job[r].tokens = {} /\ d \in producers
    BY <1>1, <1>2, <1>3
  <2> QED
    BY <1>3, <2>1 DEF ProcessReliableAck, Returns, Acks
<1>4. ASSUME NEW d, AtStore(r, d), Return(r) PROVE Returns(r)
  BY <1>1, <1>4 DEF Returns
<1>5. ASSUME NEW d, AtStore(r, d), Panic(r) PROVE Panics(r)
  BY <1>1, <1>5 DEF Panic, Panics
<1>6. CASE ProduceOnNil(r)
  BY <1>5, <1>6 DEF ProduceOnNil
<1>7. CASE ProduceLogger(r)
  BY <1>4, <1>7 DEF ProduceLogger
<1>8. CASE ProduceZmq(r)
  BY <1>3, <1>4, <1>5, <1>8, StoreNames DEF ProduceZmq
<1>9. CASE ProduceNats(r)
  BY <1>3, <1>4, <1>9, StoreNames DEF ProduceNats
<1>10. CASE ProduceKafka(r)
  BY <1>4, <1>10 DEF ProduceKafka
<1>11. ASSUME NEW d \in {"kinesis", "pubsub"}, ProduceSync(r, d)
       PROVE  Returns(r) \/ Acks(r)
  BY <1>3, <1>4, <1>11, StoreNames DEF ProduceSync
<1>12. CASE ProduceMqtt(r)
  <2>1. AtStore(r, "mqtt")
    BY <1>12 DEF ProduceMqtt
  <2>2. \/ Panic(r) \/ Return(r)
        \/ /\ at' = [at EXCEPT ![r] = "waiting"]
           /\ job' = [job EXCEPT ![r].tokens = MqttItems(job[r].rec,
                         PayloadMessages(job[r].rec.topic, job[r].rec.payload))]
           /\ UNCHANGED given
    BY <1>12 DEF ProduceMqtt
  <2>3. MqttItems(job[r].rec, PayloadMessages(job[r].rec.topic, job[r].rec.payload))
          = ItemsAt("mqtt", job[r].rec)
    BY DEF MqttItems, ItemsAt, MessagesAt
  <2> QED
    BY <1>1, <1>4, <1>5, <2>1, <2>2, <2>3 DEF Waits
<1> QED
  BY <1>6, <1>7, <1>8, <1>9, <1>10, <1>11, <1>12 DEF Produce
----------------------------------------------------------------------------
(* What each way of moving does to the reader and to the others.           *)

LEMMA ReturnMoves ==
    ASSUME ConfigInv, ReaderInv, [StoresNext]_storeVars, NEW r \in Readers, Returns(r)
    PROVE  ReaderInv'
<1>1. /\ at[r] # "idle" /\ at' = [at EXCEPT ![r] = "dispatch"] /\ given' = given
      /\ job' = [job EXCEPT ![r] = job'[r]]
      /\ job'[r] = [rec |-> job[r].rec, pos |-> job[r].pos + 1, tokens |-> {},
                    late |-> FALSE, err |-> FALSE]
  <2>1. /\ job' = [job EXCEPT ![r] = job'[r]]
        /\ job'[r] = [NoJob EXCEPT !.rec = job[r].rec, !.pos = job[r].pos + 1]
    BY DEF Returns, Return, ReaderInv
  <2>2. job'[r] = [rec |-> job[r].rec, pos |-> job[r].pos + 1, tokens |-> {},
                   late |-> FALSE, err |-> FALSE]
    BY <2>1 DEF NoJob
  <2> QED
    BY <2>1, <2>2 DEF Returns, Return
<1>2. /\ at'[r] = "dispatch"
      /\ job'[r] = [rec |-> job[r].rec, pos |-> job[r].pos + 1, tokens |-> {},
                    late |-> FALSE, err |-> FALSE]
      /\ job[r] \in Jobs /\ WorkInv(r)
  BY <1>1 DEF ReaderInv
<1>3. Only(r)
  BY <1>1, <1>2 DEF Only
<1>4. job[r].rec \in Recs \cup {<<>>} /\ job[r].pos \in Nat
  BY <1>2 DEF Jobs
<1>5. job'[r] \in Jobs
  BY <1>2, <1>4 DEF Jobs
<1>6. Started' /\ config' = config
  BY <1>1, <1>2, ConfigSettles DEF WorkInv
<1>7. WorkInv(r)'
  BY <1>1, <1>2, <1>4, <1>6 DEF WorkInv, Topics
<1> QED
  BY <1>1, <1>2, <1>3, <1>5, <1>7, OneReader DEF Places, ReaderInv

LEMMA PanicMoves ==
    ASSUME ConfigInv, ReaderInv, [StoresNext]_storeVars, NEW r \in Readers,
           Panics(r) \/ Acks(r)
    PROVE  ReaderInv'
<1>1. /\ at[r] \in {"dispatch", "waiting"} /\ UNCHANGED <<job, given>> /\ job[r].tokens = {}
      /\ at' = [at EXCEPT ![r] = at'[r]] /\ at'[r] \in {"panicked", "ack"}
  BY DEF Panics, Acks, ReaderInv, WorkInv
<1>2. job[r] \in Jobs /\ WorkInv(r) /\ Only(r)
  BY <1>1 DEF ReaderInv, Only
<1>3. Started' /\ config' = config
  BY <1>1, <1>2, ConfigSettles DEF WorkInv
<1>4. WorkInv(r)'
  BY <1>1, <1>2, <1>3 DEF WorkInv, Topics
<1> QED
  BY <1>1, <1>2, <1>4, OneReader DEF Places, ReaderInv

LEMMA WaitMoves ==
    ASSUME ConfigInv, ReaderInv, [StoresNext]_storeVars, NEW r \in Readers, Waits(r)
    PROVE  ReaderInv'
<1>1. /\ at[r] = "dispatch" /\ In(r, "mqtt") /\ given' = given
      /\ at' = [at EXCEPT ![r] = "waiting"] /\ at'[r] = "waiting"
      /\ job' = [job EXCEPT ![r] = [@ EXCEPT !.tokens = ItemsAt("mqtt", job[r].rec)]]
      /\ job'[r] = [job[r] EXCEPT !.tokens = ItemsAt("mqtt", job[r].rec)]
      /\ job[r] \in Jobs /\ WorkInv(r)
  BY DEF Waits, ReaderInv
<1>2. Only(r)
  BY <1>1 DEF Only
<1>3. Started /\ Started' /\ config' = config /\ rules' = rules
  BY <1>1, ConfigSettles DEF WorkInv
<1>4. /\ job'[r].rec = job[r].rec /\ job'[r].pos = job[r].pos
      /\ job'[r].tokens = ItemsAt("mqtt", job[r].rec)
      /\ job[r].rec \in Recs
  BY <1>1 DEF Jobs, WorkInv
<1>5. ItemsAt("mqtt", job[r].rec) \subseteq Tokens
  BY <1>4 DEF Tokens
<1>6. job'[r] \in Jobs
  BY <1>1, <1>5 DEF Jobs
<1>7. In(r, "mqtt")'
  BY <1>1, <1>3, <1>4 DEF In, Rules
<1>8. job'[r].tokens \subseteq ItemsAt("mqtt", job'[r].rec)
  BY <1>4
<1>9. WorkInv(r)'
  BY <1>1, <1>3, <1>4, <1>7, <1>8 DEF WorkInv, Topics
<1> QED
  BY <1>1, <1>2, <1>6, <1>9, OneReader DEF Places, ReaderInv

LEMMA TokenMoves ==
    ASSUME ConfigInv, ReaderInv, [StoresNext]_storeVars, NEW r \in Readers,
           WaitForToken(r) \/ PublishTimeout(r)
    PROVE  ReaderInv'
<1>1. /\ at[r] = "waiting" /\ UNCHANGED <<at, given>> /\ job[r] \in Jobs /\ WorkInv(r)
  BY DEF WaitForToken, PublishTimeout, ReaderInv
<1>2. Started /\ Started' /\ config' = config /\ rules' = rules
  BY <1>1, ConfigSettles DEF WorkInv
<1>3. /\ job' = [job EXCEPT ![r] = job'[r]] /\ job'[r] \in Jobs
      /\ job'[r].rec = job[r].rec /\ job'[r].pos = job[r].pos
      /\ job'[r].tokens \subseteq job[r].tokens
  <2>1. CASE WaitForToken(r)
    <3>1. PICK x \in job[r].tokens : waitTokenTimeout(r, x)
      BY <2>1 DEF WaitForToken
    <3>2. /\ job' = [job EXCEPT ![r] = job'[r]]
          /\ job'[r] = [job[r] EXCEPT !.tokens = @ \ {x},
                                      !.err = @ \/ x \notin DOMAIN token \/ ~token[x]]
      BY <3>1 DEF waitTokenTimeout, ReaderInv
    <3> QED
      BY <1>1, <3>2 DEF Jobs
  <2>2. CASE PublishTimeout(r)
    <3>1. job' = [job EXCEPT ![r] = job'[r]] /\ job'[r] = [job[r] EXCEPT !.late = TRUE]
      BY <2>2 DEF PublishTimeout, ReaderInv
    <3> QED
      BY <1>1, <3>1 DEF Jobs
  <2> QED
    BY <2>1, <2>2
<1>4. Only(r)
  BY <1>1, <1>3 DEF Only, ReaderInv
<1>5. In(r, "mqtt")'
  BY <1>1, <1>2, <1>3 DEF In, Rules, WorkInv
<1>6. WorkInv(r)'
  BY <1>1, <1>2, <1>3, <1>5 DEF WorkInv, Topics, ItemsAt, Item, MessagesAt, Whole
<1> QED
  BY <1>1, <1>3, <1>4, <1>6, OneReader DEF Places, ReaderInv

LEMMA ReadMoves ==
    ASSUME ConfigInv, ReaderInv, [StoresNext]_storeVars, NEW r \in Readers, Read(r)
    PROVE  ReaderInv'
<1>1. PICK t \in Topics \cap DOMAIN Payloads :
          \E p \in Payloads[t] : job' = [job EXCEPT ![r] = [NoJob EXCEPT
                    !.rec = [by |-> r, n |-> given[r] + 1, topic |-> t, payload |-> p],
                    !.pos = 1]]
  BY DEF Read
<1>2. PICK p \in Payloads[t] :
          job' = [job EXCEPT ![r] = [NoJob EXCEPT
                    !.rec = [by |-> r, n |-> given[r] + 1, topic |-> t, payload |-> p],
                    !.pos = 1]]
  BY <1>1
<1> DEFINE rec == [by |-> r, n |-> given[r] + 1, topic |-> t, payload |-> p]
<1>3. /\ at' = [at EXCEPT ![r] = "dispatch"] /\ at'[r] = "dispatch" /\ Started
      /\ given' = [given EXCEPT ![r] = @ + 1] /\ given[r] < MaxRecords
      /\ given \in [Readers -> 0 .. MaxRecords]
  BY DEF Read, Running, ReaderInv
<1>4. given' \in [Readers -> 0 .. MaxRecords]
  BY <1>3, StoresAssumption
<1>5. rec \in Recs /\ rec.by = r /\ rec.topic \in Topics
  BY <1>3, StoresAssumption DEF Recs
<1> HIDE DEF rec
<1>6. /\ job' = [job EXCEPT ![r] = job'[r]]
      /\ job'[r] = [NoJob EXCEPT !.rec = rec, !.pos = 1]
  BY <1>2 DEF rec, ReaderInv
<1>7. job'[r] = [rec |-> rec, pos |-> 1, tokens |-> {}, late |-> FALSE, err |-> FALSE]
  BY <1>6 DEF NoJob
<1>8. job'[r] \in Jobs
  BY <1>5, <1>7 DEF Jobs
<1>9. Only(r)
  BY <1>3, <1>6 DEF Only
<1>10. Started' /\ config' = config
  BY <1>3, ConfigSettles
<1>11. WorkInv(r)'
  BY <1>3, <1>5, <1>7, <1>10 DEF WorkInv, Topics
<1> QED
  BY <1>3, <1>4, <1>8, <1>9, <1>11, OneReader DEF Places

LEMMA DispatchedMoves ==
    ASSUME ConfigInv, ReaderInv, [StoresNext]_storeVars, NEW r \in Readers, Dispatched(r)
    PROVE  ReaderInv'
<1>1. /\ at' = [at EXCEPT ![r] = "idle"] /\ at'[r] = "idle" /\ given' = given
      /\ job' = [job EXCEPT ![r] = NoJob] /\ job'[r] = NoJob
  BY DEF Dispatched, ReaderInv
<1>2. NoJob \in Jobs
  BY DEF NoJob, Jobs
<1>3. Only(r)
  BY <1>1 DEF Only
<1>4. WorkInv(r)'
  BY <1>1 DEF WorkInv, NoJob
<1> QED
  BY <1>1, <1>2, <1>3, <1>4, OneReader DEF Places, ReaderInv

(* The dispatcher a reader is at was constructed, and configured for the type. *)
LEMMA InProducer ==
    ASSUME ConfigInv, NEW r \in Readers, WorkInv(r), at[r] # "idle", NEW d, In(r, d),
           d # NilProducer
    PROVE  /\ d \in producers
           /\ d \in ToSet(config.records[job[r].rec.topic])
<1>1. Started /\ job[r].rec.topic \in Topics
  BY DEF WorkInv
<1>2. /\ job[r].pos \in DOMAIN Rules(r) /\ Rules(r)[job[r].pos] = d
      /\ DOMAIN Rules(r) = DOMAIN config.records[job[r].rec.topic]
      /\ \A i \in DOMAIN Rules(r) :
            \/ config.records[job[r].rec.topic][i] \in producers
               /\ Rules(r)[i] = config.records[job[r].rec.topic][i]
            \/ Rules(r)[i] = NilProducer
  BY <1>1, RuleOf DEF In, Rules
<1> QED
  BY <1>2 DEF ToSet

LEMMA AllTokensSeenMoves ==
    ASSUME ConfigInv, ReaderInv, NEW r \in Readers, AllTokensSeen(r)
    PROVE  Returns(r) \/ Acks(r)
<1>1. at[r] = "waiting" /\ job[r].tokens = {} /\ In(r, "mqtt") /\ WorkInv(r)
  BY DEF AllTokensSeen, ReaderInv, WorkInv
<1>2. "mqtt" \in producers
  BY <1>1, InProducer, ConfigsAssumption, StoreNames DEF KnownDispatchers
<1> QED
  BY <1>1, <1>2 DEF AllTokensSeen, ProcessReliableAck, Returns, Acks

(* One reader moves, or none. *)
LEMMA ReaderFrame ==
    ASSUME ConfigInv, ReaderInv, [StoresNext]_storeVars
    PROVE  \/ UNCHANGED readerState
           \/ \E r \in Readers :
                 /\ \/ Read(r) \/ Dispatched(r) \/ Produce(r) \/ SendAck(r) \/ WaitForToken(r)
                    \/ AllTokensSeen(r) \/ PublishTimeout(r)
                 /\ \A q \in Readers \ {r} : at'[q] = at[q] /\ job'[q] = job[q]
<1>1. CASE UNCHANGED storeVars
  BY <1>1 DEF storeVars
<1>2. CASE handleProducerEvents \/ SendDeliveryAck \/ ClosedHandler \/ Outside
  BY <1>2 DEF handleProducerEvents, SendDeliveryAck, ClosedHandler, Outside, NatsFlush,
              NatsLink, NatsGivesUp, KafkaStores, MqttBroker
<1>3. CASE Start \/ StopServing \/ Closing
  BY <1>3 DEF Start, StopServing, Closing, Exit, CloseSync, CloseKafka, CloseMqtt, CloseNats,
              MarkClosing, DisconnectNats
<1>4. ASSUME NEW r \in Readers, NEW q \in Readers \ {r},
             Read(r) \/ ReaderStep(r) \/ PublishTimeout(r)
      PROVE  at'[q] = at[q] /\ job'[q] = job[q]
  <2>1. CASE Produce(r) \/ AllTokensSeen(r) \/ SendAck(r)
    <3>1. Returns(r) \/ Panics(r) \/ Acks(r) \/ Waits(r)
      BY <2>1, ProduceMoves, AllTokensSeenMoves DEF SendAck, Returns
    <3> QED
      BY <3>1 DEF Returns, Return, Panics, Acks, Waits, ReaderInv
  <2>2. CASE Read(r) \/ Dispatched(r)
    BY <2>2 DEF Read, Dispatched, ReaderInv
  <2>3. CASE WaitForToken(r) \/ PublishTimeout(r)
    BY <2>3 DEF WaitForToken, waitTokenTimeout, PublishTimeout, ReaderInv
  <2> QED
    BY <1>4, <2>1, <2>2, <2>3 DEF ReaderStep
<1> QED
  BY <1>1, <1>2, <1>3, <1>4 DEF StoresNext, ReaderStep

LEMMA ReaderMoves ==
    ASSUME ConfigInv, ReaderInv, [StoresNext]_storeVars
    PROVE  ReaderInv'
<1>1. ASSUME NEW r \in Readers, Produce(r) \/ AllTokensSeen(r) \/ SendAck(r)
      PROVE  ReaderInv'
  <2>1. SendAck(r) => Returns(r)
    BY DEF SendAck, Returns
  <2> QED
    BY <1>1, <2>1, ProduceMoves, AllTokensSeenMoves, ReturnMoves, PanicMoves, WaitMoves
<1>2. CASE UNCHANGED readerState
  <2>1. ASSUME NEW r \in Readers PROVE WorkInv(r)'
    BY <1>2, WorkFrame DEF readerState, ReaderInv
  <2> QED
    BY <1>2, <2>1 DEF readerState, ReaderInv
<1> QED
  BY <1>1, <1>2, ReaderFrame, ReadMoves, DispatchedMoves, TokenMoves

(* A panicked reader stays, and a reader waits on until it has seen its tokens. *)
LEMMA ReaderKept ==
    ASSUME ConfigInv, ReaderInv, [StoresNext]_storeVars, NEW q \in Readers,
           at[q] \in {"waiting", "panicked"}, ~AllTokensSeen(q)
    PROVE  at'[q] = at[q] /\ job'[q].rec = job[q].rec
<1>1. CASE UNCHANGED readerState
  BY <1>1 DEF readerState
<1>2. CASE WaitForToken(q) \/ PublishTimeout(q)
  BY <1>2 DEF WaitForToken, waitTokenTimeout, PublishTimeout, ReaderInv, Jobs
<1>3. ASSUME Read(q) \/ Dispatched(q) \/ Produce(q) \/ SendAck(q) PROVE FALSE
  BY <1>3 DEF Read, Dispatched, SendAck, Produce, ProduceOnNil, ProduceLogger, ProduceZmq,
              ProduceNats, ProduceKafka, ProduceMqtt, ProduceSync, AtStore
<1> QED
  BY <1>1, <1>2, <1>3, ReaderFrame
----------------------------------------------------------------------------
(* The messages.                                                           *)

LEMMA ItemsOf ==
    ASSUME NEW d, NEW rec, NEW x \in ItemsAt(d, rec)
    PROVE  x.to = d /\ x.rec = rec
BY DEF ItemsAt, Item

LEMMA WholeItem ==
    ASSUME NEW d, d # "mqtt", NEW rec
    PROVE  ItemsAt(d, rec) = {Item(d, rec, Whole)}
BY DEF ItemsAt, MessagesAt

(* Two readers work on two records. *)
LEMMA OwnRecords ==
    ASSUME ReaderInv, NEW r \in Readers, NEW q \in Readers, at[r] # "idle", at[q] # "idle",
           job[r].rec = job[q].rec
    PROVE  r = q
BY DEF ReaderInv, WorkInv

(* A record that nobody waits for, of an mqtt client that is up, has no report. *)
LEMMA Unreported ==
    ASSUME ReaderInv, MessageInv, NEW r \in Readers, at[r] = "dispatch", link["mqtt"] = "up"
    PROVE  DOMAIN token \cap ItemsAt("mqtt", job[r].rec) = {}
<1> SUFFICES ASSUME NEW x \in DOMAIN token, x \in ItemsAt("mqtt", job[r].rec) PROVE FALSE
  OBVIOUS
<1>1. x.rec = job[r].rec
  BY ItemsOf
<1>2. PICK q \in Readers : at[q] = "waiting" /\ x.rec = job[q].rec
  BY DEF MessageInv
<1> QED
  BY <1>1, <1>2, OwnRecords

LEMMA MessageFrame ==
    ASSUME MessageInv, producers \subseteq producers', Started => Started',
           \A x \in (flight' \cup received') \ (flight \cup received) :
              Started /\ x.to \in producers /\ x \in ItemsAt(x.to, x.rec) /\ x.rec \in Recs,
           token' = token, DOMAIN token \cap flight' = {},
           link'["mqtt"] = link["mqtt"],
           \A x \in flight' \ flight : x.to = "mqtt" => link["mqtt"] = "up",
           \A q \in Readers : at[q] = "waiting" =>
              at'[q] = "waiting" /\ job'[q].rec = job[q].rec
    PROVE  MessageInv'
<1>1. ASSUME NEW x \in flight' \cup received' \cup DOMAIN token
      PROVE  Started /\ x.to \in producers /\ x \in ItemsAt(x.to, x.rec) /\ x.rec \in Recs
  BY DEF MessageInv
<1> QED
  BY <1>1 DEF MessageInv, Buffered, ItemsAt, Item, MessagesAt, Whole

(* A reader that produces leaves those that wait alone. *)
LEMMA ProduceKeeps ==
    ASSUME ConfigInv, ReaderInv, NEW r \in Readers, Produce(r), NEW q \in Readers,
           at[q] = "waiting"
    PROVE  at'[q] = "waiting" /\ job'[q] = job[q]
<1>1. at[r] = "dispatch"
  BY DEF Produce, ProduceOnNil, ProduceLogger, ProduceZmq, ProduceNats, ProduceKafka,
         ProduceMqtt, ProduceSync, AtStore
<1> QED
  BY <1>1, ProduceMoves DEF Returns, Return, Panics, Acks, Waits, ReaderInv

(* A store other than mqtt: the record as one message, to the store or to the
   client that holds it. *)
LEMMA MessageWhole ==
    ASSUME ConfigInv, ReaderInv, MessageInv, NEW r \in Readers, Produce(r),
           NEW d \in {"kinesis", "pubsub", "zmq", "nats", "kafka"},
           AtStore(r, d),
           flight' \subseteq flight \cup {Item(d, job[r].rec, Whole)},
           received' \subseteq received \cup {Item(d, job[r].rec, Whole)},
           token' = token, UNCHANGED <<configVars, closeState>>
    PROVE  MessageInv'
<1> DEFINE item == Item(d, job[r].rec, Whole)
<1>1. Started /\ In(r, d) /\ at[r] = "dispatch" /\ UNCHANGED <<producers, stage, link>>
  BY AtRule DEF configVars, closeState
<1>2. d \in producers
  BY <1>1, InProducer, ConfigsAssumption, StoreNames DEF KnownDispatchers, ReaderInv
<1>3. /\ item.to = d /\ item.rec = job[r].rec /\ item \in ItemsAt(d, job[r].rec)
      /\ job[r].rec \in Recs
  BY <1>1, WholeItem DEF Item, ReaderInv, WorkInv
<1>4. item \notin DOMAIN token
  BY <1>3 DEF MessageInv
<1>5. \A q \in Readers : at[q] = "waiting" =>
          at'[q] = "waiting" /\ job'[q].rec = job[q].rec
  BY ProduceKeeps
<1> HIDE DEF item
<1>6. \A x \in (flight' \cup received') \ (flight \cup received) : x = item
  BY DEF item
<1>7. DOMAIN token \cap flight' = {} /\ \A x \in flight' \ flight : x.to # "mqtt"
  BY <1>3, <1>4 DEF item, MessageInv
<1>8. Started' = Started
  BY <1>1 DEF Started
<1> QED
  BY <1>1, <1>2, <1>3, <1>5, <1>6, <1>7, <1>8, MessageFrame

(* What a Produce of mqtt does to the messages. *)
LEMMA MqttPublishes ==
    ASSUME ConfigInv, ReaderInv, NEW r \in Readers, ProduceMqtt(r)
    PROVE  /\ at[r] = "dispatch" /\ Started /\ "mqtt" \in producers
           /\ UNCHANGED <<configVars, received, accepted, delivery, acked, closeState>>
           /\ \/ /\ link["mqtt"] = "up" /\ token' = token
                 /\ \E sent \in SUBSET ItemsAt("mqtt", job[r].rec) : flight' = flight \cup sent
              \/ /\ link["mqtt"] # "up" /\ flight' = flight
                 /\ \/ token' = token
                    \/ /\ at' = [at EXCEPT ![r] = "waiting"] /\ job'[r].rec = job[r].rec
                       /\ token' = Reported(ItemsAt("mqtt", job[r].rec), FALSE)
<1> DEFINE rec   == job[r].rec
           all   == PayloadMessages(rec.topic, rec.payload)
           items == ItemsAt("mqtt", rec)
<1>1. AtStore(r, "mqtt")
  BY DEF ProduceMqtt
<1>2. at[r] = "dispatch" /\ Started /\ "mqtt" \in producers
  <2>1. at[r] = "dispatch" /\ Started /\ In(r, "mqtt")
    BY <1>1, AtRule
  <2> QED
    BY <2>1, InProducer, ConfigsAssumption, StoreNames DEF KnownDispatchers, ReaderInv
<1>3. items = MqttItems(rec, all)
  BY DEF ItemsAt, MessagesAt, MqttItems
<1>4. UNCHANGED <<configVars, received, accepted, delivery, acked, closeState>>
  BY DEF ProduceMqtt, Panic, storeState
<1>5. CASE Panic(r)
  <2>1. UNCHANGED <<flight, token>>
    BY <1>5 DEF Panic, storeState
  <2>2. flight' = flight \cup {}
    BY <2>1
  <2> QED
    BY <1>2, <1>4, <2>1, <2>2
<1>6. CASE /\ Publish(MqttItems(rec, all))
           /\ at' = [at EXCEPT ![r] = "waiting"]
           /\ job' = [job EXCEPT ![r].tokens = MqttItems(rec, all)]
  <2>1. Publish(items)
    BY <1>3, <1>6
  <2>2. job'[r].rec = job[r].rec
    BY <1>6 DEF ReaderInv, Jobs
  <2>3. CASE link["mqtt"] = "up"
    BY <1>2, <1>4, <2>1, <2>3 DEF Publish
  <2>4. CASE link["mqtt"] # "up"
    BY <1>2, <1>4, <1>6, <2>1, <2>2, <2>4 DEF Publish
  <2> QED
    BY <2>3, <2>4
<1>7. CASE /\ \E sent \in SUBSET {m \in all : m.marshals} :
                  flight' = IF link["mqtt"] = "up" /\ rec.topic \in TypedTopics
                            THEN flight \cup MqttItems(rec, sent) ELSE flight
           /\ token' = token
  <2>1. PICK sent \in SUBSET all :
               \/ flight' = flight \cup MqttItems(rec, sent) /\ link["mqtt"] = "up"
               \/ flight' = flight
    BY <1>7
  <2>2. MqttItems(rec, sent) \subseteq items
    BY <1>3 DEF MqttItems
  <2>3. flight' = flight => flight' = flight \cup {}
    OBVIOUS
  <2> QED
    BY <1>2, <1>4, <1>7, <2>1, <2>2, <2>3
<1> QED
  BY <1>5, <1>6, <1>7 DEF ProduceMqtt

LEMMA MessageMqtt ==
    ASSUME ConfigInv, ReaderInv, MessageInv, NEW r \in Readers, ProduceMqtt(r)
    PROVE  MessageInv'
<1> DEFINE items == ItemsAt("mqtt", job[r].rec)
<1>1. /\ at[r] = "dispatch" /\ Started /\ Started' /\ "mqtt" \in producers
      /\ UNCHANGED <<producers, received, link>>
  BY MqttPublishes DEF configVars, closeState, Started
<1>2. \A q \in Readers : at[q] = "waiting" =>
          at'[q] = "waiting" /\ job'[q].rec = job[q].rec
  BY ProduceKeeps DEF Produce
<1>3. \A x \in items : /\ x.to = "mqtt" /\ x.rec = job[r].rec
                        /\ x \in ItemsAt(x.to, x.rec) /\ x.rec \in Recs
  BY <1>1, ItemsOf DEF ReaderInv, WorkInv
<1>4. CASE /\ link["mqtt"] = "up" /\ token' = token
           /\ \E sent \in SUBSET items : flight' = flight \cup sent
  <2>1. DOMAIN token \cap items = {}
    BY <1>1, <1>4, Unreported
  <2>2. DOMAIN token \cap flight' = {}
    BY <1>4, <2>1 DEF MessageInv
  <2>3. \A x \in (flight' \cup received') \ (flight \cup received) : x \in items
    BY <1>1, <1>4
  <2> HIDE DEF items
  <2> QED
    BY <1>1, <1>2, <1>3, <1>4, <2>2, <2>3, MessageFrame
<1>5. CASE token' = token /\ flight' = flight
  BY <1>1, <1>2, <1>5, MessageFrame DEF MessageInv
<1>6. CASE /\ link["mqtt"] # "up" /\ flight' = flight
           /\ at' = [at EXCEPT ![r] = "waiting"] /\ job'[r].rec = job[r].rec
           /\ token' = Reported(items, FALSE)
  <2>1. DOMAIN token' = items \cup DOMAIN token
    BY <1>6 DEF Reported
  <2>2. Buffered("mqtt") = {} /\ Buffered("mqtt")' = {}
    BY <1>6 DEF MessageInv, Buffered
  <2>3. \A x \in DOMAIN token' : x.to = "mqtt"
    BY <1>3, <2>1 DEF MessageInv
  <2>4. DOMAIN token' \cap flight' = {}
    BY <1>6, <2>2, <2>3 DEF Buffered
  <2>5. \A x \in flight' \cup received' \cup DOMAIN token' :
            /\ Started' /\ x.to \in producers
            /\ x \in ItemsAt(x.to, x.rec) /\ x.rec \in Recs
    BY <1>1, <1>3, <1>6, <2>1 DEF MessageInv
  <2> QED
    BY <1>1, <1>6, <2>2, <2>3, <2>4, <2>5 DEF MessageInv, ItemsAt, Item, MessagesAt, Whole
<1> QED
  BY <1>4, <1>5, <1>6, MqttPublishes

LEMMA MessageSeen ==
    ASSUME ConfigInv, ReaderInv, MessageInv, NEW r \in Readers, AllTokensSeen(r)
    PROVE  MessageInv'
<1>1. /\ at[r] = "waiting" /\ UNCHANGED <<configVars, flight, received, closeState>>
      /\ DOMAIN token' = {x \in DOMAIN token : x.rec # job[r].rec}
  BY DEF AllTokensSeen, Restrict
<1>2. \A q \in Readers \ {r} : at'[q] = at[q] /\ job'[q] = job[q]
  BY AllTokensSeenMoves DEF Returns, Return, Acks, ReaderInv
<1>3. UNCHANGED <<stage, producers, link>>
  BY <1>1 DEF configVars, closeState
<1>4. DOMAIN token' \subseteq DOMAIN token
  BY <1>1
<1>5. ASSUME link["mqtt"] = "up", NEW x \in DOMAIN token'
      PROVE  \E q \in Readers : at'[q] = "waiting" /\ x.rec = job'[q].rec
  <2>1. PICK q \in Readers : at[q] = "waiting" /\ x.rec = job[q].rec
    BY <1>4, <1>5 DEF MessageInv
  <2>2. q # r
    BY <1>1, <2>1
  <2> QED
    BY <1>2, <2>1, <2>2
<1> QED
  BY <1>1, <1>3, <1>4, <1>5 DEF MessageInv, Buffered, Started, ItemsAt, Item, MessagesAt, Whole

LEMMA MessageReported ==
    ASSUME ConfigInv, ReaderInv, MessageInv, MqttBroker
    PROVE  MessageInv'
<1>1. PICK x \in Buffered("mqtt") :
          \/ received' = received \cup {x} /\ UNCHANGED <<flight, token>>
          \/ /\ flight' = flight \ {x} /\ UNCHANGED received
             /\ \E ok \in BOOLEAN : Report(x, ok)
  BY DEF MqttBroker
<1>2. /\ UNCHANGED <<stage, producers, link, at, job>>
      /\ x \in flight /\ x.to = "mqtt" /\ link["mqtt"] = "up"
  BY DEF MqttBroker, configVars, readerState, closeState, Buffered, MessageInv
<1>3. CASE received' = received \cup {x} /\ UNCHANGED <<flight, token>>
  BY <1>2, <1>3, MessageFrame DEF MessageInv, Started
<1>4. CASE flight' = flight \ {x} /\ UNCHANGED <<received, token>>
  BY <1>2, <1>4, MessageFrame DEF MessageInv, Started
<1>5. CASE /\ flight' = flight \ {x} /\ UNCHANGED received
           /\ \E r \in Readers : x \in job[r].tokens
           /\ \E ok \in BOOLEAN : token' = Reported({x}, ok)
  <2>1. DOMAIN token' = {x} \cup DOMAIN token
    BY <1>5 DEF Reported
  <2>2. PICK r \in Readers : x \in job[r].tokens
    BY <1>5
  <2>3. at[r] = "waiting" /\ x.rec = job[r].rec
    BY <2>2, ItemsOf DEF ReaderInv, WorkInv
  <2> QED
    BY <1>2, <1>5, <2>1, <2>3
    DEF MessageInv, Buffered, Started, ItemsAt, Item, MessagesAt, Whole
<1> QED
  BY <1>1, <1>3, <1>4, <1>5 DEF Report

LEMMA MessageClosed ==
    ASSUME ConfigInv, ReaderInv, LinkInv, MessageInv, CloseMqtt
    PROVE  MessageInv'
<1>1. /\ DOMAIN token' = Buffered("mqtt") \cup DOMAIN token
      /\ flight' = flight \ Buffered("mqtt")
      /\ UNCHANGED <<producers, received, at, job>> /\ stage' = stage
      /\ link'["mqtt"] = "closed"
  BY StoreNames DEF CloseMqtt, CloseClient, Reported, configVars, readerState, LinkInv
<1> QED
  BY <1>1 DEF MessageInv, Buffered, Started, ItemsAt, Item, MessagesAt, Whole

LEMMA MessageStep ==
    ASSUME ConfigInv, ReaderInv, LinkInv, MessageInv, [StoresNext]_storeVars
    PROVE  MessageInv'
<1>1. CASE UNCHANGED <<readerState, flight, received, token, link>>
  <2>1. \A q \in Readers : at[q] = "waiting" =>
            at'[q] = "waiting" /\ job'[q].rec = job[q].rec
    BY <1>1 DEF readerState
  <2>2. producers \subseteq producers' /\ (Started => Started')
    BY ConfigSettles
  <2> QED
    BY <1>1, <2>1, <2>2, MessageFrame DEF MessageInv
<1>2. CASE MqttBroker \/ CloseMqtt
  BY <1>2, MessageReported, MessageClosed
<1>3. CASE \/ NatsFlush \/ NatsLink \/ NatsGivesUp \/ KafkaStores \/ handleProducerEvents
           \/ ClosedHandler \/ CloseSync \/ CloseKafka \/ CloseNats
  <2>1. UNCHANGED <<readerState, token>>
    BY <1>3 DEF NatsFlush, NatsLink, NatsGivesUp, KafkaStores, handleProducerEvents,
                ClosedHandler, CloseSync, CloseKafka, CloseNats, MarkClosing, DisconnectNats,
                storeState
  <2>2. flight' \subseteq flight /\ received' \subseteq received \cup flight
    BY <1>3 DEF NatsFlush, NatsLink, NatsGivesUp, KafkaStores, handleProducerEvents,
                ClosedHandler, CloseSync, CloseKafka, CloseNats, MarkClosing, DisconnectNats,
                storeState, Buffered
  <2>3. link'["mqtt"] = link["mqtt"]
    BY <1>3, StoreNames
    DEF NatsFlush, NatsLink, NatsGivesUp, KafkaStores, handleProducerEvents, ClosedHandler,
        CloseSync, CloseKafka, CloseNats, MarkClosing, DisconnectNats, CloseClient, closeState,
        LinkInv
  <2>4. \A q \in Readers : at[q] = "waiting" =>
            at'[q] = "waiting" /\ job'[q].rec = job[q].rec
    BY <2>1 DEF readerState
  <2>5. producers \subseteq producers' /\ (Started => Started')
    BY ConfigSettles
  <2> QED
    BY <2>1, <2>2, <2>3, <2>4, <2>5, MessageFrame DEF MessageInv
<1>4. ASSUME NEW r \in Readers, AllTokensSeen(r) PROVE MessageInv'
  BY <1>4, MessageSeen
<1>5. ASSUME NEW r \in Readers, ProduceMqtt(r) PROVE MessageInv'
  BY <1>5, MessageMqtt
<1>6. ASSUME NEW r \in Readers, NEW d \in {"kinesis", "pubsub"}, ProduceSync(r, d)
      PROVE  MessageInv'
  BY <1>6, MessageWhole DEF ProduceSync, Produce
<1>7. ASSUME NEW r \in Readers,
             \/ Read(r) \/ Dispatched(r) \/ ProduceOnNil(r) \/ ProduceLogger(r) \/ SendAck(r)
             \/ WaitForToken(r) \/ PublishTimeout(r)
      PROVE  MessageInv'
  <2>1. UNCHANGED <<flight, received, token, link>>
    BY <1>7 DEF Read, Dispatched, ProduceOnNil, Panic, ProduceLogger, SendAck, WaitForToken,
                PublishTimeout, storeState, closeState
  <2>2. ASSUME NEW q \in Readers, at[q] = "waiting"
        PROVE  at'[q] = "waiting" /\ job'[q].rec = job[q].rec
    <3>1. CASE Read(r) \/ Dispatched(r) \/ SendAck(r)
      BY <2>2, <3>1 DEF Read, Dispatched, SendAck, Return, ReaderInv
    <3>2. CASE ProduceOnNil(r) \/ ProduceLogger(r)
      BY <2>2, <3>2, ProduceKeeps DEF Produce
    <3>3. CASE WaitForToken(r) \/ PublishTimeout(r)
      <4>1. ~AllTokensSeen(q)
        BY <2>2, <3>3 DEF WaitForToken, PublishTimeout, AllTokensSeen, Return,
                          ProcessReliableAck, ReaderInv
      <4> QED
        BY <2>2, <4>1, ReaderKept
    <3> QED
      BY <1>7, <3>1, <3>2, <3>3
  <2>3. producers \subseteq producers' /\ (Started => Started')
    BY ConfigSettles
  <2> QED
    BY <2>1, <2>2, <2>3, MessageFrame DEF MessageInv
<1>8. ASSUME NEW r \in Readers, ProduceZmq(r) \/ ProduceNats(r) \/ ProduceKafka(r)
      PROVE  MessageInv'
  <2>1. UNCHANGED <<configVars, token, closeState>>
    BY <1>8 DEF ProduceZmq, ProduceNats, ProduceKafka, Panic, storeState
  <2>2. PICK d \in {"zmq", "nats", "kafka"} :
            /\ AtStore(r, d)
            /\ flight' \subseteq flight \cup {Item(d, job[r].rec, Whole)}
            /\ received' \subseteq received \cup {Item(d, job[r].rec, Whole)}
    <3>1. CASE ProduceZmq(r)
      BY <3>1 DEF ProduceZmq, Panic, storeState
    <3>2. CASE ProduceNats(r)
      BY <3>2 DEF ProduceNats, storeState
    <3>3. CASE ProduceKafka(r)
      BY <3>3 DEF ProduceKafka
    <3> QED
      BY <1>8, <3>1, <3>2, <3>3
  <2> QED
    BY <1>8, <2>1, <2>2, MessageWhole DEF Produce
<1>9. CASE UNCHANGED storeVars \/ Start \/ SendDeliveryAck \/ StopServing \/ Exit
  BY <1>1, <1>9 DEF storeVars, Start, SendDeliveryAck, StopServing, Exit, storeState, closeState
<1> QED
  BY <1>2, <1>3, <1>4, <1>5, <1>6, <1>7, <1>8, <1>9
  DEF StoresNext, ReaderStep, Produce, Outside, Closing
----------------------------------------------------------------------------
(* What the stores have.                                                   *)

LEMMA ReceivedStays ==
    ASSUME [StoresNext]_storeVars
    PROVE  received \subseteq received'
<1>1. CASE UNCHANGED storeVars
  BY <1>1 DEF storeVars, storeState
<1>2. CASE Start \/ StopServing \/ Exit \/ handleProducerEvents \/ SendDeliveryAck \/ ClosedHandler
  BY <1>2 DEF Start, StopServing, Exit, handleProducerEvents, SendDeliveryAck, ClosedHandler,
              storeState
<1>3. CASE Outside \/ CloseSync \/ CloseKafka \/ CloseMqtt \/ CloseNats
  BY <1>3 DEF Outside, NatsFlush, NatsLink, NatsGivesUp, KafkaStores, MqttBroker, CloseSync,
              CloseKafka, CloseMqtt, CloseNats, MarkClosing, DisconnectNats, storeState
<1>4. ASSUME NEW r \in Readers, Read(r) \/ ReaderStep(r) \/ PublishTimeout(r)
      PROVE  received \subseteq received'
  <2>1. CASE Produce(r)
    BY <2>1 DEF Produce, ProduceOnNil, ProduceLogger, ProduceZmq, ProduceNats, ProduceKafka,
                ProduceMqtt, ProduceSync, Panic, storeState
  <2> QED
    BY <1>4, <2>1 DEF Read, ReaderStep, Dispatched, SendAck, WaitForToken, AllTokensSeen,
                      PublishTimeout, storeState
<1> QED
  BY <1>1, <1>2, <1>3, <1>4 DEF StoresNext, Closing

(* A producer sees one record at a time succeed; a store that confirms has it then. *)
Accepts(d, rec) ==
    /\ Started /\ Started'
    /\ accepted' = accepted \cup {<<d, rec>>}
    /\ Confirming(d) => ItemsAt(d, rec) \subseteq received'

LEMMA AcceptsSync ==
    ASSUME ConfigInv, ReaderInv, NEW r \in Readers, NEW d \in {"kinesis", "pubsub"},
           ProduceSync(r, d)
    PROVE  accepted' = accepted \/ Accepts(d, job[r].rec)
<1>1. Started /\ Started'
  BY DEF ProduceSync, AtStore, Running, Started, configVars
<1>2. CASE /\ received' = received \cup {Item(d, job[r].rec, Whole)}
           /\ accepted' = accepted \cup {<<d, job[r].rec>>}
  BY <1>1, <1>2, WholeItem DEF Accepts
<1> QED
  BY <1>2 DEF ProduceSync, ProcessReliableAck

LEMMA AcceptsUnconfirmed ==
    ASSUME ConfigInv, ReaderInv, NEW r \in Readers, ProduceZmq(r) \/ ProduceNats(r)
    PROVE  accepted' = accepted \/ \E d \in {"zmq", "nats"} : Accepts(d, job[r].rec)
<1>1. Started /\ Started'
  BY DEF ProduceZmq, ProduceNats, AtStore, Running, Started, configVars, Panic
<1>2. ~Confirming("zmq") /\ ~Confirming("nats")
  BY DEF Confirming
<1> QED
  BY <1>1, <1>2 DEF ProduceZmq, ProduceNats, ProcessReliableAck, Panic, storeState, Accepts

LEMMA AcceptsReport ==
    ASSUME ConfigInv, MessageInv, handleProducerEvents
    PROVE  accepted' = accepted \/ \E x \in flight : Accepts("kafka", x.rec)
<1>1. PICK x \in Buffered("kafka") : DeliveryReport(x)
  BY DEF handleProducerEvents
<1>2. /\ UNCHANGED <<received, stage>> /\ x \in flight /\ x.to = "kafka"
  BY DEF handleProducerEvents, configVars, Buffered
<1>3. Started /\ Started' /\ x \in ItemsAt("kafka", x.rec)
  BY <1>2 DEF MessageInv, Started
<1>4. ItemsAt("kafka", x.rec) = {x}
  BY <1>3, WholeItem
<1> QED
  BY <1>1, <1>2, <1>3, <1>4 DEF DeliveryReport, Accepts

LEMMA AcceptsSeen ==
    ASSUME ConfigInv, ReaderInv, StoredInv, NEW r \in Readers, AllTokensSeen(r)
    PROVE  \/ accepted' = accepted
           \/ Accepts("mqtt", job[r].rec) /\ In(r, "mqtt")
<1>1. /\ at[r] = "waiting" /\ job[r].tokens = {} /\ UNCHANGED <<received, stage>>
      /\ job[r].err \/ accepted' = accepted \cup {<<"mqtt", job[r].rec>>}
      /\ job[r].err => accepted' = accepted
  BY DEF AllTokensSeen, ProcessReliableAck, configVars
<1>2. Started /\ Started' /\ In(r, "mqtt")
  BY <1>1 DEF ReaderInv, WorkInv, Started
<1>3. ASSUME ~job[r].err, config.qos > 0
      PROVE  ItemsAt("mqtt", job[r].rec) \subseteq received
  BY <1>1, <1>3 DEF StoredInv
<1> QED
  BY <1>1, <1>2, <1>3 DEF Accepts, Confirming

LEMMA AcceptStep ==
    ASSUME ConfigInv, ReaderInv, MessageInv, StoredInv, [StoresNext]_storeVars
    PROVE  accepted' = accepted \/ \E d, rec : Accepts(d, rec)
<1>1. CASE UNCHANGED storeVars
  BY <1>1 DEF storeVars, storeState
<1>2. CASE Start \/ StopServing \/ Exit \/ SendDeliveryAck \/ ClosedHandler
  BY <1>2 DEF Start, StopServing, Exit, SendDeliveryAck, ClosedHandler, storeState
<1>3. CASE Outside \/ CloseSync \/ CloseKafka \/ CloseMqtt \/ CloseNats
  BY <1>3 DEF Outside, NatsFlush, NatsLink, NatsGivesUp, KafkaStores, MqttBroker, CloseSync,
              CloseKafka, CloseMqtt, CloseNats, MarkClosing, DisconnectNats, storeState
<1>4. CASE handleProducerEvents
  BY <1>4, AcceptsReport
<1>5. ASSUME NEW r \in Readers, Read(r) \/ ReaderStep(r) \/ PublishTimeout(r)
      PROVE  accepted' = accepted \/ \E d, rec : Accepts(d, rec)
  <2>1. CASE ProduceZmq(r) \/ ProduceNats(r)
    BY <2>1, AcceptsUnconfirmed
  <2>2. ASSUME NEW d \in {"kinesis", "pubsub"}, ProduceSync(r, d)
        PROVE  accepted' = accepted \/ Accepts(d, job[r].rec)
    BY <2>2, AcceptsSync
  <2>3. CASE AllTokensSeen(r)
    BY <2>3, AcceptsSeen
  <2>4. CASE ProduceOnNil(r) \/ ProduceLogger(r) \/ ProduceKafka(r) \/ ProduceMqtt(r)
    BY <2>4 DEF ProduceOnNil, ProduceLogger, ProduceKafka, ProduceMqtt, Panic, storeState
  <2>5. CASE Read(r) \/ Dispatched(r) \/ SendAck(r) \/ WaitForToken(r) \/ PublishTimeout(r)
    BY <2>5 DEF Read, Dispatched, SendAck, WaitForToken, PublishTimeout, storeState
  <2> QED
    BY <1>5, <2>1, <2>2, <2>3, <2>4, <2>5 DEF ReaderStep, Produce
<1> QED
  BY <1>1, <1>2, <1>3, <1>4, <1>5 DEF StoresNext, Closing

(* With QoS above 0, mqtt reports success of what its broker has. *)
LEMMA ReportStep ==
    ASSUME ConfigInv, ReaderInv, StoredInv, [StoresNext]_storeVars, config.qos > 0
    PROVE  \A x \in DOMAIN token' : token'[x] => x \in received'
<1>1. received \subseteq received' /\ \A x \in DOMAIN token : token[x] => x \in received
  BY ReceivedStays DEF StoredInv
<1>2. CASE token' = token
  BY <1>1, <1>2
<1>3. CASE \E items : token' = Reported(items, FALSE)
  BY <1>1, <1>3 DEF Reported
<1>4. CASE MqttBroker
  <2>1. PICK x \in flight :
            \/ token' = token
            \/ x \in received /\ Report(x, TRUE)
            \/ Report(x, FALSE)
    <3>1. config.qos # 0
      <4>1. config.qos = 0 => ~(config.qos > 0)
        OBVIOUS
      <4> QED
        BY <4>1
    <3> QED
      BY <1>4, <3>1 DEF MqttBroker, Buffered
  <2>2. CASE x \in received /\ token' = Reported({x}, TRUE)
    BY <1>1, <2>2 DEF Reported
  <2> QED
    BY <1>2, <1>3, <2>1, <2>2 DEF Report
<1>5. ASSUME NEW r \in Readers, AllTokensSeen(r)
      PROVE  \A x \in DOMAIN token' : x \in DOMAIN token /\ token'[x] = token[x]
  BY <1>5 DEF AllTokensSeen, Restrict
<1>6. \/ token' = token \/ (\E items : token' = Reported(items, FALSE)) \/ MqttBroker
      \/ \E r \in Readers : AllTokensSeen(r)
  <2>1. CASE UNCHANGED storeVars
    BY <2>1 DEF storeVars, storeState
  <2>2. CASE \/ Start \/ StopServing \/ Exit \/ SendDeliveryAck \/ ClosedHandler
             \/ handleProducerEvents
    BY <2>2 DEF Start, StopServing, Exit, SendDeliveryAck, ClosedHandler, handleProducerEvents,
                storeState
  <2>3. CASE \/ NatsFlush \/ NatsLink \/ NatsGivesUp \/ KafkaStores \/ CloseSync \/ CloseKafka
             \/ CloseNats
    BY <2>3 DEF NatsFlush, NatsLink, NatsGivesUp, KafkaStores, CloseSync, CloseKafka, CloseNats,
                MarkClosing, DisconnectNats, storeState
  <2>4. CASE CloseMqtt
    BY <2>4 DEF CloseMqtt
  <2>5. ASSUME NEW r \in Readers, ProduceMqtt(r)
        PROVE  token' = token \/ \E items : token' = Reported(items, FALSE)
    BY <2>5, MqttPublishes
  <2>6. ASSUME NEW r \in Readers,
               \/ ProduceOnNil(r) \/ ProduceLogger(r) \/ ProduceKafka(r) \/ ProduceZmq(r)
               \/ ProduceNats(r) \/ \E d \in {"kinesis", "pubsub"} : ProduceSync(r, d)
        PROVE  token' = token
    BY <2>6 DEF ProduceOnNil, ProduceLogger, ProduceKafka, ProduceZmq, ProduceNats, ProduceSync,
                Panic, storeState
  <2>7. ASSUME NEW r \in Readers,
               Read(r) \/ Dispatched(r) \/ SendAck(r) \/ WaitForToken(r) \/ PublishTimeout(r)
        PROVE  token' = token
    BY <2>7 DEF Read, Dispatched, SendAck, WaitForToken, PublishTimeout, storeState
  <2> QED
    BY <2>1, <2>2, <2>3, <2>4, <2>5, <2>6, <2>7
    DEF StoresNext, ReaderStep, Produce, Outside, Closing
<1> QED
  BY <1>1, <1>2, <1>3, <1>4, <1>5, <1>6

(* A reader that has seen a token, and no error yet, has its message stored. *)
LEMMA SeenStep ==
    ASSUME ConfigInv, ReaderInv, StoredInv, [StoresNext]_storeVars, config.qos > 0,
           NEW q \in Readers, at'[q] = "waiting"
    PROVE  \A x \in ItemsAt("mqtt", job'[q].rec) :
              x \in job'[q].tokens \/ job'[q].err \/ x \in received'
<1>1. received \subseteq received'
  BY ReceivedStays
<1>2. ASSUME at[q] = "waiting"
      PROVE  \A x \in ItemsAt("mqtt", job[q].rec) :
                x \in job[q].tokens \/ job[q].err \/ x \in received
  BY <1>2 DEF StoredInv
<1>3. CASE at'[q] = at[q] /\ job'[q] = job[q]
  BY <1>1, <1>2, <1>3
<1>4. CASE PublishTimeout(q)
  <2>1. /\ at[q] = "waiting" /\ job'[q].rec = job[q].rec /\ job'[q].tokens = job[q].tokens
        /\ job'[q].err = job[q].err
    BY <1>4 DEF PublishTimeout, ReaderInv, Jobs
  <2> QED
    BY <1>1, <1>2, <2>1
<1>5. CASE WaitForToken(q)
  <2>1. PICK x \in job[q].tokens : waitTokenTimeout(q, x)
    BY <1>5 DEF WaitForToken
  <2>2. job'[q] = [job[q] EXCEPT !.tokens = @ \ {x},
                                 !.err = @ \/ x \notin DOMAIN token \/ ~token[x]]
    BY <2>1 DEF waitTokenTimeout, ReaderInv
  <2>3. /\ job'[q].rec = job[q].rec /\ job'[q].tokens = job[q].tokens \ {x}
        /\ job[q].err => job'[q].err
        /\ job'[q].err \/ (x \in DOMAIN token /\ token[x])
    BY <2>2 DEF ReaderInv, Jobs
  <2>4. job'[q].err \/ x \in received
    BY <2>3 DEF StoredInv
  <2> QED
    BY <1>1, <1>2, <1>5, <2>3, <2>4 DEF WaitForToken
<1>6. CASE Produce(q)
  <2>1. at[q] # "waiting"
    BY <1>6 DEF Produce, ProduceOnNil, ProduceLogger, ProduceZmq, ProduceNats, ProduceKafka,
                ProduceMqtt, ProduceSync, AtStore
  <2>2. Waits(q)
    BY <1>6, ProduceMoves DEF Returns, Return, Panics, Acks, ReaderInv
  <2>3. job'[q].rec = job[q].rec /\ job'[q].tokens = ItemsAt("mqtt", job[q].rec)
    BY <2>2 DEF Waits, ReaderInv, Jobs
  <2> QED
    BY <2>3
<1>7. ~Read(q) /\ ~Dispatched(q) /\ ~SendAck(q) /\ ~AllTokensSeen(q)
  BY DEF Read, Dispatched, SendAck, AllTokensSeen, Return, ProcessReliableAck, ReaderInv
<1> QED
  BY <1>3, <1>4, <1>5, <1>6, <1>7, ReaderFrame DEF readerState

LEMMA StoredStep ==
    ASSUME ConfigInv, ReaderInv, MessageInv, StoredInv, [StoresNext]_storeVars
    PROVE  StoredInv'
<1>1. received \subseteq received' /\ config' = config
  BY ReceivedStays, ConfigSettles
<1>2. \A x \in accepted' : Confirming(x[1]) => ItemsAt(x[1], x[2]) \subseteq received'
  BY <1>1, AcceptStep DEF StoredInv, Accepts
<1> QED
  BY <1>1, <1>2, ReportStep, SeenStep DEF StoredInv, Confirming, ItemsAt, Item, MessagesAt, Whole
----------------------------------------------------------------------------
(* The reliable ack.                                                       *)

LEMMA TakenStays ==
    ASSUME ConfigInv, ReaderInv, MessageInv, StoredInv, AckInv, [StoresNext]_storeVars
    PROVE  /\ accepted \subseteq accepted' /\ Taken \subseteq Taken'
           /\ accepted' # {} => Started'
<1>1. accepted' = accepted \/ (accepted \subseteq accepted' /\ Started /\ Started')
  BY AcceptStep DEF Accepts
<1>2. Started => Started' /\ reliable' = reliable
  BY ConfigSettles
<1>3. CASE Started
  BY <1>1, <1>2, <1>3 DEF Taken, Acknowledges
<1>4. CASE ~Started
  <2>1. accepted = {} /\ accepted' = {}
    BY <1>1, <1>4 DEF AckInv
  <2> QED
    BY <2>1 DEF Taken
<1> QED
  BY <1>3, <1>4, <1>1, <1>2

(* A Produce that waits for ackChan has been accepted. *)
LEMMA EntersAck ==
    ASSUME ConfigInv, ReaderInv, NEW r \in Readers, Produce(r) \/ AllTokensSeen(r),
           at'[r] = "ack"
    PROVE  /\ Started /\ UNCHANGED <<configVars, acked>> /\ job'[r] = job[r]
           /\ \E d \in producers : In(r, d) /\ <<d, job[r].rec>> \in Taken'
<1>1. ASSUME NEW d \in ToSet(DataStores), In(r, d), ProcessReliableAck(r, d),
             UNCHANGED configVars, Started, at[r] # "idle"
      PROVE  /\ job'[r] = job[r] /\ d \in producers
             /\ <<d, job[r].rec>> \in Taken'
  <2>1. d \in producers
    BY <1>1, InProducer, ConfigsAssumption DEF KnownDispatchers, ReaderInv
  <2>2. /\ Acknowledges(d, job[r].rec) /\ job'[r] = job[r]
        /\ <<d, job[r].rec>> \in accepted'
    BY <1>1 DEF ProcessReliableAck, Return, ReaderInv
  <2>3. reliable' = reliable
    BY <1>1 DEF configVars
  <2> QED
    BY <2>1, <2>2, <2>3 DEF Taken, Acknowledges
<1>2. UNCHANGED <<configVars, acked>>
  BY DEF Produce, ProduceOnNil, ProduceLogger, ProduceZmq, ProduceNats, ProduceKafka,
         ProduceMqtt, ProduceSync, Panic, AllTokensSeen
<1>3. CASE AllTokensSeen(r)
  <2>1. at[r] = "waiting" /\ In(r, "mqtt") /\ Started
    BY <1>3 DEF AllTokensSeen, ReaderInv, WorkInv
  <2>2. ProcessReliableAck(r, "mqtt")
    BY <1>3 DEF AllTokensSeen, Return, ReaderInv
  <2> QED
    BY <1>1, <1>2, <2>1, <2>2, StoreNames
<1>4. CASE Produce(r)
  <2>1. PICK d \in ToSet(DataStores) : AtStore(r, d) /\ ProcessReliableAck(r, d)
    <3>1. ~Panic(r) /\ ~Return(r)
      BY DEF Panic, Return, ReaderInv
    <3>2. ~Waits(r) /\ (ProduceMqtt(r) => Panic(r) \/ Return(r) \/ at'[r] = "waiting")
      BY DEF Waits, ProduceMqtt, ReaderInv
    <3> QED
      BY <1>4, <3>1, <3>2, StoreNames
      DEF Produce, ProduceOnNil, ProduceLogger, ProduceKafka, ProduceZmq, ProduceNats, ProduceSync
  <2>2. at[r] = "dispatch" /\ Started /\ In(r, d)
    BY <2>1, AtRule
  <2> QED
    BY <1>1, <1>2, <2>1, <2>2
<1> QED
  BY <1>3, <1>4

(* Each ack is for a record that was taken, and one at a time. *)
AcksOne == acked' = acked \/ \E x \in Taken : acked' = acked \cup {x}

LEMMA AckedStep ==
    ASSUME ConfigInv, ReaderInv, AckInv, [StoresNext]_storeVars
    PROVE  /\ AcksOne
           /\ acked' # acked => UNCHANGED <<configVars, accepted>>
<1>1. CASE UNCHANGED acked
  BY <1>1 DEF AcksOne
<1>2. ASSUME NEW r \in Readers, SendAck(r)
      PROVE  AcksOne /\ UNCHANGED <<configVars, accepted>>
  <2>1. PICK d \in producers : In(r, d) /\ <<d, job[r].rec>> \in Taken
    BY <1>2 DEF SendAck, AckInv
  <2>2. acked' = acked \cup {<<d, job[r].rec>>}
    BY <1>2, <2>1 DEF SendAck, In
  <2> QED
    BY <1>2, <2>1, <2>2 DEF SendAck, storeState, AcksOne
<1>3. CASE SendDeliveryAck
  <2>1. <<"kafka", Head(delivery)>> \in Taken
    BY <1>3 DEF SendDeliveryAck, AckInv
  <2>2. acked' = acked \cup {<<"kafka", Head(delivery)>>}
    BY <1>3 DEF SendDeliveryAck
  <2> QED
    BY <1>3, <2>1, <2>2 DEF SendDeliveryAck, AcksOne
<1>4. UNCHANGED acked \/ SendDeliveryAck \/ \E r \in Readers : SendAck(r)
  <2>1. CASE UNCHANGED storeVars
    BY <2>1 DEF storeVars
  <2>2. CASE Start \/ StopServing \/ Exit \/ handleProducerEvents \/ ClosedHandler
    BY <2>2 DEF Start, StopServing, Exit, handleProducerEvents, ClosedHandler
  <2>3. CASE Outside \/ CloseSync \/ CloseKafka \/ CloseMqtt \/ CloseNats
    BY <2>3 DEF Outside, NatsFlush, NatsLink, NatsGivesUp, KafkaStores, MqttBroker, CloseSync,
                CloseKafka, CloseMqtt, CloseNats, MarkClosing, DisconnectNats
  <2>4. ASSUME NEW r \in Readers,
               \/ Read(r) \/ Dispatched(r) \/ Produce(r) \/ WaitForToken(r) \/ AllTokensSeen(r)
               \/ PublishTimeout(r)
        PROVE  UNCHANGED acked
    BY <2>4 DEF Read, Dispatched, Produce, ProduceOnNil, ProduceLogger, ProduceZmq, ProduceNats,
                ProduceKafka, ProduceMqtt, ProduceSync, Panic, WaitForToken, AllTokensSeen,
                PublishTimeout
  <2> QED
    BY <2>1, <2>2, <2>3, <2>4 DEF StoresNext, ReaderStep, Closing
<1> QED
  BY <1>1, <1>2, <1>3, <1>4

LEMMA DeliveryStep ==
    ASSUME ConfigInv, ReaderInv, MessageInv, StoredInv, AckInv, [StoresNext]_storeVars,
           delivery' # <<>>
    PROVE  Len(delivery') = 1 /\ <<"kafka", Head(delivery')>> \in Taken'
<1>1. CASE UNCHANGED delivery
  BY <1>1, TakenStays DEF AckInv
<1>2. CASE handleProducerEvents
  <2>1. PICK x \in Buffered("kafka") : DeliveryReport(x)
    BY <1>2 DEF handleProducerEvents
  <2>2. delivery = <<>> /\ reliable' = reliable
    BY <1>2 DEF handleProducerEvents, configVars
  <2>3. /\ delivery' = <<x.rec>> /\ Acknowledges("kafka", x.rec)
        /\ accepted' = accepted \cup {<<"kafka", x.rec>>}
    BY <2>1, <2>2 DEF DeliveryReport
  <2>4. <<"kafka", x.rec>> \in Taken'
    BY <2>2, <2>3 DEF Taken, Acknowledges
  <2> QED
    BY <2>3, <2>4
<1>3. CASE SendDeliveryAck
  BY <1>3 DEF SendDeliveryAck
<1>4. UNCHANGED delivery \/ handleProducerEvents \/ SendDeliveryAck
  <2>1. CASE UNCHANGED storeVars
    BY <2>1 DEF storeVars, storeState
  <2>2. CASE Start \/ StopServing \/ Exit \/ ClosedHandler
    BY <2>2 DEF Start, StopServing, Exit, ClosedHandler, storeState
  <2>3. CASE Outside \/ CloseSync \/ CloseKafka \/ CloseMqtt \/ CloseNats
    BY <2>3 DEF Outside, NatsFlush, NatsLink, NatsGivesUp, KafkaStores, MqttBroker, CloseSync,
                CloseKafka, CloseMqtt, CloseNats, MarkClosing, DisconnectNats, storeState
  <2>4. ASSUME NEW r \in Readers, Read(r) \/ ReaderStep(r) \/ PublishTimeout(r)
        PROVE  UNCHANGED delivery
    BY <2>4 DEF Read, ReaderStep, Dispatched, Produce, ProduceOnNil, ProduceLogger, ProduceZmq,
                ProduceNats, ProduceKafka, ProduceMqtt, ProduceSync, Panic, SendAck,
                WaitForToken, AllTokensSeen, PublishTimeout, storeState
  <2> QED
    BY <2>1, <2>2, <2>3, <2>4 DEF StoresNext, Closing
<1> QED
  BY <1>1, <1>2, <1>3, <1>4

LEMMA AckReaderStep ==
    ASSUME ConfigInv, ReaderInv, MessageInv, StoredInv, AckInv, [StoresNext]_storeVars,
           NEW q \in Readers, at'[q] = "ack"
    PROVE  \E d \in producers' : In(q, d)' /\ <<d, job'[q].rec>> \in Taken'
<1>1. CASE at'[q] = at[q] /\ job'[q] = job[q]
  <2>1. PICK d \in producers : In(q, d) /\ <<d, job[q].rec>> \in Taken
    BY <1>1 DEF AckInv
  <2>2. Started /\ producers' = producers /\ rules' = rules
    BY <1>1, ConfigSettles DEF ReaderInv, WorkInv
  <2>3. In(q, d)' /\ <<d, job'[q].rec>> \in Taken'
    BY <1>1, <2>1, <2>2, TakenStays DEF In, Rules
  <2> QED
    BY <2>2, <2>3
<1>2. CASE Produce(q) \/ AllTokensSeen(q)
  <2>1. PICK d \in producers : In(q, d) /\ <<d, job[q].rec>> \in Taken'
    BY <1>2, EntersAck
  <2>2. job'[q] = job[q] /\ rules' = rules /\ producers' = producers
    BY <1>2, EntersAck DEF configVars
  <2>3. In(q, d)'
    BY <2>1, <2>2 DEF In, Rules
  <2> QED
    BY <2>1, <2>2, <2>3
<1>3. ~Read(q) /\ ~Dispatched(q) /\ ~SendAck(q) /\ ~WaitForToken(q) /\ ~PublishTimeout(q)
  BY DEF Read, Dispatched, SendAck, WaitForToken, PublishTimeout, Return, ReaderInv
<1> QED
  BY <1>1, <1>2, <1>3, ReaderFrame DEF readerState

LEMMA AckStep ==
    ASSUME ConfigInv, ReaderInv, MessageInv, StoredInv, AckInv, [StoresNext]_storeVars
    PROVE  AckInv'
<1>1. acked' \subseteq accepted'
  BY AckedStep, TakenStays DEF AcksOne, AckInv, Taken
<1> QED
  BY <1>1, TakenStays, DeliveryStep, AckReaderStep DEF AckInv
----------------------------------------------------------------------------
(* Panics.                                                                 *)

(* Where a dispatch panics. *)
LEMMA PanicsAt ==
    ASSUME ConfigInv, ReaderInv, LinkInv, NEW r \in Readers, Produce(r), at'[r] = "panicked"
    PROVE  /\ job'[r] = job[r] /\ config' = config /\ stage' = stage
           /\ \/ ~(ToSet(config.records[job[r].rec.topic]) \subseteq KnownDispatchers)
              \/ /\ "mqtt" \in ToSet(config.records[job[r].rec.topic])
                 /\ PayloadPanics(job[r].rec.topic, job[r].rec.payload)
              \/ /\ "zmq" \in ToSet(config.records[job[r].rec.topic])
                 /\ stage # "serving"
<1> DEFINE names == ToSet(config.records[job[r].rec.topic])
<1>1. UNCHANGED configVars
  BY DEF Produce, ProduceOnNil, ProduceLogger, ProduceZmq, ProduceNats, ProduceKafka,
         ProduceMqtt, ProduceSync, Panic
<1>2. at[r] = "dispatch" /\ job'[r] = job[r]
  BY ProduceMoves DEF Returns, Return, Panics, Acks, Waits, ReaderInv
<1>3. \/ AtStore(r, NilProducer)
      \/ AtStore(r, "zmq") /\ link["zmq"] = "gone"
      \/ AtStore(r, "mqtt") /\ PayloadPanics(job[r].rec.topic, job[r].rec.payload)
  <2>1. ~Return(r) /\ \A d : ~ProcessReliableAck(r, d)
    BY DEF Return, ProcessReliableAck, ReaderInv
  <2>2. at' # [at EXCEPT ![r] = "waiting"]
    BY DEF ReaderInv
  <2> QED
    BY <2>1, <2>2 DEF Produce, ProduceOnNil, ProduceLogger, ProduceZmq, ProduceNats,
                      ProduceKafka, ProduceMqtt, ProduceSync
<1>4. ASSUME NEW d, AtStore(r, d), d # NilProducer PROVE d \in names
  BY <1>4, AtRule DEF ToSet
<1>5. AtStore(r, NilProducer) => ~(names \subseteq KnownDispatchers)
  <2> SUFFICES ASSUME AtStore(r, NilProducer) PROVE ~(names \subseteq KnownDispatchers)
    OBVIOUS
  <2>1. Started /\ producers \subseteq KnownDispatchers
    BY AtRule DEF ConfigInv, Started
  <2>2. /\ job[r].pos \in DOMAIN config.records[job[r].rec.topic]
        /\ config.records[job[r].rec.topic][job[r].pos] \notin KnownDispatchers
    BY <2>1, AtRule, ConfigsAssumption
  <2> QED
    BY <2>2 DEF ToSet
<1>6. link["zmq"] = "gone" => stage # "serving"
  BY DEF LinkInv
<1> QED
  BY <1>1, <1>2, <1>3, <1>4, <1>5, <1>6, ConfigsAssumption, StoreNames
  DEF configVars, KnownDispatchers

LEMMA PanicStep ==
    ASSUME ConfigInv, ReaderInv, LinkInv, PanicsHaveCause, [StoresNext]_storeVars
    PROVE  PanicsHaveCause'
<1> SUFFICES ASSUME NEW q \in Readers, at'[q] = "panicked"
             PROVE  LET rec   == job'[q].rec
                        names == ToSet(config'.records[rec.topic])
                    IN  \/ ~(names \subseteq KnownDispatchers)
                        \/ "mqtt" \in names /\ PayloadPanics(rec.topic, rec.payload)
                        \/ "zmq" \in names /\ stage' # "serving"
  BY DEF PanicsHaveCause
<1>1. CASE at[q] = "panicked"
  <2>1. ~AllTokensSeen(q)
    BY <1>1 DEF AllTokensSeen
  <2>2. job'[q].rec = job[q].rec
    BY <1>1, <2>1, ReaderKept
  <2>3. config' = config
    BY ConfigSettles
  <2>4. stage # "serving" => stage' # "serving"
    <3>1. Started
      BY <1>1 DEF ReaderInv, WorkInv
    <3>2. stage # "serving" => stage \in {"closing", "closed"}
      BY <3>1 DEF Started
    <3> QED
      BY <3>2, ConfigSettles
  <2> QED
    BY <1>1, <2>2, <2>3, <2>4 DEF PanicsHaveCause
<1>2. CASE Produce(q)
  BY <1>2, PanicsAt
<1>3. CASE at[q] # "panicked"
  <2>1. /\ ~Read(q) /\ ~Dispatched(q) /\ ~SendAck(q) /\ ~WaitForToken(q) /\ ~PublishTimeout(q)
        /\ ~AllTokensSeen(q)
    BY DEF Read, Dispatched, SendAck, WaitForToken, PublishTimeout, AllTokensSeen,
           ProcessReliableAck, Return, ReaderInv
  <2> QED
    BY <1>2, <1>3, <2>1, ReaderFrame DEF readerState
<1> QED
  BY <1>1, <1>3
----------------------------------------------------------------------------
(* The theorems.                                                           *)

LEMMA StoresInitial == StoresInit => StoresInv
<1> SUFFICES ASSUME StoresInit PROVE StoresInv
  OBVIOUS
<1>1. ConfigInv
  BY ConfigInitial DEF StoresInit
<1>2. NoJob \in Jobs /\ NoJob.rec = <<>> /\ NoJob.tokens = {}
  BY DEF NoJob, Jobs
<1>3. at \in [Readers -> Places] /\ given \in [Readers -> 0 .. MaxRecords]
  BY StoresAssumption DEF StoresInit, Places
<1>4. ReaderInv
  BY <1>2, <1>3 DEF StoresInit, ReaderInv, WorkInv
<1>5. LinkInv
  BY StoreNames DEF StoresInit, LinkInv
<1>6. MessageInv
  BY StoreNames DEF StoresInit, MessageInv
<1>7. StoredInv
  BY DEF StoresInit, StoredInv
<1>8. AckInv
  BY DEF StoresInit, AckInv
<1>9. NatsInv
  BY DEF StoresInit, NatsInv, IntentionalCloseNeverPanics
<1>10. PanicsHaveCause
  BY DEF StoresInit, PanicsHaveCause
<1> QED
  BY <1>1, <1>4, <1>5, <1>6, <1>7, <1>8, <1>9, <1>10 DEF StoresInv

LEMMA StoresStep ==
    ASSUME StoresInv, [StoresNext]_storeVars
    PROVE  StoresInv'
BY ConfigSettles, ReaderMoves, LinkStep, MessageStep, StoredStep, AckStep, NatsStep, PanicStep
DEF StoresInv

(***************************************************************************)
(* The inductive invariant: what start-up configured, whose record is where*)
(* with which client, and who knows of its success.                        *)
(***************************************************************************)
THEOREM StoresInvariant == StoresSpec => []StoresInv
<1>1. StoresInit => StoresInv
  BY StoresInitial
<1>2. StoresInv /\ [StoresNext]_storeVars => StoresInv'
  BY StoresStep
<1> QED
  BY <1>1, <1>2, PTL DEF StoresSpec

(* The producers' variables are of their types; a message is in one place only. *)
THEOREM StoresTyped == StoresSpec => []StoresTypeOK
<1>1. StoresInv => StoresTypeOK
  <2> SUFFICES ASSUME StoresInv PROVE StoresTypeOK
    OBVIOUS
  <2>1. \A r \in Readers : at[r] # "idle" <=> job[r].rec # <<>>
    <3>1. ASSUME NEW rec \in Recs PROVE rec # <<>>
      <4>1. DOMAIN rec = {"by", "n", "topic", "payload"}
        BY DEF Recs
      <4>2. DOMAIN <<>> = {}
        OBVIOUS
      <4> QED
        BY <4>1, <4>2
    <3> QED
      BY <3>1 DEF StoresInv, ReaderInv, WorkInv
  <2>2. delivery = <<>> => Len(delivery) <= 1
    OBVIOUS
  <2>3. Len(delivery) <= 1
    BY <2>2 DEF StoresInv, AckInv
  <2> QED
    BY <2>1, <2>3
    DEF StoresInv, StoresTypeOK, ReaderInv, Places, LinkInv, MessageInv, NatsInv
<1> QED
  BY <1>1, StoresInvariant, PTL

(* A server that starts has a rule for every record type, and a nil one only for a
   dispatcher name that does not exist: also while it serves and closes. *)
THEOREM RulesStayServed == StoresSpec => []RulesAreServed
<1>1. StoresInv => RulesAreServed
  BY RulesServed DEF StoresInv
<1> QED
  BY <1>1, StoresInvariant, PTL

(* Each reliable-ack source of a server that started is the one producer that
   acknowledges its record type, and gets all of its records. *)
THEOREM AckSourcesStayServed == StoresSpec => []AckSourcesAreServed
<1>1. StoresInv => AckSourcesAreServed
  BY AckSourcesServed DEF StoresInv
<1> QED
  BY <1>1, StoresInvariant, PTL

(* A record acknowledged by kafka, kinesis, pubsub or, with QoS above 0, mqtt has
   each of its messages in that store. *)
THEOREM AcksAreStored == StoresSpec => []ConfirmedAcksAreStored
<1>1. StoresInv => ConfirmedAcksAreStored
  BY DEF StoresInv, AckInv, StoredInv, ConfirmedAcksAreStored
<1> QED
  BY <1>1, StoresInvariant, PTL

(* Only a connection that the nats client gave up on ends the process, never our
   own close of it. *)
THEOREM CloseNeverPanics == StoresSpec => []IntentionalCloseNeverPanics
<1>1. StoresInv => IntentionalCloseNeverPanics
  BY DEF StoresInv, NatsInv
<1> QED
  BY <1>1, StoresInvariant, PTL

(* A dispatch panics only for a dispatcher nobody knows, for a datum without a value
   on its way to mqtt, or on the zmq socket of a server that is closing. *)
THEOREM PanicsAreCaused == StoresSpec => []PanicsHaveCause
<1>1. StoresInv => PanicsHaveCause
  BY DEF StoresInv
<1> QED
  BY <1>1, StoresInvariant, PTL

(* On every path an ack is for a record that its acknowledging dispatcher took, one
   record at a time, and what was taken is never taken back: Datastores implements
   ReliableAck. *)
THEOREM StoresKeepPromise == StoresSpec => ImplementsReliableAck
<1>1. StoresInit => Promise!AckInit
  BY DEF StoresInit, Promise!AckInit
<1>2. StoresInv /\ [StoresNext]_storeVars =>
          [Promise!Take \/ Promise!Acknowledge]_(Promise!ackPromise)
  <2> SUFFICES ASSUME StoresInv, [StoresNext]_storeVars
               PROVE  [Promise!Take \/ Promise!Acknowledge]_(Promise!ackPromise)
    OBVIOUS
  <2>1. Taken \subseteq Taken' /\ AcksOne
    BY TakenStays, AckedStep DEF StoresInv
  <2>2. CASE acked' = acked
    BY <2>1, <2>2 DEF Promise!Take, Taken
  <2>3. CASE acked' # acked
    <3>1. Taken' = Taken
      BY <2>3, AckedStep DEF StoresInv, configVars, Taken, Acknowledges
    <3> QED
      BY <2>1, <2>3, <3>1 DEF Promise!Acknowledge, AcksOne, Taken
  <2> QED
    BY <2>2, <2>3
<1> QED
  BY <1>1, <1>2, StoresInvariant, PTL DEF StoresSpec, ImplementsReliableAck, Promise!AckSpec
----------------------------------------------------------------------------
(* What the loops over a payload compute.                                  *)

(* Induction up to n: a set with 0 and, with each number below n, the next one. *)
LEMMA UpTo ==
    ASSUME NEW n \in Nat, NEW T, 0 \in T,
           \A i \in 1 .. n : i - 1 \in T => i \in T
    PROVE  \A i \in 0 .. n : i \in T
<1> SUFFICES ASSUME NEW i \in 0 .. n, i \notin T PROVE FALSE
  OBVIOUS
<1> DEFINE R == OpToRel(<, Nat)
           U == {k \in 0 .. n : k \notin T}
<1>1. IsWellFoundedOn(R, Nat)
  BY NatLessThanWellFounded
<1>2. \A x, y \in Nat : x < y => <<x, y>> \in R
  BY DEF OpToRel
<1>3. U \subseteq Nat /\ U # {}
  OBVIOUS
<1> HIDE DEF R, U
<1>4. PICK x \in U : \A y \in U : <<y, x>> \notin R
  BY <1>1, <1>3, WFMin
<1>5. x \in 1 .. n /\ x \notin T
  BY <1>4 DEF U
<1>6. x - 1 \in Nat /\ x - 1 < x /\ x - 1 \in 0 .. n
  BY <1>5
<1>7. x - 1 \notin T
  BY <1>5
<1>8. x - 1 \in U
  BY <1>6, <1>7 DEF U
<1>9. <<x - 1, x>> \in R
  BY <1>2, <1>5, <1>6
<1> QED
  BY <1>4, <1>8, <1>9

(* A run of a loop: its states in S, from base, each the next of the one before. *)
Run(f, n, S, base, next) ==
    /\ f \in [0 .. n -> S]
    /\ f[0] = base
    /\ \A i \in 1 .. n : f[i] = next[<<i, f[i - 1]>>]

(* A loop over n entries that goes from one state to the next computes something. *)
LEMMA Loop ==
    ASSUME NEW n \in Nat, NEW S, NEW base \in S, NEW next,
           \A i \in 1 .. n, s \in S : next[<<i, s>>] \in S
    PROVE  \E f : Run(f, n, S, base, next)
<1> DEFINE Good(k, f) == Run(f, k, S, base, next)
           T == {k \in Nat : \E f : Good(k, f)}
<1>1. 0 \in T
  <2>1. Good(0, [i \in 0 .. 0 |-> base])
    BY DEF Run
  <2> QED
    BY <2>1
<1>2. ASSUME NEW k \in 1 .. n, k - 1 \in T PROVE k \in T
  <2> PICK f : Good(k - 1, f)
    BY <1>2
  <2> DEFINE g == [i \in 0 .. k |-> IF i = k THEN next[<<k, f[k - 1]>>] ELSE f[i]]
  <2>0. k \in Nat /\ k # 0 /\ k \in 1 .. n
    OBVIOUS
  <2>1. /\ DOMAIN g = 0 .. k /\ g = [i \in 0 .. k |-> g[i]]
        /\ g[k] = next[<<k, f[k - 1]>>]
        /\ \A i \in 0 .. k - 1 : g[i] = f[i]
    BY <2>0
  <2>7. /\ \A i \in 0 .. k - 1 : f[i] \in S
        /\ \A i \in 1 .. k - 1 : f[i] = next[<<i, f[i - 1]>>]
        /\ f[0] = base /\ k - 1 \in 0 .. k - 1 /\ 0 \in 0 .. k - 1
    BY <2>0 DEF Run
  <2>2. g[k] \in S /\ g[0] = base
    BY <2>0, <2>1, <2>7
  <2> HIDE DEF g
  <2>3. \A i \in 0 .. k : g[i] \in S
    <3> SUFFICES ASSUME NEW i \in 0 .. k PROVE g[i] \in S
      OBVIOUS
    <3>1. CASE i = k
      BY <2>2, <3>1
    <3>2. CASE i # k
      <4>1. i \in 0 .. k - 1
        BY <2>0, <3>2
      <4> QED
        BY <2>1, <2>7, <4>1
    <3> QED
      BY <3>1, <3>2
  <2>4. g \in [0 .. k -> S]
    BY <2>1, <2>3
  <2>5. ASSUME NEW i \in 1 .. k PROVE g[i] = next[<<i, g[i - 1]>>]
    <3>1. CASE i = k
      <4>1. g[i - 1] = f[i - 1]
        BY <2>0, <2>1, <3>1
      <4> QED
        BY <2>1, <3>1, <4>1
    <3>2. CASE i # k
      <4>1. i \in 1 .. k - 1 /\ i - 1 \in 0 .. k - 1 /\ i \in 0 .. k - 1
        BY <2>0, <3>2
      <4>2. g[i] = f[i] /\ g[i - 1] = f[i - 1]
        BY <2>1, <4>1
      <4> QED
        BY <2>7, <4>1, <4>2
    <3> QED
      BY <3>1, <3>2
  <2>6. Good(k, g)
    BY <2>2, <2>4, <2>5 DEF Run
  <2> HIDE DEF Good
  <2> QED
    BY <2>6
<1> HIDE DEF T, Good
<1>3. n \in T
  BY <1>1, <1>2, UpTo
<1> QED
  BY <1>3 DEF T, Good

LEMMA RangeOfAppend ==
    ASSUME NEW S, NEW s \in Seq(S), NEW e \in S
    PROVE  Range(Append(s, e)) = Range(s) \cup {e}
<1>1. /\ DOMAIN Append(s, e) = 1 .. Len(s) + 1 /\ DOMAIN s = 1 .. Len(s) /\ Len(s) \in Nat
      /\ \A i \in 1 .. Len(s) : Append(s, e)[i] = s[i]
      /\ Append(s, e)[Len(s) + 1] = e
  OBVIOUS
<1> QED
  BY <1>1 DEF Range

(* The loop of alertsHistory, state by state, and that it runs. *)
HistoryRun(f, S, alerts, name) ==
    /\ f[0] = <<>>
    /\ \A i \in 0 .. Len(alerts) : f[i] \in Seq(S)
    /\ \A i \in 1 .. Len(alerts) :
          f[i] = IF alerts[i].name = name THEN Append(f[i - 1], alerts[i]) ELSE f[i - 1]

LEMMA HistoryLoop ==
    ASSUME NEW S, NEW alerts \in Seq(S), NEW name
    PROVE  \E f : (* The loop of alertsHistory, state by state, and that it runs. *)
HistoryRun(f, S, alerts, name) /\ alertsHistory(alerts, name) = f[Len(alerts)]
<1> DEFINE n == Len(alerts)
           Step(i, s) == IF alerts[i].name = name THEN Append(s, alerts[i]) ELSE s
           next == [p \in (1 .. n) \X Seq(S) |-> Step(p[1], p[2])]
           Is(f) == f = [i \in 0 .. n |-> IF i = 0 THEN <<>> ELSE Step(i, f[i - 1])]
           B == Seq(S)
<1>1. n \in Nat /\ <<>> \in B
  OBVIOUS
<1>2. ASSUME NEW i \in 1 .. n, NEW s \in B PROVE Step(i, s) \in B
  <2>1. alerts[i] \in S
    OBVIOUS
  <2>2. Append(s, alerts[i]) \in B
    BY <2>1
  <2> QED
    BY <2>2
<1>7. alertsHistory(alerts, name) = (CHOOSE g : Is(g))[n]
  BY Zenon DEF alertsHistory
<1> HIDE DEF n, Step, B
<1>3. \A i \in 1 .. n, s \in B : next[<<i, s>>] = Step(i, s)
  BY DEF B
<1> HIDE DEF next
<1>4. PICK f : Run(f, n, B, <<>>, next)
  <2>1. \A i \in 1 .. n, s \in B : next[<<i, s>>] \in B
    BY <1>2, <1>3
  <2> QED
    BY <1>1, <2>1, Loop
<1>5. ASSUME NEW i \in 0 .. n PROVE f[i] = IF i = 0 THEN <<>> ELSE Step(i, f[i - 1])
  <2>1. i # 0 => i - 1 \in 0 .. n /\ i \in 1 .. n
    BY <1>1
  <2> QED
    BY <1>3, <1>4, <2>1 DEF Run
<1>6. Is(f)
  <2>1. f = [i \in 0 .. n |-> f[i]]
    BY <1>4 DEF Run
  <2> QED
    BY <1>5, <2>1
<1>8. PICK g : Is(g) /\ alertsHistory(alerts, name) = g[n]
  BY <1>6, <1>7
<1>9. g[0] = <<>> /\ \A i \in 1 .. n : g[i] = Step(i, g[i - 1])
  <2>1. 0 \in 0 .. n /\ \A i \in 1 .. n : i \in 0 .. n /\ i # 0
    BY <1>1
  <2> QED
    BY <1>8, <2>1
<1>10. \A i \in 0 .. n : g[i] \in B
  <2> DEFINE T == {i \in 0 .. n : g[i] \in B}
  <2>1. 0 \in T
    BY <1>1, <1>9
  <2>2. ASSUME NEW i \in 1 .. n, i - 1 \in T PROVE i \in T
    BY <1>1, <1>2, <1>9, <2>2
  <2> HIDE DEF T
  <2>3. \A i \in 0 .. n : i \in T
    BY <1>1, <2>1, <2>2, UpTo
  <2> QED
    BY <2>3 DEF T
<1> QED
  BY <1>8, <1>9, <1>10 DEF n, Step, B, HistoryRun

(* Maps from some of K to A, and what an assignment does to one. *)
Maps(K, A) == UNION {[D -> A] : D \in SUBSET K}

LEMMA EmptyMap ==
    ASSUME NEW K, NEW A
    PROVE  << >> \in Maps(K, A)
<1>1. << >> \in [{} -> A] /\ {} \in SUBSET K
  OBVIOUS
<1> HIDE DEF Maps
<1>2. \E D \in SUBSET K : << >> \in [D -> A]
  BY <1>1
<1> QED
  BY <1>2, Zenon DEF Maps

LEMMA WithMap ==
    ASSUME NEW K, NEW A, NEW m \in Maps(K, A), NEW key \in K, NEW value \in A
    PROVE  With(m, key, value) \in Maps(K, A)
<1>1. PICK D \in SUBSET K : m \in [D -> A]
  BY DEF Maps
<1>2. With(m, key, value) \in [D \cup {key} -> A] /\ D \cup {key} \in SUBSET K
  BY <1>1 DEF With
<1> QED
  BY <1>2 DEF Maps

(* The loop of alertsCurrentState. *)
CurrentRun(f, A, alerts) ==
    /\ f[0] = << >>
    /\ \A i \in 0 .. Len(alerts) : f[i] \in Maps({alerts[j].name : j \in DOMAIN alerts}, A)
    /\ \A i \in 1 .. Len(alerts) :
          f[i] = IF MoreRecent(alerts[i], f[i - 1])
                 THEN With(f[i - 1], alerts[i].name, alerts[i]) ELSE f[i - 1]

LEMMA CurrentLoop ==
    ASSUME NEW A, NEW alerts \in Seq(A)
    PROVE  \E f : CurrentRun(f, A, alerts) /\ alertsCurrentState(alerts) = f[Len(alerts)]
<1> DEFINE n == Len(alerts)
           B == Maps({alerts[j].name : j \in DOMAIN alerts}, A)
           Step(i, s) == IF MoreRecent(alerts[i], s) THEN With(s, alerts[i].name, alerts[i]) ELSE s
           next == [p \in (1 .. n) \X B |-> Step(p[1], p[2])]
           Is(f) == f = [i \in 0 .. n |-> IF i = 0 THEN << >> ELSE Step(i, f[i - 1])]
<1>1. n \in Nat /\ << >> \in B
  BY EmptyMap
<1>2. ASSUME NEW i \in 1 .. n, NEW s \in B PROVE Step(i, s) \in B
  <2>1. alerts[i] \in A /\ alerts[i].name \in {alerts[j].name : j \in DOMAIN alerts}
    OBVIOUS
  <2> QED
    BY <2>1, WithMap
<1>7. alertsCurrentState(alerts) = (CHOOSE g : Is(g))[n]
  BY Zenon DEF alertsCurrentState
<1> HIDE DEF n, Step, B
<1>3. \A i \in 1 .. n, s \in B : next[<<i, s>>] = Step(i, s)
  OBVIOUS
<1> HIDE DEF next
<1>4. PICK f : Run(f, n, B, <<>>, next)
  <2>1. \A i \in 1 .. n, s \in B : next[<<i, s>>] \in B
    BY <1>2, <1>3
  <2> QED
    BY <1>1, <2>1, Loop
<1>5. ASSUME NEW i \in 0 .. n PROVE f[i] = IF i = 0 THEN <<>> ELSE Step(i, f[i - 1])
  <2>1. i # 0 => i - 1 \in 0 .. n /\ i \in 1 .. n
    BY <1>1
  <2> QED
    BY <1>3, <1>4, <2>1 DEF Run
<1>6. Is(f)
  <2>1. f = [i \in 0 .. n |-> f[i]]
    BY <1>4 DEF Run
  <2> QED
    BY <1>5, <2>1
<1>8. PICK g : Is(g) /\ alertsCurrentState(alerts) = g[n]
  BY <1>6, <1>7
<1>9. g[0] = <<>> /\ \A i \in 1 .. n : g[i] = Step(i, g[i - 1])
  <2>1. 0 \in 0 .. n /\ \A i \in 1 .. n : i \in 0 .. n /\ i # 0
    BY <1>1
  <2> QED
    BY <1>8, <2>1
<1>10. \A i \in 0 .. n : g[i] \in B
  <2> DEFINE T == {i \in 0 .. n : g[i] \in B}
  <2>1. 0 \in T
    BY <1>1, <1>9
  <2>2. ASSUME NEW i \in 1 .. n, i - 1 \in T PROVE i \in T
    BY <1>1, <1>2, <1>9, <2>2
  <2> HIDE DEF T
  <2>3. \A i \in 0 .. n : i \in T
    BY <1>1, <2>1, <2>2, UpTo
  <2> QED
    BY <2>3 DEF T
<1> QED
  BY <1>8, <1>9, <1>10 DEF n, Step, B, CurrentRun

(* The loop of payloadToMap. *)
FieldsRun(f, data) ==
    /\ f[0] = << >>
    /\ \A i \in 0 .. Len(data) :
          f[i] \in Maps({data[j].key : j \in DOMAIN data}, {data[j].value : j \in DOMAIN data})
    /\ \A i \in 1 .. Len(data) : f[i] = With(f[i - 1], data[i].key, data[i].value)

LEMMA FieldsLoop ==
    ASSUME NEW D, NEW data \in Seq(D)
    PROVE  \E f : FieldsRun(f, data) /\ payloadToMap(data) = f[Len(data)]
<1> DEFINE n == Len(data)
           B == Maps({data[j].key : j \in DOMAIN data}, {data[j].value : j \in DOMAIN data})
           Step(i, s) == With(s, data[i].key, data[i].value)
           next == [p \in (1 .. n) \X B |-> Step(p[1], p[2])]
           Is(f) == f = [i \in 0 .. n |-> IF i = 0 THEN << >> ELSE Step(i, f[i - 1])]
<1>1. n \in Nat /\ << >> \in B
  BY EmptyMap
<1>2. ASSUME NEW i \in 1 .. n, NEW s \in B PROVE Step(i, s) \in B
  <2>1. /\ data[i].key \in {data[j].key : j \in DOMAIN data}
        /\ data[i].value \in {data[j].value : j \in DOMAIN data}
    OBVIOUS
  <2> QED
    BY <2>1, WithMap
<1>7. payloadToMap(data) = (CHOOSE g : Is(g))[n]
  BY Zenon DEF payloadToMap
<1> HIDE DEF n, Step, B
<1>3. \A i \in 1 .. n, s \in B : next[<<i, s>>] = Step(i, s)
  OBVIOUS
<1> HIDE DEF next
<1>4. PICK f : Run(f, n, B, <<>>, next)
  <2>1. \A i \in 1 .. n, s \in B : next[<<i, s>>] \in B
    BY <1>2, <1>3
  <2> QED
    BY <1>1, <2>1, Loop
<1>5. ASSUME NEW i \in 0 .. n PROVE f[i] = IF i = 0 THEN <<>> ELSE Step(i, f[i - 1])
  <2>1. i # 0 => i - 1 \in 0 .. n /\ i \in 1 .. n
    BY <1>1
  <2> QED
    BY <1>3, <1>4, <2>1 DEF Run
<1>6. Is(f)
  <2>1. f = [i \in 0 .. n |-> f[i]]
    BY <1>4 DEF Run
  <2> QED
    BY <1>5, <2>1
<1>8. PICK g : Is(g) /\ payloadToMap(data) = g[n]
  BY <1>6, <1>7
<1>9. g[0] = <<>> /\ \A i \in 1 .. n : g[i] = Step(i, g[i - 1])
  <2>1. 0 \in 0 .. n /\ \A i \in 1 .. n : i \in 0 .. n /\ i # 0
    BY <1>1
  <2> QED
    BY <1>8, <2>1
<1>10. \A i \in 0 .. n : g[i] \in B
  <2> DEFINE T == {i \in 0 .. n : g[i] \in B}
  <2>1. 0 \in T
    BY <1>1, <1>9
  <2>2. ASSUME NEW i \in 1 .. n, i - 1 \in T PROVE i \in T
    BY <1>1, <1>2, <1>9, <2>2
  <2> HIDE DEF T
  <2>3. \A i \in 0 .. n : i \in T
    BY <1>1, <2>1, <2>2, UpTo
  <2> QED
    BY <2>3 DEF T
<1> QED
  BY <1>8, <1>9, <1>10 DEF n, Step, B, FieldsRun

(* A history has the alerts of the name and no other. *)
LEMMA HistoryHas ==
    ASSUME NEW S, NEW alerts \in Seq(S), NEW name
    PROVE  /\ alertsHistory(alerts, name) \in Seq(S)
           /\ Range(alertsHistory(alerts, name))
                = {alerts[i] : i \in {j \in DOMAIN alerts : alerts[j].name = name}}
<1> DEFINE n == Len(alerts)
           Named(i) == {alerts[k] : k \in {j \in 1 .. i : alerts[j].name = name}}
<1>1. PICK f : (* The loop of alertsHistory, state by state, and that it runs. *)
HistoryRun(f, S, alerts, name) /\ alertsHistory(alerts, name) = f[Len(alerts)]
  BY HistoryLoop
<1>6. /\ f[0] = <<>>
      /\ \A i \in 0 .. n : f[i] \in Seq(S)
      /\ \A i \in 1 .. n :
            f[i] = IF alerts[i].name = name THEN Append(f[i - 1], alerts[i]) ELSE f[i - 1]
  BY <1>1 DEF HistoryRun
<1>2. n \in Nat /\ DOMAIN alerts = 1 .. n /\ \A i \in 1 .. n : alerts[i] \in S
  OBVIOUS
<1> DEFINE T == {i \in 0 .. n : Range(f[i]) = Named(i)}
<1> HIDE DEF n
<1>3. 0 \in T
  <2>1. Range(f[0]) = {}
    BY <1>6 DEF Range
  <2> QED
    BY <1>2, <2>1
<1>4. ASSUME NEW i \in 1 .. n, i - 1 \in T PROVE i \in T
  <2>1. /\ Range(f[i - 1]) = Named(i - 1) /\ f[i - 1] \in Seq(S) /\ alerts[i] \in S
        /\ i - 1 \in 0 .. n
    BY <1>2, <1>4, <1>6
  <2>2. \A j \in 1 .. i : j \in 1 .. i - 1 \/ j = i
    BY <1>2
  <2>3. 1 .. i - 1 \subseteq 1 .. i /\ i \in 1 .. i
    BY <1>2
  <2>4. CASE alerts[i].name = name
    <3>1. f[i] = Append(f[i - 1], alerts[i])
      BY <1>6, <2>4
    <3>2. Range(f[i]) = Range(f[i - 1]) \cup {alerts[i]}
      BY <2>1, <3>1, RangeOfAppend
    <3>3. Named(i) = Named(i - 1) \cup {alerts[i]}
      BY <2>2, <2>3, <2>4
    <3> QED
      BY <1>2, <2>1, <3>2, <3>3
  <2>5. CASE alerts[i].name # name
    <3>1. f[i] = f[i - 1]
      BY <1>6, <2>5
    <3>2. Named(i) = Named(i - 1)
      BY <2>2, <2>3, <2>5
    <3> QED
      BY <1>2, <2>1, <3>1, <3>2
  <2> QED
    BY <2>4, <2>5
<1> HIDE DEF T
<1>5. n \in T
  BY <1>2, <1>3, <1>4, UpTo
<1> QED
  BY <1>1, <1>2, <1>5, <1>6 DEF T, n

(* Two sequences that agree entry by entry have histories that agree. *)
LEMMA HistoriesAgree ==
    ASSUME NEW S, NEW alerts \in Seq(S), NEW Z, NEW told \in Seq(Z), Len(told) = Len(alerts),
           \A i \in 1 .. Len(alerts) :
              told[i].name = alerts[i].name /\ told[i].startedAt = alerts[i].at,
           NEW name
    PROVE  LET told_ == alertsHistory(told, name)
               sent == alertsHistory(alerts, name)
           IN  Len(told_) = Len(sent) /\ \A k \in 1 .. Len(sent) : told_[k].startedAt = sent[k].at
<1> DEFINE n == Len(alerts)
           Same(g, f) == Len(g) = Len(f) /\ \A k \in 1 .. Len(f) : g[k].startedAt = f[k].at
<1>1. PICK f : (* The loop of alertsHistory, state by state, and that it runs. *)
HistoryRun(f, S, alerts, name) /\ alertsHistory(alerts, name) = f[Len(alerts)]
  BY HistoryLoop
<1>2. PICK g : HistoryRun(g, Z, told, name) /\ alertsHistory(told, name) = g[Len(told)]
  BY HistoryLoop
<1>3. n \in Nat /\ Len(told) = n /\ \A i \in 1 .. n : alerts[i] \in S /\ told[i] \in Z
  OBVIOUS
<1> DEFINE T == {i \in 0 .. n : Same(g[i], f[i])}
<1> HIDE DEF n
<1>7. /\ f[0] = <<>>
      /\ \A i \in 0 .. n : f[i] \in Seq(S)
      /\ \A i \in 1 .. n :
            f[i] = IF alerts[i].name = name THEN Append(f[i - 1], alerts[i]) ELSE f[i - 1]
  BY <1>1 DEF HistoryRun, n
<1>8. /\ g[0] = <<>>
      /\ \A i \in 0 .. n : g[i] \in Seq(Z)
      /\ \A i \in 1 .. n :
            g[i] = IF told[i].name = name THEN Append(g[i - 1], told[i]) ELSE g[i - 1]
  BY <1>2, <1>3 DEF HistoryRun
<1>4. 0 \in T
  BY <1>3, <1>7, <1>8
<1>5. ASSUME NEW i \in 1 .. n, i - 1 \in T PROVE i \in T
  <2> DEFINE a == alerts[i]
             b == told[i]
  <2>1. /\ Same(g[i - 1], f[i - 1]) /\ f[i - 1] \in Seq(S) /\ g[i - 1] \in Seq(Z)
        /\ a \in S /\ b \in Z /\ b.name = a.name /\ b.startedAt = a.at /\ i \in 0 .. n
    BY <1>3, <1>5, <1>7, <1>8 DEF n
  <2>2. \A p \in Seq(Z), q \in Seq(S) : Same(p, q) => Same(Append(p, b), Append(q, a))
    <3> HIDE DEF a, b
    <3> SUFFICES ASSUME NEW p \in Seq(Z), NEW q \in Seq(S), Same(p, q)
                 PROVE  Same(Append(p, b), Append(q, a))
      OBVIOUS
    <3>0. a \in S /\ b \in Z /\ b.startedAt = a.at
      BY <2>1
    <3>3. Len(Append(q, a)) = Len(q) + 1 /\ Len(q) \in Nat
      BY <3>0
    <3>4. Len(Append(p, b)) = Len(p) + 1
      BY <3>0
    <3>1. Len(Append(q, a)) = Len(q) + 1 /\ Len(Append(p, b)) = Len(q) + 1 /\ Len(q) \in Nat
      BY <3>3, <3>4
    <3>2. ASSUME NEW k \in 1 .. Len(q) + 1
          PROVE  Append(p, b)[k].startedAt = Append(q, a)[k].at
      <4>1. CASE k = Len(q) + 1
        <5>1. Append(p, b)[k] = b /\ Append(q, a)[k] = a
          BY <2>1, <3>1, <4>1
        <5> QED
          BY <2>1, <5>1
      <4>2. CASE k # Len(q) + 1
        <5>1. k \in 1 .. Len(q) /\ k \in 1 .. Len(p)
          BY <3>1, <4>2
        <5>2. Append(p, b)[k] = p[k] /\ Append(q, a)[k] = q[k]
          BY <2>1, <5>1
        <5> QED
          BY <5>1, <5>2
      <4> QED
        BY <4>1, <4>2
    <3> QED
      BY <3>1, <3>2
  <2>3. /\ f[i] = IF a.name = name THEN Append(f[i - 1], a) ELSE f[i - 1]
        /\ g[i] = IF b.name = name THEN Append(g[i - 1], b) ELSE g[i - 1]
    BY <1>7, <1>8
  <2> HIDE DEF a, b, Same
  <2>4. Same(g[i], f[i])
    <3>1. CASE a.name = name
      BY <2>1, <2>2, <2>3, <3>1
    <3>2. CASE a.name # name
      BY <2>1, <2>3, <3>2
    <3> QED
      BY <3>1, <3>2
  <2> QED
    BY <2>1, <2>4
<1> HIDE DEF T
<1>6. n \in T
  <2>1. n \in Nat /\ n \in 0 .. n
    BY <1>3
  <2>2. \A i \in 0 .. n : i \in T
    BY <1>4, <1>5, <2>1, UpTo, Zenon
  <2> QED
    BY <2>1, <2>2
<1> QED
  BY <1>1, <1>2, <1>3, <1>6 DEF T, n

(* An alert is current if it is the latest of its name that has a start. *)
LEMMA CurrentIsLatest ==
    ASSUME NEW A, NEW alerts \in Seq(A),
           \A i \in 1 .. Len(alerts) : alerts[i].startedAt \in Nat \cup {NoTime},
           NEW name \in DOMAIN alertsCurrentState(alerts)
    PROVE  \E i \in 1 .. Len(alerts) :
              /\ alertsCurrentState(alerts)[name] = alerts[i]
              /\ alerts[i].name = name /\ alerts[i].startedAt # NoTime
              /\ \A j \in 1 .. Len(alerts) :
                    alerts[j].name = name /\ alerts[j].startedAt # NoTime =>
                       alerts[j].startedAt <= alerts[i].startedAt
<1> DEFINE n == Len(alerts)
           Starts(i, x) == {j \in 1 .. i : alerts[j].name = x /\ alerts[j].startedAt # NoTime}
           Latest(i, j, x) == \A k \in Starts(i, x) : alerts[k].startedAt <= alerts[j].startedAt
           Right(i, m) == /\ \A x \in DOMAIN m : \E j \in Starts(i, x) :
                                m[x] = alerts[j] /\ Latest(i, j, x)
                          /\ \A x : Starts(i, x) # {} => x \in DOMAIN m
<1>1. PICK f : CurrentRun(f, A, alerts) /\ alertsCurrentState(alerts) = f[Len(alerts)]
  BY CurrentLoop
<1>2. n \in Nat /\ \A i \in 1 .. n : alerts[i].startedAt \in Nat \cup {NoTime}
  OBVIOUS
<1>3. /\ f[0] = << >>
      /\ \A i \in 1 .. n : f[i] = IF MoreRecent(alerts[i], f[i - 1])
                                  THEN With(f[i - 1], alerts[i].name, alerts[i]) ELSE f[i - 1]
  BY <1>1 DEF CurrentRun
<1> DEFINE T == {i \in 0 .. n : Right(i, f[i])}
<1> HIDE DEF n
<1>4. 0 \in T
  BY <1>2, <1>3
<1>5. ASSUME NEW i \in 1 .. n, i - 1 \in T PROVE i \in T
  <2> DEFINE a == alerts[i]
             m == f[i - 1]
  <2>1. Right(i - 1, m) /\ i \in 0 .. n /\ a.startedAt \in Nat \cup {NoTime}
    BY <1>2, <1>5
  <2>2. f[i] = IF MoreRecent(a, m) THEN With(m, a.name, a) ELSE m
    BY <1>3
  <2>3. \A x : Starts(i, x) = Starts(i - 1, x)
                   \cup IF a.name = x /\ a.startedAt # NoTime THEN {i} ELSE {}
    BY <1>2
  <2>4. \A x : \A j \in Starts(i, x) : alerts[j].startedAt \in Nat
    BY <1>2
  <2> HIDE DEF Starts, m
  <2>5. Right(i, f[i])
    <3>1. CASE a.startedAt = NoTime
      <4>1. \A x : Starts(i, x) = Starts(i - 1, x)
        BY <2>3, <3>1
      <4>2. f[i] = m
        BY <2>2, <3>1 DEF MoreRecent
      <4> QED
        BY <2>1, <4>1, <4>2
    <3>2. CASE a.startedAt # NoTime
      <4>1. \A x : x # a.name => Starts(i, x) = Starts(i - 1, x)
        BY <2>3
      <4>2. Starts(i, a.name) = Starts(i - 1, a.name) \cup {i}
        BY <2>3, <3>2
      <4>3. a.startedAt \in Nat
        BY <2>1, <3>2
      <4>4. CASE MoreRecent(a, m)
        <5>1. f[i] = With(m, a.name, a)
          BY <2>2, <4>4
        <5>2. /\ DOMAIN f[i] = DOMAIN m \cup {a.name} /\ f[i][a.name] = a
              /\ \A x \in DOMAIN m : x # a.name => f[i][x] = m[x]
          BY <5>1 DEF With
        <5>3. Latest(i, i, a.name)
          <6> SUFFICES ASSUME NEW k \in Starts(i - 1, a.name)
                       PROVE  alerts[k].startedAt <= a.startedAt
            BY <4>2, <4>3
          <6>1. a.name \in DOMAIN m
            BY <2>1
          <6>2. PICK j \in Starts(i - 1, a.name) :
                    m[a.name] = alerts[j] /\ Latest(i - 1, j, a.name)
            BY <2>1, <6>1
          <6>3. alerts[k].startedAt <= alerts[j].startedAt
            BY <6>2
          <6>4. a.startedAt > alerts[j].startedAt
            BY <4>4, <6>1, <6>2 DEF MoreRecent
          <6>5. alerts[k].startedAt \in Nat /\ alerts[j].startedAt \in Nat
            BY <2>4, <4>2
          <6> QED
            BY <4>3, <6>3, <6>4, <6>5
        <5>4. ASSUME NEW x \in DOMAIN f[i]
              PROVE  \E j \in Starts(i, x) : f[i][x] = alerts[j] /\ Latest(i, j, x)
          <6>1. CASE x = a.name
            BY <4>2, <5>2, <5>3, <6>1
          <6>2. CASE x # a.name
            BY <2>1, <4>1, <5>2, <6>2
          <6> QED
            BY <6>1, <6>2
        <5>5. ASSUME NEW x, Starts(i, x) # {} PROVE x \in DOMAIN f[i]
          BY <2>1, <4>1, <5>2, <5>5
        <5> QED
          BY <5>4, <5>5
      <4>5. CASE ~MoreRecent(a, m)
        <5>1. f[i] = m /\ a.name \in DOMAIN m /\ ~(a.startedAt > m[a.name].startedAt)
          BY <2>2, <3>2, <4>5 DEF MoreRecent
        <5>2. PICK j \in Starts(i - 1, a.name) :
                  m[a.name] = alerts[j] /\ Latest(i - 1, j, a.name)
          BY <2>1, <5>1
        <5>3. a.startedAt <= alerts[j].startedAt
          BY <2>4, <4>2, <4>3, <5>1, <5>2
        <5>4. Latest(i, j, a.name) /\ j \in Starts(i, a.name)
          BY <4>2, <5>2, <5>3
        <5>5. ASSUME NEW x \in DOMAIN m
              PROVE  \E k \in Starts(i, x) : m[x] = alerts[k] /\ Latest(i, k, x)
          <6>1. CASE x = a.name
            BY <5>2, <5>4, <6>1
          <6>2. CASE x # a.name
            BY <2>1, <4>1, <6>2
          <6> QED
            BY <6>1, <6>2
        <5>6. ASSUME NEW x, Starts(i, x) # {} PROVE x \in DOMAIN m
          BY <2>1, <4>1, <5>1, <5>6
        <5> QED
          BY <5>1, <5>5, <5>6
      <4> QED
        BY <4>4, <4>5
    <3> QED
      BY <3>1, <3>2
  <2> QED
    BY <2>1, <2>5
<1>6. n \in T
  <2>1. n \in Nat /\ n \in 0 .. n
    BY <1>2
  <2> HIDE DEF T
  <2>2. \A i \in 0 .. n : i \in T
    BY <1>4, <1>5, <2>1, UpTo, Zenon
  <2> QED
    BY <2>1, <2>2
<1>7. Right(n, alertsCurrentState(alerts))
  BY <1>1, <1>6 DEF n
<1> QED
  BY <1>7 DEF n

(* A key has the value of the last datum with it. *)
LEMMA FieldIsLast ==
    ASSUME NEW D, NEW data \in Seq(D), NEW key \in DOMAIN payloadToMap(data)
    PROVE  \E i \in 1 .. Len(data) :
              /\ payloadToMap(data)[key] = data[i].value /\ data[i].key = key
              /\ \A j \in 1 .. Len(data) : data[j].key = key => j <= i
<1> DEFINE n == Len(data)
           Same(i, x) == {j \in 1 .. i : data[j].key = x}
           Right(i, m) == \A x \in DOMAIN m : \E j \in Same(i, x) :
                             m[x] = data[j].value /\ \A k \in Same(i, x) : k <= j
<1>1. PICK f : FieldsRun(f, data) /\ payloadToMap(data) = f[Len(data)]
  BY FieldsLoop
<1>2. n \in Nat
  OBVIOUS
<1>3. f[0] = << >> /\ \A i \in 1 .. n : f[i] = With(f[i - 1], data[i].key, data[i].value)
  BY <1>1 DEF FieldsRun
<1> DEFINE T == {i \in 0 .. n : Right(i, f[i])}
<1> HIDE DEF n
<1>4. 0 \in T
  BY <1>2, <1>3
<1>5. ASSUME NEW i \in 1 .. n, i - 1 \in T PROVE i \in T
  <2> DEFINE a == data[i]
             m == f[i - 1]
  <2>1. Right(i - 1, m) /\ i \in 0 .. n
    BY <1>2, <1>5
  <2>2. f[i] = With(m, a.key, a.value)
    BY <1>3
  <2>3. /\ \A x : x # a.key => Same(i, x) = Same(i - 1, x)
        /\ i \in Same(i, a.key) /\ \A k \in Same(i, a.key) : k <= i
    BY <1>2
  <2> HIDE DEF Same, m
  <2>4. /\ DOMAIN f[i] = DOMAIN m \cup {a.key} /\ f[i][a.key] = a.value
        /\ \A x \in DOMAIN m : x # a.key => f[i][x] = m[x]
    BY <2>2 DEF With
  <2>5. ASSUME NEW x \in DOMAIN f[i]
        PROVE  \E j \in Same(i, x) :
                  f[i][x] = data[j].value /\ \A k \in Same(i, x) : k <= j
    <3>1. CASE x = a.key
      BY <2>3, <2>4, <3>1
    <3>2. CASE x # a.key
      BY <2>1, <2>3, <2>4, <3>2
    <3> QED
      BY <3>1, <3>2
  <2> QED
    BY <2>1, <2>5
<1>6. n \in T
  <2>1. n \in Nat /\ n \in 0 .. n
    BY <1>2
  <2> HIDE DEF T
  <2>2. \A i \in 0 .. n : i \in T
    BY <1>4, <1>5, <2>1, UpTo, Zenon
  <2> QED
    BY <2>1, <2>2
<1>7. Right(n, payloadToMap(data))
  BY <1>1, <1>6 DEF n
<1> QED
  BY <1>7 DEF n

(* A timestamp comes back in milliseconds from the unit it was sent in. *)
LEMMA UnitTold ==
    ASSUME NEW a \in Alerts, Unambiguous(a)
    PROVE  convertTimestamp(Wire(a)) = a.at
<1>1. a.at \in Nat \cup {NoTime} /\ a.unit \in {"s", "ms"}
  BY DEF Alerts
<1>2. CASE a.at = NoTime
  BY <1>2 DEF convertTimestamp, Wire
<1>3. CASE a.at # NoTime /\ a.unit = "ms"
  <2>1. a.at \in Nat /\ a.at >= MaxSecondsInDuration /\ Wire(a) = a.at
    BY <1>1, <1>3 DEF Unambiguous, Wire
  <2> QED
    BY <1>3, <2>1, PayloadAssumption DEF convertTimestamp
<1>4. CASE a.at # NoTime /\ a.unit # "ms"
  <2> DEFINE q == a.at \div MillisPerSecond
  <2>1. a.at \in Nat /\ q < MaxSecondsInDuration /\ Wire(a) = q /\ a.at % MillisPerSecond = 0
    BY <1>1, <1>4 DEF Unambiguous, Wire
  <2>2. q \in Nat /\ a.at = q * MillisPerSecond
    BY <2>1, PayloadAssumption
  <2>3. q # NoTime
    BY <2>2, PayloadAssumption
  <2> HIDE DEF q
  <2> QED
    BY <2>1, <2>2, <2>3 DEF convertTimestamp
<1> QED
  BY <1>2, <1>3, <1>4

(* The transformed alerts are those that were sent, in one unit. *)
LEMMA AlertsTransformed ==
    ASSUME NEW p \in Seq(Alerts), \A i \in DOMAIN p : Unambiguous(p[i])
    PROVE  /\ transformTimestamp(p) \in
                  Seq([name : STRING, startedAt : Nat \cup {NoTime}])
           /\ Len(transformTimestamp(p)) = Len(p)
           /\ \A i \in 1 .. Len(p) : transformTimestamp(p)[i].name = p[i].name
                                     /\ transformTimestamp(p)[i].startedAt = p[i].at
<1> DEFINE t == transformTimestamp(p)
<1>1. DOMAIN p = 1 .. Len(p) /\ Len(p) \in Nat /\ \A i \in 1 .. Len(p) : p[i] \in Alerts
  OBVIOUS
<1>2. ASSUME NEW i \in 1 .. Len(p)
      PROVE  t[i] = [name |-> p[i].name, startedAt |-> p[i].at]
  BY <1>1, UnitTold DEF transformTimestamp
<1>3. ASSUME NEW i \in 1 .. Len(p)
      PROVE  /\ t[i] \in [name : STRING, startedAt : Nat \cup {NoTime}]
             /\ t[i].name = p[i].name /\ t[i].startedAt = p[i].at
  <2> DEFINE a == p[i]
  <2>1. a \in Alerts /\ t[i] = [name |-> a.name, startedAt |-> a.at]
    BY <1>1, <1>2
  <2> HIDE DEF a, t
  <2> QED
    BY <2>1 DEF Alerts, a
<1>4. t = [i \in 1 .. Len(p) |-> t[i]]
  BY <1>1 DEF transformTimestamp
<1> HIDE DEF t
<1>5. t \in Seq([name : STRING, startedAt : Nat \cup {NoTime}]) /\ Len(t) = Len(p)
  BY <1>1, <1>3, <1>4
<1> QED
  BY <1>3, <1>5 DEF t

(* A braking state of a legacy client, in the current numbers; all else stays. *)
LEMMA FieldsTransformed ==
    ASSUME NEW version, NEW data \in Seq(Data)
    PROVE  LET told == transformLegacyAutomaticEmergencyBraking(version, data)
           IN  /\ told \in Seq(Data) /\ Len(told) = Len(data)
               /\ \A i \in 1 .. Len(data) :
                     /\ told[i].key = data[i].key /\ told[i].value.kind = data[i].value.kind
                     /\ told[i].value.n =
                           IF /\ version = "1.3.0" /\ data[i].value.kind = "braking"
                              /\ data[i].value.n \in 0 .. 4
                           THEN (data[i].value.n + 1) % 5 ELSE data[i].value.n
<1> DEFINE t == transformLegacyAutomaticEmergencyBraking(version, data)
<1>1. DOMAIN data = 1 .. Len(data) /\ Len(data) \in Nat
  OBVIOUS
<1>2. ASSUME NEW i \in 1 .. Len(data)
      PROVE  /\ t[i] \in Data
             /\ t[i].key = data[i].key /\ t[i].value.kind = data[i].value.kind
             /\ t[i].value.n =
                   IF /\ version = "1.3.0" /\ data[i].value.kind = "braking"
                      /\ data[i].value.n \in 0 .. 4
                   THEN (data[i].value.n + 1) % 5 ELSE data[i].value.n
  <2> DEFINE d == data[i]
  <2>1. d \in Data
    OBVIOUS
  <2>2. d.value \in [kind : {"plain", "notFinite", "missing", "braking"}, n : Nat]
    BY <2>1 DEF Data
  <2>3. t[i] = IF version = "1.3.0" /\ d.value.n \in 0 .. 4
               THEN [d EXCEPT !.value = Braking(d.value, (d.value.n + 1) % 5)] ELSE d
    BY <1>1 DEF transformLegacyAutomaticEmergencyBraking
  <2> HIDE DEF d
  <2> DEFINE v == Braking(d.value, (d.value.n + 1) % 5)
  <2>4. v = IF d.value.kind = "braking" THEN [d.value EXCEPT !.n = (d.value.n + 1) % 5]
            ELSE d.value
    BY DEF Braking
  <2>5. /\ v \in [kind : {"plain", "notFinite", "missing", "braking"}, n : Nat]
        /\ v.kind = d.value.kind
        /\ v.n = IF d.value.kind = "braking" THEN (d.value.n + 1) % 5 ELSE d.value.n
    BY <2>2, <2>4
  <2> HIDE DEF v
  <2>6. [d EXCEPT !.value = v] \in Data /\ [d EXCEPT !.value = v].value = v
        /\ [d EXCEPT !.value = v].key = d.key
    BY <2>1, <2>5 DEF Data
  <2>7. t[i] = IF version = "1.3.0" /\ d.value.n \in 0 .. 4
               THEN [d EXCEPT !.value = v] ELSE d
    BY <2>3 DEF v
  <2> HIDE DEF t
  <2> QED
    BY <2>1, <2>5, <2>6, <2>7 DEF d
<1>3. t = [i \in 1 .. Len(data) |-> t[i]]
  BY <1>1 DEF transformLegacyAutomaticEmergencyBraking
<1> HIDE DEF t
<1>4. t \in Seq(Data) /\ Len(t) = Len(data)
  BY <1>1, <1>2, <1>3
<1> QED
  BY <1>2, <1>4 DEF t

(* Each message of an alert record is true of the payload. *)
LEMMA AlertMessages ==
    ASSUME TimesUnambiguous, "alerts" \in DOMAIN Payloads, NEW p \in Payloads["alerts"],
           NEW m \in processVehicleAlerts(p)
    PROVE  LET sent  == alertsHistory(p, m.topic[1])
               times == {sent[i].at : i \in DOMAIN sent} \ {NoTime}
           IN  IF m.topic[2] = "current"
               THEN /\ m.value[1].startedAt \in times
                    /\ \A t \in times : t <= m.value[1].startedAt
               ELSE [i \in DOMAIN m.value |-> m.value[i].startedAt]
                      = [i \in DOMAIN sent |-> sent[i].at]
<1> DEFINE alerts == transformTimestamp(p)
           A      == [name : STRING, startedAt : Nat \cup {NoTime}]
           sent   == alertsHistory(p, m.topic[1])
           times  == {sent[i].at : i \in DOMAIN sent} \ {NoTime}
<1>1. p \in Seq(Alerts) /\ \A i \in DOMAIN p : Unambiguous(p[i])
  BY PayloadsAssumption DEF TimesUnambiguous
<1>2. /\ alerts \in Seq(A) /\ Len(alerts) = Len(p)
      /\ \A i \in 1 .. Len(p) : alerts[i].name = p[i].name /\ alerts[i].startedAt = p[i].at
  BY <1>1, AlertsTransformed
<1>3. DOMAIN p = 1 .. Len(p) /\ \A i \in 1 .. Len(p) : alerts[i].startedAt \in Nat \cup {NoTime}
  <2>1. \A a \in A : a.startedAt \in Nat \cup {NoTime}
    OBVIOUS
  <2> HIDE DEF alerts, A
  <2> QED
    BY <1>1, <1>2, <2>1
<1>4. /\ sent \in Seq(Alerts)
      /\ Range(sent) = {p[i] : i \in {j \in DOMAIN p : p[j].name = m.topic[1]}}
  BY <1>1, HistoryHas
<1> HIDE DEF alerts, A, sent
<1>5. times = {p[i].at : i \in {j \in DOMAIN p : p[j].name = m.topic[1]}} \ {NoTime}
  <2>1. times = {a.at : a \in Range(sent)} \ {NoTime}
    BY DEF Range
  <2> DEFINE J == {j \in DOMAIN p : p[j].name = m.topic[1]}
             Q == {p[i] : i \in J}
  <2>2. {a.at : a \in Q} = {p[i].at : i \in J}
    <3> HIDE DEF J
    <3> QED
      OBVIOUS
  <2>3. Range(sent) = Q
    BY <1>4
  <2> HIDE DEF J, Q, times
  <2>4. times = {p[i].at : i \in J} \ {NoTime}
    BY <2>1, <2>2, <2>3
  <2> QED
    BY <2>4 DEF J
<1>6. CASE m \in {[topic |-> <<n, "current">>, value |-> <<alertsCurrentState(alerts)[n]>>,
                   marshals |-> TRUE] : n \in DOMAIN alertsCurrentState(alerts)}
  <2>1. PICK n \in DOMAIN alertsCurrentState(alerts) :
            m = [topic |-> <<n, "current">>, value |-> <<alertsCurrentState(alerts)[n]>>,
                 marshals |-> TRUE]
    BY <1>6
  <2>2. m.topic[1] = n /\ m.topic[2] = "current" /\ m.value[1] = alertsCurrentState(alerts)[n]
    BY <2>1
  <2>3. PICK i \in 1 .. Len(p) :
            /\ m.value[1] = alerts[i] /\ alerts[i].name = n /\ alerts[i].startedAt # NoTime
            /\ \A j \in 1 .. Len(p) : alerts[j].name = n /\ alerts[j].startedAt # NoTime =>
                                         alerts[j].startedAt <= alerts[i].startedAt
    BY <1>2, <1>3, <2>2, CurrentIsLatest
  <2>4. /\ p[i].name = n /\ m.value[1].startedAt = p[i].at /\ p[i].at # NoTime
        /\ \A j \in 1 .. Len(p) : p[j].name = n /\ p[j].at # NoTime => p[j].at <= p[i].at
    BY <1>2, <2>3
  <2>5. /\ m.value[1].startedAt \in times
        /\ \A t \in times : t <= m.value[1].startedAt
    <3> HIDE DEF times
    <3> QED
      BY <1>3, <1>5, <2>2, <2>4
  <2> QED
    BY <2>2, <2>5 DEF sent
<1>7. CASE m \in {[topic |-> <<n, "history">>, value |-> alertsHistory(alerts, n),
                   marshals |-> TRUE] : n \in {alerts[i].name : i \in DOMAIN alerts}}
  <2>1. PICK n : m = [topic |-> <<n, "history">>, value |-> alertsHistory(alerts, n),
                      marshals |-> TRUE]
    BY <1>7
  <2>2. m.topic[1] = n /\ m.topic[2] = "history" /\ m.value = alertsHistory(alerts, n)
    BY <2>1
  <2>3. m.value \in Seq(A)
    BY <1>2, <2>2, HistoryHas
  <2>4. Len(m.value) = Len(sent) /\ \A k \in 1 .. Len(sent) : m.value[k].startedAt = sent[k].at
    BY <1>1, <1>2, <2>2, HistoriesAgree DEF sent
  <2>5. DOMAIN m.value = 1 .. Len(sent) /\ DOMAIN sent = 1 .. Len(sent)
    BY <1>4, <2>3, <2>4
  <2> QED
    BY <2>2, <2>4, <2>5 DEF sent
<1> QED
  BY <1>6, <1>7 DEF processVehicleAlerts, alerts

(* Each message of a vehicle record is true of the payload. *)
LEMMA FieldMessages ==
    ASSUME "V" \in DOMAIN Payloads, NEW p \in Payloads["V"], NEW m \in processVehicleFields(p)
    PROVE  LET sent == p.data
               same == {i \in DOMAIN sent : sent[i].key = m.topic[1]}
               told == m.value[1]
           IN  \E i \in same :
                  /\ \A j \in same : j <= i
                  /\ told.kind = sent[i].value.kind
                  /\ IF told.kind = "braking" /\ sent[i].value.n \in 0 .. 4
                     THEN BrakingStates("current")[told.n + 1]
                            = BrakingStates(p.version)[sent[i].value.n + 1]
                     ELSE told.n = sent[i].value.n
<1> DEFINE data == p.data
           told == transformLegacyAutomaticEmergencyBraking(p.version, data)
<1>1. data \in Seq(Data) /\ DOMAIN data = 1 .. Len(data)
  BY PayloadsAssumption
<1>2. /\ told \in Seq(Data) /\ Len(told) = Len(data)
      /\ \A i \in 1 .. Len(data) :
            /\ told[i].key = data[i].key /\ told[i].value.kind = data[i].value.kind
            /\ told[i].value.n =
                  IF /\ p.version = "1.3.0" /\ data[i].value.kind = "braking"
                     /\ data[i].value.n \in 0 .. 4
                  THEN (data[i].value.n + 1) % 5 ELSE data[i].value.n
  BY <1>1, FieldsTransformed
<1> HIDE DEF data
<1>3. PICK key \in DOMAIN payloadToMap(told) :
          m = [topic |-> <<key, "v">>, value |-> <<payloadToMap(told)[key]>>,
               marshals |-> payloadToMap(told)[key].kind # "notFinite"]
  BY DEF processVehicleFields, data
<1> HIDE DEF told
<1>4. m.topic[1] = key /\ m.value[1] = payloadToMap(told)[key]
  BY <1>3
<1>5. PICK i \in 1 .. Len(data) :
          /\ m.value[1] = told[i].value /\ told[i].key = key
          /\ \A j \in 1 .. Len(data) : told[j].key = key => j <= i
  BY <1>2, <1>4, FieldIsLast
<1> DEFINE k == data[i].value.n
           v == m.value[1]
<1>6. /\ data[i].key = key /\ \A j \in 1 .. Len(data) : data[j].key = key => j <= i
      /\ v.kind = data[i].value.kind
      /\ v.n = IF p.version = "1.3.0" /\ v.kind = "braking" /\ k \in 0 .. 4
               THEN (k + 1) % 5 ELSE k
  BY <1>2, <1>5
<1>7. k \in Nat
  <2>1. data[i] \in Data
    BY <1>1
  <2>2. data[i].value \in [kind : {"plain", "notFinite", "missing", "braking"}, n : Nat]
    BY <2>1 DEF Data
  <2> QED
    BY <2>2
<1> HIDE DEF k, v
<1>8. ASSUME v.kind = "braking", k \in 0 .. 4
      PROVE  BrakingStates("current")[v.n + 1] = BrakingStates(p.version)[k + 1]
  <2>1. CASE p.version = "1.3.0"
    <3>1. v.n = (k + 1) % 5 /\ k \in {0, 1, 2, 3, 4}
      BY <1>6, <1>8, <2>1
    <3> QED
      BY <2>1, <3>1 DEF BrakingStates
  <2>2. CASE p.version # "1.3.0"
    <3>1. v.n = k
      BY <1>6, <2>2
    <3> QED
      BY <2>2, <3>1 DEF BrakingStates
  <2> QED
    BY <2>1, <2>2
<1>9. ~(v.kind = "braking" /\ k \in 0 .. 4) => v.n = k
  BY <1>6
<1> QED
  BY <1>1, <1>4, <1>6, <1>8, <1>9 DEF k, v, data

(* The messages mqtt publishes of an alert record, for every payload whose units
   can be told: the latest start as the current state, every start in the history. *)
THEOREM AlertTopicsTruthful ==
    ASSUME TimesUnambiguous
    PROVE  StoresSpec => []AlertTopicsTellThePayload
<1>1. StoresInv => AlertTopicsTellThePayload
  <2> SUFFICES ASSUME StoresInv, NEW x \in flight \cup received,
                      x.to = "mqtt", x.rec.topic = "alerts"
               PROVE  LET sent  == alertsHistory(x.rec.payload, x.part.topic[1])
                          times == {sent[i].at : i \in DOMAIN sent} \ {NoTime}
                      IN  IF x.part.topic[2] = "current"
                          THEN /\ x.part.value[1].startedAt \in times
                               /\ \A t \in times : t <= x.part.value[1].startedAt
                          ELSE [i \in DOMAIN x.part.value |-> x.part.value[i].startedAt]
                                 = [i \in DOMAIN sent |-> sent[i].at]
    BY DEF AlertTopicsTellThePayload
  <2>1. x.rec \in Recs /\ x \in ItemsAt("mqtt", x.rec)
    BY DEF StoresInv, MessageInv
  <2>2. x.rec.payload \in Payloads["alerts"] /\ "alerts" \in DOMAIN Payloads
    BY <2>1 DEF Recs
  <2>3. x.part \in processVehicleAlerts(x.rec.payload)
    BY <2>1 DEF ItemsAt, Item, MessagesAt, PayloadMessages
  <2> QED
    BY <2>2, <2>3, AlertMessages
<1> QED
  BY <1>1, StoresInvariant, PTL

(* The messages mqtt publishes of a vehicle record: the last value of each key, with
   the meaning it had for the client that sent it. *)
THEOREM FieldTopicsTruthful == StoresSpec => []FieldTopicsTellThePayload
<1>1. StoresInv => FieldTopicsTellThePayload
  <2> SUFFICES ASSUME StoresInv, NEW x \in flight \cup received,
                      x.to = "mqtt", x.rec.topic = "V"
               PROVE  LET sent == x.rec.payload.data
                          same == {i \in DOMAIN sent : sent[i].key = x.part.topic[1]}
                          told == x.part.value[1]
                      IN  \E i \in same :
                             /\ \A j \in same : j <= i
                             /\ told.kind = sent[i].value.kind
                             /\ IF told.kind = "braking" /\ sent[i].value.n \in 0 .. 4
                                THEN BrakingStates("current")[told.n + 1]
                                       = BrakingStates(x.rec.payload.version)[sent[i].value.n + 1]
                                ELSE told.n = sent[i].value.n
    BY DEF FieldTopicsTellThePayload
  <2>1. x.rec \in Recs /\ x \in ItemsAt("mqtt", x.rec)
    BY DEF StoresInv, MessageInv
  <2>2. x.rec.payload \in Payloads["V"] /\ "V" \in DOMAIN Payloads
    BY <2>1 DEF Recs
  <2>3. x.part \in processVehicleFields(x.rec.payload)
    BY <2>1 DEF ItemsAt, Item, MessagesAt, PayloadMessages
  <2> QED
    BY <2>2, <2>3, FieldMessages
<1> QED
  BY <1>1, StoresInvariant, PTL
=============================================================================
