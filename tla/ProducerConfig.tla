--------------------------- MODULE ProducerConfig ---------------------------
(***************************************************************************)
(* Start-up of the data stores: Config.ConfigureProducers of               *)
(* config/config.go, from the "records" and "reliable_ack_sources" of the  *)
(* configuration to the producers that exist, the producers each record    *)
(* type is dispatched to, and the record types each of them acknowledges.  *)
(***************************************************************************)
EXTENDS Naturals, SequencesExt

CONSTANTS
    Configs,    \* configurations: records, reliable_ack_sources, sections, QoS
    NilProducer \* what a Go map returns for a dispatcher nobody constructed

VARIABLES
    config,     \* the configuration the process was started with
    stage,      \* where ConfigureProducers, and later startServer, is
    producers,  \* dispatchers whose producer exists
    reliable,   \* dispatcher -> record types it acknowledges
    rules       \* record type -> producers, in order

configVars == <<config, stage, producers, reliable, rules>>

(* The data stores in the order in which they are constructed. *)
DataStores == <<"kafka", "pubsub", "kinesis", "zmq", "mqtt", "nats">>

KnownDispatchers == ToSet(DataStores) \cup {"logger"}

(* What unmarshalling the configuration file gives: for each record type a list
   of dispatcher names, whatever the names are. *)
ASSUME ConfigsAssumption ==
    /\ \A c \in Configs : \A t \in DOMAIN c.records : c.records[t] \in Seq(STRING)
    /\ NilProducer \notin KnownDispatchers

Topics == DOMAIN config.records

ConfigInit ==
    /\ config \in Configs
    /\ stage = "ackSources"
    /\ producers = {} /\ reliable = << >> /\ rules = << >>

parseValidDispatchers(dispatchers) == ToSet(dispatchers) \ {"logger"}

(* Mutant: the topics of the source are not looked up. *)
ValidAckSource_AnyDispatcher(t) ==
    t # "connectivity" /\ config.ackSources[t] # "logger"

ValidAckSource(t) ==
    /\ t # "connectivity"
    /\ config.ackSources[t] # "logger"
    /\ t \in Topics
    /\ config.ackSources[t] \in parseValidDispatchers(config.records[t])

configureReliableAckSources ==
    /\ stage = "ackSources"
    /\ IF \A t \in DOMAIN config.ackSources : ValidAckSource(t)
       THEN /\ stage' = "construct"
            /\ producers' = {"logger"}
            /\ reliable' = [d \in Range(config.ackSources) |->
                              {t \in DOMAIN config.ackSources : config.ackSources[t] = d}]
       ELSE stage' = "failed" /\ UNCHANGED <<producers, reliable>>
    /\ UNCHANGED <<config, rules>>

(* Mutant: only the first dispatcher of a record type is constructed. *)
requiredDispatchers_FirstOnly == {config.records[t][1] : t \in {u \in Topics : config.records[u] # <<>>}}

requiredDispatchers == UNION {ToSet(config.records[t]) : t \in Topics}

ToConstruct == {i \in DOMAIN DataStores : DataStores[i] \in requiredDispatchers \ producers}

(* A store without a section is an error, and so is one that cannot be constructed. *)
ConstructProducer ==
    /\ stage = "construct"
    /\ \E i \in ToConstruct :
          /\ \A j \in ToConstruct : i <= j
          /\ \/ /\ DataStores[i] \in config.sections
                /\ producers' = producers \cup {DataStores[i]}
                /\ UNCHANGED stage
             \/ stage' = "failed" /\ UNCHANGED producers
    /\ UNCHANGED <<config, reliable, rules>>

(* The check for an unknown rule compares the length of the list with zero: a
   name that nobody constructed is a nil entry of it. *)
ConfigureRules ==
    /\ stage = "construct" /\ ToConstruct = {}
    /\ rules' = [t \in Topics |->
                   [i \in DOMAIN config.records[t] |->
                      IF config.records[t][i] \in producers THEN config.records[t][i]
                      ELSE NilProducer]]
    /\ stage' = IF \E t \in Topics : config.records[t] = <<>> THEN "failed"
                ELSE IF "mqtt" \in producers THEN "connect" ELSE "serving"
    /\ UNCHANGED <<config, producers, reliable>>

(* The mqtt client gets five seconds for its first connection. *)
ConnectMqtt ==
    /\ stage = "connect"
    /\ stage' \in {"serving", "failed"}
    /\ UNCHANGED <<config, producers, reliable, rules>>

ConfigureProducers ==
    configureReliableAckSources \/ ConstructProducer \/ ConfigureRules \/ ConnectMqtt

----------------------------------------------------------------------------
Started == stage \in {"serving", "closing", "closed"}

(***************************************************************************)
(* A server that starts dispatches every record type to at least one       *)
(* producer, and to nil only where the configuration names a dispatcher    *)
(* that does not exist at all: a store that is known, needed and missing   *)
(* has kept it from starting.                                              *)
(***************************************************************************)
RulesAreServed ==
    Started =>
        \A t \in Topics :
            /\ rules[t] # <<>>
            /\ \A i \in DOMAIN rules[t] :
                  rules[t][i] = NilProducer => config.records[t][i] \notin KnownDispatchers

(***************************************************************************)
(* Once started, each record type that the reader leaves to a reliable-ack *)
(* source is acknowledged by exactly one producer, which exists and gets   *)
(* every record of the type; the one exception is an unknown name used both*)
(* as dispatcher and as its own source.                                    *)
(***************************************************************************)
AckSourcesAreServed ==
    Started =>
        \A t \in DOMAIN config.ackSources :
            LET acking == {d \in DOMAIN reliable : t \in reliable[d]}
            IN  \/ /\ acking = {config.ackSources[t]}
                   /\ acking \subseteq producers \ {"logger"}
                   /\ t \in DOMAIN rules /\ acking \subseteq ToSet(rules[t])
                \/ /\ config.ackSources[t] \notin KnownDispatchers
                   /\ t \in DOMAIN rules /\ NilProducer \in ToSet(rules[t])
=============================================================================
