------------------------ MODULE ProducerConfigProofs ------------------------
(***************************************************************************)
(* What start-up guarantees to the rest of the server, for every           *)
(* configuration: the lemmas Datastores needs of ConfigureProducers, which *)
(* is the first part of its behaviours.                                    *)
(***************************************************************************)
EXTENDS ProducerConfig, TLAPS

(* By the stage reached: which producers may exist and which must, that the
   reliable-ack sources were validated, and what the rules were made from. *)
ConfigInv ==
    /\ config \in Configs
    /\ stage \in {"ackSources", "construct", "connect", "failed", "serving", "closing",
                  "closed"}
    /\ stage = "ackSources" => producers = {}
    /\ stage \in {"construct", "connect", "serving", "closing", "closed"} =>
          /\ producers \subseteq KnownDispatchers
          /\ "logger" \in producers
          /\ \A t \in DOMAIN config.ackSources : ValidAckSource(t)
          /\ reliable = [d \in Range(config.ackSources) |->
                           {t \in DOMAIN config.ackSources : config.ackSources[t] = d}]
    /\ stage \in {"connect", "serving", "closing", "closed"} =>
          /\ ToConstruct = {}
          /\ \A t \in Topics : config.records[t] # <<>>
          /\ rules = [t \in Topics |->
                        [i \in DOMAIN config.records[t] |->
                           IF config.records[t][i] \in producers THEN config.records[t][i]
                           ELSE NilProducer]]

LEMMA ConfigInitial == ConfigInit => ConfigInv
BY DEF ConfigInit, ConfigInv

LEMMA ConfigureStep ==
    ASSUME ConfigInv, ConfigureProducers
    PROVE  ConfigInv'
<1>1. CASE configureReliableAckSources
  BY <1>1 DEF configureReliableAckSources, ConfigInv, KnownDispatchers, ValidAckSource, Topics
<1>2. CASE ConstructProducer
  <2> PICK i \in DOMAIN DataStores :
            /\ \/ producers' = producers \cup {DataStores[i]} /\ stage' = stage
               \/ stage' = "failed" /\ producers' = producers
            /\ stage = "construct"
            /\ UNCHANGED <<config, reliable, rules>>
    BY <1>2 DEF ConstructProducer, ToConstruct
  <2>1. DataStores[i] \in KnownDispatchers
    BY DEF KnownDispatchers, ToSet
  <2> QED
    BY <2>1 DEF ConfigInv, ValidAckSource, Topics
<1>3. CASE ConfigureRules
  BY <1>3 DEF ConfigureRules, ConfigInv, ValidAckSource, Topics, ToConstruct, requiredDispatchers
<1>4. CASE ConnectMqtt
  BY <1>4 DEF ConnectMqtt, ConfigInv, ValidAckSource, Topics, ToConstruct, requiredDispatchers
<1> QED
  BY <1>1, <1>2, <1>3, <1>4 DEF ConfigureProducers

(* Serving and closing leave alone what was configured. *)
LEMMA ConfigFrame ==
    ASSUME ConfigInv, UNCHANGED <<config, producers, reliable, rules>>,
           stage' = stage \/ (Started /\ Started')
    PROVE  ConfigInv'
BY DEF ConfigInv, Started, ValidAckSource, Topics, ToConstruct, requiredDispatchers

(* A dispatcher that is known and named for a record type was constructed. *)
LEMMA NeededAreConstructed ==
    ASSUME ConfigInv, Started, NEW t \in Topics, NEW i \in DOMAIN config.records[t],
           config.records[t][i] \in KnownDispatchers
    PROVE  config.records[t][i] \in producers
<1> DEFINE d == config.records[t][i]
<1>1. d \in requiredDispatchers
  BY DEF requiredDispatchers, ToSet
<1>2. CASE d = "logger"
  BY <1>2 DEF ConfigInv, Started
<1>3. CASE d # "logger"
  <2>1. PICK j \in DOMAIN DataStores : DataStores[j] = d
    BY <1>3 DEF KnownDispatchers, ToSet
  <2>2. j \notin ToConstruct
    BY DEF ConfigInv, Started
  <2> QED
    BY <1>1, <2>1, <2>2 DEF ToConstruct
<1> QED
  BY <1>2, <1>3

(* The rule of each dispatcher: itself, or nil where nobody knows the name. *)
LEMMA RuleOf ==
    ASSUME ConfigInv, Started, NEW t \in Topics
    PROVE  /\ rules[t] \in Seq(STRING \cup {NilProducer})
           /\ DOMAIN rules = Topics
           /\ DOMAIN rules[t] = DOMAIN config.records[t]
           /\ \A i \in DOMAIN rules[t] :
                 \/ /\ config.records[t][i] \in producers
                    /\ rules[t][i] = config.records[t][i]
                 \/ /\ config.records[t][i] \notin KnownDispatchers
                    /\ rules[t][i] = NilProducer
<1>1. rules = [u \in Topics |->
                 [i \in DOMAIN config.records[u] |->
                    IF config.records[u][i] \in producers THEN config.records[u][i]
                    ELSE NilProducer]]
  BY DEF ConfigInv, Started
<1>2. config.records[t] \in Seq(STRING)
  BY ConfigsAssumption DEF ConfigInv, Topics
<1>3. DOMAIN rules = Topics /\ DOMAIN rules[t] = DOMAIN config.records[t]
  BY <1>1
<1>4. \A i \in DOMAIN rules[t] :
          rules[t][i] = IF config.records[t][i] \in producers THEN config.records[t][i]
                        ELSE NilProducer
  BY <1>1
<1>5. rules[t] \in Seq(STRING \cup {NilProducer})
  <2>1. /\ rules[t] = [i \in 1 .. Len(config.records[t]) |-> rules[t][i]]
        /\ Len(config.records[t]) \in Nat
    BY <1>1, <1>2
  <2>2. \A i \in 1 .. Len(config.records[t]) : rules[t][i] \in STRING \cup {NilProducer}
    BY <1>2, <1>3, <1>4
  <2> DEFINE s == rules[t]
             n == Len(config.records[t])
             S == STRING \cup {NilProducer}
  <2>3. s = [i \in 1 .. n |-> s[i]] /\ n \in Nat /\ \A i \in 1 .. n : s[i] \in S
    BY <2>1, <2>2
  <2> HIDE DEF s, n, S
  <2>4. s \in Seq(S)
    BY <2>3
  <2> QED
    BY <2>4 DEF s, S
<1> QED
  BY <1>3, <1>4, <1>5, NeededAreConstructed

(* A server that starts has a rule for every record type, and nil in it only
   for a name that no dispatcher has. *)
LEMMA RulesServed == ConfigInv => RulesAreServed
<1> SUFFICES ASSUME ConfigInv, Started, NEW t \in Topics
             PROVE  /\ rules[t] # <<>>
                    /\ \A i \in DOMAIN rules[t] :
                          rules[t][i] = NilProducer =>
                              config.records[t][i] \notin KnownDispatchers
  BY DEF RulesAreServed
<1>1. /\ DOMAIN rules[t] = DOMAIN config.records[t]
      /\ \A i \in DOMAIN rules[t] :
            \/ config.records[t][i] \in producers /\ rules[t][i] = config.records[t][i]
            \/ config.records[t][i] \notin KnownDispatchers /\ rules[t][i] = NilProducer
  BY RuleOf
<1>2. producers \subseteq KnownDispatchers /\ config.records[t] # <<>>
  BY DEF ConfigInv, Started
<1>3. config.records[t] \in Seq(STRING)
  BY ConfigsAssumption DEF ConfigInv, Topics
<1>4. rules[t] # <<>>
  BY <1>1, <1>2, <1>3
<1> QED
  BY <1>1, <1>2, <1>4, ConfigsAssumption

(* Each reliable-ack source is the one producer that acknowledges its type. *)
LEMMA AckSourcesServed == ConfigInv => AckSourcesAreServed
<1> SUFFICES ASSUME ConfigInv, Started, NEW t \in DOMAIN config.ackSources
             PROVE  LET acking == {d \in DOMAIN reliable : t \in reliable[d]}
                    IN  \/ /\ acking = {config.ackSources[t]}
                           /\ acking \subseteq producers \ {"logger"}
                           /\ t \in DOMAIN rules /\ acking \subseteq ToSet(rules[t])
                        \/ /\ config.ackSources[t] \notin KnownDispatchers
                           /\ t \in DOMAIN rules /\ NilProducer \in ToSet(rules[t])
  BY DEF AckSourcesAreServed
<1> DEFINE source == config.ackSources[t]
           acking == {d \in DOMAIN reliable : t \in reliable[d]}
<1>1. ValidAckSource(t)
  BY DEF ConfigInv, Started
<1>2. t \in Topics /\ source # "logger"
  BY <1>1 DEF ValidAckSource
<1>3. PICK i \in DOMAIN config.records[t] : config.records[t][i] = source
  BY <1>1 DEF ValidAckSource, parseValidDispatchers, ToSet
<1>4. acking = {source}
  <2>1. reliable = [d \in Range(config.ackSources) |->
                      {u \in DOMAIN config.ackSources : config.ackSources[u] = d}]
    BY DEF ConfigInv, Started
  <2>2. source \in Range(config.ackSources)
    BY DEF Range
  <2> QED
    BY <2>1, <2>2
<1>5. /\ DOMAIN rules = Topics /\ i \in DOMAIN rules[t]
      /\ \/ source \in producers /\ rules[t][i] = source
         \/ source \notin KnownDispatchers /\ rules[t][i] = NilProducer
  BY <1>2, <1>3, RuleOf
<1>6. rules[t][i] \in ToSet(rules[t])
  BY <1>5 DEF ToSet
<1> QED
  BY <1>2, <1>4, <1>5, <1>6
=============================================================================
