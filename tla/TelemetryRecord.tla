-------------------------- MODULE TelemetryRecord --------------------------
(***************************************************************************)
(* How one websocket message becomes a record and what the reader goroutine*)
(* then does with it: telemetry/record.go (NewRecord), serializer.go       *)
(* (Deserialize, Dispatch) and the decision tree of                        *)
(* SocketManager.ParseAndProcessRecord.                                    *)
(*                                                                         *)
(* A message is abstracted to what that tree tells apart.  The result is a *)
(* "programme": the sequence of channel sends and Produce calls the reader *)
(* performs, in order, before it goes back to ReadMessage.                 *)
(***************************************************************************)
EXTENDS Naturals, Sequences

CONSTANTS
    Topics,             \* record types a vehicle may name in a message
    ProtoTopics,        \* "alerts", "errors", "V", "connectivity": payload is decoded
    Dispatchers,        \* configured data stores
    DispatchRules,      \* Config.Records: routed topic -> sequence of dispatchers
    ReliableAckSources, \* Config.ReliableAckSources: topic -> dispatcher
    SizeLimit,          \* telemetry.SizeLimit
    NoTopic,            \* TxType "" of a record that was not deserialized
    NoDispatcher

(***************************************************************************)
(* What ConfigureProducers and configureReliableAckSources accept: every   *)
(* routed topic has at least one dispatcher, and a reliable-ack source is  *)
(* one of the dispatchers of its topic.                                    *)
(***************************************************************************)
ASSUME ConfigAssumption ==
    /\ SizeLimit \in Nat
    /\ NoTopic \notin Topics
    /\ NoDispatcher \notin Dispatchers
    /\ DOMAIN DispatchRules \subseteq Topics
    /\ \A t \in DOMAIN DispatchRules :
          DispatchRules[t] \in Seq(Dispatchers) \ {<<>>}
    /\ DOMAIN ReliableAckSources \subseteq DOMAIN DispatchRules
    /\ \A t \in DOMAIN ReliableAckSources :
          \E k \in 1 .. Len(DispatchRules[t]) :
              DispatchRules[t][k] = ReliableAckSources[t]

(***************************************************************************)
(* envelope: "stream" is a flatbuffer StreamMessage, "otherType" another   *)
(* message type or an empty buffer, "corrupt" bytes on which the flatbuffer*)
(* accessors panic.  sender: the SenderID names the TLS identity or not.   *)
(* payload: whether the protobuf of a typed topic unmarshals.              *)
(***************************************************************************)
Message == [size     : Nat,
            envelope : {"stream", "otherType", "corrupt"},
            topic    : Topics,
            sender   : {"own", "other"},
            payload  : {"valid", "bad"}]

Deserialize(m) ==
    CASE m.envelope = "corrupt"   -> [txType |-> NoTopic, err |-> "panic"]
      [] m.envelope = "otherType" -> [txType |-> NoTopic, err |-> "unknownMessageType"]
      [] m.envelope = "stream"    ->
            [txType |-> m.topic,
             err |-> IF m.topic \notin DOMAIN DispatchRules /\ m.sender = "other"
                     THEN "senderMismatch" ELSE "none"]

(* Only the typed topics unmarshal their payload, so only they can fail. *)
applyRecordTransforms(rec, m) ==
    [rec EXCEPT !.err = IF m.topic \in ProtoTopics /\ m.payload = "bad"
                        THEN "badPayload" ELSE "none"]

NewRecord(m) ==
    LET rec == Deserialize(m)
    IN  IF m.size > SizeLimit
        THEN [txType |-> NoTopic, err |-> "messageTooBig"]
        ELSE IF rec.err # "none" THEN rec ELSE applyRecordTransforms(rec, m)

reliableAck(txType) == txType \in DOMAIN ReliableAckSources

----------------------------------------------------------------------------
(* One step of the reader: an answer handed to the writer, or a Produce.   *)
(* i is the position of the message in the connection and stands for its   *)
(* Txid; k is the position of the dispatcher in the topic's rules.         *)
Answers == {"ack", "error"}
Op == [do : Answers \cup {"produce"}, to : Dispatchers \cup {NoDispatcher},
       k : Nat, msg : Nat, txType : Topics \cup {NoTopic}]

Respond(kind, i, rec) ==
    <<[do |-> kind, to |-> NoDispatcher, k |-> 0, msg |-> i, txType |-> rec.txType]>>

Dispatch(i, rec) ==
    IF rec.txType \in DOMAIN DispatchRules
    THEN [k \in 1 .. Len(DispatchRules[rec.txType]) |->
            [do |-> "produce", to |-> DispatchRules[rec.txType][k],
             k |-> k, msg |-> i, txType |-> rec.txType]]
    ELSE <<>>

(* Mutant: the ack is given before the record is dispatched. *)
processRecord_AckFirst(i, rec) ==
    (IF reliableAck(rec.txType) THEN <<>> ELSE Respond("ack", i, rec))
      \o Dispatch(i, rec)

processRecord(i, rec) ==
    Dispatch(i, rec)
      \o (IF reliableAck(rec.txType) THEN <<>> ELSE Respond("ack", i, rec))

(* An unknown message type is acknowledged and then falls through to the   *)
(* normal path, which dispatches to nobody and acknowledges again.         *)
ParseAndProcessRecord(m, i) ==
    LET rec == NewRecord(m)
    IN  IF rec.err = "none" THEN processRecord(i, rec)
        ELSE IF rec.err = "unknownMessageType"
             THEN Respond("ack", i, rec) \o processRecord(i, rec)
        ELSE Respond("error", i, rec)
============================================================================
