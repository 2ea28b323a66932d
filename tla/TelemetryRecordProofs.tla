----------------------- MODULE TelemetryRecordProofs -----------------------
(***************************************************************************)
(* Facts about the programme ParseAndProcessRecord gives the reader, for   *)
(* every configuration ConfigureProducers accepts and every message.       *)
(***************************************************************************)
EXTENDS TelemetryRecord, TLAPS

(* The record types NewRecord can give: a topic, or none. *)
TxTypes == Topics \cup {NoTopic}

RecordType ==
    [txType : TxTypes,
     err : {"none", "panic", "unknownMessageType", "senderMismatch", "badPayload",
            "messageTooBig"}]

(* Whatever the bytes, NewRecord returns a record, with an error or without. *)
LEMMA NewRecordType ==
    ASSUME NEW m \in Message
    PROVE  NewRecord(m) \in RecordType
<1>1. Deserialize(m) \in RecordType
  <2>1. CASE m.envelope = "corrupt"
    BY <2>1 DEF Deserialize, RecordType, TxTypes
  <2>2. CASE m.envelope = "otherType"
    BY <2>2 DEF Deserialize, RecordType, TxTypes
  <2>3. CASE m.envelope = "stream"
    BY <2>3 DEF Deserialize, RecordType, TxTypes, Message
  <2> QED
    BY <2>1, <2>2, <2>3 DEF Message
<1>2. ASSUME NEW rec \in RecordType
      PROVE  applyRecordTransforms(rec, m) \in RecordType
  BY <1>2 DEF applyRecordTransforms, RecordType
<1> QED
  BY <1>1, <1>2 DEF NewRecord, RecordType, TxTypes

LEMMA RespondType ==
    ASSUME NEW i \in Nat, NEW kind \in Answers, NEW rec \in RecordType
    PROVE  Respond(kind, i, rec) \in Seq(Op)
BY DEF Respond, Answers, Op, RecordType, TxTypes

LEMMA DispatchType ==
    ASSUME NEW i \in Nat, NEW rec \in RecordType
    PROVE  Dispatch(i, rec) \in Seq(Op)
<1>1. CASE rec.txType \in DOMAIN DispatchRules
  <2> DEFINE rules == DispatchRules[rec.txType]
  <2>1. rules \in Seq(Dispatchers)
    BY <1>1, ConfigAssumption
  <2>2. \A k \in 1 .. Len(rules) : rules[k] \in Dispatchers
    BY <2>1
  <2>3. ASSUME NEW k \in 1 .. Len(rules)
        PROVE  [do |-> "produce", to |-> rules[k], k |-> k, msg |-> i,
                txType |-> rec.txType] \in Op
    BY <2>2 DEF Op, RecordType, TxTypes
  <2>4. Len(rules) \in Nat
    BY <2>1
  <2> QED
    BY <1>1, <2>3, <2>4 DEF Dispatch
<1>2. CASE rec.txType \notin DOMAIN DispatchRules
  BY <1>2 DEF Dispatch
<1> QED
  BY <1>1, <1>2

LEMMA ProcessRecordType ==
    ASSUME NEW i \in Nat, NEW rec \in RecordType
    PROVE  processRecord(i, rec) \in Seq(Op)
<1>1. Respond("ack", i, rec) \in Seq(Op)
  BY RespondType DEF Answers
<1> QED
  BY <1>1, DispatchType DEF processRecord

(* The reader's programme is a finite sequence of sends and Produce calls. *)
LEMMA ProgrammeType ==
    ASSUME NEW m \in Message, NEW i \in Nat
    PROVE  ParseAndProcessRecord(m, i) \in Seq(Op)
<1> DEFINE rec == NewRecord(m)
<1>1. rec \in RecordType
  BY NewRecordType
<1>2. Respond("ack", i, rec) \in Seq(Op) /\ Respond("error", i, rec) \in Seq(Op)
  BY <1>1, RespondType DEF Answers
<1>3. processRecord(i, rec) \in Seq(Op)
  BY <1>1, ProcessRecordType
<1>4. CASE rec.err = "none"
  BY <1>3, <1>4 DEF ParseAndProcessRecord
<1>5. CASE rec.err = "unknownMessageType"
  BY <1>2, <1>3, <1>5 DEF ParseAndProcessRecord
<1>6. CASE rec.err \notin {"none", "unknownMessageType"}
  BY <1>2, <1>6 DEF ParseAndProcessRecord
<1> QED
  BY <1>4, <1>5, <1>6

----------------------------------------------------------------------------
(* Every step of the programme of message i is about message i, and no answer
   comes before a Produce call: the reader answers last. *)
AboutMessage(p, i) == \A k \in DOMAIN p : p[k].msg = i

AnswersLast(p) ==
    \A j, k \in DOMAIN p : j < k /\ p[j].do \in Answers => p[k].do # "produce"

LEMMA DispatchProduces ==
    ASSUME NEW i \in Nat, NEW rec \in RecordType
    PROVE  /\ AboutMessage(Dispatch(i, rec), i)
           /\ \A k \in DOMAIN Dispatch(i, rec) : Dispatch(i, rec)[k].do = "produce"
<1>1. CASE rec.txType \in DOMAIN DispatchRules
  <2> DEFINE rules == DispatchRules[rec.txType]
  <2>1. rules \in Seq(Dispatchers)
    BY <1>1, ConfigAssumption
  <2>2. Len(rules) \in Nat
    BY <2>1
  <2> QED
    BY <1>1, <2>2 DEF Dispatch, AboutMessage
<1>2. CASE rec.txType \notin DOMAIN DispatchRules
  BY <1>2 DEF Dispatch, AboutMessage
<1> QED
  BY <1>1, <1>2

(* An unknown message has no topic, so it falls through to no dispatcher. *)
LEMMA UnknownHasNoTopic ==
    ASSUME NEW m \in Message, NewRecord(m).err = "unknownMessageType"
    PROVE  NewRecord(m).txType \notin DOMAIN DispatchRules
<1>1. CASE m.envelope = "corrupt"
  BY <1>1 DEF NewRecord, Deserialize
<1>2. CASE m.envelope = "otherType"
  BY <1>2, ConfigAssumption DEF NewRecord, Deserialize
<1>3. CASE m.envelope = "stream"
  BY <1>3 DEF NewRecord, Deserialize, applyRecordTransforms
<1> QED
  BY <1>1, <1>2, <1>3 DEF Message

LEMMA ProcessRecordOrder ==
    ASSUME NEW i \in Nat, NEW rec \in RecordType
    PROVE  /\ AboutMessage(processRecord(i, rec), i)
           /\ AnswersLast(processRecord(i, rec))
<1> DEFINE d == Dispatch(i, rec)
           a == IF reliableAck(rec.txType) THEN <<>> ELSE Respond("ack", i, rec)
<1>1. d \in Seq(Op) /\ a \in Seq(Op)
  BY DispatchType, RespondType DEF Answers
<1>2. \A k \in 1 .. Len(d) : d[k].msg = i /\ d[k].do = "produce"
  BY <1>1, DispatchProduces DEF AboutMessage
<1>3. Len(a) \in {0, 1} /\ \A k \in 1 .. Len(a) : a[k].msg = i
  BY DEF Respond
<1>4. processRecord(i, rec) = d \o a
  BY DEF processRecord
<1> HIDE DEF d, a
<1>5. /\ DOMAIN (d \o a) = 1 .. Len(d) + Len(a)
      /\ \A k \in 1 .. Len(d) : (d \o a)[k] = d[k]
      /\ \A k \in Len(d) + 1 .. Len(d) + Len(a) : (d \o a)[k] = a[k - Len(d)]
  BY <1>1
<1>6. Len(d) \in Nat
  BY <1>1
<1>7. AboutMessage(d \o a, i)
  BY <1>2, <1>3, <1>5, <1>6 DEF AboutMessage
<1>8. AnswersLast(d \o a)
  <2> SUFFICES ASSUME NEW j \in DOMAIN (d \o a), NEW k \in DOMAIN (d \o a), j < k,
                      (d \o a)[j].do \in Answers
               PROVE  FALSE
    BY DEF AnswersLast
  <2>1. j <= Len(d)
    BY <1>3, <1>5, <1>6
  <2>2. (d \o a)[j].do = "produce"
    BY <1>2, <1>5, <1>6, <2>1
  <2> QED
    BY <2>2 DEF Answers
<1> QED
  BY <1>4, <1>7, <1>8

LEMMA ProgrammeOrder ==
    ASSUME NEW m \in Message, NEW i \in Nat
    PROVE  /\ AboutMessage(ParseAndProcessRecord(m, i), i)
           /\ AnswersLast(ParseAndProcessRecord(m, i))
<1> DEFINE rec == NewRecord(m)
<1>1. rec \in RecordType
  BY NewRecordType
<1>2. CASE rec.err = "none"
  BY <1>1, <1>2, ProcessRecordOrder DEF ParseAndProcessRecord
<1>3. CASE rec.err = "unknownMessageType"
  <2>1. Dispatch(i, rec) = <<>>
    BY <1>3, UnknownHasNoTopic DEF Dispatch
  <2>2. ~reliableAck(rec.txType)
    BY <1>3, UnknownHasNoTopic, ConfigAssumption DEF reliableAck
  <2>3. Respond("ack", i, rec) \in Seq(Op)
    BY <1>1, RespondType DEF Answers
  <2>4. processRecord(i, rec) = Respond("ack", i, rec)
    BY <2>1, <2>2, <2>3 DEF processRecord
  <2>5. ParseAndProcessRecord(m, i) = Respond("ack", i, rec) \o Respond("ack", i, rec)
    BY <1>3, <2>4 DEF ParseAndProcessRecord
  <2> QED
    BY <2>5 DEF Respond, AboutMessage, AnswersLast
<1>4. CASE rec.err \notin {"none", "unknownMessageType"}
  BY <1>4 DEF ParseAndProcessRecord, Respond, AboutMessage, AnswersLast
<1> QED
  BY <1>2, <1>3, <1>4

----------------------------------------------------------------------------
(* No two Produce calls of a programme are the same, and the reader gives no
   ack of its own for a topic that a dispatcher acknowledges. *)
ProducesDiffer(p) ==
    \A j, k \in DOMAIN p : p[j] = p[k] /\ p[j].do = "produce" => j = k

DirectAcks(p) == \A k \in DOMAIN p : p[k].do = "ack" => ~reliableAck(p[k].txType)

LEMMA RespondAlone ==
    ASSUME NEW i \in Nat, NEW kind \in Answers, NEW rec \in RecordType,
           kind = "ack" => ~reliableAck(rec.txType)
    PROVE  ProducesDiffer(Respond(kind, i, rec)) /\ DirectAcks(Respond(kind, i, rec))
BY DEF Respond, Answers, ProducesDiffer, DirectAcks

LEMMA ProcessRecordDistinct ==
    ASSUME NEW i \in Nat, NEW rec \in RecordType
    PROVE  ProducesDiffer(processRecord(i, rec)) /\ DirectAcks(processRecord(i, rec))
<1> DEFINE d == Dispatch(i, rec)
           a == IF reliableAck(rec.txType) THEN <<>> ELSE Respond("ack", i, rec)
<1>1. d \in Seq(Op) /\ a \in Seq(Op)
  BY DispatchType, RespondType DEF Answers
<1>2. \A k \in 1 .. Len(d) : d[k].do = "produce" /\ d[k].k = k
  <2>1. CASE rec.txType \in DOMAIN DispatchRules
    <3>1. Len(DispatchRules[rec.txType]) \in Nat
      BY <2>1, ConfigAssumption
    <3> QED
      BY <2>1, <3>1 DEF Dispatch
  <2>2. CASE rec.txType \notin DOMAIN DispatchRules
    BY <2>2 DEF Dispatch
  <2> QED
    BY <2>1, <2>2
<1>3. /\ Len(a) \in {0, 1}
      /\ \A k \in 1 .. Len(a) : a[k].do = "ack" /\ a[k].txType = rec.txType
                                 /\ ~reliableAck(rec.txType)
  BY DEF Respond
<1>4. processRecord(i, rec) = d \o a
  BY DEF processRecord
<1> HIDE DEF d, a
<1>5. /\ DOMAIN (d \o a) = 1 .. Len(d) + Len(a)
      /\ \A k \in 1 .. Len(d) : (d \o a)[k] = d[k]
      /\ \A k \in Len(d) + 1 .. Len(d) + Len(a) : (d \o a)[k] = a[k - Len(d)]
      /\ Len(d) \in Nat
  BY <1>1
<1>6. ProducesDiffer(d \o a)
  <2> SUFFICES ASSUME NEW j \in DOMAIN (d \o a), NEW k \in DOMAIN (d \o a),
                      (d \o a)[j] = (d \o a)[k], (d \o a)[j].do = "produce"
               PROVE  j = k
    BY DEF ProducesDiffer
  <2>1. j <= Len(d) /\ k <= Len(d)
    BY <1>3, <1>5
  <2>2. (d \o a)[j].k = j /\ (d \o a)[k].k = k
    BY <1>2, <1>5, <2>1
  <2> QED
    BY <2>2
<1>7. DirectAcks(d \o a)
  <2> SUFFICES ASSUME NEW k \in DOMAIN (d \o a), (d \o a)[k].do = "ack"
               PROVE  ~reliableAck((d \o a)[k].txType)
    BY DEF DirectAcks
  <2>1. ~(k <= Len(d))
    BY <1>2, <1>5
  <2>2. k - Len(d) \in 1 .. Len(a) /\ (d \o a)[k] = a[k - Len(d)]
    BY <1>3, <1>5, <2>1
  <2> QED
    BY <1>3, <2>2
<1> QED
  BY <1>4, <1>6, <1>7

LEMMA ProgrammeDistinct ==
    ASSUME NEW m \in Message, NEW i \in Nat
    PROVE  /\ ProducesDiffer(ParseAndProcessRecord(m, i))
           /\ DirectAcks(ParseAndProcessRecord(m, i))
<1> DEFINE rec == NewRecord(m)
<1>1. rec \in RecordType
  BY NewRecordType
<1>2. CASE rec.err = "none"
  BY <1>1, <1>2, ProcessRecordDistinct DEF ParseAndProcessRecord
<1>3. CASE rec.err = "unknownMessageType"
  <2>1. Dispatch(i, rec) = <<>>
    BY <1>3, UnknownHasNoTopic DEF Dispatch
  <2>2. ~reliableAck(rec.txType)
    BY <1>3, UnknownHasNoTopic, ConfigAssumption DEF reliableAck
  <2>3. Respond("ack", i, rec) \in Seq(Op)
    BY <1>1, RespondType DEF Answers
  <2>4. processRecord(i, rec) = Respond("ack", i, rec)
    BY <2>1, <2>2, <2>3 DEF processRecord
  <2>5. ParseAndProcessRecord(m, i) = Respond("ack", i, rec) \o Respond("ack", i, rec)
    BY <1>3, <2>4 DEF ParseAndProcessRecord
  <2> QED
    BY <2>2, <2>5 DEF Respond, ProducesDiffer, DirectAcks
<1>4. CASE rec.err \notin {"none", "unknownMessageType"}
  <2>1. ParseAndProcessRecord(m, i) = Respond("error", i, rec)
    BY <1>4 DEF ParseAndProcessRecord
  <2> QED
    BY <1>1, <2>1, RespondAlone DEF Answers
<1> QED
  BY <1>2, <1>3, <1>4
============================================================================
