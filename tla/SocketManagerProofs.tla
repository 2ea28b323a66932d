------------------------ MODULE SocketManagerProofs ------------------------
(***************************************************************************)
(* Safety of one session, proved for every number of connections, every    *)
(* configuration, every set of messages and every capacity of writeChan.   *)
(***************************************************************************)
EXTENDS SocketManager, TelemetryRecordProofs, SequenceTheorems, WellFoundedInduction

LEMMA TypeInit == Init => TypeOK
BY SocketAssumption DEF Init, TypeOK, NoReason

LEMMA TypeStep == TypeOK /\ [Next]_vars => TypeOK'
<1> SUFFICES ASSUME TypeOK, [Next]_vars PROVE TypeOK'
  OBVIOUS
<1> USE DEF NoReason, Reasons
<1>1. CASE UNCHANGED vars
  BY <1>1 DEF vars, TypeOK
<1>2. ASSUME NEW c \in Conns, Reader(c) PROVE TypeOK'
  <2>1. CASE StartProcessTelemetry(c)
    BY <2>1 DEF StartProcessTelemetry, TypeOK
  <2>2. CASE ReadMessage(c)
    <3> PICK m \in Messages, limited \in {FALSE, MayRefuse(c)} :
          /\ received' = [received EXCEPT ![c] = Append(@, [msg |-> m, limited |-> limited])]
          /\ todo' = [todo EXCEPT ![c] =
                        IF limited THEN <<>>
                        ELSE ParseAndProcessRecord(m, Len(received[c]) + 1)]
      BY <2>2, Zenon DEF ReadMessage
    <3> DEFINE i == Len(received[c]) + 1
    <3>1. i \in Nat
      BY DEF TypeOK
    <3>2. ParseAndProcessRecord(m, i) \in Seq(Op)
      BY <3>1, SocketAssumption, ProgrammeType
    <3>3. todo' \in [Conns -> Seq(Op)]
      BY <3>2 DEF TypeOK
    <3>4. received' \in [Conns -> Seq([msg : Messages, limited : BOOLEAN])]
      <4> DEFINE Entry == [msg : Messages, limited : BOOLEAN]
                 entry == [msg |-> m, limited |-> limited]
      <4>1. limited \in BOOLEAN
        BY DEF MayRefuse
      <4>2. entry \in Entry
        BY <4>1
      <4>3. received \in [Conns -> Seq(Entry)]
        BY DEF TypeOK
      <4>4. received' = [received EXCEPT ![c] = Append(@, entry)]
        OBVIOUS
      <4> HIDE DEF Entry, entry
      <4>5. received' \in [Conns -> Seq(Entry)]
        BY <4>2, <4>3, <4>4
      <4> QED
        BY <4>5 DEF Entry
    <3> QED
      BY <2>2, <3>3, <3>4 DEF ReadMessage, TypeOK
  <2>3. CASE ReadError(c)
    <3> PICK err \in ReadErrors(c) : recordCloseReason(c, err)
      BY <2>3, Zenon DEF ReadError
    <3>1. closeReason' \in [Conns -> Reasons \cup {NoReason}]
      BY DEF ReadErrors, recordCloseReason, TypeOK
    <3>2. /\ ended' = [ended EXCEPT ![c] = "readError"]
          /\ pc' = [pc EXCEPT ![c] = "close"]
          /\ UNCHANGED <<received, todo, writerVars, writeChan, ws, deadline, stopped,
                       logged, closer, ackDue>>
      BY <2>3 DEF ReadError
    <3> QED
      BY <3>1, <3>2 DEF writerVars, TypeOK
  <2>4. CASE ReadWrongType(c)
    BY <2>4 DEF ReadWrongType, writerVars, reasonVars, TypeOK
  <2>5. CASE ReaderResponds(c)
    <3> DEFINE op == Head(todo[c])
               answer == [kind |-> op.do, msg |-> op.msg, txType |-> op.txType]
    <3>1. /\ todo[c] # <<>> /\ op.do \in Answers
          /\ respondToVehicle(c, answer)
          /\ todo' = [todo EXCEPT ![c] = Tail(@)]
      BY <2>5 DEF ReaderResponds
    <3>2. op \in Op
      BY <3>1 DEF TypeOK
    <3>3. answer \in SocketMessage
      BY <3>1, <3>2 DEF Op, SocketMessage
    <3>4. /\ writeChan' \in [Conns -> Seq(SocketMessage)]
          /\ \A d \in Conns : Len(writeChan'[d]) <= WriteCap
      BY <3>1, <3>3, SocketAssumption DEF respondToVehicle, TypeOK
    <3>5. todo' \in [Conns -> Seq(Op)]
      BY <3>1 DEF TypeOK
    <3> QED
      BY <2>5, <3>4, <3>5 DEF ReaderResponds, writerVars, reasonVars, TypeOK
  <2>6. CASE Produce(c)
    <3>1. todo[c] # <<>> /\ Head(todo[c]) \in Op
      BY <2>6 DEF Produce, TypeOK
    <3>2. ackDue' \in [Conns -> SUBSET Op]
      BY <2>6, <3>1 DEF Produce, TypeOK
    <3>3. todo' \in [Conns -> Seq(Op)]
      BY <2>6, <3>1 DEF Produce, TypeOK
    <3> QED
      BY <2>6, <3>2, <3>3 DEF Produce, writerVars, reasonVars, TypeOK
  <2>7. CASE CloseWs(c)
    <3> PICK err \in Reasons \cup {NoReason} : recordCloseReason(c, err)
      BY <2>7, Zenon DEF CloseWs
    <3>1. closeReason' \in [Conns -> Reasons \cup {NoReason}]
      BY DEF recordCloseReason, TypeOK
    <3>2. /\ ws' = [ws EXCEPT ![c] = "closed"]
          /\ pc' = [pc EXCEPT ![c] = "log"]
          /\ UNCHANGED <<ended, received, todo, writerVars, writeChan, deadline, stopped,
                         logged, closer, ackDue>>
      BY <2>7 DEF CloseWs
    <3> QED
      BY <3>1, <3>2 DEF writerVars, TypeOK
  <2>8. CASE LogDisconnected(c)
    BY <2>8 DEF LogDisconnected, writerVars, TypeOK
  <2>9. CASE CloseStopChan(c)
    BY <2>9 DEF CloseStopChan, writerVars, reasonVars, TypeOK
  <2> QED
    BY <1>2, <2>1, <2>2, <2>3, <2>4, <2>5, <2>6, <2>7, <2>8, <2>9
    DEF Reader, ProcessMessage, Teardown
<1>3. ASSUME NEW c \in Conns, Writer(c) PROVE TypeOK'
  <2>1. CASE WriterTake(c)
    <3>1. /\ writing' \in [Conns -> Seq(SocketMessage)]
          /\ \A d \in Conns : Len(writing'[d]) <= 1
      BY <2>1 DEF WriterTake, TypeOK
    <3>2. /\ writeChan' \in [Conns -> Seq(SocketMessage)]
          /\ \A d \in Conns : Len(writeChan'[d]) <= WriteCap
      BY <2>1, SocketAssumption DEF WriterTake, TypeOK
    <3> QED
      BY <2>1, <3>1, <3>2 DEF WriterTake, readerVars, reasonVars, TypeOK
  <2>2. CASE WriterStop(c)
    BY <2>2 DEF WriterStop, readerVars, reasonVars, TypeOK
  <2>3. CASE WriteOk(c)
    <3>1. sent' \in [Conns -> Seq(SocketMessage)]
      BY <2>3 DEF WriteOk, TypeOK
    <3>2. /\ writing' \in [Conns -> Seq(SocketMessage)]
          /\ \A d \in Conns : Len(writing'[d]) <= 1
      BY <2>3 DEF WriteOk, TypeOK
    <3> QED
      BY <2>3, <3>1, <3>2 DEF WriteOk, readerVars, reasonVars, TypeOK
  <2>4. CASE WriteError(c)
    <3> PICK err \in WriteErrors(c) : recordCloseReason(c, err)
      BY <2>4, Zenon DEF WriteError
    <3>1. closeReason' \in [Conns -> Reasons \cup {NoReason}]
      BY DEF WriteErrors, recordCloseReason, TypeOK
    <3>2. /\ writer' = [writer EXCEPT ![c] = "exit"]
          /\ UNCHANGED <<readerVars, writeChan, writing, sent, ws, deadline, stopped,
                       logged, closer, ackDue>>
      BY <2>4 DEF WriteError
    <3> QED
      BY <3>1, <3>2 DEF readerVars, TypeOK
  <2>5. CASE WriterExit(c)
    BY <2>5 DEF WriterExit, readerVars, reasonVars, TypeOK
  <2> QED
    BY <1>3, <2>1, <2>2, <2>3, <2>4, <2>5 DEF Writer, Write
<1>4. ASSUME NEW c \in Conns, Outside(c) PROVE TypeOK'
  <2>1. CASE RecordShutdown(c)
    BY <2>1 DEF RecordShutdown, recordCloseReason, readerVars, writerVars, TypeOK
  <2>2. CASE CloseForShutdown(c)
    BY <2>2 DEF CloseForShutdown, readerVars, writerVars, TypeOK
  <2>3. CASE AckResponse(c)
    <3> PICK op \in ackDue[c] :
          /\ respondToVehicle(c, [kind |-> "ack", msg |-> op.msg, txType |-> op.txType])
          /\ ackDue' = [ackDue EXCEPT ![c] = @ \ {op}]
      BY <2>3 DEF AckResponse
    <3> DEFINE answer == [kind |-> "ack", msg |-> op.msg, txType |-> op.txType]
    <3>1. op \in Op
      BY DEF TypeOK
    <3>2. answer \in SocketMessage
      BY <3>1 DEF Op, SocketMessage, Answers
    <3>3. /\ writeChan' \in [Conns -> Seq(SocketMessage)]
          /\ \A d \in Conns : Len(writeChan'[d]) <= WriteCap
      BY <3>2, SocketAssumption DEF respondToVehicle, TypeOK
    <3>4. ackDue' \in [Conns -> SUBSET Op]
      BY DEF TypeOK
    <3>5. UNCHANGED <<readerVars, writerVars, ws, deadline, stopped, reasonVars>>
      BY <2>3 DEF AckResponse
    <3> QED
      BY <3>3, <3>4, <3>5 DEF readerVars, writerVars, reasonVars, TypeOK
  <2>4. CASE AckNeverComes(c)
    <3> PICK op \in ackDue[c] : ackDue' = [ackDue EXCEPT ![c] = @ \ {op}]
      BY <2>4 DEF AckNeverComes
    <3>1. ackDue' \in [Conns -> SUBSET Op]
      BY DEF TypeOK
    <3>2. UNCHANGED <<readerVars, writerVars, writeChan, ws, deadline, stopped, reasonVars>>
      BY <2>4 DEF AckNeverComes
    <3> QED
      BY <3>1, <3>2 DEF readerVars, writerVars, reasonVars, TypeOK
  <2>5. CASE Drop(c)
    BY <2>5 DEF Drop, readerVars, writerVars, reasonVars, TypeOK
  <2> QED
    BY <1>4, <2>1, <2>2, <2>3, <2>4, <2>5 DEF Outside
<1> QED
  BY <1>1, <1>2, <1>3, <1>4 DEF Next

(* Every variable keeps to its type, and writeChan to its capacity. *)
THEOREM TypeCorrect == Spec => []TypeOK
BY TypeInit, TypeStep, PTL DEF Spec

(* The inductive invariant behind LoggedReasonTruthful. *)
ReasonIInv ==
    /\ TypeOK
    /\ LoggedReasonTruthful
    /\ \A c \in Conns : CloseReasonInv(c)

LEMMA ReasonInit == Init => ReasonIInv
<1> SUFFICES ASSUME Init PROVE ReasonIInv
  OBVIOUS
<1>1. TypeOK
  BY TypeInit
<1> QED
  BY <1>1 DEF Init, ReasonIInv, LoggedReasonTruthful, CloseReasonInv, NoReason

LEMMA ReasonStep == ReasonIInv /\ TypeOK' /\ [Next]_vars => ReasonIInv'
<1> SUFFICES ASSUME ReasonIInv, TypeOK', [Next]_vars PROVE ReasonIInv'
  OBVIOUS
<1> USE DEF ReasonIInv, NoReason
<1> DEFINE Goal == LoggedReasonTruthful' /\ \A d \in Conns : CloseReasonInv(d)'
<1>1. CASE UNCHANGED vars
  BY <1>1 DEF vars, LoggedReasonTruthful, CloseReasonInv
<1>2. ASSUME NEW c \in Conns, Reader(c) PROVE Goal
  <2>1. CASE StartProcessTelemetry(c)
    BY <2>1 DEF StartProcessTelemetry, TypeOK, LoggedReasonTruthful, CloseReasonInv
  <2>2. CASE ReadMessage(c)
    BY <2>2 DEF ReadMessage, TypeOK, LoggedReasonTruthful, CloseReasonInv
  <2>3. CASE ReadError(c)
    BY <2>3 DEF ReadError, ReadErrors, AtReadMessage, recordCloseReason, writerVars, Reasons,
                TypeOK, LoggedReasonTruthful, CloseReasonInv
  <2>4. CASE ReadWrongType(c)
    BY <2>4 DEF ReadWrongType, AtReadMessage, writerVars, reasonVars,
                TypeOK, LoggedReasonTruthful, CloseReasonInv
  <2>5. CASE ReaderResponds(c)
    BY <2>5 DEF ReaderResponds, writerVars, reasonVars, LoggedReasonTruthful, CloseReasonInv
  <2>6. CASE Produce(c)
    BY <2>6 DEF Produce, writerVars, reasonVars, LoggedReasonTruthful, CloseReasonInv
  <2>7. CASE CloseWs(c)
    BY <2>7 DEF CloseWs, recordCloseReason, writerVars, TypeOK, LoggedReasonTruthful,
                CloseReasonInv
  <2>8. CASE LogDisconnected(c)
    BY <2>8 DEF LogDisconnected, writerVars, TypeOK, LoggedReasonTruthful, CloseReasonInv
  <2>9. CASE CloseStopChan(c)
    BY <2>9 DEF CloseStopChan, writerVars, reasonVars, TypeOK, LoggedReasonTruthful,
                CloseReasonInv
  <2> QED
    BY <1>2, <2>1, <2>2, <2>3, <2>4, <2>5, <2>6, <2>7, <2>8, <2>9
    DEF Reader, ProcessMessage, Teardown
<1>3. ASSUME NEW c \in Conns, Writer(c) PROVE Goal
  <2>1. CASE WriterTake(c)
    BY <2>1 DEF WriterTake, readerVars, reasonVars, TypeOK, LoggedReasonTruthful, CloseReasonInv
  <2>2. CASE WriterStop(c)
    BY <2>2 DEF WriterStop, readerVars, reasonVars, TypeOK, LoggedReasonTruthful, CloseReasonInv
  <2>3. CASE WriteOk(c)
    BY <2>3 DEF WriteOk, readerVars, reasonVars, TypeOK, LoggedReasonTruthful, CloseReasonInv
  <2>4. CASE WriteError(c)
    BY <2>4 DEF WriteError, WriteErrors, recordCloseReason, readerVars, TypeOK,
                LoggedReasonTruthful, CloseReasonInv
  <2>5. CASE WriterExit(c)
    BY <2>5 DEF WriterExit, readerVars, reasonVars, TypeOK, LoggedReasonTruthful, CloseReasonInv
  <2> QED
    BY <1>3, <2>1, <2>2, <2>3, <2>4, <2>5 DEF Writer, Write
<1>4. ASSUME NEW c \in Conns, Outside(c) PROVE Goal
  <2>1. CASE RecordShutdown(c)
    BY <2>1 DEF RecordShutdown, recordCloseReason, readerVars, writerVars, TypeOK,
                LoggedReasonTruthful, CloseReasonInv
  <2>2. CASE CloseForShutdown(c)
    BY <2>2 DEF CloseForShutdown, readerVars, writerVars, TypeOK, LoggedReasonTruthful,
                CloseReasonInv
  <2>3. CASE AckResponse(c)
    BY <2>3 DEF AckResponse, readerVars, writerVars, reasonVars, LoggedReasonTruthful,
                CloseReasonInv
  <2>4. CASE AckNeverComes(c)
    BY <2>4 DEF AckNeverComes, readerVars, writerVars, reasonVars, LoggedReasonTruthful,
                CloseReasonInv
  <2>5. CASE Drop(c)
    BY <2>5 DEF Drop, readerVars, writerVars, reasonVars, TypeOK, LoggedReasonTruthful,
                CloseReasonInv
  <2> QED
    BY <1>4, <2>1, <2>2, <2>3, <2>4, <2>5 DEF Outside
<1> QED
  BY <1>1, <1>2, <1>3, <1>4 DEF Next

(* The close_reason of socket_disconnected is the cause of the end of the
   session: never the echo of a close somebody else asked for. *)
THEOREM ReasonTruthful == Spec => []LoggedReasonTruthful
<1>1. Init => ReasonIInv
  BY ReasonInit
<1>2. ReasonIInv /\ [Next]_vars => ReasonIInv'
  BY TypeStep, ReasonStep DEF ReasonIInv
<1>3. ReasonIInv => LoggedReasonTruthful
  BY DEF ReasonIInv
<1> QED
  BY <1>1, <1>2, <1>3, PTL DEF Spec

----------------------------------------------------------------------------
(* AckAfterDispatch.                                                       *)

(* What a concatenation, a head and a tail hold. *)
LEMMA RangeOfConcat ==
    ASSUME NEW S, NEW s \in Seq(S), NEW t \in Seq(S)
    PROVE  Range(s \o t) = Range(s) \cup Range(t)
<1>1. /\ DOMAIN (s \o t) = 1 .. Len(s) + Len(t)
      /\ \A k \in 1 .. Len(s) : (s \o t)[k] = s[k]
      /\ \A k \in 1 .. Len(t) : (s \o t)[Len(s) + k] = t[k]
      /\ \A k \in Len(s) + 1 .. Len(s) + Len(t) :
            k - Len(s) \in 1 .. Len(t) /\ (s \o t)[k] = t[k - Len(s)]
      /\ DOMAIN s = 1 .. Len(s) /\ DOMAIN t = 1 .. Len(t)
      /\ Len(s) \in Nat /\ Len(t) \in Nat
  OBVIOUS
<1>2. ASSUME NEW x \in Range(s \o t) PROVE x \in Range(s) \cup Range(t)
  <2> PICK k \in DOMAIN (s \o t) : x = (s \o t)[k]
    BY DEF Range
  <2>1. CASE k <= Len(s)
    BY <1>1, <2>1 DEF Range
  <2>2. CASE ~(k <= Len(s))
    BY <1>1, <2>2 DEF Range
  <2> QED
    BY <2>1, <2>2
<1>3. ASSUME NEW x \in Range(s) PROVE x \in Range(s \o t)
  BY <1>1 DEF Range
<1>4. ASSUME NEW x \in Range(t) PROVE x \in Range(s \o t)
  <2> PICK k \in 1 .. Len(t) : x = t[k]
    BY <1>1 DEF Range
  <2>1. Len(s) + k \in DOMAIN (s \o t) /\ (s \o t)[Len(s) + k] = x
    BY <1>1
  <2> QED
    BY <2>1 DEF Range
<1> QED
  BY <1>2, <1>3, <1>4

LEMMA RangeOfThree ==
    ASSUME NEW S, NEW s \in Seq(S), NEW t \in Seq(S), NEW u \in Seq(S)
    PROVE  Range(s \o t \o u) = Range(s) \cup Range(t) \cup Range(u)
<1> DEFINE st == s \o t
<1>1. st \in Seq(S) /\ Range(st) = Range(s) \cup Range(t)
  BY RangeOfConcat
<1> HIDE DEF st
<1>2. Range(st \o u) = Range(st) \cup Range(u)
  BY <1>1, RangeOfConcat
<1>3. Range(st \o u) = Range(s) \cup Range(t) \cup Range(u)
  BY <1>1, <1>2
<1> QED
  BY <1>3 DEF st

LEMMA RangeOfAppend ==
    ASSUME NEW S, NEW s \in Seq(S), NEW x \in S
    PROVE  Range(Append(s, x)) = Range(s) \cup {x}
<1>1. /\ DOMAIN Append(s, x) = 1 .. Len(s) + 1 /\ DOMAIN s = 1 .. Len(s) /\ Len(s) \in Nat
      /\ \A k \in 1 .. Len(s) : Append(s, x)[k] = s[k]
      /\ Append(s, x)[Len(s) + 1] = x
  OBVIOUS
<1> QED
  BY <1>1 DEF Range

LEMMA RangeOfTail ==
    ASSUME NEW S, NEW s \in Seq(S), s # <<>>
    PROVE  Range(Tail(s)) \subseteq Range(s) /\ Head(s) \in Range(s)
<1>1. /\ DOMAIN Tail(s) = 1 .. Len(s) - 1 /\ DOMAIN s = 1 .. Len(s) /\ Len(s) \in Nat \ {0}
      /\ \A k \in 1 .. Len(s) - 1 : Tail(s)[k] = s[k + 1]
  OBVIOUS
<1> QED
  BY <1>1 DEF Range

(* Everything handed over is on the wire, in the writer's hand or in the
   channel, before a step and after it. *)
LEMMA HandedOverRange ==
    ASSUME TypeOK, NEW c \in Conns
    PROVE  Range(HandedOver(c)) = Range(sent[c]) \cup Range(writing[c]) \cup Range(writeChan[c])
<1>1. /\ sent[c] \in Seq(SocketMessage) /\ writing[c] \in Seq(SocketMessage)
      /\ writeChan[c] \in Seq(SocketMessage)
  BY DEF TypeOK
<1> QED
  BY <1>1, RangeOfThree DEF HandedOver

LEMMA HandedOverType ==
    ASSUME TypeOK, NEW c \in Conns
    PROVE  \A a \in Range(HandedOver(c)) : a \in SocketMessage
<1>1. ASSUME NEW s \in Seq(SocketMessage) PROVE \A a \in Range(s) : a \in SocketMessage
  BY DEF Range
<1>2. /\ sent[c] \in Seq(SocketMessage) /\ writing[c] \in Seq(SocketMessage)
      /\ writeChan[c] \in Seq(SocketMessage)
  BY DEF TypeOK
<1> QED
  BY <1>1, <1>2, HandedOverRange

LEMMA HandedOverRangeNext ==
    ASSUME TypeOK', NEW c \in Conns
    PROVE  Range(HandedOver(c))' = Range(sent'[c]) \cup Range(writing'[c]) \cup Range(writeChan'[c])
<1>1. /\ sent'[c] \in Seq(SocketMessage) /\ writing'[c] \in Seq(SocketMessage)
      /\ writeChan'[c] \in Seq(SocketMessage)
  BY DEF TypeOK
<1>2. HandedOver(c)' = sent'[c] \o writing'[c] \o writeChan'[c]
  BY DEF HandedOver
<1>3. Range(HandedOver(c))' = Range(HandedOver(c)')
  BY DEF Range
<1> QED
  BY <1>1, <1>2, <1>3, RangeOfThree

(* A step that hands over nothing new. *)
LEMMA NothingNew ==
    ASSUME TypeOK, TypeOK', NEW c \in Conns, NEW d \in Conns,
           \/ UNCHANGED <<sent, writing, writeChan>>
           \/ WriterTake(c)
           \/ WriteOk(c)
    PROVE  Range(HandedOver(d))' \subseteq Range(HandedOver(d))
<1>1. Range(HandedOver(d)) = Range(sent[d]) \cup Range(writing[d]) \cup Range(writeChan[d])
  BY HandedOverRange
<1>2. Range(HandedOver(d))' = Range(sent'[d]) \cup Range(writing'[d]) \cup Range(writeChan'[d])
  BY HandedOverRangeNext
<1>3. CASE UNCHANGED <<sent, writing, writeChan>>
  BY <1>1, <1>2, <1>3
<1>4. CASE WriterTake(c)
  <2>1. CASE d # c
    BY <1>1, <1>2, <1>4, <2>1 DEF WriterTake, TypeOK
  <2>2. CASE d = c
    <3>1. writeChan[c] \in Seq(SocketMessage) /\ writeChan[c] # <<>>
      BY <1>4 DEF WriterTake, TypeOK
    <3>2. Range(<<Head(writeChan[c])>>) = {Head(writeChan[c])}
      BY DEF Range
    <3>3. /\ sent'[c] = sent[c] /\ writing'[c] = <<Head(writeChan[c])>>
          /\ writeChan'[c] = Tail(writeChan[c])
      BY <1>4 DEF WriterTake, TypeOK
    <3> QED
      BY <1>1, <1>2, <2>2, <3>1, <3>2, <3>3, RangeOfTail
  <2> QED
    BY <2>1, <2>2
<1>5. CASE WriteOk(c)
  <2>1. CASE d # c
    BY <1>1, <1>2, <1>5, <2>1 DEF WriteOk, TypeOK
  <2>2. CASE d = c
    <3>1. sent[c] \in Seq(SocketMessage) /\ writing[c] \in Seq(SocketMessage)
      BY DEF TypeOK
    <3>2. Range(<< >>) = {}
      BY DEF Range
    <3>3. /\ sent'[c] = sent[c] \o writing[c] /\ writing'[c] = <<>>
          /\ writeChan'[c] = writeChan[c]
      BY <1>5 DEF WriteOk, TypeOK
    <3> QED
      BY <1>1, <1>2, <2>2, <3>1, <3>2, <3>3, RangeOfConcat
  <2> QED
    BY <2>1, <2>2
<1> QED
  BY <1>3, <1>4, <1>5

(* respondToVehicle hands over its answer and nothing else. *)
LEMMA OneNew ==
    ASSUME TypeOK, TypeOK', NEW c \in Conns, NEW d \in Conns, NEW answer \in SocketMessage,
           respondToVehicle(c, answer), UNCHANGED <<sent, writing>>
    PROVE  /\ Range(HandedOver(c))' = Range(HandedOver(c)) \cup {answer}
           /\ d # c => Range(HandedOver(d))' = Range(HandedOver(d))
<1>1. \A e \in Conns : Range(HandedOver(e))
                          = Range(sent[e]) \cup Range(writing[e]) \cup Range(writeChan[e])
  BY HandedOverRange
<1>2. ASSUME NEW e \in Conns
      PROVE  Range(HandedOver(e))'
               = Range(sent'[e]) \cup Range(writing'[e]) \cup Range(writeChan'[e])
  BY HandedOverRangeNext
<1>3. writeChan[c] \in Seq(SocketMessage)
  BY DEF TypeOK
<1>4. /\ writeChan'[c] = Append(writeChan[c], answer)
      /\ d # c => writeChan'[d] = writeChan[d]
  BY DEF respondToVehicle, TypeOK
<1>5. Range(writeChan'[c]) = Range(writeChan[c]) \cup {answer}
  BY <1>3, <1>4, RangeOfAppend
<1> QED
  BY <1>1, <1>2, <1>4, <1>5
(* The inductive invariant behind AckAfterDispatch. *)
DispatchIInv ==
    /\ TypeOK
    /\ AckAfterDispatch
    /\ \A c \in Conns : DispatchInv(c)

LEMMA DispatchInit == Init => DispatchIInv
<1> SUFFICES ASSUME Init PROVE DispatchIInv
  OBVIOUS
<1>1. TypeOK
  BY TypeInit
<1>2. ASSUME NEW c \in Conns
      PROVE  todo[c] = <<>> /\ Range(HandedOver(c)) = {} /\ ackDue[c] = {}
  BY DEF Init, HandedOver, Range
<1> QED
  BY <1>1, <1>2 DEF DispatchIInv, AckAfterDispatch, DispatchInv, Range

(* What the answers and the rest of the programme of d must satisfy. *)
DispatchedBefore(d) ==
    /\ DispatchInv(d)
    /\ \A op \in Range(todo[d]) :
          op.do = "produce" =>
              \A a \in Range(HandedOver(d)) : DirectAnswer(a) => a.msg # op.msg

LEMMA DispatchSplit ==
    ASSUME TypeOK', \A d \in Conns : DispatchedBefore(d)'
    PROVE  DispatchIInv'
BY DEF DispatchIInv, DispatchedBefore, AckAfterDispatch

(* A step that answers nobody, reads nothing and takes nothing on. *)
LEMMA DispatchFrame ==
    ASSUME DispatchIInv, NEW d \in Conns,
           Range(HandedOver(d))' \subseteq Range(HandedOver(d)),
           todo'[d] = todo[d], received'[d] = received[d], ackDue'[d] \subseteq ackDue[d]
    PROVE  DispatchedBefore(d)'
<1>1. DispatchedBefore(d)
  BY DEF DispatchIInv, DispatchedBefore, AckAfterDispatch
<1>2. Range(todo'[d]) = Range(todo[d])
  OBVIOUS
<1>3. Range(todo[d])' = Range(todo'[d])
  BY DEF Range
<1> QED
  BY <1>1, <1>2, <1>3 DEF DispatchedBefore, DispatchInv
(* Doing the first step of a programme leaves a programme of the same message. *)
LEMMA RestAbout ==
    ASSUME NEW p \in Seq(Op), p # <<>>, NEW i, AboutMessage(p, i)
    PROVE  AboutMessage(Tail(p), i) /\ Head(p).msg = i
<1>1. /\ DOMAIN Tail(p) = 1 .. Len(p) - 1 /\ DOMAIN p = 1 .. Len(p) /\ Len(p) \in Nat \ {0}
      /\ Head(p) = p[1]
  OBVIOUS
<1>2. ASSUME NEW k \in DOMAIN Tail(p) PROVE Tail(p)[k] = p[k + 1] /\ k + 1 \in DOMAIN p
  BY <1>1
<1>3. 1 \in DOMAIN p
  BY <1>1
<1> QED
  BY <1>1, <1>2, <1>3 DEF AboutMessage

(* What is left also answers last; after an answer nothing is left to produce. *)
LEMMA RestOfProgramme ==
    ASSUME NEW p \in Seq(Op), p # <<>>, NEW i, AboutMessage(p, i), AnswersLast(p)
    PROVE  /\ AboutMessage(Tail(p), i)
           /\ AnswersLast(Tail(p))
           /\ Head(p).msg = i
           /\ Head(p).do \in Answers => \A op \in Range(Tail(p)) : op.do # "produce"
<1>1. /\ DOMAIN Tail(p) = 1 .. Len(p) - 1 /\ DOMAIN p = 1 .. Len(p) /\ Len(p) \in Nat \ {0}
      /\ \A k \in 1 .. Len(p) - 1 : Tail(p)[k] = p[k + 1]
      /\ Head(p) = p[1]
  OBVIOUS
<1>2. AboutMessage(Tail(p), i) /\ Head(p).msg = i
  BY RestAbout
<1>3. AnswersLast(Tail(p))
  <2> SUFFICES ASSUME NEW j \in 1 .. Len(p) - 1, NEW k \in 1 .. Len(p) - 1, j < k,
                      p[j + 1].do \in Answers
               PROVE  p[k + 1].do # "produce"
    BY <1>1 DEF AnswersLast
  <2>1. j + 1 \in DOMAIN p /\ k + 1 \in DOMAIN p /\ j + 1 < k + 1
    BY <1>1
  <2> QED
    BY <2>1 DEF AnswersLast
<1>4. ASSUME Head(p).do \in Answers, NEW k \in DOMAIN Tail(p)
      PROVE  Tail(p)[k].do # "produce"
  <2>1. 1 \in DOMAIN p /\ k + 1 \in DOMAIN p /\ 1 < k + 1
    BY <1>1
  <2> QED
    BY <1>1, <1>4, <2>1 DEF AnswersLast
<1>5. Head(p).do \in Answers => \A op \in Range(Tail(p)) : op.do # "produce"
  BY <1>4 DEF Range
<1> QED
  BY <1>2, <1>3, <1>5

(* A new message: its programme is about it, and no answer carries its number. *)
LEMMA DispatchRead ==
    ASSUME DispatchIInv, TypeOK', NEW c \in Conns, ReadMessage(c)
    PROVE  DispatchedBefore(c)'
<1> DEFINE i == Len(received[c]) + 1
<1>1. PICK m \in Messages, limited \in {FALSE, MayRefuse(c)} :
          /\ received' = [received EXCEPT ![c] = Append(@, [msg |-> m, limited |-> limited])]
          /\ todo' = [todo EXCEPT ![c] = IF limited THEN <<>> ELSE ParseAndProcessRecord(m, i)]
  BY Zenon DEF ReadMessage
<1>2. /\ TypeOK
      /\ \A a \in Range(HandedOver(c)) : DirectAnswer(a) => a.msg <= Len(received[c])
      /\ \A op \in ackDue[c] : reliableAck(op.txType)
  BY DEF DispatchIInv, DispatchInv
<1>3. i \in Nat /\ Len(received'[c]) = i
  <2> DEFINE Entry == [msg : Messages, limited : BOOLEAN]
             entry == [msg |-> m, limited |-> limited]
  <2>1. received \in [Conns -> Seq(Entry)] /\ received' = [received EXCEPT ![c] = Append(@, entry)]
    BY <1>1, <1>2, Zenon DEF TypeOK
  <2> HIDE DEF Entry, entry
  <2>2. received[c] \in Seq(Entry) /\ received'[c] = Append(received[c], entry)
    BY <2>1
  <2> QED
    BY <2>2
<1>4. AboutMessage(todo'[c], i) /\ AnswersLast(todo'[c])
  <2>1. AboutMessage(<<>>, i) /\ AnswersLast(<<>>)
    BY DEF AboutMessage, AnswersLast
  <2>2. m \in Message
    BY SocketAssumption
  <2>3. AboutMessage(ParseAndProcessRecord(m, i), i) /\ AnswersLast(ParseAndProcessRecord(m, i))
    BY <1>3, <2>2, ProgrammeOrder
  <2>4. todo'[c] = IF limited THEN <<>> ELSE ParseAndProcessRecord(m, i)
    BY <1>1, <1>2 DEF TypeOK
  <2> QED
    BY <2>1, <2>3, <2>4
<1>5. UNCHANGED <<sent, writing, writeChan, ackDue>>
  BY DEF ReadMessage
<1>6. Range(HandedOver(c))' \subseteq Range(HandedOver(c))
  BY <1>2, <1>5, NothingNew
<1>7. \A a \in Range(HandedOver(c))' : a.msg \in Nat
  <2>1. \A a \in Range(HandedOver(c)) : a \in SocketMessage
    BY <1>2, HandedOverType
  <2> QED
    BY <1>6, <2>1 DEF SocketMessage
<1>8. \A a \in Range(HandedOver(c))' : DirectAnswer(a) => a.msg <= i /\ a.msg # i
  BY <1>2, <1>3, <1>6, <1>7
<1>9. DispatchInv(c)'
  BY <1>2, <1>3, <1>4, <1>5, <1>8 DEF DispatchInv, AboutMessage, AnswersLast
<1>10. \A op \in Range(todo[c])' : op.msg = i
  BY <1>4 DEF AboutMessage, Range
<1> QED
  BY <1>8, <1>9, <1>10 DEF DispatchedBefore
(* Handing over an answer at the head of the programme, or calling Produce. *)
LEMMA DispatchProcess ==
    ASSUME DispatchIInv, TypeOK', NEW c \in Conns, ReaderResponds(c) \/ Produce(c)
    PROVE  DispatchedBefore(c)'
<1> DEFINE op == Head(todo[c])
           answer == [kind |-> op.do, msg |-> op.msg, txType |-> op.txType]
           i == Len(received[c])
<1>1. TypeOK /\ DispatchedBefore(c)
  BY DEF DispatchIInv, DispatchedBefore, AckAfterDispatch
<1>2. todo[c] \in Seq(Op) /\ todo[c] # <<>> /\ op \in Op
  BY <1>1 DEF ReaderResponds, Produce, TypeOK
<1>3. AboutMessage(todo[c], i) /\ AnswersLast(todo[c])
  BY <1>1 DEF DispatchedBefore, DispatchInv, AboutMessage, AnswersLast
<1>4. /\ AboutMessage(Tail(todo[c]), i) /\ AnswersLast(Tail(todo[c])) /\ op.msg = i
      /\ op.do \in Answers => \A rest \in Range(Tail(todo[c])) : rest.do # "produce"
  BY <1>2, <1>3, RestOfProgramme
<1>5. /\ todo'[c] = Tail(todo[c]) /\ received' = received /\ UNCHANGED <<sent, writing>>
  <2>1. /\ todo' = [todo EXCEPT ![c] = Tail(@)]
        /\ UNCHANGED <<received, writerVars>>
    BY Zenon DEF ReaderResponds, Produce
  <2>2. todo \in [Conns -> Seq(Op)]
    BY <1>1 DEF TypeOK
  <2> QED
    BY <2>1, <2>2 DEF writerVars
<1>6. Range(todo[c])' = Range(Tail(todo[c]))
  BY <1>5 DEF Range
<1>7. CASE ReaderResponds(c)
  <2>1. op.do \in Answers /\ respondToVehicle(c, answer) /\ ackDue' = ackDue
    BY <1>7 DEF ReaderResponds
  <2>2. answer \in SocketMessage
    BY <1>2, <2>1 DEF Op, SocketMessage
  <2>3. Range(HandedOver(c))' = Range(HandedOver(c)) \cup {answer}
    BY <1>1, <1>5, <2>1, <2>2, OneNew
  <2>4. i \in Nat /\ answer.msg = i
    BY <1>1, <1>4 DEF TypeOK
  <2>5. \A a \in Range(HandedOver(c))' : DirectAnswer(a) => a.msg <= i
    BY <1>1, <2>3, <2>4 DEF DispatchedBefore, DispatchInv
  <2>6. DispatchInv(c)'
    BY <1>1, <1>4, <1>5, <2>1, <2>5
    DEF DispatchedBefore, DispatchInv, AboutMessage, AnswersLast
  <2> QED
    BY <1>4, <1>6, <2>1, <2>6 DEF DispatchedBefore
<1>8. CASE Produce(c)
  <2>1. PICK accepted \in {FALSE, OwesAck(op)} :
            ackDue' = [ackDue EXCEPT ![c] = IF accepted THEN @ \cup {op} ELSE @]
    BY <1>8 DEF Produce
  <2>2. writeChan' = writeChan
    BY <1>8 DEF Produce
  <2>3. Range(HandedOver(c))' \subseteq Range(HandedOver(c))
    BY <1>1, <1>5, <2>2, NothingNew
  <2>4. \A o \in ackDue'[c] : reliableAck(o.txType)
    <3>1. \A o \in ackDue[c] : reliableAck(o.txType)
      BY <1>1 DEF DispatchedBefore, DispatchInv
    <3>2. CASE accepted
      <4>1. reliableAck(op.txType)
        BY <3>2 DEF OwesAck
      <4>2. ackDue'[c] = ackDue[c] \cup {op}
        BY <1>1, <2>1, <3>2 DEF TypeOK
      <4> QED
        BY <3>1, <4>1, <4>2
    <3>3. CASE ~accepted
      BY <1>1, <2>1, <3>1, <3>3 DEF TypeOK
    <3> QED
      BY <3>2, <3>3
  <2>5. DispatchInv(c)'
    BY <1>1, <1>4, <1>5, <2>3, <2>4
    DEF DispatchedBefore, DispatchInv, AboutMessage, AnswersLast
  <2>6. Range(Tail(todo[c])) \subseteq Range(todo[c])
    BY <1>2, RangeOfTail
  <2> QED
    BY <1>1, <1>6, <2>3, <2>5, <2>6 DEF DispatchedBefore
<1> QED
  BY <1>7, <1>8

(* What the sessions allow of an answer from outside: the ack of a topic that
   some dispatcher acknowledges, on any session, whoever was owed one. *)
AckOf(op) == [kind |-> "ack", msg |-> op.msg, txType |-> op.txType]

OutsideAck(c, op) ==
    /\ op \in Op /\ reliableAck(op.txType)
    /\ respondToVehicle(c, AckOf(op))
    /\ \A e \in Conns : ackDue'[e] \subseteq ackDue[e]
    /\ UNCHANGED <<readerVars, writerVars, ws, deadline, stopped, reasonVars>>

LEMMA AckOfType ==
    ASSUME NEW op \in Op, reliableAck(op.txType)
    PROVE  AckOf(op) \in SocketMessage /\ ~DirectAnswer(AckOf(op))
BY DEF AckOf, Op, SocketMessage, Answers, DirectAnswer

(* handleAcks of SocketManager's own specification is a special case. *)
LEMMA ResponseIsOutsideAck ==
    ASSUME DispatchIInv, NEW c \in Conns, AckResponse(c)
    PROVE  \E op \in Op : OutsideAck(c, op)
<1>1. TypeOK /\ \A o \in ackDue[c] : reliableAck(o.txType)
  BY DEF DispatchIInv, DispatchInv
<1>2. PICK op \in ackDue[c] :
          /\ respondToVehicle(c, AckOf(op))
          /\ ackDue' = [ackDue EXCEPT ![c] = @ \ {op}]
          /\ UNCHANGED <<readerVars, writerVars, ws, deadline, stopped, reasonVars>>
  BY DEF AckResponse, AckOf
<1>3. op \in Op /\ \A e \in Conns : ackDue'[e] \subseteq ackDue[e]
  BY <1>1, <1>2 DEF TypeOK
<1> QED
  BY <1>1, <1>2, <1>3 DEF OutsideAck

(* Such an ack is not the reader's own. *)
LEMMA DispatchAck ==
    ASSUME DispatchIInv, TypeOK', NEW c \in Conns, NEW op \in Op, OutsideAck(c, op),
           NEW d \in Conns
    PROVE  DispatchedBefore(d)'
<1>1. TypeOK /\ DispatchedBefore(d) /\ respondToVehicle(c, AckOf(op))
  BY DEF DispatchIInv, DispatchedBefore, AckAfterDispatch, OutsideAck
<1>2. AckOf(op) \in SocketMessage /\ ~DirectAnswer(AckOf(op))
  BY AckOfType DEF OutsideAck
<1>3. UNCHANGED <<sent, writing, todo, received>> /\ ackDue'[d] \subseteq ackDue[d]
  BY DEF OutsideAck, readerVars, writerVars
<1>4. /\ Range(HandedOver(c))' = Range(HandedOver(c)) \cup {AckOf(op)}
      /\ d # c => Range(HandedOver(d))' = Range(HandedOver(d))
  BY <1>1, <1>2, <1>3, OneNew
<1>5. Range(HandedOver(d))' \subseteq Range(HandedOver(d)) \cup {AckOf(op)}
  BY <1>4
<1>6. DispatchInv(d)'
  BY <1>1, <1>2, <1>3, <1>5 DEF DispatchedBefore, DispatchInv
<1>7. Range(todo[d])' = Range(todo[d])
  BY <1>3 DEF Range
<1> QED
  BY <1>1, <1>2, <1>5, <1>6, <1>7 DEF DispatchedBefore

LEMMA DispatchStep == DispatchIInv /\ TypeOK' /\ [Next]_vars => DispatchIInv'
<1> SUFFICES ASSUME DispatchIInv, TypeOK', [Next]_vars, NEW d \in Conns
             PROVE  DispatchedBefore(d)'
  BY DispatchSplit
<1>1. TypeOK
  BY DEF DispatchIInv
<1>2. ASSUME UNCHANGED <<todo, received, ackDue>>,
             \/ UNCHANGED <<sent, writing, writeChan>>
             \/ \E c \in Conns : WriterTake(c) \/ WriteOk(c)
      PROVE  DispatchedBefore(d)'
  <2>1. Range(HandedOver(d))' \subseteq Range(HandedOver(d))
    BY <1>1, <1>2, NothingNew
  <2> QED
    BY <1>2, <2>1, DispatchFrame
<1>3. CASE UNCHANGED vars
  BY <1>2, <1>3 DEF vars
<1>4. ASSUME NEW c \in Conns, Reader(c) PROVE DispatchedBefore(d)'
  <2>1. CASE StartProcessTelemetry(c)
    BY <1>2, <2>1 DEF StartProcessTelemetry
  <2>2. CASE ReadMessage(c)
    <3>1. CASE d = c
      BY <2>2, <3>1, DispatchRead
    <3>2. CASE d # c
      <4>1. todo'[d] = todo[d] /\ received'[d] = received[d]
        BY <1>1, <2>2, <3>2 DEF ReadMessage, TypeOK
      <4>2. UNCHANGED <<sent, writing, writeChan, ackDue>>
        BY <2>2 DEF ReadMessage
      <4>3. Range(HandedOver(d))' \subseteq Range(HandedOver(d))
        BY <1>1, <4>2, NothingNew
      <4> QED
        BY <4>1, <4>2, <4>3, DispatchFrame
    <3> QED
      BY <3>1, <3>2
  <2>3. CASE ReadError(c)
    BY <1>2, <2>3 DEF ReadError, writerVars
  <2>4. CASE ReadWrongType(c)
    BY <1>2, <2>4 DEF ReadWrongType, writerVars
  <2>5. CASE ProcessMessage(c)
    <3>1. CASE d = c
      BY <2>5, <3>1, DispatchProcess DEF ProcessMessage
    <3>2. CASE d # c
      <4>1. todo'[d] = todo[d] /\ received'[d] = received[d] /\ UNCHANGED <<sent, writing>>
        BY <1>1, <2>5, <3>2
        DEF ProcessMessage, ReaderResponds, Produce, writerVars, TypeOK
      <4>2. ackDue'[d] = ackDue[d] /\ writeChan'[d] = writeChan[d]
        <5>1. CASE ReaderResponds(c)
          BY <1>1, <3>2, <5>1 DEF ReaderResponds, respondToVehicle, TypeOK
        <5>2. CASE Produce(c)
          <6> PICK dues : ackDue' = [ackDue EXCEPT ![c] = dues] /\ writeChan' = writeChan
            BY <5>2 DEF Produce
          <6> QED
            BY <1>1, <3>2 DEF TypeOK
        <5> QED
          BY <2>5, <5>1, <5>2 DEF ProcessMessage
      <4>3. Range(HandedOver(d))' \subseteq Range(HandedOver(d))
        BY <1>1, <4>1, <4>2, HandedOverRange, HandedOverRangeNext
      <4> QED
        BY <4>1, <4>2, <4>3, DispatchFrame
    <3> QED
      BY <3>1, <3>2
  <2>6. CASE CloseWs(c)
    BY <1>2, <2>6 DEF CloseWs, writerVars
  <2>7. CASE LogDisconnected(c)
    BY <1>2, <2>7 DEF LogDisconnected, writerVars
  <2>8. CASE CloseStopChan(c)
    BY <1>2, <2>8 DEF CloseStopChan, writerVars
  <2> QED
    BY <1>4, <2>1, <2>2, <2>3, <2>4, <2>5, <2>6, <2>7, <2>8 DEF Reader, Teardown
<1>5. ASSUME NEW c \in Conns, Writer(c) PROVE DispatchedBefore(d)'
  <2>1. CASE WriterTake(c)
    <3>1. UNCHANGED <<todo, received, ackDue>>
      BY <2>1 DEF WriterTake, readerVars
    <3> QED
      BY <1>2, <2>1, <3>1
  <2>2. CASE WriterStop(c)
    BY <1>2, <2>2 DEF WriterStop, readerVars
  <2>3. CASE WriteOk(c)
    <3>1. UNCHANGED <<todo, received, ackDue>>
      BY <2>3 DEF WriteOk, readerVars
    <3> QED
      BY <1>2, <2>3, <3>1
  <2>4. CASE WriteError(c)
    BY <1>2, <2>4 DEF WriteError, readerVars
  <2>5. CASE WriterExit(c)
    BY <1>2, <2>5 DEF WriterExit, readerVars
  <2> QED
    BY <1>5, <2>1, <2>2, <2>3, <2>4, <2>5 DEF Writer, Write
<1>6. ASSUME NEW c \in Conns, Outside(c) PROVE DispatchedBefore(d)'
  <2>1. CASE RecordShutdown(c)
    BY <1>2, <2>1 DEF RecordShutdown, readerVars, writerVars
  <2>2. CASE CloseForShutdown(c)
    BY <1>2, <2>2 DEF CloseForShutdown, readerVars, writerVars
  <2>3. CASE AckResponse(c)
    BY <2>3, ResponseIsOutsideAck, DispatchAck
  <2>4. CASE AckNeverComes(c)
    <3> PICK op \in ackDue[c] : /\ ackDue' = [ackDue EXCEPT ![c] = @ \ {op}]
                               /\ UNCHANGED <<readerVars, writerVars, writeChan>>
      BY <2>4 DEF AckNeverComes
    <3>1. /\ UNCHANGED <<todo, received, sent, writing, writeChan>>
          /\ ackDue'[d] \subseteq ackDue[d]
      BY <1>1 DEF readerVars, writerVars, TypeOK
    <3>2. Range(HandedOver(d))' \subseteq Range(HandedOver(d))
      BY <1>1, <3>1, NothingNew
    <3> QED
      BY <3>1, <3>2, DispatchFrame
  <2>5. CASE Drop(c)
    BY <1>2, <2>5 DEF Drop, readerVars, writerVars
  <2> QED
    BY <1>6, <2>1, <2>2, <2>3, <2>4, <2>5 DEF Outside
<1> QED
  BY <1>3, <1>4, <1>5, <1>6 DEF Next

(* An acknowledgement of the reader never overtakes a Produce call of the
   record it acknowledges. *)
THEOREM AcksFollowDispatch == Spec => []AckAfterDispatch
<1>1. Init => DispatchIInv
  BY DispatchInit
<1>2. DispatchIInv /\ [Next]_vars => DispatchIInv'
  BY TypeStep, DispatchStep DEF DispatchIInv
<1>3. DispatchIInv => AckAfterDispatch
  BY DEF DispatchIInv
<1> QED
  BY <1>1, <1>2, <1>3, PTL DEF Spec

----------------------------------------------------------------------------
(* Flattening a sequence of sequences.                                     *)

(* A set of numbers with 0 and, with each number, the next one is Nat.  Every
   induction below is over such a set. *)
LEMMA NatSet ==
    ASSUME NEW T \in SUBSET Nat, 0 \in T, \A n \in T : n + 1 \in T
    PROVE  T = Nat
<1> SUFFICES ASSUME T # Nat PROVE FALSE
  OBVIOUS
<1> DEFINE R == OpToRel(<, Nat)
           U == Nat \ T
<1>1. IsWellFoundedOn(R, Nat)
  BY NatLessThanWellFounded
<1>2. \A x, y \in Nat : x < y => <<x, y>> \in R
  BY DEF OpToRel
<1>3. U \subseteq Nat /\ U # {}
  OBVIOUS
<1> HIDE DEF R, U
<1>4. PICK x \in U : \A y \in U : <<y, x>> \notin R
  BY <1>1, <1>3, WFMin
<1>5. x \in Nat /\ x \notin T /\ x # 0
  BY DEF U
<1>6. x - 1 \in Nat /\ x - 1 < x /\ (x - 1) + 1 = x
  BY <1>5
<1>7. x - 1 \notin T
  BY <1>5, <1>6
<1> QED
  BY <1>2, <1>4, <1>5, <1>6, <1>7 DEF U

LEMMA AppendMoves ==
    ASSUME NEW S, NEW s \in Seq(S), NEW u \in Seq(S), NEW x \in S
    PROVE  s \o Append(u, x) = Append(s \o u, x)
<1> DEFINE a == s \o Append(u, x)
           b == Append(s \o u, x)
<1>1. s \o u \in Seq(S) /\ Append(u, x) \in Seq(S)
  OBVIOUS
<1>2. a \in Seq(S) /\ b \in Seq(S) /\ Len(a) = Len(b)
  BY <1>1
<1>3. \A k \in 1 .. Len(a) : a[k] = b[k]
  BY <1>1
<1> HIDE DEF a, b
<1>4. a = b
  BY <1>2, <1>3, SeqEqual
<1> QED
  BY <1>4 DEF a, b

(* The function FlattenSeq computes from the first element to the last. *)
Flattening(ss, f) ==
    f = [i \in 1 .. Len(ss) |-> IF i = 1 THEN ss[i] ELSE f[i - 1] \o ss[i]]

LEMMA FlatteningExists ==
    ASSUME NEW S, NEW ss \in Seq(S)
    PROVE  \E f : Flattening(ss, f)
<1> DEFINE Good(n, f) == f = [i \in 1 .. n |-> IF i = 1 THEN ss[i] ELSE f[i - 1] \o ss[i]]
           T == {n \in Nat : \E f : Good(n, f)}
<1>1. 0 \in T
  <2>1. Good(0, <<>>)
    OBVIOUS
  <2> QED
    BY <2>1
<1>2. ASSUME NEW n \in T PROVE n + 1 \in T
  <2> PICK f : Good(n, f)
    BY <1>2
  <2> DEFINE x == IF n = 0 THEN ss[1] ELSE f[n] \o ss[n + 1]
             g == [i \in 1 .. n + 1 |-> IF i = n + 1 THEN x ELSE f[i]]
  <2>1. n \in Nat
    BY <1>2
  <2>2. \A i \in 1 .. n : g[i] = f[i]
    BY <2>1
  <2>3. \A i \in 1 .. n : f[i] = IF i = 1 THEN ss[i] ELSE f[i - 1] \o ss[i]
    OBVIOUS
  <2>7. g[n + 1] = x /\ DOMAIN g = 1 .. n + 1 /\ g = [i \in 1 .. n + 1 |-> g[i]]
    BY <2>1
  <2> HIDE DEF g
  <2>4. ASSUME NEW i \in 1 .. n + 1
        PROVE  g[i] = IF i = 1 THEN ss[i] ELSE g[i - 1] \o ss[i]
    <3>1. CASE i \in 1 .. n
      <4>1. i # 1 => i - 1 \in 1 .. n
        BY <2>1, <3>1
      <4>2. i # 1 => g[i - 1] = f[i - 1]
        BY <2>2, <4>1
      <4>3. f[i] = IF i = 1 THEN ss[i] ELSE f[i - 1] \o ss[i]
        BY <2>3, <3>1
      <4>4. g[i] = f[i]
        BY <2>2, <3>1
      <4>5. CASE i = 1
        BY <4>3, <4>4, <4>5
      <4>6. CASE i # 1
        <5>1. g[i] = f[i - 1] \o ss[i] /\ g[i - 1] = f[i - 1]
          BY <4>2, <4>3, <4>4, <4>6
        <5> QED
          BY <4>6, <5>1
      <4> QED
        BY <4>5, <4>6
    <3>2. CASE i = n + 1
      <4>1. g[i] = x
        BY <2>7, <3>2
      <4>2. CASE n = 0
        BY <3>2, <4>1, <4>2
      <4>3. CASE n # 0
        <5>1. g[i - 1] = f[n] /\ i # 1
          BY <2>1, <2>2, <3>2, <4>3
        <5> QED
          BY <3>2, <4>1, <4>3, <5>1
      <4> QED
        BY <4>2, <4>3
    <3> QED
      BY <2>1, <3>1, <3>2
  <2>6. Good(n + 1, g)
    BY <2>4, <2>7
  <2>8. \E h : Good(n + 1, h)
    BY <2>6, Zenon
  <2> HIDE DEF Good
  <2> QED
    BY <2>1, <2>8
<1>3. T = Nat
  <2> HIDE DEF T
  <2>1. T \in SUBSET Nat
    BY DEF T
  <2> QED
    BY <1>1, <1>2, <2>1, NatSet
<1>4. \E f : Good(Len(ss), f)
  <2> HIDE DEF Good
  <2>1. Len(ss) \in T
    <3>1. Len(ss) \in Nat
      OBVIOUS
    <3> HIDE DEF T
    <3> QED
      BY <1>3, <3>1
  <2> QED
    BY <2>1
<1> QED
  BY <1>4, Zenon DEF Flattening

LEMMA FlattenIs ==
    ASSUME NEW ss, Len(ss) # 0, NEW g, Flattening(ss, g)
    PROVE  \E f : Flattening(ss, f) /\ FlattenSeq(ss) = f[Len(ss)]
<1> DEFINE F == CHOOSE f : f = [i \in 1 .. Len(ss) |-> IF i = 1 THEN ss[i] ELSE f[i - 1] \o ss[i]]
<1>1. FlattenSeq(ss) = F[Len(ss)]
  BY Zenon DEF FlattenSeq
<1>2. Flattening(ss, F)
  BY Zenon DEF Flattening
<1> QED
  BY <1>1, <1>2, Zenon

(* A longer sequence has the flattening of its prefix as a prefix of its own. *)
LEMMA FlatteningPrefix ==
    ASSUME NEW ss, NEW tt, NEW f, NEW g, Flattening(ss, f), Flattening(tt, g),
           Len(ss) \in Nat, Len(tt) \in Nat, Len(ss) <= Len(tt),
           \A i \in 1 .. Len(ss) : ss[i] = tt[i]
    PROVE  \A i \in 1 .. Len(ss) : f[i] = g[i]
<1> DEFINE n == Len(ss)
           T == {i \in Nat : i \in 1 .. n => f[i] = g[i]}
<1>0. \A i \in 1 .. n : i \in 1 .. Len(ss) /\ i \in 1 .. Len(tt)
  OBVIOUS
<1>1. /\ \A i \in 1 .. n : f[i] = IF i = 1 THEN ss[i] ELSE f[i - 1] \o ss[i]
      /\ \A i \in 1 .. n : g[i] = IF i = 1 THEN tt[i] ELSE g[i - 1] \o tt[i]
  BY <1>0, Zenon DEF Flattening
<1>2. 0 \in T
  OBVIOUS
<1>3. ASSUME NEW i \in T PROVE i + 1 \in T
  <2> SUFFICES ASSUME i + 1 \in 1 .. n PROVE f[i + 1] = g[i + 1]
    OBVIOUS
  <2>1. CASE i = 0
    BY <1>1, <2>1
  <2>2. CASE i # 0
    <3>1. i \in 1 .. n /\ f[i] = g[i] /\ (i + 1) - 1 = i /\ i + 1 # 1
      BY <1>3, <2>2
    <3>2. f[i + 1] = f[i] \o ss[i + 1] /\ g[i + 1] = g[i] \o tt[i + 1]
      BY <1>1, <3>1
    <3> QED
      BY <3>1, <3>2
  <2> QED
    BY <2>1, <2>2
<1>4. T = Nat
  <2> HIDE DEF T
  <2>1. T \in SUBSET Nat
    BY DEF T
  <2> QED
    BY <1>2, <1>3, <2>1, NatSet
<1> QED
  BY <1>4

(* What FlattenSeq gives. *)
LEMMA FlattenFacts ==
    ASSUME NEW S, NEW ss \in Seq(Seq(S)), ss # <<>>
    PROVE  \E f \in [1 .. Len(ss) -> Seq(S)] :
               Flattening(ss, f) /\ FlattenSeq(ss) = f[Len(ss)]
<1>1. Len(ss) \in Nat /\ Len(ss) # 0 /\ \A i \in 1 .. Len(ss) : ss[i] \in Seq(S)
  OBVIOUS
<1>2. \E g : Flattening(ss, g)
  BY FlatteningExists
<1>3. PICK f : Flattening(ss, f) /\ FlattenSeq(ss) = f[Len(ss)]
  BY <1>1, <1>2, FlattenIs
<1> DEFINE T == {i \in Nat : i \in 1 .. Len(ss) => f[i] \in Seq(S)}
<1>4. \A i \in 1 .. Len(ss) : f[i] = IF i = 1 THEN ss[i] ELSE f[i - 1] \o ss[i]
  BY <1>3 DEF Flattening
<1>5. 0 \in T
  OBVIOUS
<1>6. ASSUME NEW i \in T PROVE i + 1 \in T
  <2> SUFFICES ASSUME i + 1 \in 1 .. Len(ss) PROVE f[i + 1] \in Seq(S)
    OBVIOUS
  <2>1. CASE i = 0
    BY <1>1, <1>4, <2>1
  <2>2. CASE i # 0
    <3>1. f[i] \in Seq(S) /\ (i + 1) - 1 = i /\ i + 1 # 1
      BY <1>1, <1>6, <2>2
    <3>2. f[i + 1] = f[i] \o ss[i + 1]
      BY <1>4, <3>1
    <3> QED
      BY <1>1, <3>1, <3>2, ConcatProperties
  <2> QED
    BY <2>1, <2>2
<1>7. T = Nat
  <2> HIDE DEF T
  <2>1. T \in SUBSET Nat
    BY DEF T
  <2> QED
    BY <1>5, <1>6, <2>1, NatSet
<1>8. ASSUME NEW i \in 1 .. Len(ss) PROVE f[i] \in Seq(S)
  <2>1. i \in Nat
    BY <1>1
  <2>2. i \in T
    BY <1>7, <2>1, Zenon
  <2> QED
    BY <2>2, Zenon
<1>9. f = [i \in 1 .. Len(ss) |-> f[i]]
  BY <1>3 DEF Flattening
<1>10. f \in [1 .. Len(ss) -> Seq(S)]
  BY <1>8, <1>9
<1> QED
  BY <1>3, <1>10

LEMMA FlattenEmpty == FlattenSeq(<<>>) = <<>>
BY DEF FlattenSeq

LEMMA FlattenType ==
    ASSUME NEW S, NEW ss \in Seq(Seq(S))
    PROVE  FlattenSeq(ss) \in Seq(S)
<1>1. CASE ss = <<>>
  <2>1. FlattenSeq(ss) = <<>>
    BY <1>1, FlattenEmpty
  <2> QED
    BY <2>1
<1>2. CASE ss # <<>>
  <2>1. Len(ss) \in 1 .. Len(ss)
    BY <1>2
  <2>2. PICK f \in [1 .. Len(ss) -> Seq(S)] : FlattenSeq(ss) = f[Len(ss)]
    BY <1>2, FlattenFacts, Zenon
  <2>3. f[Len(ss)] \in Seq(S)
    BY <2>1, <2>2, Zenon
  <2> QED
    BY <2>2, <2>3, Zenon
<1> QED
  BY <1>1, <1>2

LEMMA FlattenAppend ==
    ASSUME NEW S, NEW ss \in Seq(Seq(S)), NEW s \in Seq(S)
    PROVE  FlattenSeq(Append(ss, s)) = FlattenSeq(ss) \o s
<1> DEFINE tt == Append(ss, s)
           n == Len(ss)
<1>1. /\ tt \in Seq(Seq(S)) /\ tt # <<>> /\ Len(tt) = n + 1 /\ n \in Nat
      /\ tt[n + 1] = s /\ \A i \in 1 .. n : tt[i] = ss[i]
  BY AppendProperties
<1> HIDE DEF tt
<1>2. PICK f : Flattening(tt, f) /\ FlattenSeq(tt) = f[n + 1]
  BY <1>1, FlattenFacts
<1>3. \A i \in 1 .. n + 1 : f[i] = IF i = 1 THEN tt[i] ELSE f[i - 1] \o tt[i]
  BY <1>1, <1>2 DEF Flattening
<1>4. CASE ss = <<>>
  <2>1. n = 0
    BY <1>4
  <2>2. f[1] = s
    BY <1>1, <1>3, <2>1
  <2>3. FlattenSeq(ss) \o s = s
    BY <1>4, FlattenEmpty, ConcatEmptySeq
  <2> QED
    BY <1>2, <2>1, <2>2, <2>3 DEF tt
<1>5. CASE ss # <<>>
  <2>1. PICK g : Flattening(ss, g) /\ FlattenSeq(ss) = g[n]
    BY <1>5, FlattenFacts
  <2>2. n \in 1 .. n
    BY <1>1, <1>5
  <2>3. f[n] = g[n]
    <3>1. /\ Flattening(tt, f) /\ Flattening(ss, g) /\ Len(tt) \in Nat /\ Len(ss) \in Nat
          /\ Len(ss) <= Len(tt) /\ \A i \in 1 .. Len(ss) : ss[i] = tt[i]
      BY <1>1, <1>2, <2>1
    <3>2. \A i \in 1 .. Len(ss) : g[i] = f[i]
      BY <3>1, FlatteningPrefix
    <3> QED
      BY <2>2, <3>2
  <2>4. f[n + 1] = f[n] \o s
    <3>1. n + 1 \in 1 .. n + 1 /\ n + 1 # 1 /\ (n + 1) - 1 = n
      BY <2>2
    <3>2. f[n + 1] = f[n] \o tt[n + 1]
      BY <1>3, <3>1
    <3> QED
      BY <1>1, <3>2
  <2> QED
    BY <1>2, <2>1, <2>3, <2>4 DEF tt
<1> QED
  BY <1>4, <1>5

LEMMA FlattenConcat ==
    ASSUME NEW S, NEW ss \in Seq(Seq(S)), NEW tt \in Seq(Seq(S))
    PROVE  FlattenSeq(ss \o tt) = FlattenSeq(ss) \o FlattenSeq(tt)
<1> DEFINE SS == Seq(Seq(S))
           Good(u) == FlattenSeq(ss \o u) = FlattenSeq(ss) \o FlattenSeq(u)
           T == {n \in Nat : \A u \in SS : Len(u) = n => Good(u)}
<1>1. 0 \in T
  <2>1. ASSUME NEW u \in SS, Len(u) = 0 PROVE Good(u)
    <3>1. u = <<>>
      BY <2>1
    <3>2. ss \o <<>> = ss
      BY ConcatEmptySeq
    <3>3. FlattenSeq(ss) \in Seq(S)
      BY FlattenType
    <3>4. FlattenSeq(ss) \o <<>> = FlattenSeq(ss)
      BY <3>3, ConcatEmptySeq
    <3> QED
      BY <3>1, <3>2, <3>4, FlattenEmpty
  <2> QED
    BY <2>1
<1>2. ASSUME NEW n \in T PROVE n + 1 \in T
  <2>1. ASSUME NEW u \in SS, Len(u) = n + 1 PROVE Good(u)
    <3>1. u # <<>> /\ n \in Nat
      BY <1>2, <2>1
    <3>2. PICK v \in SS, s \in Seq(S) : u = Append(v, s)
      BY <3>1, SequenceEmptyOrAppend
    <3>3. Len(u) = Len(v) + 1
      BY <3>2, AppendProperties
    <3>4. Len(v) = n
      BY <2>1, <3>1, <3>3
    <3>5. Good(v)
      BY <1>2, <3>4
    <3>11. ss \o Append(v, s) = Append(ss \o v, s)
      <4> DEFINE Q == Seq(S)
      <4>1. ss \in Seq(Q) /\ v \in Seq(Q) /\ s \in Q
        OBVIOUS
      <4> HIDE DEF Q
      <4> QED
        BY <4>1, AppendMoves
    <3>12. ss \o v \in SS
      BY ConcatProperties, Zenon
    <3>6. ss \o Append(v, s) = Append(ss \o v, s) /\ ss \o v \in SS
      BY <3>11, <3>12
    <3>7. FlattenSeq(Append(ss \o v, s)) = FlattenSeq(ss \o v) \o s
      BY <3>6, FlattenAppend
    <3>8. FlattenSeq(Append(v, s)) = FlattenSeq(v) \o s
      BY FlattenAppend
    <3>9. FlattenSeq(ss) \in Seq(S) /\ FlattenSeq(v) \in Seq(S)
      BY FlattenType
    <3>10. (FlattenSeq(ss) \o FlattenSeq(v)) \o s = FlattenSeq(ss) \o (FlattenSeq(v) \o s)
      <4> DEFINE a == FlattenSeq(ss)
                 b == FlattenSeq(v)
      <4>1. a \in Seq(S) /\ b \in Seq(S) /\ s \in Seq(S)
        BY <3>9
      <4> HIDE DEF a, b
      <4>2. (a \o b) \o s = a \o (b \o s)
        BY <4>1, ConcatAssociative
      <4> QED
        BY <4>2 DEF a, b
    <3> QED
      BY <3>2, <3>5, <3>6, <3>7, <3>8, <3>10
  <2>2. n + 1 \in Nat
    BY <1>2
  <2> QED
    BY <2>1, <2>2
<1>3. T = Nat
  <2> HIDE DEF T
  <2>1. T \in SUBSET Nat
    BY DEF T
  <2> QED
    BY <1>1, <1>2, <2>1, NatSet
<1>4. Len(tt) \in Nat /\ tt \in SS
  OBVIOUS
<1> QED
  BY <1>3, <1>4

----------------------------------------------------------------------------
(* AnswersConserved.                                                       *)

(* An answer as AnswersConserved sees it. *)
Plain == [kind : Answers, msg : Nat]

ReadEntry == [msg : Messages, limited : BOOLEAN]

(* What one answer handed over, one step of a programme, contributes. *)
OneGiven(a) == IF DirectAnswer(a) THEN <<[kind |-> a.kind, msg |-> a.msg]>> ELSE <<>>

OneLeft(op) == IF op.do \in Answers THEN <<[kind |-> op.do, msg |-> op.msg]>> ELSE <<>>

LEMMA OneType ==
    /\ \A a \in SocketMessage : OneGiven(a) \in Seq(Plain)
    /\ \A op \in Op : OneLeft(op) \in Seq(Plain)
<1>1. ASSUME NEW r \in Plain PROVE <<r>> \in Seq(Plain)
  OBVIOUS
<1>2. <<>> \in Seq(Plain)
  OBVIOUS
<1>3. ASSUME NEW a \in SocketMessage PROVE OneGiven(a) \in Seq(Plain)
  <2>1. [kind |-> a.kind, msg |-> a.msg] \in Plain
    BY DEF SocketMessage, Plain
  <2> QED
    BY <1>1, <1>2, <2>1 DEF OneGiven
<1>4. ASSUME NEW op \in Op PROVE OneLeft(op) \in Seq(Plain)
  <2>1. CASE op.do \in Answers
    <3>1. [kind |-> op.do, msg |-> op.msg] \in Plain
      BY <2>1 DEF Op, Plain
    <3> QED
      BY <1>1, <2>1, <3>1 DEF OneLeft
  <2>2. CASE op.do \notin Answers
    BY <1>2, <2>2 DEF OneLeft
  <2> QED
    BY <2>1, <2>2
<1> QED
  BY <1>3, <1>4

(* A sequence known by its elements. *)
LEMMA KnownAppend ==
    ASSUME NEW W, NEW p \in Seq(W), NEW x \in W, NEW q \in Seq(W),
           Len(q) = Len(p) + 1, \A k \in 1 .. Len(p) : q[k] = p[k], q[Len(p) + 1] = x
    PROVE  q = Append(p, x)
<1> DEFINE a == Append(p, x)
<1>1. /\ a \in Seq(W) /\ Len(a) = Len(p) + 1 /\ Len(p) \in Nat
      /\ \A k \in 1 .. Len(p) : a[k] = p[k]
      /\ a[Len(p) + 1] = x
  BY AppendProperties
<1> HIDE DEF a
<1>2. \A k \in 1 .. Len(q) : q[k] = a[k]
  BY <1>1
<1>3. q = a
  BY <1>1, <1>2, SeqEqual
<1> QED
  BY <1>3 DEF a

LEMMA KnownConcat ==
    ASSUME NEW W, NEW p \in Seq(W), NEW r \in Seq(W), NEW q \in Seq(W),
           Len(q) = Len(p) + Len(r), \A k \in 1 .. Len(p) : q[k] = p[k],
           \A k \in 1 .. Len(r) : q[Len(p) + k] = r[k]
    PROVE  q = p \o r
<1> DEFINE a == p \o r
<1>1. /\ a \in Seq(W) /\ Len(a) = Len(p) + Len(r) /\ Len(p) \in Nat /\ Len(r) \in Nat
      /\ \A k \in 1 .. Len(p) : a[k] = p[k]
      /\ \A k \in Len(p) + 1 .. Len(p) + Len(r) : a[k] = r[k - Len(p)]
  BY ConcatProperties
<1> HIDE DEF a
<1>2. ASSUME NEW k \in 1 .. Len(q) PROVE q[k] = a[k]
  <2>1. CASE k <= Len(p)
    BY <1>1, <2>1
  <2>2. CASE ~(k <= Len(p))
    <3>1. k - Len(p) \in 1 .. Len(r) /\ Len(p) + (k - Len(p)) = k
      BY <1>1, <2>2
    <3>2. q[k] = r[k - Len(p)]
      BY <3>1
    <3> QED
      BY <1>1, <2>2, <3>1, <3>2
  <2> QED
    BY <2>1, <2>2
<1>3. q = a
  BY <1>1, <1>2, SeqEqual
<1> QED
  BY <1>3 DEF a

(* What is given after one more answer. *)
LEMMA OneMoreGiven ==
    ASSUME NEW s \in Seq(SocketMessage), NEW a \in SocketMessage
    PROVE  AnswersGiven(Append(s, a)) = AnswersGiven(s) \o OneGiven(a)
<1> DEFINE W == Seq(Plain)
           t == Append(s, a)
           p == [k \in 1 .. Len(s) |-> OneGiven(s[k])]
           q == [k \in 1 .. Len(t) |-> OneGiven(t[k])]
<1>1. /\ t \in Seq(SocketMessage) /\ Len(t) = Len(s) + 1 /\ Len(s) \in Nat
      /\ DOMAIN t = 1 .. Len(t) /\ DOMAIN s = 1 .. Len(s)
      /\ \A k \in 1 .. Len(s) : t[k] = s[k]
      /\ t[Len(s) + 1] = a
  BY AppendProperties
<1> HIDE DEF t
<1>2. /\ \A k \in 1 .. Len(s) : OneGiven(s[k]) \in W
      /\ \A k \in 1 .. Len(t) : OneGiven(t[k]) \in W
      /\ OneGiven(a) \in W
  <2>1. /\ \A k \in 1 .. Len(s) : s[k] \in SocketMessage
        /\ \A k \in 1 .. Len(t) : t[k] \in SocketMessage
    BY <1>1
  <2> QED
    BY <2>1, OneType
<1> HIDE DEF W
<1>3. /\ p \in Seq(W) /\ q \in Seq(W) /\ Len(p) = Len(s) /\ Len(q) = Len(p) + 1
  BY <1>1, <1>2
<1>4. /\ \A k \in 1 .. Len(p) : q[k] = p[k]
      /\ q[Len(p) + 1] = OneGiven(a)
  BY <1>1, <1>3
<1>5. AnswersGiven(s) = FlattenSeq(p) /\ AnswersGiven(t) = FlattenSeq(q)
  BY <1>1, Zenon DEF AnswersGiven, OneGiven
<1> HIDE DEF p, q
<1>6. q = Append(p, OneGiven(a))
  BY <1>2, <1>3, <1>4, KnownAppend
<1>7. p \in Seq(Seq(Plain)) /\ OneGiven(a) \in Seq(Plain)
  BY <1>2, <1>3 DEF W
<1>8. FlattenSeq(Append(p, OneGiven(a))) = FlattenSeq(p) \o OneGiven(a)
  BY <1>7, FlattenAppend
<1> QED
  BY <1>5, <1>6, <1>8 DEF t

LEMMA AnswersGivenType ==
    ASSUME NEW s \in Seq(SocketMessage)
    PROVE  AnswersGiven(s) \in Seq(Plain)
<1> DEFINE W == Seq(Plain)
           p == [k \in 1 .. Len(s) |-> OneGiven(s[k])]
<1>1. DOMAIN s = 1 .. Len(s) /\ Len(s) \in Nat /\ \A k \in 1 .. Len(s) : s[k] \in SocketMessage
  OBVIOUS
<1>2. \A k \in 1 .. Len(s) : OneGiven(s[k]) \in W
  BY <1>1, OneType
<1> HIDE DEF W
<1>3. p \in Seq(W)
  BY <1>1, <1>2
<1>4. AnswersGiven(s) = FlattenSeq(p)
  BY <1>1, Zenon DEF AnswersGiven, OneGiven
<1> HIDE DEF p
<1> QED
  BY <1>3, <1>4, FlattenType DEF W

(* What two programmes leave to answer, one after the other. *)
LEMMA LeftConcat ==
    ASSUME NEW s \in Seq(Op), NEW r \in Seq(Op)
    PROVE  /\ AnswersLeft(s) \in Seq(Plain)
           /\ AnswersLeft(s \o r) = AnswersLeft(s) \o AnswersLeft(r)
<1> DEFINE W == Seq(Plain)
           t == s \o r
           p == [k \in 1 .. Len(s) |-> OneLeft(s[k])]
           u == [k \in 1 .. Len(r) |-> OneLeft(r[k])]
           q == [k \in 1 .. Len(t) |-> OneLeft(t[k])]
<1>1. /\ t \in Seq(Op) /\ Len(t) = Len(s) + Len(r) /\ Len(s) \in Nat /\ Len(r) \in Nat
      /\ DOMAIN t = 1 .. Len(t) /\ DOMAIN s = 1 .. Len(s) /\ DOMAIN r = 1 .. Len(r)
      /\ \A k \in 1 .. Len(s) : t[k] = s[k]
      /\ \A k \in 1 .. Len(r) : t[Len(s) + k] = r[k]
  BY ConcatProperties
<1> HIDE DEF t
<1>2. /\ \A k \in 1 .. Len(s) : OneLeft(s[k]) \in W
      /\ \A k \in 1 .. Len(r) : OneLeft(r[k]) \in W
      /\ \A k \in 1 .. Len(t) : OneLeft(t[k]) \in W
  <2>1. /\ \A k \in 1 .. Len(s) : s[k] \in Op
        /\ \A k \in 1 .. Len(r) : r[k] \in Op
        /\ \A k \in 1 .. Len(t) : t[k] \in Op
    BY <1>1
  <2> QED
    BY <2>1, OneType
<1> HIDE DEF W
<1>3. /\ p \in Seq(W) /\ u \in Seq(W) /\ q \in Seq(W)
      /\ Len(p) = Len(s) /\ Len(u) = Len(r) /\ Len(q) = Len(p) + Len(u)
  BY <1>1, <1>2
<1>4. /\ \A k \in 1 .. Len(p) : q[k] = p[k]
      /\ \A k \in 1 .. Len(u) : q[Len(p) + k] = u[k]
  BY <1>1, <1>3
<1>5. /\ AnswersLeft(s) = FlattenSeq(p)
      /\ AnswersLeft(r) = FlattenSeq(u)
      /\ AnswersLeft(t) = FlattenSeq(q)
  BY <1>1, Zenon DEF AnswersLeft, OneLeft
<1> HIDE DEF p, u, q
<1>6. q = p \o u
  BY <1>3, <1>4, KnownConcat
<1>7. p \in Seq(Seq(Plain)) /\ u \in Seq(Seq(Plain))
  BY <1>3 DEF W
<1>8. FlattenSeq(p \o u) = FlattenSeq(p) \o FlattenSeq(u)
  BY <1>7, FlattenConcat
<1>9. FlattenSeq(p) \in Seq(Plain)
  BY <1>7, FlattenType
<1> QED
  BY <1>5, <1>6, <1>8, <1>9 DEF t

LEMMA LeftOne ==
    ASSUME NEW op \in Op
    PROVE  AnswersLeft(<<op>>) = OneLeft(op)
<1> DEFINE x == OneLeft(op)
<1>1. x \in Seq(Plain)
  BY OneType
<1>2. AnswersLeft(<<op>>) = FlattenSeq(<<x>>)
  <2>1. AnswersLeft(<<op>>) = FlattenSeq([k \in 1 .. 1 |-> OneLeft(<<op>>[k])])
    BY DEF AnswersLeft, OneLeft
  <2>2. [k \in 1 .. 1 |-> OneLeft(<<op>>[k])] = <<x>>
    OBVIOUS
  <2> QED
    BY <2>1, <2>2
<1> HIDE DEF x
<1>3. <<x>> = Append(<<>>, x) /\ <<>> \in Seq(Seq(Plain))
  OBVIOUS
<1>4. FlattenSeq(Append(<<>>, x)) = FlattenSeq(<<>>) \o x
  BY <1>1, <1>3, FlattenAppend
<1>5. <<>> \o x = x
  BY <1>1, ConcatEmptySeq
<1> QED
  BY <1>2, <1>3, <1>4, <1>5, FlattenEmpty DEF x

(* Doing the first step of a programme. *)
LEMMA LeftHead ==
    ASSUME NEW p \in Seq(Op), p # <<>>
    PROVE  /\ AnswersLeft(p) = OneLeft(Head(p)) \o AnswersLeft(Tail(p))
           /\ OneLeft(Head(p)) \in Seq(Plain) /\ AnswersLeft(Tail(p)) \in Seq(Plain)
<1> DEFINE h == Head(p)
           t == Tail(p)
<1>1. h \in Op /\ t \in Seq(Op) /\ Len(t) = Len(p) - 1 /\ Len(p) \in Nat \ {0}
      /\ h = p[1] /\ \A k \in 1 .. Len(t) : p[1 + k] = t[k]
  BY HeadTailProperties
<1> HIDE DEF h, t
<1>2. /\ <<h>> \in Seq(Op) /\ Len(<<h>>) = 1 /\ \A k \in 1 .. 1 : p[k] = <<h>>[k]
  BY <1>1
<1>3. p = <<h>> \o t
  BY <1>1, <1>2, KnownConcat
<1>4. AnswersLeft(<<h>> \o t) = AnswersLeft(<<h>>) \o AnswersLeft(t)
  BY <1>1, <1>2, LeftConcat
<1>5. AnswersLeft(t) \in Seq(Plain) /\ OneLeft(h) \in Seq(Plain)
  BY <1>1, LeftConcat, OneType
<1> QED
  BY <1>1, <1>3, <1>4, <1>5, LeftOne DEF h, t

(* Produce calls alone leave nothing to answer. *)
LEMMA LeftNone ==
    ASSUME NEW p \in Seq(Op), \A k \in DOMAIN p : p[k].do = "produce"
    PROVE  AnswersLeft(p) = <<>>
<1> DEFINE q == [k \in 1 .. Len(p) |-> OneLeft(p[k])]
<1>1. DOMAIN p = 1 .. Len(p) /\ Len(p) \in Nat
  OBVIOUS
<1>2. \A k \in 1 .. Len(p) : OneLeft(p[k]) = <<>>
  BY <1>1 DEF OneLeft, Answers
<1> DEFINE W == Seq({})
<1>3. \A k \in 1 .. Len(p) : OneLeft(p[k]) \in W
  <2>1. <<>> \in W
    OBVIOUS
  <2> QED
    BY <1>2, <2>1, Zenon
<1>4. q \in Seq(Seq({}))
  <2> HIDE DEF W
  <2>1. q \in Seq(W)
    BY <1>1, <1>3
  <2> QED
    BY <2>1 DEF W
<1>5. AnswersLeft(p) = FlattenSeq(q)
  BY <1>1, Zenon DEF AnswersLeft, OneLeft
<1> HIDE DEF q
<1>6. FlattenSeq(q) \in Seq({})
  BY <1>4, FlattenType
<1>7. \A e \in Seq({}) : e = <<>>
  <2>1. ASSUME NEW e \in Seq({}), e # <<>> PROVE FALSE
    <3>1. Head(e) \in {}
      BY <2>1, HeadTailProperties
    <3> QED
      BY <3>1
  <2> QED
    BY <2>1
<1> QED
  BY <1>5, <1>6, <1>7

(* What reading one more message adds to what is expected. *)
LEMMA ExpectedType ==
    ASSUME NEW r \in ReadEntry, NEW i \in Nat
    PROVE  ExpectedAnswers(r, i) \in Seq(Plain)
<1> DEFINE kinds == ExpectedKinds(r.msg)
<1>1. /\ Len(kinds) \in 0 .. 2 /\ DOMAIN kinds = 1 .. Len(kinds)
      /\ \A k \in 1 .. Len(kinds) : kinds[k] \in Answers
  <2>1. kinds \in {<<>>, <<"ack">>, <<"error">>, <<"ack", "ack">>}
    BY DEF ExpectedKinds
  <2> HIDE DEF kinds
  <2> QED
    BY <2>1 DEF Answers
<1>2. r.limited => ExpectedAnswers(r, i) = <<>>
  BY DEF ExpectedAnswers
<1>3. ~r.limited =>
          ExpectedAnswers(r, i) = [k \in 1 .. Len(kinds) |-> [kind |-> kinds[k], msg |-> i]]
  BY <1>1, Zenon DEF ExpectedAnswers
<1> HIDE DEF kinds
<1>4. \A k \in 1 .. Len(kinds) : [kind |-> kinds[k], msg |-> i] \in Plain
  BY <1>1 DEF Plain
<1>5. [k \in 1 .. Len(kinds) |-> [kind |-> kinds[k], msg |-> i]] \in Seq(Plain)
  BY <1>1, <1>4
<1>6. <<>> \in Seq(Plain)
  OBVIOUS
<1> QED
  BY <1>2, <1>3, <1>5, <1>6

LEMMA ExpectedAppend ==
    ASSUME NEW s \in Seq(ReadEntry), NEW a \in ReadEntry
    PROVE  /\ AnswersExpected(s) \in Seq(Plain)
           /\ AnswersExpected(Append(s, a))
                = AnswersExpected(s) \o ExpectedAnswers(a, Len(s) + 1)
<1> DEFINE W == Seq(Plain)
           t == Append(s, a)
           e == ExpectedAnswers(a, Len(s) + 1)
           p == [k \in 1 .. Len(s) |-> ExpectedAnswers(s[k], k)]
           q == [k \in 1 .. Len(t) |-> ExpectedAnswers(t[k], k)]
<1>1. /\ t \in Seq(ReadEntry) /\ Len(t) = Len(s) + 1 /\ Len(s) \in Nat
      /\ DOMAIN t = 1 .. Len(t) /\ DOMAIN s = 1 .. Len(s)
      /\ \A k \in 1 .. Len(s) : t[k] = s[k]
      /\ t[Len(s) + 1] = a
  BY AppendProperties
<1> HIDE DEF t
<1>2. /\ \A k \in 1 .. Len(s) : ExpectedAnswers(s[k], k) \in W
      /\ \A k \in 1 .. Len(t) : ExpectedAnswers(t[k], k) \in W
      /\ e \in W
  <2>1. /\ \A k \in 1 .. Len(s) : s[k] \in ReadEntry /\ k \in Nat
        /\ \A k \in 1 .. Len(t) : t[k] \in ReadEntry /\ k \in Nat
        /\ Len(s) + 1 \in Nat
    BY <1>1
  <2> QED
    BY <2>1, ExpectedType
<1> HIDE DEF W
<1>3. /\ p \in Seq(W) /\ q \in Seq(W) /\ Len(p) = Len(s) /\ Len(q) = Len(p) + 1
  BY <1>1, <1>2
<1>4. /\ \A k \in 1 .. Len(p) : q[k] = p[k]
      /\ q[Len(p) + 1] = e
  BY <1>1, <1>3
<1>5. AnswersExpected(s) = FlattenSeq(p) /\ AnswersExpected(t) = FlattenSeq(q)
  BY <1>1, Zenon DEF AnswersExpected
<1> HIDE DEF p, q, e
<1>6. q = Append(p, e)
  BY <1>2, <1>3, <1>4, KnownAppend
<1>7. p \in Seq(Seq(Plain)) /\ e \in Seq(Plain)
  BY <1>2, <1>3 DEF W
<1>8. FlattenSeq(Append(p, e)) = FlattenSeq(p) \o e
  BY <1>7, FlattenAppend
<1>9. FlattenSeq(p) \in Seq(Plain)
  BY <1>7, FlattenType
<1> QED
  BY <1>5, <1>6, <1>8, <1>9 DEF t, e

(***************************************************************************)
(* The decision tree of ParseAndProcessRecord answers each message as its  *)
(* contract says: one error for what cannot be used, two acks for a message*)
(* of an unknown type, one ack for a record, unless its ack is a           *)
(* dispatcher's to give.                                                   *)
(***************************************************************************)
LEMMA ProgrammeAnswers ==
    ASSUME NEW m \in Message, NEW i \in Nat
    PROVE  AnswersLeft(ParseAndProcessRecord(m, i))
             = ExpectedAnswers([msg |-> m, limited |-> FALSE], i)
<1> DEFINE rec == NewRecord(m)
           ack == [kind |-> "ack", msg |-> i]
           error == [kind |-> "error", msg |-> i]
           want == ExpectedAnswers([msg |-> m, limited |-> FALSE], i)
<1>1. rec \in RecordType
  BY NewRecordType
<1>2. ASSUME NEW kind \in Answers
      PROVE  /\ Respond(kind, i, rec) \in Seq(Op)
             /\ AnswersLeft(Respond(kind, i, rec)) = <<[kind |-> kind, msg |-> i]>>
  <2> DEFINE op == [do |-> kind, to |-> NoDispatcher, k |-> 0, msg |-> i, txType |-> rec.txType]
  <2>1. op \in Op
    BY <1>1 DEF Op, RecordType, TxTypes, Answers
  <2>2. Respond(kind, i, rec) = <<op>>
    BY DEF Respond
  <2>3. OneLeft(op) = <<[kind |-> kind, msg |-> i]>>
    BY DEF OneLeft
  <2> HIDE DEF op
  <2> QED
    BY <2>1, <2>2, <2>3, LeftOne
<1>3. Dispatch(i, rec) \in Seq(Op) /\ AnswersLeft(Dispatch(i, rec)) = <<>>
  BY <1>1, DispatchType, DispatchProduces, LeftNone
<1>4. AnswersLeft(processRecord(i, rec)) = IF reliableAck(rec.txType) THEN <<>> ELSE <<ack>>
  <2> DEFINE d == Dispatch(i, rec)
             a == IF reliableAck(rec.txType) THEN <<>> ELSE Respond("ack", i, rec)
             given == IF reliableAck(rec.txType) THEN <<>> ELSE <<ack>>
  <2>1. a \in Seq(Op) /\ AnswersLeft(a) = given
    <3>1. <<>> \in Seq(Op) /\ AnswersLeft(<<>>) = <<>>
      BY FlattenEmpty DEF AnswersLeft
    <3>2. Respond("ack", i, rec) \in Seq(Op) /\ AnswersLeft(Respond("ack", i, rec)) = <<ack>>
      BY <1>2 DEF Answers
    <3> QED
      BY <3>1, <3>2
  <2>2. processRecord(i, rec) = d \o a
    BY DEF processRecord
  <2>3. given \in Seq(Plain)
    <3>1. ack \in Plain
      BY DEF Plain, Answers
    <3> HIDE DEF ack
    <3> QED
      BY <3>1
  <2> HIDE DEF d, a, given
  <2>4. AnswersLeft(d \o a) = AnswersLeft(d) \o AnswersLeft(a)
    BY <1>3, <2>1, LeftConcat DEF d
  <2>5. <<>> \o given = given
    BY <2>3, ConcatEmptySeq
  <2>6. AnswersLeft(processRecord(i, rec)) = given
    BY <1>3, <2>1, <2>2, <2>4, <2>5 DEF d
  <2> QED
    BY <2>6 DEF given
<1>5. want = [k \in DOMAIN ExpectedKinds(m) |-> [kind |-> ExpectedKinds(m)[k], msg |-> i]]
  BY DEF ExpectedAnswers
<1>6. /\ ExpectedKinds(m) = <<>> => want = <<>>
      /\ ExpectedKinds(m) = <<"ack">> => want = <<ack>>
      /\ ExpectedKinds(m) = <<"error">> => want = <<error>>
      /\ ExpectedKinds(m) = <<"ack", "ack">> => want = <<ack, ack>>
  BY <1>5
<1> HIDE DEF want
<1>7. CASE rec.err = "none"
  <2>1. rec.txType = m.topic /\ ExpectedKinds(m) = IF reliableAck(m.topic) THEN <<>> ELSE <<"ack">>
    BY <1>7 DEF NewRecord, Deserialize, applyRecordTransforms, Message, ExpectedKinds, reliableAck
  <2>2. ParseAndProcessRecord(m, i) = processRecord(i, rec)
    BY <1>7 DEF ParseAndProcessRecord
  <2> QED
    BY <1>4, <1>6, <2>1, <2>2 DEF want
<1>8. CASE rec.err = "unknownMessageType"
  <2>1. ExpectedKinds(m) = <<"ack", "ack">>
    BY <1>8 DEF NewRecord, Deserialize, applyRecordTransforms, Message, ExpectedKinds
  <2>2. ~reliableAck(rec.txType)
    BY <1>8, UnknownHasNoTopic, ConfigAssumption DEF reliableAck
  <2>3. ParseAndProcessRecord(m, i) = Respond("ack", i, rec) \o processRecord(i, rec)
    BY <1>8 DEF ParseAndProcessRecord
  <2>4. /\ Respond("ack", i, rec) \in Seq(Op) /\ AnswersLeft(Respond("ack", i, rec)) = <<ack>>
        /\ processRecord(i, rec) \in Seq(Op)
    BY <1>1, <1>2, ProcessRecordType DEF Answers
  <2>5. AnswersLeft(ParseAndProcessRecord(m, i)) = <<ack>> \o <<ack>>
    BY <1>4, <2>2, <2>3, <2>4, LeftConcat
  <2>6. <<ack>> \o <<ack>> = <<ack, ack>>
    <3>1. ack \in Plain
      BY DEF Plain, Answers
    <3> HIDE DEF ack
    <3> DEFINE one == <<ack>>
               two == <<ack, ack>>
    <3>2. /\ one \in Seq(Plain) /\ two \in Seq(Plain) /\ Len(one) = 1 /\ Len(two) = 2
          /\ one[1] = ack /\ two[1] = ack /\ two[2] = ack
      BY <3>1
    <3> HIDE DEF one, two
    <3>3. /\ Len(two) = Len(one) + Len(one)
          /\ \A k \in 1 .. Len(one) : two[k] = one[k]
          /\ \A k \in 1 .. Len(one) : two[Len(one) + k] = one[k]
      BY <3>2
    <3>4. two = one \o one
      BY <3>2, <3>3, KnownConcat
    <3> QED
      BY <3>4 DEF one, two
  <2> QED
    BY <1>6, <2>1, <2>5, <2>6 DEF want
<1>9. CASE rec.err \notin {"none", "unknownMessageType"}
  <2>1. ExpectedKinds(m) = <<"error">>
    BY <1>9 DEF NewRecord, Deserialize, applyRecordTransforms, Message, ExpectedKinds
  <2>2. ParseAndProcessRecord(m, i) = Respond("error", i, rec)
    BY <1>9 DEF ParseAndProcessRecord
  <2> QED
    BY <1>2, <1>6, <2>1, <2>2 DEF want, Answers
<1> QED
  BY <1>7, <1>8, <1>9

(* The writer is empty-handed until it starts and while it waits. *)
WriterWaits(c) ==
    /\ pc[c] = "new" => writer[c] = "none"
    /\ writer[c] \in {"none", "select"} => writing[c] = <<>>

(* Answers handed over are a sequence of answers. *)
LEMMA HandedOverSeq ==
    ASSUME TypeOK, NEW c \in Conns
    PROVE  /\ sent[c] \in Seq(SocketMessage) /\ writing[c] \in Seq(SocketMessage)
           /\ writeChan[c] \in Seq(SocketMessage)
           /\ HandedOver(c) \in Seq(SocketMessage)
BY ConcatProperties DEF TypeOK, HandedOver

(* Taking an answer out of the channel moves it along. *)
LEMMA HeadMoves ==
    ASSUME NEW S, NEW s \in Seq(S), NEW t \in Seq(S), t # <<>>
    PROVE  s \o <<>> \o t = s \o <<Head(t)>> \o Tail(t)
<1> DEFINE a == s \o t
           b == s \o <<Head(t)>> \o Tail(t)
<1>1. /\ Head(t) \in S /\ Tail(t) \in Seq(S) /\ Len(Tail(t)) = Len(t) - 1 /\ Head(t) = t[1]
      /\ \A k \in 1 .. Len(t) - 1 : Tail(t)[k] = t[k + 1]
  OBVIOUS
<1>2. s \o <<Head(t)>> \in Seq(S) /\ Len(s \o <<Head(t)>>) = Len(s) + 1
  BY <1>1
<1>3. a \in Seq(S) /\ b \in Seq(S) /\ Len(a) = Len(b)
  BY <1>1, <1>2
<1>4. \A k \in 1 .. Len(a) : a[k] = b[k]
  BY <1>1, <1>2
<1> HIDE DEF a, b
<1>5. a = b
  BY <1>3, <1>4, SeqEqual
<1>6. s \o <<>> = s
  BY ConcatEmptySeq
<1> QED
  BY <1>5, <1>6 DEF a, b

(* The writer moves answers along and neither adds nor drops one. *)
LEMMA WriterMovesAlong ==
    ASSUME TypeOK, NEW c \in Conns, NEW d \in Conns,
           WriterTake(c) \/ WriteOk(c), WriterWaits(c)
    PROVE  HandedOver(d)' = HandedOver(d)
<1>1. /\ sent[c] \in Seq(SocketMessage) /\ writing[c] \in Seq(SocketMessage)
      /\ writeChan[c] \in Seq(SocketMessage)
  BY HandedOverSeq
<1>2. HandedOver(d)' = sent'[d] \o writing'[d] \o writeChan'[d]
  BY DEF HandedOver
<1>3. CASE WriterTake(c)
  <2> DEFINE h == Head(writeChan[c])
             t == Tail(writeChan[c])
  <2>1. /\ writer[c] = "select" /\ writeChan[c] # <<>> /\ writing[c] = <<>>
        /\ writing' = [writing EXCEPT ![c] = <<h>>]
        /\ writeChan' = [writeChan EXCEPT ![c] = t] /\ UNCHANGED sent
    BY <1>3 DEF WriterTake, WriterWaits
  <2>2. CASE d # c
    BY <1>2, <2>1, <2>2 DEF HandedOver, TypeOK
  <2>3. CASE d = c
    <3>1. writing'[c] = <<h>> /\ writeChan'[c] = t
      BY <2>1 DEF TypeOK
    <3>2. sent[c] \o <<>> \o writeChan[c] = sent[c] \o <<h>> \o t
      BY <1>1, <2>1, HeadMoves
    <3> QED
      BY <1>2, <2>1, <2>3, <3>1, <3>2 DEF HandedOver
  <2> QED
    BY <2>2, <2>3
<1>4. CASE WriteOk(c)
  <2>1. /\ sent' = [sent EXCEPT ![c] = sent[c] \o writing[c]]
        /\ writing' = [writing EXCEPT ![c] = <<>>] /\ UNCHANGED writeChan
    BY <1>4 DEF WriteOk
  <2>2. CASE d # c
    BY <1>2, <2>1, <2>2 DEF HandedOver, TypeOK
  <2>3. CASE d = c
    <3>1. sent'[c] = sent[c] \o writing[c] /\ writing'[c] = <<>>
      BY <2>1 DEF TypeOK
    <3>2. (sent[c] \o writing[c]) \o <<>> = sent[c] \o writing[c]
      BY <1>1, ConcatProperties, ConcatEmptySeq
    <3> QED
      BY <1>2, <2>1, <2>3, <3>1, <3>2 DEF HandedOver
  <2> QED
    BY <2>2, <2>3
<1> QED
  BY <1>3, <1>4

(* respondToVehicle adds its answer at the end, on one connection. *)
LEMMA OneMore ==
    ASSUME TypeOK, NEW c \in Conns, NEW answer \in SocketMessage,
           respondToVehicle(c, answer), UNCHANGED <<sent, writing>>
    PROVE  /\ HandedOver(c)' = Append(HandedOver(c), answer)
           /\ \A d \in Conns : d # c => HandedOver(d)' = HandedOver(d)
<1>1. /\ sent[c] \in Seq(SocketMessage) /\ writing[c] \in Seq(SocketMessage)
      /\ writeChan[c] \in Seq(SocketMessage)
  BY HandedOverSeq
<1>2. /\ writeChan'[c] = Append(writeChan[c], answer)
      /\ \A d \in Conns : d # c => writeChan'[d] = writeChan[d]
  BY DEF respondToVehicle, TypeOK
<1>3. \A d \in Conns : d # c => HandedOver(d)' = HandedOver(d)
  BY <1>2 DEF HandedOver
<1>4. HandedOver(c)' = sent[c] \o writing[c] \o Append(writeChan[c], answer)
  BY <1>2 DEF HandedOver
<1> DEFINE sw == sent[c] \o writing[c]
<1>5. sw \in Seq(SocketMessage)
  BY <1>1, ConcatProperties
<1> HIDE DEF sw
<1>6. sw \o Append(writeChan[c], answer) = Append(sw \o writeChan[c], answer)
  BY <1>1, <1>5, AppendMoves
<1> QED
  BY <1>3, <1>4, <1>6 DEF sw, HandedOver
(* Doing the first step leaves a programme of the same kind. *)
LEMMA RestDistinct ==
    ASSUME NEW p \in Seq(Op), p # <<>>, ProducesDiffer(p), DirectAcks(p)
    PROVE  /\ ProducesDiffer(Tail(p)) /\ DirectAcks(Tail(p))
           /\ Head(p).do = "produce" => Head(p) \notin Range(Tail(p))
           /\ Head(p).do = "ack" => ~reliableAck(Head(p).txType)
<1>1. /\ DOMAIN Tail(p) = 1 .. Len(p) - 1 /\ DOMAIN p = 1 .. Len(p) /\ Len(p) \in Nat \ {0}
      /\ \A k \in 1 .. Len(p) - 1 : Tail(p)[k] = p[k + 1]
      /\ Head(p) = p[1]
  OBVIOUS
<1>2. ProducesDiffer(Tail(p))
  <2> SUFFICES ASSUME NEW j \in 1 .. Len(p) - 1, NEW k \in 1 .. Len(p) - 1,
                      p[j + 1] = p[k + 1], p[j + 1].do = "produce"
               PROVE  j = k
    BY <1>1 DEF ProducesDiffer
  <2>1. j + 1 \in DOMAIN p /\ k + 1 \in DOMAIN p
    BY <1>1
  <2>2. j + 1 = k + 1
    BY <2>1 DEF ProducesDiffer
  <2> QED
    BY <2>2
<1>3. DirectAcks(Tail(p))
  BY <1>1 DEF DirectAcks
<1>4. ASSUME Head(p).do = "produce", NEW k \in DOMAIN Tail(p), Tail(p)[k] = Head(p)
      PROVE  FALSE
  <2>1. 1 \in DOMAIN p /\ k + 1 \in DOMAIN p /\ p[k + 1] = p[1] /\ p[1].do = "produce"
    BY <1>1, <1>4
  <2>2. k + 1 = 1
    BY <2>1 DEF ProducesDiffer
  <2> QED
    BY <1>1, <2>2
<1>5. Head(p).do = "ack" => ~reliableAck(Head(p).txType)
  BY <1>1 DEF DirectAcks
<1> QED
  BY <1>2, <1>3, <1>4, <1>5 DEF Range


LEMMA WaitsStep ==
    ASSUME TypeOK, Next, NEW d \in Conns, WriterWaits(d)
    PROVE  WriterWaits(d)'
<1>1. /\ pc \in [Conns -> {"new", "loop", "close", "log", "stop", "returned"}]
      /\ writer \in [Conns -> {"none", "select", "write", "exit", "done"}]
      /\ writing \in [Conns -> Seq(SocketMessage)]
  BY DEF TypeOK
<1>2. ASSUME pc'[d] = "new" => pc[d] = "new", UNCHANGED <<writer, writing>>
      PROVE  WriterWaits(d)'
  BY <1>2 DEF WriterWaits
<1>3. ASSUME NEW c \in Conns, Reader(c) PROVE WriterWaits(d)'
  <2>1. CASE StartProcessTelemetry(c)
    BY <1>1, <2>1 DEF StartProcessTelemetry, WriterWaits
  <2>2. CASE ReadMessage(c) \/ ReadError(c) \/ ReadWrongType(c)
    BY <1>1, <1>2, <2>2 DEF ReadMessage, ReadError, ReadWrongType, writerVars
  <2>3. CASE ProcessMessage(c)
    BY <1>2, <2>3 DEF ProcessMessage, ReaderResponds, Produce, writerVars
  <2>4. CASE Teardown(c)
    BY <1>1, <1>2, <2>4 DEF Teardown, CloseWs, LogDisconnected, CloseStopChan, writerVars
  <2> QED
    BY <1>3, <2>1, <2>2, <2>3, <2>4 DEF Reader
<1>4. ASSUME NEW c \in Conns, Writer(c) PROVE WriterWaits(d)'
  <2> USE DEF readerVars, WriterWaits
  <2>1. CASE WriterTake(c)
    BY <1>1, <2>1 DEF WriterTake
  <2>2. CASE WriterStop(c)
    BY <1>1, <2>2 DEF WriterStop
  <2>3. CASE WriteOk(c)
    BY <1>1, <2>3 DEF WriteOk
  <2>4. CASE WriteError(c)
    BY <1>1, <2>4 DEF WriteError
  <2>5. CASE WriterExit(c)
    BY <1>1, <2>5 DEF WriterExit
  <2> QED
    BY <1>4, <2>1, <2>2, <2>3, <2>4, <2>5 DEF Writer, Write
<1>5. ASSUME NEW c \in Conns, Outside(c) PROVE WriterWaits(d)'
  BY <1>2, <1>5 DEF Outside, RecordShutdown, CloseForShutdown, AckResponse, AckNeverComes,
                    Drop, readerVars, writerVars
<1> QED
  BY <1>3, <1>4, <1>5 DEF Next

(* The inductive invariant behind AnswersConserved: beyond what AckAfterDispatch
   needs, the reader has no ack of a dispatcher to give, and the writer never
   forgets an answer in its hand for a new one. *)
ConserveIInv ==
    /\ DispatchIInv
    /\ AnswersConserved
    /\ \A c \in Conns : DirectAcks(todo[c]) /\ WriterWaits(c)

(* The equation on one connection, and what keeps it. *)
Conserved(c) ==
    /\ DirectAcks(todo[c])
    /\ AnswersGiven(HandedOver(c)) \o AnswersLeft(todo[c]) = AnswersExpected(received[c])

(* From what a step leaves for one connection to the equation after it. *)
LEMMA ConservedNext ==
    ASSUME NEW d \in Conns, NEW h, NEW t, NEW e,
           HandedOver(d)' = h, todo'[d] = t, received'[d] = e,
           DirectAcks(t), AnswersGiven(h) \o AnswersLeft(t) = AnswersExpected(e)
    PROVE  Conserved(d)'
<1>1. DirectAcks(todo[d])'
  BY DEF DirectAcks
<1>2. /\ AnswersGiven(HandedOver(d))' = AnswersGiven(h)
      /\ AnswersLeft(todo[d])' = AnswersLeft(t)
      /\ AnswersExpected(received[d])' = AnswersExpected(e)
  OBVIOUS
<1> QED
  BY <1>1, <1>2 DEF Conserved

(* A step that touches neither the answers nor the messages of a connection. *)
LEMMA ConservedFrame ==
    ASSUME NEW d \in Conns, Conserved(d), HandedOver(d)' = HandedOver(d),
           todo'[d] = todo[d], received'[d] = received[d]
    PROVE  Conserved(d)'
BY ConservedNext DEF Conserved

(* The equation holds of nothing, and each kind of step keeps it. *)
LEMMA ConserveInit == Init => ConserveIInv
<1> SUFFICES ASSUME Init PROVE ConserveIInv
  OBVIOUS
<1>1. DispatchIInv
  BY DispatchInit
<1>2. ASSUME NEW c \in Conns
      PROVE  todo[c] = <<>> /\ received[c] = <<>> /\ HandedOver(c) = <<>>
             /\ writer[c] = "none" /\ writing[c] = <<>>
  BY DEF Init, HandedOver
<1>3. /\ AnswersGiven(<<>>) = <<>> /\ AnswersLeft(<<>>) = <<>> /\ AnswersExpected(<<>>) = <<>>
      /\ <<>> \o <<>> = <<>>
  BY FlattenEmpty DEF AnswersGiven, AnswersLeft, AnswersExpected
<1>4. ASSUME NEW c \in Conns
      PROVE  AnswersGiven(HandedOver(c)) \o AnswersLeft(todo[c]) = AnswersExpected(received[c])
  <2>1. /\ AnswersGiven(HandedOver(c)) = <<>> /\ AnswersLeft(todo[c]) = <<>>
        /\ AnswersExpected(received[c]) = <<>>
    BY <1>2, <1>3
  <2> QED
    BY <1>3, <2>1
<1> QED
  BY <1>1, <1>2, <1>4 DEF ConserveIInv, AnswersConserved, DirectAcks, WriterWaits

(* A message read adds its programme and what is expected of it. *)
LEMMA ConserveRead ==
    ASSUME ConserveIInv, TypeOK', NEW c \in Conns, ReadMessage(c), NEW d \in Conns
    PROVE  Conserved(d)'
<1>1. PICK m \in Messages, limited \in {FALSE, MayRefuse(c)} :
          /\ received' = [received EXCEPT ![c] = Append(@, [msg |-> m, limited |-> limited])]
          /\ todo' = [todo EXCEPT ![c] = IF limited THEN <<>>
                                         ELSE ParseAndProcessRecord(m, Len(received[c]) + 1)]
  BY Zenon DEF ReadMessage
<1> DEFINE i == Len(received[c]) + 1
           r == [msg |-> m, limited |-> limited]
           p == IF limited THEN <<>> ELSE ParseAndProcessRecord(m, i)
           given == AnswersGiven(HandedOver(c))
<1>2. /\ TypeOK /\ Conserved(d)
      /\ given \o AnswersLeft(todo[c]) = AnswersExpected(received[c])
  BY DEF ConserveIInv, DispatchIInv, AnswersConserved, Conserved
<1>3. limited \in BOOLEAN /\ m \in Message
  BY SocketAssumption DEF MayRefuse
<1>4. received \in [Conns -> Seq(ReadEntry)] /\ r \in ReadEntry /\ i \in Nat
  <2>1. received \in [Conns -> Seq(ReadEntry)]
    BY <1>2 DEF TypeOK, ReadEntry
  <2>2. r \in ReadEntry
    BY <1>3 DEF ReadEntry
  <2>3. Len(received[c]) \in Nat
    BY <2>1
  <2> QED
    BY <2>1, <2>2, <2>3
<1>5. HandedOver(d)' = HandedOver(d)
  BY DEF ReadMessage, HandedOver
<1>6. CASE d # c
  <2>1. received'[d] = received[d] /\ todo'[d] = todo[d]
    BY <1>1, <1>2, <1>6 DEF TypeOK
  <2> QED
    BY <1>2, <1>5, <2>1 DEF Conserved
<1>7. CASE d = c
  <2>1. todo[c] = <<>> /\ todo'[c] = p /\ received'[c] = Append(received[c], r)
    BY <1>1, <1>2 DEF ReadMessage, AtReadMessage, TypeOK
  <2>2. AnswersExpected(Append(received[c], r)) = AnswersExpected(received[c]) \o ExpectedAnswers(r, i)
    BY <1>4, ExpectedAppend
  <2>3. AnswersLeft(p) = ExpectedAnswers(r, i) /\ DirectAcks(p)
    <3>1. CASE limited = TRUE
      BY <3>1, FlattenEmpty DEF AnswersLeft, ExpectedAnswers, DirectAcks
    <3>2. CASE limited = FALSE
      BY <1>3, <1>4, <3>2, ProgrammeAnswers, ProgrammeDistinct
    <3> QED
      BY <1>3, <3>1, <3>2
  <2>4. given = AnswersExpected(received[c])
    <3>1. HandedOver(c) \in Seq(SocketMessage)
      BY <1>2, HandedOverSeq
    <3>2. given \in Seq(Plain)
      BY <3>1, AnswersGivenType
    <3>3. AnswersLeft(<<>>) = <<>>
      BY FlattenEmpty DEF AnswersLeft
    <3>4. given \o <<>> = given
      BY <3>2, ConcatEmptySeq
    <3> QED
      BY <1>2, <2>1, <3>3, <3>4
  <2>5. /\ DirectAcks(todo'[c])
        /\ given \o AnswersLeft(todo'[c]) = AnswersExpected(received'[c])
    BY <2>1, <2>2, <2>3, <2>4
  <2> QED
    BY <1>5, <1>7, <2>5 DEF Conserved, DirectAcks
<1> QED
  BY <1>6, <1>7

(* An answer handed over is no longer left; a Produce call was none. *)
LEMMA ConserveProcess ==
    ASSUME ConserveIInv, TypeOK', NEW c \in Conns, ReaderResponds(c) \/ Produce(c),
           NEW d \in Conns
    PROVE  Conserved(d)'
<1> DEFINE op == Head(todo[c])
           rest == Tail(todo[c])
           answer == [kind |-> op.do, msg |-> op.msg, txType |-> op.txType]
           h == HandedOver(c)
<1>1. /\ TypeOK /\ Conserved(d) /\ DirectAcks(todo[c])
      /\ AnswersGiven(h) \o AnswersLeft(todo[c]) = AnswersExpected(received[c])
  BY DEF ConserveIInv, DispatchIInv, AnswersConserved, Conserved
<1>2. /\ todo[c] \in Seq(Op) /\ todo[c] # <<>> /\ op \in Op
      /\ todo' = [todo EXCEPT ![c] = rest]
      /\ UNCHANGED <<received, sent, writing>>
  <2>1. todo \in [Conns -> Seq(Op)]
    BY <1>1 DEF TypeOK
  <2>2. /\ todo[c] # <<>> /\ todo' = [todo EXCEPT ![c] = Tail(@)]
        /\ UNCHANGED <<received, writerVars>>
    BY Zenon DEF ReaderResponds, Produce
  <2>3. todo' = [todo EXCEPT ![c] = rest]
    BY <2>2
  <2>4. op \in Op
    BY <2>1, <2>2
  <2> QED
    BY <2>1, <2>2, <2>3, <2>4 DEF writerVars
<1>3. /\ todo'[c] = rest
      /\ d # c => todo'[d] = todo[d]
      /\ received'[d] = received[d]
  BY <1>1, <1>2 DEF TypeOK
<1>4. DirectAcks(rest) /\ (op.do = "ack" => ~reliableAck(op.txType))
  <2>1. /\ DOMAIN rest = 1 .. Len(todo[c]) - 1 /\ DOMAIN todo[c] = 1 .. Len(todo[c])
        /\ Len(todo[c]) \in Nat \ {0} /\ op = todo[c][1]
        /\ \A k \in 1 .. Len(todo[c]) - 1 : rest[k] = todo[c][k + 1]
    BY <1>2
  <2> QED
    BY <1>1, <2>1 DEF DirectAcks
<1>5. /\ AnswersLeft(todo[c]) = OneLeft(op) \o AnswersLeft(rest)
      /\ OneLeft(op) \in Seq(Plain) /\ AnswersLeft(rest) \in Seq(Plain)
  BY <1>2, LeftHead
<1>6. h \in Seq(SocketMessage) /\ AnswersGiven(h) \in Seq(Plain)
  BY <1>1, HandedOverSeq, AnswersGivenType
<1>7. CASE ReaderResponds(c)
  <2>1. op.do \in Answers /\ respondToVehicle(c, answer)
    BY <1>7 DEF ReaderResponds
  <2>2. answer \in SocketMessage
    BY <1>2, <2>1 DEF Op, SocketMessage
  <2>3. OneGiven(answer) = OneLeft(op)
    BY <1>4, <2>1 DEF OneGiven, OneLeft, DirectAnswer
  <2> HIDE DEF answer
  <2>4. HandedOver(c)' = Append(h, answer) /\ (d # c => HandedOver(d)' = HandedOver(d))
    BY <1>1, <1>2, <2>1, <2>2, OneMore
  <2>5. CASE d = c
    <3>1. AnswersGiven(Append(h, answer)) = AnswersGiven(h) \o OneLeft(op)
      BY <1>6, <2>2, <2>3, OneMoreGiven
    <3>2. (AnswersGiven(h) \o OneLeft(op)) \o AnswersLeft(rest)
            = AnswersGiven(h) \o (OneLeft(op) \o AnswersLeft(rest))
      BY <1>5, <1>6, ConcatAssociative
    <3>3. AnswersGiven(Append(h, answer)) \o AnswersLeft(rest) = AnswersExpected(received[c])
      BY <1>1, <1>5, <3>1, <3>2
    <3> QED
      BY <1>3, <1>4, <2>4, <2>5, <3>3, ConservedNext
  <2>6. CASE d # c
    BY <1>1, <1>3, <2>4, <2>6, ConservedFrame
  <2> QED
    BY <2>5, <2>6
<1>8. CASE Produce(c)
  <2>1. op.do = "produce" /\ UNCHANGED writeChan
    BY <1>8 DEF Produce
  <2>2. HandedOver(c)' = h /\ HandedOver(d)' = HandedOver(d)
    BY <1>2, <2>1 DEF HandedOver
  <2>3. CASE d = c
    <3>1. OneLeft(op) = <<>>
      BY <2>1 DEF OneLeft, Answers
    <3>2. <<>> \o AnswersLeft(rest) = AnswersLeft(rest)
      BY <1>5, ConcatEmptySeq
    <3>3. AnswersGiven(h) \o AnswersLeft(rest) = AnswersExpected(received[c])
      BY <1>1, <1>5, <3>1, <3>2
    <3> QED
      BY <1>3, <1>4, <2>2, <2>3, <3>3, ConservedNext
  <2>4. CASE d # c
    BY <1>1, <1>3, <2>2, <2>4, ConservedFrame
  <2> QED
    BY <2>3, <2>4
<1> QED
  BY <1>7, <1>8

(* The ack of a dispatcher is none of the reader's answers. *)
LEMMA ConserveAck ==
    ASSUME ConserveIInv, NEW c \in Conns, NEW op \in Op, OutsideAck(c, op), NEW d \in Conns
    PROVE  Conserved(d)'
<1> DEFINE answer == AckOf(op)
<1>1. TypeOK /\ Conserved(d)
  BY DEF ConserveIInv, DispatchIInv, AnswersConserved, Conserved
<1>2. answer \in SocketMessage /\ OneGiven(answer) = <<>>
  BY AckOfType DEF OutsideAck, OneGiven
<1>3. UNCHANGED <<sent, writing, todo, received>> /\ respondToVehicle(c, answer)
  BY DEF OutsideAck, readerVars, writerVars
<1> HIDE DEF answer
<1>4. HandedOver(c)' = Append(HandedOver(c), answer) /\ (d # c => HandedOver(d)' = HandedOver(d))
  BY <1>1, <1>2, <1>3, OneMore
<1>5. AnswersGiven(Append(HandedOver(c), answer)) = AnswersGiven(HandedOver(c))
  <2>1. HandedOver(c) \in Seq(SocketMessage) /\ AnswersGiven(HandedOver(c)) \in Seq(Plain)
    BY <1>1, HandedOverSeq, AnswersGivenType
  <2>2. AnswersGiven(HandedOver(c)) \o <<>> = AnswersGiven(HandedOver(c))
    BY <2>1, ConcatEmptySeq
  <2> QED
    BY <1>2, <2>1, <2>2, OneMoreGiven
<1>6. CASE d = c
  BY <1>1, <1>3, <1>4, <1>5, <1>6 DEF Conserved
<1>7. CASE d # c
  BY <1>1, <1>3, <1>4, <1>7 DEF Conserved
<1> QED
  BY <1>6, <1>7

LEMMA ConserveStep == ConserveIInv /\ TypeOK' /\ [Next]_vars => \A d \in Conns : Conserved(d)'
<1> SUFFICES ASSUME ConserveIInv, TypeOK', [Next]_vars, NEW d \in Conns
             PROVE  Conserved(d)'
  OBVIOUS
<1>1. TypeOK /\ Conserved(d) /\ \A c \in Conns : WriterWaits(c)
  BY DEF ConserveIInv, DispatchIInv, AnswersConserved, Conserved
<1>2. ASSUME UNCHANGED <<sent, writing, writeChan, todo, received>>
      PROVE  Conserved(d)'
  <2>1. HandedOver(d)' = HandedOver(d)
    BY <1>2 DEF HandedOver
  <2> QED
    BY <1>1, <1>2, <2>1, ConservedFrame
<1>3. CASE UNCHANGED vars
  BY <1>2, <1>3 DEF vars
<1>4. ASSUME NEW c \in Conns, Reader(c) PROVE Conserved(d)'
  <2>1. CASE ReadMessage(c)
    BY <2>1, ConserveRead
  <2>2. CASE ProcessMessage(c)
    BY <2>2, ConserveProcess DEF ProcessMessage
  <2>3. CASE StartProcessTelemetry(c) \/ ReadError(c) \/ ReadWrongType(c) \/ Teardown(c)
    BY <1>2, <2>3 DEF StartProcessTelemetry, ReadError, ReadWrongType, Teardown, CloseWs,
                      LogDisconnected, CloseStopChan, writerVars
  <2> QED
    BY <1>4, <2>1, <2>2, <2>3 DEF Reader
<1>5. ASSUME NEW c \in Conns, Writer(c) PROVE Conserved(d)'
  <2>1. CASE WriterTake(c) \/ WriteOk(c)
    <3>1. HandedOver(d)' = HandedOver(d)
      BY <1>1, <2>1, WriterMovesAlong
    <3>2. UNCHANGED <<todo, received>>
      BY <2>1 DEF WriterTake, WriteOk, readerVars
    <3> QED
      BY <1>1, <3>1, <3>2, ConservedFrame
  <2>2. CASE WriterStop(c) \/ WriteError(c) \/ WriterExit(c)
    BY <1>2, <2>2 DEF WriterStop, WriteError, WriterExit, readerVars
  <2> QED
    BY <1>5, <2>1, <2>2 DEF Writer, Write
<1>6. ASSUME NEW c \in Conns, Outside(c) PROVE Conserved(d)'
  <2>1. CASE AckResponse(c)
    BY <2>1, ResponseIsOutsideAck, ConserveAck DEF ConserveIInv
  <2>2. CASE RecordShutdown(c) \/ CloseForShutdown(c) \/ AckNeverComes(c) \/ Drop(c)
    BY <1>2, <2>2 DEF RecordShutdown, CloseForShutdown, AckNeverComes, Drop, readerVars,
                      writerVars
  <2> QED
    BY <1>6, <2>1, <2>2 DEF Outside
<1> QED
  BY <1>3, <1>4, <1>5, <1>6 DEF Next

LEMMA ConserveIInvStep == ConserveIInv /\ TypeOK' /\ [Next]_vars => ConserveIInv'
<1> SUFFICES ASSUME ConserveIInv, TypeOK', [Next]_vars PROVE ConserveIInv'
  OBVIOUS
<1>1. DispatchIInv'
  BY DispatchStep DEF ConserveIInv
<1>2. \A d \in Conns : Conserved(d)'
  BY ConserveStep
<1>3. ASSUME NEW d \in Conns PROVE WriterWaits(d)'
  <2>1. CASE Next
    BY <2>1, WaitsStep DEF ConserveIInv, DispatchIInv
  <2>2. CASE UNCHANGED vars
    BY <2>2 DEF vars, ConserveIInv, WriterWaits
  <2> QED
    BY <2>1, <2>2
<1> QED
  BY <1>1, <1>2, <1>3 DEF ConserveIInv, AnswersConserved, Conserved

LEMMA ConserveInvariant == Spec => []ConserveIInv
<1>1. ConserveIInv /\ [Next]_vars => ConserveIInv'
  BY TypeStep, ConserveIInvStep DEF ConserveIInv, DispatchIInv
<1> QED
  BY <1>1, ConserveInit, PTL DEF Spec

(* No answer of the reader is lost, duplicated, invented or overtaken on its way
   through the channel and the writer to the wire. *)
THEOREM AnswersAreConserved == Spec => []AnswersConserved
<1>1. ConserveIInv => AnswersConserved
  BY DEF ConserveIInv
<1> QED
  BY <1>1, ConserveInvariant, PTL

----------------------------------------------------------------------------
(* No wake-up is lost.                                                     *)

LEMMA WakeupInit == Init => \A c \in Conns : WakeupInv(c)
BY DEF Init, WakeupInv

LEMMA WakeupStep ==
    ASSUME TypeOK, Next, NEW d \in Conns, WakeupInv(d)
    PROVE  WakeupInv(d)'
<1> USE DEF WakeupInv
<1>1. /\ pc \in [Conns -> {"new", "loop", "close", "log", "stop", "returned"}]
      /\ writer \in [Conns -> {"none", "select", "write", "exit", "done"}]
      /\ ws \in [Conns -> {"open", "dropped", "closed"}]
      /\ closer \in [Conns -> {"idle", "recorded", "done"}]
      /\ deadline \in [Conns -> BOOLEAN] /\ stopped \in [Conns -> BOOLEAN]
      /\ DOMAIN todo = Conns /\ DOMAIN ackDue = Conns
  BY DEF TypeOK
<1>2. ASSUME NEW c \in Conns, Reader(c) PROVE WakeupInv(d)'
  <2>1. CASE StartProcessTelemetry(c)
    BY <1>1, <2>1 DEF StartProcessTelemetry
  <2>2. CASE ReadMessage(c)
    BY <1>1, <2>2 DEF ReadMessage, AtReadMessage
  <2>3. CASE ReadError(c)
    BY <1>1, <2>3 DEF ReadError, AtReadMessage, writerVars
  <2>4. CASE ReadWrongType(c)
    BY <1>1, <2>4 DEF ReadWrongType, AtReadMessage, writerVars, reasonVars
  <2>5. CASE ReaderResponds(c)
    BY <1>1, <2>5 DEF ReaderResponds, writerVars, reasonVars
  <2>6. CASE Produce(c)
    BY <1>1, <2>6 DEF Produce, writerVars, reasonVars
  <2>7. CASE CloseWs(c)
    BY <1>1, <2>7 DEF CloseWs, writerVars
  <2>8. CASE LogDisconnected(c)
    BY <1>1, <2>8 DEF LogDisconnected, writerVars
  <2>9. CASE CloseStopChan(c)
    BY <1>1, <2>9 DEF CloseStopChan, writerVars, reasonVars
  <2> QED
    BY <1>2, <2>1, <2>2, <2>3, <2>4, <2>5, <2>6, <2>7, <2>8, <2>9
    DEF Reader, ProcessMessage, Teardown
<1>3. ASSUME NEW c \in Conns, Writer(c) PROVE WakeupInv(d)'
  <2>1. CASE WriterTake(c)
    BY <1>1, <2>1 DEF WriterTake, readerVars, reasonVars
  <2>2. CASE WriterStop(c)
    BY <1>1, <2>2 DEF WriterStop, readerVars, reasonVars
  <2>3. CASE WriteOk(c)
    BY <1>1, <2>3 DEF WriteOk, readerVars, reasonVars
  <2>4. CASE WriteError(c)
    BY <1>1, <2>4 DEF WriteError, readerVars
  <2>5. CASE WriterExit(c)
    BY <1>1, <2>5 DEF WriterExit, readerVars, reasonVars
  <2> QED
    BY <1>3, <2>1, <2>2, <2>3, <2>4, <2>5 DEF Writer, Write
<1>4. ASSUME NEW c \in Conns, Outside(c) PROVE WakeupInv(d)'
  <2>1. CASE RecordShutdown(c)
    BY <1>1, <2>1 DEF RecordShutdown, readerVars, writerVars
  <2>2. CASE CloseForShutdown(c)
    BY <1>1, <2>2 DEF CloseForShutdown, readerVars, writerVars
  <2>3. CASE AckResponse(c)
    BY <1>1, <2>3 DEF AckResponse, readerVars, writerVars, reasonVars
  <2>4. CASE AckNeverComes(c)
    BY <1>1, <2>4 DEF AckNeverComes, readerVars, writerVars, reasonVars
  <2>5. CASE Drop(c)
    BY <1>1, <2>5 DEF Drop, readerVars, writerVars, reasonVars
  <2> QED
    BY <1>4, <2>1, <2>2, <2>3, <2>4, <2>5 DEF Outside
<1> QED
  BY <1>2, <1>3, <1>4 DEF Next

LEMMA WakeupInvStep ==
    TypeOK /\ (\A c \in Conns : WakeupInv(c)) /\ [Next]_vars => \A c \in Conns : WakeupInv(c)'
<1>1. CASE UNCHANGED vars
  BY <1>1 DEF vars, WakeupInv
<1> QED
  BY <1>1, WakeupStep

LEMMA WakeupInvariant == Spec => [](\A c \in Conns : WakeupInv(c))
<1> DEFINE W == \A c \in Conns : WakeupInv(c)
<1>1. TypeOK /\ W /\ [Next]_vars => W'
  BY WakeupInvStep
<1>2. Init => W
  BY WakeupInit
<1> QED
  BY <1>1, <1>2, TypeCorrect, PTL DEF Spec

(* With nothing in the writer's hand, in the channel or left to do, what was
   sent is all that was called for. *)
LEMMA AllSent ==
    ASSUME ConserveIInv, NEW c \in Conns,
           writing[c] = <<>>, writeChan[c] = <<>>, todo[c] = <<>>
    PROVE  AnswersGiven(sent[c]) = AnswersExpected(received[c])
<1>1. TypeOK /\ Conserved(c)
  BY DEF ConserveIInv, DispatchIInv, AnswersConserved, Conserved
<1>2. sent[c] \in Seq(SocketMessage)
  BY <1>1, HandedOverSeq
<1>3. HandedOver(c) = sent[c]
  BY <1>2, ConcatEmptySeq DEF HandedOver
<1>4. AnswersLeft(todo[c]) = <<>>
  BY FlattenEmpty DEF AnswersLeft
<1>5. AnswersGiven(sent[c]) \in Seq(Plain)
  BY <1>2, AnswersGivenType
<1>6. AnswersGiven(sent[c]) \o <<>> = AnswersGiven(sent[c])
  BY <1>5, ConcatEmptySeq
<1> QED
  BY <1>1, <1>3, <1>4, <1>6 DEF Conserved

(* Who may rest, from the two invariants. *)
LEMMA RestIsJustified ==
    ASSUME ConserveIInv, NEW c \in Conns, WakeupInv(c), AtRest(c)
    PROVE  SessionIdle(c) \/ SessionOver(c) \/ Wedged(c)
<1>1. TypeOK /\ WriterWaits(c)
  BY DEF ConserveIInv, DispatchIInv
<1>2. /\ pc[c] \in {"loop", "returned"} /\ writer[c] \in {"select", "done"}
      /\ writer[c] = "select" => writeChan[c] = <<>> /\ ~stopped[c]
      /\ closer[c] \in {"idle", "done"} /\ ws[c] \in {"open", "dropped", "closed"}
  BY <1>1 DEF AtRest, WriterAtRest, WakeupInv, TypeOK
<1>3. CASE pc[c] = "returned"
  BY <1>2, <1>3 DEF WakeupInv, SessionOver
<1>4. CASE AtReadMessage(c)
  <2>1. ws[c] = "open" /\ ~deadline[c]
    <3>1. \A err \in Reasons : err \notin ReadErrors(c)
      BY <1>4 DEF AtRest
    <3> QED
      BY <1>2, <3>1 DEF ReadErrors, Reasons
  <2>2. writer[c] = "select" /\ closer[c] = "idle"
    BY <1>2, <2>1 DEF WakeupInv
  <2>3. AnswersGiven(sent[c]) = AnswersExpected(received[c])
    BY <1>1, <1>2, <1>4, <2>2, AllSent DEF WriterWaits, AtReadMessage
  <2> QED
    BY <1>4, <2>1, <2>2, <2>3 DEF SessionIdle
<1>5. CASE todo[c] # <<>>
  <2>1. Len(writeChan[c]) = WriteCap /\ Head(todo[c]).do \in Answers
    BY <1>5 DEF AtRest
  <2>2. writeChan[c] # <<>>
    BY <2>1, SocketAssumption
  <2> QED
    BY <1>2, <1>5, <2>1, <2>2 DEF Wedged
<1> QED
  BY <1>2, <1>3, <1>4, <1>5 DEF AtReadMessage

(* A session in which neither goroutine nor a drain has a step to take is idle,
   over, or wedged on a full channel: nobody waits for a wake-up that will not
   come, with however many answers, messages and connections. *)
THEOREM WakeupsArrive == Spec => []NoWakeupLost
<1>1. ConserveIInv /\ (\A c \in Conns : WakeupInv(c)) => NoWakeupLost
  BY RestIsJustified DEF NoWakeupLost
<1> QED
  BY <1>1, ConserveInvariant, WakeupInvariant, PTL

----------------------------------------------------------------------------
(* All of it at once, for sessions that somebody else may answer on.       *)

SessionsInv ==
    /\ ReasonIInv /\ ConserveIInv
    /\ \A c \in Conns : WakeupInv(c)

LEMMA SessionsInit == Init => SessionsInv
BY ReasonInit, ConserveInit, WakeupInit DEF SessionsInv

LEMMA SessionsStep ==
    ASSUME SessionsInv, TypeOK',
           [Next]_vars \/ \E c \in Conns, op \in Op : OutsideAck(c, op)
    PROVE  SessionsInv'
<1>1. /\ TypeOK /\ ReasonIInv /\ ConserveIInv /\ DispatchIInv
      /\ \A d \in Conns : WakeupInv(d)
  BY DEF SessionsInv, ConserveIInv, DispatchIInv
<1>2. CASE [Next]_vars
  BY <1>1, <1>2, ReasonStep, ConserveIInvStep, WakeupInvStep DEF SessionsInv
<1>3. ASSUME NEW c \in Conns, NEW op \in Op, OutsideAck(c, op) PROVE SessionsInv'
  <2>1. UNCHANGED <<readerVars, writerVars, ws, deadline, stopped, reasonVars>>
    BY <1>3 DEF OutsideAck
  <2>2. ReasonIInv'
    BY <1>1, <2>1 DEF readerVars, writerVars, reasonVars, ReasonIInv, LoggedReasonTruthful,
                      CloseReasonInv
  <2>3. DispatchIInv'
    BY <1>1, <1>3, DispatchAck, DispatchSplit
  <2>4. \A d \in Conns : Conserved(d)'
    BY <1>1, <1>3, ConserveAck
  <2>5. ASSUME NEW d \in Conns PROVE WriterWaits(d)'
    BY <1>1, <2>1 DEF readerVars, writerVars, ConserveIInv, WriterWaits
  <2>6. ASSUME NEW d \in Conns PROVE WakeupInv(d)'
    <3>1. WakeupInv(d) /\ ackDue'[d] \subseteq ackDue[d]
      BY <1>1, <1>3 DEF OutsideAck
    <3> QED
      BY <2>1, <3>1 DEF readerVars, writerVars, reasonVars, WakeupInv
  <2> QED
    BY <2>2, <2>3, <2>4, <2>5, <2>6 DEF SessionsInv, ConserveIInv, AnswersConserved, Conserved
<1> QED
  BY <1>2, <1>3

LEMMA SessionsKeepAll ==
    SessionsInv => LoggedReasonTruthful /\ AckAfterDispatch /\ AnswersConserved /\ NoWakeupLost
BY RestIsJustified
DEF SessionsInv, ReasonIInv, ConserveIInv, DispatchIInv, NoWakeupLost
============================================================================
