--------------------------- MODULE AckPathProofs ---------------------------
(***************************************************************************)
(* Reliable acks across the whole server: from the reader's Produce call,  *)
(* by the reader itself or by kafka's delivery goroutine, through handleAcks*)
(* to the answer on a socket.  Proved for every number of connections and  *)
(* any UUIDs; where a vehicle that shares its UUID is not served as well,  *)
(* because handleAcks may answer on the other one's socket, the result is  *)
(* about the vehicles that share none.                                     *)
(***************************************************************************)
EXTENDS ServerProofs, SequenceTheorems

Record(c, op) == [conn |-> c, op |-> op]

(* Where an accepted record can be. *)
WithKafka(c, op) == Record(c, op) \in inflight
IsStored(c, op)  == Record(c, op) \in stored
Reported(c, op)  == kafkaEvent = <<Record(c, op)>>
AtReader(c, op)  == sendingAck[c] = <<op>>
InHand(c, op)    == handler # <<>> /\ Head(handler).conn = c /\ Head(handler).op = op

(* On its way to an answer: stored, and not answered or given up yet. *)
OnItsWay(c, op) == Reported(c, op) \/ AtReader(c, op) \/ InHand(c, op)

(***************************************************************************)
(* A record is in one place at a time, and the vehicle is owed its ack     *)
(* exactly as long as it is in one; a record the dispatcher took is never  *)
(* one the reader has still to produce.                                    *)
(***************************************************************************)
RecordInv(c, op) ==
    /\ OnItsWay(c, op) => IsStored(c, op)
    /\ ~(WithKafka(c, op) /\ IsStored(c, op))
    /\ ~(Reported(c, op) /\ AtReader(c, op))
    /\ ~(Reported(c, op) /\ InHand(c, op))
    /\ ~(AtReader(c, op) /\ InHand(c, op))
    /\ op \in ackDue[c] <=> WithKafka(c, op) \/ OnItsWay(c, op)
    /\ op \in ackDue[c] \/ WithKafka(c, op) \/ IsStored(c, op) =>
          op.msg <= Len(received[c]) /\ op \notin Range(todo[c]) /\ OwesAck(op)

(* What the reader has left to do, and what the writer holds. *)
ReaderInv(c) ==
    /\ AboutMessage(todo[c], Len(received[c]))
    /\ ProducesDiffer(todo[c]) /\ DirectAcks(todo[c])
    /\ WriterWaits(c)

(* handleAcks found a socket with the UUID of the vehicle that sent the record. *)
SameUUID ==
    handler # <<>> /\ Head(handler).socket # NoConn =>
        UUID[Head(handler).socket] = UUID[Head(handler).conn]

(* Counting: every reliable ack on a connection that shares no UUID stands for a
   stored record of its own that is no longer on its way. *)
Given(c, i) ==
    {k \in DOMAIN HandedOver(c) :
        LET a == HandedOver(c)[k] IN ~DirectAnswer(a) /\ a.msg = i}

Settled(c, i) ==
    {r \in stored : r.conn = c /\ r.op.msg = i /\ OwesAck(r.op) /\ ~OnItsWay(c, r.op)}

CountInv ==
    /\ IsFiniteSet(stored)
    /\ \A c \in Conns : Unshared(c) =>
          \A i \in Nat : Cardinality(Given(c, i)) <= Cardinality(Settled(c, i))

AckInv ==
    /\ ServerInv
    /\ \A c \in Conns : ReaderInv(c) /\ \A op \in Op : RecordInv(c, op)
    /\ SameUUID
    /\ CountInv
----------------------------------------------------------------------------
(* The steps that matter to the path of an ack, and what they leave alone. *)

SameAnswers == \A d \in Conns : HandedOver(d)' = HandedOver(d)

LEMMA StepKinds ==
    ASSUME TypeInv, \A d \in Conns : ReaderInv(d), ServerNext
    PROVE  \/ SameAnswers /\ UNCHANGED <<ackVars, ackDue, todo, received>>
           \/ \E c \in Conns : ReadMessage(c) /\ SameAnswers /\ UNCHANGED <<ackVars, ackDue>>
           \/ \E c \in Conns : ReaderResponds(c) /\ UNCHANGED ackVars
           \/ \E c \in Conns : Produce(c) /\ SameAnswers /\ UNCHANGED <<ackVars, ackDue>>
           \/ \E c \in Conns : ProduceAccepted(c) /\ SameAnswers
           \/ DeliveryReport /\ SameAnswers
           \/ handleAcks /\ (HandlerResponds \/ SameAnswers)
<1> USE DEF sessionVars, vars, readerVars, writerVars, reasonVars
<1>1. ASSUME UNCHANGED <<sent, writing, writeChan>> PROVE SameAnswers
  BY <1>1 DEF SameAnswers, HandedOver
<1>2. ASSUME NEW c \in Conns, Accept(c) \/ ServeBinaryWs(c)
      PROVE  SameAnswers /\ UNCHANGED <<ackVars, ackDue, todo, received>>
  BY <1>1, <1>2 DEF Accept, ServeBinaryWs, Upgrade, Reject, registerSocket, EventConnected,
                    deregisterSocket, EventDisconnected
<1>3. ASSUME ShutdownSignal \/ ListenerFails \/ DrainTimeout \/ gracefulShutdown
      PROVE  SameAnswers /\ UNCHANGED <<ackVars, ackDue, todo, received>>
  BY <1>1, <1>3 DEF ShutdownSignal, ListenerFails, DrainTimeout, gracefulShutdown,
                    CloseAllSockets, waitForSocketsDrain, CloseProducers, Exit, RequestClose,
                    RecordShutdown, CloseForShutdown
<1>4. ASSUME NEW c \in Conns, SessionStep(c)
      PROVE  \/ SameAnswers /\ UNCHANGED <<ackVars, ackDue, todo, received>>
             \/ ReadMessage(c) /\ SameAnswers /\ UNCHANGED <<ackVars, ackDue>>
             \/ ReaderResponds(c) /\ UNCHANGED ackVars
  <2>1. UNCHANGED ackVars
    BY <1>4 DEF SessionStep
  <2>2. ASSUME \/ StartProcessTelemetry(c) \/ ReadError(c) \/ ReadWrongType(c) \/ Teardown(c)
               \/ WriterStop(c) \/ WriteError(c) \/ WriterExit(c) \/ Drop(c)
        PROVE  UNCHANGED <<sent, writing, writeChan, ackDue, todo, received>>
    BY <2>2 DEF StartProcessTelemetry, ReadError, ReadWrongType, Teardown, CloseWs,
                LogDisconnected, CloseStopChan, WriterStop, WriteError, WriterExit, Drop
  <2>3. ASSUME WriterTake(c) \/ WriteOk(c)
        PROVE  SameAnswers /\ UNCHANGED <<ackDue, todo, received>>
    <3>1. UNCHANGED <<ackDue, todo, received>>
      BY <2>3 DEF WriterTake, WriteOk
    <3> QED
      BY <2>3, <3>1, WriterMovesAlong DEF SameAnswers, TypeInv, ReaderInv
  <2>4. ASSUME ReadMessage(c) PROVE SameAnswers /\ UNCHANGED ackDue
    BY <1>1, <2>4 DEF ReadMessage
  <2> QED
    BY <1>1, <1>4, <2>1, <2>2, <2>3, <2>4 DEF SessionStep, ReaderStep, Writer, Write
<1>5. ASSUME NEW c \in Conns, ProduceUnacknowledged(c)
      PROVE  Produce(c) /\ SameAnswers /\ UNCHANGED <<ackVars, ackDue>>
  BY <1>1, <1>5 DEF ProduceUnacknowledged, Produce
<1>6. ASSUME NEW c \in Conns, ProduceAccepted(c) PROVE SameAnswers
  BY <1>1, <1>6 DEF ProduceAccepted, Produce
<1>7. ASSUME DeliveryReport PROVE SameAnswers
  BY <1>1, <1>7 DEF DeliveryReport
<1>8. ASSUME handleAcks, ~HandlerResponds PROVE SameAnswers
  BY <1>1, <1>8 DEF handleAcks, ReceiveAckFromReader, ReceiveAckFromKafka,
                    HandlerFindsSocket, HandlerMisses
<1> QED
  BY <1>2, <1>3, <1>4, <1>5, <1>6, <1>7, <1>8 DEF ServerNext

(* The writer is empty-handed while it waits. *)
LEMMA WriterStep ==
    ASSUME TypeInv, \A d \in Conns : ReaderInv(d), ServerNext, NEW d \in Conns
    PROVE  WriterWaits(d)'
<1>1. TypeOK /\ WriterWaits(d)
  BY DEF ReaderInv, TypeInv
<1>2. CASE UNCHANGED <<pc, writer, writing>>
  BY <1>1, <1>2 DEF WriterWaits
<1>3. CASE HandlerResponds
  BY <1>2, <1>3 DEF HandlerResponds, sessionVars, vars, readerVars, writerVars
<1>4. CASE UNCHANGED vars
  BY <1>2, <1>4 DEF vars
<1>5. CASE Next
  BY <1>1, <1>5, WaitsStep
<1> QED
  BY <1>3, <1>4, <1>5, SessionMoves

----------------------------------------------------------------------------
(* What the reader has left to do.                                         *)

(* A new message gives a programme about it, all of it new. *)
LEMMA ReadFacts ==
    ASSUME TypeOK, NEW c \in Conns, ReadMessage(c)
    PROVE  /\ Len(received[c]) \in Nat /\ Len(received'[c]) = Len(received[c]) + 1
           /\ AboutMessage(todo'[c], Len(received'[c]))
           /\ ProducesDiffer(todo'[c]) /\ DirectAcks(todo'[c])
           /\ \A d \in Conns : d # c => todo'[d] = todo[d] /\ received'[d] = received[d]
<1> DEFINE i == Len(received[c]) + 1
<1>1. PICK m \in Messages, limited \in {FALSE, MayRefuse(c)} :
          /\ received' = [received EXCEPT ![c] = Append(@, [msg |-> m, limited |-> limited])]
          /\ todo' = [todo EXCEPT ![c] = IF limited THEN <<>> ELSE ParseAndProcessRecord(m, i)]
  BY Zenon DEF ReadMessage
<1>2. i \in Nat /\ Len(received'[c]) = i /\ \A d \in Conns : d # c => received'[d] = received[d]
  <2> DEFINE Entry == [msg : Messages, limited : BOOLEAN]
             entry == [msg |-> m, limited |-> limited]
  <2>1. received \in [Conns -> Seq(Entry)] /\ received' = [received EXCEPT ![c] = Append(@, entry)]
    BY <1>1, Zenon DEF TypeOK
  <2> HIDE DEF Entry, entry
  <2>2. received[c] \in Seq(Entry) /\ received'[c] = Append(received[c], entry)
    BY <2>1
  <2> QED
    BY <2>1, <2>2
<1>3. m \in Message
  BY SocketAssumption
<1>4. /\ AboutMessage(<<>>, i) /\ ProducesDiffer(<<>>) /\ DirectAcks(<<>>)
  BY DEF AboutMessage, ProducesDiffer, DirectAcks
<1>5. /\ AboutMessage(ParseAndProcessRecord(m, i), i)
      /\ ProducesDiffer(ParseAndProcessRecord(m, i)) /\ DirectAcks(ParseAndProcessRecord(m, i))
  BY <1>2, <1>3, ProgrammeOrder, ProgrammeDistinct
<1>6. /\ todo'[c] = IF limited THEN <<>> ELSE ParseAndProcessRecord(m, i)
      /\ \A d \in Conns : d # c => todo'[d] = todo[d]
  BY <1>1 DEF TypeOK
<1> QED
  BY <1>2, <1>4, <1>5, <1>6

(* One step of a programme done. *)
LEMMA DoneFacts ==
    ASSUME TypeOK, NEW c \in Conns, ReaderInv(c), ReaderResponds(c) \/ Produce(c)
    PROVE  /\ todo[c] \in Seq(Op) /\ todo[c] # <<>> /\ Head(todo[c]) \in Op
           /\ Head(todo[c]) \in Range(todo[c])
           /\ Head(todo[c]).msg = Len(received[c])
           /\ Range(todo'[c]) \subseteq Range(todo[c])
           /\ Head(todo[c]).do = "produce" => Head(todo[c]) \notin Range(todo'[c])
           /\ Head(todo[c]).do = "ack" => ~reliableAck(Head(todo[c]).txType)
           /\ AboutMessage(todo'[c], Len(received[c]))
           /\ ProducesDiffer(todo'[c]) /\ DirectAcks(todo'[c])
           /\ UNCHANGED received /\ \A d \in Conns : d # c => todo'[d] = todo[d]
<1>1. /\ todo[c] \in Seq(Op) /\ todo[c] # <<>> /\ Head(todo[c]) \in Op
      /\ todo' = [todo EXCEPT ![c] = Tail(@)] /\ UNCHANGED received
      /\ todo \in [Conns -> Seq(Op)]
  BY DEF ReaderResponds, Produce, TypeOK
<1>2. todo'[c] = Tail(todo[c]) /\ \A d \in Conns : d # c => todo'[d] = todo[d]
  BY <1>1
<1>3. /\ Range(Tail(todo[c])) \subseteq Range(todo[c]) /\ Head(todo[c]) \in Range(todo[c])
  BY <1>1, RangeOfTail
<1>4. AboutMessage(Tail(todo[c]), Len(received[c])) /\ Head(todo[c]).msg = Len(received[c])
  BY <1>1, RestAbout DEF ReaderInv
<1>5. /\ ProducesDiffer(Tail(todo[c])) /\ DirectAcks(Tail(todo[c]))
      /\ Head(todo[c]).do = "produce" => Head(todo[c]) \notin Range(Tail(todo[c]))
      /\ Head(todo[c]).do = "ack" => ~reliableAck(Head(todo[c]).txType)
  BY <1>1, RestDistinct DEF ReaderInv
<1> QED
  BY <1>1, <1>2, <1>3, <1>4, <1>5

LEMMA ReaderInvStep ==
    ASSUME TypeInv, \A e \in Conns : ReaderInv(e), ServerNext, NEW d \in Conns
    PROVE  ReaderInv(d)'
<1>1. WriterWaits(d)'
  BY WriterStep
<1>2. TypeOK /\ ReaderInv(d)
  BY DEF TypeInv
<1>3. ASSUME todo'[d] = todo[d], received'[d] = received[d] PROVE ReaderInv(d)'
  BY <1>1, <1>2, <1>3 DEF ReaderInv, AboutMessage, ProducesDiffer, DirectAcks, WriterWaits
<1>4. ASSUME AboutMessage(todo'[d], Len(received'[d])), ProducesDiffer(todo'[d]),
             DirectAcks(todo'[d])
      PROVE  ReaderInv(d)'
  BY <1>1, <1>4 DEF ReaderInv, AboutMessage, ProducesDiffer, DirectAcks, WriterWaits
<1>5. ASSUME NEW c \in Conns, ReadMessage(c) PROVE ReaderInv(d)'
  BY <1>2, <1>3, <1>4, <1>5, ReadFacts
<1>6. ASSUME NEW c \in Conns, ReaderResponds(c) \/ Produce(c) PROVE ReaderInv(d)'
  BY <1>2, <1>3, <1>4, <1>6, DoneFacts
<1>7. ASSUME DeliveryReport \/ handleAcks PROVE UNCHANGED <<todo, received>>
  BY <1>7 DEF DeliveryReport, handleAcks, ReceiveAckFromReader, ReceiveAckFromKafka,
              HandlerFindsSocket, HandlerMisses, HandlerResponds, sessionVars, vars, readerVars
<1>8. ASSUME NEW c \in Conns, ProduceAccepted(c) PROVE Produce(c)
  BY <1>8 DEF ProduceAccepted
<1> QED
  BY <1>3, <1>5, <1>6, <1>7, <1>8, StepKinds

----------------------------------------------------------------------------
(* The places of a record.                                                 *)

LEMMA RecordEta ==
    /\ \A r \in OwedRecords : r.conn \in Conns /\ r.op \in Op /\ r = Record(r.conn, r.op)
    /\ \A c, d, op, o : Record(c, op) = Record(d, o) <=> c = d /\ op = o
    /\ \A c, op : Record(c, op).conn = c /\ Record(c, op).op = op
BY DEF OwedRecords, Record

LEMMA Single ==
    ASSUME NEW S, NEW s \in Seq(S), s # <<>>, Len(s) <= 1
    PROVE  s = <<Head(s)>> /\ Head(s) \in S
<1>1. Len(s) = 1 /\ Head(s) = s[1] /\ s[1] \in S
  OBVIOUS
<1>2. s = <<s[1]>>
  BY <1>1
<1> QED
  BY <1>1, <1>2

LEMMA SingleEq == \A a, b : <<a>> = <<b>> <=> a = b
<1> SUFFICES ASSUME NEW a, NEW b, <<a>> = <<b>> PROVE a = b
  OBVIOUS
<1>1. <<a>>[1] = <<b>>[1]
  OBVIOUS
<1> QED
  BY <1>1

LEMMA SingleFull == \A a : <<a>> # <<>> /\ Head(<<a>>) = a
OBVIOUS

(* A step that takes nothing on and moves no record. *)
LEMMA RecordFrame ==
    ASSUME NEW d \in Conns, NEW op \in Op, RecordInv(d, op),
           WithKafka(d, op)' = WithKafka(d, op), IsStored(d, op)' = IsStored(d, op),
           Reported(d, op)' = Reported(d, op), AtReader(d, op)' = AtReader(d, op),
           InHand(d, op)' = InHand(d, op),
           (op \in ackDue[d])' = (op \in ackDue[d]),
           op.msg <= Len(received[d]) => op.msg <= Len(received'[d]),
           op \notin Range(todo[d]) /\ op.msg <= Len(received[d]) => op \notin Range(todo'[d])
    PROVE  RecordInv(d, op)'
<1>1. (op \notin Range(todo[d]))' <=> op \notin Range(todo'[d])
  BY DEF Range
<1>2. OnItsWay(d, op)' = OnItsWay(d, op)
  BY DEF OnItsWay
<1>3. OwesAck(op)' = OwesAck(op)
  BY DEF OwesAck
<1> HIDE DEF WithKafka, IsStored, Reported, AtReader, InHand, OnItsWay, OwesAck
<1> QED
  BY <1>1, <1>2, <1>3 DEF RecordInv

LEMMA RecordRead ==
    ASSUME TypeInv, NEW c \in Conns, ReadMessage(c), UNCHANGED <<ackVars, ackDue>>,
           NEW d \in Conns, NEW op \in Op, RecordInv(d, op)
    PROVE  RecordInv(d, op)'
<1>1. /\ Len(received[c]) \in Nat /\ Len(received'[c]) = Len(received[c]) + 1
      /\ AboutMessage(todo'[c], Len(received'[c]))
      /\ \A e \in Conns : e # c => todo'[e] = todo[e] /\ received'[e] = received[e]
  BY ReadFacts DEF TypeInv
<1>2. op.msg \in Nat
  BY DEF Op
<1>3. op.msg <= Len(received[c]) => op \notin Range(todo'[c])
  BY <1>1, <1>2 DEF AboutMessage, Range
<1>4. op.msg <= Len(received[c]) => op.msg <= Len(received'[c])
  BY <1>1, <1>2
<1> QED
  BY <1>1, <1>3, <1>4, RecordFrame
  DEF ackVars, WithKafka, IsStored, Reported, AtReader, InHand, Record

(* An answer handed over, or a Produce call that nobody acknowledges. *)
LEMMA RecordDone ==
    ASSUME TypeInv, NEW c \in Conns, ReaderInv(c), ReaderResponds(c) \/ Produce(c),
           UNCHANGED <<ackVars, ackDue>>,
           NEW d \in Conns, NEW op \in Op, RecordInv(d, op)
    PROVE  RecordInv(d, op)'
<1>1. /\ Range(todo'[c]) \subseteq Range(todo[c])
      /\ UNCHANGED received /\ \A e \in Conns : e # c => todo'[e] = todo[e]
  BY DoneFacts DEF TypeInv
<1>2. UNCHANGED ackDue
  OBVIOUS
<1> QED
  BY <1>1, <1>2, RecordFrame
  DEF ackVars, WithKafka, IsStored, Reported, AtReader, InHand, Record

(* What an accepted Produce call changes. *)
LEMMA AcceptedFacts ==
    ASSUME TypeInv, NEW c \in Conns, ReaderInv(c), ProduceAccepted(c),
           \A op \in Op : RecordInv(c, op)
    PROVE  LET o == Head(todo[c])
           IN  /\ o \in Op /\ OwesAck(o) /\ o.msg = Len(received[c])
               /\ o \notin ackDue[c] /\ ~WithKafka(c, o) /\ ~IsStored(c, o) /\ ~OnItsWay(c, o)
               /\ o \notin Range(todo'[c]) /\ Range(todo'[c]) \subseteq Range(todo[c])
               /\ ackDue' = [ackDue EXCEPT ![c] = ackDue[c] \cup {o}]
               /\ UNCHANGED <<kafkaEvent, handler, received>>
               /\ \A e \in Conns : e # c => todo'[e] = todo[e]
               /\ sendingAck[c] = <<>>
               /\ \/ /\ inflight' = inflight \cup {Record(c, o)}
                     /\ UNCHANGED <<sendingAck, stored>>
                  \/ /\ stored' = stored \cup {Record(c, o)}
                     /\ sendingAck' = [sendingAck EXCEPT ![c] = <<o>>] /\ UNCHANGED inflight
<1> DEFINE o == Head(todo[c])
<1>1. /\ Produce(c) /\ sendingAck[c] = <<>> /\ o \in ackDue'[c]
      /\ UNCHANGED <<kafkaEvent, handler>>
      /\ \/ /\ inflight' = inflight \cup {Record(c, o)}
            /\ UNCHANGED <<sendingAck, stored>>
         \/ /\ stored' = stored \cup {Record(c, o)}
            /\ sendingAck' = [sendingAck EXCEPT ![c] = <<o>>] /\ UNCHANGED inflight
  BY DEF ProduceAccepted, Running, Record
<1>2. /\ o \in Op /\ o \in Range(todo[c]) /\ o.msg = Len(received[c])
      /\ Range(todo'[c]) \subseteq Range(todo[c])
      /\ o.do = "produce" => o \notin Range(todo'[c])
      /\ UNCHANGED received /\ \A e \in Conns : e # c => todo'[e] = todo[e]
  BY <1>1, DoneFacts DEF TypeInv
<1>3. /\ o \notin ackDue[c] /\ ~WithKafka(c, o) /\ ~IsStored(c, o) /\ ~OnItsWay(c, o)
  BY <1>2 DEF RecordInv
<1>4. o.do = "produce"
  BY <1>1 DEF Produce
<1>5. PICK accepted \in {FALSE, OwesAck(o)} :
          ackDue' = [ackDue EXCEPT ![c] = IF accepted THEN @ \cup {o} ELSE @]
  BY <1>1 DEF Produce
<1>6. ackDue \in [Conns -> SUBSET Op]
  BY DEF TypeInv, TypeOK
<1>7. accepted
  <2> SUFFICES ASSUME ~accepted PROVE FALSE
    OBVIOUS
  <2>1. ackDue'[c] = ackDue[c]
    BY <1>5, <1>6
  <2> QED
    BY <1>1, <1>3, <2>1
<1>8. ackDue' = [ackDue EXCEPT ![c] = ackDue[c] \cup {o}]
  BY <1>5, <1>7
<1>9. OwesAck(o)
  BY <1>7
<1> QED
  BY <1>1, <1>2, <1>3, <1>4, <1>8, <1>9

LEMMA RecordAccepted ==
    ASSUME TypeInv, NEW c \in Conns, ReaderInv(c), ProduceAccepted(c),
           \A e \in Conns, o \in Op : RecordInv(e, o),
           NEW d \in Conns, NEW op \in Op
    PROVE  RecordInv(d, op)'
<1> DEFINE o == Head(todo[c])
<1>1. /\ o \in Op /\ OwesAck(o) /\ o.msg = Len(received[c])
      /\ ~WithKafka(c, o) /\ ~IsStored(c, o) /\ ~OnItsWay(c, o)
      /\ o \notin Range(todo'[c]) /\ Range(todo'[c]) \subseteq Range(todo[c])
      /\ ackDue' = [ackDue EXCEPT ![c] = ackDue[c] \cup {o}]
      /\ UNCHANGED <<kafkaEvent, handler, received>>
      /\ \A e \in Conns : e # c => todo'[e] = todo[e]
      /\ sendingAck[c] = <<>>
  BY AcceptedFacts
<1>2. \/ inflight' = inflight \cup {Record(c, o)} /\ UNCHANGED <<sendingAck, stored>>
      \/ /\ stored' = stored \cup {Record(c, o)}
         /\ sendingAck' = [sendingAck EXCEPT ![c] = <<o>>] /\ UNCHANGED inflight
  BY AcceptedFacts
<1>3. /\ ackDue \in [Conns -> SUBSET Op] /\ sendingAck \in [Conns -> Seq(Op)]
      /\ Len(received[c]) \in Nat /\ RecordInv(d, op)
  BY DEF TypeInv, TypeOK, PathInv
<1> HIDE DEF o
<1>4. /\ \A e \in Conns : e # c => ackDue'[e] = ackDue[e]
      /\ ackDue'[c] = ackDue[c] \cup {o}
  BY <1>1, <1>3
<1>5. \A e : <<e>> # <<>>
  BY SingleFull
<1>6. /\ WithKafka(d, op)' <=> Record(d, op) \in inflight'
      /\ IsStored(d, op)' <=> Record(d, op) \in stored'
      /\ AtReader(d, op)' <=> sendingAck'[d] = <<op>>
      /\ Reported(d, op)' = Reported(d, op) /\ InHand(d, op)' = InHand(d, op)
  BY <1>1 DEF WithKafka, IsStored, AtReader, Reported, InHand, Record
<1>7. CASE d # c \/ op # o
  <2>1. Record(d, op) # Record(c, o)
    BY <1>7, RecordEta
  <2>2. WithKafka(d, op)' = WithKafka(d, op) /\ IsStored(d, op)' = IsStored(d, op)
    BY <1>2, <1>6, <2>1 DEF WithKafka, IsStored
  <2>3. AtReader(d, op)' = AtReader(d, op)
    <3>1. d # c => sendingAck'[d] = sendingAck[d]
      BY <1>2, <1>3
    <3>2. d = c => sendingAck[d] # <<op>> /\ sendingAck'[d] # <<op>>
      BY <1>1, <1>2, <1>3, <1>5, <1>7, SingleEq
    <3> QED
      BY <1>6, <3>1, <3>2 DEF AtReader
  <2>4. (op \in ackDue[d])' = (op \in ackDue[d])
    BY <1>4, <1>7
  <2>5. op \notin Range(todo[d]) => op \notin Range(todo'[d])
    BY <1>1
  <2> QED
    BY <1>1, <1>3, <1>6, <2>2, <2>3, <2>4, <2>5, RecordFrame
<1>8. CASE d = c /\ op = o
  <2>1. /\ ~Reported(d, op)' /\ ~InHand(d, op)' /\ op \in ackDue'[d]
        /\ op.msg <= Len(received'[d]) /\ op \notin Range(todo'[d]) /\ OwesAck(op)
    BY <1>1, <1>3, <1>4, <1>6, <1>8 DEF OnItsWay
  <2>2. \/ WithKafka(d, op)' /\ ~IsStored(d, op)' /\ ~AtReader(d, op)'
        \/ ~WithKafka(d, op)' /\ IsStored(d, op)' /\ AtReader(d, op)'
    BY <1>1, <1>2, <1>3, <1>5, <1>6, <1>8 DEF WithKafka, IsStored
  <2>3. (op \notin Range(todo[d]))' <=> op \notin Range(todo'[d])
    BY DEF Range
  <2> QED
    BY <2>1, <2>2, <2>3 DEF RecordInv, OnItsWay, OwesAck
<1> QED
  BY <1>7, <1>8

LEMMA RecordReported ==
    ASSUME TypeInv, DeliveryReport, NEW d \in Conns, NEW op \in Op, RecordInv(d, op)
    PROVE  RecordInv(d, op)'
<1> PICK r \in inflight :
        /\ inflight' = inflight \ {r}
        /\ \/ kafkaEvent' = <<r>> /\ stored' = stored \cup {r} /\ UNCHANGED ackDue
           \/ /\ ackDue' = [ackDue EXCEPT ![r.conn] = @ \ {r.op}]
              /\ UNCHANGED <<kafkaEvent, stored>>
  BY DEF DeliveryReport, sessionVars, vars
<1>1. /\ kafkaEvent = <<>> /\ UNCHANGED <<sendingAck, handler>> /\ UNCHANGED <<todo, received>>
  BY DEF DeliveryReport, sessionVars, vars, readerVars
<1>2. /\ r.conn \in Conns /\ r.op \in Op /\ r = Record(r.conn, r.op)
      /\ ackDue \in [Conns -> SUBSET Op]
  BY RecordEta DEF TypeInv, TypeOK, PathInv
<1>3. /\ WithKafka(d, op)' <=> Record(d, op) \in inflight'
      /\ IsStored(d, op)' <=> Record(d, op) \in stored'
      /\ Reported(d, op)' <=> kafkaEvent' = <<Record(d, op)>>
      /\ AtReader(d, op)' = AtReader(d, op) /\ InHand(d, op)' = InHand(d, op)
      /\ ~Reported(d, op)
  BY <1>1, SingleFull DEF WithKafka, IsStored, AtReader, Reported, InHand, Record
<1>4. CASE Record(d, op) # r
  <2>1. WithKafka(d, op)' = WithKafka(d, op) /\ IsStored(d, op)' = IsStored(d, op)
    BY <1>3, <1>4 DEF WithKafka, IsStored
  <2>2. Reported(d, op)' = Reported(d, op)
    <3>1. kafkaEvent' # <<Record(d, op)>> /\ kafkaEvent # <<Record(d, op)>>
      BY <1>1, <1>3, <1>4, SingleEq, SingleFull
    <3> QED
      BY <1>3, <3>1 DEF Reported
  <2>3. (op \in ackDue[d])' = (op \in ackDue[d])
    <3>1. d # r.conn \/ op # r.op
      BY <1>2, <1>4
    <3> QED
      BY <1>2, <3>1
  <2> QED
    BY <1>1, <1>3, <2>1, <2>2, <2>3, RecordFrame
<1>5. CASE Record(d, op) = r
  <2>1. d = r.conn /\ op = r.op
    BY <1>5, RecordEta
  <2>2. /\ WithKafka(d, op) /\ ~IsStored(d, op) /\ ~OnItsWay(d, op) /\ op \in ackDue[d]
        /\ op.msg <= Len(received[d]) /\ op \notin Range(todo[d]) /\ OwesAck(op)
    BY <1>5 DEF RecordInv, WithKafka
  <2>3. /\ ~WithKafka(d, op)' /\ ~AtReader(d, op)' /\ ~InHand(d, op)'
    BY <1>3, <1>5, <2>2 DEF OnItsWay
  <2>4. /\ (op \notin Range(todo[d]))' <=> op \notin Range(todo[d])
        /\ (op.msg <= Len(received[d]))' <=> op.msg <= Len(received[d])
    BY <1>1 DEF Range
  <2>5. CASE kafkaEvent' = <<r>> /\ stored' = stored \cup {r} /\ UNCHANGED ackDue
    BY <1>3, <1>5, <2>2, <2>3, <2>4, <2>5 DEF RecordInv, OnItsWay, OwesAck
  <2>6. CASE ackDue' = [ackDue EXCEPT ![r.conn] = @ \ {r.op}] /\ UNCHANGED <<kafkaEvent, stored>>
    <3>1. ~Reported(d, op)' /\ ~IsStored(d, op)' /\ op \notin ackDue'[d]
      BY <1>2, <1>3, <2>1, <2>2, <2>6 DEF Reported, IsStored
    <3> QED
      BY <2>2, <2>3, <2>4, <3>1 DEF RecordInv, OnItsWay, OwesAck
  <2> QED
    BY <2>5, <2>6
<1> QED
  BY <1>4, <1>5

(* handleAcks takes a record, looks for its socket and lets go of it. *)
LetsGo(c, op) ==
    /\ OnItsWay(c, op)' => OnItsWay(c, op)
    /\ op \in ackDue'[c] => op \in ackDue[c]
    /\ op \in ackDue'[c] <=> OnItsWay(c, op)' \/ WithKafka(c, op)
    /\ ~(Reported(c, op) /\ AtReader(c, op))'
    /\ ~(Reported(c, op) /\ InHand(c, op))'
    /\ ~(AtReader(c, op) /\ InHand(c, op))'
    /\ UNCHANGED <<todo, received, inflight, stored>>

LEMMA HandledFacts ==
    ASSUME TypeInv, handleAcks, NEW d \in Conns, NEW op \in Op, RecordInv(d, op)
    PROVE  LetsGo(d, op)
<1>1. /\ UNCHANGED <<todo, received, inflight, stored>>
  BY DEF handleAcks, ReceiveAckFromReader, ReceiveAckFromKafka, HandlerFindsSocket,
         HandlerMisses, HandlerResponds, sessionVars, vars, readerVars
<1>2. /\ ackDue \in [Conns -> SUBSET Op] /\ sendingAck \in [Conns -> Seq(Op)]
      /\ \A c \in Conns : Len(sendingAck[c]) <= 1
      /\ kafkaEvent \in Seq(OwedRecords) /\ Len(kafkaEvent) <= 1
      /\ handler \in Seq(Held) /\ Len(handler) <= 1
  BY DEF TypeInv, TypeOK, PathInv
<1>3. ASSUME NEW r \in OwedRecords, handler' = Holding(r), handler = <<>>
      PROVE  /\ InHand(d, op)' <=> r = Record(d, op)
             /\ ~InHand(d, op)
  <2>1. /\ handler' # <<>> /\ Head(handler').conn = r.conn /\ Head(handler').op = r.op
    BY <1>3 DEF Holding
  <2>2. InHand(d, op)' <=> r.conn = d /\ r.op = op
    BY <2>1 DEF InHand
  <2> QED
    BY <1>3, <2>2, RecordEta DEF InHand
<1>4. ASSUME NEW c \in Conns, ReceiveAckFromReader(c) PROVE LetsGo(d, op)
  <2> DEFINE r == Record(c, Head(sendingAck[c]))
  <2>1. /\ handler = <<>> /\ sendingAck[c] # <<>> /\ handler' = Holding(r)
        /\ sendingAck' = [sendingAck EXCEPT ![c] = <<>>]
        /\ UNCHANGED <<kafkaEvent, ackDue>>
    BY <1>4 DEF ReceiveAckFromReader, Record, sessionVars, vars
  <2>2. /\ sendingAck[c] = <<Head(sendingAck[c])>> /\ Head(sendingAck[c]) \in Op
    BY <1>2, <2>1, Single
  <2>3. r \in OwedRecords
    BY <2>2 DEF Record, OwedRecords
  <2>4. (InHand(d, op)' <=> r = Record(d, op)) /\ ~InHand(d, op)
    BY <1>3, <2>1, <2>3
  <2>5. r = Record(d, op) <=> c = d /\ Head(sendingAck[c]) = op
    BY RecordEta
  <2>6. InHand(d, op)' => AtReader(d, op) /\ ~AtReader(d, op)'
    BY <1>2, <2>1, <2>2, <2>4, <2>5, SingleFull DEF AtReader
  <2>7. AtReader(d, op)' => AtReader(d, op)
    BY <1>2, <2>1, SingleFull DEF AtReader
  <2>8. AtReader(d, op) => AtReader(d, op)' \/ InHand(d, op)'
    <3>1. c # d => sendingAck'[d] = sendingAck[d]
      BY <1>2, <2>1
    <3>2. c = d /\ AtReader(d, op) => InHand(d, op)'
      BY <2>2, <2>4, <2>5, SingleEq DEF AtReader
    <3> QED
      BY <3>1, <3>2 DEF AtReader
  <2>9. Reported(d, op)' = Reported(d, op)
    BY <2>1 DEF Reported, Record
  <2> QED
    BY <1>1, <2>1, <2>4, <2>6, <2>7, <2>8, <2>9 DEF RecordInv, OnItsWay, LetsGo
<1>5. CASE ReceiveAckFromKafka
  <2>1. /\ handler = <<>> /\ kafkaEvent # <<>> /\ handler' = Holding(Head(kafkaEvent))
        /\ kafkaEvent' = <<>> /\ UNCHANGED <<sendingAck, ackDue>>
    BY <1>5 DEF ReceiveAckFromKafka, sessionVars, vars
  <2>2. kafkaEvent = <<Head(kafkaEvent)>> /\ Head(kafkaEvent) \in OwedRecords
    BY <1>2, <2>1, Single
  <2>3. (InHand(d, op)' <=> Head(kafkaEvent) = Record(d, op)) /\ ~InHand(d, op)
    BY <1>3, <2>1, <2>2
  <2>4. InHand(d, op)' <=> Reported(d, op)
    BY <2>2, <2>3, SingleEq DEF Reported
  <2>5. ~Reported(d, op)' /\ AtReader(d, op)' = AtReader(d, op)
    BY <2>1, SingleFull DEF Reported, AtReader
  <2> QED
    BY <1>1, <2>1, <2>3, <2>4, <2>5 DEF RecordInv, OnItsWay, LetsGo
<1>6. CASE HandlerFindsSocket
  <2>1. /\ handler # <<>> /\ UNCHANGED <<kafkaEvent, sendingAck, ackDue>>
        /\ \E s : handler' = <<[Head(handler) EXCEPT !.socket = s]>>
    BY <1>6 DEF HandlerFindsSocket, Looking, sessionVars, vars
  <2>2. Head(handler) \in Held
    BY <1>2, <2>1
  <2>3. /\ handler' # <<>> /\ Head(handler').conn = Head(handler).conn
        /\ Head(handler').op = Head(handler).op
    BY <2>1, <2>2 DEF Held
  <2>4. InHand(d, op)' = InHand(d, op)
    BY <2>1, <2>3 DEF InHand
  <2>5. Reported(d, op)' = Reported(d, op) /\ AtReader(d, op)' = AtReader(d, op)
    BY <2>1 DEF Reported, AtReader, Record
  <2> QED
    BY <1>1, <2>1, <2>4, <2>5 DEF RecordInv, OnItsWay, LetsGo
<1>7. CASE HandlerMisses \/ HandlerResponds
  <2> DEFINE h == Head(handler)
  <2>1. /\ handler # <<>> /\ handler' = <<>> /\ UNCHANGED <<kafkaEvent, sendingAck>>
        /\ ackDue' = [ackDue EXCEPT ![h.conn] = @ \ {h.op}]
    BY <1>7 DEF HandlerMisses, HandlerResponds, Looking
  <2>2. h \in Held
    BY <1>2, <2>1
  <2>3. h.conn \in Conns
    BY <2>2 DEF Held
  <2>4. ~InHand(d, op)' /\ Reported(d, op)' = Reported(d, op) /\ AtReader(d, op)' = AtReader(d, op)
    BY <2>1 DEF InHand, Reported, AtReader, Record
  <2>5. op \in ackDue'[d] <=> op \in ackDue[d] /\ ~InHand(d, op)
    BY <1>2, <2>1, <2>3 DEF InHand
  <2> QED
    BY <1>1, <2>4, <2>5 DEF RecordInv, OnItsWay, LetsGo
<1> QED
  BY <1>4, <1>5, <1>6, <1>7 DEF handleAcks

LEMMA RecordHandled ==
    ASSUME TypeInv, handleAcks, NEW d \in Conns, NEW op \in Op, RecordInv(d, op)
    PROVE  RecordInv(d, op)'
<1>1. LetsGo(d, op)
  BY HandledFacts
<1>2. /\ WithKafka(d, op)' = WithKafka(d, op) /\ IsStored(d, op)' = IsStored(d, op)
      /\ (op \notin Range(todo[d]))' <=> op \notin Range(todo[d])
      /\ (op.msg <= Len(received[d]))' <=> op.msg <= Len(received[d])
  BY <1>1 DEF LetsGo, WithKafka, IsStored, Record, Range
<1> QED
  BY <1>1, <1>2 DEF RecordInv, LetsGo, OwesAck

----------------------------------------------------------------------------
(* The socket handleAcks answers on.                                       *)

LEMMA SameUUIDStep ==
    ASSUME TypeInv, MapInv, SameUUID, ServerNext
    PROVE  SameUUID'
<1>1. CASE UNCHANGED handler
  BY <1>1 DEF SameUUID
<1>2. ASSUME ~handleAcks PROVE UNCHANGED handler
  BY <1>2 DEF ServerNext, Accept, ServeBinaryWs, Upgrade, Reject, registerSocket,
              EventConnected, deregisterSocket, EventDisconnected, SessionStep,
              ProduceUnacknowledged, ProduceAccepted, DeliveryReport, ShutdownSignal,
              ListenerFails, DrainTimeout, gracefulShutdown, CloseAllSockets,
              waitForSocketsDrain, CloseProducers, Exit, RequestClose, ackVars
<1>3. ASSUME \/ \E c \in Conns : ReceiveAckFromReader(c)
             \/ ReceiveAckFromKafka
      PROVE  SameUUID'
  BY <1>3 DEF ReceiveAckFromReader, ReceiveAckFromKafka, Holding, SameUUID
<1>4. CASE HandlerMisses \/ HandlerResponds
  BY <1>4 DEF HandlerMisses, HandlerResponds, SameUUID
<1>5. CASE HandlerFindsSocket
  <2> DEFINE h == Head(handler)
             s == sockets[UUID[h.conn]]
  <2>1. /\ handler # <<>> /\ UUID[h.conn] \in DOMAIN sockets
        /\ handler' = <<[h EXCEPT !.socket = s]>>
    BY <1>5 DEF HandlerFindsSocket, Looking, Registry!Connected, Registry!GetSocket
  <2>2. h \in Held
    BY <2>1 DEF TypeInv, PathInv
  <2>3. h.conn \in Conns
    BY <2>2 DEF Held
  <2>4. UUID[s] = UUID[h.conn]
    BY <2>1, MapBounds
  <2>5. Head(handler').socket = s /\ Head(handler').conn = h.conn
    BY <2>1, <2>2 DEF Held
  <2> QED
    BY <2>4, <2>5 DEF SameUUID
<1> QED
  BY <1>1, <1>2, <1>3, <1>4, <1>5 DEF handleAcks

(* What HandlerResponds does: one ack, of a stored record, on a connection with
   the UUID of the vehicle's own. *)
LEMMA RespondFacts ==
    ASSUME TypeInv, SameUUID, HandlerResponds,
           \A c \in Conns, op \in Op : RecordInv(c, op)
    PROVE  \E c \in Conns, e \in Conns, op \in Op :
               /\ UUID[e] = UUID[c]
               /\ InHand(c, op) /\ Len(handler) <= 1 /\ handler' = <<>>
               /\ IsStored(c, op) /\ op \in ackDue[c] /\ OwesAck(op)
               /\ AckOf(op) \in SocketMessage /\ ~DirectAnswer(AckOf(op))
               /\ respondToVehicle(e, AckOf(op))
               /\ HandedOver(e)' = Append(HandedOver(e), AckOf(op))
               /\ \A d \in Conns : d # e => HandedOver(d)' = HandedOver(d)
               /\ ackDue' = [ackDue EXCEPT ![c] = @ \ {op}]
               /\ UNCHANGED <<readerVars, writerVars, ws, deadline, stopped, reasonVars>>
               /\ UNCHANGED <<sendingAck, inflight, kafkaEvent, stored>>
<1> PICK c, e, op : c = Head(handler).conn /\ e = Head(handler).socket /\ op = Head(handler).op
  OBVIOUS
<1>1. /\ handler # <<>> /\ e # NoConn /\ handler' = <<>>
      /\ respondToVehicle(e, AckOf(op))
      /\ ackDue' = [ackDue EXCEPT ![c] = @ \ {op}]
      /\ UNCHANGED <<readerVars, writerVars, ws, deadline, stopped, reasonVars>>
      /\ UNCHANGED <<sendingAck, inflight, kafkaEvent, stored>>
  BY DEF HandlerResponds, Looking, AckOf
<1>2. Head(handler) \in Held /\ Len(handler) <= 1
  BY <1>1 DEF TypeInv, PathInv
<1>3. c \in Conns /\ e \in Conns /\ op \in Op /\ UUID[e] = UUID[c] /\ InHand(c, op)
  BY <1>1, <1>2 DEF Held, SameUUID, InHand
<1>4. IsStored(c, op) /\ op \in ackDue[c] /\ OwesAck(op)
  BY <1>3 DEF RecordInv, OnItsWay
<1>5. AckOf(op) \in SocketMessage /\ ~DirectAnswer(AckOf(op))
  BY <1>3, <1>4, AckOfType DEF OwesAck
<1>6. /\ HandedOver(e)' = Append(HandedOver(e), AckOf(op))
      /\ \A d \in Conns : d # e => HandedOver(d)' = HandedOver(d)
  <2>1. UNCHANGED <<sent, writing>> /\ TypeOK
    BY <1>1 DEF writerVars, TypeInv
  <2> QED
    BY <1>1, <1>3, <1>5, <2>1, OneMore
<1> QED
  BY <1>1, <1>2, <1>3, <1>4, <1>5, <1>6

(* The reader's own answers are none of a dispatcher's. *)
LEMMA DirectFacts ==
    ASSUME TypeInv, NEW c \in Conns, ReaderInv(c), ReaderResponds(c)
    PROVE  \E answer \in SocketMessage :
               /\ DirectAnswer(answer) /\ HandedOver(c)' = Append(HandedOver(c), answer)
               /\ \A d \in Conns : d # c => HandedOver(d)' = HandedOver(d)
<1> DEFINE op == Head(todo[c])
           answer == [kind |-> op.do, msg |-> op.msg, txType |-> op.txType]
<1>1. TypeOK
  BY DEF TypeInv
<1>2. /\ op.do \in Answers /\ respondToVehicle(c, answer) /\ UNCHANGED <<sent, writing>>
  BY DEF ReaderResponds, writerVars
<1>3. op \in Op /\ (op.do = "ack" => ~reliableAck(op.txType))
  BY <1>1, DoneFacts
<1>4. answer \in SocketMessage
  BY <1>2, <1>3 DEF Op, SocketMessage
<1>5. DirectAnswer(answer)
  BY <1>3 DEF DirectAnswer
<1> HIDE DEF answer
<1> QED
  BY <1>1, <1>2, <1>4, <1>5, OneMore

----------------------------------------------------------------------------
(* Counting the acks.                                                      *)

(* A stored record that is not on its way to an answer never is again. *)
LEMMA SettledStays ==
    ASSUME TypeInv, ServerNext, \A c \in Conns : ReaderInv(c),
           \A c \in Conns, o \in Op : RecordInv(c, o),
           NEW d \in Conns, NEW op \in Op, IsStored(d, op), ~OnItsWay(d, op)
    PROVE  IsStored(d, op)' /\ ~OnItsWay(d, op)'
<1>1. CASE UNCHANGED ackVars
  BY <1>1 DEF ackVars, IsStored, OnItsWay, Reported, AtReader, InHand, Record
<1>2. ASSUME NEW c \in Conns, ProduceAccepted(c)
      PROVE  IsStored(d, op)' /\ ~OnItsWay(d, op)'
  <2> DEFINE o == Head(todo[c])
  <2>1. /\ ~IsStored(c, o) /\ UNCHANGED <<kafkaEvent, handler>>
        /\ \/ UNCHANGED <<sendingAck, stored>>
           \/ /\ stored' = stored \cup {Record(c, o)}
              /\ sendingAck' = [sendingAck EXCEPT ![c] = <<o>>]
    BY <1>2, AcceptedFacts
  <2> HIDE DEF o
  <2>2. d # c \/ op # o
    BY <2>1
  <2>3. sendingAck'[d] = <<op>> => sendingAck[d] = <<op>>
    <3>1. sendingAck \in [Conns -> Seq(Op)]
      BY DEF TypeInv, PathInv
    <3> QED
      BY <2>1, <2>2, <3>1, SingleEq
  <2>4. IsStored(d, op)'
    BY <2>1 DEF IsStored, Record
  <2>5. ~OnItsWay(d, op)'
    BY <2>1, <2>3 DEF OnItsWay, Reported, AtReader, InHand, Record
  <2> QED
    BY <2>4, <2>5
<1>3. CASE DeliveryReport
  <2> PICK r \in inflight :
          \/ kafkaEvent' = <<r>> /\ stored' = stored \cup {r}
          \/ UNCHANGED <<kafkaEvent, stored>>
    BY <1>3 DEF DeliveryReport
  <2>1. UNCHANGED <<sendingAck, handler>>
    BY <1>3 DEF DeliveryReport
  <2>2. r # Record(d, op)
    BY DEF RecordInv, WithKafka
  <2>3. kafkaEvent' = <<Record(d, op)>> => kafkaEvent = <<Record(d, op)>>
    BY <2>2, SingleEq
  <2>4. IsStored(d, op)'
    BY DEF IsStored, Record
  <2>5. ~OnItsWay(d, op)'
    BY <2>1, <2>3 DEF OnItsWay, Reported, AtReader, InHand, Record
  <2> QED
    BY <2>4, <2>5
<1>4. CASE handleAcks
  <2>1. LetsGo(d, op)
    BY <1>4, HandledFacts
  <2> QED
    BY <2>1 DEF LetsGo, IsStored, Record
<1> QED
  BY <1>1, <1>2, <1>3, <1>4, StepKinds DEF ackVars

LEMMA StoredFinite ==
    ASSUME TypeInv, ServerNext, IsFiniteSet(stored), \A c \in Conns : ReaderInv(c),
           \A c \in Conns, o \in Op : RecordInv(c, o)
    PROVE  IsFiniteSet(stored') /\ stored \subseteq stored'
<1>1. ASSUME NEW r, stored' = stored \cup {r} PROVE IsFiniteSet(stored') /\ stored \subseteq stored'
  BY <1>1, FS_AddElement
<1>2. CASE UNCHANGED stored
  BY <1>2
<1>3. ASSUME NEW c \in Conns, ProduceAccepted(c)
      PROVE  UNCHANGED stored \/ \E r : stored' = stored \cup {r}
  BY <1>3 DEF ProduceAccepted
<1>4. ASSUME DeliveryReport
      PROVE  UNCHANGED stored \/ \E r : stored' = stored \cup {r}
  BY <1>4 DEF DeliveryReport
<1>5. ASSUME handleAcks PROVE UNCHANGED stored
  BY <1>5 DEF handleAcks, ReceiveAckFromReader, ReceiveAckFromKafka, HandlerFindsSocket,
              HandlerMisses, HandlerResponds
<1> QED
  BY <1>1, <1>2, <1>3, <1>4, <1>5, StepKinds DEF ackVars

(* The positions of the reliable acks for message i in a sequence of answers. *)
GivenIn(s, i) == {k \in DOMAIN s : ~DirectAnswer(s[k]) /\ s[k].msg = i}

LEMMA GivenFinite ==
    ASSUME NEW S, NEW s \in Seq(S), NEW i
    PROVE  IsFiniteSet(GivenIn(s, i)) /\ Cardinality(GivenIn(s, i)) \in Nat
<1>1. DOMAIN s = 1 .. Len(s) /\ Len(s) \in Nat
  OBVIOUS
<1>2. IsFiniteSet(1 .. Len(s))
  BY <1>1, FS_Interval
<1>3. GivenIn(s, i) \subseteq 1 .. Len(s)
  BY <1>1 DEF GivenIn
<1> QED
  BY <1>2, <1>3, FS_Subset, FS_CardinalityType

LEMMA GivenAppend ==
    ASSUME NEW S, NEW s \in Seq(S), NEW a \in S, NEW i
    PROVE  /\ DirectAnswer(a) \/ a.msg # i => GivenIn(Append(s, a), i) = GivenIn(s, i)
           /\ Cardinality(GivenIn(Append(s, a), i)) <= Cardinality(GivenIn(s, i)) + 1
<1>1. /\ DOMAIN Append(s, a) = 1 .. Len(s) + 1 /\ DOMAIN s = 1 .. Len(s) /\ Len(s) \in Nat
      /\ \A k \in 1 .. Len(s) : Append(s, a)[k] = s[k]
      /\ Append(s, a)[Len(s) + 1] = a
  OBVIOUS
<1>2. DirectAnswer(a) \/ a.msg # i => GivenIn(Append(s, a), i) = GivenIn(s, i)
  BY <1>1 DEF GivenIn
<1>3. GivenIn(Append(s, a), i) \in {GivenIn(s, i), GivenIn(s, i) \cup {Len(s) + 1}}
  BY <1>1 DEF GivenIn
<1>4. /\ IsFiniteSet(GivenIn(s, i)) /\ Cardinality(GivenIn(s, i)) \in Nat
  BY GivenFinite
<1> DEFINE G == GivenIn(s, i)
           x == Len(s) + 1
<1>5. Cardinality(G \cup {x}) \in {Cardinality(G), Cardinality(G) + 1}
  <2> HIDE DEF G, x
  <2>1. IsFiniteSet(G)
    BY <1>4 DEF G
  <2> QED
    BY <2>1, FS_AddElement
<1>6. Cardinality(G \cup {x}) <= Cardinality(G) + 1
  BY <1>4, <1>5
<1>7. Cardinality(GivenIn(Append(s, a), i)) <= Cardinality(GivenIn(s, i)) + 1
  <2>1. CASE GivenIn(Append(s, a), i) = G
    BY <1>4, <2>1
  <2>2. CASE GivenIn(Append(s, a), i) = G \cup {x}
    BY <1>6, <2>2
  <2> QED
    BY <1>3, <2>1, <2>2
<1> QED
  BY <1>2, <1>7

LEMMA SettledGrows ==
    ASSUME TypeInv, ServerNext, IsFiniteSet(stored), \A c \in Conns : ReaderInv(c),
           \A c \in Conns, o \in Op : RecordInv(c, o), NEW d \in Conns, NEW i
    PROVE  /\ Settled(d, i) \subseteq Settled(d, i)'
           /\ IsFiniteSet(Settled(d, i)) /\ IsFiniteSet(Settled(d, i)')
<1>1. IsFiniteSet(stored') /\ stored \subseteq OwedRecords
  BY StoredFinite DEF TypeInv, PathInv
<1>2. Settled(d, i) \subseteq stored /\ Settled(d, i)' \subseteq stored'
  BY DEF Settled
<1>3. ASSUME NEW r \in Settled(d, i) PROVE r \in Settled(d, i)'
  <2>1. r.op \in Op /\ r = Record(d, r.op) /\ r.op.msg = i /\ OwesAck(r.op)
    BY <1>1, <1>3, RecordEta DEF Settled
  <2> PICK o \in Op : o = r.op
    BY <2>1
  <2>2. IsStored(d, o) /\ ~OnItsWay(d, o)
    BY <1>3, <2>1 DEF Settled, IsStored
  <2>3. IsStored(d, o)' /\ ~OnItsWay(d, o)'
    BY <2>2, SettledStays
  <2>4. r \in stored' /\ r.conn = d
    BY <2>1, <2>3, RecordEta DEF IsStored, Record
  <2>5. r.op = o /\ OwesAck(o) /\ o.msg = i
    BY <2>1
  <2> QED
    BY <2>3, <2>4, <2>5 DEF Settled, OwesAck, OnItsWay, Reported, AtReader, InHand, Record
<1> QED
  BY <1>1, <1>2, <1>3, FS_Subset

(* An answer of handleAcks comes with one more settled record. *)
LEMMA SettledByAnswer ==
    ASSUME TypeInv, ServerNext, NEW c \in Conns, NEW op \in Op, RecordInv(c, op),
           InHand(c, op), Len(handler) <= 1, handler' = <<>>,
           UNCHANGED <<sendingAck, kafkaEvent, stored>>
    PROVE  /\ Record(c, op) \notin Settled(c, op.msg)
           /\ Record(c, op) \in Settled(c, op.msg)'
<1>1. IsStored(c, op) /\ OwesAck(op) /\ ~Reported(c, op) /\ ~AtReader(c, op)
  BY DEF RecordInv, OnItsWay
<1>2. ~Reported(c, op)' /\ ~AtReader(c, op)' /\ ~InHand(c, op)' /\ IsStored(c, op)'
  BY <1>1 DEF Reported, AtReader, InHand, IsStored, Record
<1>3. Record(c, op).conn = c /\ Record(c, op).op = op
  BY RecordEta
<1>4. Record(c, op) \notin Settled(c, op.msg)
  BY <1>3 DEF Settled, OnItsWay
<1>5. Record(c, op) \in Settled(c, op.msg)'
  BY <1>1, <1>2, <1>3 DEF Settled, OnItsWay, IsStored, OwesAck, Record
<1> QED
  BY <1>4, <1>5

LEMMA CountStep ==
    ASSUME TypeInv, ServerNext, SameUUID, CountInv, \A c \in Conns : ReaderInv(c),
           \A c \in Conns, o \in Op : RecordInv(c, o)
    PROVE  CountInv'
<1>1. IsFiniteSet(stored) /\ IsFiniteSet(stored')
  BY StoredFinite DEF CountInv
<1> SUFFICES ASSUME NEW d \in Conns, Unshared(d), NEW i \in Nat
             PROVE  Cardinality(Given(d, i)') <= Cardinality(Settled(d, i)')
  BY <1>1 DEF CountInv, Unshared
<1>2. /\ Settled(d, i) \subseteq Settled(d, i)'
      /\ IsFiniteSet(Settled(d, i)) /\ IsFiniteSet(Settled(d, i)')
  BY <1>1, SettledGrows
<1>3. /\ Cardinality(Settled(d, i)) \in Nat /\ Cardinality(Settled(d, i)') \in Nat
      /\ Cardinality(Settled(d, i)) <= Cardinality(Settled(d, i)')
  BY <1>2, FS_Subset, FS_CardinalityType
<1>4. /\ HandedOver(d) \in Seq(SocketMessage) /\ Given(d, i) = GivenIn(HandedOver(d), i)
      /\ Given(d, i)' = GivenIn(HandedOver(d)', i)
  BY HandedOverSeq DEF TypeInv, Given, GivenIn
<1>5. /\ Cardinality(Given(d, i)) \in Nat
      /\ Cardinality(Given(d, i)) <= Cardinality(Settled(d, i))
  BY <1>4, GivenFinite DEF CountInv
<1>6. CASE HandedOver(d)' = HandedOver(d)
  BY <1>3, <1>4, <1>5, <1>6
<1>7. ASSUME NEW c \in Conns, ReaderResponds(c), HandedOver(d)' # HandedOver(d)
      PROVE  Cardinality(Given(d, i)') <= Cardinality(Settled(d, i)')
  <2> PICK answer \in SocketMessage :
          /\ DirectAnswer(answer) /\ HandedOver(c)' = Append(HandedOver(c), answer)
          /\ \A e \in Conns : e # c => HandedOver(e)' = HandedOver(e)
    BY <1>7, DirectFacts
  <2>1. d = c
    BY <1>7
  <2>2. GivenIn(Append(HandedOver(d), answer), i) = GivenIn(HandedOver(d), i)
    BY <1>4, GivenAppend
  <2>3. Given(d, i)' = Given(d, i)
    BY <1>4, <2>1, <2>2
  <2> QED
    BY <1>3, <1>5, <2>3
<1>8. ASSUME HandlerResponds, HandedOver(d)' # HandedOver(d)
      PROVE  Cardinality(Given(d, i)') <= Cardinality(Settled(d, i)')
  <2> PICK c \in Conns, e \in Conns, op \in Op :
          /\ UUID[e] = UUID[c]
          /\ InHand(c, op) /\ Len(handler) <= 1 /\ handler' = <<>>
          /\ AckOf(op) \in SocketMessage
          /\ HandedOver(e)' = Append(HandedOver(e), AckOf(op))
          /\ \A f \in Conns : f # e => HandedOver(f)' = HandedOver(f)
          /\ UNCHANGED <<sendingAck, inflight, kafkaEvent, stored>>
    BY <1>8, RespondFacts
  <2>1. d = e /\ d = c
    BY <1>8 DEF Unshared
  <2>2. /\ AckOf(op).msg # i => Given(d, i)' = Given(d, i)
        /\ Cardinality(Given(d, i)') <= Cardinality(Given(d, i)) + 1
    <3>1. Given(d, i)' = GivenIn(Append(HandedOver(d), AckOf(op)), i)
      BY <1>4, <2>1
    <3>2. /\ AckOf(op).msg # i
              => GivenIn(Append(HandedOver(d), AckOf(op)), i) = GivenIn(HandedOver(d), i)
          /\ Cardinality(GivenIn(Append(HandedOver(d), AckOf(op)), i))
              <= Cardinality(GivenIn(HandedOver(d), i)) + 1
      BY <1>4, GivenAppend
    <3> QED
      BY <1>4, <3>1, <3>2
  <2>3. CASE op.msg # i
    <3>1. AckOf(op).msg # i
      BY <2>3 DEF AckOf
    <3> QED
      BY <1>3, <1>5, <2>2, <3>1
  <2>4. CASE op.msg = i
    <3>1. Record(d, op) \notin Settled(d, i) /\ Record(d, op) \in Settled(d, i)'
      BY <2>1, <2>4, SettledByAnswer
    <3>2. Cardinality(Settled(d, i) \cup {Record(d, op)}) = Cardinality(Settled(d, i)) + 1
      BY <1>2, <3>1, FS_AddElement
    <3>3. Settled(d, i) \cup {Record(d, op)} \subseteq Settled(d, i)'
      BY <1>2, <3>1
    <3>4. Cardinality(Settled(d, i)) + 1 <= Cardinality(Settled(d, i)')
      BY <1>2, <3>2, <3>3, FS_Subset
    <3>5. Given(d, i)' = GivenIn(Append(HandedOver(d), AckOf(op)), i)
      BY <1>4, <2>1
    <3>6. Cardinality(Given(d, i)') \in Nat
      <4>1. Append(HandedOver(d), AckOf(op)) \in Seq(SocketMessage)
        BY <1>4
      <4> QED
        BY <3>5, <4>1, GivenFinite
    <3> QED
      BY <1>3, <1>5, <2>2, <3>4, <3>6
  <2> QED
    BY <2>3, <2>4
<1> QED
  BY <1>6, <1>7, <1>8, StepKinds DEF SameAnswers

----------------------------------------------------------------------------
(* The invariant.                                                          *)

LEMMA RecordInvStep ==
    ASSUME TypeInv, ServerNext, \A c \in Conns : ReaderInv(c),
           \A c \in Conns, o \in Op : RecordInv(c, o), NEW d \in Conns, NEW op \in Op
    PROVE  RecordInv(d, op)'
<1>1. RecordInv(d, op)
  OBVIOUS
<1>2. CASE UNCHANGED <<ackVars, ackDue, todo, received>>
  BY <1>1, <1>2
  DEF ackVars, RecordInv, WithKafka, IsStored, OnItsWay, Reported, AtReader, InHand, Record,
      OwesAck, Range
<1>3. ASSUME NEW c \in Conns, ReadMessage(c), UNCHANGED <<ackVars, ackDue>>
      PROVE  RecordInv(d, op)'
  BY <1>1, <1>3, RecordRead
<1>4. ASSUME NEW c \in Conns, ReaderResponds(c), UNCHANGED ackVars
      PROVE  RecordInv(d, op)'
  <2>1. UNCHANGED ackDue
    BY <1>4 DEF ReaderResponds
  <2> QED
    BY <1>1, <1>4, <2>1, RecordDone
<1>5. ASSUME NEW c \in Conns, Produce(c), UNCHANGED <<ackVars, ackDue>>
      PROVE  RecordInv(d, op)'
  BY <1>1, <1>5, RecordDone
<1>6. ASSUME NEW c \in Conns, ProduceAccepted(c) PROVE RecordInv(d, op)'
  BY <1>6, RecordAccepted
<1>7. CASE DeliveryReport
  BY <1>1, <1>7, RecordReported
<1>8. CASE handleAcks
  BY <1>1, <1>8, RecordHandled
<1> QED
  BY <1>2, <1>3, <1>4, <1>5, <1>6, <1>7, <1>8, StepKinds

LEMMA AckInvInit == ServerInit => AckInv
<1> SUFFICES ASSUME ServerInit PROVE AckInv
  OBVIOUS
<1>1. ServerInv
  BY ServerInvInit
<1>2. ASSUME NEW c \in Conns PROVE ReaderInv(c)
  BY DEF ServerInit, Init, ReaderInv, AboutMessage, ProducesDiffer, DirectAcks, WriterWaits
<1>3. ASSUME NEW c \in Conns, NEW op \in Op PROVE RecordInv(c, op)
  <2>1. ~WithKafka(c, op) /\ ~IsStored(c, op) /\ ~Reported(c, op) /\ ~AtReader(c, op)
        /\ ~InHand(c, op)
    BY SingleFull DEF ServerInit, WithKafka, IsStored, Reported, AtReader, InHand
  <2>2. op \notin ackDue[c]
    BY DEF ServerInit, Init
  <2> QED
    BY <2>1, <2>2 DEF RecordInv, OnItsWay
<1>4. SameUUID
  BY DEF ServerInit, SameUUID
<1>5. CountInv
  <2>1. stored = {} /\ IsFiniteSet({}) /\ Cardinality({}) = 0
    BY FS_EmptySet DEF ServerInit
  <2> SUFFICES ASSUME NEW c \in Conns, NEW i \in Nat
               PROVE  Cardinality(Given(c, i)) <= Cardinality(Settled(c, i))
    BY <2>1 DEF CountInv
  <2>2. HandedOver(c) = <<>>
    BY ConcatEmptySeq DEF ServerInit, Init, HandedOver
  <2>3. Given(c, i) = {} /\ Settled(c, i) = {}
    BY <2>1, <2>2 DEF Given, Settled
  <2> QED
    BY <2>1, <2>3
<1> QED
  BY <1>1, <1>2, <1>3, <1>4, <1>5 DEF AckInv

LEMMA AckInvStep ==
    ASSUME AckInv, [ServerNext]_serverVars
    PROVE  AckInv'
<1>1. /\ ServerInv /\ TypeInv /\ MapInv /\ SameUUID /\ CountInv
      /\ \A c \in Conns : ReaderInv(c)
      /\ \A c \in Conns, op \in Op : RecordInv(c, op)
  BY DEF AckInv, ServerInv
<1>2. ServerInv'
  BY <1>1, ServerInvStep
<1>3. CASE ServerNext
  <2>1. \A c \in Conns : ReaderInv(c)'
    BY <1>1, <1>3, ReaderInvStep
  <2>2. \A c \in Conns, op \in Op : RecordInv(c, op)'
    BY <1>1, <1>3, RecordInvStep
  <2>3. SameUUID' /\ CountInv'
    BY <1>1, <1>3, SameUUIDStep, CountStep
  <2> QED
    BY <1>2, <2>1, <2>2, <2>3 DEF AckInv
<1>4. CASE UNCHANGED serverVars
  <2> USE <1>4 DEF serverVars, vars, ackVars
  <2>1. ASSUME NEW c \in Conns PROVE ReaderInv(c)'
    BY <1>1 DEF ReaderInv, AboutMessage, ProducesDiffer, DirectAcks, WriterWaits
  <2>2. ASSUME NEW c \in Conns, NEW op \in Op PROVE RecordInv(c, op)'
    <3>1. RecordInv(c, op)
      BY <1>1
    <3> QED
      BY <3>1
      DEF RecordInv, WithKafka, IsStored, OnItsWay, Reported, AtReader, InHand, Record, OwesAck,
          Range
  <2>3. SameUUID'
    BY <1>1 DEF SameUUID
  <2>4. ASSUME NEW c \in Conns, NEW i \in Nat
        PROVE  Given(c, i)' = Given(c, i) /\ Settled(c, i)' = Settled(c, i)
    BY DEF Given, HandedOver, Settled, OnItsWay, Reported, AtReader, InHand, Record, OwesAck,
           DirectAnswer
  <2>5. CountInv'
    BY <1>1, <2>4 DEF CountInv, Unshared
  <2> QED
    BY <1>2, <2>1, <2>2, <2>3, <2>5 DEF AckInv
<1> QED
  BY <1>3, <1>4

(* Where a record is decides what its vehicle is owed: the invariant behind
   every result about reliable acks, whatever UUIDs the vehicles choose. *)
THEOREM AckInvariant == ServerSpec => []AckInv
<1>1. AckInv /\ [ServerNext]_serverVars => AckInv'
  BY AckInvStep
<1> QED
  BY <1>1, AckInvInit, PTL DEF ServerSpec

(***************************************************************************)
(* Every reliable ack a connection gets stands for a record of its own that*)
(* the acknowledging dispatcher stored, and for one record only, unless the*)
(* vehicle shares its UUID.  Others that do share one take nothing from it.*)
(***************************************************************************)
THEOREM UnsharedAcksAreEarned ==
    ServerSpec => [](\A c \in Conns : Unshared(c) => AcksEarnedOn(c))
<1>1. AckInv => \A c \in Conns : Unshared(c) => AcksEarnedOn(c)
  <2> SUFFICES ASSUME AckInv, NEW c \in Conns, Unshared(c), NEW i \in 1 .. MaxMsgs
               PROVE  Cardinality(Given(c, i))
                        <= Cardinality({r \in stored : r.conn = c /\ r.op.msg = i /\ OwesAck(r.op)})
    BY DEF AcksEarnedOn, Given
  <2> DEFINE Owing == {r \in stored : r.conn = c /\ r.op.msg = i /\ OwesAck(r.op)}
  <2>1. i \in Nat /\ IsFiniteSet(stored)
    BY SocketAssumption DEF AckInv, CountInv
  <2>2. Cardinality(Given(c, i)) <= Cardinality(Settled(c, i))
    BY <2>1 DEF AckInv, CountInv
  <2>3. Settled(c, i) \subseteq Owing /\ Owing \subseteq stored
    BY DEF Settled
  <2>4. IsFiniteSet(Owing) /\ IsFiniteSet(Settled(c, i))
    BY <2>1, <2>3, FS_Subset
  <2>5. /\ Cardinality(Settled(c, i)) <= Cardinality(Owing)
        /\ Cardinality(Settled(c, i)) \in Nat /\ Cardinality(Owing) \in Nat
    BY <2>3, <2>4, FS_Subset, FS_CardinalityType
  <2>6. Cardinality(Given(c, i)) \in Nat
    <3>1. HandedOver(c) \in Seq(SocketMessage)
      BY HandedOverSeq DEF AckInv, ServerInv, TypeInv
    <3>2. Given(c, i) = GivenIn(HandedOver(c), i)
      BY DEF Given, GivenIn
    <3> QED
      BY <3>1, <3>2, GivenFinite
  <2> QED
    BY <2>2, <2>5, <2>6
<1> QED
  BY <1>1, AckInvariant, PTL

(* With distinct UUIDs that is every vehicle. *)
THEOREM AcksAreEarned ==
    ASSUME Registry!UniqueUUIDs
    PROVE  ServerSpec => []ReliableAcksAreEarned
<1>1. (\A c \in Conns : Unshared(c) => AcksEarnedOn(c)) => ReliableAcksAreEarned
  BY DEF Registry!UniqueUUIDs, Unshared, ReliableAcksAreEarned
<1> QED
  BY <1>1, UnsharedAcksAreEarned, PTL

----------------------------------------------------------------------------
(* The server implements what it is made of and what it promises.          *)

LEMMA RespondsAsSession ==
    ASSUME Registry!UniqueUUIDs, AckInv, HandlerResponds
    PROVE  Next
<1>1. TypeInv /\ SameUUID /\ \A c \in Conns, op \in Op : RecordInv(c, op)
  BY DEF AckInv, ServerInv
<1> PICK c \in Conns, op \in Op :
        /\ op \in ackDue[c] /\ respondToVehicle(c, AckOf(op))
        /\ ackDue' = [ackDue EXCEPT ![c] = @ \ {op}]
        /\ UNCHANGED <<readerVars, writerVars, ws, deadline, stopped, reasonVars>>
  BY <1>1, RespondFacts DEF Registry!UniqueUUIDs
<1>2. AckResponse(c)
  BY DEF AckResponse, AckOf
<1> QED
  BY <1>2 DEF Next, Outside

(***************************************************************************)
(* Each step of the server is a step of one session of SocketManager or    *)
(* leaves every session alone.  With a shared UUID it is not: handleAcks   *)
(* would answer on one session and settle the debt of another.             *)
(***************************************************************************)
THEOREM UsesSessions ==
    ASSUME Registry!UniqueUUIDs
    PROVE  ServerSpec => ImplementsSessions
<1>1. ServerInit => Init
  BY DEF ServerInit
<1>2. ASSUME AckInv, [ServerNext]_serverVars PROVE [Next]_vars
  <2>1. CASE UNCHANGED serverVars
    BY <2>1 DEF serverVars
  <2>2. CASE ServerNext /\ ~HandlerResponds
    BY <1>2, <2>2, SessionMoves DEF AckInv, ServerInv
  <2>3. CASE HandlerResponds
    BY <1>2, <2>3, RespondsAsSession
  <2> QED
    BY <1>2, <2>1, <2>2, <2>3
<1> QED
  BY <1>1, <1>2, AckInvariant, PTL DEF ServerSpec, ImplementsSessions, Spec

(* The records whose reliable ack connection c was given, known by its UUID. *)
AckedOn(c) == {<<UUID[c], a.msg>> : a \in {b \in Range(HandedOver(c)) : ~DirectAnswer(b)}}

LEMMA AckedAppend ==
    ASSUME NEW S, NEW s \in Seq(S), NEW a \in S
    PROVE  Range(Append(s, a)) = Range(s) \cup {a}
<1>1. /\ DOMAIN Append(s, a) = 1 .. Len(s) + 1 /\ DOMAIN s = 1 .. Len(s) /\ Len(s) \in Nat
      /\ \A k \in 1 .. Len(s) : Append(s, a)[k] = s[k]
      /\ Append(s, a)[Len(s) + 1] = a
  OBVIOUS
<1> QED
  BY <1>1 DEF Range

LEMMA AckedMoves ==
    ASSUME AckInv, ServerNext
    PROVE  \/ \A d \in Conns : AckedOn(d)' = AckedOn(d)
           \/ /\ UNCHANGED stored
              /\ \E c \in Conns, e \in Conns, op \in Op :
                    /\ UUID[e] = UUID[c] /\ Record(c, op) \in stored
                    /\ AckedOn(e)' = AckedOn(e) \cup {<<UUID[e], op.msg>>}
                    /\ \A d \in Conns : d # e => AckedOn(d)' = AckedOn(d)
<1>1. /\ TypeInv /\ SameUUID /\ \A c \in Conns : ReaderInv(c)
      /\ \A c \in Conns, op \in Op : RecordInv(c, op)
  BY DEF AckInv, ServerInv
<1>2. \A c \in Conns : HandedOver(c) \in Seq(SocketMessage)
  BY <1>1, HandedOverSeq DEF TypeInv
<1>3. \A d \in Conns : HandedOver(d)' = HandedOver(d) => AckedOn(d)' = AckedOn(d)
  BY DEF AckedOn, Range
<1>4. ASSUME NEW c \in Conns, ReaderResponds(c)
      PROVE  \A d \in Conns : AckedOn(d)' = AckedOn(d)
  <2> PICK answer \in SocketMessage :
          /\ DirectAnswer(answer) /\ HandedOver(c)' = Append(HandedOver(c), answer)
          /\ \A d \in Conns : d # c => HandedOver(d)' = HandedOver(d)
    BY <1>1, <1>4, DirectFacts
  <2>1. Range(HandedOver(c)') = Range(HandedOver(c)) \cup {answer}
    BY <1>2, AckedAppend
  <2>2. AckedOn(c)' = {<<UUID[c], a.msg>> :
                          a \in {b \in Range(HandedOver(c)') : ~DirectAnswer(b)}}
    BY DEF AckedOn, DirectAnswer, Range
  <2>3. {b \in Range(HandedOver(c)') : ~DirectAnswer(b)}
          = {b \in Range(HandedOver(c)) : ~DirectAnswer(b)}
    BY <2>1
  <2> QED
    BY <1>3, <2>2, <2>3 DEF AckedOn
<1>5. ASSUME HandlerResponds
      PROVE  /\ UNCHANGED stored
             /\ \E c \in Conns, e \in Conns, op \in Op :
                   /\ UUID[e] = UUID[c] /\ Record(c, op) \in stored
                   /\ AckedOn(e)' = AckedOn(e) \cup {<<UUID[e], op.msg>>}
                   /\ \A d \in Conns : d # e => AckedOn(d)' = AckedOn(d)
  <2> PICK c \in Conns, e \in Conns, op \in Op :
          /\ UUID[e] = UUID[c] /\ IsStored(c, op)
          /\ AckOf(op) \in SocketMessage /\ ~DirectAnswer(AckOf(op))
          /\ HandedOver(e)' = Append(HandedOver(e), AckOf(op))
          /\ \A d \in Conns : d # e => HandedOver(d)' = HandedOver(d)
          /\ UNCHANGED <<sendingAck, inflight, kafkaEvent, stored>>
    BY <1>1, <1>5, RespondFacts
  <2>1. Range(HandedOver(e)') = Range(HandedOver(e)) \cup {AckOf(op)}
    BY <1>2, AckedAppend
  <2>2. AckedOn(e)' = {<<UUID[e], a.msg>> :
                          a \in {b \in Range(HandedOver(e)') : ~DirectAnswer(b)}}
    BY DEF AckedOn, DirectAnswer, Range
  <2>3. {b \in Range(HandedOver(e)') : ~DirectAnswer(b)}
          = {b \in Range(HandedOver(e)) : ~DirectAnswer(b)} \cup {AckOf(op)}
    BY <2>1
  <2>4. AckOf(op).msg = op.msg
    BY DEF AckOf
  <2>5. AckedOn(e)' = AckedOn(e) \cup {<<UUID[e], op.msg>>}
    BY <2>2, <2>3, <2>4 DEF AckedOn
  <2> QED
    BY <1>3, <2>5 DEF IsStored
<1> QED
  BY <1>1, <1>3, <1>4, <1>5, StepKinds DEF SameAnswers

(* A reliable ack promises that a dispatcher took the record, whichever of the
   two ways the ack came: the server keeps that promise to every UUID, and so
   to every vehicle that has one of its own. *)
THEOREM ServerKeepsPromise == ServerSpec => ImplementsReliableAck
<1> DEFINE Taken == {<<UUID[r.conn], r.op.msg>> : r \in stored}
           Acked == UNION {AckedOn(c) : c \in Conns}
<1>1. ServerInit => Promise!AckInit
  <2> SUFFICES ASSUME ServerInit PROVE Taken = {} /\ Acked = {}
    BY DEF Promise!AckInit, AckedOn
  <2>1. \A c \in Conns : HandedOver(c) = <<>>
    BY ConcatEmptySeq DEF ServerInit, Init, HandedOver
  <2>2. stored = {}
    BY DEF ServerInit
  <2> QED
    BY <2>1, <2>2 DEF AckedOn, Range
<1>2. ASSUME AckInv, [ServerNext]_serverVars
      PROVE  [Promise!Take \/ Promise!Acknowledge]_(Promise!ackPromise)
  <2>1. ASSUME stored \subseteq stored', \A d \in Conns : AckedOn(d)' = AckedOn(d)
        PROVE  Promise!Take
    <3>1. Taken \subseteq Taken' /\ Acked' = Acked
      BY <2>1
    <3> QED
      BY <3>1 DEF Promise!Take, AckedOn
  <2>2. ASSUME UNCHANGED stored, NEW c \in Conns, NEW e \in Conns, NEW op \in Op,
               UUID[e] = UUID[c], Record(c, op) \in stored,
               AckedOn(e)' = AckedOn(e) \cup {<<UUID[e], op.msg>>},
               \A d \in Conns : d # e => AckedOn(d)' = AckedOn(d)
        PROVE  Promise!Acknowledge
    <3>1. <<UUID[e], op.msg>> \in Taken /\ Taken' = Taken
      BY <2>2, RecordEta
    <3>2. Acked' = Acked \cup {<<UUID[e], op.msg>>}
      BY <2>2
    <3> QED
      BY <3>1, <3>2 DEF Promise!Acknowledge, AckedOn
  <2>3. CASE ServerNext
    <3>1. stored \subseteq stored'
      BY <1>2, <2>3, StoredFinite DEF AckInv, ServerInv, CountInv
    <3> QED
      BY <1>2, <2>1, <2>2, <2>3, <3>1, AckedMoves
  <2>4. CASE UNCHANGED serverVars
    <3>1. stored' = stored /\ \A d \in Conns : AckedOn(d)' = AckedOn(d)
      BY <2>4 DEF serverVars, vars, ackVars, AckedOn, HandedOver, Range, DirectAnswer
    <3> QED
      BY <2>1, <3>1
  <2> QED
    BY <1>2, <2>3, <2>4
<1> QED
  BY <1>1, <1>2, AckInvariant, PTL DEF ServerSpec, ImplementsReliableAck, Promise!AckSpec

(* An answer of handleAcks is one the sessions allow, whoever shares a UUID. *)
LEMMA RespondsFromOutside ==
    ASSUME AckInv, HandlerResponds
    PROVE  \E c \in Conns, op \in Op : OutsideAck(c, op)
<1>1. /\ TypeInv /\ SameUUID /\ \A c \in Conns, op \in Op : RecordInv(c, op)
      /\ ackDue \in [Conns -> SUBSET Op]
  BY DEF AckInv, ServerInv, TypeInv, TypeOK
<1> PICK c \in Conns, e \in Conns, op \in Op :
        /\ OwesAck(op) /\ respondToVehicle(e, AckOf(op))
        /\ ackDue' = [ackDue EXCEPT ![c] = @ \ {op}]
        /\ UNCHANGED <<readerVars, writerVars, ws, deadline, stopped, reasonVars>>
  BY <1>1, RespondFacts
<1>2. reliableAck(op.txType) /\ \A d \in Conns : ackDue'[d] \subseteq ackDue[d]
  BY <1>1 DEF OwesAck
<1> QED
  BY <1>2 DEF OutsideAck

(* What is proved of one session holds of every session inside the server,
   whatever UUIDs the vehicles choose: the logged reason is the cause, no ack
   comes before its dispatch, no answer is lost and no wake-up either. *)
THEOREM SessionsKeepTheirWord ==
    ServerSpec => [](/\ LoggedReasonTruthful /\ AckAfterDispatch
                     /\ AnswersConserved /\ NoWakeupLost)
<1>1. ServerInit => SessionsInv
  BY SessionsInit DEF ServerInit
<1>2. AckInv /\ AckInv' /\ SessionsInv /\ [ServerNext]_serverVars => SessionsInv'
  <2> SUFFICES ASSUME AckInv, AckInv', SessionsInv, [ServerNext]_serverVars
               PROVE  SessionsInv'
    OBVIOUS
  <2>1. TypeInv /\ TypeOK'
    BY DEF AckInv, ServerInv, TypeInv
  <2>2. CASE UNCHANGED serverVars
    BY <2>1, <2>2, SessionsStep DEF serverVars
  <2>3. CASE ServerNext /\ ~HandlerResponds
    BY <2>1, <2>3, SessionMoves, SessionsStep
  <2>4. CASE HandlerResponds
    BY <2>1, <2>4, RespondsFromOutside, SessionsStep
  <2> QED
    BY <2>2, <2>3, <2>4
<1> QED
  BY <1>1, <1>2, AckInvariant, SessionsKeepAll, PTL DEF ServerSpec

(* With nobody on the path of an ack able to move, none is owed and no reader
   waits in ProcessReliableAck, unless handleAcks is stuck on a socket whose
   writer is gone: for any number of connections and records under way. *)
THEOREM AcksAreNotForgotten == ServerSpec => []NoAckForgotten
<1>1. ASSUME AckInv, AckPathAtRest, handler # <<>> PROVE HandlerStuck
  <2> DEFINE c == Head(handler).socket
  <2>1. TypeOK /\ ~Looking /\ Len(writeChan[c]) = WriteCap /\ WriterAtRest(c)
    BY <1>1 DEF AckInv, ServerInv, TypeInv, AckPathAtRest
  <2>2. writeChan[c] # <<>>
    BY <2>1, SocketAssumption
  <2> QED
    BY <1>1, <2>1, <2>2 DEF HandlerStuck, WriterAtRest
<1>2. ASSUME AckInv, AckPathAtRest, handler = <<>>, NEW c \in Conns
      PROVE  ackDue[c] = {} /\ sendingAck[c] = <<>>
  <2>1. inflight = {} /\ kafkaEvent = <<>> /\ sendingAck[c] = <<>>
    BY <1>2 DEF AckPathAtRest
  <2>2. ASSUME NEW op \in Op PROVE op \notin ackDue[c]
    <3>1. RecordInv(c, op)
      BY <1>2 DEF AckInv
    <3>2. ~WithKafka(c, op) /\ ~Reported(c, op) /\ ~AtReader(c, op) /\ ~InHand(c, op)
      BY <1>2, <2>1, SingleFull DEF WithKafka, Reported, AtReader, InHand
    <3> QED
      BY <3>1, <3>2 DEF RecordInv, OnItsWay
  <2>3. ackDue[c] \subseteq Op
    BY <1>2 DEF AckInv, ServerInv, TypeInv, TypeOK
  <2> QED
    BY <2>1, <2>2, <2>3
<1>3. AckInv => NoAckForgotten
  BY <1>1, <1>2 DEF NoAckForgotten
<1> QED
  BY <1>3, AckInvariant, PTL
=============================================================================
