--------------------------- MODULE SocketManager ---------------------------
(***************************************************************************)
(* One websocket session of server/streaming/socket.go, for every          *)
(* connection of Conns: the reader goroutine (ProcessTelemetry), the writer*)
(* goroutine, the bounded writeChan between them, and the two outsiders    *)
(* that reach into a session: handleAcks, which answers for a reliable     *)
(* dispatcher, and the graceful drain, which calls RequestClose.           *)
(***************************************************************************)
EXTENDS TelemetryRecord, SequencesExt

CONSTANTS
    Conns,
    Messages,    \* messages a vehicle may send, a subset of Message
    WriteCap,    \* capacity of writeChan (1000 in NewSocketManager)
    RateLimitOn, \* there is a rate limiter; without a configuration there is one
    RateLimit,   \* messages it lets through per interval (100 a minute by default)
    MaxMsgs      \* bound on the messages read per connection

ASSUME SocketAssumption ==
    /\ Messages \subseteq Message
    /\ WriteCap \in Nat \ {0}
    /\ RateLimitOn \in BOOLEAN
    /\ RateLimit \in Nat \ {0}
    /\ MaxMsgs \in Nat

VARIABLES
    pc,          \* where the reader goroutine of each connection is
    ended,       \* how the read loop ended
    received,    \* every message read, with the rate limiter's verdict
    todo,        \* rest of the programme of the message being processed
    writer,      \* where the writer goroutine is
    writeChan,   \* answers waiting for the writer
    writing,     \* the writer's current answer (at most one)
    sent,        \* answers written to the connection without error
    ws,          \* the websocket connection
    deadline,    \* the read deadline the writer leaves behind is set
    stopped,     \* stopChan is closed
    closeReason, \* first teardown error recorded
    logged,      \* close_reason of the socket_disconnected log
    closer,      \* progress of RequestClose
    ackDue       \* Produce calls a reliable dispatcher accepted, not yet answered

readerVars == <<pc, ended, received, todo>>
writerVars == <<writer, writing, sent>>
reasonVars == <<closeReason, logged, closer>>
vars == <<pc, ended, received, todo, writer, writeChan, writing, sent, ws,
          deadline, stopped, closeReason, logged, closer, ackDue>>

NoReason == "none"
Reasons == {"serverShutdown", "peerGone", "useOfClosed", "deadline", "writeTimeout"}

(* A SocketMessage: the answer, the Txid and the topic it carries. *)
SocketMessage == [kind : Answers, msg : Nat, txType : Topics \cup {NoTopic}]

(* Mutant: the last reason wins. *)
recordCloseReason_LastWins(c, err) ==
    closeReason' = [closeReason EXCEPT ![c] = IF err # NoReason THEN err ELSE @]

(* Set the reason only if none is set; "none" is a nil error. *)
recordCloseReason(c, err) ==
    closeReason' = [closeReason EXCEPT ![c] = IF @ = NoReason THEN err ELSE @]

Init ==
    /\ pc = [c \in Conns |-> "new"]
    /\ ended = [c \in Conns |-> "no"]
    /\ received = [c \in Conns |-> <<>>]
    /\ todo = [c \in Conns |-> <<>>]
    /\ writer = [c \in Conns |-> "none"]
    /\ writeChan = [c \in Conns |-> <<>>]
    /\ writing = [c \in Conns |-> <<>>]
    /\ sent = [c \in Conns |-> <<>>]
    /\ ws = [c \in Conns |-> "open"]
    /\ deadline = [c \in Conns |-> FALSE]
    /\ stopped = [c \in Conns |-> FALSE]
    /\ closeReason = [c \in Conns |-> NoReason]
    /\ logged = [c \in Conns |-> "notLogged"]
    /\ closer = [c \in Conns |-> "idle"]
    /\ ackDue = [c \in Conns |-> {}]

----------------------------------------------------------------------------
(* The reader goroutine.                                                   *)

(* ProcessTelemetry starts the writer and enters its loop. *)
StartProcessTelemetry(c) ==
    /\ pc[c] = "new"
    /\ pc' = [pc EXCEPT ![c] = "loop"]
    /\ writer' = [writer EXCEPT ![c] = "select"]
    /\ UNCHANGED <<ended, received, todo, writeChan, writing, sent, ws, deadline,
                   stopped, closeReason, logged, closer, ackDue>>

AtReadMessage(c) == pc[c] = "loop" /\ todo[c] = <<>>

(* rl.Try may refuse a message once RateLimit messages got through: it does if
   they came within the interval, and time is not modelled. *)
MayRefuse(c) ==
    RateLimitOn /\ Len(SelectSeq(received[c], LAMBDA r : ~r.limited)) >= RateLimit

(***************************************************************************)
(* ReadMessage yields a binary message.  Bytes already buffered by the     *)
(* connection are delivered even after the peer is gone, the deadline has  *)
(* passed or the socket is closed, so no state of ws excludes it.  A       *)
(* message over the rate limit is counted and otherwise forgotten.         *)
(***************************************************************************)
ReadMessage(c) ==
    /\ AtReadMessage(c)
    /\ Len(received[c]) < MaxMsgs
    /\ \E m \in Messages, limited \in {FALSE, MayRefuse(c)} :
          /\ received' = [received EXCEPT ![c] = Append(@, [msg |-> m, limited |-> limited])]
          /\ todo' = [todo EXCEPT ![c] =
                        IF limited THEN <<>>
                        ELSE ParseAndProcessRecord(m, Len(received[c]) + 1)]
    /\ UNCHANGED <<pc, ended, writer, writeChan, writing, sent, ws, deadline,
                   stopped, closeReason, logged, closer, ackDue>>

(* The errors ReadMessage may return now; none while the peer is merely idle. *)
ReadErrors(c) ==
    {err \in Reasons :
        \/ err = "useOfClosed" /\ ws[c] = "closed"
        \/ err = "peerGone" /\ ws[c] = "dropped"
        \/ err = "deadline" /\ ws[c] # "closed" /\ deadline[c]}

ReadError(c) ==
    /\ AtReadMessage(c)
    /\ \E err \in ReadErrors(c) : recordCloseReason(c, err)
    /\ ended' = [ended EXCEPT ![c] = "readError"]
    /\ pc' = [pc EXCEPT ![c] = "close"]
    /\ UNCHANGED <<received, todo, writerVars, writeChan, ws, deadline, stopped,
                   logged, closer, ackDue>>

(* A text frame: the loop returns and records nothing. *)
ReadWrongType(c) ==
    /\ AtReadMessage(c)
    /\ ended' = [ended EXCEPT ![c] = "wrongType"]
    /\ pc' = [pc EXCEPT ![c] = "close"]
    /\ UNCHANGED <<received, todo, writerVars, writeChan, ws, deadline, stopped,
                   reasonVars, ackDue>>

(* Mutant: select with a default case drops the answer when the channel is full. *)
respondToVehicle_DropsWhenFull(c, answer) ==
    writeChan' = [writeChan EXCEPT ![c] = IF Len(@) < WriteCap THEN Append(@, answer) ELSE @]

(* Mutant: one answer too many. *)
respondToVehicle_OverCapacity(c, answer) ==
    /\ Len(writeChan[c]) <= WriteCap
    /\ writeChan' = [writeChan EXCEPT ![c] = Append(@, answer)]

(* writeChan <- answer: blocks while the channel is full. *)
respondToVehicle(c, answer) ==
    /\ Len(writeChan[c]) < WriteCap
    /\ writeChan' = [writeChan EXCEPT ![c] = Append(@, answer)]

ReaderResponds(c) ==
    /\ pc[c] = "loop" /\ todo[c] # <<>>
    /\ LET op == Head(todo[c])
       IN  /\ op.do \in Answers
           /\ respondToVehicle(c, [kind |-> op.do, msg |-> op.msg, txType |-> op.txType])
    /\ todo' = [todo EXCEPT ![c] = Tail(@)]
    /\ UNCHANGED <<pc, ended, received, writerVars, ws, deadline, stopped,
                   reasonVars, ackDue>>

(* One Producer.Produce call.  The dispatcher that acknowledges the topic
   owes the vehicle an ack if it accepted the record. *)
OwesAck(op) == reliableAck(op.txType) /\ op.to = ReliableAckSources[op.txType]

Produce(c) ==
    /\ pc[c] = "loop" /\ todo[c] # <<>>
    /\ LET op == Head(todo[c])
       IN  /\ op.do = "produce"
           /\ \E accepted \in {FALSE, OwesAck(op)} :
                 ackDue' = [ackDue EXCEPT ![c] = IF accepted THEN @ \cup {op} ELSE @]
    /\ todo' = [todo EXCEPT ![c] = Tail(@)]
    /\ UNCHANGED <<pc, ended, received, writerVars, writeChan, ws, deadline,
                   stopped, reasonVars>>

(* The deferred sm.Close(): close the connection ... *)
CloseWs(c) ==
    /\ pc[c] = "close"
    /\ \E err \in Reasons \cup {NoReason} :
          /\ \/ err = "useOfClosed" /\ ws[c] = "closed"
             \/ err = "peerGone" /\ ws[c] = "dropped"
             \/ err = NoReason /\ ws[c] # "closed"
          /\ recordCloseReason(c, err)
    /\ ws' = [ws EXCEPT ![c] = "closed"]
    /\ pc' = [pc EXCEPT ![c] = "log"]
    /\ UNCHANGED <<ended, received, todo, writerVars, writeChan, deadline, stopped,
                   logged, closer, ackDue>>

(* ... then log socket_disconnected with the reason recorded by then ... *)
LogDisconnected(c) ==
    /\ pc[c] = "log"
    /\ logged' = [logged EXCEPT ![c] = closeReason[c]]
    /\ pc' = [pc EXCEPT ![c] = "stop"]
    /\ UNCHANGED <<ended, received, todo, writerVars, writeChan, ws, deadline,
                   stopped, closeReason, closer, ackDue>>

(* Mutant: stopChan is never closed. *)
CloseStopChan_Forgotten(c) ==
    /\ pc[c] = "stop"
    /\ pc' = [pc EXCEPT ![c] = "returned"]
    /\ UNCHANGED <<ended, received, todo, writerVars, writeChan, ws, deadline, stopped,
                   reasonVars, ackDue>>

(* ... and close(stopChan), after which ProcessTelemetry has returned. *)
CloseStopChan(c) ==
    /\ pc[c] = "stop"
    /\ stopped' = [stopped EXCEPT ![c] = TRUE]
    /\ pc' = [pc EXCEPT ![c] = "returned"]
    /\ UNCHANGED <<ended, received, todo, writerVars, writeChan, ws, deadline,
                   reasonVars, ackDue>>

----------------------------------------------------------------------------
(* The writer goroutine.  With both channels ready, select takes either.   *)

WriterTake(c) ==
    /\ writer[c] = "select"
    /\ writeChan[c] # <<>>
    /\ writing' = [writing EXCEPT ![c] = <<Head(writeChan[c])>>]
    /\ writeChan' = [writeChan EXCEPT ![c] = Tail(@)]
    /\ writer' = [writer EXCEPT ![c] = "write"]
    /\ UNCHANGED <<readerVars, sent, ws, deadline, stopped, reasonVars, ackDue>>

WriterStop(c) ==
    /\ writer[c] = "select"
    /\ stopped[c]
    /\ writer' = [writer EXCEPT ![c] = "exit"]
    /\ UNCHANGED <<readerVars, writeChan, writing, sent, ws, deadline, stopped,
                   reasonVars, ackDue>>

(* A write the kernel accepts, which it may do although the peer is gone. *)
WriteOk(c) ==
    /\ writer[c] = "write"
    /\ ws[c] # "closed"
    /\ sent' = [sent EXCEPT ![c] = @ \o writing[c]]
    /\ writing' = [writing EXCEPT ![c] = <<>>]
    /\ writer' = [writer EXCEPT ![c] = "select"]
    /\ UNCHANGED <<readerVars, writeChan, ws, deadline, stopped, reasonVars, ackDue>>

(* The write deadline bounds a write to a peer that does not read. *)
WriteErrors(c) ==
    {err \in Reasons :
        \/ err = "useOfClosed" /\ ws[c] = "closed"
        \/ err = "peerGone" /\ ws[c] = "dropped"
        \/ err = "writeTimeout" /\ ws[c] # "closed"}

(* The writer gives up its answer, records why and returns. *)
WriteError(c) ==
    /\ writer[c] = "write"
    /\ \E err \in WriteErrors(c) : recordCloseReason(c, err)
    /\ writer' = [writer EXCEPT ![c] = "exit"]
    /\ UNCHANGED <<readerVars, writeChan, writing, sent, ws, deadline, stopped,
                   logged, closer, ackDue>>

(* Mutant: the writer leaves without a read deadline. *)
WriterExit_NoDeadline(c) ==
    /\ writer[c] = "exit"
    /\ writer' = [writer EXCEPT ![c] = "done"]
    /\ UNCHANGED <<readerVars, writeChan, writing, sent, ws, deadline, stopped,
                   reasonVars, ackDue>>

(* Its deferred SetReadDeadline makes a later ReadMessage fail. *)
WriterExit(c) ==
    /\ writer[c] = "exit"
    /\ deadline' = [deadline EXCEPT ![c] = TRUE]
    /\ writer' = [writer EXCEPT ![c] = "done"]
    /\ UNCHANGED <<readerVars, writeChan, writing, sent, ws, stopped, reasonVars,
                   ackDue>>

----------------------------------------------------------------------------
(* The outside world.                                                      *)

(* RequestClose records the shutdown first and closes the connection second. *)
RecordShutdown(c) ==
    /\ closer[c] = "idle"
    /\ recordCloseReason(c, "serverShutdown")
    /\ closer' = [closer EXCEPT ![c] = "recorded"]
    /\ UNCHANGED <<readerVars, writerVars, writeChan, ws, deadline, stopped, logged,
                   ackDue>>

(* Mutant: RequestClose records the reason and leaves the connection open. *)
CloseForShutdown_LeftOpen(c) ==
    /\ closer[c] = "recorded"
    /\ closer' = [closer EXCEPT ![c] = "done"]
    /\ UNCHANGED <<readerVars, writerVars, writeChan, ws, deadline, stopped, closeReason,
                   logged, ackDue>>

CloseForShutdown(c) ==
    /\ closer[c] = "recorded"
    /\ ws' = [ws EXCEPT ![c] = "closed"]
    /\ closer' = [closer EXCEPT ![c] = "done"]
    /\ UNCHANGED <<readerVars, writerVars, writeChan, deadline, stopped, closeReason,
                   logged, ackDue>>

(* handleAcks answers for a reliable dispatcher, at any time, even after the
   session has returned: it holds the SocketManager it looked up. *)
AckResponse(c) ==
    \E op \in ackDue[c] :
        /\ respondToVehicle(c, [kind |-> "ack", msg |-> op.msg, txType |-> op.txType])
        /\ ackDue' = [ackDue EXCEPT ![c] = @ \ {op}]
        /\ UNCHANGED <<readerVars, writerVars, ws, deadline, stopped, reasonVars>>

(* The delivery fails, or handleAcks finds no such socket. *)
AckNeverComes(c) ==
    \E op \in ackDue[c] :
        /\ ackDue' = [ackDue EXCEPT ![c] = @ \ {op}]
        /\ UNCHANGED <<readerVars, writerVars, writeChan, ws, deadline, stopped,
                       reasonVars>>

(* The vehicle's end of the connection goes away. *)
Drop(c) ==
    /\ ws[c] = "open"
    /\ ws' = [ws EXCEPT ![c] = "dropped"]
    /\ UNCHANGED <<readerVars, writerVars, writeChan, deadline, stopped, reasonVars,
                   ackDue>>

----------------------------------------------------------------------------
ProcessMessage(c) == ReaderResponds(c) \/ Produce(c)

Teardown(c) == CloseWs(c) \/ LogDisconnected(c) \/ CloseStopChan(c)

Reader(c) ==
    \/ StartProcessTelemetry(c) \/ ReadMessage(c) \/ ReadError(c) \/ ReadWrongType(c)
    \/ ProcessMessage(c) \/ Teardown(c)

Write(c) == WriteOk(c) \/ WriteError(c)

Writer(c) == WriterTake(c) \/ WriterStop(c) \/ Write(c) \/ WriterExit(c)

Outside(c) ==
    \/ RecordShutdown(c) \/ CloseForShutdown(c)
    \/ AckResponse(c) \/ AckNeverComes(c) \/ Drop(c)

Next == \E c \in Conns : Reader(c) \/ Writer(c) \/ Outside(c)

Spec == Init /\ [][Next]_vars

(***************************************************************************)
(* Every goroutine that can run does: the Go scheduler starves nobody.  A  *)
(* write ends within WriteLoopDeadline, one way or the other.  A read fails*)
(* once the connection is dead; that a message arrives, that the peer goes *)
(* away or that somebody calls RequestClose is never promised.             *)
(***************************************************************************)
Fairness ==
    \A c \in Conns :
        /\ WF_vars(StartProcessTelemetry(c))
        /\ WF_vars(ReadError(c))
        /\ WF_vars(ProcessMessage(c))
        /\ WF_vars(Teardown(c))
        /\ WF_vars(Writer(c))
        /\ WF_vars(CloseForShutdown(c))

FairSpec == Spec /\ Fairness

----------------------------------------------------------------------------
(* Safety.                                                                 *)

(* Every variable keeps to the values the Go types and the code's own
   assignments allow; writeChan never exceeds the capacity it was made with. *)
TypeOK ==
    /\ pc \in [Conns -> {"new", "loop", "close", "log", "stop", "returned"}]
    /\ ended \in [Conns -> {"no", "readError", "wrongType"}]
    /\ received \in [Conns -> Seq([msg : Messages, limited : BOOLEAN])]
    /\ todo \in [Conns -> Seq(Op)]
    /\ writer \in [Conns -> {"none", "select", "write", "exit", "done"}]
    /\ writeChan \in [Conns -> Seq(SocketMessage)]
    /\ \A c \in Conns : Len(writeChan[c]) <= WriteCap
    /\ writing \in [Conns -> Seq(SocketMessage)]
    /\ \A c \in Conns : Len(writing[c]) <= 1
    /\ sent \in [Conns -> Seq(SocketMessage)]
    /\ ws \in [Conns -> {"open", "dropped", "closed"}]
    /\ deadline \in [Conns -> BOOLEAN]
    /\ stopped \in [Conns -> BOOLEAN]
    /\ closeReason \in [Conns -> Reasons \cup {NoReason}]
    /\ logged \in [Conns -> Reasons \cup {NoReason, "notLogged"}]
    /\ closer \in [Conns -> {"idle", "recorded", "done"}]
    /\ ackDue \in [Conns -> SUBSET Op]

(***************************************************************************)
(* The close_reason that socket_disconnected reports is the cause of the   *)
(* end and never its echo.  The teardown deadline the writer leaves behind *)
(* is never reported; "use of closed connection" and a missing reason are  *)
(* reported only for a session ended by a text frame (for which the code   *)
(* records nothing); and "server shutting down" only if the drain asked.   *)
(***************************************************************************)
LoggedReasonTruthful ==
    \A c \in Conns :
        /\ logged[c] # "deadline"
        /\ logged[c] \in {"useOfClosed", NoReason} => ended[c] = "wrongType"
        /\ logged[c] = "serverShutdown" => closer[c] # "idle"

(***************************************************************************)
(* Why it holds: the strengthening that each step preserves.  Whoever      *)
(* closes the connection, or leaves a deadline on it, has a reason recorded*)
(* before anyone else can see the effect and report the echo.              *)
(***************************************************************************)
CloseReasonInv(c) ==
    /\ pc[c] = "new" => writer[c] = "none"
    /\ pc[c] \in {"new", "loop"} => ended[c] = "no"
    /\ pc[c] \in {"close", "log", "stop", "returned"} =>
          closeReason[c] # NoReason \/ ended[c] = "wrongType"
    /\ stopped[c] => pc[c] = "returned"
    /\ writer[c] \in {"exit", "done"} => closeReason[c] # NoReason \/ stopped[c]
    /\ deadline[c] => writer[c] = "done"
    /\ ws[c] = "closed" => closer[c] = "done" \/ pc[c] \in {"log", "stop", "returned"}
    /\ closer[c] # "idle" => closeReason[c] # NoReason
    /\ closeReason[c] # "deadline"
    /\ closeReason[c] = "useOfClosed" => ended[c] = "wrongType"
    /\ closeReason[c] = "serverShutdown" => closer[c] # "idle"
    /\ logged[c] # "notLogged" => pc[c] \in {"stop", "returned"}

(* Everything handed to the writer so far, oldest first. *)
HandedOver(c) == sent[c] \o writing[c] \o writeChan[c]

(* An answer the reader gave itself, not handleAcks for a dispatcher. *)
DirectAnswer(a) == ~(a.kind = "ack" /\ reliableAck(a.txType))

(* The contract of one message, stated without the code's decision tree. *)
ExpectedKinds(m) ==
    IF m.size > SizeLimit \/ m.envelope = "corrupt" THEN <<"error">>
    ELSE IF m.envelope = "otherType" THEN <<"ack", "ack">>
    ELSE IF m.topic \notin DOMAIN DispatchRules /\ m.sender = "other" THEN <<"error">>
    ELSE IF m.payload = "bad" /\ m.topic \in ProtoTopics THEN <<"error">>
    ELSE IF m.topic \in DOMAIN ReliableAckSources THEN <<>> ELSE <<"ack">>

(* What the i-th message read is to be answered. *)
ExpectedAnswers(r, i) ==
    IF r.limited THEN <<>>
    ELSE LET kinds == ExpectedKinds(r.msg)
         IN  [k \in DOMAIN kinds |-> [kind |-> kinds[k], msg |-> i]]

(* Kind and message of the reader's own answers: those of the messages read,
   those among the answers handed over, those left in a programme. *)
AnswersExpected(read) ==
    FlattenSeq([i \in DOMAIN read |-> ExpectedAnswers(read[i], i)])

AnswersGiven(handed) ==
    FlattenSeq([k \in DOMAIN handed |->
                   IF DirectAnswer(handed[k])
                   THEN <<[kind |-> handed[k].kind, msg |-> handed[k].msg]>> ELSE <<>>])

AnswersLeft(programme) ==
    FlattenSeq([k \in DOMAIN programme |->
                   IF programme[k].do \in Answers
                   THEN <<[kind |-> programme[k].do, msg |-> programme[k].msg]>> ELSE <<>>])

(***************************************************************************)
(* From the reader through the channel and the writer to the wire, no      *)
(* answer is lost, duplicated, invented or overtaken: the answers handed   *)
(* over and those still to give are exactly those the messages called for, *)
(* in the order the messages came.                                         *)
(***************************************************************************)
AnswersConserved ==
    \A c \in Conns :
        AnswersGiven(HandedOver(c)) \o AnswersLeft(todo[c]) = AnswersExpected(received[c])

(* The reader acknowledges a record only after every dispatcher of its topic
   has been called: an ack never overtakes the Produce calls it stands for. *)
AckAfterDispatch ==
    \A c \in Conns : \A op \in Range(todo[c]) :
        op.do = "produce" =>
            \A a \in Range(HandedOver(c)) : DirectAnswer(a) => a.msg # op.msg

(* Why it holds: what is left to do is about the last message read and answers
   it last, and only records of acknowledged topics are ever owed an ack. *)
DispatchInv(c) ==
    /\ \A k \in DOMAIN todo[c] : todo[c][k].msg = Len(received[c])
    /\ \A j, k \in DOMAIN todo[c] :
          j < k /\ todo[c][j].do \in Answers => todo[c][k].do # "produce"
    /\ \A a \in Range(HandedOver(c)) : DirectAnswer(a) => a.msg <= Len(received[c])
    /\ \A op \in ackDue[c] : reliableAck(op.txType)

(* The one place a session can stop for good: the reader blocks on a full
   writeChan whose writer has returned after a failed write. *)
Wedged(c) ==
    /\ writer[c] = "done"
    /\ Len(writeChan[c]) = WriteCap
    /\ todo[c] # <<>> /\ Head(todo[c]).do \in Answers

(* Nobody in the session has a step of its own to take: the writer waits in its
   select, the reader in ReadMessage or on writeChan, or they are gone. *)
WriterAtRest(c) ==
    /\ writer[c] \in {"select", "done"}
    /\ writer[c] = "select" => writeChan[c] = <<>> /\ ~stopped[c]

AtRest(c) ==
    /\ pc[c] \in {"loop", "returned"}
    /\ AtReadMessage(c) => ReadErrors(c) = {}
    /\ todo[c] # <<>> => Head(todo[c]).do \in Answers /\ Len(writeChan[c]) = WriteCap
    /\ WriterAtRest(c)
    /\ closer[c] # "recorded"

(* Waiting for the vehicle, with every answer it is due on the wire. *)
SessionIdle(c) ==
    /\ AtReadMessage(c) /\ writer[c] = "select"
    /\ ws[c] = "open" /\ ~deadline[c] /\ closer[c] = "idle"
    /\ AnswersGiven(sent[c]) = AnswersExpected(received[c])

SessionOver(c) == pc[c] = "returned" /\ writer[c] = "done" /\ ws[c] = "closed"

(***************************************************************************)
(* No wake-up is lost.  A session in which nobody can move is an idle one  *)
(* that owes nothing, or is over with both goroutines gone, or is wedged:  *)
(* the reader never waits on a connection the writer, the drain or the peer*)
(* gave up, nor the writer on a reader that has left.                      *)
(***************************************************************************)
NoWakeupLost ==
    \A c \in Conns : AtRest(c) => SessionIdle(c) \/ SessionOver(c) \/ Wedged(c)

(* Why it holds: whoever leaves first has done what makes the other leave. *)
WakeupInv(c) ==
    /\ pc[c] = "new" <=> writer[c] = "none"
    /\ pc[c] = "new" => todo[c] = <<>> /\ ackDue[c] = {}
    /\ pc[c] # "loop" => todo[c] = <<>>
    /\ pc[c] = "returned" => stopped[c]
    /\ writer[c] = "done" => deadline[c]
    /\ pc[c] \in {"log", "stop", "returned"} \/ closer[c] = "done" => ws[c] = "closed"

----------------------------------------------------------------------------
(* Liveness, under FairSpec.                                               *)

(* A writer that gives up takes the reader down with it, by the read deadline. *)
WriterFailureEndsSession ==
    \A c \in Conns : writer[c] = "exit" ~> (pc[c] = "returned" \/ Wedged(c))

(* A connection that RequestClose closed ends its session. *)
ShutdownEndsSession ==
    \A c \in Conns : closer[c] = "done" ~> (pc[c] = "returned" \/ Wedged(c))

(* When ProcessTelemetry returns, the writer goroutine does not outlive it. *)
WriterNeverLeaks ==
    \A c \in Conns : pc[c] = "returned" ~> writer[c] = "done"

Read(c, i) == i <= Len(received[c])

AnswersSent(c, i) ==
    /\ Read(c, i)
    /\ Len(ExpectedAnswers(received[c][i], i))
         = Len(SelectSeq(sent[c], LAMBDA a : a.msg = i /\ DirectAnswer(a)))

(* Every message read is answered on the wire as often as it should be, unless
   the writer is gone. *)
AnswersReachVehicle ==
    \A c \in Conns : \A i \in 1 .. MaxMsgs :
        Read(c, i) ~> (AnswersSent(c, i) \/ writer[c] \in {"exit", "done"})

(* What the comment on RequestClose says: it unblocks the read loop so that
   the normal teardown runs.  A wedged session shows it does not always. *)
RequestCloseUnblocksReader ==
    \A c \in Conns : closer[c] = "done" ~> pc[c] = "returned"
============================================================================
