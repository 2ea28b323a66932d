-------------------------- MODULE MCSocketManager --------------------------
(***************************************************************************)
(* The instance of SocketManager that TLC checks: one session, three topics*)
(* (alerts is acknowledged by nats, V by the reader, custom is routed      *)
(* nowhere) and one message for every path of ParseAndProcessRecord.       *)
(***************************************************************************)
EXTENDS SocketManager

MCTopics == {"V", "alerts", "custom"}
MCProtoTopics == {"V", "alerts"}
MCDispatchers == {"kafka", "nats"}
MCDispatchRules == [V |-> <<"kafka">>, alerts |-> <<"kafka", "nats">>]
MCReliableAckSources == [alerts |-> "nats"]

(* A well-formed record of a topic, and what may be wrong with one. *)
Good(topic) == [size |-> SizeLimit, envelope |-> "stream", topic |-> topic,
                sender |-> "own", payload |-> "valid"]

MCMessages ==
    {Good(t) : t \in MCTopics}
      \cup {[Good("V") EXCEPT !.size = SizeLimit + 1],
            [Good("V") EXCEPT !.envelope = "otherType"],
            [Good("V") EXCEPT !.envelope = "corrupt"],
            [Good("custom") EXCEPT !.sender = "other"],
            [Good("alerts") EXCEPT !.payload = "bad", !.sender = "other"]}

(* Enough for the liveness runs: one answer, two answers, none of the reader's. *)
FewMessages ==
    {Good("V"), Good("alerts"), [Good("V") EXCEPT !.envelope = "otherType"]}

MCConns == {"c1"}
============================================================================
