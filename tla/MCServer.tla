------------------------------ MODULE MCServer ------------------------------
(***************************************************************************)
(* Instances of Server for TLC.  Two topics: V is acknowledged by kafka,   *)
(* from its delivery goroutine, alerts by nats, from the reader.           *)
(***************************************************************************)
EXTENDS Server, TLC

CONSTANTS c1, c2

MCTopics == {"V", "alerts"}
MCDispatchers == {"kafka", "nats"}
MCDispatchRules == [V |-> <<"kafka">>, alerts |-> <<"nats">>]
MCReliableAckSources == [V |-> "kafka", alerts |-> "nats"]

Good(topic) == [size |-> SizeLimit, envelope |-> "stream", topic |-> topic,
                sender |-> "own", payload |-> "valid"]
BothTopics == {Good("V"), Good("alerts")}
OnlyAlerts == {Good("alerts")}

TwoConns == {c1, c2}
OwnUUID == [c \in TwoConns |-> c]
SharedUUID == [c \in TwoConns |-> "x-txid"]
Symmetry == Permutations(TwoConns)

OneConn == {c1}
OneUUID == [c \in OneConn |-> c]

(* The drain run without acknowledgements: the reader answers every record. *)
NoReliableAcks == << >>

(* The acks run stays out of the shutdown, which has runs of its own. *)
NotShuttingDown == phase = "serving"
=============================================================================
