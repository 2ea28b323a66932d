---------------------------- MODULE MCDatastores ----------------------------
(***************************************************************************)
(* Instances of Datastores for TLC: one configuration for each data store  *)
(* and for each way in which start-up refuses one, and payloads that make  *)
(* mqtt publish several messages, fail on one, or panic.                   *)
(***************************************************************************)
EXTENDS Datastores, TLC

CONSTANTS r1, r2

OneReader == {r1}
TwoReaders == {r1, r2}

Config(records, ackSources, qos) ==
    [records |-> records, ackSources |-> ackSources, qos |-> qos,
     sections |-> ToSet(DataStores)]

(* Every store as the source of reliable acks. *)
Reliable(d, qos) == Config([V |-> <<"logger", d>>], [V |-> d], qos)

GoodConfigs ==
    {Reliable(d, 1) : d \in ToSet(DataStores) \ {"mqtt"}}
      \cup {Config([V |-> <<"mqtt">>], [V |-> "mqtt"], 0),
            Config([alerts |-> <<"mqtt">>], [alerts |-> "mqtt"], 1),
            Config([V |-> <<"kafka", "nats">>], [V |-> "kafka"], 1),
            Config([V |-> <<"zmq">>, route |-> <<"mqtt">>], << >>, 1),
            Config([errors |-> <<"mqtt">>, connectivity |-> <<"mqtt">>],
                   [errors |-> "mqtt"], 1)}

(* Each of them is refused, or starts with a nil producer. *)
OddConfigs ==
    {Config([V |-> <<"nats">>], [connectivity |-> "nats"], 0),
     Config([V |-> <<"nats", "logger">>], [V |-> "logger"], 0),
     Config([V |-> <<"nats">>], [alerts |-> "nats"], 0),
     Config([V |-> <<"nats">>], [V |-> "kafka"], 0),
     Config([V |-> <<>>], << >>, 0),
     Config([V |-> <<"nats", "natz">>], << >>, 0),
     Config([V |-> <<"natz">>], [V |-> "natz"], 0),
     [Config([V |-> <<"kafka", "nats">>], << >>, 0) EXCEPT !.sections = {"kafka"}]}

AllConfigs == GoodConfigs \cup OddConfigs

Datum(key, kind, n) == [key |-> key, value |-> [kind |-> kind, n |-> n]]
Fields(version, data) == [version |-> version, data |-> data]
Alert(at_, unit) == [name |-> "a", at |-> at_, unit |-> unit]

(* 315576000000 seconds become 50 here and a thousand milliseconds 10: the
   instants 60 and 70 are 6 and 7 in seconds. *)
MCPayloads ==
    [V      |-> {Fields("1.3.0", <<Datum("k", "plain", 0), Datum("b", "braking", 4),
                                   Datum("k", "plain", 1)>>),
                 Fields("1.4.0", <<Datum("b", "braking", 0), Datum("l", "notFinite", 0)>>),
                 Fields("1.4.0", <<Datum("k", "missing", 0)>>)},
     alerts |-> {<<Alert(70, "s"), Alert(60, "ms"), Alert(NoTime, "s")>>,
                 <<Alert(60, "ms"), Alert(70, "s")>>,
                 <<Alert(60, "s"), Alert(70, "ms")>>},
     errors |-> {<<"e", "e">>},
     connectivity |-> {<<>>},
     route  |-> {<<>>}]

ASSUME TimesUnambiguous
=============================================================================
