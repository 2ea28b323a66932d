----------------------------- MODULE MqttPayload -----------------------------
(***************************************************************************)
(* What the mqtt dispatcher publishes for one record: one message for each *)
(* field of a "V" record, for each alert name of an "alerts" record its    *)
(* current state and its history, for each error one, and one for a        *)
(* connectivity event (datastore/mqtt/mqtt_payload.go), after the record   *)
(* has been transformed (telemetry/record.go): the timestamps of alerts    *)
(* are brought to one unit, the braking states of an old client to the     *)
(* current numbers.                                                        *)
(*                                                                         *)
(* A payload is what the vehicle sent.  "V": the client's version and a    *)
(* sequence of fields [key, value]; a value [kind, n] is "plain",          *)
(* "notFinite" (NaN or an infinity, which encoding/json refuses),          *)
(* "missing", or "braking", the n-th state of the automatic emergency      *)
(* braking.  "alerts": a sequence of [name, at, unit]: it started at the   *)
(* instant `at', in milliseconds, given in seconds or in milliseconds, or  *)
(* has no start; the text form, which drops fractions of a second, is left *)
(* out.  "errors": a sequence of names.                                    *)
(***************************************************************************)
EXTENDS Naturals, SequencesExt

CONSTANTS
    MaxSecondsInDuration,   \* 315576000000: seconds beyond it are milliseconds
    MillisPerSecond,
    NoTime                  \* a nil timestamp

ASSUME PayloadAssumption ==
    MaxSecondsInDuration \in Nat /\ MillisPerSecond \in Nat \ {0} /\ NoTime \notin Nat

(* What a decoded payload is made of. *)
Data == [key : STRING,
         value : [kind : {"plain", "notFinite", "missing", "braking"}, n : Nat]]

Alerts == [name : STRING, at : Nat \cup {NoTime}, unit : {"s", "ms"}]

(* The seconds field of the timestamp as it arrives. *)
Wire(alert) ==
    IF alert.at = NoTime \/ alert.unit = "ms" THEN alert.at
    ELSE alert.at \div MillisPerSecond

(* What the unit can be told from: milliseconds lie beyond MaxSecondsInDuration
   (for a real clock, after 1979); seconds, which are whole here, do not. *)
Unambiguous(alert) ==
    alert.at # NoTime =>
        IF alert.unit = "ms" THEN alert.at >= MaxSecondsInDuration
        ELSE Wire(alert) < MaxSecondsInDuration /\ alert.at % MillisPerSecond = 0

(* Mutant: a timestamp is always in seconds. *)
convertTimestamp_SecondsOnly(input) ==
    IF input = NoTime THEN NoTime ELSE input * MillisPerSecond

convertTimestamp(input) ==
    IF input = NoTime THEN NoTime
    ELSE IF input < MaxSecondsInDuration THEN input * MillisPerSecond ELSE input

transformTimestamp(alerts) ==
    [i \in DOMAIN alerts |->
        [name |-> alerts[i].name, startedAt |-> convertTimestamp(Wire(alerts[i]))]]

(* The map after m[key] = value. *)
With(m, key, value) == [k \in DOMAIN m \cup {key} |-> IF k = key THEN value ELSE m[k]]

(* The latest alert of each name: a later start replaces an earlier one, an
   equal one does not, and an alert without a start is never current. *)
MoreRecent(a, current) ==
    /\ a.startedAt # NoTime
    /\ a.name \in DOMAIN current => a.startedAt > current[a.name].startedAt

alertsCurrentState(alerts) ==
    LET after[i \in 0 .. Len(alerts)] ==
            IF i = 0 THEN << >>
            ELSE IF MoreRecent(alerts[i], after[i - 1])
                 THEN With(after[i - 1], alerts[i].name, alerts[i]) ELSE after[i - 1]
    IN  after[Len(alerts)]

alertsHistory(alerts, name) ==
    LET after[i \in 0 .. Len(alerts)] ==
            IF i = 0 THEN <<>>
            ELSE IF alerts[i].name = name THEN Append(after[i - 1], alerts[i]) ELSE after[i - 1]
    IN  after[Len(alerts)]

(* A message: its topic, its value, and whether the value can be marshalled. *)
processVehicleAlerts(payload) ==
    LET alerts  == transformTimestamp(payload)
        current == alertsCurrentState(alerts)
    IN  {[topic |-> <<n, "current">>, value |-> <<current[n]>>, marshals |-> TRUE] :
            n \in DOMAIN current}
          \cup {[topic |-> <<n, "history">>, value |-> alertsHistory(alerts, n),
                 marshals |-> TRUE] : n \in {alerts[i].name : i \in DOMAIN alerts}}

(* One message for each, also when two have the same name. *)
processVehicleErrors(payload) ==
    {[topic |-> <<payload[i], "errors">>, value |-> <<i>>, marshals |-> TRUE] :
        i \in DOMAIN payload}

processVehicleConnectivity ==
    {[topic |-> <<"connectivity">>, value |-> <<>>, marshals |-> TRUE]}

Braking(value, n) == IF value.kind = "braking" THEN [value EXCEPT !.n = n] ELSE value

(* Mutant: the states of every client are shifted. *)
transformLegacyAutomaticEmergencyBraking_AllClients(version, data) ==
    [i \in DOMAIN data |->
        [data[i] EXCEPT !.value = Braking(@, (@.n + 1) % 5)]]

(* Client 1.3.0 has Unknown last, the others first. *)
transformLegacyAutomaticEmergencyBraking(version, data) ==
    [i \in DOMAIN data |->
        IF version = "1.3.0" /\ data[i].value.n \in 0 .. 4
        THEN [data[i] EXCEPT !.value = Braking(@, (@.n + 1) % 5)]
        ELSE data[i]]

(* A key sent twice keeps its last value. *)
payloadToMap(data) ==
    LET after[i \in 0 .. Len(data)] ==
            IF i = 0 THEN << >> ELSE With(after[i - 1], data[i].key, data[i].value)
    IN  after[Len(data)]

processVehicleFields(payload) ==
    LET fields == payloadToMap(
                    transformLegacyAutomaticEmergencyBraking(payload.version, payload.data))
    IN  {[topic |-> <<key, "v">>, value |-> <<fields[key]>>,
          marshals |-> fields[key].kind # "notFinite"] : key \in DOMAIN fields}

(* getDatumValue dereferences the value of every datum. *)
PayloadPanics(topic, payload) ==
    topic = "V" /\ \E i \in DOMAIN payload.data : payload.data[i].value.kind = "missing"

(* Other record types have no message type: mqtt does not know what to do. *)
PayloadMessages(topic, payload) ==
    CASE topic = "V"            -> processVehicleFields(payload)
      [] topic = "alerts"       -> processVehicleAlerts(payload)
      [] topic = "errors"       -> processVehicleErrors(payload)
      [] topic = "connectivity" -> processVehicleConnectivity
      [] OTHER                  -> {}
==============================================================================
