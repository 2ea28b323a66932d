-------------------------- MODULE MCDataConnector --------------------------
(***************************************************************************)
(* Instances of DataConnector for TLC.                                     *)
(***************************************************************************)
EXTENDS DataConnector

CONSTANTS v1, v2

TwoVins == {v1, v2}
OneVin == {v1}

(* Either connector alone, both for vin_allowed, one for something else. *)
MCConfigs ==
    {[file |-> f, nats |-> n] : f \in {"absent", "vin_allowed"}, n \in Uses}

OnlyFile == {[file |-> "vin_allowed", nats |-> "absent"]}
=============================================================================
