----------------------------- MODULE ReliableAck -----------------------------
(***************************************************************************)
(* What a reliable ack promises, whatever data store and whatever path it  *)
(* takes: a record is acknowledged to its vehicle only once the dispatcher *)
(* named in reliable_ack_sources reported that it took it.  Server and     *)
(* Datastores are shown to implement this.                                 *)
(***************************************************************************)
VARIABLES
    taken,          \* records their acknowledging dispatcher took
    acknowledged    \* records acknowledged to their vehicle

ackPromise == <<taken, acknowledged>>

AckInit == taken = {} /\ acknowledged = {}

(* Any number of stores may report at once; a report is never taken back. *)
Take ==
    /\ taken \subseteq taken'
    /\ UNCHANGED acknowledged

(* An ack for one record, which was taken before. *)
Acknowledge ==
    /\ \E r \in taken : acknowledged' = acknowledged \cup {r}
    /\ UNCHANGED taken

AckSpec == AckInit /\ [][Take \/ Acknowledge]_ackPromise
==============================================================================
