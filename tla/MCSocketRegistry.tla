------------------------- MODULE MCSocketRegistry -------------------------
(***************************************************************************)
(* Instance of SocketRegistry for TLC: five connections of which two and   *)
(* three share a UUID, so that registrations overwrite one another and     *)
(* deregistrations delete one another's entries.                           *)
(***************************************************************************)
EXTENDS SocketRegistry

MCConns == 1 .. 5
MCUUID == [c \in MCConns |-> IF c <= 2 THEN "a" ELSE "b"]
=============================================================================
