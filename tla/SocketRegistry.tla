--------------------------- MODULE SocketRegistry ---------------------------
(***************************************************************************)
(* server/streaming/socket_registry.go: the map from socket UUID to socket *)
(* and the counter beside it, both changed under one mutex.  A socket's    *)
(* UUID is the X-TXID header of its request when that parses, so the       *)
(* clients choose it: UUID is any function of the connections.             *)
(***************************************************************************)
EXTENDS Naturals, FiniteSets, Functions

CONSTANTS
    Conns,
    UUID    \* UUID[c] is the UUID of the SocketManager of connection c

ASSUME RegistryAssumption ==
    /\ IsFiniteSet(Conns)
    /\ DOMAIN UUID = Conns

VARIABLES
    sockets,    \* UUID -> socket, for the UUIDs registered
    counter,    \* number of connected sockets
    registered  \* sockets between RegisterSocket and DeregisterSocket

registryVars == <<sockets, counter, registered>>

RegistryInit ==
    /\ sockets = << >>
    /\ counter = 0
    /\ registered = {}

Put(f, key, value) == [k \in DOMAIN f \cup {key} |-> IF k = key THEN value ELSE f[k]]

(* Mutant: counted but not put into the map. *)
RegisterSocket_OnlyCounts(c) ==
    /\ counter' = counter + 1
    /\ UNCHANGED sockets

(* Mutant: the counter is the length of the map, which a shared UUID shortens. *)
RegisterSocket_CountsKeys(c) ==
    /\ sockets' = Put(sockets, UUID[c], c)
    /\ counter' = Cardinality(DOMAIN sockets')

RegisterSocket(c) ==
    /\ sockets' = Put(sockets, UUID[c], c)
    /\ counter' = counter + 1

(* Mutant: the counter only grows. *)
DeregisterSocket_NoDecrement(c) ==
    /\ sockets' = Restrict(sockets, DOMAIN sockets \ {UUID[c]})
    /\ UNCHANGED counter

(* Deletes by UUID, whichever socket is stored under it. *)
DeregisterSocket(c) ==
    /\ sockets' = Restrict(sockets, DOMAIN sockets \ {UUID[c]})
    /\ counter' = IF counter > 0 THEN counter - 1 ELSE counter

Connected(uuid) == uuid \in DOMAIN sockets

GetSocket(uuid) == sockets[uuid]

NumConnectedSockets == counter

(* The sockets CloseAllSockets copies under the read lock. *)
Snapshot == Range(sockets)

----------------------------------------------------------------------------
(* A connection deregisters after it registered, once each: ServeBinaryWs defers
   the second right after the first.  It may be reused for a later one. *)
Register(c) ==
    /\ c \notin registered
    /\ RegisterSocket(c)
    /\ registered' = registered \cup {c}

Deregister(c) ==
    /\ c \in registered
    /\ DeregisterSocket(c)
    /\ registered' = registered \ {c}

RegistryNext == \E c \in Conns : Register(c) \/ Deregister(c)

RegistrySpec == RegistryInit /\ [][RegistryNext]_registryVars

----------------------------------------------------------------------------
(* The counter the drain waits on is the number of sockets between
   registration and deregistration, however the clients chose their UUIDs. *)
CounterIsExact == counter = Cardinality(registered)

(* GetSocket never returns a socket that has deregistered, nor one with
   another UUID. *)
NoStaleSocket ==
    \A u \in DOMAIN sockets : sockets[u] \in registered /\ UUID[sockets[u]] = u

(* When no two sockets share a UUID, the map holds every connected one, so that
   CloseAllSockets asks them all and every ack finds its own. *)
UniqueUUIDs == \A c, d \in Conns : UUID[c] = UUID[d] => c = d

MapIsComplete ==
    UniqueUUIDs => \A c \in registered : UUID[c] \in DOMAIN sockets

(* The registry agrees with the sockets that are really connected. *)
RegistryConsistent == CounterIsExact /\ NoStaleSocket /\ MapIsComplete
=============================================================================
