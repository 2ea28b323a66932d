------------------------ MODULE SocketRegistryProofs ------------------------
(***************************************************************************)
(* The registry agrees with the sockets that are connected, for every      *)
(* finite set of connections and every choice of UUIDs.                    *)
(***************************************************************************)
EXTENDS SocketRegistry, FiniteSetTheorems, TLAPS

(* The counter of registered is exact only as long as registered is finite,
   and the map only ever names registered sockets. *)
RegistryInv ==
    /\ registered \subseteq Conns
    /\ counter \in Nat
    /\ RegistryConsistent

LEMMA RegisteredFinite ==
    ASSUME registered \subseteq Conns
    PROVE  IsFiniteSet(registered) /\ Cardinality(registered) \in Nat
BY RegistryAssumption, FS_Subset, FS_CardinalityType

LEMMA RegisterPreserves ==
    ASSUME RegistryInv, NEW c \in Conns, Register(c)
    PROVE  RegistryInv'
<1> USE DEF RegistryInv, Register, RegisterSocket
<1>1. registered' \subseteq Conns /\ counter' \in Nat
  OBVIOUS
<1>2. CounterIsExact'
  BY RegisteredFinite, FS_AddElement DEF RegistryConsistent, CounterIsExact
<1>3. /\ DOMAIN sockets' = DOMAIN sockets \cup {UUID[c]}
      /\ \A u \in DOMAIN sockets' : sockets'[u] = IF u = UUID[c] THEN c ELSE sockets[u]
  BY DEF Put
<1>4. NoStaleSocket'
  BY <1>3 DEF RegistryConsistent, NoStaleSocket
<1>5. MapIsComplete'
  BY <1>3 DEF RegistryConsistent, MapIsComplete, UniqueUUIDs
<1> QED
  BY <1>1, <1>2, <1>4, <1>5 DEF RegistryConsistent

(* Only a socket of the same UUID can be stored under the key deleted. *)
LEMMA DeregisterPreserves ==
    ASSUME RegistryInv, NEW c \in Conns, Deregister(c)
    PROVE  RegistryInv'
<1> USE DEF RegistryInv, Deregister, DeregisterSocket
<1>1. registered' \subseteq Conns /\ counter' \in Nat
  OBVIOUS
<1>2. CounterIsExact'
  <2>1. Cardinality(registered') = Cardinality(registered) - 1
    BY RegisteredFinite, FS_RemoveElement
  <2>2. Cardinality(registered) # 0
    BY RegisteredFinite, FS_EmptySet
  <2> QED
    BY <2>1, <2>2, RegisteredFinite DEF RegistryConsistent, CounterIsExact
<1>3. /\ DOMAIN sockets' = DOMAIN sockets \ {UUID[c]}
      /\ \A u \in DOMAIN sockets' : sockets'[u] = sockets[u]
  BY DEF Restrict
<1>4. NoStaleSocket'
  BY <1>3 DEF RegistryConsistent, NoStaleSocket
<1>5. MapIsComplete'
  BY <1>3 DEF RegistryConsistent, MapIsComplete, UniqueUUIDs
<1> QED
  BY <1>1, <1>2, <1>4, <1>5 DEF RegistryConsistent

(* Counter and map are those of the connected sockets in every state: the drain
   can wait on the counter, and unless UUIDs are shared every connected socket
   can be found. *)
THEOREM RegistryAgrees == RegistrySpec => []RegistryConsistent
<1>1. RegistryInit => RegistryInv
  BY FS_EmptySet DEF RegistryInit, RegistryInv, RegistryConsistent, CounterIsExact,
                     NoStaleSocket, MapIsComplete
<1>2. RegistryInv /\ [RegistryNext]_registryVars => RegistryInv'
  <2> SUFFICES ASSUME RegistryInv, [RegistryNext]_registryVars PROVE RegistryInv'
    OBVIOUS
  <2>1. CASE UNCHANGED registryVars
    BY <2>1 DEF registryVars, RegistryInv, RegistryConsistent, CounterIsExact,
                NoStaleSocket, MapIsComplete
  <2> QED
    BY <2>1, RegisterPreserves, DeregisterPreserves DEF RegistryNext
<1>3. RegistryInv => RegistryConsistent
  BY DEF RegistryInv
<1> QED
  BY <1>1, <1>2, <1>3, PTL DEF RegistrySpec
=============================================================================
