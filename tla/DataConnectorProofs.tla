------------------------- MODULE DataConnectorProofs -------------------------
(***************************************************************************)
(* The file connector never loses a write it can see and never falls back, *)
(* and no admission decision is without a ground: for every set of VINs,   *)
(* every set of configurations and any number of edits.                    *)
(***************************************************************************)
EXTENDS DataConnector, TLAPS

(* What a longer history leaves as it was. *)
LEMMA EditFacts ==
    ASSUME TypeOK, NEW c \in Content, CanEdit(c)
    PROVE  /\ history' \in Seq(Content) /\ history' # <<>>
           /\ Current \in Nat \ {0}
           /\ Current' = Current + 1
           /\ \A i \in 1 .. Current : history'[i] = history[i]
BY DEF TypeOK, CanEdit, Current

LEMMA InitType == Init => TypeOK
<1> SUFFICES ASSUME Init PROVE TypeOK
  OBVIOUS
<1>1. PICK c \in Content : history = <<c>>
  BY DEF Init
<1>2. history \in Seq(Content) /\ history # <<>> /\ Current = 1
  BY <1>1 DEF Current
<1>3. config \in Config
  BY ConnectorAssumption DEF Init
<1>4. check \in [Vins -> {"none", "asking", "allowed", "refused", "failOpen"}]
  BY DEF Init
<1>5. rules \in 0 .. Current /\ fileData \in 0 .. Current /\ seen \subseteq 1 .. Current
  BY <1>2 DEF Init
<1>6. /\ starting = "file" /\ assigned = "none" /\ watch = "none" /\ pending = FALSE
      /\ updater = "idle" /\ link = "down"
  BY DEF Init
<1> QED
  BY <1>2, <1>3, <1>4, <1>5, <1>6 DEF TypeOK

LEMMA StartKeepsType ==
    ASSUME TypeOK, configure
    PROVE  TypeOK'
<1> USE DEF TypeOK, Current, fileVars, updateVars, startVars
<1>1. CASE NewFileConnector
  BY <1>1 DEF NewFileConnector, configureFailed, setCapability
<1>2. CASE setupWatcher
  BY <1>2 DEF setupWatcher, configureFailed, setCapability
<1>3. CASE SkipFile
  BY <1>3 DEF SkipFile
<1>4. CASE NewNatsConnector
  BY <1>4 DEF NewNatsConnector, configureFailed, setCapability
<1> QED
  BY <1>1, <1>2, <1>3, <1>4 DEF configure

LEMMA EditKeepsType ==
    ASSUME TypeOK, NEW c \in Content, WriteFile(c) \/ ReplaceFile(c)
    PROVE  TypeOK'
<1>1. CanEdit(c)
  BY DEF WriteFile, ReplaceFile
<1>2. /\ history' \in Seq(Content) /\ history' # <<>>
      /\ Current \in Nat \ {0}
      /\ Current' = Current + 1
  BY <1>1, EditFacts
<1>3. /\ UNCHANGED <<startVars, updateVars, link, check>>
      /\ watch' \in {"none", "watching", "lost", "closed"}
      /\ pending' \in BOOLEAN
      /\ seen' \subseteq seen \cup {Current + 1}
  BY DEF TypeOK, WriteFile, ReplaceFile
<1>4. /\ rules' \in 0 .. Current' /\ fileData' \in 0 .. Current'
      /\ seen' \subseteq 1 .. Current'
  BY <1>2, <1>3 DEF TypeOK, updateVars
<1> QED
  BY <1>2, <1>3, <1>4 DEF TypeOK, startVars, updateVars

LEMMA UpdateKeepsType ==
    ASSUME TypeOK, processUpdates
    PROVE  TypeOK'
<1> USE DEF TypeOK, Current, fileVars, startVars
<1>1. CASE TakeEvent
  BY <1>1 DEF TakeEvent
<1>2. CASE processFile
  BY <1>2 DEF processFile
<1>3. CASE processAllowedVins
  BY <1>3 DEF processAllowedVins
<1> QED
  BY <1>1, <1>2, <1>3 DEF processUpdates

LEMMA CheckKeepsType ==
    ASSUME TypeOK, LinkChanges \/ Close \/ \E vin \in Vins : VinAllowed(vin)
    PROVE  TypeOK'
<1> USE DEF TypeOK, Current, fileVars, updateVars, startVars
<1>1. CASE LinkChanges
  BY <1>1 DEF LinkChanges
<1>2. ASSUME NEW vin \in Vins, VinAllowed(vin)
      PROVE  TypeOK'
  <2>1. PICK answer \in {"asking", "allowed", "refused", "failOpen"} : Decide(vin, answer)
    BY <1>2 DEF VinAllowed, VinAllowedByFile, VinAllowedByDefault, VinAllowedByStandIn,
                AskResponder, RequestMsg
  <2> QED
    BY <2>1 DEF Decide
<1>3. CASE Close
  BY <1>3 DEF Close
<1> QED
  BY <1>1, <1>2, <1>3

(* Every variable of the connectors keeps its type. *)
THEOREM ConnectorTypeCorrect == Spec => []TypeOK
<1>1. TypeOK /\ [Next]_connectorVars => TypeOK'
  <2> SUFFICES ASSUME TypeOK, [Next]_connectorVars PROVE TypeOK'
    OBVIOUS
  <2>1. CASE UNCHANGED connectorVars
    BY <2>1 DEF TypeOK, Current, connectorVars, startVars, fileVars, updateVars
  <2>2. CASE Next
    BY <2>2, StartKeepsType, EditKeepsType, UpdateKeepsType, CheckKeepsType DEF Next
  <2> QED
    BY <2>1, <2>2
<1> QED
  BY <1>1, InitType, PTL DEF Spec

----------------------------------------------------------------------------
(* The rules and the file.                                                 *)

LEMMA InitUpdate == Init => UpdateInv
BY DEF Init, UpdateInv, Current

LEMMA StartKeepsUpdate ==
    ASSUME TypeOK, UpdateInv, configure
    PROVE  UpdateInv'
<1> USE DEF TypeOK, UpdateInv, Current, Valid, fileVars, updateVars, startVars
<1>1. CASE NewFileConnector
  BY <1>1 DEF NewFileConnector
<1>2. CASE setupWatcher
  BY <1>2 DEF setupWatcher
<1>3. CASE SkipFile
  BY <1>3 DEF SkipFile
<1>4. CASE NewNatsConnector
  BY <1>4 DEF NewNatsConnector
<1> QED
  BY <1>1, <1>2, <1>3, <1>4 DEF configure

(* The new content is announced, or was not written under the watch. *)
LEMMA EditKeepsUpdate ==
    ASSUME TypeOK, UpdateInv, NEW c \in Content, WriteFile(c) \/ ReplaceFile(c)
    PROVE  UpdateInv'
<1>1. CanEdit(c)
  BY DEF WriteFile, ReplaceFile
<1>2. /\ Current \in Nat \ {0}
      /\ Current' = Current + 1
      /\ \A i \in 1 .. Current : history'[i] = history[i]
  BY <1>1, EditFacts
<1>3. \A i \in 1 .. Current : Valid(i)' <=> Valid(i)
  BY <1>2 DEF Valid
<1>4. UNCHANGED <<starting, rules, updater, fileData>>
  BY DEF WriteFile, ReplaceFile, startVars, updateVars
<1>5. /\ rules' # 0 => Valid(rules)'
      /\ updater' = "read" => fileData' # 0 /\ Valid(fileData)' /\ rules' <= fileData'
  <2>1. rules # 0 => rules \in 1 .. Current
    BY <1>2 DEF TypeOK
  <2>2. updater = "read" => fileData \in 1 .. Current
    BY <1>2 DEF TypeOK, UpdateInv
  <2> QED
    BY <1>3, <1>4, <2>1, <2>2 DEF UpdateInv, Valid
<1>6. pending' \/ Current' \notin seen'
  BY <1>2 DEF TypeOK, WriteFile, ReplaceFile
<1>7. starting' \in {"file", "watch"} =>
        watch' = "none" /\ ~pending' /\ updater' = "idle" /\ seen' = {}
  BY <1>4 DEF UpdateInv, WriteFile, ReplaceFile
<1>8. watch' = "none" => seen' = {}
  BY DEF UpdateInv, WriteFile, ReplaceFile
<1> QED
  BY <1>4, <1>5, <1>6, <1>7, <1>8 DEF UpdateInv

LEMMA UpdateKeepsUpdate ==
    ASSUME TypeOK, UpdateInv, processUpdates
    PROVE  UpdateInv'
<1> USE DEF TypeOK, UpdateInv, Current, Valid, fileVars, startVars
<1>1. CASE TakeEvent
  BY <1>1 DEF TakeEvent
<1>2. CASE processFile
  BY <1>2 DEF processFile
<1>3. CASE processAllowedVins
  BY <1>3 DEF processAllowedVins
<1> QED
  BY <1>1, <1>2, <1>3 DEF processUpdates

LEMMA OthersKeepUpdate ==
    ASSUME UpdateInv,
           \/ LinkChanges
           \/ \E vin \in Vins : VinAllowed(vin)
           \/ UNCHANGED connectorVars
    PROVE  UpdateInv'
<1>1. UNCHANGED <<starting, fileVars, updateVars>>
  BY DEF LinkChanges, VinAllowed, VinAllowedByFile, VinAllowedByDefault,
         VinAllowedByStandIn, AskResponder, RequestMsg, Decide, connectorVars, startVars
<1> QED
  BY <1>1 DEF UpdateInv, Current, Valid, fileVars, updateVars

LEMMA CloseKeepsUpdate ==
    ASSUME UpdateInv, Close
    PROVE  UpdateInv'
<1>1. UNCHANGED <<starting, history, seen, updateVars>> /\ starting = "ready"
  BY DEF Close, startVars
<1>2. watch' = "closed" \/ (watch = "none" /\ watch' = "none")
  BY DEF Close
<1> QED
  BY <1>1, <1>2 DEF UpdateInv, Current, Valid, updateVars

LEMMA UpdateInvariant == Spec => [](TypeOK /\ UpdateInv)
<1>1. TypeOK /\ UpdateInv /\ [Next]_connectorVars => UpdateInv'
  BY StartKeepsUpdate, EditKeepsUpdate, UpdateKeepsUpdate, OthersKeepUpdate,
     CloseKeepsUpdate DEF Next
<1> QED
  BY <1>1, InitUpdate, ConnectorTypeCorrect, PTL DEF Spec

(* Once the watcher is idle the rules are the file's, if it was written under
   the watch: no interleaving of writes, events, reads and assignments, and no
   half-written file, makes it miss the last one. *)
THEOREM SettledRules == Spec => []SettledRulesAreCurrent
<1>1. UpdateInv => SettledRulesAreCurrent
  BY DEF UpdateInv, SettledRulesAreCurrent
<1> QED
  BY <1>1, UpdateInvariant, PTL

(* The rules in force only move forward through the valid contents. *)
THEOREM RulesForward == Spec => RulesMoveForward
<1>1. TypeOK /\ UpdateInv /\ UpdateInv' /\ [Next]_connectorVars
        => [rules' >= rules /\ (rules # 0 => Valid(rules))']_connectorVars
  <2> SUFFICES ASSUME TypeOK, UpdateInv, UpdateInv', [Next]_connectorVars
               PROVE  rules' >= rules
    BY DEF UpdateInv
  <2>1. CASE UNCHANGED rules
    BY <2>1 DEF TypeOK, Current
  <2>2. CASE NewFileConnector
    BY <2>2 DEF NewFileConnector, UpdateInv, TypeOK, Current
  <2>3. CASE processAllowedVins
    BY <2>3 DEF processAllowedVins, UpdateInv
  <2>4. UNCHANGED rules \/ NewFileConnector \/ processAllowedVins
    BY DEF Next, configure, setupWatcher, SkipFile, NewNatsConnector, processUpdates,
           TakeEvent, processFile, LinkChanges, Close, WriteFile, ReplaceFile, VinAllowed,
           VinAllowedByFile, VinAllowedByDefault, VinAllowedByStandIn, AskResponder,
           RequestMsg, Decide, updateVars, connectorVars
  <2> QED
    BY <2>1, <2>2, <2>3, <2>4
<1> QED
  BY <1>1, UpdateInvariant, PTL DEF RulesMoveForward, Spec

----------------------------------------------------------------------------
(* The decisions.                                                          *)

GroundInv == AssignmentInv /\ DecisionsGrounded

LEMMA InitGround == Init => GroundInv
BY DEF Init, GroundInv, AssignmentInv, DecisionsGrounded

(* Before the first check: nobody has a decision to be grounded. *)
LEMMA StartKeepsGround ==
    ASSUME TypeOK, GroundInv, configure
    PROVE  GroundInv'
<1> USE DEF GroundInv, AssignmentInv, configureFailed, setCapability
<1>1. starting # "ready" /\ UNCHANGED <<check, config>>
  BY DEF configure, NewFileConnector, setupWatcher, SkipFile, NewNatsConnector
<1>2. \A vin \in Vins : check'[vin] = "none"
  BY <1>1
<1>3. DecisionsGrounded'
  BY <1>2 DEF DecisionsGrounded
<1>4. AssignmentInv'
  <2>1. CASE NewFileConnector
    BY <2>1, <1>2 DEF NewFileConnector, TypeOK, Current
  <2>2. CASE setupWatcher
    BY <2>2, <1>2 DEF setupWatcher, updateVars
  <2>3. CASE SkipFile
    BY <2>3, <1>2 DEF SkipFile, updateVars
  <2>4. CASE NewNatsConnector
    BY <2>4, <1>2 DEF NewNatsConnector, updateVars, TypeOK
  <2> QED
    BY <2>1, <2>2, <2>3, <2>4 DEF configure
<1> QED
  BY <1>3, <1>4

(* A content that grounded a decision stays in the history. *)
LEMMA EditKeepsGround ==
    ASSUME TypeOK, GroundInv, NEW c \in Content, WriteFile(c) \/ ReplaceFile(c)
    PROVE  GroundInv'
<1>1. CanEdit(c)
  BY DEF WriteFile, ReplaceFile
<1>2. /\ history' \in Seq(Content)
      /\ Current \in Nat \ {0} /\ Current' = Current + 1
      /\ \A i \in 1 .. Current : history'[i] = history[i]
  BY <1>1, EditFacts
<1>3. UNCHANGED <<startVars, rules, check>>
  BY DEF WriteFile, ReplaceFile, updateVars
<1>4. DOMAIN history = 1 .. Current /\ DOMAIN history' = 1 .. Current'
  BY <1>2 DEF TypeOK, Current
<1>5. \A i \in DOMAIN history :
        i \in DOMAIN history' /\ (Valid(i)' <=> Valid(i)) /\ history'[i] = history[i]
  BY <1>2, <1>4 DEF Valid
<1>6. DecisionsGrounded'
  BY <1>3, <1>5 DEF GroundInv, DecisionsGrounded, startVars
<1> QED
  BY <1>3, <1>6 DEF GroundInv, AssignmentInv, startVars

LEMMA UpdateKeepsGround ==
    ASSUME UpdateInv, GroundInv, processUpdates
    PROVE  GroundInv'
<1>1. UNCHANGED <<startVars, history, check>>
  BY DEF processUpdates, TakeEvent, processFile, processAllowedVins, fileVars
<1>2. DecisionsGrounded'
  BY <1>1 DEF GroundInv, DecisionsGrounded, Valid, startVars
<1>3. rules # 0 => rules' # 0
  BY DEF processUpdates, TakeEvent, processFile, processAllowedVins, UpdateInv
<1> QED
  BY <1>1, <1>2, <1>3 DEF GroundInv, AssignmentInv, startVars

LEMMA CheckKeepsGround ==
    ASSUME TypeOK, UpdateInv, GroundInv, NEW vin \in Vins, VinAllowed(vin)
    PROVE  GroundInv'
<1>1. UNCHANGED <<startVars, history, rules>>
  BY DEF VinAllowed, VinAllowedByFile, VinAllowedByDefault, VinAllowedByStandIn,
         AskResponder, RequestMsg, Decide, fileVars, updateVars
<1>2. starting = "ready"
  BY DEF VinAllowed, VinAllowedByFile, VinAllowedByDefault, VinAllowedByStandIn,
         AskResponder, RequestMsg, Asked, GroundInv, AssignmentInv
<1>3. PICK answer : check' = [check EXCEPT ![vin] = answer]
  BY DEF VinAllowed, VinAllowedByFile, VinAllowedByDefault, VinAllowedByStandIn,
         AskResponder, RequestMsg, Decide
<1>4. \A w \in Vins \ {vin} : check'[w] = check[w]
  BY <1>3 DEF TypeOK
<1>5. AssignmentInv'
  <2>1. check'[vin] = "asking" => assigned = "nats"
    BY DEF VinAllowed, VinAllowedByFile, VinAllowedByDefault, VinAllowedByStandIn,
           AskResponder, RequestMsg, Decide, TypeOK
  <2> QED
    BY <1>1, <1>2, <1>4, <2>1 DEF GroundInv, AssignmentInv, startVars
<1>6. /\ check'[vin] = "refused" =>
            \/ assigned = "nats"
            \/ /\ assigned = "file"
               /\ \E i \in DOMAIN history : Valid(i) /\ ~Allows(history[i], vin)
      /\ check'[vin] = "allowed" =>
            \/ assigned = "nats"
            \/ /\ assigned = "file"
               /\ \E i \in DOMAIN history : Valid(i) /\ Allows(history[i], vin)
            \/ "vin_allowed" \notin {config.file, config.nats}
  <2>1. CASE VinAllowedByFile(vin)
    <3>1. rules \in DOMAIN history /\ Valid(rules)
      BY <2>1 DEF VinAllowedByFile, GroundInv, AssignmentInv, UpdateInv, TypeOK, Current
    <3> QED
      BY <2>1, <3>1 DEF VinAllowedByFile, Decide, TypeOK
  <2>2. CASE VinAllowedByDefault(vin)
    BY <2>2, <1>2 DEF VinAllowedByDefault, Decide, TypeOK, GroundInv, AssignmentInv
  <2>3. CASE VinAllowedByStandIn(vin)
    BY <2>3 DEF VinAllowedByStandIn, Decide, TypeOK
  <2>4. CASE AskResponder(vin)
    BY <2>4 DEF AskResponder, Decide, TypeOK
  <2>5. CASE RequestMsg(vin)
    BY <2>5 DEF RequestMsg, GroundInv, AssignmentInv
  <2> QED
    BY <2>1, <2>2, <2>3, <2>4, <2>5 DEF VinAllowed
<1>7. DecisionsGrounded'
  BY <1>1, <1>4, <1>6 DEF GroundInv, DecisionsGrounded, Valid, startVars
<1> QED
  BY <1>5, <1>7 DEF GroundInv

(* Every refusal and every silent admission has its ground, for every mix of
   connectors, failed or not, and every course of the file. *)
THEOREM GroundedDecisions == Spec => []DecisionsGrounded
<1>1. TypeOK /\ UpdateInv /\ GroundInv /\ [Next]_connectorVars => GroundInv'
  <2> SUFFICES ASSUME TypeOK, UpdateInv, GroundInv, [Next]_connectorVars
               PROVE  GroundInv'
    OBVIOUS
  <2>1. CASE UNCHANGED connectorVars \/ LinkChanges \/ Close
    BY <2>1 DEF connectorVars, LinkChanges, Close, fileVars, updateVars, startVars, GroundInv,
                AssignmentInv, DecisionsGrounded, Valid
  <2>2. CASE Next
    BY <2>1, <2>2, StartKeepsGround, EditKeepsGround, UpdateKeepsGround,
       CheckKeepsGround DEF Next
  <2> QED
    BY <2>1, <2>2
<1>2. GroundInv => DecisionsGrounded
  BY DEF GroundInv
<1> QED
  BY <1>1, <1>2, InitGround, UpdateInvariant, PTL DEF Spec
=============================================================================
