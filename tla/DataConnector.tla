--------------------------- MODULE DataConnector ---------------------------
(***************************************************************************)
(* The data connectors behind Server's Reject: connector/connector.go,     *)
(* which gives the vin_allowed capability to a connector or to a stand-in  *)
(* for one that failed, the file connector with its watcher goroutine, and *)
(* the nats connector with its request to a responder.                     *)
(*                                                                         *)
(* The file is its history, the contents it has had: a list loaded into    *)
(* the connector is named by its position there.                           *)
(***************************************************************************)
EXTENDS Naturals, Sequences, SequencesExt

CONSTANTS
    Vins,
    Configs,  \* the configurations to start from
    MaxEdits  \* bound on the changes of the file

Uses == {"absent", "other", "vin_allowed"}

(* What a connector's capabilities say; "absent" is no capability at all. *)
Config == [file : Uses, nats : Uses]

(* A content of the file: no JSON (or no file), no allowed_vins, or a list. *)
Content ==
    {[kind |-> "invalid", vins |-> {}], [kind |-> "noList", vins |-> {}]}
      \cup [kind : {"list"}, vins : SUBSET Vins]

ASSUME ConnectorAssumption ==
    /\ Configs \subseteq Config
    /\ MaxEdits \in Nat

VARIABLES
    config,
    starting,  \* where configure is: "file", "watch", "nats" or "ready"
    assigned,  \* VinAllowedConnector
    history,   \* every content the file has had
    rules,     \* allowedVins: the content it was built from, 0 for none yet
    watch,     \* the watch on the file: "none", "watching", "lost" or "closed"
    pending,   \* a Write event waits for processUpdates
    seen,      \* contents written under the watch
    updater,   \* where processUpdates is
    fileData,  \* the content it read
    link,      \* the nats connector's connection
    check      \* the vin_allowed check of each VIN's latest connection

fileVars == <<history, watch, pending, seen>>
updateVars == <<rules, updater, fileData>>
startVars == <<config, starting, assigned>>
connectorVars == <<startVars, fileVars, updateVars, link, check>>

Valid(i) == history[i].kind # "invalid"

Current == Len(history)

Init ==
    /\ config \in Configs
    /\ starting = "file"
    /\ assigned = "none"
    /\ \E c \in Content : history = <<c>>
    /\ rules = 0 /\ updater = "idle" /\ fileData = 0
    /\ watch = "none" /\ pending = FALSE /\ seen = {}
    /\ link = "down"
    /\ check = [v \in Vins |-> "none"]

----------------------------------------------------------------------------
(* NewProvider.                                                            *)

(* The last connector configured with vin_allowed gets it. *)
setCapability(use, connector) ==
    assigned' = IF use = "vin_allowed" THEN connector ELSE assigned

(* Mutant: a connector that could not be built is as good as not configured. *)
configureFailed_Forgotten(use, standIn) == UNCHANGED assigned

(* A connector that could not be built leaves its stand-in. *)
configureFailed(use, standIn) == setCapability(use, standIn)

(* NewConnector of the file connector reads the file first ... *)
NewFileConnector ==
    /\ starting = "file" /\ config.file # "absent"
    /\ \/ /\ Valid(Current)
          /\ rules' = Current
          /\ starting' = "watch"
          /\ UNCHANGED assigned
       \/ /\ ~Valid(Current)
          /\ configureFailed(config.file, "noFile")
          /\ starting' = "nats"
          /\ UNCHANGED rules
    /\ UNCHANGED <<config, fileVars, updater, fileData, link, check>>

(* ... and watches it second; the watch may be refused. *)
setupWatcher ==
    /\ starting = "watch"
    /\ starting' = "nats"
    /\ \/ /\ watch' = "watching"
          /\ setCapability(config.file, "file")
       \/ /\ configureFailed(config.file, "noFile")
          /\ UNCHANGED watch
    /\ UNCHANGED <<config, history, pending, seen, updateVars, link, check>>

SkipFile ==
    /\ starting = "file" /\ config.file = "absent"
    /\ starting' = "nats"
    /\ UNCHANGED <<config, assigned, fileVars, updateVars, link, check>>

(* The connection may come up later: only bad options fail. *)
NewNatsConnector ==
    /\ starting = "nats"
    /\ starting' = "ready"
    /\ \/ config.nats = "absent" /\ UNCHANGED <<assigned, link>>
       \/ /\ config.nats # "absent"
          /\ setCapability(config.nats, "nats")
          /\ link' \in {"down", "up"}
       \/ /\ config.nats # "absent"
          /\ configureFailed(config.nats, "noNats")
          /\ UNCHANGED link
    /\ UNCHANGED <<config, fileVars, updateVars, check>>

----------------------------------------------------------------------------
(* The file and its watcher.                                               *)

CanEdit(c) == Current <= MaxEdits /\ c # Last(history) /\ history' = Append(history, c)

(* A write to the file in place.  os.WriteFile is two: it empties the file,
   which leaves no JSON, and then fills it. *)
WriteFile(c) ==
    /\ CanEdit(c)
    /\ IF watch = "watching"
       THEN pending' = TRUE /\ seen' = seen \cup {Current + 1}
       ELSE UNCHANGED <<pending, seen>>
    /\ UNCHANGED <<startVars, watch, updateVars, link, check>>

(* Another file takes its name, or none does: the watch was on the old one. *)
ReplaceFile(c) ==
    /\ CanEdit(c)
    /\ watch' = IF watch = "watching" THEN "lost" ELSE watch
    /\ UNCHANGED <<startVars, pending, seen, updateVars, link, check>>

(* Mutant: processUpdates has no loop and returns after one update. *)
TakeEvent_Once ==
    /\ pending /\ updater = "idle" /\ fileData = 0
    /\ pending' = FALSE
    /\ updater' = "reading"
    /\ UNCHANGED <<startVars, history, watch, seen, rules, fileData, link, check>>

(* processUpdates takes a Write event; several unread ones are as good as one. *)
TakeEvent ==
    /\ pending /\ updater = "idle"
    /\ pending' = FALSE
    /\ updater' = "reading"
    /\ UNCHANGED <<startVars, history, watch, seen, rules, fileData, link, check>>

(* Mutant: an invalid file empties the list. *)
processFile_InvalidApplies ==
    /\ updater = "reading"
    /\ fileData' = Current
    /\ updater' = "read"
    /\ UNCHANGED <<startVars, fileVars, rules, link, check>>

(* processFile reads the file as it is by now; an error is only logged. *)
processFile ==
    /\ updater = "reading"
    /\ IF Valid(Current) THEN fileData' = Current /\ updater' = "read"
                         ELSE updater' = "idle" /\ UNCHANGED fileData
    /\ UNCHANGED <<startVars, fileVars, rules, link, check>>

(* Mutant: events that came while the file was read are thought to be covered. *)
processAllowedVins_DrainsEvents ==
    /\ updater = "read"
    /\ rules' = fileData
    /\ updater' = "idle"
    /\ pending' = FALSE
    /\ UNCHANGED <<startVars, history, watch, seen, fileData, link, check>>

(* The new list replaces the old in one assignment of allowedVins. *)
processAllowedVins ==
    /\ updater = "read"
    /\ rules' = fileData
    /\ updater' = "idle"
    /\ UNCHANGED <<startVars, fileVars, fileData, link, check>>

----------------------------------------------------------------------------
(* Provider.VinAllowed, asked by isConnectionAllowed.  "failOpen" is an     *)
(* admission returned together with an error, which is logged and counted. *)

Allows(content, vin) == content.kind = "noList" \/ vin \in content.vins

Asked(vin) == starting = "ready" /\ check[vin] # "asking"

Decide(vin, answer) ==
    /\ check' = [check EXCEPT ![vin] = answer]
    /\ UNCHANGED <<startVars, fileVars, updateVars, link>>

(* allowedVins is read without a lock; the two uses compile to one load. *)
VinAllowedByFile(vin) ==
    /\ Asked(vin) /\ assigned = "file"
    /\ Decide(vin, IF Allows(history[rules], vin) THEN "allowed" ELSE "refused")

VinAllowedByDefault(vin) ==
    /\ Asked(vin) /\ assigned = "none"
    /\ Decide(vin, "allowed")

(* Mutant: the stand-in returns its error and no decision. *)
VinAllowedByStandIn_OnlyError(vin) ==
    /\ Asked(vin) /\ assigned \in {"noFile", "noNats"}
    /\ Decide(vin, "error")

VinAllowedByStandIn(vin) ==
    /\ Asked(vin) /\ assigned \in {"noFile", "noNats"}
    /\ Decide(vin, "failOpen")

(* Without a connection there is no request. *)
AskResponder(vin) ==
    /\ Asked(vin) /\ assigned = "nats"
    /\ Decide(vin, IF link = "up" THEN "asking" ELSE "failOpen")

(* The reply, or none within VinAllowedTimeout, or one that makes no sense. *)
RequestMsg(vin) ==
    /\ check[vin] = "asking"
    /\ \E answer \in {"allowed", "refused", "failOpen"} : Decide(vin, answer)

LinkChanges ==
    /\ assigned = "nats" /\ starting = "ready" /\ link # "closed"
    /\ link' = IF link = "up" THEN "down" ELSE "up"
    /\ UNCHANGED <<startVars, fileVars, updateVars, check>>

(* startServer closes the connectors on its way out; sessions may still ask.
   An event nobody has taken is gone, an update that has begun is finished. *)
Close ==
    /\ starting = "ready" /\ link # "closed"
    /\ watch' = IF watch = "none" THEN "none" ELSE "closed"
    /\ pending' = FALSE
    /\ link' = "closed"
    /\ UNCHANGED <<startVars, history, seen, updateVars, check>>

----------------------------------------------------------------------------
configure == NewFileConnector \/ setupWatcher \/ SkipFile \/ NewNatsConnector

processUpdates == TakeEvent \/ processFile \/ processAllowedVins

VinAllowed(vin) ==
    \/ VinAllowedByFile(vin) \/ VinAllowedByDefault(vin) \/ VinAllowedByStandIn(vin)
    \/ AskResponder(vin) \/ RequestMsg(vin)

Next ==
    \/ configure \/ processUpdates \/ LinkChanges \/ Close
    \/ \E c \in Content : WriteFile(c) \/ ReplaceFile(c)
    \/ \E vin \in Vins : VinAllowed(vin)

Spec == Init /\ [][Next]_connectorVars

(* The program starts and the watcher goroutine runs; nobody has to edit the
   file, connect, or reply. *)
FairSpec ==
    Spec /\ WF_connectorVars(configure) /\ WF_connectorVars(processUpdates)

----------------------------------------------------------------------------
(* Safety.                                                                 *)

(* Every variable keeps to its values, and what is loaded is a content the
   file has had. *)
TypeOK ==
    /\ config \in Config
    /\ starting \in {"file", "watch", "nats", "ready"}
    /\ assigned \in {"none", "file", "nats", "noFile", "noNats"}
    /\ history \in Seq(Content) /\ history # <<>>
    /\ rules \in 0 .. Current /\ fileData \in 0 .. Current
    /\ watch \in {"none", "watching", "lost", "closed"}
    /\ pending \in BOOLEAN
    /\ seen \subseteq 1 .. Current
    /\ updater \in {"idle", "reading", "read"}
    /\ link \in {"down", "up", "closed"}
    /\ check \in [Vins -> {"none", "asking", "allowed", "refused", "failOpen"}]

(* The rules in force only move forward through the file's history, from one
   valid content to a later one: no half-written file and no slow read ever
   brings back, or empties, a list. *)
RulesMoveForward ==
    [][rules' >= rules /\ (rules # 0 => Valid(rules))']_connectorVars

(* When the watcher has nothing left to do and was not closed, the rules are
   those of the file as it is, if that was written under the watch: no write is
   lost between the event, the read and the assignment. *)
SettledRulesAreCurrent ==
    (/\ ~pending /\ updater = "idle" /\ watch # "closed"
     /\ Current \in seen /\ Valid(Current)) => rules = Current

(***************************************************************************)
(* No decision without a ground.  The file connector refuses a VIN only if *)
(* some valid content of the file left it out, and admits it only if one   *)
(* let it in; a VIN is admitted without a question only if nobody          *)
(* configured vin_allowed: a connector that failed to construct never      *)
(* passes for one that is not configured.                                  *)
(***************************************************************************)
DecisionsGrounded ==
    \A vin \in Vins :
        /\ check[vin] = "refused" =>
              \/ assigned = "nats"
              \/ /\ assigned = "file"
                 /\ \E i \in DOMAIN history : Valid(i) /\ ~Allows(history[i], vin)
        /\ check[vin] = "allowed" =>
              \/ assigned = "nats"
              \/ /\ assigned = "file"
                 /\ \E i \in DOMAIN history : Valid(i) /\ Allows(history[i], vin)
              \/ "vin_allowed" \notin {config.file, config.nats}

(* Why they hold.  Until the watcher runs there is nothing to update; what is
   read is valid and never older than the rules; and a content written under
   the watch is announced, being read or loaded. *)
UpdateInv ==
    /\ starting \in {"file", "watch"} =>
          watch = "none" /\ ~pending /\ updater = "idle" /\ seen = {}
    /\ watch = "none" => seen = {}
    /\ starting = "file" => rules = 0
    /\ rules # 0 => Valid(rules)
    /\ updater = "read" => fileData # 0 /\ Valid(fileData) /\ rules <= fileData
    /\ (~pending /\ watch # "closed" /\ Current \in seen /\ Valid(Current)) =>
          /\ updater = "idle" => rules = Current
          /\ updater = "read" => fileData = Current

(* The capability is settled before the first check, and the file connector has
   it only with rules from a valid content. *)
AssignmentInv ==
    /\ starting # "ready" => \A vin \in Vins : check[vin] = "none"
    /\ \A vin \in Vins : check[vin] = "asking" => assigned = "nats"
    /\ starting \in {"file", "watch"} => assigned = "none"
    /\ starting = "watch" \/ assigned = "file" => rules # 0
    /\ assigned = "none" =>
          /\ starting \in {"nats", "ready"} => config.file # "vin_allowed"
          /\ starting = "ready" => config.nats # "vin_allowed"

----------------------------------------------------------------------------
(* Liveness, under FairSpec.                                               *)

TakesEffect(i) == rules = i \/ Current > i \/ watch = "closed"

(* A valid content written under the watch is loaded, whatever invalid ones
   came before it, unless the file changes again or the server stops. *)
WatchedWritesTakeEffect ==
    \A i \in 1 .. MaxEdits + 1 :
        (i \in seen /\ Current = i /\ Valid(i)) ~> TakesEffect(i)

(* What the connectors' README says: the connector watches the file for changes
   at runtime.  A file that another one replaces by rename, as editors and
   mounted configurations do, takes the watch with it. *)
RuntimeChangesTakeEffect ==
    \A i \in 1 .. MaxEdits :
        []((starting = "ready" /\ assigned = "file" /\ Current = i) =>
             []((Current = i + 1 /\ Valid(i + 1)) => <>TakesEffect(i + 1)))
=============================================================================
