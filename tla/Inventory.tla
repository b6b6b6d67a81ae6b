----------------------------- MODULE Inventory -----------------------------
(***************************************************************************)
(* The inventory of things and the history of their health, changed by     *)
(*   - the completion handlers of scans (ScannerProcessor.handleCompletion),*)
(*   - the handlers of health checks (MonitorService.processHealthCheck),  *)
(*   - users: create, edit, delete, delete all discovered (ThingsService). *)
(* Every await is a step: a handler works on documents it read before other *)
(* handlers and users changed them.                                        *)
(***************************************************************************)
EXTENDS Naturals, Sequences, FiniteSets, Functions

CONSTANTS Things,         \* identities of the things ever created
          Macs, Ips,      \* MAC addresses, as they are written, and IP addresses
          Upper,          \* toUpperCase on MAC addresses
          Hosts,          \* what a scan may report: a MAC address, if known, and an IP
          Forms,          \* what users may send: each address may be absent
          Scans, Checks,  \* handlers of completion and health check messages
          MaxRunning,     \* how many of them run at the same time
          MaxMessages,    \* bound: messages received in a behaviour
          Faults          \* "store": an await may reject; "restart": the API may

ASSUME ThingsAssumption == "none" \notin Things
ASSUME AddressAssumption == "none" \notin Macs \cup Ips
ASSUME UpperAssumption == Upper \in [Macs -> Macs]
ASSUME HostsAssumption == Hosts \subseteq [mac : Macs \cup {"none"}, ip : Ips]
ASSUME FormsAssumption == Forms \subseteq [mac : Macs \cup {"none"}, ip : Ips \cup {"none"}]
ASSUME HandlersAssumption == IsFiniteSet(Scans \cup Checks)
ASSUME StoreAssumption == Faults \subseteq {"store", "restart"}

VARIABLES life,      \* whether a thing's document exists
          doc,       \* its macAddress, ipAddress, registrationStatus, healthStatus
          history,   \* its status events, in order of time
          scan, check, edit,  \* the handlers and the PATCH in flight
          messages   \* number of messages received, bounded

vars == <<life, doc, history, scan, check, edit, messages>>

Doc == [mac : Macs \cup {"none"}, ip : Ips \cup {"none"},
        reg : {"discovered", "registered"}, health : {"unknown", "online", "offline"}]

Live == {t \in Things : life[t] = "live"}
Registered == {t \in Live : doc[t].reg = "registered"}

Nothing == [mac |-> "none", ip |-> "none"]
NoScan == [at |-> "idle", todo |-> {}, host |-> Nothing, thing |-> "none"]
NoCheck == [at |-> "idle", todo |-> {}, thing |-> "none", new |-> "unknown"]
NoEdit == [thing |-> "none", form |-> Nothing, registers |-> FALSE]

Running == Cardinality({s \in Scans : scan[s].at # "idle"})
             + Cardinality({c \in Checks : check[c].at # "idle"})

Receive == /\ Running < MaxRunning
           /\ messages < MaxMessages
           /\ messages' = messages + 1

\* recordTransition
Record(t, health) == history' = [history EXCEPT ![t] = Append(@, health)]

\* The unique sparse index on macAddress
MacFree(mac, t) == mac = "none" \/ \A u \in Live \ {t} : doc[u].mac # mac

\* Insert a document; a duplicate key is an error for the caller.
Insert(new) ==
  \E t \in Things :
    /\ life[t] = "unused"
    /\ life' = [life EXCEPT ![t] = "live"]
    /\ doc' = [doc EXCEPT ![t] = new]

-----------------------------------------------------------------------------
(* The completion handler of a scan, host by host *)

ScanReceived(s) ==
  /\ scan[s].at = "idle"
  /\ Receive
  /\ \E hosts \in SUBSET Hosts :
       scan' = [scan EXCEPT ![s] = [NoScan EXCEPT !.at = "next", !.todo = hosts]]
  /\ UNCHANGED <<life, doc, history, check, edit>>

ByMac(mac) == {t \in Live : mac # "none" /\ doc[t].mac = mac}

\* findByMacAddress; the transition is due if the document was not online
FindHost(s) ==
  /\ scan[s].at = "next"
  /\ \E h \in scan[s].todo :
       LET found == ByMac(h.mac)
           Go(at, t) == scan' = [scan EXCEPT ![s] =
                          [at |-> at, todo |-> scan[s].todo \ {h}, host |-> h, thing |-> t]]
       IN  \/ found = {} /\ Go("create", "none")
           \/ \E t \in found : Go(IF doc[t].health = "online" THEN "update" ELSE "record", t)
  /\ UNCHANGED <<life, doc, history, check, edit, messages>>

\* Mutant: records the health the thing had, not the one it takes.
ScanRecordsOld(s) ==
  /\ scan[s].at = "record"
  /\ Record(scan[s].thing, doc[scan[s].thing].health)
  /\ scan' = [scan EXCEPT ![s].at = "update"]
  /\ UNCHANGED <<life, doc, check, edit, messages>>

ScanRecords(s) ==
  /\ scan[s].at = "record"
  /\ Record(scan[s].thing, "online")
  /\ scan' = [scan EXCEPT ![s].at = "update"]
  /\ UNCHANGED <<life, doc, check, edit, messages>>

NextHost(s) == scan' = [scan EXCEPT ![s] = [NoScan EXCEPT !.at = "next", !.todo = scan[s].todo]]

\* Mutant: writes the registration status a discovered thing is created with.
ScanUpdatesStatus(s) ==
  /\ scan[s].at = "update"
  /\ doc' = [t \in Things |->
               IF t = scan[s].thing /\ t \in Live
               THEN [doc[t] EXCEPT !.ip = scan[s].host.ip, !.health = "online", !.reg = "discovered"]
               ELSE doc[t]]
  /\ NextHost(s)
  /\ UNCHANGED <<life, history, check, edit, messages>>

\* Mutant: an upsert.
ScanUpserts(s) ==
  /\ scan[s].at = "update"
  /\ life' = [life EXCEPT ![scan[s].thing] = "live"]
  /\ doc' = [doc EXCEPT ![scan[s].thing].ip = scan[s].host.ip, ![scan[s].thing].health = "online"]
  /\ NextHost(s)
  /\ UNCHANGED <<history, check, edit, messages>>

\* findByIdAndUpdate changes nothing when the thing has been deleted.
ScanUpdates(s) ==
  /\ scan[s].at = "update"
  /\ doc' = [t \in Things |->
               IF t = scan[s].thing /\ t \in Live
               THEN [doc[t] EXCEPT !.ip = scan[s].host.ip, !.health = "online"] ELSE doc[t]]
  /\ NextHost(s)
  /\ UNCHANGED <<life, history, check, edit, messages>>

\* Mutant: no unique index.
ScanCreatesAnyway(s) ==
  /\ scan[s].at = "create"
  /\ Insert([mac |-> scan[s].host.mac, ip |-> scan[s].host.ip,
             reg |-> "discovered", health |-> "online"])
  /\ NextHost(s)
  /\ UNCHANGED <<history, check, edit, messages>>

\* An error of one host, such as a duplicate MAC address, does not stop the loop.
ScanCreates(s) ==
  /\ scan[s].at = "create"
  /\ IF MacFree(scan[s].host.mac, "none")
     THEN Insert([mac |-> scan[s].host.mac, ip |-> scan[s].host.ip,
                  reg |-> "discovered", health |-> "online"])
     ELSE UNCHANGED <<life, doc>>
  /\ NextHost(s)
  /\ UNCHANGED <<history, check, edit, messages>>

HostFails(s) ==
  /\ "store" \in Faults
  /\ \/ scan[s].at \in {"record", "update", "create"} /\ NextHost(s)
     \/ /\ scan[s].at = "next"
        /\ \E h \in scan[s].todo : scan' = [scan EXCEPT ![s].todo = @ \ {h}]
  /\ UNCHANGED <<life, doc, history, check, edit, messages>>

ScanEnds(s) ==
  /\ scan[s].at = "next" /\ scan[s].todo = {}
  /\ scan' = [scan EXCEPT ![s] = NoScan]
  /\ UNCHANGED <<life, doc, history, check, edit, messages>>

-----------------------------------------------------------------------------
(* The handler of a health check, thing by thing *)

\* A registered thing is online if its MAC or its IP address was seen in any
\* of the scanned networks, and offline otherwise.
Seen(t, hosts) == \E h \in hosts : \/ h.ip = doc[t].ip
                                   \/ /\ h.mac # "none" /\ doc[t].mac # "none"
                                      /\ Upper[h.mac] = Upper[doc[t].mac]

\* What the check will write for a thing, from the document it read
Verdict(t, hosts) == [thing |-> t, old |-> doc[t].health,
                      new |-> IF Seen(t, hosts) THEN "online" ELSE "offline"]

\* Mutant: checks discovered things too.
CheckReceivedAll(c) ==
  /\ check[c].at = "idle"
  /\ Receive
  /\ \E hosts \in SUBSET Hosts :
       check' = [check EXCEPT ![c] = [NoCheck EXCEPT !.at = "next",
                                        !.todo = {Verdict(t, hosts) : t \in Live}]]
  /\ UNCHANGED <<life, doc, history, scan, edit>>

CheckReceived(c) ==
  /\ check[c].at = "idle"
  /\ Receive
  /\ \E hosts \in SUBSET Hosts :
       check' = [check EXCEPT ![c] = [NoCheck EXCEPT !.at = "next",
                                        !.todo = {Verdict(t, hosts) : t \in Registered}]]
  /\ UNCHANGED <<life, doc, history, scan, edit>>

CheckRecords(c) ==
  /\ check[c].at = "next"
  /\ \E v \in check[c].todo :
       /\ v.old # v.new
       /\ Record(v.thing, v.new)
       /\ check' = [check EXCEPT ![c] = [at |-> "update", todo |-> check[c].todo \ {v},
                                         thing |-> v.thing, new |-> v.new]]
  /\ UNCHANGED <<life, doc, scan, edit, messages>>

SetHealth(t, health) ==
  doc' = [u \in Things |-> IF u = t /\ u \in Live THEN [doc[u] EXCEPT !.health = health] ELSE doc[u]]

\* Mutant: may update the document without recording the transition.
CheckUpdatesOnly(c) ==
  /\ \/ /\ check[c].at = "update"
        /\ SetHealth(check[c].thing, check[c].new)
        /\ check' = [check EXCEPT ![c] = [NoCheck EXCEPT !.at = "next", !.todo = check[c].todo]]
     \/ /\ check[c].at = "next"
        /\ \E v \in check[c].todo :
             /\ SetHealth(v.thing, v.new)
             /\ check' = [check EXCEPT ![c].todo = @ \ {v}]
  /\ UNCHANGED <<life, history, scan, edit, messages>>

CheckUpdates(c) ==
  /\ \/ /\ check[c].at = "update"
        /\ SetHealth(check[c].thing, check[c].new)
        /\ check' = [check EXCEPT ![c] = [NoCheck EXCEPT !.at = "next", !.todo = check[c].todo]]
     \/ /\ check[c].at = "next"
        /\ \E v \in check[c].todo :
             /\ v.old = v.new
             /\ SetHealth(v.thing, v.new)
             /\ check' = [check EXCEPT ![c].todo = @ \ {v}]
  /\ UNCHANGED <<life, history, scan, edit, messages>>

CheckEnds(c) ==
  /\ check[c].at = "next" /\ check[c].todo = {}
  /\ check' = [check EXCEPT ![c] = NoCheck]
  /\ UNCHANGED <<life, doc, history, scan, edit, messages>>

\* An error ends the whole check; the listener logs it.
CheckFails(c) ==
  /\ "store" \in Faults
  /\ check[c].at # "idle"
  /\ check' = [check EXCEPT ![c] = NoCheck]
  /\ UNCHANGED <<life, doc, history, scan, edit, messages>>

\* The process stops: its handlers and its request are gone.
ApiRestarts ==
  /\ "restart" \in Faults
  /\ scan' = [s \in Scans |-> NoScan]
  /\ check' = [c \in Checks |-> NoCheck]
  /\ edit' = NoEdit
  /\ UNCHANGED <<life, doc, history, messages>>

-----------------------------------------------------------------------------
(* Users *)

\* POST /things: the schema's defaults make the thing discovered and unknown.
UserCreates ==
  /\ \E form \in Forms :
       /\ MacFree(form.mac, "none")
       /\ Insert([mac |-> form.mac, ip |-> form.ip, reg |-> "discovered", health |-> "unknown"])
  /\ UNCHANGED <<history, scan, check, edit, messages>>

\* PATCH /things/:id reads the document to see whether it must be registered.
EditReads(t) ==
  /\ edit = NoEdit
  /\ t \in Live
  /\ \E form \in Forms :
       edit' = [thing |-> t, form |-> form, registers |-> doc[t].reg = "discovered"]
  /\ UNCHANGED <<life, doc, history, scan, check, messages>>

Edited(d) ==
  [d EXCEPT !.mac = IF edit.form.mac = "none" THEN @ ELSE edit.form.mac,
            !.ip  = IF edit.form.ip = "none" THEN @ ELSE edit.form.ip,
            !.reg = IF edit.registers THEN "registered" ELSE @]

\* 404 when the thing has gone meanwhile, an error when the MAC is taken
EditWrites ==
  /\ edit # NoEdit
  /\ doc' = [t \in Things |->
               IF t = edit.thing /\ t \in Live /\ MacFree(edit.form.mac, t)
               THEN Edited(doc[t]) ELSE doc[t]]
  /\ edit' = NoEdit
  /\ UNCHANGED <<life, history, scan, check, messages>>

Delete(t) ==
  /\ t \in Live
  /\ life' = [life EXCEPT ![t] = "deleted"]
  /\ UNCHANGED <<doc, history, scan, check, edit, messages>>

DeleteDiscovered ==
  /\ life' = [t \in Things |-> IF t \in Live \ Registered THEN "deleted" ELSE life[t]]
  /\ UNCHANGED <<doc, history, scan, check, edit, messages>>

-----------------------------------------------------------------------------
Init ==
  /\ life = [t \in Things |-> "unused"]
  /\ doc = [t \in Things |-> [mac |-> "none", ip |-> "none", reg |-> "discovered",
                              health |-> "unknown"]]
  /\ history = [t \in Things |-> << >>]
  /\ scan = [s \in Scans |-> NoScan]
  /\ check = [c \in Checks |-> NoCheck]
  /\ edit = NoEdit
  /\ messages = 0

ScanStep(s) == FindHost(s) \/ ScanRecords(s) \/ ScanUpdates(s) \/ ScanCreates(s) \/ ScanEnds(s)
CheckStep(c) == CheckRecords(c) \/ CheckUpdates(c) \/ CheckEnds(c)

Next ==
  \/ \E s \in Scans : ScanReceived(s) \/ ScanStep(s) \/ HostFails(s)
  \/ \E c \in Checks : CheckReceived(c) \/ CheckStep(c) \/ CheckFails(c)
  \/ UserCreates
  \/ \E t \in Things : EditReads(t) \/ Delete(t)
  \/ EditWrites
  \/ DeleteDiscovered
  \/ ApiRestarts

Spec == Init /\ [][Next]_vars

-----------------------------------------------------------------------------
(* Properties *)

LastEvent(t) == IF history[t] = << >> THEN "none" ELSE history[t][Len(history[t])]
Settled == Running = 0

ScanState == [at : {"idle", "next", "record", "update", "create"}, todo : SUBSET Hosts,
              host : Hosts \cup {Nothing}, thing : Things \cup {"none"}]
Healths == {"online", "offline"}
Due == [thing : Things, old : Healths \cup {"unknown"}, new : Healths]
CheckState == [at : {"idle", "next", "update"}, todo : SUBSET Due,
               thing : Things \cup {"none"}, new : Healths \cup {"unknown"}]
EditState == [thing : Things \cup {"none"}, form : Forms \cup {Nothing}, registers : BOOLEAN]

\* Every variable holds a value of its kind.
TypeOK ==
  /\ life \in [Things -> {"unused", "live", "deleted"}]
  /\ doc \in [Things -> Doc]
  /\ history \in [Things -> Seq(Healths)]
  /\ scan \in [Scans -> ScanState]
  /\ check \in [Checks -> CheckState]
  /\ edit \in EditState
  /\ messages \in Nat

\* No two documents have the same MAC address, whoever created or edited them
\* while a scan was between findByMacAddress and create.
UniqueMac == \A t, u \in Live : doc[t].mac = doc[u].mac => t = u \/ doc[t].mac = "none"

\* A registered thing stays registered until a user deletes it: no handler that
\* read the document before it was registered takes it back to discovered, and
\* delete-all-discovered leaves it alone.
RegisteredStays ==
  [][\A t \in Registered : t \in Registered' \/ Delete(t)]_vars

\* A deleted thing stays deleted: a handler or an edit that still holds its
\* document does not create it again.
DeletedStays == [][\A t \in Things : life[t] = "deleted" => life'[t] = "deleted"]_vars

\* Only registered things are monitored: a discovered thing never shows offline
\* and has no offline event, even while checks and edits overlap.
DiscoveredNotMonitored ==
  \A t \in Live \ Registered : doc[t].health # "offline" /\ "offline" \notin Range(history[t])

\* A thing is never offline without an event that says since when: the event is
\* written before the document, whatever overlaps or fails.
OfflineRecorded == \A t \in Live : doc[t].health = "offline" => "offline" \in Range(history[t])

\* The history holds transitions only: no health is recorded twice in a row.
HistoryAlternates ==
  \A t \in Things : \A i \in 1..(Len(history[t]) - 1) : history[t][i] # history[t][i + 1]

\* The health of a thing changes only to what the history says.
RecordedFirst == \A t \in Live : doc'[t].health # doc[t].health => doc'[t].health = LastEvent(t)

\* While no handler runs, the last event of a monitored thing is its health.
HistorySettles ==
  Settled => \A t \in Live : history[t] # << >> => LastEvent(t) = doc[t].health

\* README: a device keeps its identity by its MAC address.
OneThingPerDevice ==
  \A t, u \in Live : t # u /\ "none" \notin {doc[t].mac, doc[u].mac}
                       => Upper[doc[t].mac] # Upper[doc[u].mac]
=============================================================================
