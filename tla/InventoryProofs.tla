-------------------------- MODULE InventoryProofs --------------------------
(***************************************************************************)
(* Theorems about Inventory for every set of things, addresses, hosts,     *)
(* forms and handlers, and whatever fails.                                 *)
(***************************************************************************)
EXTENDS Inventory, SequenceTheorems, FiniteSetTheorems, TLAPS

\* A handler holds only things that exist or existed; what a check holds was
\* registered, and no step unregisters it.
ScanHolds == \A s \in Scans : scan[s].at \in {"record", "update"} =>
               scan[s].thing \in Things /\ life[scan[s].thing] # "unused"

Known(t) == life[t] # "unused" /\ doc[t].reg = "registered"

CheckHolds == \A c \in Checks :
  /\ \A v \in check[c].todo : Known(v.thing)
  /\ check[c].at = "update" => /\ check[c].thing \in Things /\ Known(check[c].thing)
                               /\ check[c].new \in Healths

\* An identity that was never used has no event.
UnusedSilent == \A t \in Things : life[t] = "unused" => history[t] = << >>

\* DiscoveredNotMonitored and OfflineRecorded for deleted things too, and for
\* what a check is about to write
Unmonitored == \A t \in Things : doc[t].reg = "discovered" =>
                 doc[t].health # "offline" /\ "offline" \notin Range(history[t])

HasOffline(t) == "offline" \in Range(history[t])

Recorded ==
  /\ \A t \in Things : doc[t].health = "offline" => HasOffline(t)
  /\ \A c \in Checks :
       /\ \A v \in check[c].todo : v.old = "offline" => HasOffline(v.thing)
       /\ check[c].at = "update" /\ check[c].new = "offline" => HasOffline(check[c].thing)

Holds == ScanHolds /\ CheckHolds /\ UnusedSilent

IInv == TypeOK /\ Holds /\ Unmonitored /\ Recorded /\ UniqueMac

-----------------------------------------------------------------------------
(* The initial states *)

\* A handler or an edit that is not running is in a state of its kind.
LEMMA IdleStates == NoScan \in ScanState /\ NoCheck \in CheckState /\ NoEdit \in EditState
<1>1. NoScan \in ScanState
  BY DEF NoScan, ScanState
<1>2. NoCheck \in CheckState
  BY DEF NoCheck, CheckState
<1>3. NoEdit \in EditState
  BY DEF NoEdit, EditState
<1> QED BY <1>1, <1>2, <1>3

\* The initial states satisfy the inductive invariant.
LEMMA InitHolds == Init => IInv
<1> SUFFICES ASSUME Init PROVE IInv
  OBVIOUS
<1> USE DEF Init
<1>1. TypeOK
  <2>1. NoScan \in ScanState /\ NoCheck \in CheckState /\ NoEdit \in EditState
    BY IdleStates
  <2>2. doc \in [Things -> Doc]
    BY DEF Doc
  <2>3. history \in [Things -> Seq(Healths)]
    BY EmptySeq
  <2> QED BY <2>1, <2>2, <2>3 DEF TypeOK
<1>2. Holds
  BY DEF Holds, ScanHolds, CheckHolds, UnusedSilent, NoScan, NoCheck
<1>3. Unmonitored
  BY DEF Unmonitored, Range
<1>4. Recorded
  BY DEF Recorded, NoCheck
<1>5. UniqueMac
  BY DEF UniqueMac, Live
<1> QED BY <1>1, <1>2, <1>3, <1>4, <1>5 DEF IInv

-----------------------------------------------------------------------------
(* Types *)

\* An event added to a thing's history is a health, and the last one.
LEMMA RecordAppends ==
  ASSUME TypeOK, NEW t \in Things, NEW health \in Healths, Record(t, health)
  PROVE  /\ history' \in [Things -> Seq(Healths)]
         /\ \A u \in Things : u # t => history'[u] = history[u]
         /\ Range(history'[t]) = Range(history[t]) \cup {health}
<1>1. history[t] \in Seq(Healths) /\ history'[t] = Append(history[t], health)
  BY DEF Record, TypeOK
<1>2. /\ history'[t] \in Seq(Healths)
      /\ Len(history'[t]) = Len(history[t]) + 1
      /\ \A i \in 1..Len(history[t]) : history'[t][i] = history[t][i]
      /\ history'[t][Len(history[t]) + 1] = health
  BY <1>1, AppendProperties
<1>3. /\ Len(history[t]) \in Nat /\ DOMAIN history[t] = 1..Len(history[t])
      /\ DOMAIN history'[t] = 1..(Len(history[t]) + 1)
  BY <1>1, <1>2, LenProperties
<1>4. Range(history'[t]) = Range(history[t]) \cup {health}
  <2>1. \A i \in 1..(Len(history[t]) + 1) : i \in 1..Len(history[t]) \/ i = Len(history[t]) + 1
    BY <1>3
  <2>2. \A i \in 1..Len(history[t]) : i \in 1..(Len(history[t]) + 1)
    BY <1>3
  <2>3. Len(history[t]) + 1 \in 1..(Len(history[t]) + 1)
    BY <1>3
  <2>4. Range(history'[t]) \subseteq Range(history[t]) \cup {health}
    BY <1>2, <1>3, <2>1 DEF Range
  <2>5. Range(history[t]) \cup {health} \subseteq Range(history'[t])
    <3>1. health \in Range(history'[t])
      BY <1>2, <1>3, <2>3 DEF Range
    <3>2. Range(history[t]) \subseteq Range(history'[t])
      BY <1>2, <1>3, <2>2 DEF Range
    <3> QED BY <3>1, <3>2
  <2> QED BY <2>4, <2>5
<1>5. \A u \in Things : u # t => history'[u] = history[u]
  BY DEF Record, TypeOK
<1>6. history' \in [Things -> Seq(Healths)]
  BY <1>2 DEF Record, TypeOK
<1> QED BY <1>4, <1>5, <1>6

\* The scan's handler, the check's handler and the document of a thing take
\* values of their kinds.
LEMMA ScanChanges ==
  ASSUME TypeOK, NEW s \in Scans, NEW x \in ScanState, scan' = [scan EXCEPT ![s] = x]
  PROVE  scan' \in [Scans -> ScanState]
  BY DEF TypeOK

LEMMA CheckChanges ==
  ASSUME TypeOK, NEW c \in Checks, NEW x \in CheckState, check' = [check EXCEPT ![c] = x]
  PROVE  check' \in [Checks -> CheckState]
  BY DEF TypeOK

\* The handler that goes on to the next host
LEMMA NextHostType ==
  ASSUME TypeOK, NEW s \in Scans, NextHost(s)
  PROVE  /\ scan' \in [Scans -> ScanState]
         /\ \A r \in Scans : scan'[r].at \in {"record", "update"} => scan'[r] = scan[r]
<1>1. scan[s] \in ScanState
  BY DEF TypeOK
<1>2. [NoScan EXCEPT !.at = "next", !.todo = scan[s].todo] \in ScanState
  BY <1>1 DEF NoScan, ScanState
<1>3. [NoScan EXCEPT !.at = "next", !.todo = scan[s].todo].at = "next"
  BY DEF NoScan
<1>4. scan' \in [Scans -> ScanState]
  BY <1>2, ScanChanges DEF NextHost
<1> QED BY <1>3, <1>4 DEF NextHost, TypeOK

\* A new document, in a state that has none under its identity
LEMMA InsertType ==
  ASSUME TypeOK, NEW new \in Doc, Insert(new)
  PROVE  life' \in [Things -> {"unused", "live", "deleted"}] /\ doc' \in [Things -> Doc]
  BY DEF Insert, TypeOK

\* A check that writes a health
LEMMA SetHealthType ==
  ASSUME TypeOK, NEW t, NEW health \in Healths \cup {"unknown"}, SetHealth(t, health)
  PROVE  doc' \in [Things -> Doc]
<1>1. ASSUME NEW u \in Things PROVE [doc[u] EXCEPT !.health = health] \in Doc
  BY DEF TypeOK, Doc, Healths
<1> QED BY <1>1 DEF SetHealth, TypeOK

\* A step keeps the kinds of values.
LEMMA TypeStep ==
  ASSUME TypeOK, ScanHolds, [Next]_vars
  PROVE  TypeOK'
<1> USE DEF TypeOK
<1>1. ASSUME NEW s \in Scans, ScanReceived(s) PROVE TypeOK'
  <2>1. PICK hosts \in SUBSET Hosts :
          scan' = [scan EXCEPT ![s] = [NoScan EXCEPT !.at = "next", !.todo = hosts]]
    BY <1>1 DEF ScanReceived
  <2>2. [NoScan EXCEPT !.at = "next", !.todo = hosts] \in ScanState
    BY DEF NoScan, ScanState
  <2> QED BY <1>1, <2>1, <2>2, ScanChanges DEF ScanReceived, Receive
<1>2. ASSUME NEW s \in Scans, FindHost(s) PROVE TypeOK'
  <2>1. PICK h \in scan[s].todo, at \in {"create", "update", "record"}, t \in Things \cup {"none"} :
          scan' = [scan EXCEPT ![s] = [at |-> at, todo |-> scan[s].todo \ {h}, host |-> h, thing |-> t]]
    <3>1. PICK h \in scan[s].todo :
            \/ scan' = [scan EXCEPT ![s] = [at |-> "create", todo |-> scan[s].todo \ {h},
                                            host |-> h, thing |-> "none"]]
            \/ \E t \in ByMac(h.mac) :
                 scan' = [scan EXCEPT ![s] = [at |-> IF doc[t].health = "online" THEN "update" ELSE "record",
                                              todo |-> scan[s].todo \ {h}, host |-> h, thing |-> t]]
      BY <1>2 DEF FindHost
    <3>2. ByMac(h.mac) \subseteq Things
      BY DEF ByMac, Live
    <3> QED BY <3>1, <3>2
  <2>2. scan[s] \in ScanState
    OBVIOUS
  <2>3. [at |-> at, todo |-> scan[s].todo \ {h}, host |-> h, thing |-> t] \in ScanState
    BY <2>2 DEF ScanState
  <2> QED BY <1>2, <2>1, <2>3, ScanChanges DEF FindHost
<1>3. ASSUME NEW s \in Scans, ScanRecords(s) PROVE TypeOK'
  <2>1. scan[s].thing \in Things /\ Record(scan[s].thing, "online")
    BY <1>3 DEF ScanRecords, ScanHolds
  <2>2. history' \in [Things -> Seq(Healths)]
    BY <2>1, RecordAppends DEF Healths
  <2>3. scan' \in [Scans -> ScanState]
    <3>1. [scan[s] EXCEPT !.at = "update"] \in ScanState
      BY DEF ScanState
    <3> QED BY <1>3, <3>1 DEF ScanRecords
  <2> QED BY <1>3, <2>2, <2>3 DEF ScanRecords
<1>4. ASSUME NEW s \in Scans, ScanUpdates(s) PROVE TypeOK'
  <2>1. scan[s].host.ip \in Ips \cup {"none"}
    BY HostsAssumption DEF ScanState, Nothing
  <2>2. ASSUME NEW t \in Things
        PROVE  [doc[t] EXCEPT !.ip = scan[s].host.ip, !.health = "online"] \in Doc
    BY <2>1 DEF Doc
  <2>3. doc' \in [Things -> Doc]
    BY <1>4, <2>2 DEF ScanUpdates
  <2> QED BY <1>4, <2>3, NextHostType DEF ScanUpdates
<1>5. ASSUME NEW s \in Scans, ScanCreates(s) PROVE TypeOK'
  <2>1. scan[s].host.mac \in Macs \cup {"none"} /\ scan[s].host.ip \in Ips \cup {"none"}
    BY HostsAssumption DEF ScanState, Nothing
  <2>2. [mac |-> scan[s].host.mac, ip |-> scan[s].host.ip,
         reg |-> "discovered", health |-> "online"] \in Doc
    BY <2>1 DEF Doc
  <2>3. life' \in [Things -> {"unused", "live", "deleted"}] /\ doc' \in [Things -> Doc]
    BY <1>5, <2>2, InsertType DEF ScanCreates
  <2> QED BY <1>5, <2>3, NextHostType DEF ScanCreates
<1>6. ASSUME NEW s \in Scans, HostFails(s) PROVE TypeOK'
  <2>1. ASSUME NEW h \in scan[s].todo, scan' = [scan EXCEPT ![s].todo = @ \ {h}]
        PROVE  scan' \in [Scans -> ScanState]
    <3>1. [scan[s] EXCEPT !.todo = @ \ {h}] \in ScanState
      BY DEF ScanState
    <3> QED BY <2>1, <3>1
  <2> QED BY <1>6, <2>1, NextHostType DEF HostFails
<1>7. ASSUME NEW s \in Scans, ScanEnds(s) PROVE TypeOK'
  BY <1>7, IdleStates DEF ScanEnds
<1>8. ASSUME NEW c \in Checks, CheckReceived(c) PROVE TypeOK'
  <2>1. PICK hosts \in SUBSET Hosts :
          check' = [check EXCEPT ![c] = [NoCheck EXCEPT !.at = "next",
                                           !.todo = {Verdict(t, hosts) : t \in Registered}]]
    BY <1>8 DEF CheckReceived
  <2> DEFINE todo == {Verdict(t, hosts) : t \in Registered}
  <2>2. ASSUME NEW t \in Registered PROVE Verdict(t, hosts) \in Due
    BY DEF Verdict, Due, Doc, Healths, Registered, Live
  <2>3. todo \subseteq Due
    BY <2>2
  <2>4. check' = [check EXCEPT ![c] = [NoCheck EXCEPT !.at = "next", !.todo = todo]]
    BY <2>1
  <2> HIDE DEF todo
  <2>5. [NoCheck EXCEPT !.at = "next", !.todo = todo] \in CheckState
    BY <2>3 DEF NoCheck, CheckState
  <2>6. check' \in [Checks -> CheckState]
    BY <2>4, <2>5, CheckChanges
  <2> QED BY <1>8, <2>6 DEF CheckReceived, Receive
<1>9. ASSUME NEW c \in Checks, CheckRecords(c) PROVE TypeOK'
  <2>1. PICK v \in check[c].todo :
          /\ Record(v.thing, v.new)
          /\ check' = [check EXCEPT ![c] = [at |-> "update", todo |-> check[c].todo \ {v},
                                            thing |-> v.thing, new |-> v.new]]
    BY <1>9 DEF CheckRecords
  <2>2. check[c].todo \subseteq Due
    BY DEF CheckState
  <2>3. v.thing \in Things /\ v.new \in Healths
    BY <2>2 DEF Due
  <2>4. history' \in [Things -> Seq(Healths)]
    BY <2>1, <2>3, RecordAppends
  <2>5. [at |-> "update", todo |-> check[c].todo \ {v}, thing |-> v.thing, new |-> v.new] \in CheckState
    BY <2>2, <2>3 DEF CheckState
  <2> QED BY <1>9, <2>1, <2>4, <2>5, CheckChanges DEF CheckRecords
<1>10. ASSUME NEW c \in Checks, CheckUpdates(c) PROVE TypeOK'
  <2>1. check[c].todo \subseteq Due /\ check[c].new \in Healths \cup {"unknown"}
    BY DEF CheckState
  <2>2. CASE /\ SetHealth(check[c].thing, check[c].new)
             /\ check' = [check EXCEPT ![c] = [NoCheck EXCEPT !.at = "next", !.todo = check[c].todo]]
    <3>1. [NoCheck EXCEPT !.at = "next", !.todo = check[c].todo] \in CheckState
      BY <2>1 DEF NoCheck, CheckState
    <3> QED BY <1>10, <2>1, <2>2, <3>1, SetHealthType, CheckChanges DEF CheckUpdates
  <2>3. ASSUME NEW v \in check[c].todo, SetHealth(v.thing, v.new),
               check' = [check EXCEPT ![c].todo = @ \ {v}]
        PROVE  TypeOK'
    <3>1. [check[c] EXCEPT !.todo = @ \ {v}] \in CheckState
      BY DEF CheckState
    <3>2. check' \in [Checks -> CheckState]
      BY <2>3, <3>1
    <3>3. v.new \in Healths \cup {"unknown"}
      BY <2>1 DEF Due
    <3> QED BY <1>10, <2>3, <3>2, <3>3, SetHealthType DEF CheckUpdates
  <2> QED BY <1>10, <2>2, <2>3 DEF CheckUpdates
<1>11. ASSUME NEW c \in Checks, CheckEnds(c) \/ CheckFails(c) PROVE TypeOK'
  BY <1>11, IdleStates DEF CheckEnds, CheckFails
<1>12. CASE UserCreates
  <2>1. PICK form \in Forms :
          Insert([mac |-> form.mac, ip |-> form.ip, reg |-> "discovered", health |-> "unknown"])
    BY <1>12 DEF UserCreates
  <2>2. [mac |-> form.mac, ip |-> form.ip, reg |-> "discovered", health |-> "unknown"] \in Doc
    BY FormsAssumption DEF Doc
  <2> QED BY <1>12, <2>1, <2>2, InsertType DEF UserCreates
<1>13. ASSUME NEW t \in Things, EditReads(t) PROVE TypeOK'
  <2>1. PICK form \in Forms :
          edit' = [thing |-> t, form |-> form, registers |-> doc[t].reg = "discovered"]
    BY <1>13 DEF EditReads
  <2>2. edit' \in EditState
    BY <2>1 DEF EditState
  <2> QED BY <1>13, <2>2 DEF EditReads
<1>14. CASE EditWrites
  <2>1. edit.form.mac \in Macs \cup {"none"} /\ edit.form.ip \in Ips \cup {"none"}
    BY FormsAssumption DEF EditState, Nothing
  <2>2. ASSUME NEW t \in Things PROVE Edited(doc[t]) \in Doc
    BY <2>1 DEF Doc, Edited
  <2>3. doc' \in [Things -> Doc]
    BY <1>14, <2>2 DEF EditWrites
  <2> QED BY <1>14, <2>3, IdleStates DEF EditWrites
<1>15. CASE DeleteDiscovered \/ \E t \in Things : Delete(t)
  BY <1>15 DEF DeleteDiscovered, Delete
<1>16. CASE ApiRestarts
  BY <1>16, IdleStates DEF ApiRestarts
<1>17. CASE UNCHANGED vars
  BY <1>17 DEF vars
<1> QED
  BY <1>1, <1>2, <1>3, <1>4, <1>5, <1>6, <1>7, <1>8, <1>9, <1>10, <1>11, <1>12, <1>13,
     <1>14, <1>15, <1>16, <1>17 DEF Next, ScanStep, CheckStep

-----------------------------------------------------------------------------
(* What a step does to the documents *)

\* Who writes the documents, and which parts of them
Keeps(t) ==
  /\ life'[t] = life[t] \/ (life[t] = "live" /\ life'[t] = "deleted")
  /\ doc'[t].mac = doc[t].mac
  /\ doc'[t].reg = doc[t].reg

\* Inserting a discovered document changes only an unused identity.
LEMMA InsertEffect ==
  ASSUME TypeOK, NEW new \in Doc, Insert(new)
  PROVE  \E t \in Things :
           /\ life[t] = "unused" /\ life'[t] = "live" /\ doc'[t] = new
           /\ \A u \in Things \ {t} : life'[u] = life[u] /\ doc'[u] = doc[u]
  BY DEF Insert, TypeOK

\* The documents a scan and a user create
LEMMA CreateEffect ==
  ASSUME TypeOK, (\E s \in Scans : ScanCreates(s)) \/ UserCreates
  PROVE  \/ UNCHANGED <<life, doc>>
         \/ \E t \in Things :
              /\ life[t] = "unused" /\ life'[t] = "live"
              /\ doc'[t] \in Doc /\ doc'[t].reg = "discovered" /\ doc'[t].health # "offline"
              /\ MacFree(doc'[t].mac, "none")
              /\ \A u \in Things \ {t} : life'[u] = life[u] /\ doc'[u] = doc[u]
<1>1. ASSUME NEW s \in Scans, ScanCreates(s), ~ UNCHANGED <<life, doc>>
      PROVE  \E new \in Doc : /\ Insert(new) /\ new.reg = "discovered" /\ new.health # "offline"
                              /\ MacFree(new.mac, "none")
  <2> DEFINE new == [mac |-> scan[s].host.mac, ip |-> scan[s].host.ip,
                     reg |-> "discovered", health |-> "online"]
  <2>1. scan[s].host.mac \in Macs \cup {"none"} /\ scan[s].host.ip \in Ips \cup {"none"}
    BY HostsAssumption DEF TypeOK, ScanState, Nothing
  <2>2. new \in Doc
    BY <2>1 DEF Doc
  <2>3. Insert(new) /\ MacFree(new.mac, "none")
    BY <1>1 DEF ScanCreates
  <2> QED BY <2>2, <2>3
<1>2. ASSUME UserCreates
      PROVE  \E new \in Doc : /\ Insert(new) /\ new.reg = "discovered" /\ new.health # "offline"
                              /\ MacFree(new.mac, "none")
  <2>1. PICK form \in Forms :
          /\ MacFree(form.mac, "none")
          /\ Insert([mac |-> form.mac, ip |-> form.ip, reg |-> "discovered", health |-> "unknown"])
    BY <1>2 DEF UserCreates
  <2> DEFINE new == [mac |-> form.mac, ip |-> form.ip, reg |-> "discovered", health |-> "unknown"]
  <2>2. new \in Doc
    BY FormsAssumption DEF Doc
  <2> QED BY <2>1, <2>2
<1>3. ASSUME ~ UNCHANGED <<life, doc>>
      PROVE  \E t \in Things :
              /\ life[t] = "unused" /\ life'[t] = "live"
              /\ doc'[t] \in Doc /\ doc'[t].reg = "discovered" /\ doc'[t].health # "offline"
              /\ MacFree(doc'[t].mac, "none")
              /\ \A u \in Things \ {t} : life'[u] = life[u] /\ doc'[u] = doc[u]
  <2>1. PICK new \in Doc : /\ Insert(new) /\ new.reg = "discovered" /\ new.health # "offline"
                           /\ MacFree(new.mac, "none")
    BY <1>1, <1>2, <1>3
  <2> QED BY <2>1, InsertEffect
<1> QED BY <1>3

\* Writing a health leaves everything else in the documents.
LEMMA SetHealthEffect ==
  ASSUME TypeOK, NEW t, NEW health, SetHealth(t, health), life' = life
  PROVE  \A u \in Things : /\ Keeps(u)
                           /\ doc'[u] = doc[u] \/ (u = t /\ doc'[u].health = health)
<1>1. ASSUME NEW u \in Things
      PROVE  doc'[u] = IF u = t /\ u \in Live THEN [doc[u] EXCEPT !.health = health] ELSE doc[u]
  BY DEF SetHealth
<1>2. ASSUME NEW u \in Things PROVE doc[u] \in Doc
  BY DEF TypeOK
<1>3. ASSUME NEW u \in Things
      PROVE  /\ [doc[u] EXCEPT !.health = health].mac = doc[u].mac
             /\ [doc[u] EXCEPT !.health = health].reg = doc[u].reg
             /\ [doc[u] EXCEPT !.health = health].health = health
  BY <1>2 DEF Doc
<1> QED BY <1>1, <1>3 DEF Keeps

\* Every step but a creation and an edit leaves the MAC addresses and the
\* registration statuses, and brings no document into being.
LEMMA OtherSteps ==
  ASSUME TypeOK, [Next]_vars, ~UserCreates, ~EditWrites, \A s \in Scans : ~ScanCreates(s)
  PROVE  \A t \in Things : Keeps(t)
<1> SUFFICES ASSUME NEW t \in Things PROVE Keeps(t)
  OBVIOUS
<1>1. CASE UNCHANGED <<life, doc>>
  BY <1>1 DEF Keeps
<1>2. ASSUME NEW s \in Scans, ScanUpdates(s) PROVE Keeps(t)
  <2>1. doc[t] \in Doc
    BY DEF TypeOK
  <2>2. /\ [doc[t] EXCEPT !.ip = scan[s].host.ip, !.health = "online"].mac = doc[t].mac
        /\ [doc[t] EXCEPT !.ip = scan[s].host.ip, !.health = "online"].reg = doc[t].reg
    BY <2>1 DEF Doc
  <2> QED BY <1>2, <2>2 DEF ScanUpdates, Keeps
<1>3. ASSUME NEW c \in Checks, CheckUpdates(c) PROVE Keeps(t)
  BY <1>3, SetHealthEffect DEF CheckUpdates
<1>4. CASE DeleteDiscovered \/ \E u \in Things : Delete(u)
  BY <1>4 DEF DeleteDiscovered, Delete, Keeps, TypeOK, Live
<1>5. ASSUME NEW s \in Scans, ScanReceived(s) \/ FindHost(s) \/ ScanRecords(s) \/ HostFails(s) \/ ScanEnds(s)
      PROVE  UNCHANGED <<life, doc>>
  BY <1>5 DEF ScanReceived, FindHost, ScanRecords, HostFails, ScanEnds
<1>6. ASSUME NEW c \in Checks, CheckReceived(c) \/ CheckRecords(c) \/ CheckEnds(c) \/ CheckFails(c)
      PROVE  UNCHANGED <<life, doc>>
  BY <1>6 DEF CheckReceived, CheckRecords, CheckEnds, CheckFails
<1>7. ASSUME ApiRestarts \/ (\E u \in Things : EditReads(u)) \/ UNCHANGED vars
      PROVE  UNCHANGED <<life, doc>>
  BY <1>7 DEF ApiRestarts, EditReads, vars
<1> QED
  BY <1>1, <1>2, <1>3, <1>4, <1>5, <1>6, <1>7 DEF Next, ScanStep, CheckStep

\* An edit may give a live thing a MAC address no other has, and may register it.
LEMMA EditEffect ==
  ASSUME TypeOK, EditWrites
  PROVE  /\ life' = life
         /\ \A t \in Things :
              /\ doc'[t].health = doc[t].health
              /\ doc'[t].reg \in {doc[t].reg, "registered"}
              /\ \/ doc'[t].mac = doc[t].mac
                 \/ /\ t = edit.thing /\ doc'[t].mac # "none" /\ MacFree(doc'[t].mac, t)
<1>1. ASSUME NEW t \in Things
      PROVE  doc'[t] = IF t = edit.thing /\ t \in Live /\ MacFree(edit.form.mac, t)
                       THEN Edited(doc[t]) ELSE doc[t]
  BY DEF EditWrites
<1>2. ASSUME NEW t \in Things
      PROVE  /\ Edited(doc[t]).health = doc[t].health
             /\ Edited(doc[t]).reg \in {doc[t].reg, "registered"}
             /\ Edited(doc[t]).mac = IF edit.form.mac = "none" THEN doc[t].mac ELSE edit.form.mac
  <2>1. doc[t] \in Doc
    BY DEF TypeOK
  <2> QED BY <2>1 DEF Edited, Doc
<1> QED BY <1>1, <1>2 DEF EditWrites

\* What was used stays used, and what is registered stays registered.
LEMMA KnownStays ==
  ASSUME TypeOK, [Next]_vars, NEW t \in Things
  PROVE  /\ life[t] # "unused" => life'[t] # "unused"
         /\ Known(t) => Known(t)'
<1>1. CASE EditWrites
  BY <1>1, EditEffect DEF Known
<1>2. CASE UserCreates \/ \E s \in Scans : ScanCreates(s)
  BY <1>2, CreateEffect DEF Known
<1>3. CASE ~UserCreates /\ ~EditWrites /\ \A s \in Scans : ~ScanCreates(s)
  <2>1. Keeps(t)
    BY <1>3, OtherSteps
  <2> QED BY <2>1 DEF Keeps, Known, TypeOK
<1> QED BY <1>1, <1>2, <1>3

-----------------------------------------------------------------------------
(* What handlers hold *)

\* A scan's handler holds a thing that findByMacAddress returned.
LEMMA ScanHoldsStep ==
  ASSUME TypeOK, ScanHolds, [Next]_vars
  PROVE  ScanHolds'
<1> SUFFICES ASSUME NEW s \in Scans, scan'[s].at \in {"record", "update"}
             PROVE  scan'[s].thing \in Things /\ life'[scan'[s].thing] # "unused"
  BY DEF ScanHolds
<1>1. SUFFICES scan'[s].thing \in Things /\ life[scan'[s].thing] # "unused"
  BY <1>1, KnownStays
<1>2. CASE scan'[s] = scan[s]
  BY <1>2 DEF ScanHolds
<1>3. ASSUME NEW r \in Scans, FindHost(r) PROVE scan'[s].thing \in Things /\ life[scan'[s].thing] # "unused"
  <2>1. CASE r # s
    BY <1>2, <1>3, <2>1 DEF FindHost, TypeOK
  <2>2. CASE r = s
    <3>1. PICK h \in scan[s].todo :
            \/ scan' = [scan EXCEPT ![s] = [at |-> "create", todo |-> scan[s].todo \ {h},
                                            host |-> h, thing |-> "none"]]
            \/ \E t \in ByMac(h.mac) :
                 scan' = [scan EXCEPT ![s] = [at |-> IF doc[t].health = "online" THEN "update" ELSE "record",
                                              todo |-> scan[s].todo \ {h}, host |-> h, thing |-> t]]
      BY <1>3, <2>2 DEF FindHost
    <3>2. PICK t \in ByMac(h.mac) : scan'[s].thing = t
      BY <3>1 DEF TypeOK
    <3> QED BY <3>2 DEF ByMac, Live
  <2> QED BY <2>1, <2>2
<1>4. ASSUME NEW r \in Scans, ScanRecords(r) PROVE scan'[s].thing \in Things /\ life[scan'[s].thing] # "unused"
  <2>1. scan'[s].thing = scan[s].thing /\ scan[s].at \in {"record", "update"}
    <3>1. scan[s] \in ScanState
      BY DEF TypeOK
    <3> QED BY <1>4, <3>1 DEF ScanRecords, TypeOK, ScanState
  <2> QED BY <2>1 DEF ScanHolds
<1>5. ASSUME NEW r \in Scans, ScanReceived(r) PROVE scan'[s] = scan[s]
  BY <1>5 DEF ScanReceived, NoScan, TypeOK
<1>6. ASSUME NEW r \in Scans, ScanUpdates(r) \/ ScanCreates(r) \/ ScanEnds(r) PROVE scan'[s] = scan[s]
  <2>1. CASE ScanEnds(r)
    <3>1. NoScan.at = "idle" /\ scan' = [scan EXCEPT ![r] = NoScan]
      BY <2>1 DEF ScanEnds, NoScan
    <3> QED BY <3>1 DEF TypeOK
  <2>2. CASE ScanUpdates(r) \/ ScanCreates(r)
    <3>1. NextHost(r)
      BY <2>2 DEF ScanUpdates, ScanCreates
    <3> QED BY <3>1, NextHostType
  <2> QED BY <1>6, <2>1, <2>2
<1>7. ASSUME NEW r \in Scans, HostFails(r) PROVE scan'[s] = scan[s]
  <2>1. CASE NextHost(r)
    BY <2>1, NextHostType
  <2>2. CASE ~NextHost(r)
    <3>1. PICK h \in scan[r].todo : scan[r].at = "next" /\ scan' = [scan EXCEPT ![r].todo = @ \ {h}]
      BY <1>7, <2>2 DEF HostFails
    <3>2. scan[r] \in ScanState /\ scan[s] \in ScanState
      BY DEF TypeOK
    <3>3. r = s => scan'[s].at = "next"
      BY <3>1, <3>2 DEF TypeOK, ScanState
    <3> QED BY <3>1, <3>3 DEF TypeOK
  <2> QED BY <2>1, <2>2
<1>8. CASE ApiRestarts
  BY <1>8 DEF ApiRestarts, NoScan
<1>9. ASSUME NEW c \in Checks, CheckReceived(c) \/ CheckStep(c) \/ CheckFails(c) PROVE scan'[s] = scan[s]
  BY <1>9 DEF CheckReceived, CheckStep, CheckRecords, CheckUpdates, CheckEnds, CheckFails
<1>10. ASSUME \/ UserCreates \/ EditWrites \/ DeleteDiscovered \/ UNCHANGED vars
              \/ \E t \in Things : EditReads(t) \/ Delete(t)
       PROVE  scan'[s] = scan[s]
  BY <1>10 DEF UserCreates, EditWrites, DeleteDiscovered, EditReads, Delete, vars
<1> QED
  BY <1>2, <1>3, <1>4, <1>5, <1>6, <1>7, <1>8, <1>9, <1>10 DEF Next, ScanStep

\* An event is recorded only for a thing that exists or existed, and a check
\* records only for things it knows registered.
LEMMA RecordEffect ==
  ASSUME TypeOK, Holds, [Next]_vars
  PROVE  \/ history' = history
         \/ \E t \in Things, health \in Healths :
              /\ Record(t, health) /\ life[t] # "unused" /\ UNCHANGED <<life, doc>>
              /\ health = "offline" => Known(t)
<1>1. ASSUME NEW s \in Scans, ScanRecords(s)
      PROVE  \E t \in Things, health \in Healths :
              /\ Record(t, health) /\ life[t] # "unused" /\ UNCHANGED <<life, doc>>
              /\ health = "offline" => Known(t)
  BY <1>1 DEF ScanRecords, Holds, ScanHolds, Healths
<1>2. ASSUME NEW c \in Checks, CheckRecords(c)
      PROVE  \E t \in Things, health \in Healths :
              /\ Record(t, health) /\ life[t] # "unused" /\ UNCHANGED <<life, doc>>
              /\ health = "offline" => Known(t)
  <2>1. PICK v \in check[c].todo : Record(v.thing, v.new)
    BY <1>2 DEF CheckRecords
  <2>2. v.thing \in Things /\ v.new \in Healths
    BY DEF TypeOK, CheckState, Due
  <2>3. Known(v.thing)
    BY DEF Holds, CheckHolds
  <2> QED BY <1>2, <2>1, <2>2, <2>3 DEF CheckRecords, Known
<1>3. ASSUME NEW s \in Scans, \/ ScanReceived(s) \/ FindHost(s) \/ ScanUpdates(s) \/ ScanCreates(s)
                              \/ HostFails(s) \/ ScanEnds(s)
      PROVE  history' = history
  BY <1>3 DEF ScanReceived, FindHost, ScanUpdates, ScanCreates, HostFails, ScanEnds
<1>4. ASSUME NEW c \in Checks, CheckReceived(c) \/ CheckUpdates(c) \/ CheckEnds(c) \/ CheckFails(c)
      PROVE  history' = history
  BY <1>4 DEF CheckReceived, CheckUpdates, CheckEnds, CheckFails
<1>5. ASSUME \/ UserCreates \/ EditWrites \/ DeleteDiscovered \/ ApiRestarts \/ UNCHANGED vars
             \/ \E t \in Things : EditReads(t) \/ Delete(t)
      PROVE  history' = history
  BY <1>5 DEF UserCreates, EditWrites, DeleteDiscovered, ApiRestarts, EditReads, Delete, vars
<1> QED
  BY <1>1, <1>2, <1>3, <1>4, <1>5 DEF Next, ScanStep, CheckStep

\* What happens to the history of one thing
LEMMA HistoryEffect ==
  ASSUME TypeOK, Holds, [Next]_vars, NEW t \in Things
  PROVE  /\ HasOffline(t) => HasOffline(t)'
         /\ ~HasOffline(t) /\ HasOffline(t)' => UNCHANGED <<life, doc>> /\ Known(t)
         /\ life[t] = "unused" => history'[t] = history[t]
<1>1. CASE history' = history
  BY <1>1 DEF HasOffline
<1>2. ASSUME NEW u \in Things, NEW health \in Healths, Record(u, health), life[u] # "unused",
             UNCHANGED <<life, doc>>, health = "offline" => Known(u)
      PROVE  /\ HasOffline(t) => HasOffline(t)'
             /\ ~HasOffline(t) /\ HasOffline(t)' => UNCHANGED <<life, doc>> /\ Known(t)
             /\ life[t] = "unused" => history'[t] = history[t]
  BY <1>2, RecordAppends DEF HasOffline
<1> QED BY <1>1, <1>2, RecordEffect

\* Where what a check holds comes from
LEMMA CheckEffect ==
  ASSUME TypeOK, [Next]_vars, NEW c \in Checks
  PROVE  /\ \A v \in check'[c].todo :
              \/ v \in check[c].todo
              \/ /\ v.thing \in Registered /\ v.old = doc[v.thing].health
                 /\ UNCHANGED <<life, doc, history>>
         /\ check'[c].at = "update" =>
              \/ check[c].at = "update" /\ check'[c] = check[c]
              \/ \E v \in check[c].todo : /\ check'[c].thing = v.thing /\ check'[c].new = v.new
                                          /\ Record(v.thing, v.new) /\ UNCHANGED <<life, doc>>
<1> DEFINE Goal == /\ \A v \in check'[c].todo :
                        \/ v \in check[c].todo
                        \/ /\ v.thing \in Registered /\ v.old = doc[v.thing].health
                           /\ UNCHANGED <<life, doc, history>>
                   /\ check'[c].at = "update" =>
                        \/ check[c].at = "update" /\ check'[c] = check[c]
                        \/ \E v \in check[c].todo : /\ check'[c].thing = v.thing /\ check'[c].new = v.new
                                                    /\ Record(v.thing, v.new) /\ UNCHANGED <<life, doc>>
<1>1. CASE check'[c] = check[c]
  BY <1>1
<1>2. ASSUME NEW d \in Checks, CheckReceived(d) PROVE Goal
  <2>1. CASE d # c
    BY <1>1, <1>2, <2>1 DEF CheckReceived, TypeOK
  <2>2. CASE d = c
    <3>1. PICK hosts \in SUBSET Hosts :
            check' = [check EXCEPT ![c] = [NoCheck EXCEPT !.at = "next",
                                             !.todo = {Verdict(t, hosts) : t \in Registered}]]
      BY <1>2, <2>2 DEF CheckReceived
    <3>2. check'[c].at = "next" /\ check'[c].todo = {Verdict(t, hosts) : t \in Registered}
      BY <3>1 DEF NoCheck, TypeOK
    <3>3. ASSUME NEW t \in Registered
          PROVE  Verdict(t, hosts).thing = t /\ Verdict(t, hosts).old = doc[t].health
      BY DEF Verdict
    <3> QED BY <1>2, <3>2, <3>3 DEF CheckReceived
  <2> QED BY <2>1, <2>2
<1>3. ASSUME NEW d \in Checks, CheckRecords(d) PROVE Goal
  <2>1. PICK v \in check[d].todo :
          /\ Record(v.thing, v.new)
          /\ check' = [check EXCEPT ![d] = [at |-> "update", todo |-> check[d].todo \ {v},
                                            thing |-> v.thing, new |-> v.new]]
    BY <1>3 DEF CheckRecords
  <2>2. UNCHANGED <<life, doc>>
    BY <1>3 DEF CheckRecords
  <2>3. CASE d # c
    BY <1>1, <2>1, <2>3 DEF TypeOK
  <2>4. CASE d = c
    BY <2>1, <2>2, <2>4 DEF TypeOK
  <2> QED BY <2>3, <2>4
<1>4. ASSUME NEW d \in Checks, CheckUpdates(d) PROVE Goal
  <2>1. CASE d # c
    BY <1>1, <1>4, <2>1 DEF CheckUpdates, TypeOK
  <2>2. CASE d = c
    <3>1. check[c] \in CheckState
      BY DEF TypeOK
    <3>2. CASE check' = [check EXCEPT ![c] = [NoCheck EXCEPT !.at = "next", !.todo = check[c].todo]]
      <4>1. check'[c].at = "next" /\ check'[c].todo = check[c].todo
        BY <3>2 DEF NoCheck, TypeOK
      <4> QED BY <4>1
    <3>3. ASSUME NEW v \in check[c].todo, check[c].at = "next", check' = [check EXCEPT ![c].todo = @ \ {v}]
          PROVE  Goal
      <4>1. check'[c].at = "next" /\ check'[c].todo = check[c].todo \ {v}
        BY <3>1, <3>3 DEF TypeOK, CheckState
      <4> QED BY <4>1
    <3> QED BY <1>4, <2>2, <3>2, <3>3 DEF CheckUpdates
  <2> QED BY <2>1, <2>2
<1>5. ASSUME NEW d \in Checks, CheckEnds(d) \/ CheckFails(d) PROVE Goal
  <2>1. check' = [check EXCEPT ![d] = NoCheck]
    BY <1>5 DEF CheckEnds, CheckFails
  <2>2. NoCheck.at = "idle" /\ NoCheck.todo = {}
    BY DEF NoCheck
  <2>3. check'[c] = check[c] \/ check'[c] = NoCheck
    BY <2>1 DEF TypeOK
  <2> QED BY <1>1, <2>2, <2>3
<1>6. CASE ApiRestarts
  BY <1>6 DEF ApiRestarts, NoCheck
<1>7. ASSUME NEW s \in Scans, ScanReceived(s) \/ ScanStep(s) \/ HostFails(s) PROVE check'[c] = check[c]
  BY <1>7 DEF ScanReceived, ScanStep, FindHost, ScanRecords, ScanUpdates, ScanCreates, ScanEnds, HostFails
<1>8. ASSUME \/ UserCreates \/ EditWrites \/ DeleteDiscovered \/ UNCHANGED vars
             \/ \E t \in Things : EditReads(t) \/ Delete(t)
      PROVE  check'[c] = check[c]
  BY <1>8 DEF UserCreates, EditWrites, DeleteDiscovered, EditReads, Delete, vars
<1> QED
  BY <1>1, <1>2, <1>3, <1>4, <1>5, <1>6, <1>7, <1>8 DEF Next, CheckStep

\* A step keeps what handlers hold and the silence of unused identities.
LEMMA HoldsStep ==
  ASSUME TypeOK, Holds, [Next]_vars
  PROVE  Holds'
<1>1. ScanHolds'
  BY ScanHoldsStep DEF Holds
<1>2. CheckHolds'
  <2>1. \A t \in Things : Known(t) => Known(t)'
    BY KnownStays
  <2>2. \A v \in Due : v.thing \in Things /\ v.new \in Healths
    BY DEF Due
  <2>3. \A t \in Registered : t \in Things /\ Known(t)
    BY DEF Registered, Live, Known
  <2>4. ASSUME NEW c \in Checks, NEW v \in check'[c].todo
        PROVE  v.thing \in Things /\ Known(v.thing)
    BY <2>2, <2>3, CheckEffect DEF TypeOK, CheckState, Holds, CheckHolds
  <2>5. ASSUME NEW c \in Checks, check'[c].at = "update"
        PROVE  /\ check'[c].thing \in Things
               /\ Known(check'[c].thing)
               /\ check'[c].new \in Healths
    BY <2>2, <2>5, CheckEffect DEF TypeOK, CheckState, Holds, CheckHolds
  <2>6. \A c \in Checks : \A v \in check'[c].todo : Known(v.thing)'
    BY <2>1, <2>4
  <2>7. \A c \in Checks : check'[c].at = "update" =>
            life'[check'[c].thing] # "unused" /\ doc'[check'[c].thing].reg = "registered"
    BY <2>1, <2>5 DEF Known
  <2> QED BY <2>5, <2>6, <2>7 DEF CheckHolds, Known
<1>3. UnusedSilent'
  BY KnownStays, HistoryEffect DEF Holds, UnusedSilent
<1> QED BY <1>1, <1>2, <1>3 DEF Holds

-----------------------------------------------------------------------------
(* The invariants *)

\* Health changes to what the handler found, and an event comes first.
LEMMA HealthEffect ==
  ASSUME TypeOK, Holds, Recorded, [Next]_vars, NEW t \in Things,
         doc'[t].health = "offline", doc[t].health # "offline"
  PROVE  Known(t) /\ HasOffline(t) /\ doc'[t].reg = doc[t].reg /\ history' = history
<1>1. ASSUME NEW c \in Checks, CheckUpdates(c) PROVE Known(t) /\ HasOffline(t) /\ history' = history
  <2>1. history' = history /\ life' = life
    BY <1>1 DEF CheckUpdates
  <2>2. CASE check[c].at = "update" /\ SetHealth(check[c].thing, check[c].new)
    <3>1. check[c].thing = t /\ check[c].new = "offline"
      BY <2>1, <2>2, SetHealthEffect
    <3> QED BY <2>1, <2>2, <3>1 DEF Holds, CheckHolds, Recorded
  <2>3. ASSUME NEW v \in check[c].todo, v.old = v.new, SetHealth(v.thing, v.new)
        PROVE  Known(t) /\ HasOffline(t) /\ history' = history
    <3>1. v.thing = t /\ v.new = "offline"
      BY <2>1, <2>3, SetHealthEffect
    <3> QED BY <2>1, <2>3, <3>1 DEF Holds, CheckHolds, Recorded
  <2> QED BY <1>1, <2>2, <2>3 DEF CheckUpdates
<1>2. ASSUME NEW s \in Scans PROVE ~ScanUpdates(s)
  <2> SUFFICES ASSUME ScanUpdates(s) PROVE FALSE
    OBVIOUS
  <2>1. doc[t] \in Doc
    BY DEF TypeOK
  <2>2. [doc[t] EXCEPT !.ip = scan[s].host.ip, !.health = "online"].health = "online"
    BY <2>1 DEF Doc
  <2> QED BY <2>2 DEF ScanUpdates
<1>3. ~UserCreates /\ ~EditWrites /\ \A s \in Scans : ~ScanCreates(s)
  BY CreateEffect, EditEffect
<1>4. doc' # doc
  OBVIOUS
<1>5. \E c \in Checks : CheckUpdates(c)
  <2>1. ASSUME NEW s \in Scans, ScanReceived(s) \/ FindHost(s) \/ ScanRecords(s) \/ HostFails(s) \/ ScanEnds(s)
        PROVE  doc' = doc
    BY <2>1 DEF ScanReceived, FindHost, ScanRecords, HostFails, ScanEnds
  <2>2. ASSUME NEW c \in Checks, CheckReceived(c) \/ CheckRecords(c) \/ CheckEnds(c) \/ CheckFails(c)
        PROVE  doc' = doc
    BY <2>2 DEF CheckReceived, CheckRecords, CheckEnds, CheckFails
  <2>3. ASSUME \/ DeleteDiscovered \/ ApiRestarts \/ UNCHANGED vars
               \/ \E u \in Things : EditReads(u) \/ Delete(u)
        PROVE  doc' = doc
    BY <2>3 DEF DeleteDiscovered, ApiRestarts, EditReads, Delete, vars
  <2> QED BY <1>2, <1>3, <1>4, <2>1, <2>2, <2>3 DEF Next, ScanStep, CheckStep
<1>6. Keeps(t)
  BY <1>3, OtherSteps
<1> QED BY <1>1, <1>5, <1>6 DEF Keeps

\* A step keeps an offline event behind every offline document and verdict.
LEMMA RecordedStep ==
  ASSUME TypeOK, Holds, Recorded, [Next]_vars
  PROVE  Recorded'
<1>1. ASSUME NEW t \in Things, doc'[t].health = "offline" PROVE HasOffline(t)'
  BY <1>1, HealthEffect, HistoryEffect DEF Recorded
<1>2. \A v \in Due : v.thing \in Things /\ v.new \in Healths
  BY DEF Due
<1>3. \A t \in Things : HasOffline(t) => HasOffline(t)'
  BY HistoryEffect
<1>4. ASSUME NEW c \in Checks, NEW v \in check'[c].todo, v.old = "offline" PROVE HasOffline(v.thing)'
  <2>1. CASE v \in check[c].todo
    BY <1>2, <1>3, <1>4, <2>1 DEF Recorded, TypeOK, CheckState
  <2>2. CASE v.thing \in Registered /\ v.old = doc[v.thing].health
    BY <1>3, <1>4, <2>2 DEF Recorded, Registered, Live
  <2> QED BY <2>1, <2>2, CheckEffect
<1>5. ASSUME NEW c \in Checks, check'[c].at = "update", check'[c].new = "offline"
      PROVE  "offline" \in Range(history'[check'[c].thing])
  <2>1. CASE check[c].at = "update" /\ check'[c] = check[c]
    BY <1>3, <1>5, <2>1 DEF Recorded, Holds, CheckHolds, HasOffline
  <2>2. ASSUME NEW v \in check[c].todo, check'[c].thing = v.thing, check'[c].new = v.new,
               Record(v.thing, v.new)
        PROVE  "offline" \in Range(history'[check'[c].thing])
    <3>1. v.thing \in Things /\ v.new \in Healths
      BY <1>2 DEF TypeOK, CheckState
    <3> QED BY <1>5, <2>2, <3>1, RecordAppends
  <2> QED BY <1>5, <2>1, <2>2, CheckEffect
<1> QED BY <1>1, <1>4, <1>5 DEF Recorded, HasOffline

\* A step takes no discovered thing offline.
LEMMA UnmonitoredStep ==
  ASSUME TypeOK, Holds, Recorded, Unmonitored, [Next]_vars
  PROVE  Unmonitored'
<1> SUFFICES ASSUME NEW t \in Things, doc'[t].reg = "discovered"
             PROVE  doc'[t].health # "offline" /\ ~HasOffline(t)'
  BY DEF Unmonitored, HasOffline
<1>1. CASE doc[t].reg = "discovered"
  <2>1. doc[t].health # "offline" /\ ~HasOffline(t)
    BY <1>1 DEF Unmonitored, HasOffline
  <2>2. ~Known(t)
    BY <1>1 DEF Known
  <2> QED BY <2>1, <2>2, HealthEffect, HistoryEffect
<1>2. CASE doc[t].reg # "discovered"
  <2>1. life[t] = "unused"
    BY <1>2, KnownStays DEF Known, TypeOK, Doc
  <2>2. ~HasOffline(t)
    BY <2>1 DEF Holds, UnusedSilent, HasOffline, Range
  <2>3. ~Known(t)
    BY <2>1 DEF Known
  <2>4. doc[t].health # "offline"
    BY <2>2 DEF Recorded
  <2> QED BY <2>2, <2>3, <2>4, HealthEffect, HistoryEffect
<1> QED BY <1>1, <1>2

\* A step keeps the MAC addresses different: creations and edits look for the
\* address among the live documents when they write.
LEMMA UniqueMacStep ==
  ASSUME TypeOK, UniqueMac, [Next]_vars
  PROVE  UniqueMac'
<1> SUFFICES ASSUME NEW t \in Things, NEW u \in Things, life'[t] = "live", life'[u] = "live",
                    doc'[t].mac = doc'[u].mac, doc'[t].mac # "none", t # u
             PROVE  FALSE
  BY DEF UniqueMac, Live
<1>1. ASSUME life[t] = "live", life[u] = "live", doc[t].mac = doc'[t].mac, doc[u].mac = doc'[u].mac
      PROVE  FALSE
  BY <1>1 DEF UniqueMac, Live
<1>2. CASE UserCreates \/ \E s \in Scans : ScanCreates(s)
  <2>1. CASE UNCHANGED <<life, doc>>
    BY <1>1, <2>1
  <2>2. ASSUME NEW n \in Things, life[n] = "unused", MacFree(doc'[n].mac, "none"),
               \A x \in Things \ {n} : life'[x] = life[x] /\ doc'[x] = doc[x]
        PROVE  FALSE
    BY <1>1, <2>2, ThingsAssumption DEF MacFree, Live
  <2> QED BY <1>2, <2>1, <2>2, CreateEffect
<1>3. CASE EditWrites
  <2>1. ASSUME NEW x \in Things, NEW y \in Things, x # y, life[y] = "live", doc'[x].mac = doc'[y].mac,
               doc'[x].mac # "none", x = edit.thing, MacFree(doc'[x].mac, x), doc'[y].mac = doc[y].mac
        PROVE  FALSE
    BY <2>1 DEF MacFree, Live
  <2> QED BY <1>1, <1>3, <2>1, EditEffect
<1>4. CASE ~UserCreates /\ ~EditWrites /\ \A s \in Scans : ~ScanCreates(s)
  <2>1. Keeps(t) /\ Keeps(u)
    BY <1>4, OtherSteps
  <2> QED BY <1>1, <2>1 DEF Keeps
<1> QED BY <1>2, <1>3, <1>4

\* IInv is inductive.
LEMMA Inductive == Spec => []IInv
<1>1. Init => IInv
  BY InitHolds
<1>2. IInv /\ [Next]_vars => IInv'
  <2> SUFFICES ASSUME IInv, [Next]_vars PROVE IInv'
    OBVIOUS
  <2>1. TypeOK'
    BY TypeStep DEF IInv, Holds
  <2>2. Holds'
    BY HoldsStep DEF IInv
  <2>3. Recorded'
    BY RecordedStep DEF IInv
  <2>4. Unmonitored'
    BY UnmonitoredStep DEF IInv
  <2>5. UniqueMac'
    BY UniqueMacStep DEF IInv
  <2> QED BY <2>1, <2>2, <2>3, <2>4, <2>5 DEF IInv
<1> QED BY <1>1, <1>2, PTL DEF Spec

-----------------------------------------------------------------------------
(* Theorems *)

\* Every variable holds a value of its kind.
THEOREM TypeCorrect == Spec => []TypeOK
<1>1. IInv => TypeOK
  BY DEF IInv
<1> QED BY <1>1, Inductive, PTL

\* No two documents have the same MAC address: a scan that found none when it
\* looked creates none if a user or another scan created it since.
THEOREM MacsAreUnique == Spec => []UniqueMac
<1>1. IInv => UniqueMac
  BY DEF IInv
<1> QED BY <1>1, Inductive, PTL

\* A discovered thing never shows offline nor has an offline event.
THEOREM OnlyRegisteredMonitored == Spec => []DiscoveredNotMonitored
<1>1. IInv => DiscoveredNotMonitored
  BY DEF IInv, TypeOK, Doc, Unmonitored, DiscoveredNotMonitored, Registered, Live
<1> QED BY <1>1, Inductive, PTL

\* A thing that is offline has an offline event, whatever overlapped or failed.
THEOREM OfflineHasEvent == Spec => []OfflineRecorded
<1>1. IInv => OfflineRecorded
  BY DEF IInv, Recorded, HasOffline, OfflineRecorded, Live
<1> QED BY <1>1, Inductive, PTL

\* Only its own deletion ends the registration of a thing.
THEOREM RegistrationStays == Spec => RegisteredStays
<1> DEFINE Stays == \A t \in Registered : t \in Registered' \/ Delete(t)
<1>1. IInv /\ [Next]_vars => [Stays]_vars
  <2> SUFFICES ASSUME TypeOK, [Next]_vars, NEW t \in Things, life[t] = "live",
                      doc[t].reg = "registered", ~Delete(t)
               PROVE  life'[t] = "live" /\ doc'[t].reg = "registered"
    BY DEF IInv, Registered, Live
  <2>1. doc'[t].reg = "registered"
    BY KnownStays DEF Known
  <2>2. CASE UserCreates \/ \E s \in Scans : ScanCreates(s)
    BY <2>1, <2>2, CreateEffect
  <2>3. CASE EditWrites
    BY <2>1, <2>3, EditEffect
  <2>4. CASE DeleteDiscovered
    BY <2>1, <2>4 DEF DeleteDiscovered, Registered, Live
  <2>5. CASE \E u \in Things : Delete(u)
    BY <2>1, <2>5 DEF Delete, TypeOK
  <2>6. CASE life' = life
    BY <2>1, <2>6
  <2>7. ASSUME NEW s \in Scans, \/ ScanReceived(s) \/ FindHost(s) \/ ScanRecords(s) \/ ScanUpdates(s)
                                \/ HostFails(s) \/ ScanEnds(s)
        PROVE  life' = life
    BY <2>7 DEF ScanReceived, FindHost, ScanRecords, ScanUpdates, HostFails, ScanEnds
  <2>8. ASSUME NEW c \in Checks, \/ CheckReceived(c) \/ CheckRecords(c) \/ CheckUpdates(c)
                                 \/ CheckEnds(c) \/ CheckFails(c)
        PROVE  life' = life
    BY <2>8 DEF CheckReceived, CheckRecords, CheckUpdates, CheckEnds, CheckFails
  <2>9. ASSUME ApiRestarts \/ (\E u \in Things : EditReads(u)) \/ UNCHANGED vars
        PROVE  life' = life
    BY <2>9 DEF ApiRestarts, EditReads, vars
  <2> QED
    BY <2>2, <2>3, <2>4, <2>5, <2>6, <2>7, <2>8, <2>9 DEF Next, ScanStep, CheckStep
<1> QED BY <1>1, Inductive, PTL DEF Spec, RegisteredStays

\* A deleted thing stays deleted: no handler or edit that still holds its
\* document creates it again.
THEOREM DeletionStays == Spec => DeletedStays
<1> DEFINE Stays == \A t \in Things : life[t] = "deleted" => life'[t] = "deleted"
<1>1. IInv /\ [Next]_vars => [Stays]_vars
  <2> SUFFICES ASSUME TypeOK, [Next]_vars, NEW t \in Things, life[t] = "deleted"
               PROVE  life'[t] = "deleted"
    BY DEF IInv
  <2>1. CASE UserCreates \/ \E s \in Scans : ScanCreates(s)
    BY <2>1, CreateEffect
  <2>2. CASE EditWrites
    BY <2>2, EditEffect
  <2>3. CASE ~UserCreates /\ ~EditWrites /\ \A s \in Scans : ~ScanCreates(s)
    BY <2>3, OtherSteps DEF Keeps
  <2> QED BY <2>1, <2>2, <2>3
<1> QED BY <1>1, Inductive, PTL DEF Spec, DeletedStays

-----------------------------------------------------------------------------
(* One handler at a time, and none that fails: the history is as designed *)

\* At most one handler is under way.
Alone ==
  /\ \A s, r \in Scans : scan[s].at # "idle" /\ scan[r].at # "idle" => s = r
  /\ \A c, d \in Checks : check[c].at # "idle" /\ check[d].at # "idle" => c = d
  /\ \A s \in Scans, c \in Checks : scan[s].at = "idle" \/ check[c].at = "idle"

\* The history of a thing is silent, or its last event is the health.
Told(t) == history[t] = << >> \/ LastEvent(t) = doc[t].health

\* What a scan has found of the thing it is about to record or to update
ScanTold ==
  \A s \in Scans :
    /\ scan[s].at = "record" => Told(scan[s].thing) /\ doc[scan[s].thing].health # "online"
    /\ scan[s].at = "update" =>
         \/ LastEvent(scan[s].thing) = "online"
         \/ doc[scan[s].thing].health = "online" /\ Told(scan[s].thing)

\* What a check has read is still so: each thing has one verdict, and the one being
\* written has its event already.
CheckTold ==
  \A c \in Checks : check[c].at # "idle" =>
    /\ \A v \in check[c].todo : Told(v.thing) /\ doc[v.thing].health = v.old
    /\ \A v, w \in check[c].todo : v.thing = w.thing => v = w
    /\ check[c].at = "update" => /\ LastEvent(check[c].thing) = check[c].new
                                 /\ \A v \in check[c].todo : v.thing # check[c].thing

\* Only the thing that a handler is about to update is behind its history.
Writing(t) ==
  \/ \E s \in Scans : scan[s].at = "update" /\ scan[s].thing = t
  \/ \E c \in Checks : check[c].at = "update" /\ check[c].thing = t
LiveTold == \A t \in Things : life[t] = "live" => Told(t) \/ Writing(t)

SerialInv == Alone /\ ScanTold /\ CheckTold /\ LiveTold /\ HistoryAlternates

\* Running counts the handlers that are not idle.
LEMMA RunningCounts ==
  /\ Running \in Nat
  /\ Running = 0 => (\A s \in Scans : scan[s].at = "idle") /\ (\A c \in Checks : check[c].at = "idle")
<1> DEFINE S == {s \in Scans : scan[s].at # "idle"}
           C == {c \in Checks : check[c].at # "idle"}
<1>1. IsFiniteSet(S) /\ IsFiniteSet(C)
  <2>1. S \subseteq Scans \cup Checks /\ C \subseteq Scans \cup Checks
    OBVIOUS
  <2> QED BY <2>1, HandlersAssumption, FS_Subset
<1>2. Cardinality(S) \in Nat /\ Cardinality(C) \in Nat
  BY <1>1, FS_CardinalityType
<1>3. Running = Cardinality(S) + Cardinality(C)
  BY DEF Running
<1>4. ASSUME Running = 0 PROVE S = {} /\ C = {}
  <2>1. Cardinality(S) = 0 /\ Cardinality(C) = 0
    BY <1>2, <1>3, <1>4
  <2> QED BY <1>1, <2>1, FS_EmptySet
<1>5. Running \in Nat
  BY <1>2, <1>3
<1> QED BY <1>4, <1>5

\* An event that differs from the last keeps the history alternating, and is the last.
LEMMA AppendAlternates ==
  ASSUME TypeOK, HistoryAlternates, NEW t \in Things, NEW health \in Healths, Record(t, health),
         history[t] = << >> \/ LastEvent(t) # health
  PROVE  /\ HistoryAlternates'
         /\ LastEvent(t)' = health
         /\ \A u \in Things : u # t => history'[u] = history[u]
<1>1. history[t] \in Seq(Healths) /\ history'[t] = Append(history[t], health)
  BY DEF Record, TypeOK
<1> DEFINE n == Len(history[t])
<1>2. /\ n \in Nat
      /\ Len(history'[t]) = n + 1
      /\ \A i \in 1..n : history'[t][i] = history[t][i]
      /\ history'[t][n + 1] = health
  BY <1>1, AppendProperties, LenProperties
<1>3. history'[t] # << >>
  <2>1. Len(history'[t]) # 0
    BY <1>2
  <2> QED BY <2>1
<1>4. LastEvent(t)' = health
  BY <1>2, <1>3 DEF LastEvent
<1>5. \A u \in Things : u # t => history'[u] = history[u]
  BY DEF Record, TypeOK
<1>6. ASSUME NEW i \in 1..n PROVE history'[t][i] # history'[t][i + 1]
  <2>1. CASE i = n
    <3>1. history[t] # << >>
      BY <1>2, <1>6, <2>1
    <3>2. history[t][n] # health
      BY <3>1 DEF LastEvent
    <3> QED BY <1>2, <2>1, <3>2
  <2>2. CASE i # n
    <3>1. i \in 1..(n - 1) /\ i + 1 \in 1..n
      BY <1>2, <2>2
    <3>2. history[t][i] # history[t][i + 1]
      BY <3>1 DEF HistoryAlternates
    <3> QED BY <1>2, <3>1, <3>2
  <2> QED BY <2>1, <2>2
<1>7. Len(history'[t]) - 1 = n
  BY <1>2
<1> HIDE DEF n
<1>8. \A i \in 1..(Len(history'[t]) - 1) : history'[t][i] # history'[t][i + 1]
  BY <1>6, <1>7
<1>9. HistoryAlternates'
  BY <1>5, <1>8 DEF HistoryAlternates
<1> QED BY <1>4, <1>5, <1>9

\* A step of the users: it leaves the handlers, the history and every health that a
\* handler or the history speaks of.
LEMMA UsersSerial ==
  ASSUME IInv, SerialInv, UNCHANGED <<history, scan, check>>,
         \A t \in Things : /\ life'[t] = "live" => life[t] \in {"live", "unused"}
                           /\ doc'[t].health = doc[t].health \/ life[t] = "unused"
  PROVE  SerialInv'
<1>1. ASSUME NEW t \in Things, life[t] # "unused" PROVE Told(t)' <=> Told(t)
  BY <1>1 DEF Told, LastEvent
<1>2. \A t : LastEvent(t)' = LastEvent(t)
  BY DEF LastEvent
<1>3. Alone' /\ HistoryAlternates'
  BY DEF SerialInv, Alone, HistoryAlternates
<1>4. ScanTold'
  BY <1>1, <1>2 DEF SerialInv, ScanTold, IInv, Holds, ScanHolds
<1>5. CheckTold'
  <2>1. ASSUME NEW c \in Checks, NEW v \in check[c].todo PROVE v.thing \in Things /\ life[v.thing] # "unused"
    BY DEF IInv, Holds, CheckHolds, Known, TypeOK, CheckState, Due
  <2>2. ASSUME NEW c \in Checks, check[c].at # "idle", NEW v \in check[c].todo
        PROVE  Told(v.thing)' /\ doc'[v.thing].health = v.old
    BY <1>1, <2>1, <2>2 DEF SerialInv, CheckTold
  <2> QED BY <1>2, <2>2 DEF SerialInv, CheckTold
<1>6. LiveTold'
  <2> SUFFICES ASSUME NEW t \in Things, life'[t] = "live" PROVE (Told(t) \/ Writing(t))'
    BY DEF LiveTold
  <2>1. CASE life[t] = "unused"
    BY <2>1 DEF IInv, Holds, UnusedSilent, Told
  <2>2. CASE life[t] = "live"
    BY <1>1, <2>2 DEF SerialInv, LiveTold, Writing
  <2> QED BY <2>1, <2>2
<1> QED BY <1>3, <1>4, <1>5, <1>6 DEF SerialInv

\* The one scan that is under way, and what is idle meanwhile
LEMMA OnlyScan ==
  ASSUME IInv, SerialInv, NEW s \in Scans, scan[s].at # "idle"
  PROVE  /\ \A r \in Scans : r # s => scan[r].at = "idle"
         /\ \A c \in Checks : check[c].at = "idle"
         /\ \A t \in Things : life[t] = "live" =>
              Told(t) \/ (scan[s].at = "update" /\ scan[s].thing = t)
BY DEF SerialInv, Alone, LiveTold, Writing

\* After a step of the only scan, what it holds and who is behind is all there is to show.
LEMMA ScanSerial ==
  ASSUME IInv, SerialInv, NEW s \in Scans, scan[s].at # "idle", check' = check,
         \A r \in Scans : r # s => scan'[r] = scan[r],
         HistoryAlternates',
         (scan[s].at = "record" => Told(scan[s].thing) /\ doc[scan[s].thing].health # "online")',
         (scan[s].at = "update" =>
            \/ LastEvent(scan[s].thing) = "online"
            \/ doc[scan[s].thing].health = "online" /\ Told(scan[s].thing))',
         \A t \in Things : life'[t] = "live" =>
           Told(t)' \/ (scan'[s].at = "update" /\ scan'[s].thing = t)
  PROVE  SerialInv'
<1>1. /\ \A r \in Scans : r # s => scan'[r].at = "idle"
      /\ \A c \in Checks : check'[c].at = "idle"
  BY OnlyScan
<1>2. Alone'
  BY <1>1 DEF Alone
<1>3. ScanTold'
  BY <1>1 DEF ScanTold
<1>4. CheckTold'
  BY <1>1 DEF CheckTold
<1>5. LiveTold'
  BY DEF LiveTold, Writing
<1> QED BY <1>2, <1>3, <1>4, <1>5 DEF SerialInv

\* A handler that receives a message is the only one.
LEMMA NoneRuns ==
  ASSUME MaxRunning = 1, IInv, SerialInv, Receive
  PROVE  /\ \A s \in Scans : scan[s].at = "idle"
         /\ \A c \in Checks : check[c].at = "idle"
         /\ \A t \in Things : life[t] = "live" => Told(t)
<1>1. Running = 0
  BY RunningCounts DEF Receive
<1> QED BY <1>1, RunningCounts DEF SerialInv, LiveTold, Writing

LEMMA ScanStepSerial ==
  ASSUME MaxRunning = 1, Faults = {}, IInv, SerialInv, NEW s \in Scans
  PROVE  ScanReceived(s) \/ ScanStep(s) \/ HostFails(s) => SerialInv'
<1>0. scan[s] \in ScanState /\ TypeOK
  BY DEF IInv, TypeOK
<1>1. ASSUME ScanReceived(s) PROVE SerialInv'
  <2>1. /\ \A r \in Scans : scan[r].at = "idle"
        /\ \A c \in Checks : check[c].at = "idle"
        /\ \A u \in Things : life[u] = "live" => Told(u)
    BY <1>1, NoneRuns DEF ScanReceived
  <2>2. PICK hosts \in SUBSET Hosts :
          scan' = [scan EXCEPT ![s] = [NoScan EXCEPT !.at = "next", !.todo = hosts]]
    BY <1>1, Zenon DEF ScanReceived
  <2>3. /\ scan'[s].at = "next" /\ \A r \in Scans : r # s => scan'[r].at = "idle"
        /\ \A c \in Checks : check'[c].at = "idle"
    BY <1>0, <1>1, <2>1, <2>2 DEF NoScan, TypeOK, ScanReceived
  <2>4. UNCHANGED <<life, doc, history>>
    BY <1>1 DEF ScanReceived
  <2>5. \A u : Told(u)' <=> Told(u)
    BY <2>4 DEF Told, LastEvent
  <2>6. Alone'
    BY <2>3 DEF Alone
  <2>7. ScanTold' /\ CheckTold'
    BY <2>3 DEF ScanTold, CheckTold
  <2>8. LiveTold'
    BY <2>1, <2>4, <2>5 DEF LiveTold
  <2>9. HistoryAlternates'
    BY <2>4 DEF SerialInv, HistoryAlternates
  <2> QED BY <2>6, <2>7, <2>8, <2>9 DEF SerialInv
<1>2. ASSUME FindHost(s) PROVE SerialInv'
  <2>1. PICK h \in scan[s].todo :
          \/ scan' = [scan EXCEPT ![s] = [at |-> "create", todo |-> scan[s].todo \ {h},
                                          host |-> h, thing |-> "none"]]
          \/ \E u \in ByMac(h.mac) :
               scan' = [scan EXCEPT ![s] = [at |-> IF doc[u].health = "online" THEN "update" ELSE "record",
                                            todo |-> scan[s].todo \ {h}, host |-> h, thing |-> u]]
    BY <1>2 DEF FindHost
  <2>2. /\ UNCHANGED <<life, doc, history, check>> /\ scan[s].at = "next"
    BY <1>2 DEF FindHost
  <2>3. \A u : Told(u)' <=> Told(u)
    BY <2>2 DEF Told, LastEvent
  <2>4. \A u \in Things : life[u] = "live" => Told(u)
    BY <2>2, OnlyScan
  <2>5. HistoryAlternates' /\ \A r \in Scans : r # s => scan'[r] = scan[r]
    BY <1>0, <2>1, <2>2 DEF SerialInv, HistoryAlternates, TypeOK
  <2>6. \/ scan'[s].at = "create"
        \/ \E u \in ByMac(h.mac) : /\ scan'[s].thing = u
                                   /\ scan'[s].at = IF doc[u].health = "online" THEN "update" ELSE "record"
    BY <1>0, <2>1 DEF TypeOK
  <2>7. \A u \in ByMac(h.mac) : Told(u)
    BY <2>4 DEF ByMac, Live
  <2>8. (/\ scan[s].at = "record" => Told(scan[s].thing) /\ doc[scan[s].thing].health # "online"
         /\ scan[s].at = "update" => doc[scan[s].thing].health = "online" /\ Told(scan[s].thing))'
    BY <2>2, <2>3, <2>6, <2>7
  <2> QED BY <2>2, <2>3, <2>4, <2>5, <2>8, ScanSerial
<1>3. ASSUME ScanRecords(s) PROVE SerialInv'
  <2>0. PICK t \in Things : t = scan[s].thing
    BY <1>3 DEF ScanRecords, IInv, Holds, ScanHolds
  <2>1. /\ Told(t) /\ doc[t].health # "online" /\ "online" \in Healths
        /\ Record(t, "online") /\ scan[s].at = "record"
    BY <1>3, <2>0 DEF ScanRecords, SerialInv, ScanTold, Healths
  <2>2. /\ HistoryAlternates' /\ LastEvent(t)' = "online"
        /\ \A u \in Things : u # t => history'[u] = history[u]
    <3>1. history[t] = << >> \/ LastEvent(t) # "online"
      BY <2>1 DEF Told
    <3> QED BY <1>0, <2>1, <3>1, AppendAlternates DEF SerialInv
  <2>3. /\ scan'[s].at = "update" /\ scan'[s].thing = t /\ UNCHANGED <<life, doc, check>>
        /\ \A r \in Scans : r # s => scan'[r] = scan[r]
    BY <1>0, <1>3, <2>0 DEF ScanRecords, TypeOK, ScanState
  <2>4. \A u \in Things : life[u] = "live" => Told(u)
    BY <2>1, OnlyScan
  <2>5. \A u \in Things : life'[u] = "live" => Told(u)' \/ u = t
    BY <2>2, <2>3, <2>4 DEF Told, LastEvent
  <2>6. (/\ scan[s].at = "record" => Told(scan[s].thing) /\ doc[scan[s].thing].health # "online"
         /\ scan[s].at = "update" => LastEvent(scan[s].thing) = "online")'
    BY <2>2, <2>3
  <2> QED BY <2>1, <2>2, <2>3, <2>5, <2>6, ScanSerial
<1>4. ASSUME NextHost(s)
      PROVE  scan'[s].at = "next" /\ \A r \in Scans : r # s => scan'[r] = scan[r]
  BY <1>0, <1>4 DEF NextHost, TypeOK, NoScan
<1>5. ASSUME ScanUpdates(s) PROVE SerialInv'
  <2>0. PICK t \in Things : t = scan[s].thing
    <3>1. scan[s].at = "update"
      BY <1>5, Zenon DEF ScanUpdates
    <3> QED BY <3>1 DEF IInv, Holds, ScanHolds
  <2>1. /\ scan[s].at = "update" /\ UNCHANGED <<life, history, check>>
        /\ scan'[s].at = "next" /\ \A r \in Scans : r # s => scan'[r] = scan[r]
    <3>1. scan[s].at = "update" /\ UNCHANGED <<life, history, check>> /\ NextHost(s)
      BY <1>5, Zenon DEF ScanUpdates
    <3> QED BY <1>4, <3>1
  <2>2. ASSUME NEW u \in Things
        PROVE  [doc[u] EXCEPT !.ip = scan[s].host.ip, !.health = "online"].health = "online"
    <3>1. doc[u] \in Doc
      BY <1>0 DEF TypeOK
    <3> QED BY <3>1 DEF Doc
  <2>3. ASSUME NEW u \in Things
        PROVE  doc'[u].health = IF u = t /\ u \in Live THEN "online" ELSE doc[u].health
    <3>1. doc'[u] = IF u = scan[s].thing /\ u \in Live
                    THEN [doc[u] EXCEPT !.ip = scan[s].host.ip, !.health = "online"] ELSE doc[u]
      BY <1>5, ZenonT(30) DEF ScanUpdates
    <3>2. CASE u = scan[s].thing /\ u \in Live
      <4>1. doc'[u] = [doc[u] EXCEPT !.ip = scan[s].host.ip, !.health = "online"]
        BY <3>1, <3>2, Zenon
      <4>2. doc'[u].health = [doc[u] EXCEPT !.ip = scan[s].host.ip, !.health = "online"].health
        BY <4>1, Zenon
      <4> QED BY <2>0, <2>2, <3>2, <4>2, Zenon
    <3>3. CASE ~(u = scan[s].thing /\ u \in Live)
      <4>1. doc'[u] = doc[u]
        BY <3>1, <3>3, Zenon
      <4> QED BY <2>0, <3>3, <4>1, Zenon
    <3> QED BY <3>2, <3>3
  <2>4. LastEvent(t) = "online" \/ (doc[t].health = "online" /\ Told(t))
    BY <2>0, <2>1 DEF SerialInv, ScanTold
  <2>5. ASSUME NEW u \in Things, life'[u] = "live" PROVE Told(u)'
    <3>1. LastEvent(u)' = LastEvent(u) /\ history'[u] = history[u] /\ u \in Live
      BY <2>1, <2>5 DEF LastEvent, Live
    <3>2. CASE u = t
      BY <2>3, <2>4, <3>1, <3>2 DEF Told
    <3>3. CASE u # t
      <4>1. Told(u)
        BY <2>0, <2>1, <2>5, <3>3, OnlyScan
      <4> QED BY <2>3, <3>1, <3>3, <4>1 DEF Told
    <3> QED BY <3>2, <3>3
  <2>6. HistoryAlternates'
    BY <2>1 DEF SerialInv, HistoryAlternates
  <2> QED BY <2>1, <2>5, <2>6, ScanSerial
<1>6. ASSUME ScanCreates(s) PROVE SerialInv'
  <2>1. /\ scan[s].at = "create" /\ UNCHANGED <<history, check>>
        /\ scan'[s].at = "next" /\ \A r \in Scans : r # s => scan'[r] = scan[r]
    BY <1>4, <1>6 DEF ScanCreates
  <2>2. \A u \in Things : life'[u] = "live" =>
          life[u] = "unused" \/ (life[u] = "live" /\ doc'[u] = doc[u])
    <3>1. ASSUME NEW new, Insert(new)
          PROVE  \A u \in Things : life'[u] = "live" =>
                   life[u] = "unused" \/ (life[u] = "live" /\ doc'[u] = doc[u])
      BY <1>0, <3>1 DEF Insert, TypeOK
    <3> QED BY <1>6, <3>1 DEF ScanCreates
  <2>3. ASSUME NEW u \in Things, life'[u] = "live" PROVE Told(u)'
    <3>1. CASE life[u] = "unused"
      BY <2>1, <3>1 DEF IInv, Holds, UnusedSilent, Told
    <3>2. CASE life[u] = "live" /\ doc'[u] = doc[u]
      <4>1. Told(u)
        BY <2>1, <3>2, OnlyScan
      <4> QED BY <2>1, <3>2, <4>1 DEF Told, LastEvent
    <3> QED BY <2>2, <2>3, <3>1, <3>2
  <2>4. HistoryAlternates'
    BY <2>1 DEF SerialInv, HistoryAlternates
  <2> QED BY <2>1, <2>3, <2>4, ScanSerial
<1>7. ASSUME ScanEnds(s) PROVE SerialInv'
  <2>1. /\ scan[s].at = "next" /\ scan'[s].at = "idle" /\ UNCHANGED <<life, doc, history, check>>
        /\ \A r \in Scans : r # s => scan'[r] = scan[r]
    BY <1>0, <1>7 DEF ScanEnds, TypeOK, NoScan
  <2>2. \A u \in Things : life'[u] = "live" => Told(u)'
    BY <2>1, OnlyScan DEF Told, LastEvent
  <2>3. HistoryAlternates'
    BY <2>1 DEF SerialInv, HistoryAlternates
  <2> QED BY <2>1, <2>2, <2>3, ScanSerial
<1>8. ~HostFails(s)
  BY DEF HostFails
<1> QED BY <1>1, <1>2, <1>3, <1>5, <1>6, <1>7, <1>8 DEF ScanStep

\* The same for the only check.
LEMMA OnlyCheck ==
  ASSUME IInv, SerialInv, NEW c \in Checks, check[c].at # "idle"
  PROVE  /\ \A d \in Checks : d # c => check[d].at = "idle"
         /\ \A s \in Scans : scan[s].at = "idle"
         /\ \A t \in Things : life[t] = "live" =>
              Told(t) \/ (check[c].at = "update" /\ check[c].thing = t)
BY DEF SerialInv, Alone, LiveTold, Writing

LEMMA CheckSerial ==
  ASSUME IInv, NEW c \in Checks, scan' = scan, \A s \in Scans : scan[s].at = "idle",
         \A d \in Checks : d # c => check'[d].at = "idle",
         HistoryAlternates',
         \A v \in check'[c].todo : Told(v.thing)' /\ doc'[v.thing].health = v.old,
         \A v, w \in check'[c].todo : v.thing = w.thing => v = w,
         (check[c].at = "update" => /\ LastEvent(check[c].thing) = check[c].new
                                    /\ \A v \in check[c].todo : v.thing # check[c].thing)',
         \A t \in Things : life'[t] = "live" =>
           Told(t)' \/ (check'[c].at = "update" /\ check'[c].thing = t)
  PROVE  SerialInv'
<1>1. Alone'
  BY DEF Alone
<1>2. ScanTold'
  BY DEF ScanTold
<1>3. CheckTold'
  BY DEF CheckTold
<1>4. LiveTold'
  BY DEF LiveTold, Writing
<1> QED BY <1>1, <1>2, <1>3, <1>4 DEF SerialInv

\* What writing a health does to the healths
LEMMA SetHealthExact ==
  ASSUME TypeOK, NEW t, NEW health, SetHealth(t, health), NEW u \in Things
  PROVE  doc'[u].health = IF u = t /\ life[u] = "live" THEN health ELSE doc[u].health
<1>1. doc'[u] = IF u = t /\ u \in Live THEN [doc[u] EXCEPT !.health = health] ELSE doc[u]
  BY DEF SetHealth
<1>2. doc[u] \in Doc
  BY DEF TypeOK
<1>3. [doc[u] EXCEPT !.health = health].health = health
  BY <1>2 DEF Doc
<1> QED BY <1>1, <1>3 DEF Live

LEMMA CheckStepSerial ==
  ASSUME MaxRunning = 1, Faults = {}, IInv, SerialInv, NEW c \in Checks
  PROVE  CheckReceived(c) \/ CheckStep(c) \/ CheckFails(c) => SerialInv'
<1>0. TypeOK /\ check[c] \in CheckState /\ check[c].todo \subseteq Due
  BY DEF IInv, TypeOK, CheckState
<1>1. ASSUME CheckReceived(c) PROVE SerialInv'
  <2>1. /\ \A s \in Scans : scan[s].at = "idle"
        /\ \A d \in Checks : check[d].at = "idle"
        /\ \A t \in Things : life[t] = "live" => Told(t)
    BY <1>1, NoneRuns DEF CheckReceived
  <2>2. PICK hosts \in SUBSET Hosts :
          check' = [check EXCEPT ![c] = [NoCheck EXCEPT !.at = "next",
                                           !.todo = {Verdict(t, hosts) : t \in Registered}]]
    BY <1>1, Zenon DEF CheckReceived
  <2>3. /\ check'[c].at = "next" /\ check'[c].todo = {Verdict(t, hosts) : t \in Registered}
        /\ \A d \in Checks : d # c => check'[d] = check[d]
    BY <1>0, <2>2 DEF NoCheck, TypeOK
  <2>4. UNCHANGED <<life, doc, history, scan>>
    BY <1>1, Zenon DEF CheckReceived
  <2>5. \A t : Told(t)' <=> Told(t)
    BY <2>4 DEF Told, LastEvent
  <2>6. ASSUME NEW t \in Registered
        PROVE  /\ Verdict(t, hosts).thing = t /\ Verdict(t, hosts).old = doc[t].health
               /\ t \in Things /\ life[t] = "live"
    BY DEF Verdict, Registered, Live
  <2>7. ASSUME NEW v \in check'[c].todo PROVE Told(v.thing)' /\ doc'[v.thing].health = v.old
    BY <2>1, <2>3, <2>4, <2>5, <2>6
  <2>8. \A v, w \in check'[c].todo : v.thing = w.thing => v = w
    BY <2>3, <2>6
  <2>9. HistoryAlternates'
    BY <2>4 DEF SerialInv, HistoryAlternates
  <2>10. \A t \in Things : life'[t] = "live" => Told(t)'
    BY <2>1, <2>4, <2>5
  <2> QED BY <2>1, <2>3, <2>4, <2>7, <2>8, <2>9, <2>10, CheckSerial
<1>2. ASSUME CheckRecords(c) PROVE SerialInv'
  <2>1. PICK v \in check[c].todo :
          /\ v.old # v.new
          /\ Record(v.thing, v.new)
          /\ check' = [check EXCEPT ![c] = [at |-> "update", todo |-> check[c].todo \ {v},
                                            thing |-> v.thing, new |-> v.new]]
    BY <1>2, Zenon DEF CheckRecords
  <2>2. check[c].at = "next" /\ UNCHANGED <<life, doc, scan>>
    BY <1>2, Zenon DEF CheckRecords
  <2>3. PICK t \in Things : t = v.thing
    BY <1>0 DEF Due
  <2>4. v.new \in Healths
    BY <1>0 DEF Due
  <2>5. /\ Told(t) /\ doc[t].health # v.new
        /\ \A w \in check[c].todo \ {v} : Told(w.thing) /\ doc[w.thing].health = w.old /\ w.thing # t
        /\ \A w, x \in check[c].todo : w.thing = x.thing => w = x
    BY <2>1, <2>2, <2>3 DEF SerialInv, CheckTold
  <2>6. /\ HistoryAlternates' /\ LastEvent(t)' = v.new
        /\ \A u \in Things : u # t => history'[u] = history[u]
    <3>1. history[t] = << >> \/ LastEvent(t) # v.new
      BY <2>5 DEF Told
    <3>2. HistoryAlternates /\ Record(t, v.new)
      BY <2>1, <2>3 DEF SerialInv
    <3> QED BY <1>0, <2>4, <3>1, <3>2, AppendAlternates
  <2>7. /\ check'[c].at = "update" /\ check'[c].todo = check[c].todo \ {v}
        /\ check'[c].thing = t /\ check'[c].new = v.new
        /\ \A d \in Checks : d # c => check'[d] = check[d]
    BY <1>0, <2>1, <2>3 DEF TypeOK
  <2>8. \A u \in Things : u # t => (Told(u)' <=> Told(u))
    BY <2>2, <2>6 DEF Told, LastEvent
  <2>9. \A w \in check'[c].todo : Told(w.thing)' /\ doc'[w.thing].health = w.old /\ w.thing # t
    <3>1. \A w \in check[c].todo : w.thing \in Things
      BY <1>0 DEF Due
    <3> QED BY <2>2, <2>5, <2>7, <2>8, <3>1
  <2>10. \A u \in Things : life'[u] = "live" => Told(u)' \/ u = t
    BY <2>2, <2>8, OnlyCheck
  <2>11. (check[c].at = "update" => /\ LastEvent(check[c].thing) = check[c].new
                                    /\ \A w \in check[c].todo : w.thing # check[c].thing)'
    BY <2>6, <2>7, <2>9
  <2>12. /\ \A d \in Checks : d # c => check'[d].at = "idle"
         /\ \A s \in Scans : scan[s].at = "idle"
    BY <2>2, <2>7, OnlyCheck
  <2>13. \A w, x \in check'[c].todo : w.thing = x.thing => w = x
    BY <2>5, <2>7
  <2> QED BY <2>2, <2>6, <2>7, <2>9, <2>10, <2>11, <2>12, <2>13, CheckSerial
<1>3. ASSUME CheckUpdates(c) PROVE SerialInv'
  <2>1. UNCHANGED <<life, history, scan>>
    BY <1>3, Zenon DEF CheckUpdates
  <2>2. /\ \A t : LastEvent(t)' = LastEvent(t) /\ history'[t] = history[t]
        /\ HistoryAlternates'
    BY <2>1 DEF LastEvent, SerialInv, HistoryAlternates
  <2>3. \A v \in check[c].todo : v.thing \in Things
    BY <1>0 DEF Due
  <2>4. CASE /\ check[c].at = "update"
             /\ SetHealth(check[c].thing, check[c].new)
             /\ check' = [check EXCEPT ![c] = [NoCheck EXCEPT !.at = "next", !.todo = check[c].todo]]
    <3>1. PICK t \in Things : t = check[c].thing
      BY <2>4 DEF IInv, Holds, CheckHolds
    <3>2. PICK health : health = check[c].new
      OBVIOUS
    <3>3. ASSUME NEW u \in Things
          PROVE  doc'[u].health = IF u = t /\ life[u] = "live" THEN health ELSE doc[u].health
      BY <1>0, <2>4, <3>1, <3>2, SetHealthExact
    <3>4. /\ check'[c].at = "next" /\ check'[c].todo = check[c].todo
          /\ \A d \in Checks : d # c => check'[d] = check[d]
      BY <1>0, <2>4 DEF NoCheck, TypeOK
    <3>5. /\ LastEvent(t) = health
          /\ \A v \in check[c].todo : Told(v.thing) /\ doc[v.thing].health = v.old /\ v.thing # t
          /\ \A v, w \in check[c].todo : v.thing = w.thing => v = w
      BY <2>4, <3>1, <3>2 DEF SerialInv, CheckTold
    <3>6. \A v \in check'[c].todo : Told(v.thing)' /\ doc'[v.thing].health = v.old
      BY <2>2, <2>3, <3>3, <3>4, <3>5 DEF Told
    <3>7. ASSUME NEW u \in Things, life'[u] = "live" PROVE Told(u)'
      <4>1. u # t => Told(u)
        BY <2>1, <2>4, <3>1, <3>7, OnlyCheck
      <4> QED BY <2>1, <2>2, <3>3, <3>5, <3>7, <4>1 DEF Told
    <3>8. /\ \A d \in Checks : d # c => check'[d].at = "idle"
          /\ \A s \in Scans : scan[s].at = "idle"
      BY <2>4, <3>4, OnlyCheck
    <3> QED BY <2>1, <2>2, <3>4, <3>5, <3>6, <3>7, <3>8, CheckSerial
  <2>5. ASSUME NEW v \in check[c].todo, check[c].at = "next", v.old = v.new, SetHealth(v.thing, v.new),
               check' = [check EXCEPT ![c].todo = @ \ {v}]
        PROVE  SerialInv'
    <3>1. PICK t \in Things : t = v.thing
      BY <2>3
    <3>2. /\ \A w \in check[c].todo : Told(w.thing) /\ doc[w.thing].health = w.old
          /\ \A w, x \in check[c].todo : w.thing = x.thing => w = x
      BY <2>5 DEF SerialInv, CheckTold
    <3>3. ASSUME NEW u \in Things PROVE doc'[u].health = doc[u].health
      BY <1>0, <2>5, <3>2, SetHealthExact
    <3>4. /\ check'[c].at = "next" /\ check'[c].todo = check[c].todo \ {v}
          /\ \A d \in Checks : d # c => check'[d] = check[d]
      BY <1>0, <2>5 DEF TypeOK, CheckState
    <3>5. \A u \in Things : Told(u)' <=> Told(u)
      BY <2>2, <3>3 DEF Told
    <3>6. \A w \in check'[c].todo : Told(w.thing)' /\ doc'[w.thing].health = w.old
      BY <2>3, <3>2, <3>3, <3>4, <3>5
    <3>7. \A u \in Things : life'[u] = "live" => Told(u)'
      BY <2>1, <2>5, <3>5, OnlyCheck
    <3>8. /\ \A d \in Checks : d # c => check'[d].at = "idle"
          /\ \A s \in Scans : scan[s].at = "idle"
      BY <2>5, <3>4, OnlyCheck
    <3>9. \A w, x \in check'[c].todo : w.thing = x.thing => w = x
      BY <3>2, <3>4
    <3> QED BY <2>1, <2>2, <3>4, <3>6, <3>7, <3>8, <3>9, CheckSerial
  <2> QED BY <1>3, <2>4, <2>5, Zenon DEF CheckUpdates
<1>4. ASSUME CheckEnds(c) PROVE SerialInv'
  <2>1. /\ check[c].at = "next" /\ check' = [check EXCEPT ![c] = NoCheck]
        /\ UNCHANGED <<life, doc, history, scan>>
    BY <1>4, Zenon DEF CheckEnds
  <2>2. /\ check'[c].at = "idle" /\ check'[c].todo = {}
        /\ \A d \in Checks : d # c => check'[d] = check[d]
    BY <1>0, <2>1 DEF TypeOK, NoCheck
  <2>3. /\ \A d \in Checks : d # c => check'[d].at = "idle"
        /\ \A s \in Scans : scan[s].at = "idle"
        /\ \A u \in Things : life[u] = "live" => Told(u)
    BY <2>1, <2>2, OnlyCheck
  <2>4. HistoryAlternates' /\ \A u : Told(u)' <=> Told(u)
    BY <2>1 DEF SerialInv, HistoryAlternates, Told, LastEvent
  <2> QED BY <2>1, <2>2, <2>3, <2>4, CheckSerial
<1>5. ~CheckFails(c)
  BY DEF CheckFails
<1> QED BY <1>1, <1>2, <1>3, <1>4, <1>5 DEF CheckStep

\* A step of users, which leaves handlers and history
LEMMA UserStepSerial ==
  ASSUME IInv, SerialInv
  PROVE  \/ UserCreates \/ EditWrites \/ DeleteDiscovered \/ UNCHANGED vars
         \/ \E t \in Things : EditReads(t) \/ Delete(t)
         => SerialInv'
<1>0. TypeOK
  BY DEF IInv
<1>1. ASSUME UserCreates PROVE SerialInv'
  <2>1. UNCHANGED <<history, scan, check>>
    BY <1>1 DEF UserCreates
  <2>2. PICK new : Insert(new)
    BY <1>1, Zenon DEF UserCreates
  <2>3. ASSUME NEW t \in Things
        PROVE  /\ life'[t] = "live" => life[t] \in {"live", "unused"}
               /\ doc'[t].health = doc[t].health \/ life[t] = "unused"
    BY <1>0, <2>2 DEF Insert, TypeOK
  <2> QED BY <2>1, <2>3, UsersSerial
<1>2. ASSUME EditWrites PROVE SerialInv'
  <2>1. UNCHANGED <<history, scan, check>>
    BY <1>2, Zenon DEF EditWrites
  <2> QED BY <1>0, <1>2, <2>1, EditEffect, UsersSerial
<1>3. ASSUME DeleteDiscovered \/ \E t \in Things : Delete(t) PROVE SerialInv'
  <2>1. UNCHANGED <<doc, history, scan, check>>
    BY <1>3 DEF DeleteDiscovered, Delete
  <2>2. \A t \in Things : life'[t] = "live" => life[t] = "live"
    BY <1>0, <1>3 DEF DeleteDiscovered, Delete, TypeOK
  <2> QED BY <2>1, <2>2, UsersSerial
<1>4. ASSUME UNCHANGED vars \/ \E t \in Things : EditReads(t) PROVE SerialInv'
  <2>1. UNCHANGED <<life, doc, history, scan, check>>
    BY <1>4 DEF vars, EditReads
  <2> QED BY <2>1, UsersSerial
<1> QED BY <1>1, <1>2, <1>3, <1>4

\* A document takes a new health only from the handler that has recorded it.
LEMMA RecordedFirstStep ==
  ASSUME Faults = {}, IInv, SerialInv, [Next]_vars
  PROVE  RecordedFirst
<1> SUFFICES ASSUME NEW t \in Things, life[t] = "live", doc'[t].health # doc[t].health
             PROVE  doc'[t].health = LastEvent(t)
  BY DEF RecordedFirst, Live
<1>0. TypeOK
  BY DEF IInv
<1>1. ASSUME NEW s \in Scans, ScanUpdates(s) PROVE doc'[t].health = LastEvent(t)
  <2>1. scan[s].at = "update"
    BY <1>1, Zenon DEF ScanUpdates
  <2>2. doc'[t] = IF t = scan[s].thing /\ t \in Live
                  THEN [doc[t] EXCEPT !.ip = scan[s].host.ip, !.health = "online"] ELSE doc[t]
    BY <1>1, ZenonT(30) DEF ScanUpdates
  <2>3. t = scan[s].thing /\ doc'[t] = [doc[t] EXCEPT !.ip = scan[s].host.ip, !.health = "online"]
    BY <2>2, Zenon
  <2>4. doc[t] \in Doc
    BY <1>0 DEF TypeOK
  <2>5. [doc[t] EXCEPT !.ip = scan[s].host.ip, !.health = "online"].health = "online"
    BY <2>4 DEF Doc
  <2>6. doc'[t].health = "online"
    BY <2>3, <2>5, Zenon
  <2> QED BY <2>1, <2>3, <2>6 DEF SerialInv, ScanTold
<1>2. ASSUME NEW c \in Checks, CheckUpdates(c) PROVE doc'[t].health = LastEvent(t)
  <2>1. CASE check[c].at = "update" /\ SetHealth(check[c].thing, check[c].new)
    <3>1. PICK u, health : u = check[c].thing /\ health = check[c].new
      OBVIOUS
    <3>2. t = u /\ doc'[t].health = health
      BY <1>0, <2>1, <3>1, SetHealthExact
    <3> QED BY <2>1, <3>1, <3>2 DEF SerialInv, CheckTold
  <2>2. ASSUME NEW v \in check[c].todo, check[c].at = "next", v.old = v.new, SetHealth(v.thing, v.new)
        PROVE  FALSE
    <3>1. t = v.thing /\ doc'[t].health = v.new
      BY <1>0, <2>2, SetHealthExact
    <3> QED BY <2>2, <3>1 DEF SerialInv, CheckTold
  <2> QED BY <1>2, <2>1, <2>2, Zenon DEF CheckUpdates
<1>3. ASSUME UserCreates \/ \E s \in Scans : ScanCreates(s) PROVE FALSE
  <2>1. ASSUME NEW new, Insert(new) PROVE FALSE
    BY <1>0, <2>1 DEF Insert, TypeOK
  <2>2. CASE UserCreates
    BY <2>1, <2>2, Zenon DEF UserCreates
  <2>3. ASSUME NEW s \in Scans, ScanCreates(s) PROVE FALSE
    BY <2>1, <2>3, Zenon DEF ScanCreates
  <2> QED BY <1>3, <2>2, <2>3
<1>4. ASSUME EditWrites PROVE FALSE
  BY <1>0, <1>4, EditEffect
<1>5. ASSUME NEW s \in Scans, \/ ScanReceived(s) \/ FindHost(s) \/ ScanRecords(s) \/ HostFails(s)
                              \/ ScanEnds(s)
      PROVE  FALSE
  <2>1. doc' = doc
    BY <1>5, Zenon DEF ScanReceived, FindHost, ScanRecords, HostFails, ScanEnds
  <2> QED BY <2>1
<1>6. ASSUME NEW c \in Checks, \/ CheckReceived(c) \/ CheckRecords(c) \/ CheckEnds(c)
                               \/ CheckFails(c)
      PROVE  FALSE
  <2>1. doc' = doc
    BY <1>6, Zenon DEF CheckReceived, CheckRecords, CheckEnds, CheckFails
  <2> QED BY <2>1
<1>7. ASSUME \/ DeleteDiscovered \/ ApiRestarts \/ UNCHANGED vars
             \/ \E u \in Things : EditReads(u) \/ Delete(u)
      PROVE  FALSE
  BY <1>7 DEF DeleteDiscovered, ApiRestarts, EditReads, Delete, vars
<1> QED
  BY <1>1, <1>2, <1>3, <1>4, <1>5, <1>6, <1>7 DEF Next, ScanStep, CheckStep

\* With one handler at a time and none that fails, while users create, edit and delete
\* as they like, the history is what its design says: no health is recorded twice in a
\* row, a health changes only to the last event, and once no handler runs the last event
\* of a thing is its health (recordTransition before each update, in
\* ScannerProcessor.handleCompletion and MonitorService.processHealthCheck).
THEOREM HistoryIsExact ==
  ASSUME MaxRunning = 1, Faults = {}
  PROVE  Spec => [](HistoryAlternates /\ HistorySettles) /\ [][RecordedFirst]_vars
<1>1. Init => SerialInv
  BY DEF Init, SerialInv, Alone, ScanTold, CheckTold, LiveTold, HistoryAlternates, NoScan, NoCheck
<1>2. IInv /\ SerialInv /\ [Next]_vars => SerialInv'
  <2> SUFFICES ASSUME IInv, SerialInv, [Next]_vars PROVE SerialInv'
    OBVIOUS
  <2>1. ASSUME NEW s \in Scans, ScanReceived(s) \/ ScanStep(s) \/ HostFails(s) PROVE SerialInv'
    BY <2>1, ScanStepSerial
  <2>2. ASSUME NEW c \in Checks, CheckReceived(c) \/ CheckStep(c) \/ CheckFails(c) PROVE SerialInv'
    BY <2>2, CheckStepSerial
  <2>3. ~ApiRestarts
    BY DEF ApiRestarts
  <2> QED BY <2>1, <2>2, <2>3, UserStepSerial DEF Next
<1>3. SerialInv => HistoryAlternates /\ HistorySettles
  <2> SUFFICES ASSUME SerialInv PROVE HistorySettles
    BY DEF SerialInv
  <2> SUFFICES ASSUME Running = 0, NEW t \in Things, life[t] = "live" PROVE Told(t)
    BY DEF HistorySettles, Settled, Live, Told
  <2> QED BY RunningCounts DEF SerialInv, LiveTold, Writing
<1>4. IInv /\ SerialInv /\ [Next]_vars => [RecordedFirst]_vars
  BY RecordedFirstStep
<1> QED BY <1>1, <1>2, <1>3, <1>4, Inductive, PTL DEF Spec
=============================================================================
