------------------------------- MODULE Notices -------------------------------
(***************************************************************************)
(* Notifications: the rules a finished scan evaluates one await after the  *)
(* other, the notifications it creates, the tab that lists them page by    *)
(* page and marks them as read, and the bell in the header, which reads    *)
(* them when it is mounted and is pushed nothing.  Scans are of one        *)
(* network; a rule is named for what it watches.  A slot of Calls is a     *)
(* request of the tab or the bell; rules come and go meanwhile             *)
(* (RulesPage).                                                            *)
(***************************************************************************)
EXTENDS Naturals, FiniteSets

CONSTANTS RuleNames, \* the rules of the instance
          Devices,   \* what a scan may find new
          Calls,
          MaxEvents, \* bound: scans
          MaxEdits,  \* bound: rules that come or go
          MaxClicks  \* bound: pages turned and notifications marked

\* new_discovery for all networks, for the scanned one, for another, and for the local of
\* the scanned one.
AllRules == {"all", "here", "elsewhere", "local"}

KnownRules == RuleNames \subseteq AllRules
NoticesBounds == {MaxEvents, MaxEdits, MaxClicks} \subseteq Nat

VARIABLES rules,   \* the enabled rules
          notes,   \* the notifications from the first: rule, device, read
          scan,    \* the evaluation under way: its devices, and what it has still to create
          found,   \* devices some scan has found
          due,     \* rule and device of what the dialog of the rules promised, so far
          lost,    \* of that, what an evaluation that failed left out
          page,    \* the tab: the number of its page, its rows, each whether shown as read
          bell,    \* the bell's number
          call,
          crossed, \* a list arrived while the tab marked all
          calm,    \* since the bell was read nothing came, the tab marked nothing, no read failed
          events, edits, clicks

vars == <<rules, notes, scan, found, due, lost, page, bell, call, crossed, calm, events, edits, clicks>>

Idle == [at |-> "idle", req |-> "none", from |-> "none", id |-> 0, rows |-> << >>, total |-> 0]
At(c, at, req) == call[c].at = at /\ call[c].req = req
Free == {c \in Calls : call[c].at = "idle"}
Go(c, at) == call' = [call EXCEPT ![c].at = at]
Asking(req, from, n) == [Idle EXCEPT !.at = "sent", !.req = req, !.from = from, !.id = n]
Stored == DOMAIN notes
Unread == {n \in Stored : ~notes[n].read}
Pair(n) == <<notes[n].rule, notes[n].device>>

-----------------------------------------------------------------------------
(* evaluateDiscoveryRules, called by ScannerProcessor for the things new to a scan *)

NoScan == [at |-> "idle", devices |-> {}, todo |-> {}]

Discovered(D) ==
  /\ scan.at = "idle" /\ D # {}
  /\ events < MaxEvents /\ events' = events + 1
  /\ scan' = [NoScan EXCEPT !.at = "called", !.devices = D] /\ found' = found \cup D
  /\ UNCHANGED <<rules, notes, due, lost, page, bell, call, crossed, calm, edits, clicks>>

MatchingUntil(R) ==  \* mutant: the first rule that does not match ends the loop
  IF "elsewhere" \in R THEN {} ELSE R \cap {"all", "here"}

\* No target, or the scanned network as the target.
Matching(R) == R \cap {"all", "here"}

Promised(R) == R \cap {"all", "here", "local"}

findEnabledRules ==
  /\ scan.at = "called"
  /\ scan' = [scan EXCEPT !.at = "emitting", !.todo = Matching(rules) \X scan.devices]
  /\ due' = due \cup (Promised(rules) \X scan.devices)
  /\ UNCHANGED <<rules, notes, found, lost, page, bell, call, crossed, calm, events, edits, clicks>>

\* One rule after the other, for each of the things.
emit(p) ==
  /\ scan.at = "emitting" /\ p \in scan.todo
  /\ notes' = [n \in 1..(Cardinality(Stored) + 1) |->
                 IF n \in Stored THEN notes[n] ELSE [rule |-> p[1], device |-> p[2], read |-> FALSE]]
  /\ scan' = [scan EXCEPT !.todo = @ \ {p}]
  /\ calm' = FALSE
  /\ UNCHANGED <<rules, found, due, lost, page, bell, call, crossed, events, edits, clicks>>

\* The handler logs a failure and drops the rest.
Evaluated ==
  /\ scan.at = "emitting"
  /\ lost' = lost \cup scan.todo
  /\ scan' = NoScan
  /\ UNCHANGED <<rules, notes, found, due, page, bell, call, crossed, calm, events, edits, clicks>>

EditRules ==
  /\ edits < MaxEdits /\ edits' = edits + 1
  /\ \E r \in RuleNames : rules' = IF r \in rules THEN rules \ {r} ELSE rules \cup {r}
  /\ UNCHANGED <<notes, scan, found, due, lost, page, bell, call, crossed, calm, events, clicks>>

-----------------------------------------------------------------------------
(* The tab and the bell *)

Limit == 1
Rows(p) == [n \in {k \in Stored : k + p = Cardinality(Stored) + 1} |-> notes[n].read]

Click(c, ask) ==
  /\ c \in Free /\ clicks < MaxClicks /\ clicks' = clicks + 1
  /\ call' = [call EXCEPT ![c] = ask]
  /\ UNCHANGED <<rules, notes, scan, found, due, lost, crossed, calm, events, edits>>

Turn(c) ==
  /\ \E p \in (IF page.num < page.total \div Limit THEN {page.num + 1} ELSE {})
              \cup (IF page.num > 1 THEN {page.num - 1} ELSE {}) :
       Click(c, Asking("list", "page", p)) /\ page' = [page EXCEPT !.num = p, !.loading = TRUE]
  /\ UNCHANGED bell

handleMarkAsRead(c) ==
  /\ ~page.loading
  /\ \E n \in DOMAIN page.rows : ~page.rows[n] /\ Click(c, Asking("read", "page", n))
  /\ UNCHANGED <<page, bell>>

handleMarkAllRead(c) ==
  /\ \E n \in DOMAIN page.rows : ~page.rows[n]
  /\ Click(c, Asking("all", "page", 0))
  /\ UNCHANGED <<page, bell>>

bellMarkAllRead(c) ==
  /\ bell > 0 /\ Click(c, Asking("all", "bell", 0))
  /\ UNCHANGED <<page, bell>>

-----------------------------------------------------------------------------
(* The API *)

ApiUnchanged == UNCHANGED <<rules, scan, found, due, lost, page, bell, crossed, events, edits, clicks>>

findAllNotifications(c) ==
  /\ At(c, "sent", "list")
  /\ call' = [call EXCEPT ![c] = [@ EXCEPT !.at = "good", !.rows = Rows(call[c].id), !.total = Cardinality(Stored)]]
  /\ ApiUnchanged /\ UNCHANGED <<notes, calm>>

countUnread(c) ==
  /\ At(c, "sent", "count")
  /\ call' = [call EXCEPT ![c] = [@ EXCEPT !.at = "good", !.total = Cardinality(Unread)]]
  /\ ApiUnchanged /\ UNCHANGED <<notes, calm>>

markAsRead(c) ==
  /\ At(c, "sent", "read") /\ Go(c, "good")
  /\ notes' = [notes EXCEPT ![call[c].id].read = TRUE]
  /\ calm' = FALSE /\ ApiUnchanged

markAllAsRead(c) ==
  /\ At(c, "sent", "all") /\ Go(c, "good")
  /\ notes' = [n \in Stored |-> [notes[n] EXCEPT !.read = TRUE]]
  /\ calm' = (calm /\ call[c].from = "bell") /\ ApiUnchanged

\* A request or its answer is lost.
Fails(c) ==
  /\ call[c].at \in {"sent", "good"} /\ Go(c, "bad")
  /\ calm' = (calm /\ (call[c].from = "page" \/ At(c, "sent", "all")))
  /\ ApiUnchanged /\ UNCHANGED notes

-----------------------------------------------------------------------------
(* The tab and the bell meet an answer *)

MeetUnchanged == UNCHANGED <<rules, notes, scan, found, due, lost, calm, events, edits, clicks>>

\* The rows of whichever page was answered last.
Listed(c) ==
  /\ At(c, "good", "list") /\ call' = [call EXCEPT ![c] = Idle]
  /\ IF call[c].from = "bell" THEN UNCHANGED <<page, crossed>>
     ELSE /\ page' = [page EXCEPT !.rows = call[c].rows, !.total = call[c].total, !.loading = FALSE]
          /\ crossed' = (crossed \/ \E d \in Calls : call[d].req = "all" /\ call[d].from = "page")
  /\ UNCHANGED bell /\ MeetUnchanged

Counted(c) ==
  /\ At(c, "good", "count") /\ call' = [call EXCEPT ![c] = Idle]
  /\ bell' = call[c].total
  /\ UNCHANGED <<page, crossed>> /\ MeetUnchanged

\* What the tab shows by now, not what it asked for.
Marked(c) ==
  /\ At(c, "good", "read") /\ call' = [call EXCEPT ![c] = Idle]
  /\ page' = [page EXCEPT !.rows = [n \in DOMAIN @ |-> @[n] \/ n = call[c].id]]
  /\ UNCHANGED <<bell, crossed>> /\ MeetUnchanged

MarkedAll(c) ==
  /\ At(c, "good", "all") /\ call[c].from = "page" /\ call' = [call EXCEPT ![c] = Idle]
  /\ page' = [page EXCEPT !.rows = [n \in DOMAIN @ |-> TRUE]]
  /\ UNCHANGED <<bell, crossed>> /\ MeetUnchanged

\* The number is not read again, the list is.
BellMarked(c) ==
  /\ At(c, "good", "all") /\ call[c].from = "bell"
  /\ bell' = 0 /\ call' = [call EXCEPT ![c] = Asking("list", "bell", 1)]
  /\ UNCHANGED <<page, crossed>> /\ MeetUnchanged

Failed(c) ==
  /\ call[c].at = "bad" /\ call' = [call EXCEPT ![c] = Idle]
  /\ page' = IF call[c].req = "list" /\ call[c].from = "page" THEN [page EXCEPT !.loading = FALSE] ELSE page
  /\ UNCHANGED <<bell, crossed>> /\ MeetUnchanged

-----------------------------------------------------------------------------
\* An instance with one notification; the tab reads its first page and the bell counts.
Init ==
  /\ rules \in SUBSET RuleNames
  /\ \E d \in Devices : /\ notes = [n \in {1} |-> [rule |-> "all", device |-> d, read |-> FALSE]]
                        /\ found = {d} /\ due = {<<"all", d>>}
  /\ scan = NoScan /\ lost = {} /\ bell = 0
  /\ page = [num |-> 1, rows |-> << >>, total |-> 0, loading |-> TRUE]
  /\ \E m, o \in Calls :
       /\ m # o
       /\ call = [c \in Calls |-> CASE c = m -> Asking("count", "bell", 0)
                                   [] c = o -> Asking("list", "page", 1)
                                   [] OTHER -> Idle]
  /\ crossed = FALSE /\ calm = TRUE /\ events = 0 /\ edits = 0 /\ clicks = 0

Send(c) == Turn(c) \/ handleMarkAsRead(c) \/ handleMarkAllRead(c) \/ bellMarkAllRead(c)
Serve(c) == findAllNotifications(c) \/ countUnread(c) \/ markAsRead(c) \/ markAllAsRead(c) \/ Fails(c)
Meet(c) == Listed(c) \/ Counted(c) \/ Marked(c) \/ MarkedAll(c) \/ BellMarked(c) \/ Failed(c)

Next == \/ \E D \in SUBSET (Devices \ found) : Discovered(D)
        \/ findEnabledRules \/ Evaluated
        \/ \E p \in RuleNames \X Devices : emit(p)
        \/ EditRules
        \/ \E c \in Calls : Send(c) \/ Serve(c) \/ Meet(c)

Spec == Init /\ [][Next]_vars

-----------------------------------------------------------------------------
(* Properties *)

\* Every variable holds a value of its kind, the tab shows what is stored, and it waits
\* only for a list.
NoticesTypeOK ==
  /\ rules \subseteq RuleNames /\ found \subseteq Devices
  /\ notes \in [1..Cardinality(Stored) -> [rule : AllRules, device : Devices, read : BOOLEAN]]
  /\ {due, lost, scan.todo} \subseteq SUBSET (AllRules \X Devices)
  /\ DOMAIN page.rows \subseteq Stored /\ page.num >= 1 /\ bell <= Cardinality(Stored)
  /\ page.loading => \E c \in Calls : call[c].req = "list" /\ call[c].from = "page"
  /\ {crossed, calm} \subseteq BOOLEAN

\* A device new to a scan is notified exactly once for every enabled rule without a
\* target or for the network of the scan, whatever other rules there are and however they
\* are edited meanwhile, unless the evaluation failed; and for no other rule.
NoticePerMatch ==
  /\ \A n \in Stored : Pair(n) \in due
  /\ \A p \in due : Cardinality({n \in Stored : Pair(n) = p}) <= 1
  /\ scan.at = "idle" => \A p \in due \ lost : p[1] \in {"all", "here"} => \E n \in Stored : Pair(n) = p

\* The tab shows nothing as read that is not, though its answers may be met pages later,
\* unless a list arrived while all were being marked.
ReadIsStored == ~crossed => \A n \in DOMAIN page.rows : page.rows[n] => notes[n].read

\* Until something new comes, or the tab marks what it shows, the bell's number is that of
\* the unread notifications, after a mark-all that failed too.
BellCounts ==
  calm /\ (\A c \in Calls : call[c].from = "bell" => call[c].req = "list") => bell = Cardinality(Unread)

=============================================================================
