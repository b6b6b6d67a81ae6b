----------------------------- MODULE ScannerPage -----------------------------
(***************************************************************************)
(* The scanner page: it starts scans and shows one page of the jobs, read  *)
(* again when the page is turned, after a scan was started, and by a timer *)
(* that runs while a job on the screen is queued or running.  The timer    *)
(* reads the page of the render that set it, and is set anew after each    *)
(* answer.  A slot of Calls is a request and its answer; the jobs          *)
(* themselves are ScanQueue's, of which the page sees that they end.       *)
(***************************************************************************)
EXTENDS Naturals, FiniteSets

CONSTANTS Calls,
          MaxJobs,  \* bound: jobs
          MaxClicks \* bound: scans the page starts and pages it turns

ASSUME ScannerBounds == {MaxJobs, MaxClicks} \subseteq Nat

VARIABLES jobs,    \* the jobs from the first, each whether it is still active
          page,    \* the number of the page, 1 with the newest job
          shown,   \* the page and jobs of the last answer
          total,   \* of that answer
          timer,   \* the page the interval reads, 0 without an interval
          scanning, loadingJobs,
          call,
          clicks

vars == <<jobs, page, shown, total, timer, scanning, loadingJobs, call, clicks>>

Idle == [at |-> "idle", req |-> "none", page |-> 0, rows |-> {}, total |-> 0, kind |-> "none"]
At(c, at, req) == call[c].at = at /\ call[c].req = req
Free == {c \in Calls : call[c].at = "idle"}
Asking(p, kind) == [Idle EXCEPT !.at = "sent", !.req = "list", !.page = p, !.kind = kind]

-----------------------------------------------------------------------------
(* The page *)

Limit == 1
Rows(p) == {<<n, jobs[n]>> : n \in {k \in DOMAIN jobs : k + p = Cardinality(DOMAIN jobs) + 1}}
hasNext == page < total \div Limit
hasPrev == page > 1
Active(rows) == \E r \in rows : r[2]

\* The effect of [jobs]: the old interval is cleared, and one set if a job is active.
Effect(rows, p) == timer' = IF Active(rows) THEN p ELSE 0

Turn ==
  /\ clicks < MaxClicks /\ clicks' = clicks + 1
  /\ page' \in (IF hasNext THEN {page + 1} ELSE {}) \cup (IF hasPrev THEN {page - 1} ELSE {})
  /\ loadingJobs' = TRUE
  /\ \E c \in Free : call' = [call EXCEPT ![c] = Asking(page', "none")]
  /\ UNCHANGED <<jobs, shown, total, timer, scanning>>

\* The interval does not wait for the answer of its last request; here, for a free slot.
TickOnce ==  \* mutant: a timeout, not an interval
  /\ timer # 0
  /\ \E c \in Free : call' = [call EXCEPT ![c] = Asking(timer, "tick")]
  /\ timer' = 0
  /\ UNCHANGED <<jobs, page, shown, total, scanning, loadingJobs, clicks>>

Tick ==
  /\ timer # 0
  /\ \E c \in Free : call' = [call EXCEPT ![c] = Asking(timer, "tick")]
  /\ UNCHANGED <<jobs, page, shown, total, timer, scanning, loadingJobs, clicks>>

handleStartScan(c) ==
  /\ clicks < MaxClicks /\ clicks' = clicks + 1
  /\ ~scanning /\ scanning' = TRUE
  /\ c \in Free
  /\ call' = [call EXCEPT ![c] = [Idle EXCEPT !.at = "sent", !.req = "discover", !.page = page]]
  /\ UNCHANGED <<jobs, page, shown, total, timer, loadingJobs>>

-----------------------------------------------------------------------------
(* The API, and the jobs *)

\* ScannerService.discover, or its refusal.
discover(c) ==
  /\ At(c, "sent", "discover")
  /\ \/ /\ Cardinality(DOMAIN jobs) < MaxJobs
        /\ jobs' = [n \in 1..(Cardinality(DOMAIN jobs) + 1) |-> IF n \in DOMAIN jobs THEN jobs[n] ELSE TRUE]
        /\ call' = [call EXCEPT ![c].at = "good"]
     \/ jobs' = jobs /\ call' = [call EXCEPT ![c].at = "bad"]
  /\ UNCHANGED <<page, shown, total, timer, scanning, loadingJobs, clicks>>

findAll(c) ==
  /\ At(c, "sent", "list")
  /\ call' = [call EXCEPT ![c] = [@ EXCEPT !.at = "good", !.rows = Rows(call[c].page),
                                           !.total = Cardinality(DOMAIN jobs)]]
  /\ UNCHANGED <<jobs, page, shown, total, timer, scanning, loadingJobs, clicks>>

Fails(c) ==
  /\ call[c].at \in {"sent", "good"}
  /\ call' = [call EXCEPT ![c].at = "bad"]
  /\ UNCHANGED <<jobs, page, shown, total, timer, scanning, loadingJobs, clicks>>

\* ScanQueue: a job is completed or failed.
Ends(n) ==
  /\ n \in DOMAIN jobs /\ jobs[n]
  /\ jobs' = [jobs EXCEPT ![n] = FALSE]
  /\ UNCHANGED <<page, shown, total, timer, scanning, loadingJobs, call, clicks>>

-----------------------------------------------------------------------------
(* The page meets an answer *)

setJobs(c) ==
  /\ At(c, "good", "list")
  /\ shown' = [page |-> call[c].page, rows |-> call[c].rows] /\ total' = call[c].total
  /\ Effect(call[c].rows, page)
  /\ loadingJobs' = FALSE
  /\ scanning' = (scanning /\ call[c].kind # "scan")
  /\ call' = [call EXCEPT ![c] = Idle]
  /\ UNCHANGED <<jobs, page, clicks>>

\* The page of the render in which the button was pressed.
Started(c) ==
  /\ At(c, "good", "discover")
  /\ loadingJobs' = TRUE
  /\ call' = [call EXCEPT ![c] = Asking(call[c].page, "scan")]
  /\ UNCHANGED <<jobs, page, shown, total, timer, scanning, clicks>>

FailedBusy(c) ==  \* mutant: no finally in the start of a scan
  /\ call[c].at = "bad"
  /\ loadingJobs' = IF call[c].req = "list" THEN FALSE ELSE loadingJobs
  /\ call' = [call EXCEPT ![c] = Idle]
  /\ UNCHANGED <<jobs, page, shown, total, timer, scanning, clicks>>

\* A toast: the jobs and the interval stay.
Failed(c) ==
  /\ call[c].at = "bad"
  /\ loadingJobs' = IF call[c].req = "list" THEN FALSE ELSE loadingJobs
  /\ scanning' = (scanning /\ call[c].req # "discover" /\ call[c].kind # "scan")
  /\ call' = [call EXCEPT ![c] = Idle]
  /\ UNCHANGED <<jobs, page, shown, total, timer, clicks>>

-----------------------------------------------------------------------------
Init ==
  /\ jobs = << >>
  /\ page = 1 /\ shown = [page |-> 1, rows |-> {}] /\ total = 0 /\ timer = 0
  /\ scanning = FALSE /\ loadingJobs = TRUE /\ clicks = 0
  /\ \E m \in Calls : call = [c \in Calls |-> IF c = m THEN Asking(1, "none") ELSE Idle]

Serve(c) == discover(c) \/ findAll(c)
Meet(c) == setJobs(c) \/ Started(c) \/ Failed(c)

Next == \/ Turn \/ Tick
        \/ \E c \in Calls : handleStartScan(c) \/ Serve(c) \/ Meet(c) \/ Fails(c)
        \/ \E n \in 1..MaxJobs : Ends(n)

Spec == Init /\ [][Next]_vars

\* The browser fires the interval and meets what is answered, the API answers or the
\* request fails, and reads asked for again and again do not fail for ever.  That a job
\* ends is not assumed.
Fairness ==
  /\ SF_vars(Tick)
  /\ \A c \in Calls : /\ WF_vars(Serve(c) \/ Fails(c)) /\ WF_vars(Meet(c))
                     /\ SF_vars(findAll(c)) /\ SF_vars(setJobs(c))

LiveSpec == Spec /\ Fairness

-----------------------------------------------------------------------------
(* Properties *)

\* Every variable holds a value of its kind, the button to start a scan waits only while
\* its own handler does, and the spinner of the list only while a list was asked for.
ScannerPageTypeOK ==
  /\ jobs \in UNION {[1..k -> BOOLEAN] : k \in 0..MaxJobs}
  /\ page \in 1..(MaxJobs + 1) /\ timer \in 0..(MaxJobs + 1) /\ total \in 0..MaxJobs
  /\ scanning => \E c \in Calls : call[c].req = "discover" \/ call[c].kind = "scan"
  /\ loadingJobs => \E c \in Calls : call[c].req = "list"
  /\ {scanning, loadingJobs} \subseteq BOOLEAN /\ clicks \in 0..MaxClicks

\* A job that has ended does not stay active on the screen, whatever reads fail.
EndIsShown ==
  \A n \in 1..MaxJobs :
    (n \in DOMAIN jobs /\ ~jobs[n] /\ <<n, TRUE>> \in shown.rows) ~> <<n, TRUE>> \notin shown.rows

\* While the interval runs, the page does not go on showing the jobs of a page it has
\* left, though an answer for that page may arrive after it was turned.
OwnPageShown == (timer # 0 /\ shown.page # page) ~> (timer = 0 \/ shown.page = page)

\* While the page polls, the screen follows the jobs and the page that was chosen.
ScreenFollows == EndIsShown /\ OwnPageShown

=============================================================================
