-------------------------- MODULE ScannerPageProofs --------------------------
(***************************************************************************)
(* What holds of the scanner page for any number of requests, jobs and     *)
(* clicks: its flags wait for requests under way (Waits), the interval     *)
(* polls what the screen shows (Polls), and neither the screen nor an      *)
(* answer is ahead of the jobs (Behind).                                   *)
(***************************************************************************)
EXTENDS ScannerPage, FiniteSetTheorems, TLAPS

Numbers == 1..(MaxJobs + 1)
Lists == SUBSET ((1..MaxJobs) \X BOOLEAN)
Ever == Cardinality(DOMAIN jobs)

Request(r) ==
  /\ DOMAIN r = {"at", "req", "page", "rows", "total", "kind"}
  /\ r.at \in {"idle", "sent", "good", "bad"} /\ r.kind \in {"none", "tick", "scan"}
  /\ r.req = "none" => r = Idle
  /\ r.req # "none" => r.req \in {"list", "discover"} /\ r.at # "idle" /\ r.page \in Numbers
  /\ r.rows \in Lists /\ r.total \in 0..MaxJobs

Typed ==
  /\ Ever \in 0..MaxJobs /\ jobs \in [1..Ever -> BOOLEAN]
  /\ page \in Numbers /\ total \in 0..Ever /\ timer \in {0} \cup Numbers
  /\ shown \in [page : Numbers, rows : Lists]
  /\ scanning \in BOOLEAN /\ loadingJobs \in BOOLEAN /\ clicks \in 0..MaxClicks
  /\ DOMAIN call = Calls /\ \A c \in Calls : Request(call[c]) /\ call[c].total <= Ever

Waits ==
  /\ scanning => \E c \in Calls : call[c].req = "discover" \/ call[c].kind = "scan"
  /\ loadingJobs => \E c \in Calls : call[c].req = "list"

\* The interval runs while a job is active on the screen, and only then.
Polls == timer # 0 <=> Active(shown.rows)

\* A job that is listed exists, and one that is listed as ended has ended.
NotAhead(f, rows) == \A r \in rows : r[1] \in DOMAIN f /\ (f[r[1]] => r[2])
Behind == NotAhead(jobs, shown.rows) /\ \A c \in Calls : NotAhead(jobs, call[c].rows)

PageInv == Typed /\ Waits /\ Polls /\ Behind

\* No job goes away, and none that has ended starts again.
JobsGoOn == \A n \in DOMAIN jobs : n \in DOMAIN jobs' /\ (jobs'[n] => jobs[n])

-----------------------------------------------------------------------------
\* What the API lists are jobs as they are.
LEMMA RowsAreJobs ==
  ASSUME Typed, NEW p
  PROVE  Rows(p) \in Lists /\ NotAhead(jobs, Rows(p))
BY ScannerBounds DEF Typed, Rows, Lists, NotAhead, Ever

LEMMA CountIsLength ==
  ASSUME NEW k \in Nat
  PROVE  Cardinality(1..k) = k
BY FS_Interval

\* A list that is not ahead stays so: jobs are added, and end.
LEMMA StaysBehind ==
  ASSUME JobsGoOn, NEW rows, NotAhead(jobs, rows)
  PROVE  NotAhead(jobs', rows)
BY DEF JobsGoOn, NotAhead

\* The slot of a call is replaced.
LEMMA CallReplaced ==
  ASSUME NEW c \in Calls, NEW r, DOMAIN call = Calls, call' = [call EXCEPT ![c] = r]
  PROVE  DOMAIN call' = Calls /\ call'[c] = r /\ \A d \in Calls \ {c} : call'[d] = call[d]
OBVIOUS

LEMMA Asked ==
  ASSUME NEW p \in Numbers, NEW kind \in {"none", "tick", "scan"}
  PROVE  /\ Request(Asking(p, kind))
         /\ Asking(p, kind).at = "sent" /\ Asking(p, kind).req = "list"
         /\ Asking(p, kind).page = p /\ Asking(p, kind).kind = kind
         /\ Asking(p, kind).rows = {} /\ Asking(p, kind).total = 0
BY ScannerBounds DEF Asking, Idle, Request, Lists

LEMMA IdleRequest == Request(Idle) /\ Idle.rows = {} /\ Idle.total = 0 /\ Idle.kind = "none" /\ Idle.req = "none"
BY ScannerBounds DEF Idle, Request, Lists

LEMMA InitInv == Init => PageInv
<1> SUFFICES ASSUME Init PROVE PageInv
  OBVIOUS
<1> USE ScannerBounds
<1>1. DOMAIN jobs = {} /\ Ever = 0
  BY FS_EmptySet DEF Init, Ever
<1>2. PICK m \in Calls : call = [c \in Calls |-> IF c = m THEN Asking(1, "none") ELSE Idle]
  BY DEF Init
<1>3. 1 \in Numbers
  BY DEF Numbers
<1>4. /\ DOMAIN call = Calls
      /\ \A c \in Calls : Request(call[c]) /\ call[c].total <= Ever /\ NotAhead(jobs, call[c].rows)
      /\ call[m].req = "list"
  BY <1>1, <1>2, <1>3, Asked, IdleRequest DEF NotAhead
<1>5. Ever \in 0..MaxJobs /\ jobs \in [1..Ever -> BOOLEAN]
  BY <1>1 DEF Init
<1>6. shown \in [page : Numbers, rows : Lists]
  BY <1>3 DEF Init, Lists
<1>7. page \in Numbers /\ total \in 0..Ever /\ timer \in {0} \cup Numbers /\ clicks \in 0..MaxClicks
  BY <1>1, <1>3 DEF Init
<1>8. Typed
  BY <1>4, <1>5, <1>6, <1>7 DEF Init, Typed
<1>9. Waits /\ Polls /\ Behind
  BY <1>4 DEF Init, Waits, Polls, Active, Behind, NotAhead
<1> QED
  BY <1>8, <1>9 DEF PageInv

-----------------------------------------------------------------------------
(* The jobs, and the requests, whoever steps *)

LEMMA JobsSame ==
  ASSUME Typed, jobs' = jobs
  PROVE  JobsGoOn /\ Ever' = Ever
BY DEF Typed, JobsGoOn, Ever

\* A step that replaces one request by one of its kind.
LEMMA CallsKept ==
  ASSUME Typed, Behind, JobsGoOn, Ever' \in Nat, Ever <= Ever',
         NEW c \in Calls, NEW r, call' = [call EXCEPT ![c] = r],
         Request(r), r.total <= Ever', NotAhead(jobs', r.rows)
  PROVE  /\ DOMAIN call' = Calls
         /\ \A d \in Calls : /\ Request(call'[d]) /\ call'[d].total <= Ever'
                             /\ NotAhead(jobs', call'[d].rows)
<1>1. \A d \in Calls : call[d].total \in Nat /\ call[d].total <= Ever' /\ Ever \in Nat
  BY ScannerBounds DEF Typed, Request
<1>2. \A d \in Calls : NotAhead(jobs', call[d].rows)
  BY StaysBehind DEF Behind
<1> QED
  BY <1>1, <1>2, CallReplaced DEF Typed

\* A step that leaves the jobs and the screen alone.
LEMMA PageKept ==
  ASSUME PageInv, UNCHANGED <<jobs, shown, total>>,
         page' \in Numbers, clicks' \in 0..MaxClicks, scanning' \in BOOLEAN, loadingJobs' \in BOOLEAN,
         timer' = timer, NEW c \in Calls, NEW r, call' = [call EXCEPT ![c] = r],
         Request(r), r.total <= Ever, NotAhead(jobs, r.rows), Waits'
  PROVE  PageInv'
<1>1. JobsGoOn /\ Ever' = Ever /\ Ever \in Nat
  BY JobsSame, ScannerBounds DEF PageInv, Typed
<1>2. /\ DOMAIN call' = Calls
      /\ \A d \in Calls : /\ Request(call'[d]) /\ call'[d].total <= Ever'
                          /\ NotAhead(jobs', call'[d].rows)
  <2>1. Ever' \in Nat /\ Ever <= Ever' /\ r.total <= Ever' /\ NotAhead(jobs', r.rows)
    BY <1>1
  <2> QED
    BY <1>1, <2>1, CallsKept DEF PageInv
<1>3. Typed'
  BY <1>1, <1>2 DEF PageInv, Typed
<1>4. Behind' /\ Polls'
  BY <1>2 DEF PageInv, Behind, Polls
<1> QED
  BY <1>3, <1>4 DEF PageInv

\* Others wait as they did, if the one that was replaced was not what they wait for.
LEMMA WaitsStep ==
  ASSUME PageInv, NEW c \in Calls, NEW r, call' = [call EXCEPT ![c] = r],
         scanning' => \/ r.req = "discover" \/ r.kind = "scan"
                      \/ scanning /\ call[c].req # "discover" /\ call[c].kind # "scan",
         loadingJobs' => r.req = "list" \/ (loadingJobs /\ call[c].req # "list")
  PROVE  Waits'
BY CallReplaced DEF PageInv, Typed, Waits

-----------------------------------------------------------------------------
(* The steps *)

LEMMA Fields ==
  ASSUME PageInv, NEW c \in Calls
  PROVE  /\ Request(call[c]) /\ call[c].total <= Ever /\ NotAhead(jobs, call[c].rows)
         /\ call[c].total \in Nat /\ Ever \in Nat /\ MaxJobs \in Nat /\ MaxClicks \in Nat
BY ScannerBounds DEF PageInv, Typed, Behind, Request

LEMMA FreeSlot ==
  ASSUME PageInv, NEW c \in Free
  PROVE  c \in Calls /\ call[c] = Idle /\ call[c].req = "none" /\ call[c].kind = "none"
BY IdleRequest DEF PageInv, Typed, Request, Free

LEMMA TurnInv == ASSUME PageInv, Turn PROVE PageInv'
<1>1. PICK c \in Free : call' = [call EXCEPT ![c] = Asking(page', "none")]
  BY DEF Turn
<1>2. page' \in Numbers
  BY ScannerBounds DEF Turn, hasNext, hasPrev, Limit, PageInv, Typed, Numbers
<1>3. Waits'
  BY <1>1, <1>2, FreeSlot, WaitsStep, Asked DEF Turn
<1>4. clicks' \in 0..MaxClicks /\ loadingJobs' \in BOOLEAN /\ scanning' \in BOOLEAN
  BY ScannerBounds DEF Turn, PageInv, Typed
<1>5. LET r == Asking(page', "none") IN Request(r) /\ r.total <= Ever /\ NotAhead(jobs, r.rows)
  BY <1>2, Fields, Asked, FreeSlot DEF NotAhead
<1> QED
  BY <1>1, <1>2, <1>3, <1>4, <1>5, FreeSlot, PageKept DEF Turn

LEMMA TickInv == ASSUME PageInv, Tick PROVE PageInv'
<1>1. PICK c \in Free : call' = [call EXCEPT ![c] = Asking(timer, "tick")]
  BY DEF Tick
<1>2. timer \in Numbers
  BY DEF Tick, PageInv, Typed
<1>3. Waits'
  BY <1>1, <1>2, FreeSlot, WaitsStep, Asked DEF Tick
<1>4. page \in Numbers /\ clicks \in 0..MaxClicks /\ loadingJobs \in BOOLEAN /\ scanning \in BOOLEAN
  BY DEF PageInv, Typed
<1>5. LET r == Asking(timer, "tick") IN Request(r) /\ r.total <= Ever /\ NotAhead(jobs, r.rows)
  BY <1>2, Fields, Asked, FreeSlot DEF NotAhead
<1> QED
  BY <1>1, <1>2, <1>3, <1>4, <1>5, FreeSlot, PageKept DEF Tick

LEMMA StartInv == ASSUME PageInv, NEW c \in Calls, handleStartScan(c) PROVE PageInv'
<1> DEFINE r == [Idle EXCEPT !.at = "sent", !.req = "discover", !.page = page]
<1>1. /\ Request(r) /\ r.req = "discover" /\ r.rows = {} /\ r.total = 0 /\ page \in Numbers
      /\ clicks' \in 0..MaxClicks /\ loadingJobs \in BOOLEAN
  BY ScannerBounds DEF handleStartScan, PageInv, Typed, Request, Idle, Lists
<1>2. Waits'
  BY <1>1, FreeSlot, WaitsStep DEF handleStartScan
<1>3. Request(r) /\ r.total <= Ever /\ NotAhead(jobs, r.rows)
  BY <1>1, Fields DEF NotAhead
<1>4. call' = [call EXCEPT ![c] = r] /\ scanning' \in BOOLEAN
  BY DEF handleStartScan
<1> HIDE DEF r
<1> QED
  BY <1>1, <1>2, <1>3, <1>4, PageKept DEF handleStartScan

\* A request that moves on and asks for the same.
LEMMA MovesOn ==
  ASSUME PageInv, NEW c \in Calls, call[c].at # "idle", NEW at \in {"good", "bad"}
  PROVE  LET r == [call[c] EXCEPT !.at = at]
         IN  /\ Request(r) /\ r.total <= Ever /\ NotAhead(jobs, r.rows) /\ r.rows = call[c].rows
             /\ r.req = call[c].req /\ r.kind = call[c].kind /\ r.total = call[c].total
BY Fields DEF Request, Idle

LEMMA FailsInv == ASSUME PageInv, NEW c \in Calls, Fails(c) PROVE PageInv'
<1> DEFINE r == [call[c] EXCEPT !.at = "bad"]
<1>1. /\ Request(r) /\ r.total <= Ever /\ NotAhead(jobs, r.rows)
      /\ r.req = call[c].req /\ r.kind = call[c].kind
  BY MovesOn DEF Fails
<1>2. call' = [call EXCEPT ![c] = r]
  BY DEF Fails
<1> HIDE DEF r
<1>3. Waits'
  BY <1>1, <1>2, WaitsStep DEF Fails
<1>4. page \in Numbers /\ clicks \in 0..MaxClicks /\ loadingJobs \in BOOLEAN /\ scanning \in BOOLEAN
  BY DEF PageInv, Typed
<1> QED
  BY <1>1, <1>2, <1>3, <1>4, PageKept DEF Fails

LEMMA ListInv == ASSUME PageInv, NEW c \in Calls, findAll(c) PROVE PageInv'
<1> DEFINE r == [call[c] EXCEPT !.at = "good", !.rows = Rows(call[c].page), !.total = Ever]
<1>1. Rows(call[c].page) \in Lists /\ NotAhead(jobs, Rows(call[c].page)) /\ Ever \in 0..MaxJobs
  BY RowsAreJobs DEF PageInv, Typed
<1>2. /\ Request(r) /\ r.total <= Ever /\ NotAhead(jobs, r.rows)
      /\ r.req = call[c].req /\ r.kind = call[c].kind
  BY <1>1, Fields DEF Request, findAll, At
<1>3. call' = [call EXCEPT ![c] = r]
  BY DEF findAll, Ever
<1> HIDE DEF r
<1>4. Waits'
  BY <1>2, <1>3, WaitsStep DEF findAll
<1>5. page \in Numbers /\ clicks \in 0..MaxClicks /\ loadingJobs \in BOOLEAN /\ scanning \in BOOLEAN
  BY DEF PageInv, Typed
<1> QED
  BY <1>2, <1>3, <1>4, <1>5, PageKept DEF findAll

LEMMA StartedInv == ASSUME PageInv, NEW c \in Calls, Started(c) PROVE PageInv'
<1> DEFINE r == Asking(call[c].page, "scan")
<1>1. call[c].page \in Numbers
  BY Fields DEF Started, At, Request
<1>2. /\ Request(r) /\ r.req = "list" /\ r.kind = "scan"
      /\ r.total <= Ever /\ NotAhead(jobs, r.rows) /\ call' = [call EXCEPT ![c] = r]
  BY <1>1, Asked, Fields DEF NotAhead, Started
<1> HIDE DEF r
<1>3. Waits'
  BY <1>2, WaitsStep
<1>4. /\ page \in Numbers /\ clicks \in 0..MaxClicks
      /\ loadingJobs' \in BOOLEAN /\ scanning \in BOOLEAN
  BY DEF PageInv, Typed, Started
<1> QED
  BY <1>2, <1>3, <1>4, PageKept DEF Started

LEMMA FailedInv == ASSUME PageInv, NEW c \in Calls, Failed(c) PROVE PageInv'
<1>1. /\ Request(Idle) /\ Idle.total <= Ever /\ NotAhead(jobs, Idle.rows)
      /\ call' = [call EXCEPT ![c] = Idle]
  BY IdleRequest, Fields DEF NotAhead, Failed
<1>2. Waits'
  BY <1>1, WaitsStep, Zenon DEF Failed
<1>3. /\ page \in Numbers /\ clicks \in 0..MaxClicks
      /\ loadingJobs' \in BOOLEAN /\ scanning' \in BOOLEAN
  BY DEF PageInv, Typed, Failed
<1> QED
  BY <1>1, <1>2, <1>3, PageKept DEF Failed

\* The page shows the answer, and the interval follows what it shows.
LEMMA AnswerInv == ASSUME PageInv, NEW c \in Calls, setJobs(c) PROVE PageInv'
<1> DEFINE rows == call[c].rows
<1>1. JobsGoOn /\ Ever' = Ever /\ Ever \in Nat /\ Ever' \in Nat /\ Ever <= Ever' /\ Ever \in 0..MaxJobs
  BY JobsSame, Fields DEF setJobs, PageInv, Typed
<1>2. /\ Request(Idle) /\ Idle.total <= Ever' /\ NotAhead(jobs', Idle.rows)
      /\ call' = [call EXCEPT ![c] = Idle]
  BY <1>1, IdleRequest, Fields DEF NotAhead, setJobs
<1>3. /\ DOMAIN call' = Calls
      /\ \A d \in Calls : /\ Request(call'[d]) /\ call'[d].total <= Ever'
                          /\ NotAhead(jobs', call'[d].rows)
  BY <1>1, <1>2, CallsKept DEF PageInv
<1>4. /\ rows \in Lists /\ call[c].page \in Numbers /\ call[c].total \in 0..Ever
      /\ NotAhead(jobs', rows)
  BY Fields DEF setJobs, At, Request
<1>5. /\ shown' = [page |-> call[c].page, rows |-> rows] /\ total' = call[c].total
      /\ timer' = IF Active(rows) THEN page ELSE 0
      /\ UNCHANGED <<jobs, page, clicks>>
      /\ scanning' \in BOOLEAN /\ loadingJobs' \in BOOLEAN
  BY DEF setJobs, Effect, PageInv, Typed
<1>6. shown' \in [page : Numbers, rows : Lists] /\ timer' \in {0} \cup Numbers
  BY <1>4, <1>5 DEF PageInv, Typed
<1>7. Typed'
  BY <1>1, <1>3, <1>4, <1>5, <1>6 DEF PageInv, Typed
<1>8. Polls'
  BY <1>5, ScannerBounds DEF Polls, PageInv, Typed, Numbers
<1>9. Behind'
  BY <1>3, <1>4, <1>5 DEF Behind
<1>10. Waits'
  BY <1>2, WaitsStep, Zenon DEF setJobs, At
<1> QED
  BY <1>7, <1>8, <1>9, <1>10 DEF PageInv

\* A step of the jobs: one is added, or one ends.
LEMMA JobsInv ==
  ASSUME PageInv, JobsGoOn, NEW c \in Calls, NEW r, call' = [call EXCEPT ![c] = r],
         Ever' \in 0..MaxJobs, Ever <= Ever', jobs' \in [1..Ever' -> BOOLEAN],
         Request(r), r.total <= Ever, NotAhead(jobs, r.rows),
         r.req = call[c].req, r.kind = call[c].kind,
         UNCHANGED <<page, shown, total, timer, scanning, loadingJobs, clicks>>
  PROVE  PageInv'
<1>1. /\ Ever' \in Nat /\ Ever \in Nat /\ r.total <= Ever' /\ NotAhead(jobs', r.rows)
      /\ total \in 0..Ever'
  BY Fields, StaysBehind DEF PageInv, Typed, Request
<1>2. /\ DOMAIN call' = Calls
      /\ \A d \in Calls : /\ Request(call'[d]) /\ call'[d].total <= Ever'
                          /\ NotAhead(jobs', call'[d].rows)
  BY <1>1, CallsKept DEF PageInv
<1>3. Typed'
  BY <1>1, <1>2 DEF PageInv, Typed
<1>4. Behind' /\ Polls'
  BY <1>2, StaysBehind DEF PageInv, Behind, Polls
<1>5. Waits'
  BY WaitsStep
<1> QED
  BY <1>3, <1>4, <1>5 DEF PageInv

LEMMA DiscoverInv == ASSUME PageInv, NEW c \in Calls, discover(c) PROVE PageInv' /\ JobsGoOn
<1> DEFINE r(at) == [call[c] EXCEPT !.at = at]
<1>1. PICK at \in {"good", "bad"} :
        /\ call' = [call EXCEPT ![c] = r(at)]
        /\ \/ /\ Ever < MaxJobs
              /\ jobs' = [n \in 1..(Ever + 1) |-> IF n \in DOMAIN jobs THEN jobs[n] ELSE TRUE]
           \/ jobs' = jobs
  BY DEF discover, Ever
<1>2. /\ Request(r(at)) /\ r(at).total <= Ever /\ NotAhead(jobs, r(at).rows)
      /\ r(at).req = call[c].req /\ r(at).kind = call[c].kind
  BY MovesOn DEF discover, At
<1>3. Ever \in Nat /\ DOMAIN jobs = 1..Ever /\ jobs \in [1..Ever -> BOOLEAN] /\ Ever \in 0..MaxJobs
  BY Fields DEF PageInv, Typed
<1>4. /\ JobsGoOn /\ Ever <= Ever' /\ Ever' \in 0..MaxJobs
      /\ jobs' \in [1..Ever' -> BOOLEAN]
  <2>1. CASE jobs' = jobs
    BY <1>3, <2>1, JobsSame DEF PageInv
  <2>2. CASE /\ Ever < MaxJobs
             /\ jobs' = [n \in 1..(Ever + 1) |-> IF n \in DOMAIN jobs THEN jobs[n] ELSE TRUE]
    <3>1. DOMAIN jobs' = 1..(Ever + 1) /\ Ever + 1 \in Nat
      BY <1>3, <2>2
    <3>2. Ever' = Ever + 1
      BY <3>1, CountIsLength DEF Ever
    <3>3. JobsGoOn
      BY <1>3, <2>2, <3>1 DEF JobsGoOn
    <3>4. jobs' \in [1..(Ever + 1) -> BOOLEAN]
      BY <1>3, <2>2
    <3>5. Ever <= Ever + 1 /\ Ever + 1 \in 0..MaxJobs
      BY <1>3, <2>2, Fields
    <3> QED
      BY <3>2, <3>3, <3>4, <3>5
  <2> QED
    BY <1>1, <2>1, <2>2
<1> HIDE DEF r
<1> QED
  BY <1>1, <1>2, <1>4, JobsInv DEF discover

LEMMA EndsInv == ASSUME PageInv, NEW n, Ends(n) PROVE PageInv' /\ JobsGoOn
<1>1. DOMAIN jobs' = DOMAIN jobs /\ jobs' \in [1..Ever -> BOOLEAN] /\ JobsGoOn
  BY DEF Ends, PageInv, Typed, JobsGoOn
<1>2. Ever' = Ever
  BY <1>1 DEF Ever
<1>3. Typed'
  BY <1>1, <1>2 DEF Ends, PageInv, Typed
<1>4. Behind'
  BY <1>1, StaysBehind DEF Ends, PageInv, Behind
<1> QED
  BY <1>1, <1>3, <1>4 DEF Ends, PageInv, Waits, Polls

LEMMA StepInv ==
  ASSUME PageInv, [Next]_vars
  PROVE  PageInv' /\ JobsGoOn
<1>1. CASE Turn
  BY <1>1, TurnInv, JobsSame DEF Turn, PageInv
<1>2. CASE Tick
  BY <1>2, TickInv, JobsSame DEF Tick, PageInv
<1>3. ASSUME NEW c \in Calls, handleStartScan(c) PROVE PageInv' /\ JobsGoOn
  BY <1>3, StartInv, JobsSame DEF handleStartScan, PageInv
<1>4. ASSUME NEW c \in Calls, Serve(c) PROVE PageInv' /\ JobsGoOn
  <2>1. CASE discover(c)
    BY <2>1, DiscoverInv
  <2>2. CASE findAll(c)
    BY <2>2, ListInv, JobsSame DEF findAll, PageInv
  <2> QED
    BY <1>4, <2>1, <2>2 DEF Serve
<1>5. ASSUME NEW c \in Calls, Meet(c) PROVE PageInv' /\ JobsGoOn
  <2>1. CASE setJobs(c)
    BY <2>1, AnswerInv, JobsSame DEF setJobs, PageInv
  <2>2. CASE Started(c)
    BY <2>2, StartedInv, JobsSame DEF Started, PageInv
  <2>3. CASE Failed(c)
    BY <2>3, FailedInv, JobsSame DEF Failed, PageInv
  <2> QED
    BY <1>5, <2>1, <2>2, <2>3 DEF Meet
<1>6. ASSUME NEW c \in Calls, Fails(c) PROVE PageInv' /\ JobsGoOn
  BY <1>6, FailsInv, JobsSame DEF Fails, PageInv
<1>7. ASSUME NEW n \in 1..MaxJobs, Ends(n) PROVE PageInv' /\ JobsGoOn
  BY <1>7, EndsInv
<1>8. CASE UNCHANGED vars
  BY <1>8, JobsSame DEF vars, PageInv, Typed, Waits, Polls, Behind, Ever
<1> QED
  BY <1>1, <1>2, <1>3, <1>4, <1>5, <1>6, <1>7, <1>8 DEF Next

LEMMA PageInvariance == Spec => []PageInv /\ [][JobsGoOn]_vars
<1>1. PageInv /\ [Next]_vars => PageInv' /\ [JobsGoOn]_vars
  BY StepInv
<1> QED
  BY <1>1, InitInv, PTL DEF Spec

-----------------------------------------------------------------------------
\* For any number of requests, jobs and clicks: every variable of the page holds a value of
\* its kind, the button to start a scan waits only for its own handler, and the spinner
\* only for a list that was asked for.
THEOREM ScannerTyped == Spec => []ScannerPageTypeOK
<1>1. PageInv => ScannerPageTypeOK
  <2> SUFFICES ASSUME PageInv PROVE ScannerPageTypeOK
    OBVIOUS
  <2>1. Ever \in 0..MaxJobs /\ jobs \in [1..Ever -> BOOLEAN]
    BY DEF PageInv, Typed
  <2>2. jobs \in UNION {[1..k -> BOOLEAN] : k \in 0..MaxJobs}
    BY <2>1
  <2>3. total \in 0..MaxJobs /\ timer \in 0..(MaxJobs + 1) /\ page \in 1..(MaxJobs + 1)
    BY <2>1, ScannerBounds DEF PageInv, Typed, Numbers
  <2> QED
    BY <2>2, <2>3 DEF PageInv, Typed, Waits, ScannerPageTypeOK
<1> QED
  BY <1>1, PageInvariance, PTL

\* fetchJobs and its effect: the interval runs while a job is active on the screen and only
\* then, whichever answers overtake each other, fail, or are for a page that was left.
THEOREM PollsWhatItShows == Spec => []Polls
<1>1. PageInv => Polls
  BY DEF PageInv
<1> QED
  BY <1>1, PageInvariance, PTL

\* Late answers do no harm: no job is shown that does not exist, and a job that the screen
\* shows as ended has ended, for good.
THEOREM ScreenIsNeverAhead == Spec => []NotAhead(jobs, shown.rows) /\ [][JobsGoOn]_vars
<1>1. PageInv => NotAhead(jobs, shown.rows)
  BY DEF PageInv, Behind
<1> QED
  BY <1>1, PageInvariance, PTL
=============================================================================
