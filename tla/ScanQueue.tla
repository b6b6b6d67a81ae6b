----------------------------- MODULE ScanQueue -----------------------------
(***************************************************************************)
(* The life of a scan job: concurrent POST /scanner/discover requests      *)
(* (ScannerService.discover), the Bull lists in Redis, the Python worker   *)
(* that consumes them (consume_jobs), the pub/sub channel that carries its *)
(* results back, and the completion handlers of the API                    *)
(* (ScannerProcessor.handleCompletion).                                    *)
(*                                                                         *)
(* Every await of the API and every Redis call of the worker is a step of  *)
(* its own, so requests, worker and handlers interleave as they do in the  *)
(* running system.  The documents a scan changes besides its job (things,  *)
(* history, notifications) are the subject of Inventory.                   *)
(***************************************************************************)
EXTENDS Integers, Sequences, FiniteSets, Functions

CONSTANTS Jobs,            \* identities of the job documents ever created
          Networks,
          Requests,        \* discover calls in flight at the same time
          MaxQueueDepth,   \* MAX_QUEUE_DEPTH
          Faults           \* the faults that may happen

ASSUME JobsAssumption == IsFiniteSet(Jobs)
ASSUME RequestsAssumption == IsFiniteSet(Requests)
ASSUME NoneAssumption == "none" \notin Jobs \cup Networks
ASSUME DepthAssumption == MaxQueueDepth \in Nat \ {0}
ASSUME FaultsAssumption == Faults \subseteq {"worker", "api", "store"}

VARIABLES status, net,          \* MongoDB scanjobs: status and networkId
          cooling,              \* networks completed less than cooldownSeconds ago
          call,                 \* the discover calls in flight
          wait, active,         \* bull:scanner:wait and bull:scanner:active
          results, finished,    \* jobs with a returnvalue; bull:scanner:completed
          worker,               \* the worker's consume loop
          channel,              \* completion messages published, not yet received
          hpc                   \* the completion handler of each job

redisVars == <<wait, active, results, finished>>
vars == <<status, net, cooling, call, wait, active, results, finished,
          worker, channel, hpc>>

NoCall == [at |-> "idle", net |-> "none", job |-> "none"]
NoWork == [at |-> "idle", job |-> "none"]

-----------------------------------------------------------------------------
(* The queries of ScannerRepository *)

ActiveJobs(n) == {j \in Jobs : net[j] = n /\ status[j] \in {"queued", "running"}}
PendingJobs == {j \in Jobs : status[j] = "queued"}

HasQueued(n) == \E j \in PendingJobs : net[j] = n

HasActive(n) == ActiveJobs(n) # {}

QueueOverfull == Cardinality(PendingJobs) > MaxQueueDepth

QueueFull == Cardinality(PendingJobs) >= MaxQueueDepth

-----------------------------------------------------------------------------
(* POST /scanner/discover, one step for each await *)

Receive(r, n) ==
  /\ call[r] = NoCall
  /\ call' = [call EXCEPT ![r] = [at |-> "checkActive", net |-> n, job |-> "none"]]
  /\ UNCHANGED <<status, net, cooling, redisVars, worker, channel, hpc>>

\* A refused check answers 409 and ends the call.
Check(r, from, refused, to) ==
  /\ call[r].at = from
  /\ call' = [call EXCEPT ![r] = IF refused THEN NoCall ELSE [call[r] EXCEPT !.at = to]]
  /\ UNCHANGED <<status, net, cooling, redisVars, worker, channel, hpc>>

\* The checks in another order: a scan may complete between the two.
AdmitCooldownFirst(r) ==
  \/ Check(r, "checkActive", call[r].net \in cooling, "checkCooldown")
  \/ Check(r, "checkCooldown", HasActive(call[r].net), "checkDepth")
  \/ Check(r, "checkDepth", QueueFull, "create")

Admit(r) ==
  \/ Check(r, "checkActive", HasActive(call[r].net), "checkCooldown")
  \/ Check(r, "checkCooldown", call[r].net \in cooling, "checkDepth")
  \/ Check(r, "checkDepth", QueueFull, "create")

Create(r) ==
  /\ call[r].at = "create"
  /\ \E j \in Jobs :
       /\ status[j] = "none"
       /\ status' = [status EXCEPT ![j] = "queued"]
       /\ net' = [net EXCEPT ![j] = call[r].net]
       /\ call' = [call EXCEPT ![r] = [at |-> "enqueue", net |-> call[r].net, job |-> j]]
  /\ UNCHANGED <<cooling, redisVars, worker, channel, hpc>>

\* scannerQueue.add: the job's hash and its place in the wait list, in one script
Enqueue(r) ==
  /\ call[r].at = "enqueue"
  /\ wait' = Append(wait, call[r].job)
  /\ call' = [call EXCEPT ![r] = NoCall]
  /\ UNCHANGED <<status, net, cooling, active, results, finished, worker, channel, hpc>>

\* An await of discover rejects: the call ends, what it wrote stays.
RequestFails(r) ==
  /\ "store" \in Faults
  /\ call[r] # NoCall
  /\ call' = [call EXCEPT ![r] = NoCall]
  /\ UNCHANGED <<status, net, cooling, redisVars, worker, channel, hpc>>

Request(r) == Admit(r) \/ Create(r) \/ Enqueue(r)

CooldownExpires(n) ==
  /\ n \in cooling
  /\ cooling' = cooling \ {n}
  /\ UNCHANGED <<status, net, call, redisVars, worker, channel, hpc>>

-----------------------------------------------------------------------------
(* The worker's consume loop *)

\* A worker that reads the head of the list and leaves it there
Peek ==
  /\ worker = NoWork
  /\ wait # << >>
  /\ active' = active \cup {Head(wait)}
  /\ worker' = [at |-> "scan", job |-> Head(wait)]
  /\ UNCHANGED <<status, net, cooling, call, wait, results, finished, channel, hpc>>

Pop ==
  /\ worker = NoWork
  /\ wait # << >>
  /\ wait' = Tail(wait)
  /\ active' = active \cup {Head(wait)}
  /\ worker' = [at |-> "scan", job |-> Head(wait)]
  /\ UNCHANGED <<status, net, cooling, call, results, finished, channel, hpc>>

\* A worker that forgets the returnvalue
ScanOnly ==
  /\ worker.at = "scan"
  /\ worker' = [worker EXCEPT !.at = "remove"]
  /\ UNCHANGED <<status, net, cooling, call, redisVars, channel, hpc>>

\* scan_network returns and the result is stored in the job's hash
StoreResult ==
  /\ worker.at = "scan"
  /\ results' = results \cup {worker.job}
  /\ worker' = [worker EXCEPT !.at = "remove"]
  /\ UNCHANGED <<status, net, cooling, call, wait, active, finished, channel, hpc>>

RemoveFromActive ==
  /\ worker.at = "remove"
  /\ active' = active \ {worker.job}
  /\ worker' = [worker EXCEPT !.at = "finish"]
  /\ UNCHANGED <<status, net, cooling, call, wait, results, finished, channel, hpc>>

AddToCompleted ==
  /\ worker.at = "finish"
  /\ finished' = finished \cup {worker.job}
  /\ worker' = [worker EXCEPT !.at = "publish"]
  /\ UNCHANGED <<status, net, cooling, call, wait, active, results, channel, hpc>>

\* A worker that publishes after it has forgotten the job's id
PublishLate ==
  /\ worker.at = "publish"
  /\ channel' = Append(channel, NoWork.job)
  /\ worker' = NoWork
  /\ UNCHANGED <<status, net, cooling, call, redisVars, hpc>>

Publish ==
  /\ worker.at = "publish"
  /\ channel' = Append(channel, worker.job)
  /\ worker' = NoWork
  /\ UNCHANGED <<status, net, cooling, call, redisVars, hpc>>

\* The scan raises, Redis refuses a call, or the process dies and is started
\* again: in each case the loop goes back to brpoplpush.
WorkerAborts ==
  /\ "worker" \in Faults
  /\ worker # NoWork
  /\ worker' = NoWork
  /\ UNCHANGED <<status, net, cooling, call, redisVars, channel, hpc>>

Worker == Pop \/ StoreResult \/ RemoveFromActive \/ AddToCompleted \/ Publish

-----------------------------------------------------------------------------
(* The API's subscriber and the completion handlers *)

\* A channel that delivers its messages again and again
DeliverAgain ==
  /\ channel # << >>
  /\ hpc' = [hpc EXCEPT ![Head(channel)] = "lookup"]
  /\ UNCHANGED <<status, net, cooling, call, redisVars, worker, channel>>

\* ioredis calls the async listener once for each message and does not wait.
Deliver ==
  /\ channel # << >>
  /\ hpc' = [hpc EXCEPT ![Head(channel)] = "lookup"]
  /\ channel' = Tail(channel)
  /\ UNCHANGED <<status, net, cooling, call, redisVars, worker>>

LookUp(j) ==
  /\ hpc[j] = "lookup"
  /\ hpc' = [hpc EXCEPT ![j] = "mark"]
  /\ UNCHANGED <<status, net, cooling, call, redisVars, worker, channel>>

MarkRunning(j) ==
  /\ hpc[j] = "mark"
  /\ status' = [status EXCEPT ![j] = "running"]
  /\ hpc' = [hpc EXCEPT ![j] = "hosts"]
  /\ UNCHANGED <<net, cooling, call, redisVars, worker, channel>>

\* A handler that ends with the status its job started with
MarkQueuedAgain(j) ==
  /\ hpc[j] = "hosts"
  /\ status' = [status EXCEPT ![j] = "queued"]
  /\ cooling' = cooling \cup {net[j]}
  /\ hpc' = [hpc EXCEPT ![j] = "none"]
  /\ UNCHANGED <<net, call, redisVars, worker, channel>>

MarkCompleted(j) ==
  /\ hpc[j] = "hosts"
  /\ status' = [status EXCEPT ![j] = "completed"]
  /\ cooling' = cooling \cup {net[j]}
  /\ hpc' = [hpc EXCEPT ![j] = "none"]
  /\ UNCHANGED <<net, call, redisVars, worker, channel>>

\* An await of the handler rejects; the listener logs the error.
HandlerFails(j) ==
  /\ "store" \in Faults
  /\ hpc[j] # "none"
  /\ hpc' = [hpc EXCEPT ![j] = "none"]
  /\ UNCHANGED <<status, net, cooling, call, redisVars, worker, channel>>

\* The subscriber reconnects: Redis keeps no message for it.
SubscriberReconnects ==
  /\ "store" \in Faults
  /\ channel # << >>
  /\ channel' = << >>
  /\ UNCHANGED <<status, net, cooling, call, redisVars, worker, hpc>>

\* The API process dies and is started again.
ApiRestarts ==
  /\ "api" \in Faults
  /\ call' = [r \in Requests |-> NoCall]
  /\ hpc' = [j \in Jobs |-> "none"]
  /\ channel' = << >>
  /\ UNCHANGED <<status, net, cooling, redisVars, worker>>

Handler(j) == LookUp(j) \/ MarkRunning(j) \/ MarkCompleted(j)

-----------------------------------------------------------------------------
Init ==
  /\ status = [j \in Jobs |-> "none"]
  /\ net = [j \in Jobs |-> "none"]
  /\ cooling = {}
  /\ call = [r \in Requests |-> NoCall]
  /\ wait = << >>
  /\ active = {}
  /\ results = {}
  /\ finished = {}
  /\ worker = NoWork
  /\ channel = << >>
  /\ hpc = [j \in Jobs |-> "none"]

Next ==
  \/ \E r \in Requests : (\E n \in Networks : Receive(r, n)) \/ Request(r) \/ RequestFails(r)
  \/ \E n \in Networks : CooldownExpires(n)
  \/ Worker \/ WorkerAborts
  \/ Deliver
  \/ \E j \in Jobs : Handler(j) \/ HandlerFails(j)
  \/ SubscriberReconnects
  \/ ApiRestarts

Spec == Init /\ [][Next]_vars

\* Node's event loop runs every continuation that is ready, the worker's loop
\* never rests while a job waits, and cooldowns expire with the clock.  Users
\* are not obliged to call, and a fault is never obliged to happen.
Fairness ==
  /\ \A r \in Requests : WF_vars(Request(r))
  /\ WF_vars(Worker)
  /\ WF_vars(Deliver)
  /\ \A j \in Jobs : WF_vars(Handler(j))

LiveSpec == Spec /\ Fairness

-----------------------------------------------------------------------------
(* Where a job is *)

Places == {"call", "wait", "worker", "channel", "handler"}

At(j, place) ==
  \/ place = "call"    /\ \E r \in Requests : call[r].at = "enqueue" /\ call[r].job = j
  \/ place = "wait"    /\ j \in Range(wait)
  \/ place = "worker"  /\ worker.job = j
  \/ place = "channel" /\ j \in Range(channel)
  \/ place = "handler" /\ hpc[j] # "none"

\* The calls that have passed the check of hasActiveScans for n
PastActiveCheck(n) == {r \in Requests : /\ call[r].net = n
                                        /\ call[r].at \in {"checkCooldown", "checkDepth", "create"}}
PastDepthCheck == {r \in Requests : call[r].at = "create"}

-----------------------------------------------------------------------------
(* Properties *)

\* Every variable holds a value of its kind; a call has a network until it
\* ends and a job from create to enqueue, the worker a job until it goes idle.
TypeOK ==
  /\ status \in [Jobs -> {"none", "queued", "running", "completed"}]
  /\ net \in [Jobs -> Networks \cup {"none"}]
  /\ cooling \subseteq Networks
  /\ call \in [Requests ->
                 [at : {"idle", "checkActive", "checkCooldown", "checkDepth", "create", "enqueue"},
                  net : Networks \cup {"none"}, job : Jobs \cup {"none"}]]
  /\ \A r \in Requests : /\ call[r].at = "idle" <=> call[r].net = "none"
                         /\ call[r].at = "enqueue" <=> call[r].job # "none"
  /\ wait \in Seq(Jobs)
  /\ active \subseteq Jobs /\ results \subseteq Jobs /\ finished \subseteq Jobs
  /\ worker \in [at : {"idle", "scan", "remove", "finish", "publish"}, job : Jobs \cup {"none"}]
  /\ worker.at = "idle" <=> worker.job = "none"
  /\ channel \in Seq(Jobs)
  /\ hpc \in [Jobs -> {"none", "lookup", "mark", "hosts"}]

\* The queue exceeds MAX_QUEUE_DEPTH at most by the calls that were counting
\* at the same time: countPending and create are two awaits, so each call in
\* flight may have counted before the others created.
QueueDepthBound ==
  Cardinality(PendingJobs) + Cardinality(PastDepthCheck)
    <= MaxQueueDepth - 1 + Cardinality(Requests)

\* A network has at most as many unfinished jobs as there are concurrent calls
\* of discover, whatever fails: jobs that were checked one after the other
\* exclude each other.
ActivePerNetworkBound ==
  \A n \in Networks :
    Cardinality(ActiveJobs(n)) + Cardinality(PastActiveCheck(n)) <= Cardinality(Requests)

\* Whatever fails on the way, a job is held once: by one call that enqueues it,
\* in one position of the wait list, by the worker, in one message or by one
\* handler.  Two holders would scan it twice or apply its results twice.
JobInOnePlace ==
  /\ IsInjective(wait)
  /\ IsInjective(channel)
  /\ \A r, q \in Requests : call[r].job = call[q].job => r = q \/ call[r].job = "none"
  /\ \A j \in Jobs, p, q \in Places : At(j, p) /\ At(j, q) => p = q

\* The status of a job agrees with where the job is: queued until a handler
\* marks it, with a stored result from the worker's scan on, and never running
\* or completed without one.
StatusFollowsPlace ==
  \A j \in Jobs :
    /\ status[j] = "none" <=> net[j] = "none"
    /\ At(j, "call") \/ At(j, "wait") => status[j] = "queued" /\ j \notin results
    /\ At(j, "worker") => status[j] = "queued" /\ (worker.at = "scan" <=> j \notin results)
    /\ At(j, "channel") => status[j] = "queued" /\ j \in results
    /\ At(j, "handler") => /\ j \in results
                          /\ status[j] = IF hpc[j] = "hosts" THEN "running" ELSE "queued"
    /\ status[j] \in {"running", "completed"} => j \in results
    /\ j \in results => status[j] # "none"

\* The status of a job only moves forward: updateStatus is unconditional, so a
\* message handled twice would reopen a completed job.
StatusForward ==
  [][\A j \in Jobs : status'[j] # status[j] =>
       <<status[j], status'[j]>> \in {<<"none", "queued">>, <<"queued", "running">>,
                                      <<"running", "completed">>}]_vars

\* With one call of discover at a time a job is never created for a network
\* whose last scan completed less than cooldownSeconds ago: the active check
\* comes first, so no scan can complete between the cooldown check and create.
NoneCooling ==
  \A j \in Jobs : status[j] = "none" /\ status'[j] = "queued" => net'[j] \notin cooling

\* The design: an accepted job ends as completed or failed.
AcceptedEnds == \A j \in Jobs : status[j] = "queued" ~> status[j] \in {"completed", "failed"}

\* The design: one scan at a time for a network.
OneScanPerNetwork == \A n \in Networks : Cardinality(ActiveJobs(n)) <= 1

\* The design: at most MaxQueueDepth jobs are pending.
QueueDepthLimit == Cardinality(PendingJobs) <= MaxQueueDepth

\* The queue, the worker, the channel and the handlers together implement the
\* life of a job that ScanLifecycle promises.
Lifecycle == INSTANCE ScanLifecycle WITH scanned <- results
LifecycleSafe == Lifecycle!Spec
LifecycleFair == Lifecycle!FairSpec
=============================================================================
