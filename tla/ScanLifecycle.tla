--------------------------- MODULE ScanLifecycle ---------------------------
(***************************************************************************)
(* What the scanner promises about one scan job, without the queue, the    *)
(* worker or the event channel: an accepted job is scanned at most once,   *)
(* is reported as running and then as completed only after its scan has    *)
(* returned, and never goes back to an earlier status.                     *)
(***************************************************************************)
CONSTANT Jobs

VARIABLES status,   \* the status of the job's document
          scanned   \* the jobs whose scan has returned a result

vars == <<status, scanned>>

Init == /\ status = [j \in Jobs |-> "none"]
        /\ scanned = {}

Accept(j) == /\ status[j] = "none"
             /\ status' = [status EXCEPT ![j] = "queued"]
             /\ UNCHANGED scanned

Scan(j) == /\ status[j] = "queued"
           /\ j \notin scanned
           /\ scanned' = scanned \cup {j}
           /\ UNCHANGED status

Begin(j) == /\ status[j] = "queued"
            /\ j \in scanned
            /\ status' = [status EXCEPT ![j] = "running"]
            /\ UNCHANGED scanned

Finish(j) == /\ status[j] = "running"
             /\ status' = [status EXCEPT ![j] = "completed"]
             /\ UNCHANGED scanned

Next == \E j \in Jobs : Accept(j) \/ Scan(j) \/ Begin(j) \/ Finish(j)

Spec == Init /\ [][Next]_vars

\* Once accepted, a job is scanned and finished; nothing obliges a user to
\* request one.
FairSpec == Spec /\ \A j \in Jobs : WF_vars(Scan(j) \/ Begin(j) \/ Finish(j))
=============================================================================
