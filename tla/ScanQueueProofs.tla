-------------------------- MODULE ScanQueueProofs --------------------------
(***************************************************************************)
(* Theorems about ScanQueue for every set of jobs, networks and calls,     *)
(* every queue depth and every combination of faults.                      *)
(***************************************************************************)
EXTENDS ScanQueue, SequenceTheorems, FiniteSetTheorems, TLAPS

\* Tail drops the first element and keeps the order of the others.
LEMMA TailProperties ==
  ASSUME NEW S, NEW s \in Seq(S), s # << >>
  PROVE  /\ Tail(s) \in Seq(S)
         /\ Len(Tail(s)) = Len(s) - 1
         /\ \A i \in 1..Len(Tail(s)) : Tail(s)[i] = s[i + 1]
         /\ Head(s) \in S /\ Head(s) = s[1]
  BY HeadTailProperties, EmptySeq, LenProperties

\* A step keeps the kinds of values; MarkCompleted needs to know that the job
\* of a handler has a network.
LEMMA TypeStep ==
  ASSUME TypeOK, StatusFollowsPlace, [Next]_vars
  PROVE  TypeOK'
<1> USE NoneAssumption DEF TypeOK, NoCall, NoWork, redisVars
<1>1. ASSUME NEW r \in Requests, NEW n \in Networks, Receive(r, n) PROVE TypeOK'
  BY <1>1 DEF Receive
<1>2. ASSUME NEW r \in Requests, Admit(r) PROVE TypeOK'
  <2>1. ASSUME NEW from \in {"checkActive", "checkCooldown", "checkDepth"}, NEW refused,
               NEW to \in {"checkCooldown", "checkDepth", "create"},
               Check(r, from, refused, to)
        PROVE  TypeOK'
    <3>1. call[r].at = from /\ call[r].net \in Networks /\ call[r].job = "none"
      BY <2>1 DEF Check
    <3>2. CASE refused
      BY <2>1, <3>2 DEF Check
    <3>3. CASE ~refused
      BY <2>1, <3>1, <3>3 DEF Check
    <3> QED BY <3>2, <3>3
  <2> QED BY <1>2, <2>1 DEF Admit
<1>3. ASSUME NEW r \in Requests, Create(r) PROVE TypeOK'
  <2> PICK j \in Jobs : /\ status' = [status EXCEPT ![j] = "queued"]
                        /\ net' = [net EXCEPT ![j] = call[r].net]
                        /\ call' = [call EXCEPT ![r] =
                                      [at |-> "enqueue", net |-> call[r].net, job |-> j]]
    BY <1>3 DEF Create
  <2> QED BY <1>3 DEF Create
<1>4. ASSUME NEW r \in Requests, Enqueue(r) PROVE TypeOK'
  BY <1>4 DEF Enqueue
<1>5. ASSUME NEW r \in Requests, RequestFails(r) PROVE TypeOK'
  BY <1>5 DEF RequestFails
<1>6. ASSUME NEW n \in Networks, CooldownExpires(n) PROVE TypeOK'
  BY <1>6 DEF CooldownExpires
<1>7. CASE Pop
  BY <1>7, TailProperties DEF Pop
<1>8. CASE StoreResult \/ RemoveFromActive \/ AddToCompleted \/ Publish \/ WorkerAborts
  BY <1>8 DEF StoreResult, RemoveFromActive, AddToCompleted, Publish, WorkerAborts
<1>9. CASE Deliver
  BY <1>9, TailProperties DEF Deliver
<1>10. ASSUME NEW j \in Jobs, Handler(j) \/ HandlerFails(j) PROVE TypeOK'
  <2>1. CASE LookUp(j) \/ HandlerFails(j)
    BY <2>1 DEF LookUp, HandlerFails
  <2>2. CASE MarkRunning(j)
    BY <2>2 DEF MarkRunning
  <2>3. CASE MarkCompleted(j)
    <3>1. net[j] \in Networks
      BY <2>3 DEF MarkCompleted, StatusFollowsPlace, At
    <3> QED BY <2>3, <3>1 DEF MarkCompleted
  <2> QED BY <1>10, <2>1, <2>2, <2>3 DEF Handler
<1>11. CASE SubscriberReconnects \/ ApiRestarts
  <2>1. << >> \in Seq(Jobs)
    BY EmptySeq
  <2>2. CASE SubscriberReconnects
    BY <2>1, <2>2 DEF SubscriberReconnects
  <2>3. CASE ApiRestarts
    BY <2>1, <2>3 DEF ApiRestarts
  <2> QED BY <1>11, <2>2, <2>3
<1>12. CASE UNCHANGED vars
  BY <1>12 DEF vars
<1> QED
  BY <1>1, <1>2, <1>3, <1>4, <1>5, <1>6, <1>7, <1>8, <1>9, <1>10, <1>11, <1>12
     DEF Next, Request, Worker

-----------------------------------------------------------------------------
(* A job is in one place, and its status follows the place *)

\* Append adds its element to the range of an injective sequence.
LEMMA AppendRange ==
  ASSUME NEW S, NEW s \in Seq(S), NEW e \in S, IsInjective(s), e \notin Range(s)
  PROVE  /\ IsInjective(Append(s, e))
         /\ Range(Append(s, e)) = Range(s) \cup {e}
<1>1. /\ Append(s, e) \in Seq(S) /\ Len(Append(s, e)) = Len(s) + 1
      /\ \A i \in 1..Len(s) : Append(s, e)[i] = s[i]
      /\ Append(s, e)[Len(s) + 1] = e
  BY AppendProperties
<1>2. DOMAIN s = 1..Len(s) /\ DOMAIN Append(s, e) = 1..(Len(s) + 1) /\ Len(s) \in Nat
  BY <1>1, LenProperties
<1>3. IsInjective(Append(s, e))
  BY <1>1, <1>2 DEF IsInjective, Range
<1>4. Range(Append(s, e)) = Range(s) \cup {e}
  BY <1>1, <1>2 DEF Range
<1> QED BY <1>3, <1>4

\* Tail takes the head out of the range of an injective sequence.
LEMMA TailRange ==
  ASSUME NEW S, NEW s \in Seq(S), s # << >>, IsInjective(s)
  PROVE  /\ IsInjective(Tail(s))
         /\ Head(s) \in Range(s)
         /\ Range(Tail(s)) = Range(s) \ {Head(s)}
<1>1. /\ DOMAIN s = 1..Len(s) /\ DOMAIN Tail(s) = 1..(Len(s) - 1)
      /\ Len(s) \in Nat /\ Len(s) > 0
  BY TailProperties, LenProperties, EmptySeq
<1>2. \A i \in DOMAIN Tail(s) : Tail(s)[i] = s[i + 1] /\ i + 1 \in DOMAIN s
  BY <1>1, TailProperties
<1>3. IsInjective(Tail(s))
  BY <1>1, <1>2 DEF IsInjective
<1>4. 1 \in DOMAIN s /\ Head(s) = s[1]
  BY <1>1, TailProperties
<1>5. Range(Tail(s)) \subseteq Range(s) \ {Head(s)}
  BY <1>1, <1>2, <1>4 DEF Range, IsInjective
<1>6. Range(s) \ {Head(s)} \subseteq Range(Tail(s))
  <2> SUFFICES ASSUME NEW i \in DOMAIN s, s[i] # Head(s) PROVE s[i] \in Range(Tail(s))
    BY DEF Range
  <2>1. i - 1 \in DOMAIN Tail(s) /\ Tail(s)[i - 1] = s[i]
    BY <1>1, <1>2, <1>4
  <2> QED BY <2>1 DEF Range
<1> QED BY <1>3, <1>4, <1>5, <1>6 DEF Range

\* A step that only takes jobs away from their places keeps both invariants.
LEMMA StepThatDrops ==
  ASSUME TypeOK, TypeOK', JobInOnePlace, StatusFollowsPlace,
         UNCHANGED <<status, net, results>>,
         wait' = wait, channel' \in {channel, << >>},
         \A r \in Requests : call'[r].job \in {call[r].job, "none"}
                             /\ (call'[r].at = "enqueue" => call[r].at = "enqueue"),
         \/ worker'.job = worker.job /\ (worker'.at = "scan" <=> worker.at = "scan")
         \/ worker'.job = "none",
         \A j \in Jobs : hpc'[j] \in {hpc[j], "none"}
  PROVE  JobInOnePlace' /\ StatusFollowsPlace'
<1>1. Range(<< >>) = {} /\ IsInjective(<< >>)
  BY DEF Range, IsInjective
<1>2. \A j \in Jobs, p \in Places : At(j, p)' => At(j, p)
  BY <1>1, NoneAssumption DEF At, Places, TypeOK
<1>3. IsInjective(wait') /\ IsInjective(channel')
  BY <1>1 DEF JobInOnePlace
<1>4. \A r, q \in Requests : call'[r].job = call'[q].job => r = q \/ call'[r].job = "none"
  BY DEF JobInOnePlace
<1>5. JobInOnePlace'
  BY <1>2, <1>3, <1>4 DEF JobInOnePlace
<1>6. StatusFollowsPlace'
  <2> SUFFICES ASSUME NEW j \in Jobs
               PROVE  (StatusFollowsPlace!(j))'
    BY DEF StatusFollowsPlace
  <2>1. StatusFollowsPlace!(j)
    BY DEF StatusFollowsPlace
  <2>2. \A p \in Places : At(j, p)' => At(j, p)
    BY <1>2
  <2>3. At(j, "worker")' => (worker'.at = "scan" <=> worker.at = "scan")
    BY NoneAssumption DEF At
  <2>4. At(j, "handler")' => hpc'[j] = hpc[j]
    BY DEF At
  <2> QED BY <2>1, <2>2, <2>3, <2>4 DEF Places
<1> QED BY <1>5, <1>6

\* A step that moves job j to a place, or to none when there is no place left
\* for it, and leaves the other jobs where they are.
LEMMA StepThatMoves ==
  ASSUME JobInOnePlace, NEW j \in Jobs, NEW to \in Places \cup {"nowhere"},
         IsInjective(wait)', IsInjective(channel)',
         \A r, q \in Requests : call'[r].job = call'[q].job => r = q \/ call'[r].job = "none",
         \A k \in Jobs, p \in Places : At(k, p)' => IF k = j THEN p = to ELSE At(k, p)
  PROVE  JobInOnePlace'
BY DEF JobInOnePlace

\* Every step keeps the place of each job unique and its status in agreement.
LEMMA PlaceStep ==
  ASSUME TypeOK, JobInOnePlace, StatusFollowsPlace, TypeOK', [Next]_vars
  PROVE  JobInOnePlace' /\ StatusFollowsPlace'
<1> USE NoneAssumption
<1>0. \A j \in Jobs : ~At(j, "call") \/ ~At(j, "wait")
  BY DEF JobInOnePlace, Places
<1>1. ASSUME NEW r \in Requests, NEW n \in Networks, Receive(r, n)
      PROVE  JobInOnePlace' /\ StatusFollowsPlace'
  BY <1>1, StepThatDrops DEF Receive, redisVars, TypeOK, NoCall
<1>2. ASSUME NEW r \in Requests, Admit(r) PROVE JobInOnePlace' /\ StatusFollowsPlace'
  <2>1. ASSUME NEW from \in {"checkActive", "checkCooldown", "checkDepth"}, NEW refused,
               NEW to \in {"checkCooldown", "checkDepth", "create"},
               Check(r, from, refused, to)
        PROVE  JobInOnePlace' /\ StatusFollowsPlace'
    <3>1. \A q \in Requests : /\ call'[q].job \in {call[q].job, "none"}
                              /\ call'[q].at = "enqueue" => call[q].at = "enqueue"
      <4>1. CASE refused
        BY <2>1, <4>1 DEF Check, TypeOK, NoCall
      <4>2. CASE ~refused
        BY <2>1, <4>2 DEF Check, TypeOK, NoCall
      <4> QED BY <4>1, <4>2
    <3> QED BY <2>1, <3>1, StepThatDrops DEF Check, redisVars
  <2> QED BY <1>2, <2>1 DEF Admit
<1>3. ASSUME NEW r \in Requests, Create(r) PROVE JobInOnePlace' /\ StatusFollowsPlace'
  <2>1. PICK j \in Jobs : /\ status[j] = "none"
                          /\ status' = [status EXCEPT ![j] = "queued"]
                          /\ net' = [net EXCEPT ![j] = call[r].net]
                          /\ call' = [call EXCEPT ![r] =
                                        [at |-> "enqueue", net |-> call[r].net, job |-> j]]
    BY <1>3 DEF Create
  <2>2. \A p \in Places : ~At(j, p)
    BY <2>1 DEF StatusFollowsPlace, Places
  <2>3. \A k \in Jobs, p \in Places : At(k, p)' => IF k = j THEN p = "call" ELSE At(k, p)
    BY <1>3, <2>1, <2>2 DEF Create, At, Places, redisVars, TypeOK
  <2>4. \A q \in Requests : call[q].job # j
    BY <2>2 DEF At, Places, TypeOK
  <2>5. JobInOnePlace'
    <3>1. \A q1, q2 \in Requests :
            call'[q1].job = call'[q2].job => q1 = q2 \/ call'[q1].job = "none"
      BY <2>1, <2>4 DEF JobInOnePlace, TypeOK
    <3>2. IsInjective(wait)' /\ IsInjective(channel)'
      BY <1>3 DEF Create, redisVars, JobInOnePlace
    <3> QED BY <2>3, <3>1, <3>2, StepThatMoves DEF Places
  <2>6. call[r].net # "none"
    BY <1>3 DEF Create, TypeOK
  <2>7. UNCHANGED <<results, worker, hpc>>
    BY <1>3 DEF Create, redisVars
  <2>8. StatusFollowsPlace'
    <3> SUFFICES ASSUME NEW k \in Jobs PROVE (StatusFollowsPlace!(k))'
      BY DEF StatusFollowsPlace
    <3>1. StatusFollowsPlace!(k)
      BY DEF StatusFollowsPlace
    <3>2. CASE k = j
      BY <2>1, <2>3, <2>6, <2>7, <3>1, <3>2 DEF Places, TypeOK
    <3>3. CASE k # j
      BY <2>1, <2>3, <2>7, <3>1, <3>3 DEF Places, TypeOK
    <3> QED BY <3>2, <3>3
  <2> QED BY <2>5, <2>8
<1>4. ASSUME NEW r \in Requests, Enqueue(r) PROVE JobInOnePlace' /\ StatusFollowsPlace'
  <2> DEFINE j == call[r].job
  <2>1. j \in Jobs /\ At(j, "call")
    BY <1>4 DEF Enqueue, At, TypeOK
  <2>2. j \notin Range(wait) /\ IsInjective(wait) /\ IsInjective(channel)
    BY <2>1, <1>0 DEF At, JobInOnePlace
  <2>3. Range(wait') = Range(wait) \cup {j} /\ IsInjective(wait')
    BY <1>4, <2>1, <2>2, AppendRange DEF Enqueue, TypeOK
  <2>4. UNCHANGED <<status, net, results, worker, channel, hpc>>
    BY <1>4 DEF Enqueue
  <2>5. \A q \in Requests : call'[q].job = IF q = r THEN "none" ELSE call[q].job
    BY <1>4 DEF Enqueue, TypeOK, NoCall
  <2>6. \A q \in Requests : q # r => call[q].job # j /\ call'[q] = call[q]
    BY <1>4, <2>1 DEF Enqueue, TypeOK, JobInOnePlace
  <2>7. \A k \in Jobs, p \in Places : At(k, p)' => IF k = j THEN p = "wait" ELSE At(k, p)
    <3>1. \A p \in Places : At(j, p) => p = "call"
      BY <2>1 DEF JobInOnePlace, Places
    <3>2. \A k \in Jobs : At(k, "call")' => At(k, "call") /\ k # j
      BY <2>1, <2>5, <2>6 DEF At
    <3>3. \A k \in Jobs : At(k, "wait")' => At(k, "wait") \/ k = j
      BY <2>3 DEF At
    <3>4. \A k \in Jobs, p \in {"worker", "channel", "handler"} : At(k, p)' => At(k, p)
      BY <2>4 DEF At
    <3> QED BY <3>1, <3>2, <3>3, <3>4 DEF Places
  <2>8. JobInOnePlace'
    <3>1. \A q1, q2 \in Requests :
            call'[q1].job = call'[q2].job => q1 = q2 \/ call'[q1].job = "none"
      BY <2>5 DEF JobInOnePlace
    <3> HIDE DEF j
    <3> QED BY <2>1, <2>2, <2>3, <2>4, <2>7, <3>1, StepThatMoves DEF Places
  <2>9. StatusFollowsPlace'
    <3> HIDE DEF j
    <3> SUFFICES ASSUME NEW k \in Jobs PROVE (StatusFollowsPlace!(k))'
      BY DEF StatusFollowsPlace
    <3>1. StatusFollowsPlace!(k)
      BY DEF StatusFollowsPlace
    <3>2. CASE k = j
      BY <2>1, <2>4, <2>7, <3>1, <3>2 DEF Places, TypeOK
    <3>3. CASE k # j
      BY <2>1, <2>4, <2>7, <3>1, <3>3 DEF Places, TypeOK
    <3> QED BY <3>2, <3>3
  <2> QED BY <2>8, <2>9
<1>5. ASSUME NEW r \in Requests, RequestFails(r) PROVE JobInOnePlace' /\ StatusFollowsPlace'
  BY <1>5, StepThatDrops DEF RequestFails, redisVars, TypeOK, NoCall
<1>6. ASSUME NEW n \in Networks, CooldownExpires(n) PROVE JobInOnePlace' /\ StatusFollowsPlace'
  BY <1>6, StepThatDrops DEF CooldownExpires, redisVars, TypeOK
<1>7. CASE Pop
  <2> DEFINE j == Head(wait)
  <2>1. /\ j \in Jobs /\ j \in Range(wait)
        /\ IsInjective(wait') /\ Range(wait') = Range(wait) \ {j}
    BY <1>7, TailRange, TailProperties DEF Pop, TypeOK, JobInOnePlace
  <2>2. /\ worker' = [at |-> "scan", job |-> j] /\ worker.job = "none"
        /\ UNCHANGED <<status, net, results, call, channel, hpc>>
    BY <1>7 DEF Pop, NoWork
  <2> HIDE DEF j
  <2>3. \A k \in Jobs, p \in Places : At(k, p)' => IF k = j THEN p = "worker" ELSE At(k, p)
    <3>1. \A p \in Places : At(j, p) => p = "wait"
      BY <2>1 DEF JobInOnePlace, Places, At
    <3>2. \A k \in Jobs : At(k, "wait")' => At(k, "wait") /\ k # j
      BY <2>1 DEF At
    <3>3. \A k \in Jobs : At(k, "worker")' => k = j
      BY <2>2 DEF At
    <3>4. \A k \in Jobs, p \in {"call", "channel", "handler"} : At(k, p)' => At(k, p)
      BY <2>2 DEF At
    <3> QED BY <3>1, <3>2, <3>3, <3>4 DEF Places
  <2>4. JobInOnePlace'
    BY <2>1, <2>2, <2>3, StepThatMoves DEF Places, JobInOnePlace
  <2>5. At(j, "wait") /\ \A k \in Jobs : At(k, "worker")' => k = j
    BY <2>1, <2>2 DEF At
  <2>6. StatusFollowsPlace'
    <3> SUFFICES ASSUME NEW k \in Jobs PROVE (StatusFollowsPlace!(k))'
      BY DEF StatusFollowsPlace
    <3>1. StatusFollowsPlace!(k)
      BY DEF StatusFollowsPlace
    <3>2. CASE k = j
      BY <2>1, <2>2, <2>3, <2>5, <3>1, <3>2 DEF Places, TypeOK
    <3>3. CASE k # j
      BY <2>1, <2>2, <2>3, <2>5, <3>1, <3>3 DEF Places, TypeOK
    <3> QED BY <3>2, <3>3
  <2> QED BY <2>4, <2>6
<1>8. CASE StoreResult
  <2> DEFINE j == worker.job
  <2>1. /\ j \in Jobs /\ At(j, "worker") /\ worker.at = "scan"
        /\ worker'.at = "remove" /\ worker'.job = j /\ results' = results \cup {j}
        /\ UNCHANGED <<status, net, call, wait, channel, hpc>>
    BY <1>8 DEF StoreResult, TypeOK, At
  <2> HIDE DEF j
  <2>2. \A k \in Jobs, p \in Places : At(k, p)' => At(k, p)
    BY <1>8 DEF StoreResult, TypeOK, At, Places
  <2>3. JobInOnePlace'
    BY <2>1, <2>2 DEF JobInOnePlace
  <2>4. \A p \in Places : At(j, p) => p = "worker"
    BY <2>1 DEF JobInOnePlace, Places
  <2>5. \A k \in Jobs : k # j => ~At(k, "worker")
    BY <1>8 DEF At, j
  <2>6. StatusFollowsPlace'
    <3> SUFFICES ASSUME NEW k \in Jobs PROVE (StatusFollowsPlace!(k))'
      BY DEF StatusFollowsPlace
    <3>1. StatusFollowsPlace!(k)
      BY DEF StatusFollowsPlace
    <3>2. CASE k = j
      BY <2>1, <2>2, <2>4, <2>5, <3>1, <3>2 DEF Places, TypeOK
    <3>3. CASE k # j
      BY <2>1, <2>2, <2>4, <2>5, <3>1, <3>3 DEF Places, TypeOK
    <3> QED BY <3>2, <3>3
  <2> QED BY <2>3, <2>6
<1>9. CASE RemoveFromActive \/ AddToCompleted
  BY <1>9, StepThatDrops DEF RemoveFromActive, AddToCompleted, redisVars, TypeOK
<1>10. CASE WorkerAborts
  BY <1>10, StepThatDrops DEF WorkerAborts, redisVars, TypeOK, NoWork
<1>11. CASE Publish
  <2> DEFINE j == worker.job
  <2>1. /\ j \in Jobs /\ At(j, "worker") /\ worker.at # "scan" /\ worker'.job = "none"
        /\ channel' = Append(channel, j)
        /\ UNCHANGED <<status, net, results, call, wait, hpc>>
    BY <1>11 DEF Publish, TypeOK, At, NoWork, redisVars
  <2>2. \A p \in Places : At(j, p) => p = "worker"
    BY <2>1 DEF JobInOnePlace, Places
  <2>3. Range(channel') = Range(channel) \cup {j} /\ IsInjective(channel')
    <3>1. j \notin Range(channel) /\ IsInjective(channel)
      BY <2>2 DEF At, JobInOnePlace, Places
    <3> QED BY <2>1, <3>1, AppendRange DEF TypeOK
  <2> HIDE DEF j
  <2>4. \A k \in Jobs, p \in Places : At(k, p)' => IF k = j THEN p = "channel" ELSE At(k, p)
    <3>1. \A k \in Jobs : ~At(k, "worker")'
      BY <2>1 DEF At
    <3>2. \A k \in Jobs : At(k, "channel")' => At(k, "channel") \/ k = j
      BY <2>3 DEF At
    <3>3. \A k \in Jobs, p \in {"call", "wait", "handler"} : At(k, p)' => At(k, p)
      BY <2>1 DEF At
    <3> QED BY <2>2, <3>1, <3>2, <3>3 DEF Places
  <2>5. JobInOnePlace'
    BY <2>1, <2>3, <2>4, StepThatMoves DEF Places, JobInOnePlace
  <2>6. StatusFollowsPlace'
    <3> SUFFICES ASSUME NEW k \in Jobs PROVE (StatusFollowsPlace!(k))'
      BY DEF StatusFollowsPlace
    <3>1. StatusFollowsPlace!(k)
      BY DEF StatusFollowsPlace
    <3>2. CASE k = j
      BY <2>1, <2>4, <3>1, <3>2 DEF Places, TypeOK
    <3>3. CASE k # j
      BY <2>1, <2>4, <3>1, <3>3 DEF Places, TypeOK
    <3> QED BY <3>2, <3>3
  <2> QED BY <2>5, <2>6
<1>12. CASE Deliver
  <2> DEFINE j == Head(channel)
  <2>1. /\ j \in Jobs /\ j \in Range(channel)
        /\ IsInjective(channel') /\ Range(channel') = Range(channel) \ {j}
    BY <1>12, TailRange, TailProperties DEF Deliver, TypeOK, JobInOnePlace
  <2>2. /\ hpc' = [hpc EXCEPT ![j] = "lookup"]
        /\ UNCHANGED <<status, net, results, call, wait, worker>>
    BY <1>12 DEF Deliver, redisVars
  <2> HIDE DEF j
  <2>3. At(j, "channel")
    BY <2>1 DEF At
  <2>4. \A k \in Jobs, p \in Places : At(k, p)' => IF k = j THEN p = "handler" ELSE At(k, p)
    <3>1. \A p \in Places : At(j, p) => p = "channel"
      BY <2>1, <2>3 DEF JobInOnePlace, Places
    <3>2. \A k \in Jobs : At(k, "channel")' => At(k, "channel") /\ k # j
      BY <2>1 DEF At
    <3>3. \A k \in Jobs : At(k, "handler")' => At(k, "handler") \/ k = j
      BY <2>2 DEF At, TypeOK
    <3>4. \A k \in Jobs, p \in {"call", "wait", "worker"} : At(k, p)' => At(k, p)
      BY <2>2 DEF At
    <3> QED BY <3>1, <3>2, <3>3, <3>4 DEF Places
  <2>5. JobInOnePlace'
    BY <2>1, <2>2, <2>4, StepThatMoves DEF Places, JobInOnePlace
  <2>6. StatusFollowsPlace'
    <3> SUFFICES ASSUME NEW k \in Jobs PROVE (StatusFollowsPlace!(k))'
      BY DEF StatusFollowsPlace
    <3>1. StatusFollowsPlace!(k)
      BY DEF StatusFollowsPlace
    <3>2. CASE k = j
      BY <2>1, <2>2, <2>3, <2>4, <3>1, <3>2 DEF Places, TypeOK
    <3>3. CASE k # j
      BY <2>1, <2>2, <2>3, <2>4, <3>1, <3>3 DEF Places, TypeOK
    <3> QED BY <3>2, <3>3
  <2> QED BY <2>5, <2>6
<1>13. ASSUME NEW j \in Jobs, LookUp(j) \/ MarkRunning(j)
       PROVE  JobInOnePlace' /\ StatusFollowsPlace'
  <2>1. /\ At(j, "handler") /\ j \in results /\ status[j] = "queued" /\ net[j] # "none"
        /\ UNCHANGED <<net, results, call, wait, worker, channel>>
        /\ \A k \in Jobs : k # j => hpc'[k] = hpc[k] /\ status'[k] = status[k]
        /\ \/ hpc'[j] = "mark" /\ status'[j] = "queued"
           \/ hpc'[j] = "hosts" /\ status'[j] = "running"
    <3>1. At(j, "handler") /\ hpc[j] \in {"lookup", "mark"}
      BY <1>13 DEF LookUp, MarkRunning, At
    <3>2. j \in results /\ status[j] = "queued" /\ net[j] # "none"
      BY <3>1 DEF StatusFollowsPlace
    <3>3. CASE LookUp(j)
      <4>1. hpc'[j] = "mark" /\ \A k \in Jobs : k # j => hpc'[k] = hpc[k]
        BY <3>3 DEF LookUp, TypeOK
      <4>2. UNCHANGED <<status, net, results, call, wait, worker, channel>>
        BY <3>3 DEF LookUp, redisVars
      <4> QED BY <3>1, <3>2, <4>1, <4>2
    <3>4. CASE MarkRunning(j)
      BY <3>1, <3>2, <3>4 DEF MarkRunning, TypeOK, redisVars
    <3> QED BY <1>13, <3>3, <3>4
  <2>2. \A k \in Jobs, p \in Places : At(k, p)' => At(k, p)
    BY <2>1 DEF At, Places
  <2>3. JobInOnePlace'
    BY <2>1, <2>2 DEF JobInOnePlace
  <2>4. \A p \in Places : At(j, p) => p = "handler"
    BY <2>1 DEF JobInOnePlace, Places
  <2>5. StatusFollowsPlace'
    <3> SUFFICES ASSUME NEW k \in Jobs PROVE (StatusFollowsPlace!(k))'
      BY DEF StatusFollowsPlace
    <3>1. StatusFollowsPlace!(k)
      BY DEF StatusFollowsPlace
    <3>2. CASE k = j
      BY <2>1, <2>2, <2>4, <3>1, <3>2 DEF Places, TypeOK
    <3>3. CASE k # j
      BY <2>1, <2>2, <2>4, <3>1, <3>3 DEF Places, TypeOK
    <3> QED BY <3>2, <3>3
  <2> QED BY <2>3, <2>5
<1>14. ASSUME NEW j \in Jobs, MarkCompleted(j) PROVE JobInOnePlace' /\ StatusFollowsPlace'
  <2>1. /\ At(j, "handler") /\ j \in results /\ net[j] # "none"
        /\ UNCHANGED <<net, results, call, wait, worker, channel>>
        /\ \A k \in Jobs : k # j => hpc'[k] = hpc[k] /\ status'[k] = status[k]
        /\ hpc'[j] = "none" /\ status'[j] = "completed"
    BY <1>14 DEF MarkCompleted, At, StatusFollowsPlace, TypeOK, redisVars
  <2>2. \A p \in Places : At(j, p) => p = "handler"
    BY <2>1 DEF JobInOnePlace, Places
  <2>3. \A k \in Jobs, p \in Places : At(k, p)' => k # j /\ At(k, p)
    BY <2>1, <2>2 DEF At, Places
  <2>4. JobInOnePlace'
    BY <2>1, <2>3 DEF JobInOnePlace
  <2>5. StatusFollowsPlace'
    <3> SUFFICES ASSUME NEW k \in Jobs PROVE (StatusFollowsPlace!(k))'
      BY DEF StatusFollowsPlace
    <3>1. StatusFollowsPlace!(k)
      BY DEF StatusFollowsPlace
    <3>2. CASE k = j
      BY <2>1, <2>3, <3>1, <3>2 DEF Places, TypeOK
    <3>3. CASE k # j
      BY <2>1, <2>3, <3>1, <3>3 DEF Places, TypeOK
    <3> QED BY <3>2, <3>3
  <2> QED BY <2>4, <2>5
<1>15. ASSUME NEW j \in Jobs, HandlerFails(j) PROVE JobInOnePlace' /\ StatusFollowsPlace'
  BY <1>15, StepThatDrops DEF HandlerFails, redisVars, TypeOK
<1>16. CASE SubscriberReconnects
  BY <1>16, StepThatDrops DEF SubscriberReconnects, redisVars, TypeOK
<1>17. CASE ApiRestarts
  BY <1>17, StepThatDrops DEF ApiRestarts, redisVars, TypeOK, NoCall
<1>18. CASE UNCHANGED vars
  BY <1>18, StepThatDrops DEF vars, TypeOK
<1> QED
  BY <1>1, <1>2, <1>3, <1>4, <1>5, <1>6, <1>7, <1>8, <1>9, <1>10, <1>11, <1>12, <1>13,
     <1>14, <1>15, <1>16, <1>17, <1>18
     DEF Next, Request, Worker, Handler

\* The inductive invariant
PlacesInv == TypeOK /\ JobInOnePlace /\ StatusFollowsPlace

LEMMA PlacesInvariant == Spec => []PlacesInv
<1>1. Init => PlacesInv
  <2> SUFFICES ASSUME Init PROVE PlacesInv
    OBVIOUS
  <2>1. TypeOK
    BY EmptySeq, NoneAssumption DEF Init, TypeOK, NoCall, NoWork
  <2>2. Range(<< >>) = {} /\ IsInjective(<< >>)
    BY DEF Range, IsInjective
  <2>3. \A j \in Jobs, p \in Places : ~At(j, p)
    BY <2>2, NoneAssumption DEF Init, At, Places, NoCall, NoWork
  <2>4. JobInOnePlace
    BY <2>2, <2>3 DEF Init, JobInOnePlace, NoCall
  <2>5. StatusFollowsPlace
    BY <2>3 DEF Init, StatusFollowsPlace, Places
  <2> QED BY <2>1, <2>4, <2>5 DEF PlacesInv
<1>2. PlacesInv /\ [Next]_vars => PlacesInv'
  BY TypeStep, PlaceStep DEF PlacesInv
<1> QED BY <1>1, <1>2, PTL DEF Spec

\* The variables hold values of their kinds, whatever fails.
THEOREM TypeCorrect == Spec => []TypeOK
BY PlacesInvariant, PTL DEF PlacesInv

\* Whatever fails, no job is ever held twice: no scan is executed twice and no
\* result is applied twice.
THEOREM OnePlace == Spec => []JobInOnePlace
BY PlacesInvariant, PTL DEF PlacesInv

\* The status of a job always agrees with the place of the job.
THEOREM StatusAgrees == Spec => []StatusFollowsPlace
BY PlacesInvariant, PTL DEF PlacesInv

-----------------------------------------------------------------------------
(* Statuses move forward, and the system implements ScanLifecycle *)

\* Each step is a step of ScanLifecycle or leaves its variables alone.
LEMMA LifecycleStep ==
  ASSUME PlacesInv, [Next]_vars
  PROVE  [Lifecycle!Next]_Lifecycle!vars
<1> USE DEF Lifecycle!Next, Lifecycle!vars, redisVars
<1>1. ASSUME NEW r \in Requests, Create(r) PROVE [Lifecycle!Next]_Lifecycle!vars
  BY <1>1 DEF Create, Lifecycle!Accept
<1>2. CASE StoreResult
  <2>1. worker.job \in Jobs /\ At(worker.job, "worker")
    BY <1>2 DEF StoreResult, PlacesInv, TypeOK, At
  <2>2. status[worker.job] = "queued" /\ worker.job \notin results
    BY <1>2, <2>1 DEF StoreResult, PlacesInv, StatusFollowsPlace
  <2> QED BY <1>2, <2>1, <2>2 DEF StoreResult, Lifecycle!Scan
<1>3. ASSUME NEW j \in Jobs, MarkRunning(j) PROVE [Lifecycle!Next]_Lifecycle!vars
  <2>1. At(j, "handler")
    BY <1>3 DEF MarkRunning, At
  <2>2. status[j] = "queued" /\ j \in results
    BY <1>3, <2>1 DEF MarkRunning, PlacesInv, StatusFollowsPlace
  <2> QED BY <1>3, <2>2 DEF MarkRunning, Lifecycle!Begin
<1>4. ASSUME NEW j \in Jobs, MarkCompleted(j) PROVE [Lifecycle!Next]_Lifecycle!vars
  <2>1. At(j, "handler")
    BY <1>4 DEF MarkCompleted, At
  <2>2. status[j] = "running"
    BY <1>4, <2>1 DEF MarkCompleted, PlacesInv, StatusFollowsPlace
  <2> QED BY <1>4, <2>2 DEF MarkCompleted, Lifecycle!Finish
<1>5. ASSUME NEW j \in Jobs, LookUp(j) \/ HandlerFails(j) PROVE UNCHANGED <<status, results>>
  BY <1>5 DEF LookUp, HandlerFails
<1>6. ASSUME NEW r \in Requests, NEW n \in Networks, Receive(r, n)
      PROVE  UNCHANGED <<status, results>>
  BY <1>6 DEF Receive
<1>7. ASSUME NEW r \in Requests, Admit(r) \/ Enqueue(r) \/ RequestFails(r)
      PROVE  UNCHANGED <<status, results>>
  BY <1>7 DEF Admit, Check, Enqueue, RequestFails
<1>8. CASE \/ \E n \in Networks : CooldownExpires(n)
           \/ Pop \/ RemoveFromActive \/ AddToCompleted \/ Publish \/ WorkerAborts
           \/ Deliver \/ SubscriberReconnects \/ ApiRestarts \/ UNCHANGED vars
  BY <1>8 DEF CooldownExpires, Pop, RemoveFromActive, AddToCompleted, Publish, WorkerAborts,
              Deliver, SubscriberReconnects, ApiRestarts, vars
<1> QED
  BY <1>1, <1>2, <1>3, <1>4, <1>5, <1>6, <1>7, <1>8 DEF Next, Request, Worker, Handler

\* Queue, worker, channel and handlers implement the life of a job.
THEOREM ImplementsLifecycle == Spec => LifecycleSafe
<1>1. Init => Lifecycle!Init
  BY DEF Init, Lifecycle!Init
<1>2. PlacesInv /\ [Next]_vars => [Lifecycle!Next]_Lifecycle!vars
  BY LifecycleStep
<1> QED BY <1>1, <1>2, PlacesInvariant, PTL DEF Spec, LifecycleSafe, Lifecycle!Spec

\* A completed job is never reopened and no status is skipped.
THEOREM ForwardOnly == Spec => StatusForward
<1>1. ASSUME PlacesInv, [Next]_vars
      PROVE  \A j \in Jobs : status'[j] # status[j] =>
               <<status[j], status'[j]>> \in {<<"none", "queued">>, <<"queued", "running">>,
                                              <<"running", "completed">>}
  <2>1. [Lifecycle!Next]_Lifecycle!vars
    BY <1>1, LifecycleStep
  <2> QED BY <1>1, <2>1 DEF Lifecycle!Next, Lifecycle!vars, Lifecycle!Accept, Lifecycle!Scan,
                            Lifecycle!Begin, Lifecycle!Finish, PlacesInv, TypeOK
<1> QED BY <1>1, PlacesInvariant, PTL DEF Spec, StatusForward

-----------------------------------------------------------------------------
(* How far concurrent calls exceed the limits *)

\* Two finite sets that only shrink have no more elements together than before.
LEMMA SmallerTogether ==
  ASSUME NEW S, IsFiniteSet(S), NEW T, IsFiniteSet(T),
         NEW A \in SUBSET S, NEW B \in SUBSET T
  PROVE  /\ Cardinality(A) \in Nat /\ Cardinality(S) \in Nat
         /\ Cardinality(B) \in Nat /\ Cardinality(T) \in Nat
         /\ Cardinality(A) + Cardinality(B) <= Cardinality(S) + Cardinality(T)
<1>1. IsFiniteSet(A) /\ Cardinality(A) <= Cardinality(S)
  BY FS_Subset
<1>2. IsFiniteSet(B) /\ Cardinality(B) <= Cardinality(T)
  BY FS_Subset
<1> QED BY <1>1, <1>2, FS_CardinalityType

\* An element that leaves one finite set and a new one that enters another
\* keep the sum of their sizes.
LEMMA SwapTogether ==
  ASSUME NEW S, IsFiniteSet(S), NEW T, IsFiniteSet(T), NEW x, x \notin S, NEW y \in T
  PROVE  Cardinality(S \cup {x}) + Cardinality(T \ {y}) = Cardinality(S) + Cardinality(T)
<1>1. Cardinality(S \cup {x}) = Cardinality(S) + 1
  BY FS_AddElement
<1>2. Cardinality(T \ {y}) = Cardinality(T) - 1
  BY FS_RemoveElement
<1> QED BY <1>1, <1>2, FS_CardinalityType

\* A step other than the two that matter adds neither a pending job nor a call
\* that has passed the depth check.
LEMMA DepthStep ==
  ASSUME TypeOK, QueueDepthBound, [Next]_vars
  PROVE  QueueDepthBound'
<1> USE JobsAssumption, RequestsAssumption, DepthAssumption
<1>1. /\ PendingJobs \subseteq Jobs /\ IsFiniteSet(PendingJobs)
      /\ PastDepthCheck \subseteq Requests /\ IsFiniteSet(PastDepthCheck)
  BY FS_Subset DEF PendingJobs, PastDepthCheck
<1>2. SUFFICES ASSUME ~(PendingJobs' \subseteq PendingJobs /\ PastDepthCheck' \subseteq PastDepthCheck)
               PROVE  QueueDepthBound'
  <2>1. CASE PendingJobs' \subseteq PendingJobs /\ PastDepthCheck' \subseteq PastDepthCheck
    <3>1. PendingJobs' \in SUBSET PendingJobs /\ PastDepthCheck' \in SUBSET PastDepthCheck
      BY <2>1
    <3>2. Cardinality(PendingJobs') + Cardinality(PastDepthCheck')
            <= Cardinality(PendingJobs) + Cardinality(PastDepthCheck)
      BY <1>1, <3>1, SmallerTogether
    <3>3. /\ Cardinality(PendingJobs') \in Nat /\ Cardinality(PastDepthCheck') \in Nat
          /\ Cardinality(PendingJobs) \in Nat /\ Cardinality(PastDepthCheck) \in Nat
          /\ Cardinality(Requests) \in Nat
      BY <1>1, <3>1, SmallerTogether, FS_CardinalityType
    <3> QED BY <3>2, <3>3 DEF QueueDepthBound
  <2> QED BY <1>2, <2>1
<1>3. ASSUME NEW r \in Requests, Create(r) PROVE QueueDepthBound'
  <2>1. PICK j \in Jobs : /\ status[j] = "none"
                          /\ status' = [status EXCEPT ![j] = "queued"]
                          /\ call' = [call EXCEPT ![r] =
                                        [at |-> "enqueue", net |-> call[r].net, job |-> j]]
    BY <1>3 DEF Create
  <2>2. j \notin PendingJobs /\ PendingJobs' = PendingJobs \cup {j}
    BY <2>1 DEF PendingJobs, TypeOK
  <2>3. r \in PastDepthCheck /\ PastDepthCheck' = PastDepthCheck \ {r}
    BY <1>3, <2>1 DEF Create, PastDepthCheck, TypeOK
  <2> QED BY <1>1, <2>2, <2>3, SwapTogether DEF QueueDepthBound
<1>4. ASSUME NEW r \in Requests, Admit(r) PROVE QueueDepthBound'
  <2>1. PendingJobs' = PendingJobs /\ PastDepthCheck' \subseteq Requests
    BY <1>4 DEF Admit, Check, PendingJobs, PastDepthCheck
  <2>2. CASE QueueFull \/ call[r].at # "checkDepth"
    <3>1. \A q \in Requests : call'[q].at = "create" => call[q].at = "create"
      <4>1. ASSUME NEW from, NEW refused, NEW to, Check(r, from, refused, to),
                   to = "create" => refused
            PROVE  \A q \in Requests : call'[q].at = "create" => call[q].at = "create"
        <5>1. CASE refused
          BY <4>1, <5>1 DEF Check, TypeOK, NoCall
        <5>2. CASE ~refused
          BY <4>1, <5>2 DEF Check, TypeOK, NoCall
        <5> QED BY <5>1, <5>2
      <4>2. CASE QueueFull
        <5>1. CASE Check(r, "checkDepth", QueueFull, "create")
          BY <4>2, <5>1 DEF Check, TypeOK, NoCall
        <5> QED BY <1>4, <4>1, <5>1 DEF Admit
      <4>3. CASE call[r].at # "checkDepth"
        <5>1. ~Check(r, "checkDepth", QueueFull, "create")
          BY <4>3 DEF Check
        <5> QED BY <1>4, <4>1, <5>1 DEF Admit
      <4> QED BY <2>2, <4>2, <4>3
    <3> QED BY <1>2, <2>1, <3>1 DEF PastDepthCheck
  <2>3. CASE ~QueueFull
    <3>1. Cardinality(PendingJobs) <= MaxQueueDepth - 1 /\ Cardinality(PendingJobs) \in Nat
      BY <1>1, <2>3, FS_CardinalityType DEF QueueFull
    <3>2. Cardinality(PastDepthCheck') <= Cardinality(Requests)
      BY <2>1, FS_Subset
    <3>3. Cardinality(PastDepthCheck') \in Nat /\ Cardinality(Requests) \in Nat
      BY <2>1, FS_Subset, FS_CardinalityType
    <3> QED BY <2>1, <3>1, <3>2, <3>3 DEF QueueDepthBound
  <2> QED BY <2>2, <2>3
<1>5. ASSUME NEW r \in Requests, NEW n \in Networks, Receive(r, n)
      PROVE  PendingJobs' \subseteq PendingJobs /\ PastDepthCheck' \subseteq PastDepthCheck
  BY <1>5 DEF Receive, PendingJobs, PastDepthCheck, TypeOK
<1>6. ASSUME NEW r \in Requests, Enqueue(r) \/ RequestFails(r)
      PROVE  PendingJobs' \subseteq PendingJobs /\ PastDepthCheck' \subseteq PastDepthCheck
  BY <1>6 DEF Enqueue, RequestFails, PendingJobs, PastDepthCheck, TypeOK, NoCall
<1>7. ASSUME NEW j \in Jobs, Handler(j) \/ HandlerFails(j)
      PROVE  PendingJobs' \subseteq PendingJobs /\ PastDepthCheck' \subseteq PastDepthCheck
  BY <1>7 DEF Handler, LookUp, MarkRunning, MarkCompleted, HandlerFails, PendingJobs,
              PastDepthCheck, TypeOK
<1>8. ASSUME \/ \E n \in Networks : CooldownExpires(n)
             \/ Worker \/ WorkerAborts \/ Deliver \/ SubscriberReconnects \/ UNCHANGED vars
      PROVE  PendingJobs' \subseteq PendingJobs /\ PastDepthCheck' \subseteq PastDepthCheck
  BY <1>8 DEF CooldownExpires, Worker, Pop, StoreResult, RemoveFromActive, AddToCompleted,
              Publish, WorkerAborts, Deliver, SubscriberReconnects, vars, PendingJobs, PastDepthCheck
<1>9. ASSUME ApiRestarts
      PROVE  PendingJobs' \subseteq PendingJobs /\ PastDepthCheck' \subseteq PastDepthCheck
  BY <1>9 DEF ApiRestarts, PendingJobs, PastDepthCheck, NoCall
<1> QED BY <1>2, <1>3, <1>4, <1>5, <1>6, <1>7, <1>8, <1>9 DEF Next, Request

\* The queue never holds more than MAX_QUEUE_DEPTH pending jobs plus one for
\* each further call in flight, whatever fails.
THEOREM DepthBounded == Spec => []QueueDepthBound
<1>1. Init => QueueDepthBound
  <2> SUFFICES ASSUME Init PROVE QueueDepthBound
    OBVIOUS
  <2>1. PendingJobs = {} /\ PastDepthCheck = {}
    BY DEF Init, PendingJobs, PastDepthCheck, NoCall
  <2> QED BY <2>1, FS_EmptySet, FS_CardinalityType, RequestsAssumption, DepthAssumption
          DEF QueueDepthBound
<1>2. TypeOK /\ QueueDepthBound /\ [Next]_vars => QueueDepthBound'
  BY DepthStep
<1> QED BY <1>1, <1>2, TypeCorrect, PTL DEF Spec

\* The same count for the unfinished jobs of one network: the check that finds
\* none is followed by at most one create in each call.
LEMMA NetworkStep ==
  ASSUME PlacesInv, ActivePerNetworkBound, [Next]_vars, NEW n \in Networks
  PROVE  Cardinality(ActiveJobs(n)') + Cardinality(PastActiveCheck(n)')
           <= Cardinality(Requests)
<1> DEFINE Bound == Cardinality(ActiveJobs(n)') + Cardinality(PastActiveCheck(n)')
                      <= Cardinality(Requests)
           Shrinks == /\ ActiveJobs(n)' \subseteq ActiveJobs(n)
                      /\ PastActiveCheck(n)' \subseteq PastActiveCheck(n)
<1> USE JobsAssumption, RequestsAssumption, NoneAssumption
<1>1. /\ ActiveJobs(n) \subseteq Jobs /\ IsFiniteSet(ActiveJobs(n))
      /\ PastActiveCheck(n) \subseteq Requests /\ IsFiniteSet(PastActiveCheck(n))
      /\ Cardinality(Requests) \in Nat
  BY FS_Subset, FS_CardinalityType DEF ActiveJobs, PastActiveCheck
<1>2. TypeOK
  BY DEF PlacesInv
<1>3. ASSUME Shrinks PROVE Bound
  <2>1. Cardinality(ActiveJobs(n)') + Cardinality(PastActiveCheck(n)')
          <= Cardinality(ActiveJobs(n)) + Cardinality(PastActiveCheck(n))
    BY <1>1, <1>3, SmallerTogether
  <2>2. /\ Cardinality(ActiveJobs(n)') \in Nat /\ Cardinality(PastActiveCheck(n)') \in Nat
        /\ Cardinality(ActiveJobs(n)) \in Nat /\ Cardinality(PastActiveCheck(n)) \in Nat
    BY <1>1, <1>3, SmallerTogether, FS_CardinalityType
  <2> QED BY <1>1, <2>1, <2>2 DEF ActivePerNetworkBound
<1>4. ASSUME NEW r \in Requests, Create(r) PROVE Bound
  <2>1. PICK j \in Jobs : /\ status[j] = "none"
                          /\ status' = [status EXCEPT ![j] = "queued"]
                          /\ net' = [net EXCEPT ![j] = call[r].net]
                          /\ call' = [call EXCEPT ![r] =
                                        [at |-> "enqueue", net |-> call[r].net, job |-> j]]
    BY <1>4 DEF Create
  <2>2. CASE call[r].net = n
    <3>1. j \notin ActiveJobs(n) /\ ActiveJobs(n)' = ActiveJobs(n) \cup {j}
      BY <1>2, <2>1, <2>2 DEF ActiveJobs, TypeOK
    <3>2. r \in PastActiveCheck(n) /\ PastActiveCheck(n)' = PastActiveCheck(n) \ {r}
      BY <1>2, <1>4, <2>1, <2>2 DEF Create, PastActiveCheck, TypeOK
    <3> QED BY <1>1, <3>1, <3>2, SwapTogether DEF ActivePerNetworkBound
  <2>3. CASE call[r].net # n
    <3>1. Shrinks
      BY <1>2, <2>1, <2>3 DEF ActiveJobs, PastActiveCheck, TypeOK
    <3> QED BY <1>3, <3>1
  <2> QED BY <2>2, <2>3
<1>5. ASSUME NEW r \in Requests, Admit(r) PROVE Bound
  <2>1. ActiveJobs(n)' = ActiveJobs(n) /\ PastActiveCheck(n)' \subseteq Requests
    BY <1>5 DEF Admit, Check, ActiveJobs, PastActiveCheck
  <2>2. ASSUME NEW from \in {"checkCooldown", "checkDepth"}, NEW refused,
               NEW to \in {"checkDepth", "create"}, Check(r, from, refused, to)
        PROVE  Shrinks
    <3>1. CASE refused
      BY <1>2, <2>1, <2>2, <3>1 DEF Check, PastActiveCheck, TypeOK, NoCall
    <3>2. CASE ~refused
      BY <1>2, <2>1, <2>2, <3>2 DEF Check, PastActiveCheck, TypeOK, NoCall
    <3> QED BY <3>1, <3>2
  <2>3. ASSUME Check(r, "checkActive", HasActive(call[r].net), "checkCooldown") PROVE Bound
    <3>1. CASE HasActive(call[r].net) \/ call[r].net # n
      <4>1. CASE HasActive(call[r].net)
        BY <1>2, <1>3, <2>1, <2>3, <4>1 DEF Check, PastActiveCheck, TypeOK, NoCall
      <4>2. CASE ~HasActive(call[r].net) /\ call[r].net # n
        BY <1>2, <1>3, <2>1, <2>3, <4>2 DEF Check, PastActiveCheck, TypeOK, NoCall
      <4> QED BY <3>1, <4>1, <4>2
    <3>2. CASE ~HasActive(call[r].net) /\ call[r].net = n
      <4>1. Cardinality(ActiveJobs(n)) = 0
        BY <3>2, FS_EmptySet DEF HasActive
      <4>2. /\ Cardinality(PastActiveCheck(n)') <= Cardinality(Requests)
            /\ Cardinality(PastActiveCheck(n)') \in Nat
        BY <2>1, FS_Subset, FS_CardinalityType
      <4> QED BY <1>1, <2>1, <4>1, <4>2
    <3> QED BY <3>1, <3>2
  <2> QED BY <1>3, <1>5, <2>2, <2>3 DEF Admit
<1>6. ASSUME NEW r \in Requests, NEW m \in Networks, Receive(r, m) PROVE Shrinks
  BY <1>2, <1>6 DEF Receive, ActiveJobs, PastActiveCheck, TypeOK
<1>7. ASSUME NEW r \in Requests, Enqueue(r) \/ RequestFails(r) PROVE Shrinks
  <2>1. call' = [call EXCEPT ![r] = NoCall] /\ UNCHANGED <<status, net>>
    BY <1>7 DEF Enqueue, RequestFails
  <2> QED BY <1>2, <2>1 DEF ActiveJobs, PastActiveCheck, TypeOK, NoCall
<1>8. ASSUME NEW j \in Jobs, MarkRunning(j) PROVE Shrinks
  <2>1. status[j] = "queued"
    BY <1>8 DEF MarkRunning, PlacesInv, StatusFollowsPlace, At
  <2> QED BY <1>2, <1>8, <2>1 DEF MarkRunning, ActiveJobs, PastActiveCheck, TypeOK
<1>9. ASSUME NEW j \in Jobs, LookUp(j) \/ MarkCompleted(j) \/ HandlerFails(j) PROVE Shrinks
  BY <1>2, <1>9 DEF LookUp, MarkCompleted, HandlerFails, ActiveJobs, PastActiveCheck, TypeOK
<1>10. ASSUME \/ \E m \in Networks : CooldownExpires(m)
              \/ Worker \/ WorkerAborts \/ Deliver \/ SubscriberReconnects \/ UNCHANGED vars
       PROVE  Shrinks
  BY <1>10 DEF CooldownExpires, Worker, Pop, StoreResult, RemoveFromActive, AddToCompleted,
               Publish, WorkerAborts, Deliver, SubscriberReconnects, vars, ActiveJobs,
               PastActiveCheck
<1>11. ASSUME ApiRestarts PROVE Shrinks
  BY <1>2, <1>11 DEF ApiRestarts, ActiveJobs, PastActiveCheck, NoCall, TypeOK
<1> HIDE DEF Bound, Shrinks
<1>12. Bound
  BY <1>3, <1>4, <1>5, <1>6, <1>7, <1>8, <1>9, <1>10, <1>11 DEF Next, Request, Handler
<1> QED BY <1>12 DEF Bound

\* A network never has more unfinished jobs than there are calls in flight; with
\* one call at a time it never has two, whatever fails.
THEOREM NetworkBounded == Spec => []ActivePerNetworkBound
<1>1. Init => ActivePerNetworkBound
  <2> SUFFICES ASSUME Init, NEW n \in Networks
               PROVE  Cardinality(ActiveJobs(n)) + Cardinality(PastActiveCheck(n))
                        <= Cardinality(Requests)
    BY DEF ActivePerNetworkBound
  <2>1. ActiveJobs(n) = {} /\ PastActiveCheck(n) = {}
    BY DEF Init, ActiveJobs, PastActiveCheck, NoCall
  <2> QED BY <2>1, FS_EmptySet, FS_CardinalityType, RequestsAssumption
<1>2. PlacesInv /\ ActivePerNetworkBound /\ [Next]_vars => ActivePerNetworkBound'
  BY NetworkStep DEF ActivePerNetworkBound
<1> QED BY <1>1, <1>2, PlacesInvariant, PTL DEF Spec

-----------------------------------------------------------------------------
(* With one call of discover at a time the documented limits hold exactly *)

\* A call that has passed both checks of its network: the network does not cool down.
Fresh ==
  \A r \in Requests : call[r].at \in {"checkDepth", "create"} => call[r].net \notin cooling

\* While the only call is past the active check of a network, no job of the network is
\* unfinished.
LEMMA NoneActive ==
  ASSUME Cardinality(Requests) = 1, PlacesInv, ActivePerNetworkBound, NEW r \in Requests,
         call[r].at \in {"checkCooldown", "checkDepth", "create"}
  PROVE  call[r].net \in Networks /\ ActiveJobs(call[r].net) = {}
<1> DEFINE n == call[r].net
<1>1. n \in Networks
  BY NoneAssumption DEF PlacesInv, TypeOK
<1>2. r \in PastActiveCheck(n)
  BY DEF PastActiveCheck
<1> HIDE DEF n
<1>3. /\ IsFiniteSet(ActiveJobs(n)) /\ Cardinality(ActiveJobs(n)) \in Nat
      /\ IsFiniteSet(PastActiveCheck(n)) /\ Cardinality(PastActiveCheck(n)) \in Nat
  BY JobsAssumption, RequestsAssumption, FS_Subset, FS_CardinalityType
  DEF ActiveJobs, PastActiveCheck
<1>4. Cardinality(PastActiveCheck(n)) # 0
  BY <1>2, <1>3, FS_EmptySet
<1>5. Cardinality(ActiveJobs(n)) = 0
  BY <1>1, <1>3, <1>4 DEF ActivePerNetworkBound
<1>6. ActiveJobs(n) = {}
  BY <1>3, <1>5, FS_EmptySet
<1> QED
  BY <1>1, <1>6 DEF n

\* A network only starts to cool down when a job of it completes.
LEMMA FreshStep ==
  ASSUME Cardinality(Requests) = 1, PlacesInv, ActivePerNetworkBound, Fresh, [Next]_vars
  PROVE  Fresh'
<1>1. TypeOK
  BY DEF PlacesInv
<1>2. ASSUME NEW r \in Requests, Admit(r) PROVE Fresh'
  <2>1. CASE Check(r, "checkActive", HasActive(call[r].net), "checkCooldown")
    BY <1>1, <2>1 DEF Check, Fresh, TypeOK, NoCall
  <2>2. CASE Check(r, "checkCooldown", call[r].net \in cooling, "checkDepth")
    <3>1. CASE call[r].net \in cooling
      BY <1>1, <2>2, <3>1 DEF Check, Fresh, TypeOK, NoCall
    <3>2. CASE call[r].net \notin cooling
      BY <1>1, <2>2, <3>2 DEF Check, Fresh, TypeOK, NoCall
    <3> QED BY <3>1, <3>2
  <2>3. CASE Check(r, "checkDepth", QueueFull, "create")
    <3>1. CASE QueueFull
      BY <1>1, <2>3, <3>1 DEF Check, Fresh, TypeOK, NoCall
    <3>2. CASE ~QueueFull
      BY <1>1, <2>3, <3>2 DEF Check, Fresh, TypeOK, NoCall
    <3> QED BY <3>1, <3>2
  <2> QED BY <1>2, <2>1, <2>2, <2>3 DEF Admit
<1>3. ASSUME NEW r \in Requests, NEW n \in Networks, Receive(r, n) PROVE Fresh'
  BY <1>1, <1>3 DEF Receive, Fresh, TypeOK
<1>4. ASSUME NEW r \in Requests, Create(r) PROVE Fresh'
  BY <1>1, <1>4 DEF Create, Fresh, TypeOK
<1>5. ASSUME NEW r \in Requests, Enqueue(r) \/ RequestFails(r) PROVE Fresh'
  <2>1. call' = [call EXCEPT ![r] = NoCall] /\ cooling' = cooling
    BY <1>5 DEF Enqueue, RequestFails
  <2> QED BY <1>1, <2>1 DEF Fresh, TypeOK, NoCall
<1>6. ASSUME NEW j \in Jobs, MarkCompleted(j) PROVE Fresh'
  <2>1. j \in ActiveJobs(net[j])
    BY <1>6 DEF MarkCompleted, PlacesInv, StatusFollowsPlace, At, ActiveJobs
  <2>2. \A r \in Requests : call[r].at \in {"checkDepth", "create"} => call[r].net # net[j]
    BY <2>1, NoneActive
  <2> QED BY <1>6, <2>2 DEF MarkCompleted, Fresh
<1>7. ASSUME NEW j \in Jobs, LookUp(j) \/ MarkRunning(j) \/ HandlerFails(j) PROVE Fresh'
  BY <1>7 DEF LookUp, MarkRunning, HandlerFails, Fresh
<1>8. ASSUME NEW n \in Networks, CooldownExpires(n) PROVE Fresh'
  BY <1>8 DEF CooldownExpires, Fresh
<1>9. ASSUME Worker \/ WorkerAborts \/ Deliver \/ SubscriberReconnects \/ UNCHANGED vars
      PROVE  Fresh'
  BY <1>9 DEF Worker, Pop, StoreResult, RemoveFromActive, AddToCompleted, Publish,
              WorkerAborts, Deliver, SubscriberReconnects, vars, Fresh
<1>10. ASSUME ApiRestarts PROVE Fresh'
  BY <1>10 DEF ApiRestarts, Fresh, NoCall
<1> QED
  BY <1>2, <1>3, <1>4, <1>5, <1>6, <1>7, <1>8, <1>9, <1>10 DEF Next, Request, Handler

\* Only Create makes a job, and the call that takes this step is past the checks.
LEMMA CreatedFresh ==
  ASSUME PlacesInv, Fresh, [Next]_vars
  PROVE  NoneCooling
<1> SUFFICES ASSUME NEW j \in Jobs, status[j] = "none", status'[j] = "queued"
             PROVE  net'[j] \notin cooling
  BY DEF NoneCooling
<1>1. TypeOK
  BY DEF PlacesInv
<1>2. ASSUME NEW r \in Requests, Create(r) PROVE net'[j] \notin cooling
  <2>1. PICK k \in Jobs : /\ status' = [status EXCEPT ![k] = "queued"]
                          /\ net' = [net EXCEPT ![k] = call[r].net]
    BY <1>2 DEF Create
  <2>2. j = k
    BY <1>1, <2>1 DEF TypeOK
  <2> QED BY <1>1, <1>2, <2>1, <2>2 DEF Create, Fresh, TypeOK
<1>3. ASSUME NEW k \in Jobs, Handler(k) \/ HandlerFails(k) PROVE FALSE
  BY <1>1, <1>3 DEF Handler, LookUp, MarkRunning, MarkCompleted, HandlerFails, TypeOK
<1>4. ASSUME NEW r \in Requests,
             (\E n \in Networks : Receive(r, n)) \/ Admit(r) \/ Enqueue(r) \/ RequestFails(r)
      PROVE  FALSE
  BY <1>4 DEF Receive, Admit, Check, Enqueue, RequestFails
<1>5. ASSUME \/ \E n \in Networks : CooldownExpires(n)
             \/ Worker \/ WorkerAborts \/ Deliver \/ SubscriberReconnects \/ ApiRestarts
             \/ UNCHANGED vars
      PROVE  FALSE
  BY <1>5 DEF CooldownExpires, Worker, Pop, StoreResult, RemoveFromActive, AddToCompleted,
              Publish, WorkerAborts, Deliver, SubscriberReconnects, ApiRestarts, vars
<1> QED
  BY <1>2, <1>3, <1>4, <1>5 DEF Next, Request

\* The two counts with one call are the limits of the design.
LEMMA LimitsOfOne ==
  ASSUME Cardinality(Requests) = 1, QueueDepthBound, ActivePerNetworkBound
  PROVE  OneScanPerNetwork /\ QueueDepthLimit
<1> USE JobsAssumption, RequestsAssumption, DepthAssumption
<1>1. ASSUME NEW n \in Networks PROVE Cardinality(ActiveJobs(n)) <= 1
  <2>1. Cardinality(ActiveJobs(n)) \in Nat /\ Cardinality(PastActiveCheck(n)) \in Nat
    BY FS_Subset, FS_CardinalityType DEF ActiveJobs, PastActiveCheck
  <2> QED BY <2>1 DEF ActivePerNetworkBound
<1>2. Cardinality(PendingJobs) \in Nat /\ Cardinality(PastDepthCheck) \in Nat
  BY FS_Subset, FS_CardinalityType DEF PendingJobs, PastDepthCheck
<1> QED
  BY <1>1, <1>2 DEF OneScanPerNetwork, QueueDepthLimit, QueueDepthBound

\* ScannerService.discover serves one call at a time: whatever worker, handlers and
\* faults do, a network never has two unfinished jobs, the queue is never deeper than
\* MAX_QUEUE_DEPTH, and no job is created for a network that cools down.  Calls that
\* overlap are all that the limits are lost to.
THEOREM LimitsHoldForOneCall ==
  ASSUME Cardinality(Requests) = 1
  PROVE  Spec => [](OneScanPerNetwork /\ QueueDepthLimit) /\ [][NoneCooling]_vars
<1>1. QueueDepthBound /\ ActivePerNetworkBound => OneScanPerNetwork /\ QueueDepthLimit
  BY LimitsOfOne
<1>2. Init => Fresh
  BY DEF Init, Fresh, NoCall
<1>3. PlacesInv /\ ActivePerNetworkBound /\ Fresh /\ [Next]_vars => Fresh'
  BY FreshStep
<1>4. PlacesInv /\ Fresh /\ [Next]_vars => [NoneCooling]_vars
  BY CreatedFresh
<1> QED
  BY <1>1, <1>2, <1>3, <1>4, PlacesInvariant, DepthBounded, NetworkBounded, PTL DEF Spec
=============================================================================
