------------------------------ MODULE GroupPage ------------------------------
(***************************************************************************)
(* The page of one group (app/(dashboard)/groups/[id]): the things in it,  *)
(* and the dialog that assigns others.  A thing keeps the array of its     *)
(* groups, so the page assigns by one PATCH for each selected thing, all   *)
(* in parallel, each with the array of a copy it read when the dialog was  *)
(* opened.  Other windows (ThingPage) change these arrays meanwhile.       *)
(***************************************************************************)
EXTENDS Naturals, FiniteSets

CONSTANTS Things,
          Here,       \* the group of the page
          There,      \* another group
          Limit,      \* members the page reads: one page, and there is no other
          MaxOffered, \* things the dialog reads
          MaxReads,   \* bound: lists the page waits for at once
          MaxOpens,   \* bound: times the dialog is opened
          MaxOthers   \* bound: what other windows write

TwoGroups == Here # There
ListLimits == {Limit, MaxOffered} \subseteq Nat \ {0} /\ IsFiniteSet(Things)
GroupBounds == {MaxReads, MaxOpens, MaxOthers} \subseteq Nat

VARIABLES groupIds,   \* the stored groups of each thing that exists
          things,     \* the members the page shows
          allThings,  \* the copies the dialog offers
          assignOpen, \* the dialog is open
          loadingAllThings, \* and spins instead of listing them
          selected,   \* the things ticked in it
          reads,      \* lists asked for, and answered once got # "none"
          patch,      \* of each thing being assigned, how far its PATCH is
          assigning,  \* the flag of the assign button
          assigned,   \* things a finished assignment reported, not written by others since
          calm,       \* no list has been overtaken or lost, no other window has written
          opened, others \* openings and foreign writes so far

vars == <<groupIds, things, allThings, assignOpen, loadingAllThings, selected, reads, patch,
         assigning, assigned, calm, opened, others>>

Registered == DOMAIN groupIds
Members == {t \in Registered : Here \in groupIds[t]}
NoList == [t \in {} |-> {}]
Keep(f, S) == [t \in DOMAIN f \cap S |-> f[t]]
Patching == {t \in Things : patch[t].at \notin {"no", "left"}}
NoPatch == [at |-> "no", body |-> {}]

\* P is a first page of S.  It is the first by name; names are not modelled, so any order
\* is possible, and another one at each read.
IsFirstPage(P, S, limit) ==
  P \subseteq S /\ Cardinality(P) <= limit /\ (P = S \/ Cardinality(P) = limit)

-----------------------------------------------------------------------------
(* The page *)

Ask(what) == reads \cup {[what |-> what, known |-> IF what = "all" THEN things ELSE {},
                          got |-> "none", data |-> NoList]}
Room == Cardinality(reads) < MaxReads
Rereading == \E r \in reads : r.what = "assigned"

\* The dialog, which covers the page, opens with nothing ticked and nothing listed; what
\* the page shows now is what it will leave out.
openAssignModal ==
  /\ ~assignOpen /\ Room /\ opened < MaxOpens
  /\ opened' = opened + 1
  /\ reads' = Ask("all")
  /\ assignOpen' = TRUE /\ loadingAllThings' = TRUE /\ selected' = {}
  /\ calm' = (calm /\ reads = {})
  /\ UNCHANGED <<groupIds, things, allThings, patch, assigning, assigned, others>>

toggleThingSelection(t) ==
  /\ assignOpen /\ ~loadingAllThings /\ t \in DOMAIN allThings
  /\ selected' = IF t \in selected THEN selected \ {t} ELSE selected \cup {t}
  /\ UNCHANGED <<groupIds, things, allThings, assignOpen, loadingAllThings, reads, patch,
                 assigning, assigned, calm, opened, others>>

BodyAlone(t) == {Here}  \* mutant: forgets the groups of the copy

CloseAssign ==
  /\ assignOpen
  /\ assignOpen' = FALSE /\ selected' = {}
  /\ UNCHANGED <<groupIds, things, allThings, loadingAllThings, reads, patch, assigning, assigned,
                 calm, opened, others>>

\* What is still on its way for a failed assignment goes on, unless the thing is assigned again.
Left(t) == IF patch[t].at = "left" THEN patch[t] ELSE NoPatch

\* A selected thing that is no longer offered is skipped; one whose copy is in the group
\* needs no request.
Body(t) == allThings[t] \cup {Here}
ToPatch == {t \in selected \cap DOMAIN allThings : Here \notin allThings[t]}

handleAssignThings ==
  /\ assignOpen /\ selected # {} /\ ~assigning
  /\ assigning' = TRUE
  /\ patch' = [t \in Things |-> IF t \in ToPatch THEN [at |-> "sent", body |-> Body(t)] ELSE Left(t)]
  /\ calm' = (calm /\ reads = {})
  /\ UNCHANGED <<groupIds, things, allThings, assignOpen, loadingAllThings, selected, reads,
                 assigned, opened, others>>

\* Promise.all: every request went well; the dialog closes, and the button waits for the
\* members to be read again.
Assigned ==
  /\ assigning /\ ~Rereading /\ Room
  /\ \A t \in Patching : patch[t].at \in {"good", "over"}
  /\ assignOpen' = FALSE /\ selected' = {}
  /\ assigned' = assigned \cup {t \in Patching : patch[t].at = "good"}
  /\ patch' = [t \in Things |-> Left(t)]
  /\ reads' = Ask("assigned")
  /\ UNCHANGED <<groupIds, things, allThings, loadingAllThings, assigning, calm, opened, others>>

\* The first that fails ends the handler: the others go on and nothing is read again.
AssignFailed ==
  /\ assigning /\ ~Rereading
  /\ \E t \in Patching : patch[t].at = "bad"
  /\ assigning' = FALSE
  /\ patch' = [t \in Things |-> IF patch[t].at = "sent" THEN [patch[t] EXCEPT !.at = "left"] ELSE Left(t)]
  /\ calm' = FALSE
  /\ UNCHANGED <<groupIds, things, allThings, assignOpen, loadingAllThings, selected, reads,
                 assigned, opened, others>>

\* Whatever the answer: the spinner of the list stops, also that of a later opening, and
\* the handler that read the members again ends.
Settle(r) ==
  /\ loadingAllThings' = (loadingAllThings /\ r.what # "all")
  /\ assigning' = (assigning /\ r.what # "assigned")

\* The answer of a list: the things read for the dialog but those shown when it was asked
\* for, or the members.  A member past the first page is not shown, and so is offered.
Listed(r) ==
  /\ r \in reads /\ r.got = "good"
  /\ reads' = reads \ {r}
  /\ IF r.what = "all"
     THEN allThings' = Keep(r.data, Things \ r.known) /\ things' = things
     ELSE things' = DOMAIN r.data /\ allThings' = allThings
  /\ Settle(r)
  /\ UNCHANGED <<groupIds, assignOpen, selected, patch, assigned, calm, opened, others>>

ListFailed(r) ==
  /\ r \in reads /\ r.got = "none"
  /\ reads' = reads \ {r}
  /\ calm' = FALSE
  /\ Settle(r)
  /\ UNCHANGED <<groupIds, things, allThings, assignOpen, selected, patch, assigned, opened,
                 others>>

-----------------------------------------------------------------------------
(* The API and the other windows *)

\* ThingsRepository.findAll and findByGroupId: the first page.
Read(r) ==
  /\ r \in reads /\ r.got = "none"
  /\ \E P \in SUBSET Registered :
       /\ IF r.what = "all" THEN IsFirstPage(P, Registered, MaxOffered)
                            ELSE IsFirstPage(P, Members, Limit)
       /\ reads' = (reads \ {r}) \cup
            {[r EXCEPT !.got = "good",
                       !.data = IF r.what = "all" THEN Keep(groupIds, P) ELSE [t \in P |-> {}]]}
  /\ UNCHANGED <<groupIds, things, allThings, assignOpen, loadingAllThings, selected, patch,
                 assigning, assigned, calm, opened, others>>

Stored(t, groups) == [groupIds EXCEPT ![t] = groups]

\* ThingsRepository.update replaces the array.
Update(t) ==
  /\ patch[t].at \in {"sent", "left"}
  /\ groupIds' = IF t \in Registered THEN Stored(t, patch[t].body) ELSE groupIds
  /\ patch' = [patch EXCEPT ![t] =
       IF patch[t].at = "left" THEN NoPatch
       ELSE [@ EXCEPT !.at = IF t \in Registered THEN "good" ELSE "bad"]]
  /\ UNCHANGED <<things, allThings, assignOpen, loadingAllThings, selected, reads, assigning,
                 assigned,
                 calm, opened, others>>

\* A request is lost before it reaches the API.
Lost(t) ==
  /\ patch[t].at \in {"sent", "left"}
  /\ patch' = [patch EXCEPT ![t] = IF patch[t].at = "left" THEN NoPatch ELSE [@ EXCEPT !.at = "bad"]]
  /\ UNCHANGED <<groupIds, things, allThings, assignOpen, loadingAllThings, selected, reads,
                 assigning, assigned, calm, opened, others>>

\* Another window saves a thing's groups, or deletes the thing.
OtherWindow(t) ==
  /\ others < MaxOthers /\ t \in Registered
  /\ others' = others + 1
  /\ \/ \E groups \in SUBSET {Here, There} : groups # groupIds[t] /\ groupIds' = Stored(t, groups)
     \/ groupIds' = Keep(groupIds, Things \ {t})
  /\ assigned' = assigned \ {t}
  /\ patch' = [patch EXCEPT ![t].at = IF @ = "good" THEN "over" ELSE @]
  /\ calm' = FALSE
  /\ UNCHANGED <<things, allThings, assignOpen, loadingAllThings, selected, reads, assigning,
                 opened>>

-----------------------------------------------------------------------------
Init ==
  /\ groupIds \in [Things -> {{}, {There}}]
  /\ things = {} /\ selected = {} /\ assigned = {}
  /\ allThings = NoList
  /\ reads = {[what |-> "members", known |-> {}, got |-> "none", data |-> NoList]}
  /\ patch = [t \in Things |-> NoPatch]
  /\ assigning = FALSE /\ assignOpen = FALSE /\ loadingAllThings = FALSE /\ calm = TRUE
  /\ opened = 0 /\ others = 0

Next ==
  \/ openAssignModal \/ CloseAssign \/ handleAssignThings \/ Assigned \/ AssignFailed
  \/ \E t \in Things : toggleThingSelection(t) \/ Update(t) \/ Lost(t) \/ OtherWindow(t)
  \/ \E r \in reads : Listed(r) \/ ListFailed(r) \/ Read(r)

Spec == Init /\ [][Next]_vars

-----------------------------------------------------------------------------
(* Properties *)

Groups == {Here, There}
IsList(f) == DOMAIN f \subseteq Things /\ \A t \in DOMAIN f : f[t] \subseteq Groups

\* Every variable holds a value of its kind, and every request puts its thing in the group.
GroupPageTypeOK ==
  /\ IsList(groupIds) /\ IsList(allThings)
  /\ things \subseteq Things /\ selected \subseteq Things /\ assigned \subseteq Things
  /\ \A r \in reads : r.got \in {"none", "good"} /\ IsList(r.data) /\ r.known \subseteq Things
  /\ \A t \in Things : /\ patch[t].at \in {"no", "sent", "left", "good", "over", "bad"}
                       /\ patch[t].body \subseteq Groups
                       /\ patch[t].at = "no" \/ Here \in patch[t].body
  /\ {assigning, assignOpen, loadingAllThings, calm} \subseteq BOOLEAN
  /\ loadingAllThings => \E r \in reads : r.what = "all"
  /\ opened \in 0..MaxOpens /\ others \in 0..MaxOthers

\* What the page reported as assigned is in the group, until another window takes it
\* out: also when requests of an earlier assignment that failed are still on their way.
AssignedStays == \A t \in assigned : t \in Registered /\ Here \in groupIds[t]

\* As long as no other window writes, an assignment changes nothing but the membership
\* in this group, though it replaces whole arrays by copies read long before.
OnlyHereChanges ==
  others' = 0 => \A t \in Registered : groupIds'[t] \ {Here} = groupIds[t] \ {Here}

\* With nobody else writing, and one list at a time, none lost, the page shows the first
\* page of the members once it has settled: all of them if they fit.
MembersShown == calm /\ reads = {} /\ ~assigning => IsFirstPage(things, Members, Limit)

=============================================================================
