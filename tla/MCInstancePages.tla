-------------------------- MODULE MCInstancePages ---------------------------
(***************************************************************************)
(* Instance, the thing types and the page of a group, checked in one run:  *)
(* a behaviour is one of a single module, chosen at the start.             *)
(***************************************************************************)
EXTENDS Instance, TLC

CONSTANTS Slots, Ids, Slugs, Seeds, Backups, Other, None, New, MaxStarts, MaxRestarts, \* TypesPage
          Here, There, Limit, MaxOffered, MaxReads, MaxOpens, MaxOthers \* GroupPage

VARIABLES which,  \* the module that runs
          types, listening, shown, modal, busy, itsCall, file, overridden, calm, starts,
          restarts, groupIds, things, allThings, assignOpen, loadingAllThings, selected,
          reads, patch, assigning, assigned, opened, others

\* A backup of another instance, where a user's own type holds the slug of the seed.
OneBackup == {[n \in {"b1"} |-> [slug |-> "router", isSystem |-> FALSE, typed |-> New]]}

Types == INSTANCE TypesPage WITH
  Calls <- Slots \cup {Other}, call <- itsCall
Group == INSTANCE GroupPage WITH
  Things <- Names

ASSUME GroupAssumption == Group!TwoGroups /\ Group!ListLimits /\ Group!GroupBounds
ASSUME TypesAssumption == Types!IdsExist /\ Types!BackupsExist /\ Types!TypesBounds

\* A variable of a module that does not run.
Off == "off"

AllInit ==
  /\ Init
  /\ \/ /\ which = "Instance"
        /\ types = Off /\ listening = Off /\ shown = Off /\ modal = Off /\ busy = Off
        /\ itsCall = Off /\ file = Off /\ overridden = Off /\ calm = Off /\ starts = Off
        /\ restarts = Off /\ groupIds = Off /\ things = Off /\ allThings = Off /\ assignOpen = Off
        /\ loadingAllThings = Off /\ selected = Off /\ reads = Off /\ patch = Off /\ assigning = Off
        /\ assigned = Off /\ opened = Off /\ others = Off
     \/ /\ which = "Types" /\ Types!Init
        /\ groupIds = Off /\ things = Off /\ allThings = Off /\ assignOpen = Off /\ loadingAllThings = Off
        /\ selected = Off /\ reads = Off /\ patch = Off /\ assigning = Off /\ assigned = Off
        /\ opened = Off /\ others = Off
     \/ /\ which = "Group" /\ Group!Init
        /\ types = Off /\ listening = Off /\ shown = Off /\ modal = Off /\ busy = Off
        /\ itsCall = Off /\ file = Off /\ overridden = Off /\ starts = Off /\ restarts = Off

AllNext ==
  /\ UNCHANGED which
  /\ \/ /\ which = "Instance" /\ Next
        /\ UNCHANGED <<types, listening, shown, modal, busy, itsCall, file, overridden, calm,
                       starts, restarts, groupIds, things, allThings, assignOpen,
                       loadingAllThings, selected, reads, patch, assigning, assigned, opened,
                       others>>
     \/ /\ which = "Types" /\ Types!Next /\ UNCHANGED vars
        /\ UNCHANGED <<groupIds, things, allThings, assignOpen, loadingAllThings, selected,
                       reads, patch, assigning, assigned, opened, others>>
     \/ /\ which = "Group" /\ Group!Next /\ UNCHANGED vars
        /\ UNCHANGED <<types, listening, shown, modal, busy, itsCall, file, overridden,
                       starts, restarts>>

allVars == <<vars, which, types, listening, shown, modal, busy, itsCall, file, overridden, calm,
                    starts, restarts, groupIds, things, allThings, assignOpen,
                    loadingAllThings, selected, reads, patch, assigning, assigned, opened,
                    others>>

AllSpec == AllInit /\ [][AllNext]_allVars

Symmetry == Permutations(Setups) \cup Permutations(Names) \cup Permutations(Ids \ {"b1"})

-----------------------------------------------------------------------------
(* Properties: their parts are those of the modules, where they are explained. *)

\* Every variable holds a value of its kind, and no button waits for a handler that is
\* not under way.
PagesTypeOK ==
  /\ TypeOK
  /\ which = "Types" => Types!TypesPageTypeOK
  /\ which = "Group" => Group!GroupPageTypeOK

\* A page used alone, one handler at a time, none failed, shows what is stored once it
\* settles, and what it reported as assigned is.
PagesShow ==
  /\ which = "Types" => Types!TypesShown
  /\ which = "Group" => Group!MembersShown
  /\ which = "Group" => Group!AssignedStays

\* Every slug names at most one type: ThingTypesService checks and writes in awaits of
\* their own, while two administrators and a restore write.
SlugsNameTypes == which = "Types" => Types!SlugsUnique

\* A system type keeps existing under its slug, unless the API is asked to rename it or
\* to restore the types.
SystemTypesKept == [][which = "Types" => Types!KeepsSystemTypes]_allVars

\* What the one dialog was given for a type never lands in another.
TypedForIt == which = "Types" => Types!TypedForIt

\* An assignment changes no group but that of its page, though it replaces whole
\* arrays.
OtherGroupsKept == [][which = "Group" => Group!OnlyHereChanges]_allVars

=============================================================================
