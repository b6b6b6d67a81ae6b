------------------------------ MODULE TypesPage ------------------------------
(***************************************************************************)
(* The thing types: the seeds ThingTypesService creates whenever the API   *)
(* starts, its checks in several awaits, a restore that replaces the types *)
(* meanwhile, and the tab of the settings page that lists, creates, edits  *)
(* and deletes types from the copy the application keeps                   *)
(* (ThingTypesContext).  A slot of Calls is a handler of a page with the   *)
(* request it waits for; Other is another administrator, by the pages or   *)
(* by the API alone, of whom only the requests matter.                     *)
(***************************************************************************)
EXTENDS Naturals, FiniteSets

CONSTANTS Ids,         \* identities of types
          Slugs,
          Seeds,       \* SEED_TYPES: the slugs of its types
          Backups,     \* the types of the backups there are
          Calls, Other, None, New,
          MaxStarts,   \* bound: requests
          MaxRestarts  \* bound: restarts of the API

Types == [slug : Slugs, isSystem : BOOLEAN, typed : Ids \cup {New}]
IsList(f) == DOMAIN f \subseteq Ids /\ \A n \in DOMAIN f : f[n] \in Types
TypedFor(f) == \A n \in DOMAIN f : f[n].typed \in IF f[n].isSystem THEN {n} ELSE {n, New}

IdsExist == None \notin Ids /\ New \notin Ids /\ Seeds \subseteq Slugs
BackupsExist == \A f \in Backups : IsList(f) /\ TypedFor(f) /\ f # << >>
TypesBounds == {MaxStarts, MaxRestarts} \subseteq Nat

VARIABLES types,     \* the stored types: slug, isSystem, and what the rest was typed for
          listening, \* the API has started
          shown,     \* thingTypes: the copy of the application
          modal,     \* the dialog: open, editingType and typeForm
          busy,      \* the buttons that wait
          call,
          file,      \* what a restore that cleared the types has yet to insert
          overridden, \* the API was asked to rename a system type, or to restore the types
          calm,      \* one handler at a time, none failed, nobody else has written
          starts, restarts

vars == <<types, listening, shown, modal, busy, call, file, overridden, calm, starts, restarts>>

Idle == [at |-> "idle", req |-> "none", id |-> None, body |-> None, flag |-> "none", got |-> << >>]
At(c, at, req) == call[c].at = at /\ call[c].req = req
Busy == {c \in Calls : call[c].at # "idle"}
Go(c, at) == call' = [call EXCEPT ![c].at = at]
With(f, n, x) == [k \in DOMAIN f \cup {n} |-> IF k = n THEN x ELSE f[k]]
Without(f, n) == [k \in DOMAIN f \ {n} |-> f[k]]
Holds(slug) == {k \in DOMAIN types : types[k].slug = slug}

\* An identity is never given twice.
Known == DOMAIN types \cup DOMAIN shown \cup {modal.editing}
         \cup (UNION {{call[c].id} \cup DOMAIN call[c].got : c \in Calls})
         \cup (UNION {DOMAIN f : f \in Backups})
Fresh == Ids \ Known

-----------------------------------------------------------------------------
(* The page *)

openKeepsEditing ==  \* mutant: forgets setEditingType(null)
  /\ \E slug \in Slugs : modal' = [modal EXCEPT !.open = TRUE, !.form = [slug |-> slug, typed |-> New]]
  /\ UNCHANGED <<types, listening, shown, busy, call, file, overridden, calm, starts, restarts>>

\* The name typed for a new type gives its slug, or the user types another.
openCreateTypeModal ==
  /\ \E slug \in Slugs : modal' = [open |-> TRUE, editing |-> None, form |-> [slug |-> slug, typed |-> New]]
  /\ UNCHANGED <<types, listening, shown, busy, call, file, overridden, calm, starts, restarts>>

SlugsOfRow(n) == Slugs  \* mutant: the field is not disabled

\* Neither the name nor the slug of a system type can be typed.
SlugFor(n) == IF shown[n].isSystem THEN {shown[n].slug} ELSE Slugs

\* The dialog takes its fields from the row, and the user types.
openEditTypeModal(n) ==
  /\ n \in DOMAIN shown
  /\ \E slug \in SlugFor(n) :
       modal' = [open |-> TRUE, editing |-> n, form |-> [slug |-> slug, typed |-> n]]
  /\ UNCHANGED <<types, listening, shown, busy, call, file, overridden, calm, starts, restarts>>

Start(c, kind, n, body) ==
  /\ call[c].at = "idle" /\ starts < MaxStarts
  /\ starts' = starts + 1
  /\ call' = [call EXCEPT ![c] = [Idle EXCEPT !.at = "sent", !.req = kind, !.id = n, !.body = body,
                                 !.flag = IF kind = "delete" THEN "delete" ELSE "save"]]
  /\ calm' = (calm /\ Busy = {} /\ c # Other)
  /\ UNCHANGED <<types, listening, shown, modal, file, restarts>>

\* A button waits for its handler; a reopened dialog may be another's.
handleCreateOrUpdateType(c) ==
  /\ c # Other /\ modal.open /\ "save" \notin busy
  /\ busy' = busy \cup {"save"} /\ UNCHANGED overridden
  /\ IF modal.editing = None
     THEN \E n \in Fresh : Start(c, "create", n, modal.form)
     ELSE Start(c, "update", modal.editing, modal.form)

\* The button of a system type is disabled.
handleDeleteType(c) ==
  /\ c # Other /\ "delete" \notin busy
  /\ \E n \in DOMAIN shown : ~shown[n].isSystem /\ Start(c, "delete", n, None)
  /\ busy' = busy \cup {"delete"} /\ UNCHANGED overridden

\* Another administrator, of what the API holds.  It is only the page that keeps the slug
\* of a system type.
OtherAdmin ==
  /\ \/ \E n \in DOMAIN types : Start(Other, "delete", n, None) /\ UNCHANGED overridden
     \/ \E n \in DOMAIN types, slug \in Slugs :
          /\ overridden' = (overridden \/ (types[n].isSystem /\ slug # types[n].slug))
          /\ Start(Other, "update", n, [slug |-> slug, typed |-> n])
     \/ \E n \in Fresh, slug \in Slugs :
          Start(Other, "create", n, [slug |-> slug, typed |-> New]) /\ UNCHANGED overridden
  /\ UNCHANGED busy

-----------------------------------------------------------------------------
(* The API *)

ApiUnchanged ==
  UNCHANGED <<listening, shown, modal, busy, file, overridden, calm, starts, restarts>>

\* create and update look for the slug first; only the type itself may hold it.
CheckSlug(c) ==
  /\ listening /\ (At(c, "sent", "create") \/ At(c, "sent", "update"))
  /\ LET mine == IF call[c].req = "update" THEN {call[c].id} ELSE {}
     IN Go(c, IF Holds(call[c].body.slug) \subseteq mine THEN "checked" ELSE "bad")
  /\ ApiUnchanged /\ UNCHANGED types

createUnindexed(c) ==  \* mutant: trusts the check, without the index
  /\ At(c, "checked", "create")
  /\ types' = With(types, call[c].id, [slug |-> call[c].body.slug, isSystem |-> FALSE,
                                       typed |-> call[c].body.typed])
  /\ Go(c, "good")
  /\ ApiUnchanged

\* The index refuses a slug that was taken since.
create(c) ==
  /\ At(c, "checked", "create")
  /\ IF Holds(call[c].body.slug) = {}
     THEN /\ types' = With(types, call[c].id, [slug |-> call[c].body.slug, isSystem |-> FALSE,
                                               typed |-> call[c].body.typed])
          /\ Go(c, "good")
     ELSE Go(c, "bad") /\ UNCHANGED types
  /\ ApiUnchanged

update(c) ==
  /\ At(c, "checked", "update")
  /\ LET n == call[c].id IN
     IF n \in DOMAIN types /\ Holds(call[c].body.slug) \subseteq {n}
     THEN /\ types' = [types EXCEPT ![n] = [@ EXCEPT !.slug = call[c].body.slug, !.typed = call[c].body.typed]]
          /\ Go(c, "good")
     ELSE Go(c, "bad") /\ UNCHANGED types
  /\ ApiUnchanged

\* delete reads the type first, and refuses a system type.
CheckSystem(c) ==
  /\ listening /\ At(c, "sent", "delete")
  /\ LET n == call[c].id
     IN Go(c, IF n \in DOMAIN types /\ ~types[n].isSystem THEN "checked" ELSE "bad")
  /\ ApiUnchanged /\ UNCHANGED types

delete(c) ==
  /\ At(c, "checked", "delete")
  /\ types' = Without(types, call[c].id)
  /\ Go(c, "good")
  /\ ApiUnchanged

findAll(c) ==
  /\ listening /\ At(c, "sent", "list")
  /\ call' = [call EXCEPT ![c] = [@ EXCEPT !.at = "good", !.got = types]]
  /\ ApiUnchanged /\ UNCHANGED types

\* A request or its answer is lost.
Fails(c) ==
  /\ call[c].at \in {"sent", "good"} /\ c # Other
  /\ Go(c, "bad")
  /\ calm' = FALSE
  /\ UNCHANGED <<types, listening, shown, modal, busy, file, overridden, starts, restarts>>

\* BackupService.restore, one at a time: it clears the types, and inserts those of its file
\* one by one.  The index refuses one whose slug was taken since, which ends the restore.
restoreClears ==
  /\ listening /\ file = << >> /\ starts < MaxStarts
  /\ starts' = starts + 1
  /\ file' \in Backups
  /\ types' = << >>
  /\ overridden' = TRUE /\ calm' = FALSE
  /\ UNCHANGED <<listening, shown, modal, busy, call, restarts>>

restoreInserts(n) ==
  /\ n \in DOMAIN file
  /\ IF Holds(file[n].slug) = {}
     THEN types' = With(types, n, file[n]) /\ file' = Without(file, n)
     ELSE file' = << >> /\ UNCHANGED types
  /\ UNCHANGED <<listening, shown, modal, busy, call, overridden, calm, starts, restarts>>

-----------------------------------------------------------------------------
(* The start of the API *)

\* Every call it was serving fails, a restore stays where it was.
Restart ==
  /\ restarts < MaxRestarts
  /\ restarts' = restarts + 1
  /\ listening' = FALSE
  /\ call' = [c \in Calls |-> IF call[c].at = "checked" THEN [call[c] EXCEPT !.at = "bad"] ELSE call[c]]
  /\ file' = << >> /\ calm' = FALSE
  /\ UNCHANGED <<types, shown, modal, busy, overridden, starts>>

\* onModuleInit: the next seed whose slug no type holds, a user's own type included.
Seed(slug) ==
  /\ ~listening /\ Holds(slug) = {}
  /\ \E n \in Fresh : types' = With(types, n, [slug |-> slug, isSystem |-> TRUE, typed |-> n])
  /\ UNCHANGED <<listening, shown, modal, busy, call, file, overridden, calm, starts, restarts>>

\* The API listens once onModuleInit has ended.
Listen ==
  /\ ~listening /\ \A slug \in Seeds : Holds(slug) # {}
  /\ listening' = TRUE
  /\ UNCHANGED <<types, shown, modal, busy, call, file, overridden, calm, starts, restarts>>

-----------------------------------------------------------------------------
(* The page meets an answer *)

SavedAsIs(c) ==  \* mutant: the types are not read again
  /\ c # Other /\ call[c].at = "good" /\ call[c].req # "list"
  /\ modal' = IF call[c].req = "delete" THEN modal ELSE [modal EXCEPT !.open = FALSE]
  /\ busy' = busy \ {call[c].flag}
  /\ call' = [call EXCEPT ![c] = Idle]
  /\ UNCHANGED <<types, listening, shown, file, overridden, calm, starts, restarts>>

\* A saved form closes the dialog, whichever type it is open for by now, and the types are
\* read again.
Saved(c) ==
  /\ c # Other /\ call[c].at = "good" /\ call[c].req # "list"
  /\ modal' = IF call[c].req = "delete" THEN modal ELSE [modal EXCEPT !.open = FALSE]
  /\ call' = [call EXCEPT ![c] = [Idle EXCEPT !.at = "sent", !.req = "list", !.flag = call[c].flag]]
  /\ UNCHANGED <<types, listening, shown, busy, file, overridden, calm, starts, restarts>>

\* fetchTypes: a failure is ignored, the copy stays.
fetchTypes(c) ==
  /\ call[c].at \in {"good", "bad"} /\ call[c].req = "list"
  /\ shown' = IF call[c].at = "good" THEN call[c].got ELSE shown
  /\ busy' = busy \ {call[c].flag}
  /\ call' = [call EXCEPT ![c] = Idle]
  /\ UNCHANGED <<types, listening, modal, file, overridden, calm, starts, restarts>>

\* A toast; the dialog stays.
Failed(c) ==
  /\ c # Other /\ call[c].at = "bad" /\ call[c].req # "list"
  /\ busy' = busy \ {call[c].flag}
  /\ call' = [call EXCEPT ![c] = Idle]
  /\ UNCHANGED <<types, listening, shown, modal, file, overridden, calm, starts, restarts>>

OtherAnswered ==
  /\ call[Other].at \in {"good", "bad"}
  /\ call' = [call EXCEPT ![Other] = Idle]
  /\ UNCHANGED <<types, listening, shown, modal, busy, file, overridden, calm, starts, restarts>>

-----------------------------------------------------------------------------
\* The first start, or that of a version with new seeds: there may be types of an earlier
\* version, types renamed since, and types of users, which may hold the slug of a seed.  The
\* page opens once the API listens, its types read.
Init ==
  /\ \E S \in SUBSET Ids : \E slug \in [S -> Slugs], system \in SUBSET S :
       /\ \A m, n \in S : slug[m] = slug[n] => m = n
       /\ types = [n \in S |-> [slug |-> slug[n], isSystem |-> n \in system, typed |-> n]]
  /\ listening = FALSE
  /\ shown = << >>
  /\ modal = [open |-> FALSE, editing |-> None, form |-> [slug |-> None, typed |-> None]]
  /\ busy = {} /\ file = << >> /\ overridden = FALSE /\ calm = TRUE
  /\ \E m \in Calls \ {Other} :
       call = [c \in Calls |-> IF c = m THEN [Idle EXCEPT !.at = "sent", !.req = "list"] ELSE Idle]
  /\ starts = 0 /\ restarts = 0

Click(c) == handleCreateOrUpdateType(c) \/ handleDeleteType(c)
Serve(c) == \/ CheckSlug(c) \/ create(c) \/ update(c) \/ CheckSystem(c) \/ delete(c)
            \/ findAll(c) \/ Fails(c)
Meet(c) == Saved(c) \/ fetchTypes(c) \/ Failed(c)

Next == \/ \E c \in Calls : Click(c) \/ Serve(c) \/ Meet(c)
        \/ openCreateTypeModal \/ \E n \in Ids : openEditTypeModal(n)
        \/ OtherAdmin \/ OtherAnswered
        \/ restoreClears \/ (\E n \in Ids : restoreInserts(n))
        \/ Restart \/ (\E slug \in Seeds : Seed(slug)) \/ Listen

Spec == Init /\ [][Next]_vars

-----------------------------------------------------------------------------
(* Properties *)

Forms == [slug : Slugs \cup {None}, typed : Ids \cup {New, None}]

\* Every variable holds a value of its kind, and a button waits only for its own handler.
TypesPageTypeOK ==
  /\ IsList(types) /\ IsList(shown) /\ IsList(file)
  /\ modal \in [open : BOOLEAN, editing : Ids \cup {None}, form : Forms]
  /\ {listening, overridden, calm} \subseteq BOOLEAN
  /\ \A b \in busy : \E c \in Busy \ {Other} : call[c].flag = b
  /\ starts \in 0..MaxStarts /\ restarts \in 0..MaxRestarts

\* A thing names its type by the slug: no two types have one, though the check and the
\* write are two awaits, and two administrators and a restore write.
SlugsUnique == \A slug \in Slugs : Cardinality(Holds(slug)) <= 1

\* A type of the system keeps existing under its slug, from which things name it: no
\* dialog of any age, no save and no delete of a page changes that, and a start adds to
\* them.  Only a request made to the API alone can rename one, only a restore remove it.
KeepsSystemTypes ==
  ~overridden' => \A n \in DOMAIN types : types[n].isSystem =>
    n \in DOMAIN types' /\ types'[n].isSystem /\ types'[n].slug = types[n].slug

\* What was typed for a new type never lands in a system type, nor what was typed for one
\* type in another.
TypedForIt == TypedFor(types)

\* An administrator alone, one handler at a time, none failed, sees the stored types.
TypesShown == calm /\ Busy = {} /\ listening => shown = types

=============================================================================
