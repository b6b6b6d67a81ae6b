------------------------------ MODULE Instance ------------------------------
(***************************************************************************)
(* First boot of an instance: its settings document and its users, changed *)
(* by POST /setup/complete (SettingsService.completeSetup), by POST        *)
(* /setup/restore (BackupService.restoreFull), by everyone who reads the   *)
(* settings (SettingsRepository.getOrCreate: the worker polls it) and by   *)
(* the admins.  Nothing is locked: every await is a step.                  *)
(***************************************************************************)
EXTENDS Naturals, Sequences, FiniteSets

CONSTANTS Setups, Restores,  \* calls of completeSetup and of setup/restore
          Readers,           \* calls of SettingsService.get
          Names,             \* user names
          Collections,       \* the collections restore replaces, in its order
          Faults             \* "store": an await may reject; "restart": the API may

Calls == Setups \cup Restores \cup Readers

ASSUME KindsAssumption == Setups \cap Restores = {} /\ Readers \cap (Setups \cup Restores) = {}
ASSUME CallsAssumption == IsFiniteSet(Calls)
ASSUME CollectionsAssumption == Collections \in Nat \ {0}
ASSUME FaultsKinds == Faults \subseteq {"store", "restart"}

VARIABLES settings,  \* the documents, in the order findOne meets them
          users,     \* the role of each user, or none
          data,      \* of each collection: its own documents, none, or the backup's
          call,      \* where each call is
          answered,  \* whether a setup call was answered with success
          touched    \* "settings": a restore cleared them; "users": so it did, or an admin

vars == <<settings, users, data, call, answered, touched>>

Idle == [at |-> "idle", name |-> "none", n |-> 0]

\* findOne: the first document is the settings; others are never seen.
Complete == settings # << >> /\ settings[1].done

Admins == {u \in Names : users[u] = "admin"}

At(c, at) == call[c].at = at
Go(c, at) == call' = [call EXCEPT ![c].at = at]
End(c) == call' = [call EXCEPT ![c] = Idle]

-----------------------------------------------------------------------------
(* Calls arrive *)

SetupArrives(c) ==
  /\ At(c, "idle")
  /\ \E u \in Names : call' = [call EXCEPT ![c] = [at |-> "check", name |-> u, n |-> 0]]
  /\ UNCHANGED <<settings, users, data, answered, touched>>

RestoreArrives(c) ==
  /\ At(c, "idle")
  /\ Go(c, "check")
  /\ UNCHANGED <<settings, users, data, answered, touched>>

ReaderArrives(c) ==
  /\ At(c, "idle")
  /\ Go(c, "get")
  /\ UNCHANGED <<settings, users, data, answered, touched>>

CheckSetupSettingsFirst(c) ==  \* mutant: restores the settings before the data
  /\ At(c, "check")
  /\ IF Complete THEN End(c)
     ELSE call' = [call EXCEPT ![c].at = IF c \in Setups THEN "get" ELSE "clearSettings", ![c].n = 1]
  /\ UNCHANGED <<settings, users, data, answered, touched>>

\* isSetupComplete refuses both ways to set up.
CheckSetup(c) ==
  /\ At(c, "check")
  /\ IF Complete THEN End(c)
     ELSE call' = [call EXCEPT ![c] = [@ EXCEPT !.at = IF c \in Setups THEN "get" ELSE "clear",
                                                !.n = 1]]
  /\ UNCHANGED <<settings, users, data, answered, touched>>

-----------------------------------------------------------------------------
(* getOrCreate, completeSetup and UsersService.create *)

AfterGet(c) == IF c \in Setups THEN Go(c, "update") ELSE End(c)

GetSettingsUndone(c) ==  \* mutant: settings that are not complete count as none
  /\ At(c, "get")
  /\ IF ~Complete THEN Go(c, "create") ELSE AfterGet(c)
  /\ UNCHANGED <<settings, users, data, answered, touched>>

GetSettings(c) ==
  /\ At(c, "get")
  /\ IF settings = << >> THEN Go(c, "create") ELSE AfterGet(c)
  /\ UNCHANGED <<settings, users, data, answered, touched>>

CreateSettings(c) ==
  /\ At(c, "create")
  /\ settings' = Append(settings, [done |-> FALSE, from |-> "default"])
  /\ AfterGet(c)
  /\ UNCHANGED <<users, data, answered, touched>>

\* findOneAndUpdate({}) takes the first document and creates none.
MarkDone(i) ==
  settings' = [j \in 1..Len(settings) |->
                 IF j = i THEN [settings[j] EXCEPT !.done = TRUE] ELSE settings[j]]

UpdateSettingsMarks(c) ==  \* mutant: completes the setup with the first update
  /\ At(c, "update")
  /\ MarkDone(1)
  /\ Go(c, "find")
  /\ UNCHANGED <<users, data, answered, touched>>

\* The language, name and time zone: contents that no property tells apart.
UpdateSettings(c) ==
  /\ At(c, "update")
  /\ Go(c, "find")
  /\ UNCHANGED <<settings, users, data, answered, touched>>

FindUser(c) ==
  /\ At(c, "find")
  /\ IF users[call[c].name] = "none" THEN Go(c, "hash") ELSE End(c)
  /\ UNCHANGED <<settings, users, data, answered, touched>>

\* The unique index on username refuses a second one.
CreateUser(c) ==
  /\ At(c, "hash")
  /\ IF users[call[c].name] = "none"
     THEN users' = [users EXCEPT ![call[c].name] = "admin"] /\ Go(c, "mark")
     ELSE End(c) /\ UNCHANGED users
  /\ UNCHANGED <<settings, data, answered, touched>>

MarkLastComplete(c) ==  \* mutant: the newest document instead of the first
  /\ At(c, "mark")
  /\ MarkDone(Len(settings))
  /\ End(c)
  /\ answered' = TRUE
  /\ UNCHANGED <<users, data, touched>>

MarkSetupComplete(c) ==
  /\ At(c, "mark")
  /\ MarkDone(1)
  /\ End(c)
  /\ answered' = TRUE
  /\ UNCHANGED <<users, data, touched>>

-----------------------------------------------------------------------------
(* restoreFull: each collection is cleared, then filled *)

ClearCollection(c) ==
  /\ At(c, "clear")
  /\ data' = [data EXCEPT ![call[c].n] = "none"]
  /\ Go(c, "fill")
  /\ UNCHANGED <<settings, users, answered, touched>>

FillCollectionMore(c) ==  \* mutant: one collection too many
  /\ At(c, "fill")
  /\ data' = [data EXCEPT ![call[c].n] = "backup"]
  /\ call' = [call EXCEPT ![c].at = "clear", ![c].n = @ + 1]
  /\ UNCHANGED <<settings, users, answered, touched>>

\* insertMany keeps the backup's ids: documents that are there already refuse it.
FillCollection(c) ==
  /\ At(c, "fill")
  /\ data' = [data EXCEPT ![call[c].n] = "backup"]
  /\ IF data[call[c].n] = "backup" THEN End(c)
     ELSE IF call[c].n = Collections THEN Go(c, "clearSettings")
     ELSE call' = [call EXCEPT ![c].at = "clear", ![c].n = @ + 1]
  /\ UNCHANGED <<settings, users, answered, touched>>

ClearSettings(c) ==
  /\ At(c, "clearSettings")
  /\ settings' = << >>
  /\ touched' = touched \cup {"settings"}
  /\ Go(c, "fillSettings")
  /\ UNCHANGED <<users, data, answered>>

\* A backup comes from an instance whose setup was complete, and that has one
\* settings document.
FillSettings(c) ==
  /\ At(c, "fillSettings")
  /\ IF \E i \in DOMAIN settings : settings[i].from = "backup"
     THEN End(c) /\ UNCHANGED settings
     ELSE /\ settings' = Append(settings, [done |-> TRUE, from |-> "backup"])
          /\ Go(c, "clearUsers")
  /\ UNCHANGED <<users, data, answered, touched>>

ClearUsers(c) ==
  /\ At(c, "clearUsers")
  /\ users' = [u \in Names |-> "none"]
  /\ touched' = touched \cup {"users"}
  /\ Go(c, "fillUsers")
  /\ UNCHANGED <<settings, data, answered>>

\* export leaves out the passwords, which the schema requires: insertMany
\* validates every document first and rejects.
FillUsers(c) ==
  /\ At(c, "fillUsers")
  /\ End(c)
  /\ UNCHANGED <<settings, users, data, answered, touched>>

-----------------------------------------------------------------------------
(* Failures, and admins *)

CallFails(c) ==
  /\ "store" \in Faults
  /\ ~At(c, "idle")
  /\ End(c)
  /\ UNCHANGED <<settings, users, data, answered, touched>>

ApiRestarts ==
  /\ "restart" \in Faults
  /\ call' = [c \in Calls |-> Idle]
  /\ UNCHANGED <<settings, users, data, answered, touched>>

\* POST /users, by an admin; the index decides, whatever was found before
AdminAdds(u, role) ==
  /\ Admins # {}
  /\ users[u] = "none"
  /\ users' = [users EXCEPT ![u] = role]
  /\ UNCHANGED <<settings, data, call, answered, touched>>

\* PATCH and DELETE /users/:id, by an admin, who may choose himself
AdminChanges(u, role) ==
  /\ Admins # {}
  /\ users[u] # "none"
  /\ users' = [users EXCEPT ![u] = role]
  /\ touched' = touched \cup {"users"}
  /\ UNCHANGED <<settings, data, call, answered>>

-----------------------------------------------------------------------------
Init ==
  /\ settings = << >>
  /\ users = [u \in Names |-> "none"]
  /\ data = [n \in 1..Collections |-> "own"]
  /\ call = [c \in Calls |-> Idle]
  /\ answered = FALSE
  /\ touched = {}

SetupStep(c) == UpdateSettings(c) \/ FindUser(c) \/ CreateUser(c) \/ MarkSetupComplete(c)
RestoreStep(c) == \/ ClearCollection(c) \/ FillCollection(c)
                  \/ ClearSettings(c) \/ FillSettings(c)
                  \/ ClearUsers(c) \/ FillUsers(c)

Next ==
  \/ \E c \in Setups : SetupArrives(c) \/ SetupStep(c)
  \/ \E c \in Restores : RestoreArrives(c) \/ RestoreStep(c)
  \/ \E c \in Readers : ReaderArrives(c)
  \/ \E c \in Calls : CheckSetup(c) \/ GetSettings(c) \/ CreateSettings(c) \/ CallFails(c)
  \/ \E u \in Names, role \in {"admin", "viewer"} : AdminAdds(u, role)
  \/ \E u \in Names, role \in {"admin", "viewer", "none"} : AdminChanges(u, role)
  \/ ApiRestarts

Spec == Init /\ [][Next]_vars

-----------------------------------------------------------------------------
(* Properties *)

Settings == [done : BOOLEAN, from : {"default", "backup"}]
Places == {"idle", "check", "get", "create", "update", "find", "hash", "mark", "clear", "fill",
           "clearSettings", "fillSettings", "clearUsers", "fillUsers"}
CallState == [at : Places, name : Names \cup {"none"}, n : 0..Collections]

\* Every variable holds a value of its kind.
TypeOK ==
  /\ settings \in Seq(Settings)
  /\ users \in [Names -> {"none", "admin", "viewer"}]
  /\ data \in [1..Collections -> {"own", "none", "backup"}]
  /\ call \in [Calls -> CallState]
  /\ answered \in BOOLEAN
  /\ touched \subseteq {"settings", "users"}

\* The wizard alone never closes the door behind nobody: wherever its calls
\* overlap or stop, setup is complete only when there is an admin to log in.
CompleteHasAdmin == Complete /\ touched = {} => Admins # {}

\* A setup call that was answered with success did complete the setup, though
\* concurrent calls may have created several settings documents.
SetupEffective == answered /\ "settings" \notin touched => Complete

\* getOrCreate is not atomic: there may be a settings document for every call
\* that was reading at once, but no more, restored ones included.
SettingsBound == Len(settings) <= Cardinality(Calls)

\* The restored settings, which end the setup, come after all the data: where
\* restores do not overlap, an instance whose settings are a backup's has every
\* collection of it, whatever failed and was tried again.
RestoredWithData == settings # << >> /\ settings[1].from = "backup"
                      => \A n \in 1..Collections : data[n] = "backup"

\* The wizard: all data including users is restored.
UsersRestored == /\ settings # << >> /\ settings[1].from = "backup"
                 /\ \A c \in Restores : At(c, "idle")
                 => \E u \in Names : users[u] # "none"
=============================================================================
