--------------------------- MODULE InstanceProofs ---------------------------
(***************************************************************************)
(* What holds of the first boot of an instance for any calls, users and    *)
(* collections.  The inductive invariant adds to the types                 *)
(*   Pending   who is about to add a settings document takes a place of    *)
(*             its own beside those that exist,                            *)
(*   Behind    what a call far enough has behind it: an admin, a document. *)
(* A second one, for restores that do not overlap, follows a restore       *)
(* through its collections (DataFirst).  And what holds of the thing types *)
(* and of the page of a group, whichever module runs: TypesInv, GroupInv.  *)
(***************************************************************************)
EXTENDS MCInstancePages, FiniteSetTheorems, TLAPS

Adding == {c \in Calls : call[c].at \in {"create", "fillSettings"}}

Pending == Len(settings) + Cardinality(Adding) <= Cardinality(Calls)

SomeAdmin == \E u \in Names : users[u] = "admin"

AdminBehind ==
  touched = {} => /\ \A i \in DOMAIN settings : settings[i].done => SomeAdmin
                  /\ \A c \in Calls : At(c, "mark") => SomeAdmin

TouchedBehind == \A c \in Calls : At(c, "fillSettings") => "settings" \in touched

DocumentBehind ==
  "settings" \notin touched =>
    /\ \A c \in Calls : call[c].at \in {"update", "find", "hash", "mark"} => settings # << >>
    /\ answered => Complete

Behind == AdminBehind /\ TouchedBehind /\ DocumentBehind

IInv == TypeOK /\ Pending /\ Behind

-----------------------------------------------------------------------------
(* Types *)

\* A call that moves to a place, or ends, keeps the type of the calls.
LEMMA GoType ==
  ASSUME TypeOK, NEW c \in Calls, NEW at \in Places, Go(c, at)
  PROVE  call' \in [Calls -> CallState]
BY DEF TypeOK, Go, CallState

LEMMA EndType ==
  ASSUME TypeOK, NEW c \in Calls, End(c)
  PROVE  call' \in [Calls -> CallState]
<1>1. Idle \in CallState
  BY CollectionsAssumption DEF Idle, CallState, Places
<1> QED
  BY <1>1 DEF TypeOK, End

LEMMA AfterGetType ==
  ASSUME TypeOK, NEW c \in Calls, AfterGet(c)
  PROVE  call' \in [Calls -> CallState]
<1>1. "update" \in Places
  BY DEF Places
<1> QED
  BY <1>1, GoType, EndType DEF AfterGet

\* MarkDone keeps every document and its origin.
LEMMA MarkDoneType ==
  ASSUME settings \in Seq(Settings), NEW i, MarkDone(i)
  PROVE  /\ settings' \in Seq(Settings)
         /\ Len(settings') = Len(settings)
         /\ \A j \in 1..Len(settings) :
              settings'[j] = IF j = i THEN [settings[j] EXCEPT !.done = TRUE] ELSE settings[j]
<1> DEFINE f == [j \in 1..Len(settings) |->
                   IF j = i THEN [settings[j] EXCEPT !.done = TRUE] ELSE settings[j]]
<1>1. settings' = f
  BY DEF MarkDone
<1>2. Len(settings) \in Nat
  OBVIOUS
<1>3. \A j \in 1..Len(settings) : f[j] \in Settings
  <2> TAKE j \in 1..Len(settings)
  <2>1. settings[j] \in Settings
    OBVIOUS
  <2>2. [settings[j] EXCEPT !.done = TRUE] \in Settings
    BY <2>1 DEF Settings
  <2> QED
    BY <2>1, <2>2
<1>4. f \in [1..Len(settings) -> Settings]
  BY <1>3
<1>5. f \in Seq(Settings) /\ Len(f) = Len(settings)
  BY <1>2, <1>4
<1> QED
  BY <1>1, <1>5

\* The first state.
LEMMA InitTypes == Init => TypeOK
<1> SUFFICES ASSUME Init PROVE TypeOK
  OBVIOUS
<1>1. Idle \in CallState
  BY CollectionsAssumption DEF Idle, CallState, Places
<1>2. settings \in Seq(Settings)
  BY DEF Init
<1> QED
  BY <1>1, <1>2 DEF Init, TypeOK

\* Every step keeps the types.
LEMMA TypeStep == TypeOK /\ [Next]_vars => TypeOK'
<1> SUFFICES ASSUME TypeOK, [Next]_vars PROVE TypeOK'
  OBVIOUS
<1> USE DEF Places
<1>0. /\ Setups \subseteq Calls
      /\ Restores \subseteq Calls
      /\ Readers \subseteq Calls
  BY DEF Calls
<1>1. ASSUME NEW c \in Calls, SetupArrives(c) PROVE TypeOK'
  <2>1. PICK u \in Names : call' = [call EXCEPT ![c] = [at |-> "check", name |-> u, n |-> 0]]
    BY <1>1 DEF SetupArrives
  <2>2. [at |-> "check", name |-> u, n |-> 0] \in CallState
    BY CollectionsAssumption DEF CallState
  <2>3. call' \in [Calls -> CallState]
    BY <2>1, <2>2 DEF TypeOK
  <2> QED
    BY <1>1, <2>3 DEF SetupArrives, TypeOK
<1>2. ASSUME NEW c \in Calls, RestoreArrives(c) PROVE TypeOK'
  BY <1>2, GoType DEF RestoreArrives, TypeOK
<1>3. ASSUME NEW c \in Calls, ReaderArrives(c) PROVE TypeOK'
  BY <1>3, GoType DEF ReaderArrives, TypeOK
<1>4. ASSUME NEW c \in Calls, CheckSetup(c) PROVE TypeOK'
  <2>1. call' \in [Calls -> CallState]
    <3>1. CASE Complete
      BY <1>4, <3>1, EndType DEF CheckSetup
    <3>2. CASE ~Complete
      <4>1. call[c] \in CallState /\ 1 \in 0..Collections
        BY CollectionsAssumption DEF TypeOK
      <4> DEFINE r == [call[c] EXCEPT !.at = IF c \in Setups THEN "get" ELSE "clear", !.n = 1]
      <4>2. r \in CallState
        BY <4>1 DEF CallState
      <4>3. call' = [call EXCEPT ![c] = r]
        BY <1>4, <3>2 DEF CheckSetup
      <4> QED
        BY <4>2, <4>3 DEF TypeOK
    <3> QED
      BY <3>1, <3>2
  <2> QED
    BY <1>4, <2>1 DEF CheckSetup, TypeOK
<1>5. ASSUME NEW c \in Calls, GetSettings(c) PROVE TypeOK'
  BY <1>5, GoType, AfterGetType DEF GetSettings, TypeOK
<1>6. ASSUME NEW c \in Calls, CreateSettings(c) PROVE TypeOK'
  <2>1. [done |-> FALSE, from |-> "default"] \in Settings
    BY DEF Settings
  <2>2. settings' \in Seq(Settings)
    BY <1>6, <2>1 DEF CreateSettings, TypeOK
  <2> QED
    BY <1>6, <2>2, AfterGetType DEF CreateSettings, TypeOK
<1>7. ASSUME NEW c \in Calls, UpdateSettings(c) PROVE TypeOK'
  BY <1>7, GoType DEF UpdateSettings, TypeOK
<1>8. ASSUME NEW c \in Calls, FindUser(c) PROVE TypeOK'
  BY <1>8, GoType, EndType DEF FindUser, TypeOK
<1>9. ASSUME NEW c \in Calls, CreateUser(c) PROVE TypeOK'
  <2>1. call' \in [Calls -> CallState]
    BY <1>9, GoType, EndType DEF CreateUser
  <2> QED
    BY <1>9, <2>1 DEF CreateUser, TypeOK
<1>10. ASSUME NEW c \in Calls, MarkSetupComplete(c) PROVE TypeOK'
  BY <1>10, MarkDoneType, EndType DEF MarkSetupComplete, TypeOK
<1>11. ASSUME NEW c \in Calls, ClearCollection(c) PROVE TypeOK'
  BY <1>11, GoType DEF ClearCollection, TypeOK
<1>12. ASSUME NEW c \in Calls, FillCollection(c) PROVE TypeOK'
  <2>1. call' \in [Calls -> CallState]
    <3>1. CASE data[call[c].n] = "backup"
      BY <1>12, <3>1, EndType DEF FillCollection
    <3>2. CASE data[call[c].n] # "backup" /\ call[c].n = Collections
      BY <1>12, <3>2, GoType DEF FillCollection
    <3>3. CASE data[call[c].n] # "backup" /\ call[c].n # Collections
      <4>1. call[c] \in CallState /\ call[c].n + 1 \in 0..Collections
        BY <3>3, CollectionsAssumption DEF TypeOK, CallState
      <4> QED
        BY <1>12, <3>3, <4>1 DEF FillCollection, TypeOK, CallState
    <3> QED
      BY <3>1, <3>2, <3>3
  <2> QED
    BY <1>12, <2>1 DEF FillCollection, TypeOK
<1>13. ASSUME NEW c \in Calls, ClearSettings(c) PROVE TypeOK'
  BY <1>13, GoType DEF ClearSettings, TypeOK
<1>14. ASSUME NEW c \in Calls, FillSettings(c) PROVE TypeOK'
  <2>1. [done |-> TRUE, from |-> "backup"] \in Settings
    BY DEF Settings
  <2>2. settings' \in Seq(Settings)
    <3>1. settings' = settings \/ settings' = Append(settings, [done |-> TRUE, from |-> "backup"])
      BY <1>14 DEF FillSettings
    <3> QED
      BY <2>1, <3>1 DEF TypeOK
  <2>3. call' \in [Calls -> CallState]
    BY <1>14, GoType, EndType DEF FillSettings
  <2> QED
    BY <1>14, <2>2, <2>3 DEF FillSettings, TypeOK
<1>15. ASSUME NEW c \in Calls, ClearUsers(c) PROVE TypeOK'
  BY <1>15, GoType DEF ClearUsers, TypeOK
<1>16. ASSUME NEW c \in Calls, FillUsers(c) PROVE TypeOK'
  BY <1>16, EndType DEF FillUsers, TypeOK
<1>17. ASSUME NEW c \in Calls, CallFails(c) PROVE TypeOK'
  BY <1>17, EndType DEF CallFails, TypeOK
<1>18. ASSUME ApiRestarts PROVE TypeOK'
  <2>1. Idle \in CallState
    BY CollectionsAssumption DEF Idle, CallState
  <2> QED
    BY <1>18, <2>1 DEF ApiRestarts, TypeOK
<1>19. ASSUME NEW u \in Names, NEW role \in {"admin", "viewer"}, AdminAdds(u, role) PROVE TypeOK'
  BY <1>19 DEF AdminAdds, TypeOK
<1>20. ASSUME NEW u \in Names, NEW role \in {"admin", "viewer", "none"}, AdminChanges(u, role)
       PROVE TypeOK'
  BY <1>20 DEF AdminChanges, TypeOK
<1>21. CASE UNCHANGED vars
  BY <1>21 DEF vars, TypeOK
<1> QED
  BY <1>0, <1>1, <1>2, <1>3, <1>4, <1>5, <1>6, <1>7, <1>8, <1>9, <1>10, <1>11, <1>12, <1>13,
     <1>14, <1>15, <1>16, <1>17, <1>18, <1>19, <1>20, <1>21 DEF Next, SetupStep, RestoreStep

-----------------------------------------------------------------------------
(* How a step moves its call *)

Quiet == Places \ {"create", "fillSettings"}

Moves(c, at) == /\ call'[c].at \in at
                /\ \A d \in Calls \ {c} : call'[d] = call[d]

LEMMA GoMoves ==
  ASSUME TypeOK, NEW c \in Calls, NEW at \in Places, Go(c, at)
  PROVE  Moves(c, {at})
BY DEF TypeOK, Go, CallState, Moves

LEMMA EndMoves ==
  ASSUME TypeOK, NEW c \in Calls, End(c)
  PROVE  Moves(c, {"idle"})
BY DEF TypeOK, End, Idle, Moves

LEMMA AfterGetMoves ==
  ASSUME TypeOK, NEW c \in Calls, AfterGet(c)
  PROVE  Moves(c, IF c \in Setups THEN {"update"} ELSE {"idle"})
<1>1. "update" \in Places
  BY DEF Places
<1> QED
  BY <1>1, GoMoves, EndMoves DEF AfterGet

LEMMA CheckMoves ==
  ASSUME TypeOK, NEW c \in Calls, CheckSetup(c)
  PROVE  Moves(c, {"idle", "get", "clear"})
<1>1. CASE Complete
  BY <1>1, EndMoves DEF CheckSetup, Moves
<1>2. CASE ~Complete
  <2> DEFINE r == [call[c] EXCEPT !.at = IF c \in Setups THEN "get" ELSE "clear", !.n = 1]
  <2>1. call' = [call EXCEPT ![c] = r]
    BY <1>2 DEF CheckSetup
  <2>2. r.at \in {"get", "clear"}
    BY DEF TypeOK, CallState
  <2> QED
    BY <2>1, <2>2 DEF TypeOK, Moves
<1> QED
  BY <1>1, <1>2

LEMMA FillMoves ==
  ASSUME TypeOK, NEW c \in Calls, FillCollection(c)
  PROVE  Moves(c, {"idle", "clearSettings", "clear"})
<1>1. CASE data[call[c].n] = "backup"
  BY <1>1, EndMoves DEF FillCollection, Moves
<1>2. CASE data[call[c].n] # "backup" /\ call[c].n = Collections
  BY <1>2, GoMoves DEF FillCollection, Moves, Places
<1>3. CASE data[call[c].n] # "backup" /\ call[c].n # Collections
  <2>1. call' = [call EXCEPT ![c].at = "clear", ![c].n = @ + 1]
    BY <1>3 DEF FillCollection
  <2> QED
    BY <2>1 DEF TypeOK, CallState, Moves
<1> QED
  BY <1>1, <1>2, <1>3

\* CreateUser goes on only when it makes an admin.
LEMMA CreateUserMoves ==
  ASSUME TypeOK, NEW c \in Calls, CreateUser(c)
  PROVE  \/ Moves(c, {"mark"}) /\ users' = [users EXCEPT ![call[c].name] = "admin"]
              /\ users[call[c].name] = "none"
         \/ Moves(c, {"idle"}) /\ users' = users
BY GoMoves, EndMoves DEF CreateUser, Places

-----------------------------------------------------------------------------
(* The settings documents *)

LEMMA AddingFinite ==
  /\ IsFiniteSet(Adding)
  /\ Cardinality(Calls) \in Nat
  /\ Cardinality(Adding) \in Nat
  /\ Cardinality(Adding) <= Cardinality(Calls)
<1>1. Adding \subseteq Calls
  BY DEF Adding
<1> QED
  BY <1>1, CallsAssumption, FS_Subset, FS_CardinalityType

\* A step that adds no document and is not about to add one.
LEMMA QuietPending ==
  ASSUME TypeOK, TypeOK', Pending, NEW c \in Calls, Moves(c, Quiet),
         Len(settings') <= Len(settings)
  PROVE  Pending'
<1>1. Adding' \subseteq Adding
  BY DEF Adding, Moves, Quiet
<1>2. Cardinality(Adding') \in Nat /\ Cardinality(Adding') <= Cardinality(Adding)
  BY <1>1, AddingFinite, FS_Subset, FS_CardinalityType
<1>3. Len(settings) \in Nat /\ Len(settings') \in Nat
  BY DEF TypeOK
<1> QED
  BY <1>2, <1>3, AddingFinite DEF Pending

\* A step that adds the document its call was about to add.
LEMMA AddedPending ==
  ASSUME TypeOK, TypeOK', Pending, NEW c \in Calls, Moves(c, Quiet),
         call[c].at \in {"create", "fillSettings"}, Len(settings') = Len(settings) + 1
  PROVE  Pending'
<1>1. Adding' = Adding \ {c} /\ c \in Adding
  BY DEF Adding, Moves, Quiet
<1>2. Cardinality(Adding') = Cardinality(Adding) - 1
  BY <1>1, AddingFinite, FS_RemoveElement
<1>3. Len(settings) \in Nat
  BY DEF TypeOK
<1> QED
  BY <1>2, <1>3, AddingFinite DEF Pending

\* A step after which there is no document.
LEMMA EmptyPending ==
  ASSUME settings' = << >>
  PROVE  Pending'
<1>1. Adding' \subseteq Calls
  BY DEF Adding
<1>2. Cardinality(Adding') \in Nat /\ Cardinality(Adding') <= Cardinality(Calls)
  BY <1>1, CallsAssumption, FS_Subset, FS_CardinalityType
<1> QED
  BY <1>2 DEF Pending

LEMMA PendingStep ==
  ASSUME TypeOK, TypeOK', Pending, [Next]_vars
  PROVE  Pending'
<1> USE DEF Places, Quiet
<1>0. /\ Setups \subseteq Calls
      /\ Restores \subseteq Calls
      /\ Readers \subseteq Calls
      /\ Len(settings) \in Nat
  BY DEF Calls, TypeOK
<1>1. ASSUME NEW c \in Calls, Moves(c, Quiet), UNCHANGED settings PROVE Pending'
  BY <1>0, <1>1, QuietPending
<1>2. ASSUME NEW c \in Calls, SetupArrives(c) PROVE Pending'
  <2>1. Moves(c, Quiet)
    BY <1>2 DEF SetupArrives, Moves, TypeOK
  <2> QED
    BY <1>1, <1>2, <2>1 DEF SetupArrives
<1>3. ASSUME NEW c \in Calls, RestoreArrives(c) PROVE Pending'
  BY <1>1, <1>3, GoMoves DEF RestoreArrives, Moves
<1>4. ASSUME NEW c \in Calls, ReaderArrives(c) PROVE Pending'
  BY <1>1, <1>4, GoMoves DEF ReaderArrives, Moves
<1>5. ASSUME NEW c \in Calls, CheckSetup(c) PROVE Pending'
  <2>1. Moves(c, Quiet)
    BY <1>5, CheckMoves DEF Moves
  <2> QED
    BY <1>1, <1>5, <2>1 DEF CheckSetup
<1>6. ASSUME NEW c \in Calls, GetSettings(c) PROVE Pending'
  <2>1. CASE settings = << >>
    BY <1>6, <2>1, EmptyPending DEF GetSettings
  <2>2. CASE settings # << >>
    <3>1. Moves(c, Quiet)
      BY <1>6, <2>2, AfterGetMoves DEF GetSettings, Moves
    <3> QED
      BY <1>1, <1>6, <3>1 DEF GetSettings
  <2> QED
    BY <2>1, <2>2
<1>7. ASSUME NEW c \in Calls, CreateSettings(c) PROVE Pending'
  <2>1. Moves(c, Quiet)
    BY <1>7, AfterGetMoves DEF CreateSettings, Moves
  <2>2. Len(settings') = Len(settings) + 1
    BY <1>7 DEF CreateSettings, TypeOK
  <2> QED
    BY <1>7, <2>1, <2>2, AddedPending DEF CreateSettings, At
<1>8. ASSUME NEW c \in Calls, UpdateSettings(c) PROVE Pending'
  BY <1>1, <1>8, GoMoves DEF UpdateSettings, Moves
<1>9. ASSUME NEW c \in Calls, FindUser(c) PROVE Pending'
  <2>1. Moves(c, Quiet)
    BY <1>9, GoMoves, EndMoves DEF FindUser, Moves
  <2> QED
    BY <1>1, <1>9, <2>1 DEF FindUser
<1>10. ASSUME NEW c \in Calls, CreateUser(c) PROVE Pending'
  <2>1. Moves(c, Quiet)
    BY <1>10, CreateUserMoves DEF Moves
  <2> QED
    BY <1>1, <1>10, <2>1 DEF CreateUser
<1>11. ASSUME NEW c \in Calls, MarkSetupComplete(c) PROVE Pending'
  <2>1. Moves(c, Quiet)
    BY <1>11, EndMoves DEF MarkSetupComplete, Moves
  <2>2. Len(settings') = Len(settings)
    BY <1>11, MarkDoneType DEF MarkSetupComplete, TypeOK
  <2> QED
    BY <1>0, <2>1, <2>2, QuietPending
<1>12. ASSUME NEW c \in Calls, ClearCollection(c) PROVE Pending'
  BY <1>1, <1>12, GoMoves DEF ClearCollection, Moves
<1>13. ASSUME NEW c \in Calls, FillCollection(c) PROVE Pending'
  <2>1. Moves(c, Quiet)
    BY <1>13, FillMoves DEF Moves
  <2> QED
    BY <1>1, <1>13, <2>1 DEF FillCollection
<1>14. ASSUME NEW c \in Calls, ClearSettings(c) PROVE Pending'
  BY <1>14, EmptyPending DEF ClearSettings
<1>15. ASSUME NEW c \in Calls, FillSettings(c) PROVE Pending'
  <2>1. Moves(c, Quiet)
    BY <1>15, GoMoves, EndMoves DEF FillSettings, Moves
  <2>2. CASE settings' = settings
    BY <1>1, <2>1, <2>2
  <2>3. CASE settings' = Append(settings, [done |-> TRUE, from |-> "backup"])
    <3>1. Len(settings') = Len(settings) + 1
      BY <2>3 DEF TypeOK
    <3> QED
      BY <1>15, <2>1, <3>1, AddedPending DEF FillSettings, At
  <2> QED
    BY <1>15, <2>2, <2>3 DEF FillSettings
<1>16. ASSUME NEW c \in Calls, ClearUsers(c) PROVE Pending'
  BY <1>1, <1>16, GoMoves DEF ClearUsers, Moves
<1>17. ASSUME NEW c \in Calls, FillUsers(c) PROVE Pending'
  BY <1>1, <1>17, EndMoves DEF FillUsers, Moves
<1>18. ASSUME NEW c \in Calls, CallFails(c) PROVE Pending'
  BY <1>1, <1>18, EndMoves DEF CallFails, Moves
<1>19. ASSUME ApiRestarts PROVE Pending'
  <2>1. Adding' = {}
    BY <1>19 DEF ApiRestarts, Adding, Idle
  <2>2. Cardinality(Adding') = 0
    BY <2>1, FS_EmptySet
  <2> QED
    BY <1>0, <1>19, <2>2, AddingFinite DEF ApiRestarts, Pending
<1>20. ASSUME UNCHANGED <<settings, call>> PROVE Pending'
  BY <1>20 DEF Pending, Adding
<1> QED
  BY <1>0, <1>2, <1>3, <1>4, <1>5, <1>6, <1>7, <1>8, <1>9, <1>10, <1>11, <1>12, <1>13, <1>14,
     <1>15, <1>16, <1>17, <1>18, <1>19, <1>20
     DEF Next, SetupStep, RestoreStep, AdminAdds, AdminChanges, vars

-----------------------------------------------------------------------------
(* What a call has behind it *)

Wizard == {"update", "find", "hash", "mark"}

\* A step that changes neither documents, users nor what is remembered, and
\* takes its call nowhere that needs something behind it.
LEMMA IdleBehind ==
  ASSUME TypeOK, Behind, NEW c \in Calls,
         Moves(c, Places \ (Wizard \cup {"fillSettings"})),
         UNCHANGED <<settings, users, answered, touched>>
  PROVE  Behind'
BY DEF Behind, AdminBehind, TouchedBehind, DocumentBehind, SomeAdmin, Complete, Moves, Wizard, At

LEMMA BehindStep ==
  ASSUME TypeOK, TypeOK', Behind, [Next]_vars
  PROVE  Behind'
<1> USE DEF Places, Wizard
<1>0. /\ Setups \subseteq Calls
      /\ Restores \subseteq Calls
      /\ Readers \subseteq Calls
  BY DEF Calls
<1>2. ASSUME NEW c \in Calls, SetupArrives(c) PROVE Behind'
  <2>1. Moves(c, {"check"})
    BY <1>2 DEF SetupArrives, Moves, TypeOK
  <2> QED
    BY <1>2, <2>1, IdleBehind DEF SetupArrives, Moves
<1>3. ASSUME NEW c \in Calls, RestoreArrives(c) PROVE Behind'
  BY <1>3, GoMoves, IdleBehind DEF RestoreArrives, Moves
<1>4. ASSUME NEW c \in Calls, ReaderArrives(c) PROVE Behind'
  BY <1>4, GoMoves, IdleBehind DEF ReaderArrives, Moves
<1>5. ASSUME NEW c \in Calls, CheckSetup(c) PROVE Behind'
  <2>1. Moves(c, {"idle", "get", "clear"})
    BY <1>5, CheckMoves
  <2> QED
    BY <1>5, <2>1, IdleBehind DEF CheckSetup, Moves
<1>6. ASSUME NEW c \in Calls, GetSettings(c) PROVE Behind'
  <2>1. CASE settings = << >>
    BY <1>6, <2>1, GoMoves, IdleBehind DEF GetSettings, Moves
  <2>2. CASE settings # << >>
    <3>1. Moves(c, {"update", "idle"})
      BY <1>6, <2>2, AfterGetMoves DEF GetSettings, Moves
    <3>2. UNCHANGED <<settings, users, answered, touched>>
      BY <1>6 DEF GetSettings
    <3> QED
      BY <2>2, <3>1, <3>2
      DEF Behind, AdminBehind, TouchedBehind, DocumentBehind, SomeAdmin, Complete, Moves, At
  <2> QED
    BY <2>1, <2>2
<1>7. ASSUME NEW c \in Calls, CreateSettings(c) PROVE Behind'
  <2>1. Moves(c, {"update", "idle"})
    BY <1>7, AfterGetMoves DEF CreateSettings, Moves
  <2>2. /\ settings' = Append(settings, [done |-> FALSE, from |-> "default"])
        /\ UNCHANGED <<users, answered, touched>>
    BY <1>7 DEF CreateSettings
  <2>3. /\ settings' # << >>
        /\ settings # << >> => settings'[1] = settings[1]
        /\ \A i \in DOMAIN settings' :
             settings'[i].done => i \in DOMAIN settings /\ settings[i].done
    BY <2>2 DEF TypeOK
  <2> QED
    BY <2>1, <2>2, <2>3
    DEF Behind, AdminBehind, TouchedBehind, DocumentBehind, SomeAdmin, Complete, Moves, At
<1>8. ASSUME NEW c \in Calls, UpdateSettings(c) PROVE Behind'
  <2>1. Moves(c, {"find"})
    BY <1>8, GoMoves DEF UpdateSettings
  <2> QED
    BY <1>8, <2>1
    DEF UpdateSettings, Behind, AdminBehind, TouchedBehind, DocumentBehind, SomeAdmin, Complete, Moves, At
<1>9. ASSUME NEW c \in Calls, FindUser(c) PROVE Behind'
  <2>1. Moves(c, {"hash", "idle"})
    BY <1>9, GoMoves, EndMoves DEF FindUser, Moves
  <2> QED
    BY <1>9, <2>1
    DEF FindUser, Behind, AdminBehind, TouchedBehind, DocumentBehind, SomeAdmin, Complete, Moves, At
<1>10. ASSUME NEW c \in Calls, CreateUser(c) PROVE Behind'
  <2>1. CASE /\ Moves(c, {"mark"})
             /\ users' = [users EXCEPT ![call[c].name] = "admin"]
             /\ users[call[c].name] = "none"
    <3>1. call[c].name \in Names
      BY <2>1 DEF TypeOK, CallState
    <3>2. SomeAdmin'
      BY <2>1, <3>1 DEF SomeAdmin, TypeOK
    <3> QED
      BY <1>10, <2>1, <3>2
      DEF CreateUser, Behind, AdminBehind, TouchedBehind, DocumentBehind, Complete, Moves, At
  <2>2. CASE Moves(c, {"idle"}) /\ users' = users
    BY <1>10, <2>2, IdleBehind DEF CreateUser, Moves
  <2> QED
    BY <1>10, <2>1, <2>2, CreateUserMoves
<1>11. ASSUME NEW c \in Calls, MarkSetupComplete(c) PROVE Behind'
  <2>1. Moves(c, {"idle"})
    BY <1>11, EndMoves DEF MarkSetupComplete
  <2>2. /\ At(c, "mark")
        /\ MarkDone(1)
        /\ answered' = TRUE
        /\ UNCHANGED <<users, touched>>
    BY <1>11 DEF MarkSetupComplete
  <2>3. /\ Len(settings') = Len(settings)
        /\ \A j \in 1..Len(settings) :
              settings'[j] = IF j = 1 THEN [settings[j] EXCEPT !.done = TRUE] ELSE settings[j]
    BY <2>2, MarkDoneType DEF TypeOK
  <2>4. AdminBehind'
    BY <2>1, <2>2 DEF Behind, AdminBehind, SomeAdmin, Moves, At
  <2>5. TouchedBehind'
    BY <2>1, <2>2 DEF Behind, TouchedBehind, Moves, At
  <2>6. ASSUME "settings" \notin touched' PROVE settings' # << >> /\ Complete'
    <3>1. settings # << >>
      BY <2>2, <2>6 DEF Behind, DocumentBehind, At
    <3>2. 1 \in 1..Len(settings) /\ settings[1] \in Settings /\ settings' # << >>
      BY <2>3, <3>1 DEF TypeOK
    <3>3. settings'[1] = [settings[1] EXCEPT !.done = TRUE]
      BY <2>3, <3>2
    <3>4. settings'[1].done
      BY <3>2, <3>3 DEF Settings
    <3> QED
      BY <3>2, <3>4 DEF Complete
  <2> QED
    BY <2>4, <2>5, <2>6 DEF Behind, DocumentBehind
<1>12. ASSUME NEW c \in Calls, ClearCollection(c) PROVE Behind'
  BY <1>12, GoMoves, IdleBehind DEF ClearCollection, Moves
<1>13. ASSUME NEW c \in Calls, FillCollection(c) PROVE Behind'
  <2>1. Moves(c, {"idle", "clearSettings", "clear"})
    BY <1>13, FillMoves
  <2> QED
    BY <1>13, <2>1, IdleBehind DEF FillCollection, Moves
<1>14. ASSUME NEW c \in Calls, ClearSettings(c) PROVE Behind'
  <2>1. /\ Moves(c, {"fillSettings"})
        /\ touched' = touched \cup {"settings"}
    BY <1>14, GoMoves DEF ClearSettings
  <2> QED
    BY <2>1 DEF Behind, AdminBehind, TouchedBehind, DocumentBehind, Moves, At
<1>15. ASSUME NEW c \in Calls, FillSettings(c) PROVE Behind'
  <2>1. Moves(c, {"idle", "clearUsers"})
    BY <1>15, GoMoves, EndMoves DEF FillSettings, Moves
  <2>2. "settings" \in touched /\ touched' = touched
    BY <1>15 DEF FillSettings, Behind, TouchedBehind
  <2> QED
    BY <2>1, <2>2 DEF Behind, AdminBehind, TouchedBehind, DocumentBehind, Moves, At
<1>16. ASSUME NEW c \in Calls, ClearUsers(c) PROVE Behind'
  <2>1. /\ Moves(c, {"fillUsers"})
        /\ touched' = touched \cup {"users"}
        /\ UNCHANGED <<settings, answered>>
    BY <1>16, GoMoves DEF ClearUsers
  <2> QED
    BY <2>1 DEF Behind, AdminBehind, TouchedBehind, DocumentBehind, Complete, Moves, At
<1>17. ASSUME NEW c \in Calls, FillUsers(c) PROVE Behind'
  BY <1>17, EndMoves, IdleBehind DEF FillUsers, Moves
<1>18. ASSUME NEW c \in Calls, CallFails(c) PROVE Behind'
  BY <1>18, EndMoves, IdleBehind DEF CallFails, Moves
<1>19. ASSUME ApiRestarts PROVE Behind'
  <2>1. \A c \in Calls : call'[c].at = "idle"
    BY <1>19 DEF ApiRestarts, Idle
  <2> QED
    BY <1>19, <2>1
    DEF ApiRestarts, Behind, AdminBehind, TouchedBehind, DocumentBehind, SomeAdmin, Complete, At
<1>20. ASSUME NEW u \in Names, NEW role \in {"admin", "viewer"}, AdminAdds(u, role) PROVE Behind'
  <2>1. SomeAdmin => SomeAdmin'
    BY <1>20 DEF AdminAdds, SomeAdmin, TypeOK
  <2> QED
    BY <1>20, <2>1
    DEF AdminAdds, Behind, AdminBehind, TouchedBehind, DocumentBehind, Complete, At
<1>21. ASSUME NEW u \in Names, NEW role \in {"admin", "viewer", "none"}, AdminChanges(u, role)
       PROVE Behind'
  BY <1>21 DEF AdminChanges, Behind, AdminBehind, TouchedBehind, DocumentBehind, Complete, At
<1>22. CASE UNCHANGED vars
  BY <1>22 DEF vars, Behind, AdminBehind, TouchedBehind, DocumentBehind, SomeAdmin, Complete, At
<1> QED
  BY <1>0, <1>2, <1>3, <1>4, <1>5, <1>6, <1>7, <1>8, <1>9, <1>10, <1>11, <1>12, <1>13, <1>14,
     <1>15, <1>16, <1>17, <1>18, <1>19, <1>20, <1>21, <1>22 DEF Next, SetupStep, RestoreStep

-----------------------------------------------------------------------------
(* The invariant and what follows from it *)

LEMMA InitIInv == Init => IInv
<1> SUFFICES ASSUME Init PROVE IInv
  OBVIOUS
<1>1. TypeOK
  BY InitTypes
<1>2. Pending
  <2>1. Adding = {} /\ Len(settings) = 0
    BY DEF Init, Adding, Idle
  <2>2. Cardinality(Adding) = 0
    BY <2>1, FS_EmptySet
  <2> QED
    BY <2>1, <2>2, AddingFinite DEF Pending
<1>3. Behind
  BY DEF Init, Idle, Behind, AdminBehind, TouchedBehind, DocumentBehind, At
<1> QED
  BY <1>1, <1>2, <1>3 DEF IInv

\* Every step of the first boot keeps the invariant.
THEOREM Invariance == Spec => []IInv
<1>1. IInv /\ [Next]_vars => IInv'
  BY TypeStep, PendingStep, BehindStep DEF IInv
<1> QED
  BY InitIInv, <1>1, PTL DEF Spec

\* The variables keep their types, for any calls, users and collections.
THEOREM TypeCorrect == Spec => []TypeOK
<1>1. IInv => TypeOK
  BY DEF IInv
<1> QED
  BY Invariance, <1>1, PTL

\* The wizard (SettingsService.completeSetup) never ends the setup before there
\* is an admin, however its calls overlap, fail or are cut off.
THEOREM CompletionHasAdmin == Spec => []CompleteHasAdmin
<1>1. IInv => CompleteHasAdmin
  <2> SUFFICES ASSUME IInv, Complete, touched = {} PROVE Admins # {}
    BY DEF CompleteHasAdmin
  <2>1. 1 \in DOMAIN settings /\ settings[1].done
    BY DEF Complete, IInv, TypeOK
  <2> QED
    BY <2>1 DEF IInv, Behind, AdminBehind, SomeAdmin, Admins
<1> QED
  BY Invariance, <1>1, PTL

\* A setup call answered with success did end the setup, though getOrCreate may
\* have made several documents and only the first of them counts.
THEOREM SetupTakesEffect == Spec => []SetupEffective
<1>1. IInv => SetupEffective
  BY DEF IInv, Behind, DocumentBehind, SetupEffective
<1> QED
  BY Invariance, <1>1, PTL

\* The settings documents that getOrCreate and restores leave are never more
\* than the calls that run at once.
THEOREM SettingsAreBounded == Spec => []SettingsBound
<1>1. IInv => SettingsBound
  <2> SUFFICES ASSUME IInv PROVE SettingsBound
    OBVIOUS
  <2>1. Len(settings) \in Nat
    BY DEF IInv, TypeOK
  <2> QED
    BY <2>1, AddingFinite DEF IInv, Pending, SettingsBound
<1> QED
  BY Invariance, <1>1, PTL
-----------------------------------------------------------------------------
(* The data comes before the settings that end the setup *)

\* Where two restores overlap, one clears what the settings of the other promise.
RestoresApart == \A c, d \in Restores : ~At(c, "idle") /\ ~At(d, "idle") => c = d

FromBackup == settings # << >> /\ settings[1].from = "backup"
Filled(k) == \A n \in 1..k : data[n] = "backup"
Writing == {"clear", "fill", "clearSettings", "fillSettings"}

Promised == FromBackup => settings[1].done /\ Filled(Collections)

\* What a restore has filled so far, while no backup's settings end the setup.
Progress(c) ==
  /\ call[c].at \in {"clear", "fill"} =>
       ~FromBackup /\ call[c].n \in 1..Collections /\ Filled(call[c].n - 1)
  /\ At(c, "clearSettings") => ~FromBackup
  /\ call[c].at \in {"clearSettings", "fillSettings"} => Filled(Collections)

DataFirst == Promised /\ \A c \in Restores : Progress(c)

\* A step that leaves the data, the first document and the writing restores alone.
LEMMA ElsewhereDataFirst ==
  ASSUME DataFirst, UNCHANGED data, FromBackup' <=> FromBackup,
         FromBackup => (settings[1].done => settings'[1].done),
         \A c \in Restores : call'[c] = call[c] \/ call'[c].at \notin Writing
  PROVE  DataFirst'
<1>1. \A k : Filled(k)' <=> Filled(k)
  BY DEF Filled
<1>2. Promised'
  BY <1>1 DEF DataFirst, Promised
<1>3. \A c \in Restores : Progress(c)'
  BY <1>1 DEF DataFirst, Progress, At, Writing
<1> QED
  BY <1>2, <1>3 DEF DataFirst

\* A document that is appended is the first only if there was none.
LEMMA AppendKeepsFirst ==
  ASSUME TypeOK, NEW s \in Settings, settings' = Append(settings, s)
  PROVE  /\ settings' # << >>
         /\ settings # << >> => settings'[1] = settings[1]
         /\ settings = << >> => settings'[1] = s
BY DEF TypeOK

LEMMA DataFirstStep ==
  ASSUME TypeOK, DataFirst, RestoresApart, [Next]_vars
  PROVE  DataFirst'
<1> USE DEF Places
<1>0. /\ Setups \subseteq Calls
      /\ Restores \subseteq Calls
      /\ Readers \subseteq Calls
  BY DEF Calls
<1>1. ASSUME UNCHANGED <<data, settings>>,
             NEW c \in Calls, Moves(c, Places \ Writing)
      PROVE  DataFirst'
  BY <1>0, <1>1, ElsewhereDataFirst DEF Moves, FromBackup
<1>2. ASSUME NEW c \in Calls,
             SetupArrives(c) \/ RestoreArrives(c) \/ ReaderArrives(c) \/ GetSettings(c)
               \/ UpdateSettings(c) \/ FindUser(c) \/ CreateUser(c) \/ CallFails(c)
      PROVE  DataFirst'
  <2>1. UNCHANGED <<data, settings>>
    BY <1>2 DEF SetupArrives, RestoreArrives, ReaderArrives, GetSettings, UpdateSettings, FindUser,
                CreateUser, CallFails
  <2>2. Moves(c, Places \ Writing)
    <3>1. CASE SetupArrives(c)
      BY <3>1 DEF SetupArrives, Moves, TypeOK, Writing
    <3>2. CASE RestoreArrives(c) \/ ReaderArrives(c) \/ UpdateSettings(c) \/ FindUser(c)
      BY <3>2, GoMoves, EndMoves
      DEF RestoreArrives, ReaderArrives, UpdateSettings, FindUser, Moves, Writing
    <3>3. CASE GetSettings(c)
      BY <3>3, GoMoves, AfterGetMoves DEF GetSettings, Moves, Writing
    <3>4. CASE CreateUser(c) \/ CallFails(c)
      BY <3>4, CreateUserMoves, EndMoves DEF CallFails, Moves, Writing
    <3> QED
      BY <1>2, <3>1, <3>2, <3>3, <3>4
  <2> QED
    BY <1>1, <2>1, <2>2
<1>3. ASSUME NEW c \in Calls, CreateSettings(c) PROVE DataFirst'
  <2> DEFINE s == [done |-> FALSE, from |-> "default"]
  <2>1. s \in Settings /\ s.from = "default"
    BY DEF Settings
  <2>2. settings' = Append(settings, s) /\ UNCHANGED data
    BY <1>3 DEF CreateSettings
  <2> HIDE DEF s
  <2>3. /\ FromBackup' <=> FromBackup
        /\ FromBackup => settings'[1] = settings[1]
    BY <2>1, <2>2, AppendKeepsFirst DEF FromBackup
  <2>4. Moves(c, Places \ Writing)
    BY <1>3, AfterGetMoves DEF CreateSettings, Moves, Writing
  <2> QED
    BY <1>0, <2>2, <2>3, <2>4, ElsewhereDataFirst DEF Moves
<1>4. ASSUME NEW c \in Calls, MarkSetupComplete(c) PROVE DataFirst'
  <2>1. /\ Len(settings') = Len(settings) /\ settings' \in Seq(Settings)
        /\ \A j \in 1..Len(settings) :
             settings'[j] = IF j = 1 THEN [settings[j] EXCEPT !.done = TRUE] ELSE settings[j]
    BY <1>4, MarkDoneType DEF MarkSetupComplete, TypeOK
  <2>2. CASE settings = << >>
    <3>1. settings' = << >>
      BY <2>1, <2>2
    <3> QED
      BY <1>4, <1>1, <2>2, <3>1, EndMoves DEF MarkSetupComplete, Moves, Writing
  <2>3. CASE settings # << >>
    <3>1. 1 \in 1..Len(settings) /\ settings[1] \in Settings /\ settings' # << >>
      BY <2>1, <2>3 DEF TypeOK
    <3>2. settings'[1].from = settings[1].from /\ settings'[1].done
      BY <2>1, <3>1 DEF Settings
    <3>3. Moves(c, Places \ Writing) /\ UNCHANGED data
      BY <1>4, EndMoves DEF MarkSetupComplete, Moves, Writing
    <3> QED
      BY <1>0, <2>3, <3>1, <3>2, <3>3, ElsewhereDataFirst DEF Moves, FromBackup
  <2> QED
    BY <2>2, <2>3
<1>5. ASSUME NEW c \in Calls, CheckSetup(c) PROVE DataFirst'
  <2>1. CASE Complete \/ c \in Setups
    <3>1. Moves(c, Places \ Writing)
      <4>1. CASE Complete
        BY <1>5, <4>1, EndMoves DEF CheckSetup, Moves, Writing
      <4>2. CASE ~Complete /\ c \in Setups
        <5> DEFINE r == [call[c] EXCEPT !.at = "get", !.n = 1]
        <5>1. call' = [call EXCEPT ![c] = r]
          BY <1>5, <4>2 DEF CheckSetup
        <5>2. r.at = "get"
          BY DEF TypeOK, CallState
        <5> QED
          BY <5>1, <5>2 DEF TypeOK, Moves, Writing
      <4> QED
        BY <2>1, <4>1, <4>2
    <3> QED
      BY <1>1, <1>5, <3>1 DEF CheckSetup
  <2>2. CASE ~Complete /\ c \notin Setups
    <3> DEFINE r == [call[c] EXCEPT !.at = "clear", !.n = 1]
    <3>1. call' = [call EXCEPT ![c] = r]
      BY <1>5, <2>2 DEF CheckSetup
    <3>2. r.at = "clear" /\ r.n = 1
      BY DEF TypeOK, CallState
    <3> HIDE DEF r
    <3>3. /\ call'[c].at = "clear" /\ call'[c].n = 1
          /\ \A d \in Calls \ {c} : call'[d] = call[d]
      BY <3>1, <3>2 DEF TypeOK
    <3>4. ~FromBackup /\ UNCHANGED <<data, settings>>
      BY <1>5, <2>2 DEF CheckSetup, Complete, FromBackup, DataFirst, Promised
    <3>5. FromBackup' = FromBackup /\ (\A k : Filled(k)' <=> Filled(k))
      BY <3>4 DEF FromBackup, Filled
    <3>6. 1 \in 1..Collections /\ Filled(1 - 1)'
      BY CollectionsAssumption DEF Filled
    <3>7. \A d \in Restores : Progress(d)'
      BY <1>0, <3>3, <3>4, <3>5, <3>6 DEF DataFirst, Progress, At
    <3> QED
      BY <3>4, <3>5, <3>7 DEF DataFirst, Promised
  <2> QED
    BY <2>1, <2>2
<1>6. ASSUME NEW c \in Restores, ClearCollection(c) PROVE DataFirst'
  <2>1. At(c, "clear") /\ UNCHANGED settings /\ Moves(c, {"fill"}) /\ call'[c].n = call[c].n
    BY <1>0, <1>6, GoMoves DEF ClearCollection, Go, TypeOK, CallState
  <2>2. ~FromBackup /\ ~FromBackup'
    BY <2>1 DEF DataFirst, Progress, FromBackup, At
  <2>3. Filled(call[c].n - 1)'
    BY <1>6, <2>1, CollectionsAssumption DEF ClearCollection, DataFirst, Progress, At, Filled, TypeOK
  <2>4. \A d \in Restores \ {c} : At(d, "idle") /\ call'[d] = call[d]
    BY <1>0, <2>1 DEF RestoresApart, At, Moves
  <2>5. \A d \in Restores : Progress(d)'
    BY <1>0, <2>1, <2>2, <2>3, <2>4 DEF DataFirst, Progress, At, Moves
  <2> QED
    BY <2>2, <2>5 DEF DataFirst, Promised
<1>7. ASSUME NEW c \in Restores, FillCollection(c) PROVE DataFirst'
  <2>1. At(c, "fill") /\ UNCHANGED settings /\ data' = [data EXCEPT ![call[c].n] = "backup"]
    BY <1>7 DEF FillCollection
  <2>2. PICK n \in 1..Collections : n = call[c].n /\ Filled(n - 1) /\ ~FromBackup /\ ~FromBackup'
    BY <2>1 DEF DataFirst, Progress, FromBackup, At
  <2>3. Filled(n)'
    BY <2>1, <2>2, CollectionsAssumption DEF Filled, TypeOK
  <2>4. Moves(c, {"idle", "clearSettings", "clear"})
    BY <1>0, <1>7, FillMoves
  <2>5. \A d \in Restores \ {c} : At(d, "idle") /\ call'[d] = call[d]
    BY <1>0, <2>1, <2>4 DEF RestoresApart, At, Moves
  <2>6. Progress(c)'
    <3>1. CASE data[call[c].n] = "backup"
      BY <1>0, <1>7, <3>1, EndMoves DEF FillCollection, Progress, Moves, At
    <3>2. CASE data[call[c].n] # "backup" /\ call[c].n = Collections
      BY <1>0, <1>7, <2>2, <2>3, <3>2, GoMoves DEF FillCollection, Progress, Moves, At
    <3>3. CASE data[call[c].n] # "backup" /\ call[c].n # Collections
      <4>1. call'[c].at = "clear" /\ call'[c].n = call[c].n + 1
        BY <1>0, <1>7, <3>3 DEF FillCollection, TypeOK, CallState
      <4>2. n + 1 \in 1..Collections /\ n + 1 - 1 = n
        BY <2>2, <3>3, CollectionsAssumption
      <4> QED
        BY <2>2, <2>3, <4>1, <4>2 DEF Progress, At
    <3> QED
      BY <3>1, <3>2, <3>3
  <2>7. \A d \in Restores : Progress(d)'
    BY <2>5, <2>6 DEF Progress, At
  <2> QED
    BY <2>2, <2>7 DEF DataFirst, Promised
<1>8. ASSUME NEW c \in Restores, ClearSettings(c) PROVE DataFirst'
  <2>1. At(c, "clearSettings") /\ UNCHANGED data /\ settings' = << >> /\ Moves(c, {"fillSettings"})
    BY <1>0, <1>8, GoMoves DEF ClearSettings
  <2>2. ~FromBackup'
    BY <2>1 DEF FromBackup
  <2>3. Filled(Collections)'
    BY <2>1 DEF DataFirst, Progress, At, Filled
  <2>4. \A d \in Restores \ {c} : At(d, "idle") /\ call'[d] = call[d]
    BY <1>0, <2>1 DEF RestoresApart, At, Moves
  <2>5. \A d \in Restores : Progress(d)'
    BY <2>1, <2>2, <2>3, <2>4 DEF Progress, At, Moves
  <2> QED
    BY <2>2, <2>5 DEF DataFirst, Promised
<1>9. ASSUME NEW c \in Restores, FillSettings(c) PROVE DataFirst'
  <2>1. At(c, "fillSettings") /\ UNCHANGED data /\ Moves(c, {"idle", "clearUsers"})
    BY <1>0, <1>9, GoMoves, EndMoves DEF FillSettings, Moves
  <2>2. Filled(Collections) /\ Filled(Collections)'
    BY <2>1 DEF DataFirst, Progress, At, Filled
  <2>3. \A d \in Restores \ {c} : At(d, "idle") /\ call'[d] = call[d]
    BY <1>0, <2>1 DEF RestoresApart, At, Moves
  <2>4. \A d \in Restores : Progress(d)'
    BY <2>1, <2>3 DEF Progress, At, Moves
  <2>5. Promised'
    <3> DEFINE s == [done |-> TRUE, from |-> "backup"]
    <3>1. s \in Settings /\ s.done
      BY DEF Settings
    <3>2. settings' = settings \/ settings' = Append(settings, s)
      BY <1>9 DEF FillSettings
    <3> HIDE DEF s
    <3>3. CASE settings' = settings
      BY <2>2, <3>3 DEF DataFirst, Promised, FromBackup
    <3>4. CASE settings' = Append(settings, s)
      BY <2>2, <3>1, <3>4, AppendKeepsFirst DEF DataFirst, Promised, FromBackup
    <3> QED
      BY <3>2, <3>3, <3>4
  <2> QED
    BY <2>4, <2>5 DEF DataFirst
<1>10. ASSUME NEW c \in Restores, ClearUsers(c) \/ FillUsers(c) PROVE DataFirst'
  BY <1>0, <1>1, <1>10, GoMoves, EndMoves DEF ClearUsers, FillUsers, Moves, Writing
<1>11. CASE ApiRestarts
  <2>1. \A c \in Calls : call'[c].at = "idle"
    BY <1>11 DEF ApiRestarts, Idle
  <2> QED
    BY <1>0, <1>11, <2>1, ElsewhereDataFirst DEF ApiRestarts, FromBackup, Writing
<1>12. ASSUME UNCHANGED <<settings, data, call>> PROVE DataFirst'
  BY <1>12, ElsewhereDataFirst DEF FromBackup
<1>13. ASSUME NEW u \in Names, NEW role, AdminAdds(u, role) \/ AdminChanges(u, role) PROVE DataFirst'
  BY <1>12, <1>13 DEF AdminAdds, AdminChanges
<1>14. CASE UNCHANGED vars
  BY <1>12, <1>14 DEF vars
<1> QED
  BY <1>0, <1>2, <1>3, <1>4, <1>5, <1>6, <1>7, <1>8, <1>9, <1>10, <1>11, <1>13, <1>14
  DEF Next, SetupStep, RestoreStep

\* BackupService.restoreFull writes the settings last: as long as restores do not overlap,
\* an instance that counts as set up by a backup has all of its data, whatever setups,
\* failures and restarts came between the steps of the restore.
THEOREM RestoreIsWhole == Spec /\ []RestoresApart => []RestoredWithData
<1>1. Init => DataFirst
  BY DEF Init, Calls, Idle, DataFirst, Promised, Progress, FromBackup, At
<1>2. TypeOK /\ DataFirst /\ RestoresApart /\ [Next]_vars => DataFirst'
  BY DataFirstStep
<1>3. DataFirst => RestoredWithData
  BY DEF DataFirst, Promised, FromBackup, Filled, RestoredWithData
<1> QED
  BY <1>1, <1>2, <1>3, TypeCorrect, PTL DEF Spec

-----------------------------------------------------------------------------
(* The thing types: what a request asks for, and where system types are named *)

ItsCalls == Slots \cup {Other}

\* A request writes for its own type, or for a new one.
Request(r) ==
  /\ Types!IsList(r.got)
  /\ r.req \in {"create", "update"} => r.id \in Ids /\ r.body.slug \in Slugs
  /\ r.req = "create" => r.body.typed = New
  /\ r.req = "update" => r.body.typed = r.id
Requests == \A c \in ItsCalls : Request(itsCall[c])

Dialog ==
  /\ modal \in [open : BOOLEAN, editing : Ids \cup {None}, form : Types!Forms]
  /\ modal.open => /\ modal.form.slug \in Slugs
                   /\ modal.form.typed = IF modal.editing = None THEN New ELSE modal.editing

\* No two types hold one slug.
Apart == \A j, k \in DOMAIN types : types[j].slug = types[k].slug => j = k

\* Nothing is checked before the API listens.
Checking == ~listening => \A c \in ItsCalls : itsCall[c].at # "checked"

Restoring == Types!IsList(file) /\ Types!TypedFor(file) /\ (file = << >> \/ (overridden /\ ~calm))

TypesStored ==
  /\ Types!IsList(types) /\ Types!TypedFor(types) /\ Types!IsList(shown)
  /\ Requests /\ Dialog /\ Apart /\ Checking /\ Restoring

\* Type n of the list f is one of the system; a copy f of the list g, a dialog m and a
\* request r that name one of g have its slug, nothing deletes one, and a new type is new.
System(f, n) == n \in DOMAIN f /\ f[n].isSystem
Agree(f, g) == \A n \in DOMAIN f : System(g, n) => f[n].isSystem /\ f[n].slug = g[n].slug
DialogAgrees(m, g) == m.open /\ System(g, m.editing) => m.form.slug = g[m.editing].slug
Creates(r) == r.req = "create" /\ r.at \in {"sent", "checked"}
Harmless(r, g) ==
  /\ Agree(r.got, g)
  /\ Creates(r) => r.id \notin DOMAIN g
  /\ r.req = "update" /\ System(g, r.id) => r.body.slug = g[r.id].slug
  /\ ~(r.req = "delete" /\ r.at = "checked" /\ System(g, r.id))

\* Until the API is asked for it, all that names a system type leaves it as it is.
AllAgree ==
  /\ Agree(shown, types) /\ DialogAgrees(modal, types)
  /\ \A c \in ItsCalls : Harmless(itsCall[c], types)
  /\ \A c, d \in ItsCalls :
       Creates(itsCall[c]) /\ Creates(itsCall[d]) /\ itsCall[c].id = itsCall[d].id => c = d
LeftAlone == ~overridden => AllAgree

Buttons == \A b \in busy : \E c \in Types!Busy \ {Other} : itsCall[c].flag = b
Counted ==
  /\ listening \in BOOLEAN /\ calm \in BOOLEAN /\ overridden \in BOOLEAN
  /\ starts \in 0..MaxStarts /\ restarts \in 0..MaxRestarts

\* An administrator alone: one handler, that shows what is stored until it writes, and
\* then reads it again.
Alone == \A c, d \in Types!Busy : c = d /\ c # Other
Current(r) ==
  /\ r.req # "list" /\ r.at # "good" => shown = types
  /\ r.req = "list" => r.at \in {"sent", "checked"} \/ (r.at = "good" /\ r.got = types)
Followed ==
  IF listening THEN /\ Types!Busy = {} => shown = types
                    /\ \A c \in Types!Busy : Current(itsCall[c])
  ELSE \E c \in Types!Busy : Types!At(c, "sent", "list")
Calm == calm => Alone /\ Followed

Shaped(r) == DOMAIN r = {"at", "req", "id", "body", "flag", "got"}
CallsShaped == DOMAIN itsCall = ItsCalls /\ \A c \in ItsCalls : Shaped(itsCall[c])

TypesInv == TypesStored /\ LeftAlone /\ Buttons /\ Counted /\ Calm /\ CallsShaped
TypesIInv == which = "Types" => TypesInv

-----------------------------------------------------------------------------
(* What a step does to the requests, field by field *)

OthersStay(c) == \A d \in ItsCalls \ {c} : itsCall'[d] = itsCall[d]
Asks(c, kind, n, body) ==
  /\ itsCall'[c].req = kind /\ itsCall'[c].id = n
  /\ itsCall'[c].body = body /\ itsCall'[c].got = << >>
Same(c) ==
  /\ itsCall'[c].req = itsCall[c].req /\ itsCall'[c].id = itsCall[c].id
  /\ itsCall'[c].body = itsCall[c].body /\ itsCall'[c].flag = itsCall[c].flag
Goes(c, at) == itsCall'[c].at = at /\ Same(c) /\ itsCall'[c].got = itsCall[c].got

Answers(c) == Same(c) /\ itsCall'[c].at = "good" /\ itsCall'[c].got = types
Starts(c, kind, n, body) ==
  /\ itsCall[c].at = "idle" /\ itsCall'[c].at = "sent" /\ Asks(c, kind, n, body)
  /\ itsCall'[c].flag = IF kind = "delete" THEN "delete" ELSE "save"
Rereads(c) == itsCall'[c].at = "sent" /\ Asks(c, "list", None, None) /\ itsCall'[c].flag = itsCall[c].flag
Ends(c) == itsCall'[c].at = "idle" /\ Asks(c, "none", None, None)

LEMMA IdleShaped ==
  /\ Shaped(Types!Idle)
  /\ Types!Idle.at = "idle" /\ Types!Idle.req = "none" /\ Types!Idle.id = None
  /\ Types!Idle.body = None /\ Types!Idle.got = << >>
BY DEF Shaped, Types!Idle

LEMMA Replaced ==
  ASSUME CallsShaped, NEW c \in ItsCalls, NEW STATE r, Shaped(r), itsCall' = [itsCall EXCEPT ![c] = r]
  PROVE  itsCall'[c] = r /\ OthersStay(c) /\ CallsShaped'
<1>1. itsCall'[c] = r /\ OthersStay(c)
  BY DEF CallsShaped, OthersStay
<1>2. DOMAIN itsCall' = ItsCalls
  BY DEF CallsShaped
<1>3. \A d \in ItsCalls : Shaped(itsCall'[d])
  BY <1>1 DEF CallsShaped, OthersStay
<1> QED
  BY <1>1, <1>2, <1>3 DEF CallsShaped, Shaped

LEMMA GoEffect ==
  ASSUME CallsShaped, NEW c \in ItsCalls, NEW at, Types!Go(c, at)
  PROVE  OthersStay(c) /\ Goes(c, at) /\ CallsShaped'
<1> DEFINE r == [itsCall[c] EXCEPT !.at = at]
<1>1. Shaped(itsCall[c])
  BY DEF CallsShaped
<1>2. /\ Shaped(r) /\ r.at = at /\ r.req = itsCall[c].req /\ r.id = itsCall[c].id
      /\ r.body = itsCall[c].body /\ r.flag = itsCall[c].flag /\ r.got = itsCall[c].got
  BY <1>1 DEF Shaped
<1>3. itsCall' = [itsCall EXCEPT ![c] = r]
  BY DEF Types!Go
<1> HIDE DEF r
<1> QED
  BY <1>2, <1>3, Replaced DEF Goes, Same

LEMMA AnswerEffect ==
  ASSUME CallsShaped, NEW c \in ItsCalls, Types!findAll(c)
  PROVE  OthersStay(c) /\ Answers(c) /\ CallsShaped'
<1> DEFINE r == [itsCall[c] EXCEPT !.at = "good", !.got = types]
<1>1. Shaped(itsCall[c])
  BY DEF CallsShaped
<1>2. /\ Shaped(r) /\ r.at = "good" /\ r.req = itsCall[c].req /\ r.id = itsCall[c].id
      /\ r.body = itsCall[c].body /\ r.flag = itsCall[c].flag /\ r.got = types
  BY <1>1 DEF Shaped
<1>3. itsCall' = [itsCall EXCEPT ![c] = r]
  BY DEF Types!findAll
<1> HIDE DEF r
<1> QED
  BY <1>2, <1>3, Replaced DEF Answers, Same

LEMMA StartEffect ==
  ASSUME CallsShaped, NEW c \in ItsCalls, NEW kind, NEW n, NEW body, Types!Start(c, kind, n, body)
  PROVE  OthersStay(c) /\ Starts(c, kind, n, body) /\ CallsShaped'
<1> DEFINE r == [Types!Idle EXCEPT !.at = "sent", !.req = kind, !.id = n, !.body = body,
                                   !.flag = IF kind = "delete" THEN "delete" ELSE "save"]
<1>1. /\ Shaped(r) /\ r.at = "sent" /\ r.req = kind /\ r.id = n /\ r.body = body /\ r.got = << >>
      /\ r.flag = IF kind = "delete" THEN "delete" ELSE "save"
  BY IdleShaped DEF Shaped
<1>2. itsCall' = [itsCall EXCEPT ![c] = r] /\ itsCall[c].at = "idle"
  BY DEF Types!Start
<1> HIDE DEF r
<1> QED
  BY <1>1, <1>2, Replaced DEF Starts, Asks

LEMMA SavedEffect ==
  ASSUME CallsShaped, NEW c \in ItsCalls, Types!Saved(c)
  PROVE  OthersStay(c) /\ Rereads(c) /\ CallsShaped'
<1> DEFINE r == [Types!Idle EXCEPT !.at = "sent", !.req = "list", !.flag = itsCall[c].flag]
<1>1. /\ Shaped(r) /\ r.at = "sent" /\ r.req = "list" /\ r.id = None /\ r.body = None
      /\ r.got = << >> /\ r.flag = itsCall[c].flag
  BY IdleShaped DEF Shaped
<1>2. itsCall' = [itsCall EXCEPT ![c] = r]
  BY DEF Types!Saved
<1> HIDE DEF r
<1> QED
  BY <1>1, <1>2, Replaced DEF Rereads, Asks

LEMMA IdleEffect ==
  ASSUME CallsShaped, NEW c \in ItsCalls, itsCall' = [itsCall EXCEPT ![c] = Types!Idle]
  PROVE  OthersStay(c) /\ Ends(c) /\ CallsShaped'
<1>1. itsCall'[c] = Types!Idle /\ OthersStay(c) /\ CallsShaped'
  BY IdleShaped, Replaced
<1> QED
  BY <1>1, IdleShaped DEF Ends, Asks

LEMMA RestartEffect ==
  ASSUME CallsShaped, Types!Restart
  PROVE  /\ CallsShaped'
         /\ \A c \in ItsCalls : Goes(c, IF itsCall[c].at = "checked" THEN "bad" ELSE itsCall[c].at)
<1> DEFINE r(c) == IF itsCall[c].at = "checked" THEN [itsCall[c] EXCEPT !.at = "bad"] ELSE itsCall[c]
<1>1. ASSUME NEW c \in ItsCalls
      PROVE  /\ Shaped(r(c)) /\ r(c).req = itsCall[c].req /\ r(c).id = itsCall[c].id
             /\ r(c).body = itsCall[c].body /\ r(c).flag = itsCall[c].flag /\ r(c).got = itsCall[c].got
             /\ r(c).at = IF itsCall[c].at = "checked" THEN "bad" ELSE itsCall[c].at
  BY DEF Shaped, CallsShaped
<1>2. itsCall' = [c \in ItsCalls |-> r(c)]
  BY DEF Types!Restart, ItsCalls
<1> HIDE DEF r
<1>3. \A c \in ItsCalls : itsCall'[c] = r(c)
  BY <1>2
<1>4. \A c \in ItsCalls : Goes(c, IF itsCall[c].at = "checked" THEN "bad" ELSE itsCall[c].at)
  BY <1>1, <1>3 DEF Goes, Same
<1>5. DOMAIN itsCall' = ItsCalls /\ \A c \in ItsCalls : Shaped(itsCall'[c])
  BY <1>1, <1>2, <1>3
<1> QED
  BY <1>4, <1>5 DEF CallsShaped, Shaped

-----------------------------------------------------------------------------
(* Every step keeps the rows, the requests and the dialog *)

LEMMA RequestStays ==
  ASSUME Requests, NEW c \in ItsCalls, OthersStay(c), Request(itsCall'[c])
  PROVE  Requests'
<1>1. \A d \in ItsCalls : Request(itsCall'[d])
  BY DEF Requests, OthersStay
<1> QED
  BY <1>1 DEF Requests

LEMMA GoKeeps ==
  ASSUME Requests, NEW c \in ItsCalls, NEW at, Goes(c, at)
  PROVE  Request(itsCall'[c])
BY DEF Requests, Request, Goes, Same

LEMMA NothingGot == Types!IsList(<< >>) /\ Types!TypedFor(<< >>)
BY DEF Types!IsList, Types!TypedFor

LEMMA AskKeeps ==
  ASSUME NEW c \in ItsCalls, NEW kind, NEW n, NEW body, Asks(c, kind, n, body),
         kind \in {"create", "update"} => n \in Ids /\ body.slug \in Slugs,
         kind = "create" => body.typed = New,
         kind = "update" => body.typed = n
  PROVE  Request(itsCall'[c])
BY NothingGot DEF Request, Asks

\* A type that is written takes a slug no other holds.
WritesRow(n, r) ==
  /\ DOMAIN types' = DOMAIN types \cup {n} /\ types'[n] = r
  /\ \A k \in DOMAIN types \ {n} : types'[k] = types[k]

LEMMA Written ==
  ASSUME Types!IsList(types), Types!TypedFor(types), Apart, NEW n \in Ids, NEW r \in Types!Types,
         WritesRow(n, r), r.typed \in IF r.isSystem THEN {n} ELSE {n, New},
         Types!Holds(r.slug) \subseteq {n}
  PROVE  Types!IsList(types') /\ Types!TypedFor(types') /\ Apart'
<1>1. Types!IsList(types')
  BY DEF Types!IsList, WritesRow
<1>2. \A k \in DOMAIN types' : k = n \/ types'[k] = types[k]
  BY DEF WritesRow
<1>3. Types!TypedFor(types')
  BY <1>2 DEF Types!TypedFor, WritesRow
<1>4. \A k \in DOMAIN types \ {n} : types[k].slug # r.slug
  BY DEF Types!Holds
<1>5. \A j, k \in DOMAIN types' : types'[j].slug = types'[k].slug => j = k
  BY <1>4 DEF Apart, WritesRow
<1> QED
  BY <1>1, <1>3, <1>5 DEF Apart

LEMMA CreateRow ==
  ASSUME TypesStored, NEW c \in ItsCalls, Types!create(c), types' # types
  PROVE  \E r \in Types!Types :
            /\ WritesRow(itsCall[c].id, r) /\ itsCall[c].id \in Ids /\ ~r.isSystem /\ r.typed = New
            /\ Types!Holds(r.slug) = {} /\ Types!Go(c, "good")
<1> DEFINE n == itsCall[c].id
           r == [slug |-> itsCall[c].body.slug, isSystem |-> FALSE, typed |-> itsCall[c].body.typed]
<1>1. types' = Types!With(types, n, r) /\ Types!Holds(r.slug) = {} /\ Types!Go(c, "good")
  BY DEF Types!create
<1>2. n \in Ids /\ r.slug \in Slugs /\ r.typed = New /\ ~r.isSystem /\ r \in Types!Types
  BY DEF TypesStored, Requests, Request, Types!create, Types!At, Types!Types
<1> HIDE DEF n, r
<1>3. WritesRow(n, r)
  BY <1>1 DEF Types!With, WritesRow
<1> QED
  BY <1>1, <1>2, <1>3 DEF n

LEMMA UpdateRow ==
  ASSUME TypesStored, NEW c \in ItsCalls, Types!update(c), types' # types
  PROVE  \E r \in Types!Types :
            /\ WritesRow(itsCall[c].id, r) /\ itsCall[c].id \in DOMAIN types
            /\ r.isSystem = types[itsCall[c].id].isSystem /\ r.slug = itsCall[c].body.slug
            /\ r.typed = itsCall[c].id
            /\ Types!Holds(r.slug) \subseteq {itsCall[c].id} /\ Types!Go(c, "good")
<1> DEFINE n == itsCall[c].id
           b == itsCall[c].body
           r == [types[n] EXCEPT !.slug = b.slug, !.typed = b.typed]
<1>1. /\ types' = [types EXCEPT ![n] = r] /\ n \in DOMAIN types
      /\ Types!Holds(b.slug) \subseteq {n} /\ Types!Go(c, "good")
  BY DEF Types!update
<1>2. n \in Ids /\ b.slug \in Slugs /\ b.typed = n
  BY DEF TypesStored, Requests, Request, Types!update, Types!At
<1>3. types[n] \in Types!Types
  BY <1>1 DEF TypesStored, Types!IsList
<1>4. r \in Types!Types /\ r.slug = b.slug /\ r.typed = n /\ r.isSystem = types[n].isSystem
  BY <1>2, <1>3 DEF Types!Types
<1> HIDE DEF r
<1>5. WritesRow(n, r)
  BY <1>1 DEF WritesRow
<1> QED
  BY <1>1, <1>4, <1>5

LEMMA Removed ==
  ASSUME NEW f, NEW n
  PROVE  /\ DOMAIN Types!Without(f, n) = DOMAIN f \ {n}
         /\ \A k \in DOMAIN f \ {n} : Types!Without(f, n)[k] = f[k]
BY DEF Types!Without

\* What is fresh is named nowhere.
LEMMA FreshIs ==
  ASSUME NEW n \in Types!Fresh
  PROVE  /\ n \in Ids /\ n \notin DOMAIN types /\ n \notin DOMAIN shown /\ n # modal.editing
         /\ \A c \in ItsCalls : n # itsCall[c].id /\ n \notin DOMAIN itsCall[c].got
BY DEF Types!Fresh, Types!Known, ItsCalls

LEMMA SeedRow ==
  ASSUME NEW slug \in Seeds, Types!Seed(slug)
  PROVE  \E n \in Types!Fresh, r \in Types!Types :
            /\ WritesRow(n, r) /\ r.isSystem /\ r.typed = n /\ Types!Holds(r.slug) = {}
<1> PICK n \in Types!Fresh :
       types' = Types!With(types, n, [slug |-> slug, isSystem |-> TRUE, typed |-> n])
  BY DEF Types!Seed
<1> DEFINE r == [slug |-> slug, isSystem |-> TRUE, typed |-> n]
<1>1. Types!Holds(r.slug) = {}
  BY DEF Types!Seed
<1>2. r \in Types!Types /\ r.typed = n /\ r.isSystem
  BY FreshIs, TypesAssumption DEF Types!Types, Types!IdsExist
<1>3. types' = Types!With(types, n, r)
  OBVIOUS
<1> HIDE DEF r
<1>4. WritesRow(n, r)
  BY <1>3 DEF Types!With, WritesRow
<1> QED
  BY <1>1, <1>2, <1>4

LEMMA RestoreRow ==
  ASSUME TypesStored, NEW n, Types!restoreInserts(n), types' # types
  PROVE  /\ WritesRow(n, file[n]) /\ n \in Ids /\ file[n] \in Types!Types
         /\ file[n].typed \in IF file[n].isSystem THEN {n} ELSE {n, New}
         /\ Types!Holds(file[n].slug) = {}
<1>1. types' = Types!With(types, n, file[n]) /\ Types!Holds(file[n].slug) = {} /\ n \in DOMAIN file
  BY DEF Types!restoreInserts
<1>2. n \in Ids /\ file[n] \in Types!Types
      /\ file[n].typed \in IF file[n].isSystem THEN {n} ELSE {n, New}
  BY <1>1 DEF TypesStored, Restoring, Types!IsList, Types!TypedFor
<1>3. WritesRow(n, file[n])
  BY <1>1 DEF Types!With, WritesRow
<1> QED
  BY <1>1, <1>2, <1>3

\* What every request leaves alone, whoever asks.
LEMMA AskLeaves ==
  ASSUME NEW c, NEW kind, NEW n, NEW body, Types!Start(c, kind, n, body)
  PROVE  /\ UNCHANGED <<types, listening, shown, modal, file, restarts>>
         /\ starts < MaxStarts /\ starts' = starts + 1
         /\ calm' \in BOOLEAN /\ (calm' => calm)
<1>1. /\ UNCHANGED <<types, listening, shown, modal, file, restarts>>
      /\ starts < MaxStarts /\ starts' = starts + 1
      /\ calm' = (calm /\ Types!Busy = {} /\ c # Other)
  BY DEF Types!Start
<1>2. calm' \in BOOLEAN /\ (calm' => calm)
  BY <1>1, Zenon
<1> QED
  BY <1>1, <1>2

LEMMA StartAsks ==
  ASSUME \/ \E c \in ItsCalls : Types!handleCreateOrUpdateType(c) \/ Types!handleDeleteType(c)
         \/ Types!OtherAdmin
  PROVE  \E c \in ItsCalls : \E kind, n, body : Types!Start(c, kind, n, body)
<1>1. ASSUME NEW c \in ItsCalls, Types!handleCreateOrUpdateType(c) \/ Types!handleDeleteType(c)
      PROVE  \E kind, n, body : Types!Start(c, kind, n, body)
  BY <1>1, Zenon DEF Types!handleCreateOrUpdateType, Types!handleDeleteType
<1>2. CASE Types!OtherAdmin
  <2>1. \E kind, n, body : Types!Start(Other, kind, n, body)
    BY <1>2, Zenon DEF Types!OtherAdmin
  <2> QED
    BY <2>1 DEF ItsCalls
<1> QED
  BY <1>1, <1>2

LEMMA RestoringStep ==
  ASSUME Restoring, [Types!Next]_(Types!vars)
  PROVE  Restoring'
<1>1. CASE Types!restoreClears
  <2>1. file' \in Backups /\ overridden' /\ ~calm'
    BY <1>1 DEF Types!restoreClears
  <2>2. Types!IsList(file') /\ Types!TypedFor(file')
    BY <2>1, TypesAssumption DEF Types!BackupsExist
  <2> QED
    BY <2>1, <2>2 DEF Restoring
<1>2. ASSUME NEW n \in Ids, Types!restoreInserts(n) PROVE Restoring'
  <2>1. file' = << >> \/ file' = Types!Without(file, n)
    BY <1>2 DEF Types!restoreInserts
  <2>2. overridden' = overridden /\ calm' = calm /\ n \in DOMAIN file
    BY <1>2 DEF Types!restoreInserts
  <2>3. overridden /\ ~calm
    BY <2>2 DEF Restoring
  <2>4. CASE file' = Types!Without(file, n)
    <3>1. DOMAIN file' \subseteq DOMAIN file /\ \A k \in DOMAIN file' : file'[k] = file[k]
      BY <2>4, Removed
    <3>2. Types!IsList(file')
      BY <3>1 DEF Restoring, Types!IsList
    <3>3. Types!TypedFor(file')
      BY <3>1 DEF Restoring, Types!TypedFor
    <3> QED
      BY <2>2, <2>3, <3>2, <3>3 DEF Restoring
  <2>5. CASE file' = << >>
    BY <2>5, NothingGot DEF Restoring
  <2> QED
    BY <2>1, <2>4, <2>5
<1>3. CASE Types!Restart
  BY <1>3, NothingGot DEF Types!Restart, Restoring
<1>4. CASE file' = file /\ (overridden => overridden') /\ (calm' => calm)
  BY <1>4 DEF Restoring
<1>5. CASE \E c \in ItsCalls : Types!Click(c)
  <2>1. overridden' = overridden
    BY <1>5 DEF Types!Click, Types!handleCreateOrUpdateType, Types!handleDeleteType
  <2>2. file' = file /\ (calm' => calm)
    BY <1>5, StartAsks, AskLeaves DEF Types!Click
  <2> QED
    BY <1>4, <2>1, <2>2
<1>6. CASE Types!OtherAdmin
  <2>1. overridden => overridden'
    BY <1>6 DEF Types!OtherAdmin
  <2>2. file' = file /\ (calm' => calm)
    BY <1>6, StartAsks, AskLeaves
  <2> QED
    BY <1>4, <2>1, <2>2
<1>7. CASE \E c \in ItsCalls : Types!Serve(c)
  BY <1>4, <1>7 DEF Types!Serve, Types!CheckSlug, Types!create, Types!update, Types!CheckSystem,
     Types!delete, Types!findAll, Types!Fails, Types!ApiUnchanged
<1>8. CASE \E c \in ItsCalls : Types!Meet(c)
  BY <1>4, <1>8 DEF Types!Meet, Types!Saved, Types!fetchTypes, Types!Failed
<1>9. CASE \/ Types!openCreateTypeModal \/ (\E n \in Ids : Types!openEditTypeModal(n))
           \/ Types!OtherAnswered \/ (\E slug \in Seeds : Types!Seed(slug)) \/ Types!Listen
           \/ UNCHANGED Types!vars
  BY <1>4, <1>9 DEF Types!OtherAnswered, Types!Seed, Types!Listen, Types!openCreateTypeModal,
     Types!openEditTypeModal, Types!vars
<1> QED
  BY <1>1, <1>2, <1>3, <1>5, <1>6, <1>7, <1>8, <1>9 DEF Types!Next, ItsCalls

\* The requests and the types are the API's, the dialog and the copy the page's.
LEMMA DialogStep ==
  ASSUME TypesStored, [Types!Next]_(Types!vars)
  PROVE  Dialog'
<1>1. CASE Types!openCreateTypeModal
  BY <1>1, TypesAssumption DEF Dialog, Types!openCreateTypeModal, Types!Forms, Types!IdsExist
<1>2. CASE \E n \in Ids : Types!openEditTypeModal(n)
  <2> PICK n \in Ids : Types!openEditTypeModal(n)
    BY <1>2
  <2>1. n \in DOMAIN shown /\ shown[n] \in Types!Types
    BY DEF TypesStored, Types!IsList, Types!openEditTypeModal
  <2>2. PICK slug \in Types!SlugFor(n) :
          modal' = [open |-> TRUE, editing |-> n, form |-> [slug |-> slug, typed |-> n]]
    BY DEF Types!openEditTypeModal
  <2>3. slug \in Slugs
    BY <2>1, <2>2 DEF Types!SlugFor, Types!Types
  <2> QED
    BY <2>2, <2>3, TypesAssumption DEF Dialog, Types!Forms, Types!IdsExist
<1>3. CASE \E c \in ItsCalls : Types!Saved(c)
  <2>1. modal' = modal \/ modal' = [modal EXCEPT !.open = FALSE]
    BY <1>3 DEF Types!Saved
  <2> QED
    BY <2>1 DEF TypesStored, Dialog
<1>4. CASE UNCHANGED modal
  BY <1>4 DEF TypesStored, Dialog
<1> QED
  BY <1>1, <1>2, <1>3, <1>4 DEF Types!Next, Types!Click, Types!Serve, Types!Meet, Types!vars, ItsCalls,
     Types!handleCreateOrUpdateType, Types!handleDeleteType, Types!OtherAdmin, Types!Start,
     Types!CheckSlug, Types!create, Types!update, Types!CheckSystem, Types!delete, Types!findAll,
     Types!Fails, Types!ApiUnchanged, Types!fetchTypes, Types!Failed, Types!OtherAnswered,
     Types!Restart, Types!Seed, Types!Listen, Types!restoreClears, Types!restoreInserts

LEMMA ShownStep ==
  ASSUME TypesStored, [Types!Next]_(Types!vars)
  PROVE  Types!IsList(shown')
<1>1. CASE \E c \in ItsCalls : Types!fetchTypes(c)
  BY <1>1 DEF TypesStored, Requests, Request, Types!fetchTypes
<1>2. CASE UNCHANGED shown
  BY <1>2 DEF TypesStored
<1> QED
  BY <1>1, <1>2 DEF Types!Next, Types!Click, Types!Serve, Types!Meet, Types!vars, ItsCalls,
     Types!handleCreateOrUpdateType, Types!handleDeleteType, Types!OtherAdmin, Types!Start,
     Types!CheckSlug, Types!create, Types!update, Types!CheckSystem, Types!delete, Types!findAll,
     Types!Fails, Types!ApiUnchanged, Types!Saved, Types!Failed, Types!OtherAnswered,
     Types!Restart, Types!Seed, Types!Listen, Types!openCreateTypeModal, Types!openEditTypeModal,
     Types!restoreClears, Types!restoreInserts

LEMMA TypesStep ==
  ASSUME TypesStored, [Types!Next]_(Types!vars)
  PROVE  Types!IsList(types') /\ Types!TypedFor(types') /\ Apart'
<1>1. ASSUME NEW c \in ItsCalls, Types!create(c)
      PROVE  Types!IsList(types') /\ Types!TypedFor(types') /\ Apart'
  <2>1. CASE types' # types
    BY <1>1, <2>1, CreateRow, Written DEF TypesStored
  <2> QED
    BY <2>1 DEF TypesStored, Apart
<1>2. ASSUME NEW c \in ItsCalls, Types!update(c)
      PROVE  Types!IsList(types') /\ Types!TypedFor(types') /\ Apart'
  <2>1. CASE types' # types
    <3>1. itsCall[c].id \in Ids
      BY <1>2, <2>1, UpdateRow DEF TypesStored, Types!IsList
    <3> QED
      BY <1>2, <2>1, <3>1, UpdateRow, Written DEF TypesStored
  <2> QED
    BY <2>1 DEF TypesStored, Apart
<1>3. ASSUME NEW c \in ItsCalls, Types!delete(c)
      PROVE  Types!IsList(types') /\ Types!TypedFor(types') /\ Apart'
  <2>1. types' = Types!Without(types, itsCall[c].id)
    BY <1>3 DEF Types!delete
  <2>2. DOMAIN types' \subseteq DOMAIN types /\ \A k \in DOMAIN types' : types'[k] = types[k]
    BY <2>1 DEF Types!Without
  <2>3. Types!IsList(types') /\ Apart'
    BY <2>2 DEF TypesStored, Types!IsList, Apart
  <2>4. Types!TypedFor(types')
    BY <2>2 DEF TypesStored, Types!TypedFor
  <2> QED
    BY <2>3, <2>4
<1>4. ASSUME NEW slug \in Seeds, Types!Seed(slug)
      PROVE  Types!IsList(types') /\ Types!TypedFor(types') /\ Apart'
  BY <1>4, SeedRow, FreshIs, Written DEF TypesStored
<1>5. ASSUME NEW n \in Ids, Types!restoreInserts(n)
      PROVE  Types!IsList(types') /\ Types!TypedFor(types') /\ Apart'
  <2>1. CASE types' # types
    BY <1>5, <2>1, RestoreRow, Written DEF TypesStored
  <2> QED
    BY <2>1 DEF TypesStored, Apart
<1>6. CASE Types!restoreClears
  BY <1>6, NothingGot DEF Types!restoreClears, Apart
<1>7. CASE UNCHANGED types
  BY <1>7 DEF TypesStored, Apart
<1> QED
  BY <1>1, <1>2, <1>3, <1>4, <1>5, <1>6, <1>7 DEF Types!Next, Types!Click, Types!Serve, Types!Meet,
     Types!vars, ItsCalls,
     Types!handleCreateOrUpdateType, Types!handleDeleteType, Types!OtherAdmin, Types!Start,
     Types!CheckSlug, Types!CheckSystem, Types!findAll, Types!Fails, Types!ApiUnchanged,
     Types!Saved, Types!fetchTypes, Types!Failed, Types!OtherAnswered, Types!Restart, Types!Listen,
     Types!openCreateTypeModal, Types!openEditTypeModal

\* A request as it is asked: by a page, a system type keeps its slug, and a new type is new.
Asked(kind, n, body) ==
  /\ kind \in {"create", "update"} => n \in Ids /\ body.slug \in Slugs
  /\ kind = "create" => body.typed = New
  /\ kind = "update" => body.typed = n
AskedWell(kind, n, body) ==
  /\ overridden => overridden'
  /\ kind = "create" => n \in Types!Fresh
  /\ ~overridden' /\ LeftAlone /\ kind = "update" /\ System(types, n) => body.slug = types[n].slug

LEMMA StartAsked ==
  ASSUME TypesStored,
         \/ \E c \in ItsCalls : Types!handleCreateOrUpdateType(c) \/ Types!handleDeleteType(c)
         \/ Types!OtherAdmin
  PROVE  \E c \in ItsCalls, kind \in {"create", "update", "delete"} : \E n, body :
            Types!Start(c, kind, n, body) /\ Asked(kind, n, body) /\ AskedWell(kind, n, body)
<1>1. CASE \E c \in ItsCalls : Types!handleCreateOrUpdateType(c)
  <2> PICK c \in ItsCalls : Types!handleCreateOrUpdateType(c)
    BY <1>1
  <2> PICK body : body = modal.form
    OBVIOUS
  <2> PICK n : n = modal.editing
    OBVIOUS
  <2>1. modal.open /\ body.slug \in Slugs /\ n \in Ids \cup {None}
        /\ body.typed = (IF n = None THEN New ELSE n) /\ overridden' = overridden
    BY DEF TypesStored, Dialog, Types!handleCreateOrUpdateType
  <2>2. CASE n = None
    <3> PICK k \in Types!Fresh : Types!Start(c, "create", k, body)
      BY <2>2 DEF Types!handleCreateOrUpdateType
    <3> QED
      BY <2>1, <2>2, FreshIs DEF Asked, AskedWell
  <2>3. CASE n # None
    <3>1. Types!Start(c, "update", n, body)
      BY <2>3 DEF Types!handleCreateOrUpdateType
    <3>2. AskedWell("update", n, body)
      BY <2>1 DEF AskedWell, LeftAlone, AllAgree, DialogAgrees
    <3> QED
      BY <2>1, <2>3, <3>1, <3>2 DEF Asked
  <2> QED
    BY <2>2, <2>3
<1>2. CASE \E c \in ItsCalls : Types!handleDeleteType(c)
  BY <1>2 DEF Types!handleDeleteType, Asked, AskedWell
<1>3. CASE Types!OtherAdmin
  <2>1. CASE \E n \in DOMAIN types : Types!Start(Other, "delete", n, None) /\ UNCHANGED overridden
    BY <2>1 DEF Asked, AskedWell, ItsCalls
  <2>2. ASSUME NEW n \in DOMAIN types, NEW slug \in Slugs,
               overridden' = (overridden \/ (types[n].isSystem /\ slug # types[n].slug)),
               Types!Start(Other, "update", n, [slug |-> slug, typed |-> n])
        PROVE  LET b == [slug |-> slug, typed |-> n]
               IN Types!Start(Other, "update", n, b) /\ Asked("update", n, b) /\ AskedWell("update", n, b)
    BY <2>2 DEF Asked, AskedWell, System, TypesStored, Types!IsList
  <2>3. ASSUME NEW n \in Types!Fresh, NEW slug \in Slugs, UNCHANGED overridden,
               Types!Start(Other, "create", n, [slug |-> slug, typed |-> New])
        PROVE  LET b == [slug |-> slug, typed |-> New]
               IN Types!Start(Other, "create", n, b) /\ Asked("create", n, b) /\ AskedWell("create", n, b)
    BY <2>3, FreshIs DEF Asked, AskedWell
  <2> QED
    BY <1>3, <2>1, <2>2, <2>3 DEF Types!OtherAdmin, ItsCalls
<1> QED
  BY <1>1, <1>2, <1>3

LEMMA StartStep ==
  ASSUME TypesStored, CallsShaped,
         \/ \E c \in ItsCalls : Types!handleCreateOrUpdateType(c) \/ Types!handleDeleteType(c)
         \/ Types!OtherAdmin
  PROVE  /\ CallsShaped' /\ Requests'
         /\ \A d \in ItsCalls : itsCall'[d].at = "checked" => itsCall[d].at = "checked"
<1> PICK c \in ItsCalls, kind \in {"create", "update", "delete"} :
       \E n, body : Types!Start(c, kind, n, body) /\ Asked(kind, n, body)
  BY StartAsked
<1> PICK n, body : Types!Start(c, kind, n, body) /\ Asked(kind, n, body)
  OBVIOUS
<1>1. OthersStay(c) /\ Starts(c, kind, n, body) /\ CallsShaped'
  BY StartEffect
<1>2. Request(itsCall'[c])
  BY <1>1, AskKeeps DEF Asked, Starts
<1> QED
  BY <1>1, <1>2, RequestStays DEF TypesStored, Starts, OthersStay

LEMMA ServeStep ==
  ASSUME TypesStored, CallsShaped, NEW c \in ItsCalls, Types!Serve(c)
  PROVE  /\ CallsShaped' /\ Requests'
         /\ \A d \in ItsCalls : itsCall'[d].at = "checked" => itsCall[d].at = "checked" \/ listening
<1>1. CASE Types!findAll(c)
  <2>1. itsCall[c].req = "list"
    BY <1>1 DEF Types!findAll, Types!At
  <2>2. OthersStay(c) /\ Answers(c) /\ CallsShaped'
    BY <1>1, AnswerEffect
  <2>3. Request(itsCall'[c])
    BY <2>1, <2>2 DEF TypesStored, Requests, Request, Answers, Same
  <2> QED
    BY <2>2, <2>3, RequestStays DEF TypesStored, Answers, OthersStay
<1>2. ASSUME NEW at, Types!Go(c, at), at = "checked" => listening
      PROVE  /\ CallsShaped' /\ Requests'
             /\ \A d \in ItsCalls : itsCall'[d].at = "checked" => itsCall[d].at = "checked" \/ listening
  <2>1. OthersStay(c) /\ Goes(c, at) /\ CallsShaped'
    BY <1>2, GoEffect
  <2>2. Request(itsCall'[c])
    BY <1>2, <2>1, GoKeeps DEF TypesStored
  <2> QED
    BY <1>2, <2>1, <2>2, RequestStays DEF TypesStored, Goes, OthersStay
<1>3. CASE Types!CheckSlug(c) \/ Types!CheckSystem(c)
  <2>1. listening /\ (Types!Go(c, "checked") \/ Types!Go(c, "bad"))
    BY <1>3 DEF Types!CheckSlug, Types!CheckSystem
  <2> QED
    BY <1>2, <2>1
<1>4. CASE Types!create(c) \/ Types!update(c) \/ Types!delete(c) \/ Types!Fails(c)
  <2>1. Types!Go(c, "good") \/ Types!Go(c, "bad")
    BY <1>4 DEF Types!create, Types!update, Types!delete, Types!Fails
  <2> QED
    BY <1>2, <2>1
<1> QED
  BY <1>1, <1>3, <1>4 DEF Types!Serve

LEMMA MeetStep ==
  ASSUME TypesStored, CallsShaped, NEW c \in ItsCalls,
         Types!Meet(c) \/ (c = Other /\ Types!OtherAnswered)
  PROVE  /\ CallsShaped' /\ Requests'
         /\ \A d \in ItsCalls : itsCall'[d].at = "checked" => itsCall[d].at = "checked"
<1>1. CASE Types!Saved(c)
  <2>1. OthersStay(c) /\ Rereads(c) /\ CallsShaped'
    BY <1>1, SavedEffect
  <2>2. Request(itsCall'[c])
    BY <2>1, NothingGot DEF Request, Rereads, Asks
  <2> QED
    BY <2>1, <2>2, RequestStays DEF TypesStored, Rereads, OthersStay
<1>2. CASE Types!fetchTypes(c) \/ Types!Failed(c) \/ (c = Other /\ Types!OtherAnswered)
  <2>1. itsCall' = [itsCall EXCEPT ![c] = Types!Idle]
    BY <1>2 DEF Types!fetchTypes, Types!Failed, Types!OtherAnswered
  <2>2. OthersStay(c) /\ Ends(c) /\ CallsShaped'
    BY <2>1, IdleEffect
  <2>3. Request(itsCall'[c])
    BY <2>2, NothingGot DEF Request, Ends, Asks
  <2> QED
    BY <2>2, <2>3, RequestStays DEF TypesStored, Ends, OthersStay
<1> QED
  BY <1>1, <1>2 DEF Types!Meet

LEMMA CallsStep ==
  ASSUME TypesStored, CallsShaped, [Types!Next]_(Types!vars)
  PROVE  CallsShaped' /\ Requests' /\ Checking'
<1>1. CASE \/ \E c \in ItsCalls : Types!handleCreateOrUpdateType(c) \/ Types!handleDeleteType(c)
           \/ Types!OtherAdmin
  <2>1. listening' = listening
    BY <1>1, StartAsks, AskLeaves
  <2> QED
    BY <1>1, <2>1, StartStep DEF TypesStored, Checking
<1>2. CASE \E c \in ItsCalls : Types!Serve(c)
  <2>1. listening' = listening
    BY <1>2 DEF Types!Serve, Types!CheckSlug, Types!create, Types!update, Types!CheckSystem, Types!delete,
       Types!findAll, Types!Fails, Types!ApiUnchanged
  <2> QED
    BY <1>2, <2>1, ServeStep DEF TypesStored, Checking
<1>3. CASE Types!OtherAnswered \/ \E c \in ItsCalls : Types!Meet(c)
  <2>1. listening' = listening
    <3>1. CASE Types!OtherAnswered
      BY <3>1 DEF Types!OtherAnswered
    <3>2. CASE \E c \in ItsCalls : Types!Meet(c)
      BY <3>2 DEF Types!Meet, Types!Saved, Types!fetchTypes, Types!Failed
    <3> QED
      BY <1>3, <3>1, <3>2
  <2> QED
    BY <1>3, <2>1, MeetStep DEF TypesStored, Checking, ItsCalls
<1>4. CASE Types!Restart
  <2>1. /\ CallsShaped'
        /\ \A c \in ItsCalls : Goes(c, IF itsCall[c].at = "checked" THEN "bad" ELSE itsCall[c].at)
    BY <1>4, RestartEffect
  <2>2. \A c \in ItsCalls : Request(itsCall'[c])
    BY <2>1, GoKeeps DEF TypesStored
  <2>3. Requests'
    BY <2>2 DEF Requests
  <2>4. \A c \in ItsCalls : itsCall'[c].at # "checked"
    BY <2>1 DEF Goes
  <2> QED
    BY <1>4, <2>1, <2>3, <2>4 DEF Checking, Types!Restart
<1>5. CASE Types!Listen
  BY <1>5 DEF Types!Listen, TypesStored, CallsShaped, Requests, Checking
<1>6. CASE UNCHANGED <<itsCall, listening>>
  BY <1>6 DEF TypesStored, CallsShaped, Requests, Checking
<1> QED
  BY <1>1, <1>2, <1>3, <1>4, <1>5, <1>6 DEF Types!Next, Types!Click, Types!vars, ItsCalls,
     Types!openCreateTypeModal, Types!openEditTypeModal, Types!Seed,
     Types!restoreClears, Types!restoreInserts

-----------------------------------------------------------------------------
(* The buttons wait for their handlers *)

\* A handler goes on, for the same button.
GoesOn(d) == itsCall'[d].flag = itsCall[d].flag /\ (itsCall[d].at # "idle" => itsCall'[d].at # "idle")

LEMMA ButtonsGoOn ==
  ASSUME Buttons, busy' \subseteq busy, \A d \in ItsCalls : GoesOn(d)
  PROVE  Buttons'
BY DEF Buttons, GoesOn, Types!Busy, ItsCalls

LEMMA ServeGoesOn ==
  ASSUME CallsShaped, NEW c \in ItsCalls, Types!Serve(c)
  PROVE  /\ itsCall[c].at # "idle" /\ itsCall'[c].at # "idle" /\ OthersStay(c) /\ Same(c)
         /\ \A d \in ItsCalls : GoesOn(d)
<1>1. CASE Types!findAll(c)
  <2>1. itsCall[c].at = "sent"
    BY <1>1 DEF Types!findAll, Types!At
  <2>2. OthersStay(c) /\ Answers(c)
    BY <1>1, AnswerEffect
  <2> QED
    BY <2>1, <2>2 DEF OthersStay, Answers, Same, GoesOn
<1>2. CASE ~Types!findAll(c)
  <2>1. \E at \in {"checked", "good", "bad"} : Types!Go(c, at)
    BY <1>2 DEF Types!Serve, Types!CheckSlug, Types!CheckSystem, Types!create, Types!update, Types!delete,
       Types!Fails
  <2>2. itsCall[c].at # "idle"
    BY <1>2 DEF Types!Serve, Types!CheckSlug, Types!CheckSystem, Types!create, Types!update, Types!delete,
       Types!Fails, Types!At
  <2>3. PICK at \in {"checked", "good", "bad"} : OthersStay(c) /\ Goes(c, at)
    BY <2>1, GoEffect
  <2> QED
    BY <2>2, <2>3 DEF OthersStay, Goes, Same, GoesOn
<1> QED
  BY <1>1, <1>2

LEMMA ButtonsStep ==
  ASSUME Buttons, CallsShaped, [Types!Next]_(Types!vars)
  PROVE  Buttons'
<1>1. ASSUME NEW c \in ItsCalls, NEW kind, NEW n, NEW body, Types!Start(c, kind, n, body),
             \/ c # Other /\ busy' = busy \cup {IF kind = "delete" THEN "delete" ELSE "save"}
             \/ c = Other /\ busy' = busy
      PROVE  Buttons'
  <2>1. OthersStay(c) /\ Starts(c, kind, n, body)
    BY <1>1, StartEffect
  <2>2. \A b \in busy : \E d \in (Types!Busy \ {Other})' : itsCall'[d].flag = b
    BY <2>1 DEF Buttons, Starts, OthersStay, Types!Busy, ItsCalls
  <2>3. c # Other => \E d \in (Types!Busy \ {Other})' :
                        itsCall'[d].flag = IF kind = "delete" THEN "delete" ELSE "save"
    BY <2>1 DEF Starts, Types!Busy, ItsCalls
  <2> QED
    BY <1>1, <2>2, <2>3 DEF Buttons
<1>2. CASE \E c \in ItsCalls : Types!handleCreateOrUpdateType(c)
  <2> PICK c \in ItsCalls : Types!handleCreateOrUpdateType(c)
    BY <1>2
  <2>1. c # Other /\ busy' = busy \cup {"save"}
    BY DEF Types!handleCreateOrUpdateType
  <2>2. \E kind \in {"create", "update"} : \E n, body : Types!Start(c, kind, n, body)
    BY DEF Types!handleCreateOrUpdateType
  <2> QED
    BY <1>1, <2>1, <2>2
<1>3. CASE \E c \in ItsCalls : Types!handleDeleteType(c)
  BY <1>1, <1>3 DEF Types!handleDeleteType
<1>4. CASE Types!OtherAdmin
  <2>1. busy' = busy /\ Other \in ItsCalls
    BY <1>4 DEF Types!OtherAdmin, ItsCalls
  <2>2. \E kind \in {"create", "update", "delete"} : \E n, body : Types!Start(Other, kind, n, body)
    BY <1>4 DEF Types!OtherAdmin
  <2> QED
    BY <1>1, <2>1, <2>2
<1>5. CASE \E c \in ItsCalls : Types!Serve(c)
  <2>1. busy' = busy
    BY <1>5 DEF Types!Serve, Types!CheckSlug, Types!create, Types!update, Types!CheckSystem, Types!delete,
       Types!findAll, Types!Fails, Types!ApiUnchanged
  <2> QED
    BY <1>5, <2>1, ServeGoesOn, ButtonsGoOn
<1>6. CASE \E c \in ItsCalls : Types!Saved(c)
  <2> PICK c \in ItsCalls : Types!Saved(c)
    BY <1>6
  <2>1. OthersStay(c) /\ Rereads(c)
    BY SavedEffect
  <2>2. busy' = busy
    BY DEF Types!Saved
  <2> QED
    BY <2>1, <2>2, ButtonsGoOn DEF OthersStay, Rereads, GoesOn
<1>7. CASE \E c \in ItsCalls : Types!fetchTypes(c) \/ Types!Failed(c)
  <2> PICK c \in ItsCalls : Types!fetchTypes(c) \/ Types!Failed(c)
    BY <1>7
  <2>1. busy' = busy \ {itsCall[c].flag} /\ itsCall' = [itsCall EXCEPT ![c] = Types!Idle]
    BY DEF Types!fetchTypes, Types!Failed
  <2>2. OthersStay(c)
    BY <2>1, IdleEffect
  <2> QED
    BY <2>1, <2>2 DEF Buttons, OthersStay, Types!Busy, ItsCalls
<1>8. CASE Types!OtherAnswered
  <2>1. /\ itsCall' = [itsCall EXCEPT ![Other] = Types!Idle]
        /\ busy' = busy /\ Other \in ItsCalls
    BY <1>8 DEF Types!OtherAnswered, ItsCalls
  <2>2. OthersStay(Other)
    BY <2>1, IdleEffect
  <2> QED
    BY <2>1, <2>2 DEF Buttons, OthersStay, Types!Busy, ItsCalls
<1>9. CASE Types!Restart
  <2>1. \A c \in ItsCalls : Goes(c, IF itsCall[c].at = "checked" THEN "bad" ELSE itsCall[c].at)
    BY <1>9, RestartEffect
  <2>2. busy' = busy
    BY <1>9 DEF Types!Restart
  <2>3. ASSUME NEW d \in ItsCalls PROVE GoesOn(d)
    BY <2>1 DEF Goes, Same, GoesOn
  <2> QED
    BY <2>2, <2>3, ButtonsGoOn
<1>10. CASE UNCHANGED <<busy, itsCall>>
  BY <1>10 DEF Buttons, Types!Busy
<1> QED
  BY <1>2, <1>3, <1>4, <1>5, <1>6, <1>7, <1>8, <1>9, <1>10 DEF Types!Next, Types!Click, Types!Meet,
     Types!vars, ItsCalls, Types!openCreateTypeModal, Types!openEditTypeModal, Types!Seed, Types!Listen,
     Types!restoreClears, Types!restoreInserts

LEMMA CountedStep ==
  ASSUME Counted, [Types!Next]_(Types!vars)
  PROVE  Counted'
<1>1. CASE \/ \E c \in ItsCalls : Types!handleCreateOrUpdateType(c) \/ Types!handleDeleteType(c)
           \/ Types!OtherAdmin
  <2>1. /\ starts < MaxStarts /\ starts' = starts + 1 /\ calm' \in BOOLEAN
        /\ UNCHANGED <<listening, restarts>>
    BY <1>1, StartAsks, AskLeaves
  <2>2. overridden' \in BOOLEAN
    BY <1>1 DEF Counted, Types!handleCreateOrUpdateType, Types!handleDeleteType, Types!OtherAdmin
  <2> QED
    BY <2>1, <2>2, TypesAssumption DEF Counted, Types!TypesBounds
<1>2. CASE Types!Restart
  <2>1. MaxRestarts \in Nat
    BY TypesAssumption DEF Types!TypesBounds
  <2>2. restarts < MaxRestarts /\ restarts' = restarts + 1 /\ listening' = FALSE /\ calm' = FALSE /\ starts' = starts
        /\ overridden' = overridden
    BY <1>2 DEF Types!Restart
  <2>3. restarts' \in 0..MaxRestarts
    BY <2>1, <2>2 DEF Counted
  <2> QED
    BY <2>2, <2>3, Zenon DEF Counted
<1>3. CASE Types!restoreClears
  <2>1. MaxStarts \in Nat
    BY TypesAssumption DEF Types!TypesBounds
  <2>2. /\ starts < MaxStarts /\ starts' = starts + 1 /\ overridden' = TRUE /\ calm' = FALSE
        /\ UNCHANGED <<listening, restarts>>
    BY <1>3 DEF Types!restoreClears
  <2>3. starts' \in 0..MaxStarts
    BY <2>1, <2>2 DEF Counted
  <2> QED
    BY <2>2, <2>3, Zenon DEF Counted
<1>4. CASE UNCHANGED <<starts, restarts, overridden>> /\ listening' \in BOOLEAN /\ calm' \in BOOLEAN
  BY <1>4 DEF Counted
<1>5. CASE \E c \in ItsCalls : Types!Serve(c)
  BY <1>4, <1>5 DEF Counted, Types!Serve, Types!CheckSlug, Types!create, Types!update, Types!CheckSystem,
     Types!delete, Types!findAll, Types!Fails, Types!ApiUnchanged
<1>6. CASE \E c \in ItsCalls : Types!Meet(c)
  BY <1>4, <1>6 DEF Counted, Types!Meet, Types!Saved, Types!fetchTypes, Types!Failed
<1>7. CASE \/ Types!OtherAnswered \/ Types!openCreateTypeModal
           \/ (\E n \in Ids : Types!openEditTypeModal(n) \/ Types!restoreInserts(n))
           \/ (\E slug \in Seeds : Types!Seed(slug)) \/ Types!Listen \/ UNCHANGED Types!vars
  BY <1>4, <1>7 DEF Counted, Types!OtherAnswered, Types!openCreateTypeModal, Types!openEditTypeModal,
     Types!Seed, Types!Listen, Types!restoreInserts, Types!vars
<1> QED
  BY <1>1, <1>2, <1>3, <1>5, <1>6, <1>7 DEF Types!Next, Types!Click, ItsCalls

-----------------------------------------------------------------------------
(* An administrator alone *)

LEMMA AloneOnly ==
  ASSUME Alone, NEW c \in Types!Busy
  PROVE  Types!Busy = {c} /\ c # Other
BY DEF Alone

\* With one handler, what holds of it is all there is to show.
LEMMA OneFollowed ==
  ASSUME NEW c \in ItsCalls, Types!Busy' = {c}, c # Other, listening \in BOOLEAN,
         listening' => Current(itsCall[c])',
         ~listening' => Types!At(c, "sent", "list")'
  PROVE  (Alone /\ Followed)'
<1>1. Alone'
  BY DEF Alone
<1>2. Followed'
  BY DEF Followed, Types!Busy, Current
<1> QED
  BY <1>1, <1>2

LEMMA StartCalm ==
  ASSUME Calm, CallsShaped, Counted, NEW c \in ItsCalls, NEW kind \in {"create", "update", "delete"}, NEW n,
         NEW body, Types!Start(c, kind, n, body)
  PROVE  Calm'
<1> SUFFICES ASSUME calm' PROVE (Alone /\ Followed)'
  BY DEF Calm
<1>1. /\ calm /\ Types!Busy = {} /\ c # Other
      /\ listening' = listening /\ types' = types /\ shown' = shown
  BY DEF Types!Start
<1>2. OthersStay(c) /\ Starts(c, kind, n, body)
  BY StartEffect
<1>3. Types!Busy' = {c}
  BY <1>1, <1>2 DEF Types!Busy, OthersStay, Starts, ItsCalls
<1>4. listening => shown = types
  BY <1>1 DEF Calm, Followed
<1>5. ~listening => FALSE
  BY <1>1 DEF Calm, Followed
<1>6. listening' => Current(itsCall[c])'
  BY <1>1, <1>2, <1>4 DEF Current, Starts, Asks
<1> QED
  BY <1>1, <1>3, <1>5, <1>6, OneFollowed DEF Counted

LEMMA ServeCalm ==
  ASSUME Calm, CallsShaped, Counted, TypesStored, NEW c \in ItsCalls, Types!Serve(c)
  PROVE  Calm'
<1> SUFFICES ASSUME calm' PROVE (Alone /\ Followed)'
  BY DEF Calm
<1>1. calm /\ ~Types!Fails(c) /\ listening' = listening /\ shown' = shown
  BY DEF Types!Serve, Types!CheckSlug, Types!create, Types!update, Types!CheckSystem, Types!delete,
     Types!findAll, Types!Fails, Types!ApiUnchanged
<1>2. itsCall[c].at # "idle" /\ itsCall'[c].at # "idle" /\ OthersStay(c) /\ Same(c)
  BY ServeGoesOn
<1>3. c \in Types!Busy
  BY <1>2 DEF Types!Busy, ItsCalls
<1>4. Types!Busy = {c} /\ c # Other
  BY <1>1, <1>3, AloneOnly DEF Calm
<1>5. Types!Busy' = {c}
  BY <1>2, <1>4 DEF Types!Busy, OthersStay, ItsCalls
<1>6. listening
  BY <1>1 DEF Types!Serve, Types!CheckSlug, Types!create, Types!update, Types!CheckSystem, Types!delete,
     Types!findAll, TypesStored, Checking, Types!At
<1>7. Current(itsCall[c])
  BY <1>1, <1>3, <1>6 DEF Calm, Followed
<1>8. Current(itsCall[c])'
  <2>1. CASE Types!findAll(c)
    <3>1. types' = types /\ itsCall[c].req = "list"
      BY <2>1 DEF Types!findAll, Types!At
    <3>2. Answers(c)
      BY <2>1, AnswerEffect
    <3> QED
      BY <3>1, <3>2 DEF Current, Answers, Same
  <2>2. ASSUME NEW at, Types!Go(c, at), itsCall[c].req # "list", itsCall[c].at # "good",
               at = "good" \/ types' = types
        PROVE  Current(itsCall[c])'
    <3>1. Goes(c, at)
      BY <2>2, GoEffect
    <3> QED
      BY <1>1, <1>7, <2>2, <3>1 DEF Current, Goes, Same
  <2>3. CASE Types!CheckSlug(c) \/ Types!CheckSystem(c)
    <3>1. \E at \in {"checked", "bad"} : Types!Go(c, at)
      BY <2>3 DEF Types!CheckSlug, Types!CheckSystem
    <3>2. itsCall[c].req # "list" /\ itsCall[c].at # "good" /\ types' = types
      BY <2>3 DEF Types!CheckSlug, Types!CheckSystem, Types!At
    <3> QED
      BY <2>2, <3>1, <3>2
  <2>4. CASE Types!create(c) \/ Types!update(c) \/ Types!delete(c)
    <3>1. Types!Go(c, "good") \/ (Types!Go(c, "bad") /\ types' = types)
      BY <2>4 DEF Types!create, Types!update, Types!delete
    <3>2. itsCall[c].req # "list" /\ itsCall[c].at # "good"
      BY <2>4 DEF Types!create, Types!update, Types!delete, Types!At
    <3> QED
      BY <2>2, <3>1, <3>2
  <2> QED
    BY <1>1, <2>1, <2>3, <2>4 DEF Types!Serve
<1> QED
  BY <1>1, <1>4, <1>5, <1>6, <1>8, OneFollowed DEF Counted

LEMMA MeetCalm ==
  ASSUME Calm, CallsShaped, Counted, NEW c \in ItsCalls,
         Types!Meet(c) \/ (c = Other /\ Types!OtherAnswered)
  PROVE  Calm'
<1> SUFFICES ASSUME calm' PROVE (Alone /\ Followed)'
  BY DEF Calm
<1>1. calm /\ listening' = listening /\ types' = types
  BY DEF Types!Meet, Types!Saved, Types!fetchTypes, Types!Failed, Types!OtherAnswered
<1>2. itsCall[c].at \in {"good", "bad"}
  BY DEF Types!Meet, Types!Saved, Types!fetchTypes, Types!Failed, Types!OtherAnswered
<1>3. c \in Types!Busy
  BY <1>2 DEF Types!Busy, ItsCalls
<1>4. Types!Busy = {c} /\ c # Other
  BY <1>1, <1>3, AloneOnly DEF Calm
<1>5. listening
  BY <1>1, <1>2, <1>4 DEF Calm, Followed, Types!At
<1>6. Current(itsCall[c])
  BY <1>1, <1>3, <1>5 DEF Calm, Followed
<1>7. CASE Types!Saved(c)
  <2>1. OthersStay(c) /\ Rereads(c)
    BY <1>7, SavedEffect
  <2>2. Types!Busy' = {c}
    BY <1>4, <2>1 DEF Types!Busy, OthersStay, Rereads, ItsCalls
  <2>3. Current(itsCall[c])'
    BY <2>1 DEF Current, Rereads, Asks
  <2> QED
    BY <1>1, <1>4, <1>5, <2>2, <2>3, OneFollowed DEF Counted
<1>8. CASE Types!fetchTypes(c) \/ Types!Failed(c)
  <2>1. itsCall' = [itsCall EXCEPT ![c] = Types!Idle]
    BY <1>8 DEF Types!fetchTypes, Types!Failed
  <2>2. OthersStay(c) /\ Ends(c)
    BY <2>1, IdleEffect
  <2>3. Types!Busy' = {}
    BY <1>4, <2>2 DEF Types!Busy, OthersStay, Ends, ItsCalls
  <2>4. shown' = types
    BY <1>2, <1>6, <1>8 DEF Current, Types!fetchTypes, Types!Failed
  <2> QED
    BY <1>1, <1>5, <2>3, <2>4 DEF Alone, Followed
<1> QED
  BY <1>4, <1>7, <1>8 DEF Types!Meet

LEMMA CalmStep ==
  ASSUME Calm, CallsShaped, Counted, TypesStored, [Types!Next]_(Types!vars)
  PROVE  Calm'
<1>1. CASE \/ \E c \in ItsCalls : Types!handleCreateOrUpdateType(c) \/ Types!handleDeleteType(c)
           \/ Types!OtherAdmin
  BY <1>1, StartAsked, StartCalm
<1>2. CASE \E c \in ItsCalls : Types!Serve(c)
  BY <1>2, ServeCalm
<1>3. CASE Types!OtherAnswered \/ \E c \in ItsCalls : Types!Meet(c)
  BY <1>3, MeetCalm DEF ItsCalls
<1>4. CASE Types!Restart
  BY <1>4 DEF Types!Restart, Calm
<1>5. CASE \E slug \in Seeds : Types!Seed(slug)
  <2>1. /\ ~listening /\ UNCHANGED <<listening, shown, itsCall, calm>>
    BY <1>5 DEF Types!Seed
  <2> QED
    BY <2>1 DEF Calm, Alone, Followed, Types!Busy, Types!At
<1>6. CASE Types!Listen
  <2>1. ~listening /\ listening' /\ UNCHANGED <<types, shown, itsCall, calm>>
    BY <1>6 DEF Types!Listen
  <2>2. ASSUME calm PROVE (Alone /\ Followed)'
    <3>1. PICK c \in Types!Busy : Types!At(c, "sent", "list")
      BY <2>1, <2>2 DEF Calm, Followed
    <3>2. Types!Busy = {c} /\ Alone
      BY <2>2, AloneOnly DEF Calm
    <3> QED
      BY <2>1, <3>1, <3>2 DEF Alone, Followed, Types!Busy, Types!At, Current
  <2> QED
    BY <2>1, <2>2 DEF Calm
<1>7. CASE UNCHANGED <<types, listening, shown, itsCall, calm>>
  BY <1>7 DEF Calm, Alone, Followed, Types!Busy, Types!At, Current
<1>8. CASE Types!restoreClears
  BY <1>8 DEF Types!restoreClears, Calm
<1>9. ASSUME NEW n \in Ids, Types!restoreInserts(n) PROVE Calm'
  <2>1. n \in DOMAIN file /\ calm' = calm
    BY <1>9 DEF Types!restoreInserts
  <2>2. ~calm
    BY <2>1 DEF TypesStored, Restoring
  <2> QED
    BY <2>1, <2>2 DEF Calm
<1> QED
  BY <1>1, <1>2, <1>3, <1>4, <1>5, <1>6, <1>7, <1>8, <1>9 DEF Types!Next, Types!Click, Types!vars, ItsCalls,
     Types!openCreateTypeModal, Types!openEditTypeModal

-----------------------------------------------------------------------------
(* System types are left as they are *)

LEMMA AgreeStays ==
  ASSUME NEW f, NEW g, NEW h, Agree(f, g),
         \A n \in DOMAIN f : System(h, n) => System(g, n) /\ h[n].slug = g[n].slug
  PROVE  Agree(f, h)
BY DEF Agree

LEMMA HarmlessStays ==
  ASSUME NEW q, NEW g, NEW h, Harmless(q, g), Creates(q) => q.id \notin DOMAIN h,
         \A n \in DOMAIN q.got \cup {q.id} : System(h, n) => System(g, n) /\ h[n].slug = g[n].slug
  PROVE  Harmless(q, h)
<1>1. Agree(q.got, h)
  BY AgreeStays DEF Harmless
<1> QED
  BY <1>1 DEF Harmless

LEMMA HarmlessGoes ==
  ASSUME NEW c \in ItsCalls, NEW at, Goes(c, at), NEW g, Harmless(itsCall[c], g),
         at = "sent" => itsCall[c].at = "sent", at = "checked" => itsCall[c].at \in {"sent", "checked"},
         ~(itsCall[c].req = "delete" /\ at = "checked" /\ System(g, itsCall[c].id))
  PROVE  /\ Harmless(itsCall'[c], g)
         /\ Creates(itsCall'[c]) => Creates(itsCall[c]) /\ itsCall'[c].id = itsCall[c].id
BY DEF Harmless, Goes, Same, Creates

\* No two requests create under one identity.
LEMMA CreatesStay ==
  ASSUME AllAgree,
         \A c \in ItsCalls : Creates(itsCall'[c]) =>
           Creates(itsCall[c]) /\ itsCall'[c].id = itsCall[c].id
  PROVE  \A c, d \in ItsCalls :
           Creates(itsCall'[c]) /\ Creates(itsCall'[d]) /\ itsCall'[c].id = itsCall'[d].id => c = d
BY DEF AllAgree

\* While the types stay, one request moves on.
LEMMA OneGoes ==
  ASSUME AllAgree, UNCHANGED <<types, shown, modal>>, NEW c \in ItsCalls, OthersStay(c),
         Harmless(itsCall'[c], types),
         Creates(itsCall'[c]) => Creates(itsCall[c]) /\ itsCall'[c].id = itsCall[c].id
  PROVE  AllAgree'
<1>1. \A d \in ItsCalls : Harmless(itsCall'[d], types')
  BY DEF AllAgree, OthersStay
<1>2. \A d \in ItsCalls : Creates(itsCall'[d]) => Creates(itsCall[d]) /\ itsCall'[d].id = itsCall[d].id
  BY DEF OthersStay
<1> QED
  BY <1>1, <1>2, CreatesStay DEF AllAgree

\* What the API writes.
LEMMA TypesChange ==
  ASSUME AllAgree, UNCHANGED <<shown, modal>>, NEW c \in ItsCalls, OthersStay(c), Goes(c, "good"),
         \A n : System(types', n) => System(types, n) /\ types'[n].slug = types[n].slug,
         \A d \in ItsCalls \ {c} : Creates(itsCall[d]) => itsCall[d].id \notin DOMAIN types'
  PROVE  AllAgree'
<1>1. Agree(shown', types') /\ DialogAgrees(modal', types')
  BY AgreeStays DEF AllAgree, DialogAgrees
<1>2. /\ Harmless(itsCall'[c], types)
      /\ Creates(itsCall'[c]) => Creates(itsCall[c]) /\ itsCall'[c].id = itsCall[c].id
  BY HarmlessGoes DEF AllAgree
<1>3. ~Creates(itsCall'[c])
  BY DEF Goes, Creates
<1>4. Harmless(itsCall'[c], types')
  BY <1>2, <1>3, HarmlessStays
<1>5. ASSUME NEW d \in ItsCalls \ {c} PROVE Harmless(itsCall'[d], types')
  BY HarmlessStays DEF AllAgree, OthersStay
<1>6. \A d \in ItsCalls : Harmless(itsCall'[d], types')
  BY <1>4, <1>5
<1>7. \A d \in ItsCalls : Creates(itsCall'[d]) => Creates(itsCall[d]) /\ itsCall'[d].id = itsCall[d].id
  BY <1>2 DEF OthersStay
<1> QED
  BY <1>1, <1>6, <1>7, CreatesStay DEF AllAgree

Keeps == \A n : System(types, n) => System(types', n) /\ types'[n].slug = types[n].slug

LEMMA ServeLeaves ==
  ASSUME TypesStored, CallsShaped, AllAgree, NEW c \in ItsCalls, Types!Serve(c)
  PROVE  AllAgree' /\ Keeps
<1>1. UNCHANGED <<shown, modal>>
  BY DEF Types!Serve, Types!CheckSlug, Types!create, Types!update, Types!CheckSystem, Types!delete,
     Types!findAll, Types!Fails, Types!ApiUnchanged
<1>2. CASE Types!findAll(c)
  <2>1. types' = types /\ itsCall[c].req = "list"
    BY <1>2 DEF Types!findAll, Types!At
  <2>2. OthersStay(c) /\ Answers(c)
    BY <1>2, AnswerEffect
  <2>3. Agree(types, types)
    BY DEF Agree, System
  <2>4. Harmless(itsCall'[c], types) /\ ~Creates(itsCall'[c])
    BY <2>1, <2>2, <2>3 DEF Harmless, Creates, Answers, Same
  <2> QED
    BY <1>1, <2>1, <2>2, <2>4, OneGoes DEF Keeps
<1>3. CASE Types!CheckSlug(c) \/ Types!CheckSystem(c) \/ Types!Fails(c)
  <2>1. PICK at \in {"checked", "bad"} : Types!Go(c, at)
    BY <1>3 DEF Types!CheckSlug, Types!CheckSystem, Types!Fails
  <2>2. types' = types
    BY <1>3 DEF Types!CheckSlug, Types!CheckSystem, Types!Fails
  <2>3. OthersStay(c) /\ Goes(c, at)
    BY <2>1, GoEffect
  <2>4. at = "checked" => itsCall[c].at = "sent"
    <3>1. CASE Types!CheckSlug(c) \/ Types!CheckSystem(c)
      BY <3>1 DEF Types!CheckSlug, Types!CheckSystem, Types!At
    <3>2. CASE Types!Fails(c)
      <4>1. Types!Go(c, "bad")
        BY <3>2 DEF Types!Fails
      <4>2. Goes(c, "bad")
        BY <4>1, GoEffect
      <4> QED
        BY <2>3, <4>2 DEF Goes
    <3> QED
      BY <1>3, <3>1, <3>2
  <2>5. ~(itsCall[c].req = "delete" /\ at = "checked" /\ System(types, itsCall[c].id))
    <3>1. CASE Types!CheckSystem(c)
      <4>1. CASE itsCall[c].id \in DOMAIN types /\ ~types[itsCall[c].id].isSystem
        BY <4>1 DEF System
      <4>2. CASE ~(itsCall[c].id \in DOMAIN types /\ ~types[itsCall[c].id].isSystem)
        <5>1. Types!Go(c, "bad")
          BY <3>1, <4>2 DEF Types!CheckSystem
        <5>2. Goes(c, "bad")
          BY <5>1, GoEffect
        <5> QED
          BY <2>3, <5>2 DEF Goes
      <4> QED
        BY <4>1, <4>2
    <3>2. CASE Types!CheckSlug(c)
      BY <3>2 DEF Types!CheckSlug, Types!At
    <3>3. CASE Types!Fails(c)
      <4>1. Goes(c, "bad")
        BY <3>3, GoEffect DEF Types!Fails
      <4> QED
        BY <2>3, <4>1 DEF Goes
    <3> QED
      BY <1>3, <3>1, <3>2, <3>3
  <2>6. /\ Harmless(itsCall'[c], types)
        /\ Creates(itsCall'[c]) => Creates(itsCall[c]) /\ itsCall'[c].id = itsCall[c].id
    BY <2>3, <2>4, <2>5, HarmlessGoes DEF AllAgree
  <2> QED
    BY <1>1, <2>2, <2>3, <2>6, OneGoes DEF Keeps
<1>4. CASE types' = types /\ (Types!create(c) \/ Types!update(c) \/ Types!delete(c))
  <2>1. Types!Go(c, "good") \/ Types!Go(c, "bad")
    BY <1>4 DEF Types!create, Types!update, Types!delete
  <2>2. PICK at \in {"good", "bad"} : OthersStay(c) /\ Goes(c, at)
    BY <2>1, GoEffect
  <2>3. /\ Harmless(itsCall'[c], types)
        /\ Creates(itsCall'[c]) => Creates(itsCall[c]) /\ itsCall'[c].id = itsCall[c].id
    BY <2>2, HarmlessGoes DEF AllAgree
  <2> QED
    BY <1>1, <1>4, <2>2, <2>3, OneGoes DEF Keeps
<1>5. CASE Types!create(c) /\ types' # types
  <2> DEFINE n == itsCall[c].id
  <2>1. PICK q \in Types!Types : WritesRow(n, q) /\ ~q.isSystem /\ Types!Go(c, "good")
    BY <1>5, CreateRow
  <2>2. OthersStay(c) /\ Goes(c, "good")
    BY <2>1, GoEffect
  <2>3. Creates(itsCall[c])
    BY <1>5 DEF Types!create, Types!At, Creates
  <2>4. n \notin DOMAIN types
    BY <2>3 DEF AllAgree, Harmless
  <2>5. Keeps /\ \A k : System(types', k) => System(types, k) /\ types'[k].slug = types[k].slug
    BY <2>1, <2>4 DEF Keeps, System, WritesRow
  <2>6. \A d \in ItsCalls \ {c} : Creates(itsCall[d]) => itsCall[d].id \notin DOMAIN types'
    BY <2>1, <2>3 DEF AllAgree, Harmless, WritesRow
  <2> QED
    BY <1>1, <2>2, <2>5, <2>6, TypesChange
<1>6. CASE Types!update(c) /\ types' # types
  <2> DEFINE n == itsCall[c].id
  <2>1. PICK q \in Types!Types : /\ WritesRow(n, q) /\ n \in DOMAIN types /\ Types!Go(c, "good")
                                 /\ q.isSystem = types[n].isSystem /\ q.slug = itsCall[c].body.slug
    BY <1>6, UpdateRow
  <2>2. OthersStay(c) /\ Goes(c, "good")
    BY <2>1, GoEffect
  <2>3. types[n].isSystem => q.slug = types[n].slug
    BY <1>6, <2>1 DEF AllAgree, Harmless, System, Types!update, Types!At
  <2>4. Keeps /\ \A k : System(types', k) => System(types, k) /\ types'[k].slug = types[k].slug
    BY <2>1, <2>3 DEF Keeps, System, WritesRow
  <2>5. \A d \in ItsCalls \ {c} : Creates(itsCall[d]) => itsCall[d].id \notin DOMAIN types'
    BY <2>1 DEF AllAgree, Harmless, WritesRow
  <2> QED
    BY <1>1, <2>2, <2>4, <2>5, TypesChange
<1>7. CASE Types!delete(c)
  <2> DEFINE n == itsCall[c].id
  <2>1. types' = Types!Without(types, n) /\ Types!Go(c, "good")
    BY <1>7 DEF Types!delete
  <2>2. OthersStay(c) /\ Goes(c, "good")
    BY <2>1, GoEffect
  <2>3. ~System(types, n)
    BY <1>7 DEF AllAgree, Harmless, Types!delete, Types!At
  <2>4. /\ DOMAIN types' = DOMAIN types \ {n}
        /\ \A k \in DOMAIN types' : types'[k] = types[k]
    BY <2>1 DEF Types!Without
  <2>5. Keeps /\ \A k : System(types', k) => System(types, k) /\ types'[k].slug = types[k].slug
    BY <2>3, <2>4 DEF Keeps, System
  <2>6. \A d \in ItsCalls \ {c} : Creates(itsCall[d]) => itsCall[d].id \notin DOMAIN types'
    BY <2>4 DEF AllAgree, Harmless
  <2> QED
    BY <1>1, <2>2, <2>5, <2>6, TypesChange
<1> QED
  BY <1>2, <1>3, <1>4, <1>5, <1>6, <1>7 DEF Types!Serve

LEMMA MeetLeaves ==
  ASSUME TypesStored, CallsShaped, AllAgree, NEW c \in ItsCalls,
         Types!Meet(c) \/ (c = Other /\ Types!OtherAnswered)
  PROVE  AllAgree' /\ Keeps
<1>1. types' = types
  BY DEF Types!Meet, Types!Saved, Types!fetchTypes, Types!Failed, Types!OtherAnswered
<1>2. /\ OthersStay(c) /\ itsCall'[c].req \notin {"create", "update", "delete"}
      /\ itsCall'[c].got = << >>
  <2>1. CASE Types!Saved(c)
    BY <2>1, SavedEffect DEF Rereads, Asks
  <2>2. CASE Types!fetchTypes(c) \/ Types!Failed(c) \/ (c = Other /\ Types!OtherAnswered)
    <3>1. itsCall' = [itsCall EXCEPT ![c] = Types!Idle]
      BY <2>2 DEF Types!fetchTypes, Types!Failed, Types!OtherAnswered
    <3> QED
      BY <3>1, IdleEffect DEF Ends, Asks
  <2> QED
    BY <2>1, <2>2 DEF Types!Meet
<1>3. Harmless(itsCall'[c], types) /\ ~Creates(itsCall'[c])
  BY <1>2 DEF Harmless, Creates, Agree
<1>4. \A d \in ItsCalls : Harmless(itsCall'[d], types')
  BY <1>1, <1>2, <1>3 DEF AllAgree, OthersStay
<1>5. \A d \in ItsCalls : Creates(itsCall'[d]) => Creates(itsCall[d]) /\ itsCall'[d].id = itsCall[d].id
  BY <1>2, <1>3 DEF OthersStay
<1>6. shown' = shown \/ shown' = itsCall[c].got
  BY DEF Types!Meet, Types!Saved, Types!fetchTypes, Types!Failed, Types!OtherAnswered
<1>7. Agree(shown', types')
  BY <1>1, <1>6 DEF AllAgree, Harmless
<1>8. modal' = modal \/ modal' = [modal EXCEPT !.open = FALSE]
  BY DEF Types!Meet, Types!Saved, Types!fetchTypes, Types!Failed, Types!OtherAnswered
<1>9. DialogAgrees(modal', types')
  BY <1>1, <1>8 DEF AllAgree, DialogAgrees, TypesStored, Dialog
<1> QED
  BY <1>1, <1>4, <1>5, <1>7, <1>9, CreatesStay DEF AllAgree, Keeps

LEMMA StartLeaves ==
  ASSUME TypesStored, CallsShaped, LeftAlone, ~overridden, ~overridden',
         \/ \E c \in ItsCalls : Types!handleCreateOrUpdateType(c) \/ Types!handleDeleteType(c)
         \/ Types!OtherAdmin
  PROVE  AllAgree' /\ Keeps
<1> PICK c \in ItsCalls, kind \in {"create", "update", "delete"} :
       \E n, body : Types!Start(c, kind, n, body) /\ AskedWell(kind, n, body)
  BY StartAsked
<1> PICK n, body : Types!Start(c, kind, n, body) /\ AskedWell(kind, n, body)
  OBVIOUS
<1>1. OthersStay(c) /\ Starts(c, kind, n, body) /\ AllAgree
  BY StartEffect DEF LeftAlone
<1>2. UNCHANGED <<types, shown, modal>>
  BY DEF Types!Start
<1>3. kind = "create" => n \notin DOMAIN types /\ \A d \in ItsCalls : n # itsCall[d].id
  BY FreshIs DEF AskedWell
<1>4. kind = "update" /\ System(types, n) => body.slug = types[n].slug
  BY DEF AskedWell
<1>5. Harmless(itsCall'[c], types)
  BY <1>1, <1>3, <1>4 DEF Starts, Asks, Harmless, Creates, Agree
<1>6. \A d \in ItsCalls : Harmless(itsCall'[d], types')
  BY <1>1, <1>2, <1>5 DEF AllAgree, OthersStay
<1>7. Creates(itsCall'[c]) => \A d \in ItsCalls \ {c} : itsCall'[d].id # itsCall'[c].id
  BY <1>1, <1>3 DEF Starts, Asks, Creates, OthersStay
<1>8. \A d, e \in ItsCalls :
         Creates(itsCall'[d]) /\ Creates(itsCall'[e]) /\ itsCall'[d].id = itsCall'[e].id => d = e
  BY <1>1, <1>7 DEF AllAgree, OthersStay
<1> QED
  BY <1>1, <1>2, <1>6, <1>8 DEF AllAgree, Keeps

LEMMA SeedLeaves ==
  ASSUME TypesStored, AllAgree, NEW slug \in Seeds, Types!Seed(slug)
  PROVE  AllAgree' /\ Keeps
<1> PICK n \in Types!Fresh : \E q \in Types!Types : WritesRow(n, q)
  BY SeedRow
<1> PICK q \in Types!Types : WritesRow(n, q)
  OBVIOUS
<1>1. UNCHANGED <<shown, modal, itsCall>>
  BY DEF Types!Seed
<1>2. /\ n \notin DOMAIN types /\ n \notin DOMAIN shown /\ n # modal.editing
      /\ \A c \in ItsCalls : n # itsCall[c].id /\ n \notin DOMAIN itsCall[c].got
  BY FreshIs
<1>3. DOMAIN types' = DOMAIN types \cup {n} /\ \A k : k # n /\ System(types', k) =>
         System(types, k) /\ types'[k].slug = types[k].slug
  BY DEF WritesRow, System
<1>4. Agree(shown', types')
  BY <1>1, <1>2, <1>3, AgreeStays DEF AllAgree
<1>5. DialogAgrees(modal', types')
  BY <1>1, <1>2, <1>3 DEF AllAgree, DialogAgrees
<1>6. ASSUME NEW c \in ItsCalls PROVE Harmless(itsCall'[c], types')
  <2>1. Harmless(itsCall[c], types)
    BY DEF AllAgree
  <2>2. Creates(itsCall[c]) => itsCall[c].id \notin DOMAIN types'
    BY <1>2, <1>3, <2>1 DEF Harmless
  <2>3. \A k \in DOMAIN itsCall[c].got \cup {itsCall[c].id} :
          System(types', k) => System(types, k) /\ types'[k].slug = types[k].slug
    BY <1>2, <1>3
  <2> QED
    BY <1>1, <2>1, <2>2, <2>3, HarmlessStays
<1>7. Keeps
  BY <1>2 DEF Keeps, System, WritesRow
<1> QED
  BY <1>1, <1>4, <1>5, <1>6, <1>7 DEF AllAgree

LEMMA OpenLeaves ==
  ASSUME TypesStored, AllAgree,
         Types!openCreateTypeModal \/ \E n \in Ids : Types!openEditTypeModal(n)
  PROVE  AllAgree' /\ Keeps
<1>1. UNCHANGED <<types, shown, itsCall>>
  BY DEF Types!openCreateTypeModal, Types!openEditTypeModal
<1>2. CASE Types!openCreateTypeModal
  <2>1. ~System(types, None)
    BY TypesAssumption DEF Types!IdsExist, TypesStored, Types!IsList, System
  <2>2. modal'.editing = None
    BY <1>2 DEF Types!openCreateTypeModal
  <2> QED
    BY <1>1, <2>1, <2>2 DEF AllAgree, DialogAgrees, Keeps
<1>3. ASSUME NEW n \in Ids, Types!openEditTypeModal(n) PROVE AllAgree' /\ Keeps
  <2>1. PICK slug \in Types!SlugFor(n) :
          modal' = [open |-> TRUE, editing |-> n, form |-> [slug |-> slug, typed |-> n]]
    BY <1>3 DEF Types!openEditTypeModal
  <2>2. n \in DOMAIN shown
    BY <1>3 DEF Types!openEditTypeModal
  <2>3. System(types, n) => slug = types[n].slug
    BY <2>1, <2>2 DEF AllAgree, Agree, Types!SlugFor
  <2>4. DialogAgrees(modal', types')
    BY <1>1, <2>1, <2>3 DEF DialogAgrees
  <2> QED
    BY <1>1, <2>4 DEF AllAgree, Keeps
<1> QED
  BY <1>2, <1>3

LEMMA LeavesStep ==
  ASSUME TypesStored, CallsShaped, LeftAlone, [Types!Next]_(Types!vars), ~overridden'
  PROVE  AllAgree' /\ Keeps
<1>1. ~overridden
  BY DEF Types!Next, Types!Click, Types!Serve, Types!Meet, Types!vars,
     Types!handleCreateOrUpdateType, Types!handleDeleteType, Types!OtherAdmin, Types!Start,
     Types!CheckSlug, Types!create, Types!update, Types!CheckSystem, Types!delete, Types!findAll,
     Types!Fails, Types!ApiUnchanged, Types!Saved, Types!fetchTypes, Types!Failed, Types!OtherAnswered,
     Types!Seed, Types!Listen, Types!openCreateTypeModal, Types!openEditTypeModal, Types!Restart,
     Types!restoreClears, Types!restoreInserts
<1>2. AllAgree /\ file = << >>
  BY <1>1 DEF LeftAlone, TypesStored, Restoring
<1>3. CASE \/ \E c \in ItsCalls : Types!handleCreateOrUpdateType(c) \/ Types!handleDeleteType(c)
           \/ Types!OtherAdmin
  BY <1>1, <1>3, StartLeaves
<1>4. CASE \E c \in ItsCalls : Types!Serve(c)
  BY <1>2, <1>4, ServeLeaves
<1>5. CASE Types!OtherAnswered \/ \E c \in ItsCalls : Types!Meet(c)
  BY <1>2, <1>5, MeetLeaves DEF ItsCalls
<1>6. CASE Types!Restart
  <2>1. \A c \in ItsCalls : Goes(c, IF itsCall[c].at = "checked" THEN "bad" ELSE itsCall[c].at)
    BY <1>6, RestartEffect
  <2>2. UNCHANGED <<types, shown, modal>>
    BY <1>6 DEF Types!Restart
  <2>3. ASSUME NEW c \in ItsCalls
        PROVE  /\ Harmless(itsCall'[c], types')
               /\ Creates(itsCall'[c]) => Creates(itsCall[c]) /\ itsCall'[c].id = itsCall[c].id
    BY <1>2, <2>1, <2>2 DEF AllAgree, Harmless, Creates, Goes, Same
  <2> QED
    BY <1>2, <2>2, <2>3, CreatesStay DEF AllAgree, Keeps
<1>7. CASE \E slug \in Seeds : Types!Seed(slug)
  BY <1>2, <1>7, SeedLeaves
<1>8. CASE Types!openCreateTypeModal \/ \E n \in Ids : Types!openEditTypeModal(n)
  BY <1>2, <1>8, OpenLeaves
<1>9. CASE UNCHANGED <<types, shown, modal, itsCall>>
  BY <1>2, <1>9 DEF AllAgree, Keeps
<1>10. ~Types!restoreClears /\ \A n \in Ids : ~Types!restoreInserts(n)
  BY <1>2 DEF Types!restoreClears, Types!restoreInserts
<1> QED
  BY <1>3, <1>4, <1>5, <1>6, <1>7, <1>8, <1>9, <1>10 DEF Types!Next, Types!Click, Types!vars, ItsCalls,
     Types!Listen

LEMMA LeftAloneStep ==
  ASSUME TypesStored, CallsShaped, LeftAlone, [Types!Next]_(Types!vars)
  PROVE  LeftAlone'
BY LeavesStep DEF LeftAlone

-----------------------------------------------------------------------------
(* The start *)

LEMMA InitTypesInv == Types!Init => TypesInv
<1> SUFFICES ASSUME Types!Init PROVE TypesInv
  OBVIOUS
<1>1. PICK m \in ItsCalls \ {Other} :
        itsCall = [c \in ItsCalls |-> IF c = m THEN [Types!Idle EXCEPT !.at = "sent", !.req = "list"]
                                       ELSE Types!Idle]
  BY DEF Types!Init, ItsCalls
<1> DEFINE first == [Types!Idle EXCEPT !.at = "sent", !.req = "list"]
<1>2. /\ Shaped(first) /\ first.at = "sent" /\ first.req = "list" /\ first.got = << >>
  BY IdleShaped DEF Shaped
<1> HIDE DEF first
<1>3. \A c \in ItsCalls : itsCall[c] = IF c = m THEN first ELSE Types!Idle
  BY <1>1 DEF first
<1>4. CallsShaped
  BY <1>1, <1>2, <1>3, IdleShaped DEF CallsShaped
<1>5. Requests
  BY <1>2, <1>3, IdleShaped, NothingGot DEF Requests, Request
<1>6. PICK S \in SUBSET Ids : \E slug \in [S -> Slugs], system \in SUBSET S :
        /\ \A k, n \in S : slug[k] = slug[n] => k = n
        /\ types = [n \in S |-> [slug |-> slug[n], isSystem |-> n \in system, typed |-> n]]
  BY DEF Types!Init
<1> PICK slug \in [S -> Slugs], system \in SUBSET S :
        /\ \A k, n \in S : slug[k] = slug[n] => k = n
        /\ types = [n \in S |-> [slug |-> slug[n], isSystem |-> n \in system, typed |-> n]]
  BY <1>6
<1>7. DOMAIN types = S /\ \A n \in S : types[n].slug = slug[n] /\ types[n].typed = n
                                   /\ types[n] \in Types!Types
  BY DEF Types!Types
<1>8. Types!IsList(types) /\ Types!TypedFor(types) /\ Apart
  BY <1>7 DEF Types!IsList, Types!TypedFor, Apart
<1>9. Types!IsList(shown) /\ Restoring
  BY NothingGot DEF Types!Init, Restoring
<1>10. Dialog
  BY DEF Types!Init, Dialog, Types!Forms
<1>11. Checking
  BY <1>2, <1>3, IdleShaped DEF Types!Init, Checking
<1>12. LeftAlone
  <2>1. shown = << >> /\ ~modal.open
    BY DEF Types!Init
  <2>2. ASSUME NEW c \in ItsCalls
        PROVE  itsCall[c].req \notin {"create", "update", "delete"} /\ itsCall[c].got = << >>
    BY <1>2, <1>3, IdleShaped
  <2> QED
    BY <2>1, <2>2 DEF LeftAlone, AllAgree, Agree, DialogAgrees, Harmless, Creates
<1>13. Buttons
  BY DEF Types!Init, Buttons
<1>14. Counted
  <2>1. 0 \in 0..MaxStarts /\ 0 \in 0..MaxRestarts
    BY TypesAssumption DEF Types!TypesBounds
  <2>2. listening = FALSE /\ overridden = FALSE /\ calm = TRUE /\ starts = 0 /\ restarts = 0
    BY DEF Types!Init
  <2> QED
    BY <2>1, <2>2, Zenon DEF Counted
<1>15. Types!Busy = {m} /\ Types!At(m, "sent", "list")
  BY <1>2, <1>3, IdleShaped DEF Types!Busy, Types!At, ItsCalls
<1>16. Calm
  BY <1>15 DEF Types!Init, Calm, Alone, Followed
<1> QED
  BY <1>4, <1>5, <1>8, <1>9, <1>10, <1>11, <1>12, <1>13, <1>14, <1>16 DEF TypesInv, TypesStored

LEMMA TypesInvStep == TypesInv /\ [Types!Next]_(Types!vars) => TypesInv'
<1> SUFFICES ASSUME TypesInv, [Types!Next]_(Types!vars) PROVE TypesInv'
  OBVIOUS
<1>1. TypesStored /\ LeftAlone /\ Buttons /\ Counted /\ Calm /\ CallsShaped
  BY DEF TypesInv
<1>2. /\ Types!IsList(types') /\ Types!TypedFor(types') /\ Apart' /\ Types!IsList(shown') /\ Dialog'
      /\ CallsShaped' /\ Requests' /\ Checking' /\ Restoring'
  BY <1>1, TypesStep, ShownStep, DialogStep, CallsStep, RestoringStep DEF TypesStored
<1>3. TypesStored'
  BY <1>2 DEF TypesStored
<1>4. Buttons' /\ Counted' /\ Calm' /\ LeftAlone'
  BY <1>1, ButtonsStep, CountedStep, CalmStep, LeftAloneStep
<1> QED
  BY <1>2, <1>3, <1>4 DEF TypesInv

LEMMA TypesInvShows ==
  ASSUME TypesInv
  PROVE  /\ Types!TypesPageTypeOK /\ Types!SlugsUnique /\ Types!TypedForIt
         /\ Types!TypesShown
<1>1. TypesStored /\ Buttons /\ Counted /\ Calm
  BY DEF TypesInv
<1>2. Types!TypesPageTypeOK
  BY <1>1 DEF TypesStored, Restoring, Dialog, Buttons, Counted, Types!TypesPageTypeOK
<1>3. ASSUME NEW slug \in Slugs PROVE Cardinality(Types!Holds(slug)) <= 1
  <2>1. CASE Types!Holds(slug) = {}
    BY <2>1, FS_EmptySet
  <2>2. ASSUME NEW k \in Types!Holds(slug) PROVE Cardinality(Types!Holds(slug)) <= 1
    <3>1. Types!Holds(slug) = {k}
      BY <1>1, <2>2 DEF TypesStored, Apart, Types!Holds
    <3>2. Cardinality({k}) = 1
      BY FS_Singleton
    <3> QED
      BY <3>1, <3>2
  <2> QED
    BY <2>1, <2>2
<1>5. Types!TypedForIt
  BY <1>1 DEF TypesStored, Types!TypedForIt
<1>6. Types!TypesShown
  BY <1>1 DEF Calm, Followed, Types!TypesShown
<1>7. Types!SlugsUnique
  BY <1>3 DEF Types!SlugsUnique, Types!Cardinality, Cardinality, Types!IsFiniteSet, IsFiniteSet
<1> QED
  BY <1>2, <1>5, <1>6, <1>7

-----------------------------------------------------------------------------
(* The page of a group *)

Things == Names

\* A list, a request.
List(r) ==
  /\ DOMAIN r = {"what", "known", "got", "data"} /\ r.got \in {"none", "good"}
  /\ Group!IsList(r.data) /\ r.known \subseteq Things
Patch(p) ==
  /\ DOMAIN p = {"at", "body"} /\ p.at \in {"no", "sent", "left", "good", "over", "bad"}
  /\ p.body \subseteq Group!Groups /\ (p.at = "no" \/ Here \in p.body)

GroupData ==
  /\ Group!IsList(groupIds) /\ Group!IsList(allThings)
  /\ things \subseteq Things /\ selected \subseteq Things /\ assigned \subseteq Things
  /\ \A r \in reads : List(r)
  /\ DOMAIN patch = Things /\ \A t \in Things : Patch(patch[t])

GroupFlags ==
  /\ assigning \in BOOLEAN /\ assignOpen \in BOOLEAN /\ loadingAllThings \in BOOLEAN /\ calm \in BOOLEAN
  /\ loadingAllThings => \E r \in reads : r.what = "all"
GroupCounts == opened \in 0..MaxOpens /\ others \in 0..MaxOthers

\* An answered request has put its thing in the group.
InGroup(t) == t \in Group!Registered /\ Here \in groupIds[t]
Arrived == \A t \in Things : t \in assigned \/ patch[t].at = "good" => InGroup(t)

\* Every copy agrees with what is stored but for this group, until another window writes.
Agrees(t, groups) == t \in Group!Registered => groups \ {Here} = groupIds[t] \ {Here}
Copies ==
  others = 0 => /\ \A t \in DOMAIN allThings : Agrees(t, allThings[t])
                /\ \A r \in reads : r.what = "all" => \A t \in DOMAIN r.data : Agrees(t, r.data[t])
                /\ \A t \in Things : patch[t].at = "no" \/ Agrees(t, patch[t].body)

\* The members are read while nothing is being assigned, and shown from then on.
NoneSent == \A t \in Things : patch[t].at = "no"
MembersRead(r) == NoneSent /\ (r.got = "good" => Group!IsFirstPage(DOMAIN r.data, Group!Members, Limit))
MembersFollowed ==
  calm => /\ \A t \in Things : patch[t].at # "left"
          /\ assigning \/ NoneSent
          /\ \A r \in reads : r.what = "all" \/ MembersRead(r)
          /\ assigning \/ (\E r \in reads : r.what # "all")
             \/ Group!IsFirstPage(things, Group!Members, Limit)

GroupInv == GroupData /\ GroupFlags /\ GroupCounts /\ Arrived /\ Copies /\ MembersFollowed
GroupIInv == which = "Group" => GroupInv

-----------------------------------------------------------------------------
(* What its steps do to the requests, the lists and the stored groups *)

OnlyPatch(t) == DOMAIN patch' = Things /\ \A u \in Things \ {t} : patch'[u] = patch[u]
Stores(t, groups) ==
  /\ DOMAIN groupIds' = DOMAIN groupIds
  /\ \A u \in DOMAIN groupIds : groupIds'[u] = IF u = t THEN groups ELSE groupIds[u]

LEMMA OnePatch ==
  ASSUME GroupData, NEW t \in Things, NEW STATE p, patch' = [patch EXCEPT ![t] = p]
  PROVE  OnlyPatch(t) /\ patch'[t] = p
BY DEF GroupData, OnlyPatch

LEMMA NoPatchIs == Group!NoPatch.at = "no" /\ Group!NoPatch.body = {} /\ Patch(Group!NoPatch)
BY DEF Patch, Group!NoPatch

LEMMA UpdateEffect ==
  ASSUME GroupData, NEW t \in Things, Group!Update(t)
  PROVE  /\ OnlyPatch(t) /\ Patch(patch'[t]) /\ Stores(t, patch[t].body)
         /\ \/ patch[t].at = "left" /\ patch'[t].at = "no"
            \/ /\ patch[t].at = "sent" /\ patch'[t].body = patch[t].body
               /\ patch'[t].at = IF t \in Group!Registered THEN "good" ELSE "bad"
<1> DEFINE at == IF t \in Group!Registered THEN "good" ELSE "bad"
           q == [patch[t] EXCEPT !.at = at]
           p == IF patch[t].at = "left" THEN Group!NoPatch ELSE q
<1>1. patch' = [patch EXCEPT ![t] = p] /\ patch[t].at \in {"sent", "left"}
  BY DEF Group!Update
<1>2. Patch(patch[t])
  BY DEF GroupData
<1>3. Patch(q) /\ q.at = at /\ q.body = patch[t].body
  BY <1>1, <1>2 DEF Patch
<1>4. Stores(t, patch[t].body)
  BY DEF Group!Update, Group!Registered, Group!Stored, Stores
<1> HIDE DEF p, q
<1>5. OnlyPatch(t) /\ patch'[t] = p
  BY <1>1, OnePatch
<1>6. CASE patch[t].at = "left"
  <2>1. p = Group!NoPatch
    BY <1>6 DEF p
  <2> QED
    BY <1>4, <1>5, <1>6, <2>1, NoPatchIs
<1>7. CASE patch[t].at = "sent"
  <2>1. p = q
    BY <1>7 DEF p
  <2> QED
    BY <1>3, <1>4, <1>5, <1>7, <2>1
<1> QED
  BY <1>1, <1>6, <1>7

LEMMA LostEffect ==
  ASSUME GroupData, NEW t \in Things, Group!Lost(t)
  PROVE  /\ OnlyPatch(t) /\ Patch(patch'[t])
         /\ \/ patch[t].at = "left" /\ patch'[t].at = "no"
            \/ patch[t].at = "sent" /\ patch'[t].body = patch[t].body /\ patch'[t].at = "bad"
<1> DEFINE q == [patch[t] EXCEPT !.at = "bad"]
           p == IF patch[t].at = "left" THEN Group!NoPatch ELSE q
<1>1. patch' = [patch EXCEPT ![t] = p] /\ patch[t].at \in {"sent", "left"}
  BY DEF Group!Lost
<1>2. Patch(patch[t])
  BY DEF GroupData
<1>3. Patch(q) /\ q.at = "bad" /\ q.body = patch[t].body
  BY <1>1, <1>2 DEF Patch
<1> HIDE DEF p, q
<1>4. OnlyPatch(t) /\ patch'[t] = p
  BY <1>1, OnePatch
<1>5. CASE patch[t].at = "left"
  <2>1. p = Group!NoPatch
    BY <1>5 DEF p
  <2> QED
    BY <1>4, <1>5, <2>1, NoPatchIs
<1>6. CASE patch[t].at = "sent"
  <2>1. p = q
    BY <1>6 DEF p
  <2> QED
    BY <1>3, <1>4, <1>6, <2>1
<1> QED
  BY <1>1, <1>5, <1>6

LEMMA OtherWindowEffect ==
  ASSUME GroupData, NEW t \in Things, Group!OtherWindow(t)
  PROVE  /\ OnlyPatch(t) /\ Patch(patch'[t]) /\ patch'[t].body = patch[t].body
         /\ patch'[t].at = IF patch[t].at = "good" THEN "over" ELSE patch[t].at
         /\ \/ \E groups \in SUBSET Group!Groups : Stores(t, groups)
            \/ /\ DOMAIN groupIds' = DOMAIN groupIds \ {t}
               /\ \A u \in DOMAIN groupIds' : groupIds'[u] = groupIds[u]
<1> DEFINE p == [patch[t] EXCEPT !.at = IF patch[t].at = "good" THEN "over" ELSE patch[t].at]
<1>1. patch' = [patch EXCEPT ![t] = p]
  BY DEF Group!OtherWindow
<1>2. Patch(patch[t])
  BY DEF GroupData
<1>3. Patch(p) /\ p.body = patch[t].body /\ p.at = IF patch[t].at = "good" THEN "over" ELSE patch[t].at
  BY <1>2 DEF Patch
<1> HIDE DEF p
<1>4. OnlyPatch(t) /\ patch'[t] = p
  BY <1>1, OnePatch
<1>5. \A groups : groupIds' = Group!Stored(t, groups) => Stores(t, groups)
  BY DEF Group!Stored, Stores
<1>6. ASSUME groupIds' = Group!Keep(groupIds, Things \ {t})
      PROVE  /\ DOMAIN groupIds' = DOMAIN groupIds \ {t}
             /\ \A u \in DOMAIN groupIds' : groupIds'[u] = groupIds[u]
  BY <1>6 DEF Group!Keep, GroupData, Group!IsList, Things
<1>7. \/ \E groups \in SUBSET Group!Groups : groupIds' = Group!Stored(t, groups)
      \/ groupIds' = Group!Keep(groupIds, Things \ {t})
  BY DEF Group!OtherWindow, Group!Groups, Things
<1> QED
  BY <1>3, <1>4, <1>5, <1>6, <1>7

\* A request left behind by a failed assignment stays, and no other.
LEMMA LeftIs ==
  ASSUME GroupData, NEW t \in Things
  PROVE  /\ Patch(Group!Left(t))
         /\ IF patch[t].at = "left" THEN Group!Left(t) = patch[t] ELSE Group!Left(t).at = "no"
BY NoPatchIs DEF GroupData, Group!Left

LEMMA AssignEffect ==
  ASSUME GroupData, Group!handleAssignThings, NEW t \in Things
  PROVE  /\ Patch(patch'[t]) /\ DOMAIN patch' = Things
         /\ IF t \in Group!ToPatch
            THEN patch'[t].at = "sent" /\ patch'[t].body = allThings[t] \cup {Here}
            ELSE patch'[t] = Group!Left(t)
<1>1. patch' = [u \in Things |-> IF u \in Group!ToPatch THEN [at |-> "sent", body |-> Group!Body(u)]
                                 ELSE Group!Left(u)]
  BY DEF Group!handleAssignThings, Things
<1>2. CASE t \in Group!ToPatch
  <2> DEFINE p == [at |-> "sent", body |-> Group!Body(t)]
  <2>1. Group!Body(t) = allThings[t] \cup {Here} /\ allThings[t] \subseteq Group!Groups
    BY <1>2 DEF Group!Body, Group!ToPatch, GroupData, Group!IsList
  <2>2. Patch(p) /\ p.at = "sent" /\ p.body = allThings[t] \cup {Here}
    BY <2>1 DEF Patch, Group!Groups
  <2> HIDE DEF p
  <2>3. patch'[t] = p
    BY <1>1, <1>2 DEF p
  <2> QED
    BY <1>1, <1>2, <2>2, <2>3
<1>3. CASE t \notin Group!ToPatch
  BY <1>1, <1>3, LeftIs
<1> QED
  BY <1>2, <1>3

LEMMA AssignedEffect ==
  ASSUME GroupData, Group!Assigned, NEW t \in Things
  PROVE  DOMAIN patch' = Things /\ patch'[t] = Group!Left(t) /\ Patch(patch'[t])
BY LeftIs DEF Group!Assigned, Things

LEMMA AssignFailedEffect ==
  ASSUME GroupData, Group!AssignFailed, NEW t \in Things
  PROVE  /\ DOMAIN patch' = Things /\ Patch(patch'[t])
         /\ \/ patch'[t].at = "left" /\ patch[t].at # "no" /\ patch'[t].body = patch[t].body
            \/ patch'[t].at = "no"
<1> DEFINE q == [patch[t] EXCEPT !.at = "left"]
<1>1. DOMAIN patch' = Things /\ patch'[t] = IF patch[t].at = "sent" THEN q ELSE Group!Left(t)
  BY DEF Group!AssignFailed, Things
<1>2. Patch(patch[t])
  BY DEF GroupData
<1>3. patch[t].at = "sent" => Patch(q) /\ q.at = "left" /\ q.body = patch[t].body
  BY <1>2 DEF Patch
<1> HIDE DEF q
<1> QED
  BY <1>1, <1>3, LeftIs

\* The list that is asked for, and the one that is answered.
LEMMA AskEffect ==
  ASSUME GroupData, NEW what, reads' = Group!Ask(what)
  PROVE  \E q : /\ reads' = reads \cup {q} /\ List(q)
                /\ q.what = what /\ q.got = "none" /\ DOMAIN q.data = {}
<1> DEFINE q == [what |-> what, known |-> IF what = "all" THEN things ELSE {},
                 got |-> "none", data |-> Group!NoList]
<1>1. List(q) /\ q.what = what /\ q.got = "none" /\ DOMAIN q.data = {}
  BY DEF List, GroupData, Group!IsList, Group!NoList
<1>2. reads' = reads \cup {q}
  BY DEF Group!Ask
<1> QED
  BY <1>1, <1>2

LEMMA ReadEffect ==
  ASSUME GroupData, NEW r \in reads, Group!Read(r)
  PROVE  \E q : /\ reads' = (reads \ {r}) \cup {q} /\ List(q) /\ q.what = r.what /\ q.got = "good"
                /\ IF r.what = "all"
                   THEN /\ DOMAIN q.data \subseteq DOMAIN groupIds
                        /\ \A t \in DOMAIN q.data : q.data[t] = groupIds[t]
                   ELSE Group!IsFirstPage(DOMAIN q.data, Group!Members, Limit)
<1> DEFINE list(P) == IF r.what = "all" THEN Group!Keep(groupIds, P) ELSE [t \in P |-> {}]
           q(P) == [r EXCEPT !.got = "good", !.data = list(P)]
<1>1. PICK P \in SUBSET DOMAIN groupIds :
        /\ r.what # "all" => Group!IsFirstPage(P, Group!Members, Limit)
        /\ reads' = (reads \ {r}) \cup {q(P)}
  BY Zenon DEF Group!Read, Group!Registered
<1>2. List(r)
  BY DEF GroupData
<1>3. CASE r.what = "all"
  <2>1. list(P) = Group!Keep(groupIds, P)
    BY <1>3
  <2>2. DOMAIN list(P) = P /\ \A t \in P : list(P)[t] = groupIds[t]
    BY <2>1 DEF Group!Keep
  <2>3. Group!IsList(list(P))
    BY <2>2 DEF GroupData, Group!IsList
  <2> HIDE DEF list
  <2>4. List(q(P)) /\ q(P).what = r.what /\ q(P).got = "good" /\ q(P).data = list(P)
    BY <1>2, <2>3 DEF List
  <2> QED
    BY <1>1, <1>3, <2>2, <2>4
<1>4. CASE r.what # "all"
  <2>1. list(P) = [t \in P |-> {}]
    BY <1>4
  <2>2. DOMAIN list(P) = P /\ \A t \in P : list(P)[t] = {}
    BY <2>1
  <2>3. Group!IsList(list(P))
    BY <2>2 DEF GroupData, Group!IsList
  <2> HIDE DEF list
  <2>4. List(q(P)) /\ q(P).what = r.what /\ q(P).got = "good" /\ q(P).data = list(P)
    BY <1>2, <2>3 DEF List
  <2> QED
    BY <1>1, <1>4, <2>2, <2>4
<1> QED
  BY <1>3, <1>4

LEMMA ReadLeaves ==
  ASSUME NEW r, Group!Read(r)
  PROVE  UNCHANGED <<groupIds, things, allThings, assignOpen, loadingAllThings, selected, patch,
                     assigning, assigned, calm, opened, others>>
BY DEF Group!Read

-----------------------------------------------------------------------------
(* Every step keeps the data of the group page *)

PatchesTyped == DOMAIN patch = Things /\ \A t \in Things : Patch(patch[t])

LEMMA PatchesStep ==
  ASSUME GroupData, [Group!Next]_(Group!vars)
  PROVE  PatchesTyped'
<1>0. ASSUME NEW t \in Things, OnlyPatch(t), Patch(patch'[t]) PROVE PatchesTyped'
  BY <1>0 DEF GroupData, PatchesTyped, OnlyPatch
<1>1. CASE \E t \in Things : Group!Update(t) \/ Group!Lost(t) \/ Group!OtherWindow(t)
  BY <1>0, <1>1, UpdateEffect, LostEffect, OtherWindowEffect
<1>2. CASE Group!handleAssignThings \/ Group!Assigned \/ Group!AssignFailed
  <2>1. \A t \in Things : DOMAIN patch' = Things /\ Patch(patch'[t])
    BY <1>2, AssignEffect, AssignedEffect, AssignFailedEffect
  <2>2. DOMAIN patch' = Things
    BY <1>2 DEF Group!handleAssignThings, Group!Assigned, Group!AssignFailed, Things
  <2> QED
    BY <2>1, <2>2 DEF PatchesTyped
<1>3. CASE UNCHANGED patch
  BY <1>3 DEF GroupData, PatchesTyped
<1> QED
  BY <1>1, <1>2, <1>3, ReadLeaves DEF Group!Next, Group!vars, Things, Group!openAssignModal, Group!CloseAssign,
     Group!toggleThingSelection, Group!Listed, Group!ListFailed

LEMMA ReadsStep ==
  ASSUME GroupData, [Group!Next]_(Group!vars)
  PROVE  \A r \in reads' : List(r)
<1>1. CASE Group!openAssignModal \/ Group!Assigned
  BY <1>1, AskEffect DEF GroupData, Group!openAssignModal, Group!Assigned
<1>2. CASE \E r \in reads : Group!Read(r)
  BY <1>2, ReadEffect DEF GroupData
<1>3. CASE reads' \subseteq reads
  BY <1>3 DEF GroupData
<1> QED
  BY <1>1, <1>2, <1>3 DEF Group!Next, Group!vars, Group!CloseAssign, Group!handleAssignThings,
     Group!AssignFailed, Group!toggleThingSelection, Group!Update, Group!Lost, Group!OtherWindow,
     Group!Listed, Group!ListFailed

LEMMA GroupIdsStep ==
  ASSUME GroupData, [Group!Next]_(Group!vars)
  PROVE  Group!IsList(groupIds')
<1>1. ASSUME NEW t \in Things, NEW groups \in SUBSET Group!Groups, Stores(t, groups)
      PROVE  Group!IsList(groupIds')
  BY <1>1 DEF Stores, GroupData, Group!IsList
<1>2. CASE \E t \in Things : Group!Update(t)
  <2> PICK t \in Things : Group!Update(t)
    BY <1>2
  <2> PICK groups : groups = patch[t].body
    OBVIOUS
  <2>1. Stores(t, groups) /\ groups \in SUBSET Group!Groups
    BY UpdateEffect DEF GroupData, Patch
  <2> QED
    BY <1>1, <2>1
<1>3. CASE \E t \in Things : Group!OtherWindow(t)
  <2> PICK t \in Things : Group!OtherWindow(t)
    BY <1>3
  <2>1. CASE \E groups \in SUBSET Group!Groups : Stores(t, groups)
    BY <1>1, <2>1
  <2>2. CASE /\ DOMAIN groupIds' = DOMAIN groupIds \ {t}
             /\ \A u \in DOMAIN groupIds' : groupIds'[u] = groupIds[u]
    BY <2>2 DEF GroupData, Group!IsList
  <2> QED
    BY <2>1, <2>2, OtherWindowEffect
<1>4. CASE UNCHANGED groupIds
  BY <1>4 DEF GroupData
<1> QED
  BY <1>2, <1>3, <1>4, ReadLeaves DEF Group!Next, Group!vars, Things, Group!CloseAssign, Group!handleAssignThings,
     Group!openAssignModal, Group!Assigned, Group!AssignFailed, Group!toggleThingSelection, Group!Lost,
     Group!Listed, Group!ListFailed

LEMMA ListedEffect ==
  ASSUME GroupData, NEW r \in reads, Group!Listed(r)
  PROVE  /\ reads' = reads \ {r} /\ r.got = "good" /\ List(r)
         /\ IF r.what = "all"
            THEN /\ things' = things /\ DOMAIN allThings' \subseteq DOMAIN r.data
                 /\ \A t \in DOMAIN allThings' : allThings'[t] = r.data[t]
            ELSE things' = DOMAIN r.data /\ allThings' = allThings
BY DEF Group!Listed, Group!Keep, GroupData

LEMMA GroupDataStep ==
  ASSUME GroupData, [Group!Next]_(Group!vars)
  PROVE  GroupData'
<1>1. Group!IsList(allThings') /\ things' \subseteq Things
  <2>1. CASE \E r \in reads : Group!Listed(r)
    <3> PICK r \in reads : Group!Listed(r)
      BY <2>1
    <3>1. List(r) /\ Group!IsList(r.data)
      BY DEF GroupData, List
    <3> QED
      BY <3>1, ListedEffect DEF GroupData, Group!IsList, Things
  <2>2. CASE UNCHANGED <<allThings, things>>
    BY <2>2 DEF GroupData
  <2> QED
    BY <2>1, <2>2, ReadLeaves DEF Group!Next, Group!vars, Group!CloseAssign, Group!handleAssignThings,
       Group!openAssignModal, Group!Assigned, Group!AssignFailed, Group!toggleThingSelection, Group!Update,
       Group!Lost, Group!OtherWindow, Group!ListFailed
<1>2. selected' \subseteq Things
  <2>1. CASE \E t \in Things : Group!toggleThingSelection(t)
    BY <2>1 DEF GroupData, Group!toggleThingSelection
  <2>2. CASE selected' \subseteq selected
    BY <2>2 DEF GroupData
  <2> QED
    BY <2>1, <2>2, ReadLeaves DEF Group!Next, Group!vars, Things, Group!CloseAssign, Group!handleAssignThings,
       Group!openAssignModal, Group!Assigned, Group!AssignFailed, Group!Update, Group!Lost,
       Group!OtherWindow, Group!Listed, Group!ListFailed
<1>3. assigned' \subseteq Things
  <2>1. CASE Group!Assigned
    BY <2>1 DEF GroupData, Group!Assigned, Group!Patching, Things
  <2>2. CASE assigned' \subseteq assigned
    BY <2>2 DEF GroupData
  <2> QED
    BY <2>1, <2>2, ReadLeaves DEF Group!Next, Group!vars, Group!CloseAssign, Group!handleAssignThings,
       Group!openAssignModal, Group!AssignFailed, Group!toggleThingSelection, Group!Update, Group!Lost,
       Group!OtherWindow, Group!Listed, Group!ListFailed
<1> QED
  BY <1>1, <1>2, <1>3, PatchesStep, ReadsStep, GroupIdsStep DEF GroupData, PatchesTyped

-----------------------------------------------------------------------------
(* The flags and the counters *)

LEMMA GroupFlagsStep ==
  ASSUME GroupData, GroupFlags, [Group!Next]_(Group!vars)
  PROVE  GroupFlags'
<1>1. /\ assigning' \in BOOLEAN /\ assignOpen' \in BOOLEAN /\ loadingAllThings' \in BOOLEAN
      /\ calm' \in BOOLEAN
  BY ReadLeaves DEF GroupFlags, Group!Next, Group!vars, Group!CloseAssign, Group!handleAssignThings,
     Group!openAssignModal, Group!Assigned, Group!AssignFailed, Group!toggleThingSelection, Group!Update,
     Group!Lost, Group!OtherWindow, Group!Listed, Group!ListFailed, Group!Settle
<1>2. loadingAllThings' => \E r \in reads' : r.what = "all"
  <2>1. CASE Group!openAssignModal \/ Group!Assigned
    BY <2>1, AskEffect DEF GroupFlags, Group!openAssignModal, Group!Assigned
  <2>2. CASE \E r \in reads : Group!Read(r)
    <3> PICK r \in reads : Group!Read(r)
      BY <2>2
    <3> PICK q : reads' = (reads \ {r}) \cup {q} /\ q.what = r.what
      BY ReadEffect
    <3> QED
      BY ReadLeaves DEF GroupFlags
  <2>3. CASE \E r \in reads : Group!Listed(r) \/ Group!ListFailed(r)
    BY <2>3 DEF GroupFlags, Group!Listed, Group!ListFailed, Group!Settle
  <2>4. CASE UNCHANGED <<reads, loadingAllThings>>
    BY <2>4 DEF GroupFlags
  <2> QED
    BY <2>1, <2>2, <2>3, <2>4 DEF Group!Next, Group!vars, Group!CloseAssign, Group!handleAssignThings,
       Group!AssignFailed, Group!toggleThingSelection, Group!Update, Group!Lost, Group!OtherWindow
<1> QED
  BY <1>1, <1>2 DEF GroupFlags

LEMMA GroupCountsStep ==
  ASSUME GroupCounts, [Group!Next]_(Group!vars)
  PROVE  GroupCounts'
<1>1. MaxOpens \in Nat /\ MaxOthers \in Nat
  BY GroupAssumption DEF Group!GroupBounds
<1>2. CASE opened < MaxOpens /\ opened' = opened + 1 /\ others' = others
  BY <1>1, <1>2 DEF GroupCounts
<1>3. CASE others < MaxOthers /\ others' = others + 1 /\ opened' = opened
  BY <1>1, <1>3 DEF GroupCounts
<1>4. CASE UNCHANGED <<opened, others>>
  BY <1>4 DEF GroupCounts
<1> QED
  BY <1>2, <1>3, <1>4, ReadLeaves DEF Group!Next, Group!vars, Group!CloseAssign, Group!handleAssignThings,
     Group!openAssignModal, Group!Assigned, Group!AssignFailed, Group!toggleThingSelection, Group!Update,
     Group!Lost, Group!OtherWindow, Group!Listed, Group!ListFailed

-----------------------------------------------------------------------------
(* What was answered has arrived, and every copy agrees *)

LEMMA ArrivedStep ==
  ASSUME GroupData, Arrived, [Group!Next]_(Group!vars)
  PROVE  Arrived'
<1>1. CASE \E t \in Things : Group!Update(t)
  <2> PICK t \in Things : Group!Update(t)
    BY <1>1
  <2>0. assigned' = assigned /\ Patch(patch[t])
    BY DEF GroupData, Group!Update
  <2>1. /\ OnlyPatch(t) /\ Stores(t, patch[t].body) /\ patch[t].at # "no"
        /\ patch'[t].at = "good" => t \in Group!Registered
    BY UpdateEffect
  <2>2. Here \in patch[t].body
    BY <2>0, <2>1 DEF Patch
  <2>3. \A u \in Things : InGroup(u) \/ (u = t /\ t \in Group!Registered) => InGroup(u)'
    BY <2>1, <2>2 DEF InGroup, Stores, Group!Registered
  <2> QED
    BY <2>0, <2>1, <2>3 DEF Arrived, OnlyPatch
<1>2. CASE \E t \in Things : Group!Lost(t)
  <2> PICK t \in Things : Group!Lost(t)
    BY <1>2
  <2>1. /\ OnlyPatch(t) /\ patch'[t].at # "good" /\ assigned' = assigned /\ groupIds' = groupIds
    BY LostEffect DEF Group!Lost
  <2> QED
    BY <2>1 DEF Arrived, OnlyPatch, InGroup, Group!Registered
<1>3. CASE \E t \in Things : Group!OtherWindow(t)
  <2> PICK t \in Things : Group!OtherWindow(t)
    BY <1>3
  <2>0. assigned' = assigned \ {t}
    BY DEF Group!OtherWindow
  <2>1. OnlyPatch(t) /\ patch'[t].at # "good"
    BY OtherWindowEffect
  <2>2. \A u \in Things \ {t} : InGroup(u) => InGroup(u)'
    BY OtherWindowEffect DEF InGroup, Stores, Group!Registered
  <2> QED
    BY <2>0, <2>1, <2>2 DEF Arrived, OnlyPatch
<1>4. CASE Group!handleAssignThings \/ Group!AssignFailed
  <2>1. assigned' = assigned /\ groupIds' = groupIds
    BY <1>4 DEF Group!handleAssignThings, Group!AssignFailed
  <2>2. \A t \in Things : patch'[t].at # "good"
    BY <1>4, AssignEffect, AssignFailedEffect, LeftIs
  <2> QED
    BY <2>1, <2>2 DEF Arrived, InGroup, Group!Registered
<1>5. CASE Group!Assigned
  <2>1. groupIds' = groupIds /\ assigned' = assigned \cup {t \in Group!Patching : patch[t].at = "good"}
    BY <1>5 DEF Group!Assigned
  <2>2. \A t \in Things : patch'[t].at # "good"
    BY <1>5, AssignedEffect, LeftIs
  <2> QED
    BY <2>1, <2>2 DEF Arrived, InGroup, Group!Registered, Group!Patching
<1>6. CASE UNCHANGED <<groupIds, patch, assigned>>
  BY <1>6 DEF Arrived, InGroup, Group!Registered
<1> QED
  BY <1>1, <1>2, <1>3, <1>4, <1>5, <1>6, ReadLeaves DEF Group!Next, Group!vars, Things, Group!CloseAssign,
     Group!openAssignModal, Group!toggleThingSelection, Group!Listed, Group!ListFailed

\* A step changes the membership in this group alone.
OnlyHere ==
  /\ DOMAIN groupIds' = DOMAIN groupIds
  /\ \A t \in DOMAIN groupIds : groupIds'[t] \ {Here} = groupIds[t] \ {Here}

LEMMA AgreesStays ==
  ASSUME OnlyHere, NEW t, NEW groups, Agrees(t, groups)
  PROVE  Agrees(t, groups)'
BY DEF OnlyHere, Agrees, Group!Registered

LEMMA OnlyHereStep ==
  ASSUME GroupData, GroupCounts, Copies, [Group!Next]_(Group!vars), others' = 0
  PROVE  OnlyHere /\ others = 0
<1>1. CASE \E t \in Things : Group!Update(t)
  <2> PICK t \in Things : Group!Update(t)
    BY <1>1
  <2>1. Stores(t, patch[t].body) /\ patch[t].at # "no" /\ others = 0
    BY UpdateEffect DEF Group!Update
  <2>2. Agrees(t, patch[t].body)
    BY <2>1 DEF Copies
  <2> QED
    BY <2>1, <2>2 DEF Agrees, Stores, OnlyHere, Group!Registered
<1>2. CASE \E t \in Things : Group!OtherWindow(t)
  <2>1. others' = others + 1 /\ others \in Nat
    BY <1>2 DEF GroupCounts, Group!OtherWindow
  <2> QED
    BY <2>1
<1>3. CASE UNCHANGED <<groupIds, others>>
  BY <1>3 DEF OnlyHere
<1> QED
  BY <1>1, <1>2, <1>3, ReadLeaves DEF Group!Next, Group!vars, Things, Group!CloseAssign, Group!handleAssignThings,
     Group!openAssignModal, Group!Assigned, Group!AssignFailed, Group!toggleThingSelection, Group!Lost,
     Group!Listed, Group!ListFailed

LEMMA CopiesStep ==
  ASSUME GroupData, GroupCounts, Copies, [Group!Next]_(Group!vars)
  PROVE  Copies'
<1> SUFFICES ASSUME others' = 0
             PROVE  /\ \A t \in DOMAIN allThings' : Agrees(t, allThings[t])'
                    /\ \A r \in reads' : r.what = "all" => \A t \in DOMAIN r.data : Agrees(t, r.data[t])'
                    /\ \A t \in Things : patch'[t].at = "no" \/ Agrees(t, patch[t].body)'
  BY DEF Copies
<1>1. OnlyHere /\ others = 0
  BY OnlyHereStep
<1>2. \A t, groups : Agrees(t, groups) => Agrees(t, groups)'
  BY <1>1, AgreesStays
<1>3. \A t \in DOMAIN allThings' : Agrees(t, allThings[t])'
  <2>1. CASE \E r \in reads : Group!Listed(r)
    <3> PICK r \in reads : Group!Listed(r)
      BY <2>1
    <3>1. groupIds' = groupIds
      BY DEF Group!Listed
    <3> QED
      BY <1>1, <3>1, ListedEffect DEF Copies, Agrees, Group!Registered
  <2>2. CASE UNCHANGED allThings
    BY <1>1, <2>2 DEF Copies, Agrees, OnlyHere, Group!Registered
  <2> QED
    BY <2>1, <2>2, ReadLeaves DEF Group!Next, Group!vars, Group!CloseAssign, Group!handleAssignThings,
       Group!openAssignModal, Group!Assigned, Group!AssignFailed, Group!toggleThingSelection, Group!Update,
       Group!Lost, Group!OtherWindow, Group!ListFailed
<1>4. \A r \in reads' : r.what = "all" => \A t \in DOMAIN r.data : Agrees(t, r.data[t])'
  <2>1. \A r \in reads : r.what = "all" => \A t \in DOMAIN r.data : Agrees(t, r.data[t])'
    BY <1>1, <1>2 DEF Copies
  <2>2. CASE Group!openAssignModal \/ Group!Assigned
    <3>1. PICK q : reads' = reads \cup {q} /\ DOMAIN q.data = {}
      BY <2>2, AskEffect DEF Group!openAssignModal, Group!Assigned
    <3> QED
      BY <2>1, <3>1
  <2>3. CASE \E r \in reads : Group!Read(r)
    <3> PICK r \in reads : Group!Read(r)
      BY <2>3
    <3>1. PICK q : /\ reads' = (reads \ {r}) \cup {q} /\ q.what = r.what
                   /\ r.what = "all" => \A t \in DOMAIN q.data : q.data[t] = groupIds[t]
      BY ReadEffect
    <3>2. q.what = "all" => \A t \in DOMAIN q.data : Agrees(t, q.data[t])
      BY <3>1 DEF Agrees
    <3> QED
      BY <1>2, <2>1, <3>1, <3>2
  <2>4. CASE reads' \subseteq reads
    BY <2>1, <2>4
  <2> QED
    BY <2>2, <2>3, <2>4 DEF Group!Next, Group!vars, Group!CloseAssign, Group!handleAssignThings,
       Group!AssignFailed, Group!toggleThingSelection, Group!Update, Group!Lost, Group!OtherWindow,
       Group!Listed, Group!ListFailed
<1>5. ASSUME NEW t \in Things, patch'[t].at # "no" PROVE Agrees(t, patch[t].body)'
  <2>1. ASSUME patch'[t].body = patch[t].body, patch[t].at # "no" PROVE Agrees(t, patch[t].body)'
    <3>1. PICK groups : groups = patch[t].body
      OBVIOUS
    <3>2. Agrees(t, groups)'
      BY <1>1, <1>2, <2>1, <3>1 DEF Copies
    <3> QED
      BY <2>1, <3>1, <3>2 DEF Agrees, Group!Registered
  <2>2. CASE \E u \in Things : Group!Update(u) \/ Group!Lost(u) \/ Group!OtherWindow(u)
    <3>1. patch'[t].body = patch[t].body /\ patch[t].at # "no"
      BY <1>5, <2>2, UpdateEffect, LostEffect, OtherWindowEffect DEF OnlyPatch
    <3> QED
      BY <2>1, <3>1
  <2>3. CASE Group!Assigned \/ Group!AssignFailed
    <3>1. patch'[t].body = patch[t].body /\ patch[t].at # "no"
      BY <1>5, <2>3, AssignedEffect, AssignFailedEffect, LeftIs
    <3> QED
      BY <2>1, <3>1
  <2>4. CASE Group!handleAssignThings
    <3>1. CASE t \in Group!ToPatch
      <4>1. /\ t \in DOMAIN allThings /\ patch'[t].body = allThings[t] \cup {Here}
            /\ groupIds' = groupIds
        BY <2>4, <3>1, AssignEffect DEF Group!ToPatch, Group!handleAssignThings
      <4>2. Agrees(t, allThings[t])
        BY <1>1, <4>1 DEF Copies
      <4> QED
        BY <4>1, <4>2 DEF Agrees, Group!Registered
    <3>2. CASE t \notin Group!ToPatch
      <4>1. patch'[t].body = patch[t].body /\ patch[t].at # "no"
        BY <1>5, <2>4, <3>2, AssignEffect, LeftIs
      <4> QED
        BY <2>1, <4>1
    <3> QED
      BY <3>1, <3>2
  <2>5. CASE UNCHANGED patch
    BY <1>5, <2>1, <2>5
  <2> QED
    BY <2>2, <2>3, <2>4, <2>5, ReadLeaves DEF Group!Next, Group!vars, Things, Group!CloseAssign,
       Group!openAssignModal, Group!toggleThingSelection, Group!Listed, Group!ListFailed
<1> QED
  BY <1>3, <1>4, <1>5

-----------------------------------------------------------------------------
(* The members shown are those stored *)

LEMMA MembersFollowedStep ==
  ASSUME GroupData, GroupFlags, MembersFollowed, [Group!Next]_(Group!vars)
  PROVE  MembersFollowed'
<1> SUFFICES ASSUME calm'
             PROVE  /\ \A t \in Things : patch'[t].at # "left"
                    /\ assigning' \/ NoneSent'
                    /\ \A r \in reads' : r.what = "all" \/ MembersRead(r)'
                    /\ assigning' \/ (\E r \in reads' : r.what # "all")
                       \/ Group!IsFirstPage(things', Group!Members', Limit)
  BY DEF MembersFollowed
<1>1. CASE UNCHANGED <<groupIds, things, reads, patch, assigning, calm>>
  BY <1>1 DEF MembersFollowed, NoneSent, MembersRead, Group!Members, Group!Registered
<1>2. CASE Group!openAssignModal
  <2>1. PICK q : reads' = reads \cup {q} /\ q.what = "all"
    BY <1>2, AskEffect DEF Group!openAssignModal
  <2>2. calm /\ reads = {} /\ UNCHANGED <<groupIds, things, patch, assigning>>
    BY <1>2 DEF Group!openAssignModal
  <2> QED
    BY <2>1, <2>2 DEF MembersFollowed, NoneSent, MembersRead, Group!Members, Group!Registered
<1>3. CASE Group!handleAssignThings
  <2>1. calm /\ reads = {} /\ reads' = reads /\ assigning'
    BY <1>3 DEF Group!handleAssignThings
  <2>2. \A t \in Things : patch'[t].at # "left"
    BY <1>3, <2>1, AssignEffect, LeftIs DEF MembersFollowed
  <2> QED
    BY <2>1, <2>2
<1>4. CASE Group!Assigned
  <2>1. calm /\ UNCHANGED <<groupIds, things, assigning>> /\ assigning
    BY <1>4 DEF Group!Assigned
  <2>2. PICK q : reads' = reads \cup {q} /\ q.what = "assigned" /\ q.got = "none"
    BY <1>4, AskEffect DEF Group!Assigned
  <2>3. \A t \in Things : patch'[t].at = "no"
    BY <1>4, <2>1, AssignedEffect, LeftIs DEF MembersFollowed
  <2> QED
    BY <2>1, <2>2, <2>3 DEF MembersFollowed, NoneSent, MembersRead, Group!Members, Group!Registered
<1>5. CASE \E t \in Things : Group!Update(t) \/ Group!Lost(t)
  <2> PICK t \in Things : Group!Update(t) \/ Group!Lost(t)
    BY <1>5
  <2>1. calm /\ UNCHANGED <<things, reads, assigning>> /\ patch[t].at \in {"sent", "left"}
    BY DEF Group!Update, Group!Lost
  <2>2. assigning /\ \A r \in reads : r.what = "all"
    BY <2>1 DEF MembersFollowed, NoneSent, MembersRead
  <2>3. OnlyPatch(t) /\ patch'[t].at # "left"
    BY UpdateEffect, LostEffect
  <2> QED
    BY <2>1, <2>2, <2>3 DEF MembersFollowed, OnlyPatch
<1>6. CASE \E r \in reads : Group!Listed(r)
  <2> PICK r \in reads : Group!Listed(r)
    BY <1>6
  <2>1. calm /\ UNCHANGED <<groupIds, patch>> /\ assigning' = (assigning /\ r.what # "assigned")
    BY DEF Group!Listed, Group!Settle
  <2>2. /\ reads' = reads \ {r} /\ r.got = "good"
        /\ IF r.what = "all" THEN things' = things ELSE things' = DOMAIN r.data
    BY ListedEffect
  <2>3. r.what # "all" => Group!IsFirstPage(things', Group!Members, Limit) /\ NoneSent
    BY <2>1, <2>2 DEF MembersFollowed, MembersRead
  <2>4. assigning' \/ NoneSent
    BY <2>1, <2>3 DEF MembersFollowed, GroupFlags
  <2>5. assigning' \/ (\E q \in reads' : q.what # "all") \/ Group!IsFirstPage(things', Group!Members, Limit)
    BY <2>1, <2>2, <2>3 DEF MembersFollowed, GroupFlags
  <2> QED
    BY <2>1, <2>2, <2>4, <2>5 DEF MembersFollowed, NoneSent, MembersRead, Group!Members, Group!Registered
<1>7. CASE \E r \in reads : Group!Read(r)
  <2> PICK r \in reads : Group!Read(r)
    BY <1>7
  <2>1. calm /\ UNCHANGED <<groupIds, things, patch, assigning>>
    BY ReadLeaves
  <2>2. PICK q : /\ reads' = (reads \ {r}) \cup {q} /\ q.what = r.what
                 /\ r.what # "all" => Group!IsFirstPage(DOMAIN q.data, Group!Members, Limit)
    BY ReadEffect
  <2>3. q.what # "all" => Group!IsFirstPage(DOMAIN q.data, Group!Members, Limit) /\ NoneSent
    BY <2>1, <2>2 DEF MembersFollowed, MembersRead
  <2> QED
    BY <2>1, <2>2, <2>3 DEF MembersFollowed, NoneSent, MembersRead, Group!Members, Group!Registered
<1> QED
  BY <1>1, <1>2, <1>3, <1>4, <1>5, <1>6, <1>7 DEF Group!Next, Group!vars, Things, Group!CloseAssign,
     Group!AssignFailed, Group!toggleThingSelection, Group!OtherWindow, Group!ListFailed

-----------------------------------------------------------------------------
LEMMA InitGroupInv == Group!Init => GroupInv
<1> SUFFICES ASSUME Group!Init PROVE GroupInv
  OBVIOUS
<1>1. DOMAIN patch = Things /\ \A t \in Things : patch[t] = Group!NoPatch
  BY DEF Group!Init, Things
<1>2. \A t \in Things : Patch(patch[t]) /\ patch[t].at = "no"
  BY <1>1, NoPatchIs
<1> DEFINE first == [what |-> "members", known |-> {}, got |-> "none", data |-> Group!NoList]
<1>3. List(first) /\ first.what = "members" /\ first.got = "none"
  BY DEF List, Group!IsList, Group!NoList
<1>4. reads = {first}
  BY DEF Group!Init
<1> HIDE DEF first
<1>5. DOMAIN groupIds = Things /\ \A t \in Things : groupIds[t] \subseteq Group!Groups
  BY DEF Group!Init, Group!Groups, Things
<1>6. GroupData
  BY <1>1, <1>2, <1>3, <1>4, <1>5 DEF GroupData, Group!Init, Group!IsList, Group!NoList, Things
<1>7. GroupFlags
  BY DEF Group!Init, GroupFlags
<1>8. GroupCounts
  BY GroupAssumption DEF Group!Init, GroupCounts, Group!GroupBounds
<1>9. Arrived
  BY <1>2 DEF Group!Init, Arrived
<1>10. Copies
  BY <1>2, <1>3, <1>4 DEF Group!Init, Copies, Group!NoList
<1>11. MembersFollowed
  BY <1>2, <1>3, <1>4 DEF Group!Init, MembersFollowed, NoneSent, MembersRead
<1> QED
  BY <1>6, <1>7, <1>8, <1>9, <1>10, <1>11 DEF GroupInv

LEMMA GroupInvStep == GroupInv /\ [Group!Next]_(Group!vars) => GroupInv'
BY GroupDataStep, GroupFlagsStep, GroupCountsStep, ArrivedStep, CopiesStep, MembersFollowedStep DEF GroupInv

LEMMA GroupInvShows ==
  ASSUME GroupInv
  PROVE  Group!GroupPageTypeOK /\ Group!MembersShown /\ Group!AssignedStays
<1>1. GroupData /\ GroupFlags /\ GroupCounts /\ Arrived /\ MembersFollowed
  BY DEF GroupInv
<1>2. Group!GroupPageTypeOK
  <2>1. {assigning, assignOpen, loadingAllThings, calm} \subseteq BOOLEAN
    BY <1>1, Zenon DEF GroupFlags
  <2> QED
    BY <1>1, <2>1 DEF GroupData, List, Patch, GroupFlags, GroupCounts, Group!GroupPageTypeOK, Things
<1>3. Group!MembersShown
  BY <1>1 DEF MembersFollowed, Group!MembersShown
<1>4. Group!AssignedStays
  BY <1>1 DEF GroupData, Arrived, InGroup, Group!AssignedStays, Things
<1> QED
  BY <1>2, <1>3, <1>4

-----------------------------------------------------------------------------
(* Whichever module runs *)

PagesInv ==
  /\ TypeOK
  /\ which = "Types" => TypesInv
  /\ which = "Group" => GroupInv

LEMMA InitPagesInv == AllInit => PagesInv
BY InitTypes, InitTypesInv, InitGroupInv DEF AllInit, PagesInv

LEMMA PagesInvStep == PagesInv /\ [AllNext]_allVars => PagesInv'
<1> SUFFICES ASSUME PagesInv, [AllNext]_allVars PROVE PagesInv'
  OBVIOUS
<1>1. which' = which
  BY DEF AllNext, allVars
<1>2. [Next]_vars
  BY DEF AllNext, allVars
<1>3. TypeOK'
  BY <1>2, TypeStep DEF PagesInv
<1>4. ASSUME which = "Types" PROVE TypesInv'
  <2>1. [Types!Next]_(Types!vars)
    BY <1>4 DEF AllNext, allVars, Types!vars
  <2> QED
    BY <1>4, <2>1, TypesInvStep DEF PagesInv
<1>5. ASSUME which = "Group" PROVE GroupInv'
  <2>1. [Group!Next]_(Group!vars)
    BY <1>5 DEF AllNext, allVars, Group!vars
  <2> QED
    BY <1>5, <2>1, GroupInvStep DEF PagesInv
<1> QED
  BY <1>1, <1>3, <1>4, <1>5 DEF PagesInv

LEMMA PagesInvariance == AllSpec => []PagesInv
BY InitPagesInv, PagesInvStep, PTL DEF AllSpec

\* Every variable of the instance, of the types and of the group page holds a value of
\* its kind, and no button waits for a handler that is not under way, whatever the API,
\* the page and another administrator do.
THEOREM PagesTyped == AllSpec => []PagesTypeOK
<1>1. PagesInv => PagesTypeOK
  BY TypesInvShows, GroupInvShows DEF PagesInv, PagesTypeOK
<1> QED
  BY <1>1, PagesInvariance, PTL

\* For any number of types, handlers and requests: the check of a slug and its write are
\* two awaits, but the index keeps every slug to one type, also while a restore inserts
\* the types of its file (ThingTypesService.create, update; BackupService.restore).
THEOREM SlugsNameOneType == AllSpec => []SlugsNameTypes
<1>1. PagesInv => SlugsNameTypes
  BY TypesInvShows DEF PagesInv, SlugsNameTypes
<1> QED
  BY <1>1, PagesInvariance, PTL

\* A system type keeps existing under its slug as long as the API is not asked to rename it
\* or to restore the types: however old the dialog and the list of a page, whatever a
\* delete checked before, and however often the API starts again.
THEOREM SystemTypesAreKept == AllSpec => SystemTypesKept
<1>1. PagesInv /\ [AllNext]_allVars => [which = "Types" => Types!KeepsSystemTypes]_allVars
  <2> SUFFICES ASSUME PagesInv, [AllNext]_allVars, which = "Types", ~overridden',
                      NEW n \in DOMAIN types, types[n].isSystem
               PROVE  n \in DOMAIN types' /\ types'[n].isSystem /\ types'[n].slug = types[n].slug
    BY DEF Types!KeepsSystemTypes
  <2>1. [Types!Next]_(Types!vars)
    BY DEF AllNext, allVars, Types!vars
  <2>2. Keeps
    BY <2>1, LeavesStep DEF PagesInv, TypesInv
  <2> QED
    BY <2>2 DEF Keeps, System
<1> QED
  BY <1>1, PagesInvariance, PTL DEF AllSpec, SystemTypesKept

\* What the dialog of the types held when a form was saved lands in the type it was typed
\* for, however often the dialog is reopened meanwhile and whoever else writes.
THEOREM FormsLandWhereTyped == AllSpec => []TypedForIt
<1>1. PagesInv => TypedForIt
  BY TypesInvShows DEF PagesInv, TypedForIt
<1> QED
  BY <1>1, PagesInvariance, PTL

\* Used alone, one handler at a time and none failed, the tab shows the stored types and
\* the page of a group the first page of its members once they settle; and what the group
\* page reported as assigned is in the group, until another window takes it out, also when
\* requests of an earlier assignment that failed are still on their way.
THEOREM PagesShowStored == AllSpec => []PagesShow
<1>1. PagesInv => PagesShow
  BY TypesInvShows, GroupInvShows DEF PagesInv, PagesShow
<1> QED
  BY <1>1, PagesInvariance, PTL

\* An assignment replaces the whole array of every thing's groups, by a copy that may be
\* old: as long as no other window writes, it changes the membership in its own group
\* and no other, for any number of things, lists and assignments.
THEOREM AssignmentKeepsOthers == AllSpec => OtherGroupsKept
<1>1. PagesInv /\ [AllNext]_allVars => [which = "Group" => Group!OnlyHereChanges]_allVars
  <2> SUFFICES ASSUME PagesInv, [AllNext]_allVars, which = "Group", others' = 0, NEW t \in Group!Registered
               PROVE  groupIds'[t] \ {Here} = groupIds[t] \ {Here}
    BY DEF Group!OnlyHereChanges
  <2>1. [Group!Next]_(Group!vars)
    BY DEF AllNext, allVars, Group!vars
  <2>2. OnlyHere
    BY <2>1, OnlyHereStep DEF PagesInv, GroupInv
  <2> QED
    BY <2>2 DEF OnlyHere, Group!Registered
<1> QED
  BY <1>1, PagesInvariance, PTL DEF AllSpec, OtherGroupsKept

=============================================================================
