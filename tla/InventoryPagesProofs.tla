------------------------- MODULE InventoryPagesProofs -------------------------
(***************************************************************************)
(* What holds of the settings page, its users and its restores for any     *)
(* number of handlers, users, collections and requests; and that the       *)
(* theorems about Inventory and ScanQueue hold of their instances in the   *)
(* composed module: what runs there is the same specification, under the   *)
(* assumptions of the instance.                                            *)
(***************************************************************************)
EXTENDS MCInventoryPages, InventoryProofs, WellFoundedInduction

-----------------------------------------------------------------------------
(* What the requests of the settings page hold *)

C == Settings!Coll
Texts == Settings!Values
Active(c) == call[c].at # "idle"

Fields == {"at", "req", "kind", "id", "value", "list", "opens", "next", "todo"}

\* A request holds what its kind needs until it is answered.
Request(r) ==
  /\ DOMAIN r = Fields
  /\ r.todo \subseteq {"settings", "users"}
  /\ r.at = "idle" => r.req = "none"
  /\ r.req \in {"load", "settings", "users"} \/ r.todo = {}
  /\ r.req = "save" /\ r.at # "bad" => r.value \in Texts
  /\ r.req = "settings" /\ r.at = "good" => r.value \in Texts
  /\ r.req = "users" /\ r.at = "good" => r.list \subseteq Users
  /\ r.req = "addUser" /\ r.at # "bad" => r.id \in Users
  /\ r.req = "restore" => r.list \subseteq C /\ r.kind = "restore"
  /\ r.at \in {"clear", "fill"} =>
       r.req = "restore" /\ r.next \in DOMAIN Collections /\ Collections[r.next] \in r.list
  \* the settings are read at the start and after a restore, when no button waits
  /\ "settings" \in r.todo \/ r.req = "settings" => r.kind = "none"

Stored ==
  /\ settings \in Texts /\ users \subseteq Users /\ data \in [C -> SUBSET Settings!Docs]
  /\ form \in [value : Texts, typed : BOOLEAN]
  /\ shown \subseteq Users /\ restored \subseteq C
  /\ loading \in BOOLEAN /\ loadFailed \in BOOLEAN /\ calm \in BOOLEAN
  /\ starts \in 0..MaxStarts /\ others \in 0..MaxOthers

Waits == DOMAIN call = Scans /\ \A c \in Scans : Request(call[c])

Buttons == "none" \notin busy /\ \A k \in busy : \E c \in Scans : Active(c) /\ call[c].kind = k

Typed == Stored /\ Waits /\ Buttons

-----------------------------------------------------------------------------
(* The values the page starts with *)

\* Until a read of the settings has failed, they are in no text that could be saved.
Unsent(r) == (r.req = "save" /\ r.at # "bad") \/ (r.req = "settings" /\ r.at = "good") =>
               r.value[1] # "page"
Defaults ==
  ~loadFailed => /\ settings[1] # "page"
                 /\ loading \/ form.value[1] # "page"
                 /\ \A c \in Scans : Unsent(call[c])

-----------------------------------------------------------------------------
(* A page that writes alone *)

OneHandler == \A c, d \in Scans : Active(c) /\ Active(d) => c = d

\* What was read or saved is what is stored until the page has met the answer.
Answered(r) ==
  /\ r.at = "good" /\ r.req = "users" => Settings!IsPage(r.list, users)
  /\ r.at = "good" /\ r.req \in {"settings", "save"} => r.value = settings

UsersDue(r) == "users" \in r.todo \/ (r.at = "good" /\ r.req \in {"users", "addUser", "deleteUser"})
FormDue(r) == "settings" \in r.todo \/ (r.at = "good" /\ r.req \in {"settings", "save"})

UsersShown == Settings!IsPage(shown, users) \/ \E c \in Scans : UsersDue(call[c])
FormShown == form.typed \/ form.value = settings \/ \E c \in Scans : FormDue(call[c])

\* A restore: the collections behind it hold the backup's documents, one may be empty.
Filling(r, k) == r.at = "fill" /\ k = Collections[r.next]
Restoring(r) ==
  /\ r.at \in {"clear", "fill"} =>
       \A j \in DOMAIN Collections :
         j < r.next /\ Collections[j] \in r.list /\ Collections[j] # Collections[r.next] =>
           data[Collections[j]] = {"backup"}
  /\ r.at = "fill" => data[Collections[r.next]] = {}
  /\ r.at = "good" /\ r.req = "restore" => \A k \in r.list : data[k] = {"backup"}
Kept(k) == data[k] # {} /\ (k \in restored => data[k] = {"backup"})
DataKept == \A k \in C : Kept(k) \/ \E c \in Scans : Filling(call[c], k)

Calm ==
  calm => /\ OneHandler
          /\ \A c \in Scans : Answered(call[c]) /\ Restoring(call[c])
          /\ UsersShown /\ FormShown /\ DataKept

SettingsInv == which = "Settings" => Typed /\ Defaults /\ Calm

-----------------------------------------------------------------------------
(* A slot that is replaced *)

LEMMA CallReplaced ==
  ASSUME NEW c \in Scans, NEW r, DOMAIN call = Scans, call' = [call EXCEPT ![c] = r]
  PROVE  DOMAIN call' = Scans /\ call'[c] = r /\ \A d \in Scans \ {c} : call'[d] = call[d]
OBVIOUS

\* A button begins to wait with its handler and stops with it at the latest.
Waiting(c, r) ==
  \/ busy' = busy /\ (~Active(c) \/ (r.at # "idle" /\ r.kind = call[c].kind))
  \/ busy' = busy \ {call[c].kind}
  \/ busy' = busy \cup {r.kind} /\ r.at # "idle" /\ r.kind # "none" /\ ~Active(c)

LEMMA TypedAfter ==
  ASSUME Typed, NEW c \in Scans, NEW r, call' = [call EXCEPT ![c] = r], Request(r), Stored',
         Waiting(c, r)
  PROVE  Typed'
<1>1. DOMAIN call' = Scans /\ call'[c] = r /\ \A d \in Scans \ {c} : call'[d] = call[d]
  BY CallReplaced DEF Typed, Waits
<1>2. Waits'
  BY <1>1 DEF Typed, Waits, Request
<1>3. ASSUME NEW k \in busy' PROVE k # "none" /\ \E d \in Scans : (Active(d))' /\ call'[d].kind = k
  <2>1. CASE k \in busy
    <3>1. k # "none"
      BY <2>1 DEF Typed, Buttons
    <3>2. PICK d \in Scans : Active(d) /\ call[d].kind = k
      BY <2>1 DEF Typed, Buttons
    <3>3. CASE d # c
      BY <3>1, <3>2, <3>3, <1>1 DEF Active
    <3>4. CASE d = c
      BY <3>1, <3>2, <3>4, <1>1, <1>3 DEF Active, Waiting
    <3> QED
      BY <3>3, <3>4
  <2>2. CASE k \notin busy
    BY <2>2, <1>1, <1>3 DEF Active, Waiting
  <2> QED
    BY <2>1, <2>2
<1> QED
  BY <1>2, <1>3 DEF Typed, Buttons

LEMMA DefaultsAfter ==
  ASSUME Typed, Defaults, NEW c \in Scans, NEW r, call' = [call EXCEPT ![c] = r], Unsent(r),
         loadFailed => loadFailed',
         ~loadFailed' => settings'[1] # "page" /\ (loading' \/ form'.value[1] # "page")
  PROVE  Defaults'
<1>1. call'[c] = r /\ \A d \in Scans \ {c} : call'[d] = call[d]
  BY CallReplaced DEF Typed, Waits
<1> QED
  BY <1>1 DEF Defaults, Unsent

-----------------------------------------------------------------------------
(* One handler under way *)

Solo(c) ==
  /\ \A d \in Scans : Active(d) => d = c
  /\ Answered(call[c]) /\ Restoring(call[c])
  /\ Settings!IsPage(shown, users) \/ UsersDue(call[c])
  /\ form.typed \/ form.value = settings \/ FormDue(call[c])
  /\ \A k \in C : Kept(k) \/ Filling(call[c], k)

\* An idle slot owes the page nothing.
LEMMA IdleOwesNothing ==
  ASSUME NEW r, Request(r), r.at = "idle"
  PROVE  ~UsersDue(r) /\ ~FormDue(r) /\ (\A k : ~Filling(r, k)) /\ r.todo = {} /\ r.req = "none"
BY DEF Request, UsersDue, FormDue, Filling

LEMMA AloneIsSolo ==
  ASSUME Typed, Calm, calm, NEW c \in Scans, Active(c) \/ Settings!Busy = {}
  PROVE  Solo(c)
<1>1. \A d \in Scans : Active(d) => d = c
  BY DEF Calm, OneHandler, Active, Settings!Busy
<1>2. ASSUME NEW d \in Scans, d # c
      PROVE ~UsersDue(call[d]) /\ ~FormDue(call[d]) /\ \A k : ~Filling(call[d], k)
  <2>1. call[d].at = "idle"
    BY <1>1, <1>2 DEF Active
  <2>2. Request(call[d])
    BY DEF Typed, Waits
  <2> QED
    BY <2>1, <2>2, IdleOwesNothing
<1>3. Settings!IsPage(shown, users) \/ UsersDue(call[c])
  BY <1>2 DEF Calm, UsersShown
<1>4. form.typed \/ form.value = settings \/ FormDue(call[c])
  BY <1>2 DEF Calm, FormShown
<1>5. \A k \in C : Kept(k) \/ Filling(call[c], k)
  BY <1>2 DEF Calm, DataKept
<1> QED
  BY <1>1, <1>3, <1>4, <1>5 DEF Solo, Calm

LEMMA SoloIsCalm ==
  ASSUME Typed, NEW c \in Scans, Solo(c)
  PROVE  Calm
<1>1. \A d \in Scans : d # c => call[d].at = "idle" /\ call[d].req = "none"
  BY DEF Solo, Active, Typed, Waits, Request
<1>2. \A d \in Scans : Answered(call[d]) /\ Restoring(call[d])
  <2>1. \A d \in Scans : d # c => Answered(call[d]) /\ Restoring(call[d])
    BY <1>1 DEF Answered, Restoring
  <2> QED
    BY <2>1 DEF Solo
<1> QED
  BY <1>1, <1>2 DEF Solo, Calm, OneHandler, UsersShown, FormShown, DataKept

\* What a handler that runs alone does keeps the page calm.
LEMMA CalmAfter ==
  ASSUME Typed, Calm, Typed', NEW c \in Scans, calm' => calm /\ (Active(c) \/ Settings!Busy = {}),
         calm' /\ Solo(c) => (Solo(c))'
  PROVE  Calm'
<1>1. CASE ~calm'
  BY <1>1 DEF Calm
<1>2. CASE calm'
  <2>1. Solo(c)
    BY <1>2, AloneIsSolo
  <2>2. (Solo(c))'
    BY <1>2, <2>1
  <2> QED
    BY <2>2, SoloIsCalm, PTL
<1> QED
  BY <1>1, <1>2

\* The other slots stay idle.
LEMMA SoloAfter ==
  ASSUME Typed, NEW c \in Scans, NEW r, call' = [call EXCEPT ![c] = r], Solo(c),
         (Answered(r))', (Restoring(r))',
         Settings!IsPage(shown', users') \/ UsersDue(r),
         form'.typed \/ form'.value = settings' \/ FormDue(r),
         \A k \in C : (Kept(k))' \/ Filling(r, k)
  PROVE  (Solo(c))'
<1>1. call'[c] = r /\ \A d \in Scans \ {c} : call'[d] = call[d]
  BY CallReplaced DEF Typed, Waits
<1>2. \A d \in Scans : (Active(d))' => d = c
  BY <1>1 DEF Solo, Active
<1>3. (Answered(call[c]))' /\ (Restoring(call[c]))'
  BY <1>1 DEF Answered, Restoring
<1>4. \A k \in C : (Kept(k) \/ Filling(call[c], k))'
  BY <1>1 DEF Filling
<1>5. (Settings!IsPage(shown, users) \/ UsersDue(call[c]))'
  BY <1>1 DEF UsersDue
<1>6. (form.typed \/ form.value = settings \/ FormDue(call[c]))'
  BY <1>1 DEF FormDue
<1> QED
  BY <1>2, <1>3, <1>4, <1>5, <1>6 DEF Solo

-----------------------------------------------------------------------------
(* The page's handlers *)

\* A request the page has just sent.
Sent(kind, n, value, file, opens) ==
  [Settings!Idle EXCEPT !.at = "sent", !.req = kind, !.kind = kind, !.id = n, !.value = value,
                        !.list = file, !.opens = opens]

LEMMA IdleIsRequest == Request(Settings!Idle) /\ Settings!Idle.at = "idle"
BY DEF Request, Settings!Idle, Fields

LEMMA StartKeeps ==
  ASSUME Typed, Defaults, Calm, NEW c \in Scans, NEW kind, NEW n, NEW value, NEW file, NEW opens,
         kind \in {"save", "addUser", "deleteUser", "export", "restore"},
         Settings!Start(c, kind, n, value, file, opens),
         kind = "save" => value = form.value, kind = "addUser" => n \in Users,
         kind = "restore" => file \subseteq C
  PROVE  Typed' /\ Defaults' /\ Calm'
<1>1. PICK r : r = Sent(kind, n, value, file, opens)
  OBVIOUS
<1>2. /\ DOMAIN r = Fields /\ r.at = "sent" /\ r.req = kind /\ r.kind = kind /\ r.id = n
      /\ r.value = value /\ r.list = file /\ r.todo = {}
  BY <1>1 DEF Sent, Settings!Idle, Fields
<1>3. call' = [call EXCEPT ![c] = r] /\ ~Active(c) /\ ~loading /\ starts < MaxStarts
  BY <1>1 DEF Settings!Start, Sent, Settings!Ready, Active
<1>4. /\ starts' = starts + 1 /\ busy' = busy \cup {kind} /\ calm' = (calm /\ Settings!Busy = {})
      /\ UNCHANGED <<settings, users, data, others, form, shown, loading, loadFailed, restored>>
  BY DEF Settings!Start, Settings!StoreUnchanged
<1>5. form.value \in Texts
  BY DEF Typed, Stored
<1>6. Request(r)
  BY <1>2, <1>5 DEF Request
<1>7. Stored'
  <2>1. starts' \in 0..MaxStarts
    BY <1>3, <1>4, SettingsAssumption DEF Typed, Stored, Settings!SettingsBounds
  <2>2. calm' \in BOOLEAN
    BY <1>4
  <2> QED
    BY <1>4, <2>1, <2>2 DEF Typed, Stored
<1>8. Typed'
  BY <1>2, <1>3, <1>4, <1>6, <1>7, TypedAfter DEF Waiting
<1>9. Defaults'
  <2>1. ~loadFailed => settings[1] # "page" /\ form.value[1] # "page"
    BY <1>3 DEF Defaults
  <2>2. CASE loadFailed
    BY <2>2, <1>4 DEF Defaults
  <2>3. CASE ~loadFailed
    BY <2>1, <2>3, <1>2, <1>3, <1>4, DefaultsAfter DEF Unsent
  <2> QED
    BY <2>2, <2>3
<1>10. ASSUME calm', Solo(c) PROVE (Solo(c))'
  <2>1. ~UsersDue(call[c]) /\ ~FormDue(call[c]) /\ \A k : ~Filling(call[c], k)
    BY <1>3, IdleOwesNothing DEF Typed, Waits, Active
  <2>2. (Answered(r))' /\ (Restoring(r))'
    BY <1>2 DEF Answered, Restoring
  <2>3. \A k \in C : (Kept(k))'
    BY <2>1, <1>4, <1>10 DEF Solo, Kept
  <2> QED
    BY <2>1, <2>2, <2>3, <1>3, <1>4, <1>10, SoloAfter DEF Solo
<1> QED
  BY <1>4, <1>8, <1>9, <1>10, CalmAfter

LEMMA ClickKeeps ==
  ASSUME Typed, Defaults, Calm, NEW c \in Scans, Settings!Click(c)
  PROVE  Typed' /\ Defaults' /\ Calm'
<1> DEFINE Begins(kind, n, value) ==
             \E opens \in BOOLEAN : Settings!Start(c, kind, n, value, {}, opens)
<1>0. ASSUME NEW kind \in {"save", "addUser", "deleteUser", "export"}, NEW n, NEW value, Begins(kind, n, value),
             kind = "save" => value = form.value, kind = "addUser" => n \in Users
      PROVE  Typed' /\ Defaults' /\ Calm'
  BY <1>0, StartKeeps
<1>1. CASE Settings!handleSaveSettings(c)
  <2>1. PICK value : value = form.value
    OBVIOUS
  <2>2. Begins("save", None, value)
    BY <1>1, <2>1, Zenon DEF Settings!handleSaveSettings
  <2> HIDE DEF Begins
  <2> QED
    BY <2>1, <2>2, <1>0
<1>2. CASE Settings!handleAddUser(c)
  <2>1. PICK u \in Users : Begins("addUser", u, None)
    BY <1>2, Zenon DEF Settings!handleAddUser
  <2> HIDE DEF Begins
  <2> QED
    BY <2>1, <1>0
<1>3. CASE Settings!handleDeleteUser(c)
  <2>1. PICK u \in shown : Begins("deleteUser", u, None)
    BY <1>3, Zenon DEF Settings!handleDeleteUser
  <2> HIDE DEF Begins
  <2> QED
    BY <2>1, <1>0
<1>4. CASE Settings!handleExport(c)
  <2>1. Begins("export", None, None)
    BY <1>4, Zenon DEF Settings!handleExport
  <2> HIDE DEF Begins
  <2> QED
    BY <2>1, <1>0
<1>5. CASE Settings!handleRestore(c)
  BY <1>5, StartKeeps DEF Settings!handleRestore, C
<1> QED
  BY <1>1, <1>2, <1>3, <1>4, <1>5 DEF Settings!Click

LEMMA TypeKeeps ==
  ASSUME Typed, Defaults, Calm, Settings!Type
  PROVE  Typed' /\ Defaults' /\ Calm'
<1>1. /\ ~loading /\ form' = [value |-> <<form.value[1], 1 - form.value[2]>>, typed |-> TRUE]
      /\ UNCHANGED <<settings, users, data, others, shown, loading, busy, call, loadFailed, calm,
                     restored, starts>>
  BY DEF Settings!Type, Settings!Ready, Settings!StoreUnchanged
<1>2. form.value \in {"first", "page", "other"} \X {0, 1}
  BY DEF Typed, Stored, Texts, Settings!Values
<1>3. form' \in [value : Texts, typed : BOOLEAN] /\ form'.typed /\ form'.value[1] = form.value[1]
  BY <1>1, <1>2 DEF Texts, Settings!Values
<1>4. Typed'
  BY <1>1, <1>3 DEF Typed, Stored, Waits, Request, Buttons, Active
<1>5. Defaults'
  BY <1>1, <1>3 DEF Defaults, Unsent
<1>6. Calm'
  BY <1>1, <1>3 DEF Calm, OneHandler, Active, Answered, Restoring, UsersShown, UsersDue, FormShown,
                    DataKept, Kept, Filling
<1> QED
  BY <1>4, <1>5, <1>6

\* Another window ends what is said of a page that writes alone.
LEMMA OtherWindowKeeps ==
  ASSUME Typed, Defaults, Calm, Settings!OtherWindow
  PROVE  Typed' /\ Defaults' /\ Calm'
<1>1. /\ others < MaxOthers /\ others' = others + 1 /\ calm' = FALSE
      /\ UNCHANGED <<form, shown, loading, busy, loadFailed, restored, data, call, starts>>
  BY DEF Settings!OtherWindow, Settings!PageUnchanged
<1>2. /\ settings' = settings \/ settings' = <<"other", 0>>
      /\ users' \subseteq Users
  BY DEF Settings!OtherWindow, Typed, Stored
<1>3. settings' \in Texts
  BY <1>2 DEF Typed, Stored, Texts, Settings!Values
<1>4. others' \in 0..MaxOthers
  BY <1>1, SettingsAssumption DEF Typed, Stored, Settings!SettingsBounds
<1>5. Typed'
  BY <1>1, <1>2, <1>3, <1>4 DEF Typed, Stored, Waits, Request, Buttons, Active
<1>6. Defaults'
  BY <1>1, <1>2 DEF Defaults, Unsent
<1> QED
  BY <1>1, <1>5, <1>6 DEF Calm

-----------------------------------------------------------------------------
(* The API answers *)

\* Of a request that was refused its kind is left, and what is still to read.
LEMMA BadIsRequest ==
  ASSUME NEW c \in Scans, NEW r, Request(call[c]), Active(c), r = Settings!Bad(c)
  PROVE  /\ Request(r) /\ Unsent(r) /\ (Answered(r))' /\ (Restoring(r))'
         /\ r.at = "bad" /\ r.req = call[c].req /\ r.kind = call[c].kind /\ r.todo = call[c].todo
<1>1. /\ DOMAIN r = Fields /\ r.at = "bad" /\ r.req = call[c].req /\ r.kind = call[c].kind
      /\ r.todo = call[c].todo /\ r.list = {}
  BY DEF Settings!Bad, Settings!Idle, Fields
<1>2. Request(r)
  BY <1>1 DEF Request, Active
<1> QED
  BY <1>1, <1>2 DEF Unsent, Answered, Restoring

LEMMA RefusedKeeps ==
  ASSUME Typed, Defaults, Calm, NEW c \in Scans, call[c].at \in {"sent", "checked"},
         Settings!Answer(c, FALSE), Settings!PageUnchanged,
         UNCHANGED <<settings, users, data, others, calm, starts>>
  PROVE  Typed' /\ Defaults' /\ Calm'
<1>1. PICK r : r = Settings!Bad(c)
  OBVIOUS
<1>2. Request(call[c]) /\ Active(c)
  BY DEF Typed, Waits, Active
<1>3. /\ Request(r) /\ Unsent(r) /\ (Answered(r))' /\ (Restoring(r))'
      /\ r.at = "bad" /\ r.req = call[c].req /\ r.kind = call[c].kind /\ r.todo = call[c].todo
  BY <1>1, <1>2, BadIsRequest
<1>4. /\ call' = [call EXCEPT ![c] = r]
      /\ UNCHANGED <<form, shown, loading, busy, loadFailed, restored>>
  BY <1>1 DEF Settings!Answer, Settings!PageUnchanged
<1>5. Typed'
  BY <1>2, <1>3, <1>4, TypedAfter DEF Waiting, Typed, Stored
<1>6. Defaults'
  BY <1>3, <1>4, DefaultsAfter DEF Defaults
<1>7. ASSUME Solo(c) PROVE (Solo(c))'
  BY <1>3, <1>4, <1>7, SoloAfter DEF Solo, UsersDue, FormDue, Filling, Kept
<1> QED
  BY <1>2, <1>5, <1>6, <1>7, CalmAfter

\* A write that goes well, or the first half of one.
LEMMA AcceptedKeeps ==
  ASSUME Typed, Defaults, Calm, NEW c \in Scans, NEW at \in {"checked", "good"},
         call[c].at \in {"sent", "checked"},
         call[c].req \in {"save", "addUser", "deleteUser", "export"},
         Settings!Go(c, at), Settings!PageUnchanged, UNCHANGED <<data, others, calm, starts>>,
         call[c].req = "save" => at = "good" /\ settings' = call[c].value,
         call[c].req # "save" => settings' = settings,
         users' \subseteq Users,
         users' = users \/ (at = "good" /\ call[c].req \in {"addUser", "deleteUser"})
  PROVE  Typed' /\ Defaults' /\ Calm'
<1>1. PICK r : r = [call[c] EXCEPT !.at = at]
  OBVIOUS
<1>2. Request(call[c]) /\ Active(c) /\ call[c].todo = {}
  BY DEF Typed, Waits, Active, Request
<1>3. /\ DOMAIN r = Fields /\ r.at = at /\ r.req = call[c].req /\ r.kind = call[c].kind
      /\ r.id = call[c].id /\ r.value = call[c].value /\ r.list = call[c].list /\ r.todo = {}
  BY <1>1, <1>2 DEF Request, Fields
<1>4. Request(r)
  BY <1>2, <1>3 DEF Request
<1>5. /\ call' = [call EXCEPT ![c] = r]
      /\ UNCHANGED <<form, shown, loading, busy, loadFailed, restored>>
  BY <1>1 DEF Settings!Go, Settings!PageUnchanged
<1>6. settings' \in Texts
  BY <1>2 DEF Typed, Stored, Request
<1>7. Typed'
  BY <1>3, <1>4, <1>5, <1>6, TypedAfter DEF Waiting, Typed, Stored
<1>8. Defaults'
  <2>1. ~loadFailed => Unsent(call[c])
    BY DEF Defaults
  <2>2. ~loadFailed => Unsent(r) /\ settings'[1] # "page"
    BY <1>3, <2>1 DEF Unsent, Defaults
  <2>3. CASE loadFailed
    BY <2>3, <1>5 DEF Defaults
  <2>4. CASE ~loadFailed
    BY <2>2, <2>4, <1>5, DefaultsAfter DEF Defaults
  <2> QED
    BY <2>3, <2>4
<1>9. ASSUME Solo(c) PROVE (Solo(c))'
  <2>1. ~UsersDue(call[c]) /\ ~FormDue(call[c]) /\ \A k : ~Filling(call[c], k)
    BY <1>2 DEF UsersDue, FormDue, Filling
  <2>2. (Answered(r))' /\ (Restoring(r))'
    BY <1>3 DEF Answered, Restoring
  <2>3. \A k \in C : (Kept(k))'
    BY <2>1, <1>5, <1>9 DEF Solo, Kept
  <2>4. Settings!IsPage(shown', users') \/ UsersDue(r)
    BY <2>1, <1>3, <1>5, <1>9 DEF Solo, UsersDue
  <2>5. form'.typed \/ form'.value = settings' \/ FormDue(r)
    BY <2>1, <1>3, <1>5, <1>9 DEF Solo, FormDue
  <2> QED
    BY <2>2, <2>3, <2>4, <2>5, <1>5, <1>9, SoloAfter
<1> QED
  BY <1>2, <1>7, <1>8, <1>9, CalmAfter

LEMMA WriteKeeps ==
  ASSUME Typed, Defaults, Calm, NEW c \in Scans,
         \/ Settings!updateSettings(c) \/ Settings!findByUsername(c) \/ Settings!createUser(c)
         \/ Settings!deleteUser(c) \/ Settings!export(c)
  PROVE  Typed' /\ Defaults' /\ Calm'
<1>0. users \subseteq Users /\ (call[c].req = "addUser" /\ call[c].at # "bad" => call[c].id \in Users)
  BY DEF Typed, Stored, Waits, Request
<1>1. ASSUME Settings!updateSettings(c) PROVE Typed' /\ Defaults' /\ Calm'
  BY <1>0, <1>1, AcceptedKeeps DEF Settings!updateSettings, Settings!At, Settings!PageUnchanged
<1>2. ASSUME Settings!findByUsername(c) PROVE Typed' /\ Defaults' /\ Calm'
  <2>1. /\ call[c].at = "sent" /\ call[c].req = "addUser" /\ Settings!PageUnchanged
        /\ UNCHANGED <<settings, users, data, others, calm, starts>>
    BY <1>2 DEF Settings!findByUsername, Settings!At, Settings!StoreUnchanged
  <2>2. CASE call[c].id \in users
    BY <1>2, <2>1, <2>2, RefusedKeeps DEF Settings!findByUsername
  <2>3. CASE call[c].id \notin users
    BY <1>0, <1>2, <2>1, <2>3, AcceptedKeeps DEF Settings!findByUsername
  <2> QED
    BY <2>2, <2>3
<1>3. ASSUME Settings!createUser(c) PROVE Typed' /\ Defaults' /\ Calm'
  <2>1. /\ call[c].at = "checked" /\ call[c].req = "addUser" /\ Settings!PageUnchanged
        /\ users' = users \cup {call[c].id}
        /\ UNCHANGED <<settings, data, others, calm, starts>>
    BY <1>3 DEF Settings!createUser, Settings!At
  <2>2. CASE call[c].id \in users
    <3>1. Settings!Answer(c, FALSE) /\ users' = users
      BY <1>3, <2>1, <2>2 DEF Settings!createUser, Settings!Answer
    <3> QED
      BY <2>1, <3>1, RefusedKeeps
  <2>3. CASE call[c].id \notin users
    <3>1. Settings!Go(c, "good")
      BY <1>3, <2>3 DEF Settings!createUser, Settings!Answer
    <3> QED
      BY <1>0, <2>1, <3>1, AcceptedKeeps
  <2> QED
    BY <2>2, <2>3
<1>4. ASSUME Settings!deleteUser(c) PROVE Typed' /\ Defaults' /\ Calm'
  <2>1. /\ call[c].at = "sent" /\ call[c].req = "deleteUser" /\ Settings!PageUnchanged
        /\ users' = users \ {call[c].id}
        /\ UNCHANGED <<settings, data, others, calm, starts>>
    BY <1>4 DEF Settings!deleteUser, Settings!At
  <2>2. CASE call[c].id \in users
    <3>1. Settings!Go(c, "good")
      BY <1>4, <2>2 DEF Settings!deleteUser, Settings!Answer
    <3> QED
      BY <1>0, <2>1, <3>1, AcceptedKeeps
  <2>3. CASE call[c].id \notin users
    <3>1. Settings!Answer(c, FALSE) /\ users' = users
      BY <1>4, <2>1, <2>3 DEF Settings!deleteUser, Settings!Answer
    <3> QED
      BY <2>1, <3>1, RefusedKeeps
  <2> QED
    BY <2>2, <2>3
<1>5. ASSUME Settings!export(c) PROVE Typed' /\ Defaults' /\ Calm'
  <2>1. /\ call[c].at = "sent" /\ call[c].req = "export" /\ Settings!PageUnchanged
        /\ Settings!Go(c, "good")
        /\ UNCHANGED <<settings, users, data, others, calm, starts>>
    BY <1>5 DEF Settings!export, Settings!At, Settings!StoreUnchanged, Settings!Answer
  <2> QED
    BY <1>0, <2>1, AcceptedKeeps
<1> QED
  BY <1>1, <1>2, <1>3, <1>4, <1>5

LEMMA ReadKeeps ==
  ASSUME Typed, Defaults, Calm, NEW c \in Scans, Settings!Read(c)
  PROVE  Typed' /\ Defaults' /\ Calm'
<1>1. /\ call[c].at = "sent" /\ call[c].req = "load"
      /\ UNCHANGED <<form, shown, loading, busy, loadFailed, restored, settings, users, data,
                     others, calm, starts>>
  BY DEF Settings!Read, Settings!At, Settings!PageUnchanged, Settings!StoreUnchanged
<1>2. PICK w \in call[c].todo, P \in SUBSET users :
        /\ w = "users" => Settings!IsPage(P, users)
        /\ call' = [call EXCEPT ![c] =
                      [@ EXCEPT !.at = "good", !.req = w, !.todo = call[c].todo \ {w},
                                !.value = IF w = "settings" THEN settings ELSE None,
                                !.list = P]]
  BY Zenon DEF Settings!Read
<1>3. PICK r : r = call'[c]
  OBVIOUS
<1>4. Request(call[c]) /\ Active(c) /\ w \in {"settings", "users"}
  BY <1>1 DEF Typed, Waits, Active, Request
<1>5. DOMAIN call[c] = Fields /\ DOMAIN call = Scans
  BY <1>4 DEF Request, Typed, Waits
<1>6. /\ DOMAIN r = Fields /\ r.at = "good" /\ r.req = w /\ r.todo = call[c].todo \ {w}
      /\ r.kind = call[c].kind
  BY <1>2, <1>3, <1>5 DEF Fields
<1>7. /\ w = "settings" => r.value = settings
      /\ r.list \subseteq users /\ (w = "users" => Settings!IsPage(r.list, users))
  BY <1>2, <1>3, <1>5 DEF Fields
<1>8. Request(r)
  BY <1>4, <1>6, <1>7 DEF Request, Typed, Stored
<1>9. call' = [call EXCEPT ![c] = r]
  BY <1>2, <1>3, <1>5
<1>10. Typed'
  BY <1>1, <1>4, <1>6, <1>8, <1>9, TypedAfter DEF Waiting, Typed, Stored
<1>11. Defaults'
  BY <1>1, <1>4, <1>6, <1>7, <1>9, DefaultsAfter DEF Defaults, Unsent
<1>12. ASSUME Solo(c) PROVE (Solo(c))'
  <2>1. ~\E k : Filling(call[c], k)
    BY <1>1 DEF Filling
  <2>2. (Answered(r))' /\ (Restoring(r))'
    BY <1>1, <1>4, <1>6, <1>7 DEF Answered, Restoring
  <2>3. \A k \in C : (Kept(k))'
    BY <2>1, <1>1, <1>12 DEF Solo, Kept
  <2>4. Settings!IsPage(shown', users') \/ UsersDue(r)
    BY <1>1, <1>4, <1>6, <1>12 DEF Solo, UsersDue
  <2>5. form'.typed \/ form'.value = settings' \/ FormDue(r)
    BY <1>1, <1>4, <1>6, <1>12 DEF Solo, FormDue
  <2> QED
    BY <2>2, <2>3, <2>4, <2>5, <1>9, <1>12, SoloAfter
<1> QED
  BY <1>1, <1>4, <1>10, <1>11, <1>12, CalmAfter

\* A failure ends what is said of a page that writes alone.
LEMMA FailsKeeps ==
  ASSUME Typed, Defaults, Calm, NEW c \in Scans, Settings!Fails(c)
  PROVE  Typed' /\ Defaults' /\ Calm'
<1>1. /\ call[c].at \notin {"idle", "bad"} /\ calm' = FALSE
      /\ UNCHANGED <<form, shown, loading, busy, loadFailed, restored, settings, users, data,
                     others, starts>>
  BY Zenon DEF Settings!Fails, Settings!PageUnchanged, Settings!StoreUnchanged
<1>2. Request(call[c]) /\ Active(c)
  BY <1>1 DEF Typed, Waits, Active
<1>3. PICK b : b = Settings!Bad(c)
  OBVIOUS
<1>4. /\ Request(b) /\ b.at = "bad" /\ b.req = call[c].req /\ b.kind = call[c].kind
      /\ b.todo = call[c].todo /\ Unsent(b)
  BY <1>2, <1>3, BadIsRequest
<1>5. PICK r : call' = [call EXCEPT ![c] = r] /\ Request(r) /\ Unsent(r) /\ r.at = "bad"
               /\ r.kind = call[c].kind
  <2>1. CASE call[c].req = "load"
    <3>1. PICK w \in call[c].todo :
            call' = [call EXCEPT ![c] = [b EXCEPT !.req = w, !.todo = call[c].todo \ {w}]]
      BY <1>3, <2>1, Zenon DEF Settings!Fails
    <3>2. PICK r : r = [b EXCEPT !.req = w, !.todo = call[c].todo \ {w}]
      OBVIOUS
    <3>3. DOMAIN b = Fields /\ w \in {"settings", "users"}
      BY <1>2, <1>4, <3>1 DEF Request
    <3>4. /\ DOMAIN r = Fields /\ r.at = "bad" /\ r.req = w /\ r.kind = call[c].kind
          /\ r.todo = call[c].todo \ {w} /\ r.list = b.list
      BY <1>4, <3>2, <3>3 DEF Fields
    <3>5. Request(r) /\ Unsent(r)
      BY <1>2, <3>1, <3>3, <3>4 DEF Request, Unsent
    <3> QED
      BY <3>1, <3>2, <3>4, <3>5
  <2>2. CASE call[c].req # "load"
    <3>1. call' = [call EXCEPT ![c] = b]
      BY <1>3, <2>2 DEF Settings!Fails, Settings!Answer
    <3> QED
      BY <1>4, <3>1
  <2> QED
    BY <2>1, <2>2
<1>6. Typed'
  BY <1>1, <1>5, TypedAfter DEF Waiting, Typed, Stored
<1>7. Defaults'
  BY <1>1, <1>5, DefaultsAfter DEF Defaults
<1> QED
  BY <1>1, <1>6, <1>7 DEF Calm

-----------------------------------------------------------------------------
(* A restore *)

LEMMA Places ==
  /\ DOMAIN Collections = 1..Len(Collections) /\ Len(Collections) \in Nat
  /\ C = {Collections[i] : i \in 1..Len(Collections)}
BY SettingsAssumption DEF Settings!CollectionsInOrder, C, Settings!Coll

LEMMA SmallestExists ==
  ASSUME NEW S \in SUBSET Nat, S # {}
  PROVE  \E k \in S : \A l \in S : k <= l
<1> DEFINE R == {p \in Nat \X Nat : p[1] < p[2]}
<1>1. IsWellFoundedOn(R, Nat)
  BY NatLessThanWellFounded DEF OpToRel
<1>2. PICK k \in S : \A l \in S : ~(<<l, k>> \in R)
  <2> HIDE DEF R
  <2> QED
    BY <1>1, WFMin
<1>3. \A l \in S : ~(l < k)
  BY <1>2
<1> QED
  BY <1>3

\* Nothing of the file is left from i on, or the first of its collections from there is next.
LEMMA AdvanceEffects ==
  ASSUME NEW c \in Scans, Request(call[c]), call[c].req = "restore", NEW i \in Nat \ {0},
         Settings!Advance(c, i)
  PROVE  \E r :
           /\ call' = [call EXCEPT ![c] = r] /\ Request(r) /\ r.req = "restore"
           /\ r.kind = "restore" /\ r.list = call[c].list /\ r.todo = {}
           /\ \/ /\ r.at = "good"
                 /\ \A j \in DOMAIN Collections : i <= j => Collections[j] \notin r.list
              \/ /\ r.at = "clear" /\ i <= r.next
                 /\ \A j \in DOMAIN Collections : i <= j /\ j < r.next => Collections[j] \notin r.list
<1> DEFINE left == {k \in i..Len(Collections) : Collections[k] \in call[c].list}
<1>0. DOMAIN call[c] = Fields /\ call[c].todo = {} /\ call[c].kind = "restore" /\ call[c].list \subseteq C
  BY DEF Request
<1>1. CASE left = {}
  <2>1. call' = [call EXCEPT ![c].at = "good"]
    BY <1>1 DEF Settings!Advance, Settings!File, Settings!Go
  <2>2. PICK r : r = [call[c] EXCEPT !.at = "good"]
    OBVIOUS
  <2>3. /\ DOMAIN r = Fields /\ r.at = "good" /\ r.req = "restore" /\ r.kind = "restore"
        /\ r.list = call[c].list /\ r.todo = {}
    BY <1>0, <2>2 DEF Fields
  <2>4. Request(r)
    BY <1>0, <2>3 DEF Request
  <2>5. \A j \in DOMAIN Collections : i <= j => Collections[j] \notin r.list
    BY <1>1, <2>3, Places
  <2> QED
    BY <2>1, <2>2, <2>3, <2>4, <2>5
<1>2. CASE left # {}
  <2>1. PICK m : m = CHOOSE k \in left : \A l \in left : k <= l
    OBVIOUS
  <2>2. m \in left /\ \A l \in left : m <= l
    <3>1. left \in SUBSET Nat
      BY Places
    <3>2. \E k \in left : \A l \in left : k <= l
      BY <1>2, <3>1, SmallestExists
    <3> HIDE DEF left
    <3> QED
      BY <2>1, <3>2, Zenon
  <2>3. call' = [call EXCEPT ![c] = [call[c] EXCEPT !.at = "clear", !.next = m]]
    BY <1>2, <2>1 DEF Settings!Advance, Settings!File
  <2>4. PICK r : r = [call[c] EXCEPT !.at = "clear", !.next = m]
    OBVIOUS
  <2>5. /\ DOMAIN r = Fields /\ r.at = "clear" /\ r.req = "restore" /\ r.kind = "restore"
        /\ r.list = call[c].list /\ r.todo = {} /\ r.next = m
    BY <1>0, <2>4 DEF Fields
  <2>6. m \in DOMAIN Collections /\ Collections[m] \in r.list /\ i <= m
    BY <2>2, <2>5, Places
  <2>7. Request(r)
    BY <1>0, <2>5, <2>6 DEF Request
  <2>8. \A j \in DOMAIN Collections : i <= j /\ j < m => Collections[j] \notin r.list
    BY <2>2, <2>5, Places
  <2> QED
    BY <2>3, <2>4, <2>5, <2>6, <2>7, <2>8
<1> QED
  BY <1>1, <1>2

\* A restore that goes on: its file's collections before the next hold the backup's documents.
LEMMA RestoreKeeps ==
  ASSUME Typed, Defaults, Calm, NEW c \in Scans, NEW i \in Nat \ {0}, Active(c),
         call[c].req = "restore", call[c].at # "good", Settings!Advance(c, i),
         Settings!PageUnchanged, UNCHANGED <<settings, users, others, calm, starts>>,
         data' \in [C -> SUBSET Settings!Docs],
         Solo(c) => \A k \in C : (Kept(k))',
         Solo(c) => \A j \in DOMAIN Collections :
                      j < i /\ Collections[j] \in call[c].list => data'[Collections[j]] = {"backup"}
  PROVE  Typed' /\ Defaults' /\ Calm'
<1>1. PICK r :
        /\ call' = [call EXCEPT ![c] = r] /\ Request(r) /\ r.req = "restore"
        /\ r.kind = "restore" /\ r.list = call[c].list /\ r.todo = {}
        /\ \/ /\ r.at = "good"
              /\ \A j \in DOMAIN Collections : i <= j => Collections[j] \notin r.list
           \/ /\ r.at = "clear" /\ i <= r.next
              /\ \A j \in DOMAIN Collections : i <= j /\ j < r.next => Collections[j] \notin r.list
  BY AdvanceEffects DEF Typed, Waits
<1>2. UNCHANGED <<form, shown, loading, busy, loadFailed, restored>>
  BY DEF Settings!PageUnchanged
<1>3. call[c].kind = "restore" /\ call[c].todo = {}
  BY DEF Typed, Waits, Request
<1>4. Typed'
  BY <1>1, <1>2, <1>3, TypedAfter DEF Waiting, Typed, Stored
<1>5. Defaults'
  BY <1>1, <1>2, DefaultsAfter DEF Defaults, Unsent
<1>6. ASSUME Solo(c) PROVE (Solo(c))'
  <2>1. ~UsersDue(call[c]) /\ ~FormDue(call[c])
    BY <1>3 DEF UsersDue, FormDue
  <2>2. \A j \in DOMAIN Collections :
          j < i /\ Collections[j] \in r.list => data'[Collections[j]] = {"backup"}
    BY <1>1, <1>6
  <2>3. (Restoring(r))'
    <3>1. CASE r.at = "good"
      <4>1. \A j \in 1..Len(Collections) : Collections[j] \in r.list => data'[Collections[j]] = {"backup"}
        BY <1>1, <2>2, <3>1, Places
      <4>2. \A k \in r.list : data'[k] = {"backup"}
        BY <1>1, <4>1, Places DEF Request
      <4> QED
        BY <3>1, <4>2 DEF Restoring
    <3>2. CASE r.at = "clear"
      <4>1. r.next \in Nat
        BY <1>1, <3>2, Places DEF Request
      <4>2. \A j \in DOMAIN Collections :
              j < r.next /\ Collections[j] \in r.list => data'[Collections[j]] = {"backup"}
        BY <1>1, <2>2, <3>2, <4>1, Places
      <4> QED
        BY <3>2, <4>2 DEF Restoring
    <3> QED
      BY <1>1, <3>1, <3>2
  <2>4. (Answered(r))'
    BY <1>1 DEF Answered
  <2>5. Settings!IsPage(shown', users') /\ (form'.typed \/ form'.value = settings')
    BY <2>1, <1>2, <1>6 DEF Solo
  <2> QED
    BY <1>1, <1>6, <2>3, <2>4, <2>5, SoloAfter
<1> QED
  BY <1>4, <1>5, <1>6, CalmAfter

LEMMA UnpackKeeps ==
  ASSUME Typed, Defaults, Calm, NEW c \in Scans, Settings!Unpack(c)
  PROVE  Typed' /\ Defaults' /\ Calm'
<1>1. /\ call[c].at = "sent" /\ call[c].req = "restore" /\ Settings!PageUnchanged
      /\ UNCHANGED <<settings, users, data, others, calm, starts>>
  BY Zenon DEF Settings!Unpack, Settings!At, Settings!StoreUnchanged
<1>2. CASE call[c].opens
  <2>1. Settings!Advance(c, 1)
    BY <1>2, Zenon DEF Settings!Unpack
  <2>2. Solo(c) => \A k \in C : (Kept(k))'
    BY <1>1 DEF Solo, Kept, Filling, Settings!PageUnchanged
  <2>3. \A j \in DOMAIN Collections : ~(j < 1)
    BY Places
  <2> QED
    BY <1>1, <2>1, <2>2, <2>3, RestoreKeeps DEF Active, Typed, Stored
<1>3. CASE ~call[c].opens
  <2>1. Settings!Answer(c, FALSE)
    BY <1>3, Zenon DEF Settings!Unpack
  <2> QED
    BY <1>1, <2>1, RefusedKeeps
<1> QED
  BY <1>2, <1>3

\* The place of a restore, and the collection there.
LEMMA NextIsPlace ==
  ASSUME Typed, NEW c \in Scans, call[c].at \in {"clear", "fill"}
  PROVE  /\ Active(c) /\ call[c].next \in DOMAIN Collections /\ call[c].next \in Nat \ {0}
         /\ Collections[call[c].next] \in call[c].list /\ Collections[call[c].next] \in C
         /\ call[c].req = "restore" /\ call[c].kind = "restore" /\ call[c].list \subseteq C
BY Places DEF Typed, Waits, Request, Active

LEMMA DeleteManyKeeps ==
  ASSUME Typed, Defaults, Calm, NEW c \in Scans, Settings!deleteMany(c)
  PROVE  Typed' /\ Defaults' /\ Calm'
<1>1. /\ call[c].at = "clear" /\ call[c].req = "restore"
      /\ data' = [data EXCEPT ![Collections[call[c].next]] = {}]
      /\ call' = [call EXCEPT ![c].at = "fill"]
      /\ UNCHANGED <<form, shown, loading, busy, loadFailed, restored, settings, users, others,
                     calm, starts>>
  BY DEF Settings!deleteMany, Settings!At, Settings!Go, Settings!PageUnchanged
<1>2. PICK r : r = [call[c] EXCEPT !.at = "fill"]
  OBVIOUS
<1>3. Request(call[c])
  BY DEF Typed, Waits
<1>4. /\ DOMAIN r = Fields /\ r.at = "fill" /\ r.req = call[c].req /\ r.kind = call[c].kind
      /\ r.list = call[c].list /\ r.next = call[c].next /\ r.todo = call[c].todo
  BY <1>2, <1>3 DEF Request, Fields
<1>5. PICK n \in C : n = Collections[call[c].next]
  BY <1>1, NextIsPlace
<1>6. /\ data \in [C -> SUBSET Settings!Docs] /\ data' = [data EXCEPT ![n] = {}]
  BY <1>1, <1>5 DEF Typed, Stored
<1>7. Request(r) /\ Unsent(r)
  BY <1>1, <1>3, <1>4, NextIsPlace DEF Request, Unsent
<1>8. Stored'
  BY <1>1, <1>6 DEF Typed, Stored
<1>9. Typed'
  BY <1>1, <1>2, <1>4, <1>7, <1>8, TypedAfter DEF Waiting
<1>10. Defaults'
  BY <1>1, <1>2, <1>7, DefaultsAfter DEF Defaults
<1>11. ASSUME Solo(c) PROVE (Solo(c))'
  <2>1. ~UsersDue(call[c]) /\ ~FormDue(call[c]) /\ \A k : ~Filling(call[c], k)
    BY <1>1, <1>3 DEF UsersDue, FormDue, Filling, Request
  <2>2. (Answered(r))'
    BY <1>4 DEF Answered
  <2>3. (Restoring(r))'
    <3>1. \A j \in DOMAIN Collections :
            j < r.next /\ Collections[j] \in r.list /\ Collections[j] # n => data[Collections[j]] = {"backup"}
      BY <1>1, <1>4, <1>5, <1>11 DEF Solo, Restoring
    <3>2. \A j \in DOMAIN Collections :
            j < r.next /\ Collections[j] \in r.list /\ Collections[j] # n => data'[Collections[j]] = {"backup"}
      BY <3>1, <1>6, Places
    <3>3. data'[n] = {}
      BY <1>6
    <3> QED
      BY <3>2, <3>3, <1>4, <1>5 DEF Restoring
  <2>4. \A k \in C : (Kept(k))' \/ Filling(r, k)
    BY <1>1, <1>4, <1>5, <1>6, <1>11, <2>1 DEF Solo, Kept, Filling
  <2>5. Settings!IsPage(shown', users') /\ (form'.typed \/ form'.value = settings')
    BY <2>1, <1>1, <1>11 DEF Solo
  <2> QED
    BY <1>1, <1>2, <1>11, <2>2, <2>3, <2>4, <2>5, SoloAfter
<1> QED
  BY <1>1, <1>9, <1>10, <1>11, CalmAfter DEF Active

LEMMA InsertManyKeeps ==
  ASSUME Typed, Defaults, Calm, NEW c \in Scans, Settings!insertMany(c)
  PROVE  Typed' /\ Defaults' /\ Calm'
<1>1. /\ call[c].at = "fill" /\ call[c].req = "restore"
      /\ data' = [data EXCEPT ![Collections[call[c].next]] = @ \cup {"backup"}]
      /\ Settings!Advance(c, call[c].next + 1) /\ Settings!PageUnchanged
      /\ UNCHANGED <<settings, users, others, calm, starts>>
  BY DEF Settings!insertMany, Settings!At
<1>2. PICK n \in C : n = Collections[call[c].next]
  BY <1>1, NextIsPlace
<1>3. PICK p : p = call[c].next
  OBVIOUS
<1>4. p \in Nat \ {0} /\ p \in DOMAIN Collections /\ n = Collections[p] /\ Active(c)
  BY <1>1, <1>2, <1>3, NextIsPlace
<1>5. /\ data \in [C -> SUBSET Settings!Docs] /\ data' = [data EXCEPT ![n] = data[n] \cup {"backup"}]
      /\ "backup" \in Settings!Docs
  BY <1>1, <1>2 DEF Typed, Stored, Settings!Docs
<1>6. data' \in [C -> SUBSET Settings!Docs] /\ data'[n] = data[n] \cup {"backup"}
      /\ \A k \in C \ {n} : data'[k] = data[k]
  BY <1>5
<1>7. ASSUME Solo(c) PROVE \A k \in C : (Kept(k))'
  <2>1. data'[n] = {"backup"}
    BY <1>1, <1>2, <1>6, <1>7 DEF Solo, Restoring
  <2>2. \A k \in C \ {n} : Kept(k)
    BY <1>2, <1>7 DEF Solo, Filling
  <2> QED
    BY <2>1, <2>2, <1>1, <1>6 DEF Kept, Settings!PageUnchanged
<1>8. ASSUME Solo(c)
      PROVE  \A j \in DOMAIN Collections :
               j < p + 1 /\ Collections[j] \in call[c].list => data'[Collections[j]] = {"backup"}
  <2>1. data'[n] = {"backup"}
    BY <1>1, <1>2, <1>6, <1>8 DEF Solo, Restoring
  <2>2. \A j \in DOMAIN Collections :
          j < p /\ Collections[j] \in call[c].list /\ Collections[j] # n => data[Collections[j]] = {"backup"}
    BY <1>1, <1>2, <1>3, <1>8 DEF Solo, Restoring
  <2>3. \A j \in DOMAIN Collections : j < p + 1 => j < p \/ Collections[j] = n
    BY <1>4, Places
  <2>4. \A j \in DOMAIN Collections : Collections[j] \in C
    BY Places
  <2> QED
    BY <2>1, <2>2, <2>3, <2>4, <1>6
<1>9. p + 1 \in Nat \ {0} /\ Settings!Advance(c, p + 1)
  BY <1>1, <1>3, <1>4
<1> QED
  BY <1>1, <1>4, <1>6, <1>7, <1>8, <1>9, RestoreKeeps

LEMMA ServeKeeps ==
  ASSUME Typed, Defaults, Calm, NEW c \in Scans, Settings!Serve(c)
  PROVE  Typed' /\ Defaults' /\ Calm'
BY WriteKeeps, ReadKeeps, FailsKeeps, UnpackKeeps, DeleteManyKeeps, InsertManyKeeps
   DEF Settings!Serve

-----------------------------------------------------------------------------
(* The page meets an answer *)

\* What is left of a handler is to read the rest.
LEMMA RestIsRequest ==
  ASSUME NEW c \in Scans, NEW r, Request(call[c]), r = Settings!Rest(c),
         call[c].req \in {"load", "settings", "users"} \/ call[c].at = "bad"
  PROVE  /\ Request(r) /\ Unsent(r) /\ (Answered(r))' /\ (Restoring(r))' /\ r.todo = call[c].todo
         /\ (r.at = "idle" <=> call[c].todo = {}) /\ (r.at # "idle" => r.kind = call[c].kind)
<1>1. CASE call[c].todo = {}
  <2>1. r = Settings!Idle
    BY <1>1, Zenon DEF Settings!Rest
  <2>2. r.at = "idle" /\ r.req = "none" /\ r.todo = {}
    BY <2>1 DEF Settings!Idle
  <2> QED
    BY <1>1, <2>1, <2>2, IdleIsRequest DEF Unsent, Answered, Restoring
<1>2. CASE call[c].todo # {}
  <2>1. r = Settings!Load(call[c].kind, call[c].todo)
    BY <1>2, Zenon DEF Settings!Rest
  <2>2. /\ DOMAIN r = Fields /\ r.at = "sent" /\ r.req = "load" /\ r.kind = call[c].kind
        /\ r.todo = call[c].todo
    BY <2>1 DEF Settings!Load, Settings!Idle, Fields
  <2>3. Request(r)
    BY <2>2 DEF Request
  <2> QED
    BY <1>2, <2>2, <2>3 DEF Unsent, Answered, Restoring
<1> QED
  BY <1>1, <1>2

LEMMA LoadIsRequest ==
  ASSUME NEW kind, NEW what \in SUBSET {"settings", "users"}, NEW r, r = Settings!Load(kind, what),
         "settings" \in what => kind = "none"
  PROVE  /\ Request(r) /\ Unsent(r) /\ (Answered(r))' /\ (Restoring(r))'
         /\ r.at = "sent" /\ r.kind = kind /\ r.todo = what
<1>1. DOMAIN r = Fields /\ r.at = "sent" /\ r.req = "load" /\ r.kind = kind /\ r.todo = what
  BY DEF Settings!Load, Settings!Idle, Fields
<1> QED
  BY <1>1 DEF Request, Unsent, Answered, Restoring

LEMMA SavedKeeps ==
  ASSUME Typed, Defaults, Calm, NEW c \in Scans, Settings!Saved(c)
  PROVE  Typed' /\ Defaults' /\ Calm'
<1>1. /\ call[c].at = "good" /\ call[c].req \in {"save", "export"}
      /\ busy' = busy \ {call[c].kind}
      /\ call' = [call EXCEPT ![c] = Settings!Idle]
      /\ UNCHANGED <<settings, users, data, others, shown, loading, loadFailed, calm, restored, starts>>
  BY Zenon DEF Settings!Saved, Settings!End, Settings!StoreUnchanged
<1>2. /\ call[c].req = "save" => form' = [form EXCEPT !.typed = form.value # call[c].value]
      /\ call[c].req # "save" => form' = form
  BY Zenon DEF Settings!Saved
<1>3. PICK r : r = Settings!Idle
  OBVIOUS
<1>4. Request(r) /\ r.at = "idle" /\ r.req = "none" /\ r.todo = {}
  BY <1>3, IdleIsRequest DEF Settings!Idle
<1>5. form \in [value : Texts, typed : BOOLEAN] /\ Request(call[c]) /\ Active(c)
  BY <1>1 DEF Typed, Stored, Waits, Active
<1>6. /\ form' \in [value : Texts, typed : BOOLEAN] /\ form'.value = form.value
      /\ call[c].req = "save" => (form'.typed \/ form.value = call[c].value)
  BY <1>2, <1>5
<1>7. Typed'
  BY <1>1, <1>3, <1>4, <1>6, TypedAfter DEF Waiting, Typed, Stored
<1>8. Defaults'
  BY <1>1, <1>3, <1>4, <1>6, DefaultsAfter DEF Defaults, Unsent
<1>9. ASSUME Solo(c) PROVE (Solo(c))'
  <2>1. /\ ~UsersDue(call[c]) /\ ~\E k : Filling(call[c], k)
    BY <1>1, <1>5 DEF UsersDue, Filling, Request
  <2>2. (Answered(r))' /\ (Restoring(r))'
    BY <1>4 DEF Answered, Restoring
  <2>3. \A k \in C : (Kept(k))'
    BY <1>1, <1>9, <2>1 DEF Solo, Kept
  <2>4. form'.typed \/ form'.value = settings'
    <3>1. CASE call[c].req = "save"
      BY <1>1, <1>6, <1>9, <3>1 DEF Solo, Answered
    <3>2. CASE call[c].req = "export"
      BY <1>1, <1>2, <1>5, <1>9, <3>2 DEF Solo, FormDue, Request
    <3> QED
      BY <1>1, <3>1, <3>2
  <2>5. Settings!IsPage(shown', users')
    BY <1>1, <1>9, <2>1 DEF Solo
  <2> QED
    BY <1>1, <1>3, <1>9, <2>2, <2>3, <2>4, <2>5, SoloAfter
<1> QED
  BY <1>1, <1>5, <1>7, <1>8, <1>9, CalmAfter

LEMMA UserSavedKeeps ==
  ASSUME Typed, Defaults, Calm, NEW c \in Scans, Settings!UserSaved(c)
  PROVE  Typed' /\ Defaults' /\ Calm'
<1>1. /\ call[c].at = "good" /\ call[c].req \in {"addUser", "deleteUser"}
      /\ call' = [call EXCEPT ![c] = Settings!Load(call[c].kind, {"users"})]
      /\ UNCHANGED <<settings, users, data, others, form, shown, loading, busy, loadFailed, restored,
                     calm, starts>>
  BY DEF Settings!UserSaved, Settings!StoreUnchanged, Settings!PageUnchanged
<1>2. PICK kind : kind = call[c].kind
  OBVIOUS
<1>3. PICK r : r = Settings!Load(kind, {"users"})
  OBVIOUS
<1>4. /\ Request(r) /\ Unsent(r) /\ (Answered(r))' /\ (Restoring(r))'
      /\ r.at = "sent" /\ r.kind = kind /\ r.todo = {"users"}
  BY <1>3, LoadIsRequest
<1>5. Request(call[c]) /\ Active(c) /\ call' = [call EXCEPT ![c] = r]
  BY <1>1, <1>2, <1>3 DEF Typed, Waits, Active
<1>6. Typed'
  BY <1>1, <1>2, <1>4, <1>5, TypedAfter DEF Waiting, Typed, Stored
<1>7. Defaults'
  BY <1>1, <1>4, <1>5, DefaultsAfter DEF Defaults
<1>8. ASSUME Solo(c) PROVE (Solo(c))'
  <2>1. ~FormDue(call[c]) /\ ~\E k : Filling(call[c], k)
    BY <1>1, <1>5 DEF FormDue, Filling, Request
  <2>2. UsersDue(r)
    BY <1>4 DEF UsersDue
  <2>3. \A k \in C : (Kept(k))'
    BY <1>1, <1>8, <2>1 DEF Solo, Kept
  <2>4. form'.typed \/ form'.value = settings'
    BY <1>1, <1>8, <2>1 DEF Solo
  <2> QED
    BY <1>4, <1>5, <1>8, <2>2, <2>3, <2>4, SoloAfter
<1> QED
  BY <1>1, <1>5, <1>6, <1>7, <1>8, CalmAfter

LEMMA RestoredKeeps ==
  ASSUME Typed, Defaults, Calm, NEW c \in Scans, Settings!Restored(c)
  PROVE  Typed' /\ Defaults' /\ Calm'
<1>1. /\ call[c].at = "good" /\ call[c].req = "restore" /\ restored' = call[c].list
      /\ busy' = busy \ {"restore"}
      /\ call' = [call EXCEPT ![c] = Settings!Load("none", {"settings", "users"})]
      /\ UNCHANGED <<settings, users, data, others, form, shown, loading, loadFailed, calm, starts>>
  BY DEF Settings!Restored, Settings!At, Settings!File, Settings!StoreUnchanged
<1>2. PICK r : r = Settings!Load("none", {"settings", "users"})
  OBVIOUS
<1>3. /\ Request(r) /\ Unsent(r) /\ (Answered(r))' /\ (Restoring(r))'
      /\ r.at = "sent" /\ r.kind = "none" /\ r.todo = {"settings", "users"}
  BY <1>2, LoadIsRequest
<1>4. /\ Request(call[c]) /\ Active(c) /\ call' = [call EXCEPT ![c] = r]
      /\ call[c].kind = "restore" /\ call[c].list \subseteq C
  BY <1>1, <1>2 DEF Typed, Waits, Active, Request
<1>5. Typed'
  BY <1>1, <1>3, <1>4, TypedAfter DEF Waiting, Typed, Stored
<1>6. Defaults'
  BY <1>1, <1>3, <1>4, DefaultsAfter DEF Defaults
<1>7. ASSUME Solo(c) PROVE (Solo(c))'
  <2>1. ~\E k : Filling(call[c], k)
    BY <1>1 DEF Filling
  <2>2. UsersDue(r) /\ FormDue(r)
    BY <1>3 DEF UsersDue, FormDue
  <2>3. \A k \in call[c].list : data[k] = {"backup"}
    BY <1>1, <1>7 DEF Solo, Restoring
  <2>4. \A k \in C : (Kept(k))'
    BY <1>1, <1>7, <2>1, <2>3 DEF Solo, Kept
  <2> QED
    BY <1>3, <1>4, <1>7, <2>2, <2>4, SoloAfter
<1> QED
  BY <1>1, <1>4, <1>5, <1>6, <1>7, CalmAfter

LEMMA FetchSettingsKeeps ==
  ASSUME Typed, Defaults, Calm, NEW c \in Scans, Settings!fetchSettings(c)
  PROVE  Typed' /\ Defaults' /\ Calm'
<1>1. /\ call[c].at = "good" /\ call[c].req = "settings"
      /\ form' = [value |-> call[c].value, typed |-> FALSE] /\ loading' = FALSE
      /\ call' = [call EXCEPT ![c] = Settings!Rest(c)]
      /\ UNCHANGED <<settings, users, data, others, shown, busy, loadFailed, calm, restored, starts>>
  BY DEF Settings!fetchSettings, Settings!At, Settings!StoreUnchanged
<1>2. PICK r : r = Settings!Rest(c)
  OBVIOUS
<1>3. /\ Request(call[c]) /\ Active(c) /\ call' = [call EXCEPT ![c] = r]
      /\ call[c].kind = "none" /\ call[c].value \in Texts
  BY <1>1, <1>2 DEF Typed, Waits, Active, Request
<1>4. /\ Request(r) /\ Unsent(r) /\ (Answered(r))' /\ (Restoring(r))' /\ r.todo = call[c].todo
      /\ (r.at # "idle" => r.kind = call[c].kind)
  BY <1>1, <1>2, <1>3, RestIsRequest
<1>5. busy' = busy \ {call[c].kind}
  BY <1>1, <1>3 DEF Typed, Buttons
<1>6. Typed'
  BY <1>1, <1>3, <1>4, <1>5, TypedAfter DEF Waiting, Typed, Stored
<1>7. Defaults'
  <2>1. ~loadFailed => call[c].value[1] # "page"
    BY <1>1 DEF Defaults, Unsent
  <2> QED
    BY <1>1, <1>3, <1>4, <2>1, DefaultsAfter DEF Defaults
<1>8. ASSUME Solo(c) PROVE (Solo(c))'
  <2>1. ~\E k : Filling(call[c], k)
    BY <1>1 DEF Filling
  <2>2. Settings!IsPage(shown', users') \/ UsersDue(r)
    BY <1>1, <1>4, <1>8 DEF Solo, UsersDue
  <2>3. form'.value = settings'
    BY <1>1, <1>8 DEF Solo, Answered
  <2>4. \A k \in C : (Kept(k))'
    BY <1>1, <1>8, <2>1 DEF Solo, Kept
  <2> QED
    BY <1>3, <1>4, <1>8, <2>2, <2>3, <2>4, SoloAfter
<1> QED
  BY <1>1, <1>3, <1>6, <1>7, <1>8, CalmAfter

LEMMA FetchUsersKeeps ==
  ASSUME Typed, Defaults, Calm, NEW c \in Scans, Settings!fetchUsers(c)
  PROVE  Typed' /\ Defaults' /\ Calm'
<1>1. /\ call[c].at = "good" /\ call[c].req = "users" /\ shown' = call[c].list
      /\ busy' = busy \ {call[c].kind}
      /\ call' = [call EXCEPT ![c] = Settings!Rest(c)]
      /\ UNCHANGED <<settings, users, data, others, form, loading, loadFailed, calm, restored, starts>>
  BY DEF Settings!fetchUsers, Settings!At, Settings!StoreUnchanged
<1>2. PICK r : r = Settings!Rest(c)
  OBVIOUS
<1>3. /\ Request(call[c]) /\ Active(c) /\ call' = [call EXCEPT ![c] = r]
      /\ call[c].list \subseteq Users
  BY <1>1, <1>2 DEF Typed, Waits, Active, Request
<1>4. /\ Request(r) /\ Unsent(r) /\ (Answered(r))' /\ (Restoring(r))' /\ r.todo = call[c].todo
  BY <1>1, <1>2, <1>3, RestIsRequest
<1>5. Typed'
  BY <1>1, <1>3, <1>4, TypedAfter DEF Waiting, Typed, Stored
<1>6. Defaults'
  BY <1>1, <1>3, <1>4, DefaultsAfter DEF Defaults
<1>7. ASSUME Solo(c) PROVE (Solo(c))'
  <2>1. ~\E k : Filling(call[c], k)
    BY <1>1 DEF Filling
  <2>2. Settings!IsPage(shown', users')
    BY <1>1, <1>7 DEF Solo, Answered
  <2>3. form'.typed \/ form'.value = settings' \/ FormDue(r)
    BY <1>1, <1>4, <1>7 DEF Solo, FormDue
  <2>4. \A k \in C : (Kept(k))'
    BY <1>1, <1>7, <2>1 DEF Solo, Kept
  <2> QED
    BY <1>3, <1>4, <1>7, <2>2, <2>3, <2>4, SoloAfter
<1> QED
  BY <1>1, <1>3, <1>5, <1>6, <1>7, CalmAfter

LEMMA FailedKeeps ==
  ASSUME Typed, Defaults, Calm, NEW c \in Scans, Settings!Failed(c)
  PROVE  Typed' /\ Defaults' /\ Calm'
<1>1. /\ call[c].at = "bad" /\ busy' = busy \ {call[c].kind}
      /\ loadFailed' = (loadFailed \/ call[c].req = "settings")
      /\ call' = [call EXCEPT ![c] = Settings!Rest(c)]
      /\ UNCHANGED <<settings, users, data, others, form, shown, calm, restored, starts>>
  BY Zenon DEF Settings!Failed, Settings!StoreUnchanged
<1>2. /\ loading' \in BOOLEAN /\ loadFailed' \in BOOLEAN
      /\ call[c].req # "settings" => loading' = loading
  BY <1>1 DEF Settings!Failed, Typed, Stored
<1>3. PICK r : r = Settings!Rest(c)
  OBVIOUS
<1>4. Request(call[c]) /\ Active(c) /\ call' = [call EXCEPT ![c] = r]
  BY <1>1, <1>3 DEF Typed, Waits, Active
<1>5. /\ Request(r) /\ Unsent(r) /\ (Answered(r))' /\ (Restoring(r))' /\ r.todo = call[c].todo
  BY <1>1, <1>3, <1>4, RestIsRequest
<1>6. Typed'
  <2>1. Stored'
    BY <1>1, <1>2 DEF Typed, Stored
  <2> QED
    BY <2>1, <1>1, <1>4, <1>5, TypedAfter DEF Waiting
<1>7. Defaults'
  <2>1. CASE loadFailed \/ call[c].req = "settings"
    BY <1>1, <2>1 DEF Defaults
  <2>2. CASE ~loadFailed /\ call[c].req # "settings"
    BY <1>1, <1>2, <1>4, <1>5, <2>2, DefaultsAfter DEF Defaults
  <2> QED
    BY <2>1, <2>2
<1>8. ASSUME Solo(c) PROVE (Solo(c))'
  <2>1. ~\E k : Filling(call[c], k)
    BY <1>1 DEF Filling
  <2>2. Settings!IsPage(shown', users') \/ UsersDue(r)
    BY <1>1, <1>5, <1>8 DEF Solo, UsersDue
  <2>3. form'.typed \/ form'.value = settings' \/ FormDue(r)
    BY <1>1, <1>5, <1>8 DEF Solo, FormDue
  <2>4. \A k \in C : (Kept(k))'
    BY <1>1, <1>8, <2>1 DEF Solo, Kept
  <2> QED
    BY <1>4, <1>5, <1>8, <2>2, <2>3, <2>4, SoloAfter
<1> QED
  BY <1>1, <1>4, <1>6, <1>7, <1>8, CalmAfter

LEMMA MeetKeeps ==
  ASSUME Typed, Defaults, Calm, NEW c \in Scans, Settings!Meet(c)
  PROVE  Typed' /\ Defaults' /\ Calm'
BY SavedKeeps, UserSavedKeeps, RestoredKeeps, FetchSettingsKeeps, FetchUsersKeeps, FailedKeeps
   DEF Settings!Meet

-----------------------------------------------------------------------------
(* The theorems *)

LEMMA StartsSo ==
  ASSUME Settings!Init
  PROVE  Typed /\ Defaults /\ Calm
<1>1. /\ settings = <<"first", 0>> /\ users \subseteq Users
      /\ data = [k \in C |-> {"instance"}]
      /\ form = [value |-> <<"page", 0>>, typed |-> FALSE]
      /\ shown = {} /\ loading = TRUE /\ busy = {} /\ loadFailed = FALSE /\ calm = TRUE
      /\ restored = {} /\ starts = 0 /\ others = 0
  BY Zenon DEF Settings!Init, Settings!DEFAULT_SETTINGS, C
<1>2. PICK q : q = Settings!Idle
  OBVIOUS
<1>3. PICK r : r = Settings!Load("none", {"settings", "users"})
  OBVIOUS
<1>4. PICK m \in Scans : call = [c \in Scans |-> IF c = m THEN r ELSE q]
  BY <1>2, <1>3, Zenon DEF Settings!Init
<1>5. Request(q) /\ q.at = "idle" /\ q.req = "none"
  BY <1>2, IdleIsRequest DEF Settings!Idle
<1>6. DOMAIN r = Fields /\ r.at = "sent" /\ r.req = "load" /\ r.kind = "none" /\ r.todo = {"settings", "users"}
  BY <1>3 DEF Settings!Load, Settings!Idle, Fields
<1>7. Request(r)
  BY <1>6 DEF Request
<1>8. Stored
  <2>1. settings \in Texts /\ form \in [value : Texts, typed : BOOLEAN]
    BY <1>1 DEF Texts, Settings!Values
  <2>2. data \in [C -> SUBSET Settings!Docs]
    BY <1>1 DEF Settings!Docs
  <2>3. starts \in 0..MaxStarts /\ others \in 0..MaxOthers
    BY <1>1, SettingsAssumption DEF Settings!SettingsBounds
  <2> QED
    BY <1>1, <2>1, <2>2, <2>3 DEF Stored
<1>9. Typed
  BY <1>1, <1>4, <1>5, <1>7, <1>8 DEF Typed, Waits, Buttons
<1>10. Defaults
  BY <1>1, <1>4, <1>5, <1>6 DEF Defaults, Unsent
<1>11. Solo(m)
  <2>1. \A k \in C : Kept(k)
    BY <1>1 DEF Kept
  <2>2. call[m] = r /\ \A d \in Scans : Active(d) => d = m
    BY <1>4, <1>5 DEF Active
  <2>3. Answered(r) /\ Restoring(r) /\ UsersDue(r) /\ FormDue(r)
    BY <1>6 DEF Answered, Restoring, UsersDue, FormDue
  <2> QED
    BY <2>1, <2>2, <2>3 DEF Solo
<1> QED
  BY <1>9, <1>10, <1>11, SoloIsCalm

LEMMA InitSettings == AllInit => SettingsInv
<1>1. AllInit /\ which = "Settings" => Settings!Init
  BY Zenon DEF AllInit
<1> QED
  BY <1>1, StartsSo DEF SettingsInv

LEMMA NextSettings ==
  ASSUME Typed, Defaults, Calm, Settings!Next
  PROVE  Typed' /\ Defaults' /\ Calm'
BY ClickKeeps, ServeKeeps, MeetKeeps, TypeKeeps, OtherWindowKeeps DEF Settings!Next

LEMMA UnchangedSettings ==
  ASSUME Typed, Defaults, Calm, UNCHANGED allVars
  PROVE  Typed' /\ Defaults' /\ Calm'
<1>1. UNCHANGED <<settings, users, data, form, shown, loading, busy, call, loadFailed, calm, restored,
                  starts, others>>
  BY DEF allVars
<1>2. Typed'
  BY <1>1 DEF Typed, Stored, Waits, Request, Buttons, Active
<1>3. Defaults'
  BY <1>1 DEF Defaults, Unsent
<1>4. Calm'
  BY <1>1 DEF Calm, OneHandler, Active, Answered, Restoring, UsersShown, UsersDue, FormShown, FormDue,
              DataKept, Kept, Filling
<1> QED
  BY <1>2, <1>3, <1>4

LEMMA StepSettings == SettingsInv /\ [AllNext]_allVars => SettingsInv'
<1> SUFFICES ASSUME SettingsInv, [AllNext]_allVars, which' = "Settings"
             PROVE  Typed' /\ Defaults' /\ Calm'
  BY DEF SettingsInv
<1>1. CASE AllNext
  <2>1. which = "Settings"
    BY <1>1, Zenon DEF AllNext
  <2>2. Settings!Next
    BY <1>1, <2>1, Zenon DEF AllNext
  <2> QED
    BY <2>1, <2>2, NextSettings DEF SettingsInv
<1>2. CASE UNCHANGED allVars
  <2>1. which = "Settings"
    BY <1>2 DEF allVars
  <2> QED
    BY <1>2, <2>1, UnchangedSettings DEF SettingsInv
<1> QED
  BY <1>1, <1>2

LEMMA SettingsInvariant == AllSpec => []SettingsInv
BY InitSettings, StepSettings, PTL DEF AllSpec

\* The settings page: every variable holds a value of its kind, and a button waits only
\* for a handler of its own that is under way.
LEMMA SettingsTyped == AllSpec => [](which = "Settings" => Settings!SettingsPageTypeOK)
<1>1. SettingsInv => (which = "Settings" => Settings!SettingsPageTypeOK)
  <2> SUFFICES ASSUME Typed PROVE Settings!SettingsPageTypeOK
    BY DEF SettingsInv
  <2>1. \A k \in busy : \E c \in Settings!Busy : call[c].kind = k
    BY DEF Typed, Buttons, Active, Settings!Busy
  <2> QED
    BY <2>1 DEF Typed, Stored, Texts, C, Settings!SettingsPageTypeOK
<1> QED
  BY <1>1, SettingsInvariant, PTL

\* The settings page never saves the values it starts with over settings it could read
\* (handleSaveSettings sends every field); a page that writes alone shows the stored
\* settings and as many stored users as the API lists; and restores it asks for one at a
\* time, none cut short, leave each collection with its documents or with those of the
\* file (deleteMany and insertMany, collection by collection).
THEOREM SettingsAreKept == AllSpec => []SettingsKept
<1>1. SettingsInv => SettingsKept
  <2> SUFFICES ASSUME Typed, Defaults, Calm
               PROVE  Settings!DefaultsStayOut /\ Settings!SettingsShown /\ Settings!RestoreExact
    BY DEF SettingsInv, SettingsKept
  <2>1. Settings!DefaultsStayOut
    BY DEF Defaults, Settings!DefaultsStayOut
  <2>2. ASSUME calm, Settings!Busy = {}
        PROVE  Settings!IsPage(shown, users) /\ (form.typed \/ form.value = settings)
    <3>1. \A c \in Scans : ~UsersDue(call[c]) /\ ~FormDue(call[c])
      BY <2>2, IdleOwesNothing DEF Typed, Waits, Settings!Busy
    <3> QED
      BY <2>2, <3>1 DEF Calm, UsersShown, FormShown
  <2>3. Settings!SettingsShown
    BY <2>2 DEF Settings!SettingsShown
  <2>4. ASSUME calm, \A c \in Settings!Busy : call[c].req # "restore" PROVE \A k \in C : Kept(k)
    <3>1. ASSUME NEW c \in Scans PROVE ~\E k : Filling(call[c], k)
      <4>1. call[c].at = "fill" => call[c].req = "restore" /\ c \in Settings!Busy
        BY DEF Typed, Waits, Request, Settings!Busy
      <4> QED
        BY <2>4, <4>1 DEF Filling
    <3> QED
      BY <2>4, <3>1 DEF Calm, DataKept
  <2>5. Settings!RestoreExact
    BY <2>4 DEF Settings!RestoreExact, Kept, C
  <2> QED
    BY <2>1, <2>3, <2>5
<1> QED
  BY <1>1, SettingsInvariant, PTL

-----------------------------------------------------------------------------
(* The handlers one at a time: Inventory and ScanQueue again, with other     *)
(* variables.  Their theorems are those of the proofs instantiated alike.    *)

SerialProofs == INSTANCE InventoryProofs WITH
  MaxRunning <- 1, MaxMessages <- MaxSerial, Faults <- {}, life <- itsLife, doc <- itsDoc,
  history <- itsHistory, scan <- itsScan, check <- itsCheck, edit <- itsEdit,
  messages <- itsMessages
QueueProofs == INSTANCE ScanQueueProofs WITH
  Faults <- {"worker", "api", "store"}

\* What counts is finite in every instance alike.
LEMMA SameCounts ==
  /\ \A S : SerialProofs!IsFiniteSet(S) <=> IsFiniteSet(S)
  /\ \A S : SerialProofs!Cardinality(S) = Serial!Cardinality(S)
  /\ \A S : QueueProofs!IsFiniteSet(S) <=> IsFiniteSet(S)
  /\ \A S : QueueProofs!Cardinality(S) = Queue!Cardinality(S)
  /\ \A S : QueueProofs!Cardinality(S) = Cardinality(S)
BY DEF IsFiniteSet, Serial!IsFiniteSet, SerialProofs!IsFiniteSet, Queue!IsFiniteSet,
       QueueProofs!IsFiniteSet, Cardinality, Serial!Cardinality, SerialProofs!Cardinality,
       Queue!Cardinality, QueueProofs!Cardinality

LEMMA SerialTheorems ==
  /\ SerialProofs!Spec => []SerialProofs!TypeOK
  /\ SerialProofs!Spec => /\ [](SerialProofs!HistoryAlternates /\ SerialProofs!HistorySettles)
                          /\ [][SerialProofs!RecordedFirst]_SerialProofs!vars
<1> USE ThingsAssumption, AddressAssumption, UpperAssumption, HostsAssumption, FormsAssumption
<1>1. {} \subseteq {"store", "restart"}
  OBVIOUS
<1>2. SerialProofs!IsFiniteSet(Scans \cup Checks)
  BY HandlersAssumption, SameCounts
<1>3. SerialProofs!Spec => []SerialProofs!TypeOK
  BY <1>1, <1>2, SerialProofs!TypeCorrect
<1>4. SerialProofs!Spec => /\ [](SerialProofs!HistoryAlternates /\ SerialProofs!HistorySettles)
                           /\ [][SerialProofs!RecordedFirst]_SerialProofs!vars
  BY <1>1, <1>2, SerialProofs!HistoryIsExact
<1> QED
  BY <1>3, <1>4

LEMMA QueueIsTyped == QueueProofs!Spec => []QueueProofs!TypeOK
<1>1. QueueProofs!IsFiniteSet(Jobs) /\ QueueProofs!IsFiniteSet(Requests)
  BY QueueAssumption, SameCounts
<1>2. {"worker", "api", "store"} \subseteq {"worker", "api", "store"}
  OBVIOUS
<1> QED
  BY <1>1, <1>2, QueueAssumption, QueueProofs!TypeCorrect

LEMMA QueueLimits ==
  ASSUME Cardinality(Requests) = 1
  PROVE  QueueProofs!Spec =>
           /\ [](QueueProofs!OneScanPerNetwork /\ QueueProofs!QueueDepthLimit)
           /\ [][QueueProofs!NoneCooling]_QueueProofs!vars
<1>1. QueueProofs!IsFiniteSet(Jobs) /\ QueueProofs!IsFiniteSet(Requests)
  BY QueueAssumption, SameCounts
<1>2. {"worker", "api", "store"} \subseteq {"worker", "api", "store"}
  OBVIOUS
<1>3. QueueProofs!Cardinality(Requests) = 1
  BY SameCounts
<1> QED
  BY <1>1, <1>2, <1>3, QueueAssumption, QueueProofs!LimitsHoldForOneCall

\* The two instances of each module are the same specification.
LEMMA SameScans ==
  ASSUME NEW s \in Scans
  PROVE  /\ SerialProofs!ScanReceived(s) <=> Serial!ScanReceived(s)
         /\ SerialProofs!ScanStep(s) <=> Serial!ScanStep(s)
         /\ SerialProofs!HostFails(s) <=> Serial!HostFails(s)
BY SameCounts DEF Serial!ScanReceived, SerialProofs!ScanReceived, Serial!ScanStep,
                  SerialProofs!ScanStep, Serial!FindHost, SerialProofs!FindHost,
                  Serial!ScanRecords, SerialProofs!ScanRecords, Serial!ScanUpdates,
                  SerialProofs!ScanUpdates, Serial!ScanCreates, SerialProofs!ScanCreates,
                  Serial!ScanEnds, SerialProofs!ScanEnds, Serial!HostFails,
                  SerialProofs!HostFails, Serial!Receive, SerialProofs!Receive,
                  Serial!Running, SerialProofs!Running, Serial!ByMac, SerialProofs!ByMac,
                  Serial!NextHost, SerialProofs!NextHost, Serial!Insert, SerialProofs!Insert,
                  Serial!MacFree, SerialProofs!MacFree, Serial!Record, SerialProofs!Record,
                  Serial!Live, SerialProofs!Live, Serial!NoScan, SerialProofs!NoScan,
                  Serial!Nothing, SerialProofs!Nothing

LEMMA SameChecks ==
  ASSUME NEW c \in Checks
  PROVE  /\ SerialProofs!CheckReceived(c) <=> Serial!CheckReceived(c)
         /\ SerialProofs!CheckStep(c) <=> Serial!CheckStep(c)
         /\ SerialProofs!CheckFails(c) <=> Serial!CheckFails(c)
BY SameCounts DEF Serial!CheckReceived, SerialProofs!CheckReceived, Serial!CheckStep,
                  SerialProofs!CheckStep, Serial!CheckRecords, SerialProofs!CheckRecords,
                  Serial!CheckUpdates, SerialProofs!CheckUpdates, Serial!CheckEnds,
                  SerialProofs!CheckEnds, Serial!CheckFails, SerialProofs!CheckFails,
                  Serial!Receive, SerialProofs!Receive, Serial!Running, SerialProofs!Running,
                  Serial!Verdict, SerialProofs!Verdict, Serial!Seen, SerialProofs!Seen,
                  Serial!SetHealth, SerialProofs!SetHealth, Serial!Record,
                  SerialProofs!Record, Serial!Registered, SerialProofs!Registered,
                  Serial!Live, SerialProofs!Live, Serial!NoCheck, SerialProofs!NoCheck

LEMMA SameUsers ==
  /\ SerialProofs!UserCreates <=> Serial!UserCreates
  /\ \A t \in Things : SerialProofs!EditReads(t) \/ SerialProofs!Delete(t)
                         <=> Serial!EditReads(t) \/ Serial!Delete(t)
  /\ SerialProofs!EditWrites <=> Serial!EditWrites
  /\ SerialProofs!DeleteDiscovered <=> Serial!DeleteDiscovered
  /\ SerialProofs!ApiRestarts <=> Serial!ApiRestarts
BY DEF Serial!UserCreates, SerialProofs!UserCreates, Serial!EditReads, SerialProofs!EditReads,
       Serial!Delete, SerialProofs!Delete, Serial!EditWrites, SerialProofs!EditWrites,
       Serial!Edited, SerialProofs!Edited, Serial!DeleteDiscovered,
       SerialProofs!DeleteDiscovered, Serial!ApiRestarts, SerialProofs!ApiRestarts,
       Serial!Insert, SerialProofs!Insert, Serial!MacFree, SerialProofs!MacFree,
       Serial!Registered, SerialProofs!Registered, Serial!Live, SerialProofs!Live,
       Serial!NoScan, SerialProofs!NoScan, Serial!NoCheck, SerialProofs!NoCheck,
       Serial!NoEdit, SerialProofs!NoEdit, Serial!Nothing, SerialProofs!Nothing

LEMMA SerialIsInventory ==
  /\ Serial!Init => SerialProofs!Init
  /\ [Serial!Next]_Serial!vars => [SerialProofs!Next]_SerialProofs!vars
<1>1. Serial!Init => SerialProofs!Init
  BY DEF Serial!Init, SerialProofs!Init, Serial!NoScan, SerialProofs!NoScan, Serial!NoCheck,
         SerialProofs!NoCheck, Serial!NoEdit, SerialProofs!NoEdit, Serial!Nothing,
         SerialProofs!Nothing
<1>2. Serial!Next => SerialProofs!Next
  BY SameScans, SameChecks, SameUsers, Zenon DEF Serial!Next, SerialProofs!Next
<1> QED
  BY <1>1, <1>2 DEF Serial!vars, SerialProofs!vars

LEMMA SameDiscovers ==
  ASSUME NEW r \in Requests
  PROVE  /\ \A n \in Networks : QueueProofs!Receive(r, n) <=> Queue!Receive(r, n)
         /\ QueueProofs!Request(r) <=> Queue!Request(r)
         /\ QueueProofs!RequestFails(r) <=> Queue!RequestFails(r)
BY SameCounts DEF Queue!Receive, QueueProofs!Receive, Queue!Request, QueueProofs!Request,
                  Queue!Admit, QueueProofs!Admit, Queue!Check, QueueProofs!Check,
                  Queue!Create, QueueProofs!Create, Queue!Enqueue, QueueProofs!Enqueue,
                  Queue!RequestFails, QueueProofs!RequestFails, Queue!HasActive,
                  QueueProofs!HasActive, Queue!ActiveJobs, QueueProofs!ActiveJobs,
                  Queue!QueueFull, QueueProofs!QueueFull, Queue!PendingJobs,
                  QueueProofs!PendingJobs, Queue!NoCall, QueueProofs!NoCall, Queue!redisVars,
                  QueueProofs!redisVars

LEMMA SameWorker ==
  /\ QueueProofs!Worker <=> Queue!Worker
  /\ QueueProofs!WorkerAborts <=> Queue!WorkerAborts
  /\ QueueProofs!Deliver <=> Queue!Deliver
  /\ \A n \in Networks : QueueProofs!CooldownExpires(n) <=> Queue!CooldownExpires(n)
BY DEF Queue!Worker, QueueProofs!Worker, Queue!Pop, QueueProofs!Pop, Queue!StoreResult,
       QueueProofs!StoreResult, Queue!RemoveFromActive, QueueProofs!RemoveFromActive,
       Queue!AddToCompleted, QueueProofs!AddToCompleted, Queue!Publish, QueueProofs!Publish,
       Queue!WorkerAborts, QueueProofs!WorkerAborts, Queue!Deliver, QueueProofs!Deliver,
       Queue!CooldownExpires, QueueProofs!CooldownExpires, Queue!NoWork, QueueProofs!NoWork,
       Queue!redisVars, QueueProofs!redisVars

LEMMA SameHandlers ==
  /\ \A j \in Jobs : /\ QueueProofs!Handler(j) <=> Queue!Handler(j)
                     /\ QueueProofs!HandlerFails(j) <=> Queue!HandlerFails(j)
  /\ QueueProofs!SubscriberReconnects <=> Queue!SubscriberReconnects
  /\ QueueProofs!ApiRestarts <=> Queue!ApiRestarts
BY DEF Queue!Handler, QueueProofs!Handler, Queue!LookUp, QueueProofs!LookUp,
       Queue!MarkRunning, QueueProofs!MarkRunning, Queue!MarkCompleted,
       QueueProofs!MarkCompleted, Queue!HandlerFails, QueueProofs!HandlerFails,
       Queue!SubscriberReconnects, QueueProofs!SubscriberReconnects, Queue!ApiRestarts,
       QueueProofs!ApiRestarts, Queue!NoCall, QueueProofs!NoCall, Queue!redisVars,
       QueueProofs!redisVars

LEMMA QueueIsScanQueue ==
  /\ Queue!Init => QueueProofs!Init
  /\ [Queue!Next]_Queue!vars => [QueueProofs!Next]_QueueProofs!vars
<1>1. Queue!Init => QueueProofs!Init
  BY DEF Queue!Init, QueueProofs!Init, Queue!NoCall, QueueProofs!NoCall, Queue!NoWork,
         QueueProofs!NoWork
<1>2. Queue!Next => QueueProofs!Next
  BY SameDiscovers, SameWorker, SameHandlers, Zenon DEF Queue!Next, QueueProofs!Next
<1> QED
  BY <1>1, <1>2 DEF Queue!vars, QueueProofs!vars

\* A behaviour keeps to the module it has started with.
LEMMA KeepsTo ==
  ASSUME NEW m
  PROVE  /\ which = m /\ [AllNext]_allVars => (which = m)'
         /\ ~(which = m) /\ [AllNext]_allVars => (~(which = m))'
BY DEF AllNext, allVars

LEMMA RunsSerial ==
  /\ AllSpec => (which = "Serial" => SerialProofs!Spec)
  /\ AllSpec => (~(which = "Serial") => [](~(which = "Serial")))
<1>1. AllInit /\ which = "Serial" => SerialProofs!Init
  BY SerialIsInventory DEF AllInit
<1>2. which = "Serial" /\ [AllNext]_allVars => [SerialProofs!Next]_SerialProofs!vars
  <2>1. which = "Serial" /\ [AllNext]_allVars => [Serial!Next]_Serial!vars
    BY DEF AllNext, allVars, Serial!vars
  <2> QED
    BY <2>1, SerialIsInventory
<1>3. /\ which = "Serial" /\ [AllNext]_allVars => (which = "Serial")'
      /\ ~(which = "Serial") /\ [AllNext]_allVars => (~(which = "Serial"))'
  BY KeepsTo
<1> QED
  BY <1>1, <1>2, <1>3, PTL DEF AllSpec, SerialProofs!Spec

LEMMA RunsQueue ==
  /\ AllSpec => (which = "Queue" => QueueProofs!Spec)
  /\ AllSpec => (~(which = "Queue") => [](~(which = "Queue")))
<1>1. AllInit /\ which = "Queue" => QueueProofs!Init
  BY QueueIsScanQueue DEF AllInit
<1>2. which = "Queue" /\ [AllNext]_allVars => [QueueProofs!Next]_QueueProofs!vars
  <2>1. which = "Queue" /\ [AllNext]_allVars => [Queue!Next]_Queue!vars
    BY DEF AllNext, allVars, Queue!vars
  <2> QED
    BY <2>1, QueueIsScanQueue
<1>3. /\ which = "Queue" /\ [AllNext]_allVars => (which = "Queue")'
      /\ ~(which = "Queue") /\ [AllNext]_allVars => (~(which = "Queue"))'
  BY KeepsTo
<1> QED
  BY <1>1, <1>2, <1>3, PTL DEF AllSpec, QueueProofs!Spec

LEMMA RunsInventory == AllSpec => Spec
<1>1. AllInit => Init
  BY DEF AllInit
<1>2. [AllNext]_allVars => [Next]_vars
  BY Zenon DEF AllNext, allVars
<1> QED
  BY <1>1, <1>2, PTL DEF AllSpec, Spec

-----------------------------------------------------------------------------
(* What the composed module promises *)

\* In whichever module a behaviour runs, every variable holds a value of its kind, and a
\* button of the settings page waits only for a handler of its own that is under way.
THEOREM PagesTyped == AllSpec => []PagesTypeOK
<1>1. SerialProofs!TypeOK => Serial!TypeOK
  BY DEF Serial!TypeOK, SerialProofs!TypeOK, Serial!Doc, SerialProofs!Doc, Serial!ScanState,
         SerialProofs!ScanState, Serial!CheckState, SerialProofs!CheckState, Serial!EditState,
         SerialProofs!EditState, Serial!Due, SerialProofs!Due, Serial!Healths,
         SerialProofs!Healths, Serial!Nothing, SerialProofs!Nothing
<1>2. QueueProofs!TypeOK => Queue!TypeOK
  BY DEF Queue!TypeOK, QueueProofs!TypeOK
<1>3. AllSpec => [](which = "Serial" => Serial!TypeOK)
  BY <1>1, RunsSerial, SerialTheorems, PTL
<1>4. AllSpec => [](which = "Queue" => Queue!TypeOK)
  BY <1>2, RunsQueue, QueueIsTyped, PTL
<1> QED
  BY <1>3, <1>4, RunsInventory, TypeCorrect, SettingsTyped, PTL DEF PagesTypeOK

\* One completion or health check handler at a time, and none that fails: the history
\* alternates, settles on the health, and a health changes only to what it says
\* (recordTransition before each update), though users create, edit and delete throughout.
THEOREM HistoryStaysExact == AllSpec => SerialHistory
<1>1. SerialProofs!HistoryAlternates => Serial!HistoryAlternates
  BY DEF Serial!HistoryAlternates, SerialProofs!HistoryAlternates
<1>2. SerialProofs!HistorySettles => Serial!HistorySettles
  BY SameCounts DEF Serial!HistorySettles, SerialProofs!HistorySettles, Serial!Settled,
                    SerialProofs!Settled, Serial!Running, SerialProofs!Running, Serial!Live,
                    SerialProofs!Live, Serial!LastEvent, SerialProofs!LastEvent
<1>3. [SerialProofs!RecordedFirst]_SerialProofs!vars /\ [AllNext]_allVars
        => [which = "Serial" => Serial!RecordedFirst]_allVars
  <2>1. SerialProofs!RecordedFirst => Serial!RecordedFirst
    BY DEF Serial!RecordedFirst, SerialProofs!RecordedFirst, Serial!Live, SerialProofs!Live,
           Serial!LastEvent, SerialProofs!LastEvent
  <2>2. UNCHANGED SerialProofs!vars => Serial!RecordedFirst
    BY DEF SerialProofs!vars, Serial!RecordedFirst
  <2> QED
    BY <2>1, <2>2
<1>4. ~(which = "Serial") => [which = "Serial" => Serial!RecordedFirst]_allVars
  OBVIOUS
<1>5. AllSpec => [](which = "Serial" => Serial!HistoryAlternates)
  BY <1>1, RunsSerial, SerialTheorems, PTL
<1>6. AllSpec => [](which = "Serial" => Serial!HistorySettles)
  BY <1>2, RunsSerial, SerialTheorems, PTL
<1>7. AllSpec => [][which = "Serial" => Serial!RecordedFirst]_allVars
  BY <1>3, <1>4, RunsSerial, SerialTheorems, PTL DEF AllSpec
<1> QED
  BY <1>5, <1>6, <1>7 DEF SerialHistory

\* One call of ScannerService.discover at a time: the documented limits hold exactly,
\* whatever the worker, the handlers and the faults do.
THEOREM LimitsStayExact ==
  ASSUME Cardinality(Requests) = 1
  PROVE  AllSpec => DocumentedLimits
<1>1. QueueProofs!OneScanPerNetwork => Queue!OneScanPerNetwork
  BY SameCounts DEF Queue!OneScanPerNetwork, QueueProofs!OneScanPerNetwork, Queue!ActiveJobs,
                    QueueProofs!ActiveJobs
<1>2. QueueProofs!QueueDepthLimit => Queue!QueueDepthLimit
  BY SameCounts DEF Queue!QueueDepthLimit, QueueProofs!QueueDepthLimit, Queue!PendingJobs,
                    QueueProofs!PendingJobs
<1>3. [QueueProofs!NoneCooling]_QueueProofs!vars => [which = "Queue" => Queue!NoneCooling]_allVars
  <2>1. QueueProofs!NoneCooling => Queue!NoneCooling
    BY DEF Queue!NoneCooling, QueueProofs!NoneCooling
  <2>2. UNCHANGED QueueProofs!vars => Queue!NoneCooling
    BY DEF QueueProofs!vars, Queue!NoneCooling
  <2> QED
    BY <2>1, <2>2
<1>4. ~(which = "Queue") => [which = "Queue" => Queue!NoneCooling]_allVars
  OBVIOUS
<1>5. AllSpec => [](which = "Queue" => Queue!OneScanPerNetwork)
  BY <1>1, RunsQueue, QueueLimits, PTL
<1>6. AllSpec => [](which = "Queue" => Queue!QueueDepthLimit)
  BY <1>2, RunsQueue, QueueLimits, PTL
<1>7. AllSpec => [][which = "Queue" => Queue!NoneCooling]_allVars
  BY <1>3, <1>4, RunsQueue, QueueLimits, PTL
<1> QED
  BY <1>5, <1>6, <1>7 DEF DocumentedLimits
=============================================================================
