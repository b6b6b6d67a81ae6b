----------------------------- MODULE SettingsPage -----------------------------
(***************************************************************************)
(* The general, users and backup tabs of the settings page over            *)
(* SettingsService, UsersService and BackupService (the types are          *)
(* TypesPage).  A slot of Calls is a handler of the page with the request  *)
(* it waits for.  Settings are where they came from and a number of the    *)
(* text typed over them; a collection of the restored data is which of the *)
(* instance's and the backup's documents it holds.                         *)
(***************************************************************************)
EXTENDS Naturals, FiniteSets, Sequences

CONSTANTS Calls, Users, None,
          Limit,       \* users the API lists, 20: the page asks for no other page
          Collections, \* those a restore replaces, in its order
          Sealed,      \* the collection whose documents may have credentials: the things
          MaxStarts,   \* bound: requests of the page
          MaxOthers    \* bound: what other windows write

UsersExist == None \notin Users /\ IsFiniteSet(Users) /\ Limit \in Nat \ {0}
SettingsBounds == {MaxStarts, MaxOthers} \subseteq Nat

VARIABLES settings,  \* the stored settings
          users,     \* the stored users
          data,      \* the stored collections
          form,      \* the settings the page shows, and whether a user typed since they were read
          shown,     \* the users it shows
          loading,   \* loadingSettings
          busy,      \* the buttons that wait
          call,
          loadFailed, \* some read of the settings failed
          calm,      \* one handler at a time, none failed, no other window has written
          restored,  \* what the last restore the page reported as done had in its file
          starts, others

vars == <<settings, users, data, form, shown, loading, busy, call, loadFailed, calm, restored,
          starts, others>>

Docs == {"instance", "backup"}
Coll == {Collections[i] : i \in DOMAIN Collections}
CollectionsInOrder == Collections \in Seq(Coll) /\ Sealed \in Coll
Idle == [at |-> "idle", req |-> "none", kind |-> "none", id |-> None, value |-> None,
         list |-> {}, opens |-> FALSE, next |-> 0, todo |-> {}]
At(c, at, req) == call[c].at = at /\ call[c].req = req
Busy == {c \in Calls : call[c].at # "idle"}
Go(c, at) == call' = [call EXCEPT ![c].at = at]
\* Of a request that was refused or lost only the kind matters, and what is still to read.
Bad(c) == [Idle EXCEPT !.at = "bad", !.req = call[c].req, !.kind = call[c].kind, !.todo = call[c].todo]
\* A handler that reads again what a page shows, in any order.
Load(kind, what) == [Idle EXCEPT !.at = "sent", !.req = "load", !.kind = kind, !.todo = what]
Rest(c) == IF call[c].todo = {} THEN Idle ELSE Load(call[c].kind, call[c].todo)

\* P is a page of the users S, which come in no order.
IsPage(P, S) == P \subseteq S /\ Cardinality(P) <= Limit /\ (P = S \/ Cardinality(P) = Limit)

PageUnchanged == UNCHANGED <<form, shown, loading, busy, loadFailed, restored>>
StoreUnchanged == UNCHANGED <<settings, users, data, others>>

-----------------------------------------------------------------------------
(* The page *)

DEFAULT_SETTINGS == <<"page", 0>>

\* The page shows its tabs once the settings have been read, or could not be.
Ready == ~loading

\* A field of the general tab.
Type ==
  /\ Ready
  /\ form' = [value |-> <<form.value[1], 1 - form.value[2]>>, typed |-> TRUE]
  /\ StoreUnchanged /\ UNCHANGED <<shown, loading, busy, call, loadFailed, calm, restored, starts>>

Start(c, kind, n, value, file, opens) ==
  /\ Ready /\ kind \notin busy /\ call[c].at = "idle"
  /\ starts < MaxStarts /\ starts' = starts + 1
  /\ busy' = busy \cup {kind}
  /\ call' = [call EXCEPT ![c] = [Idle EXCEPT !.at = "sent", !.req = kind, !.kind = kind, !.id = n,
                                 !.value = value, !.list = file, !.opens = opens]]
  /\ calm' = (calm /\ Busy = {})
  /\ StoreUnchanged /\ UNCHANGED <<form, shown, loading, loadFailed, restored>>

\* All fields, also those nobody typed.
handleSaveSettings(c) == Start(c, "save", None, form.value, {}, FALSE)

handleAddUser(c) == \E u \in Users : Start(c, "addUser", u, None, {}, FALSE)

handleDeleteUser(c) == \E u \in shown : Start(c, "deleteUser", u, None, {}, FALSE)

\* The button waits for a password; the data is only read.
handleExport(c) == Start(c, "export", None, None, {}, FALSE)

\* A file, of which the collections that are not empty matter and whether its things have
\* credentials, and a password, right or wrong.  It opens nothing but the credentials.
handleRestore(c) ==
  \E file \in SUBSET Coll, right \in BOOLEAN, credentials \in BOOLEAN :
    /\ credentials => Sealed \in file
    /\ Start(c, "restore", None, None, file, right \/ ~credentials)

-----------------------------------------------------------------------------
(* The API *)

Answer(c, ok) == IF ok THEN Go(c, "good") ELSE call' = [call EXCEPT ![c] = Bad(c)]

\* SettingsService.update replaces the fields it is sent.
updateSettings(c) ==
  /\ At(c, "sent", "save")
  /\ settings' = call[c].value
  /\ Go(c, "good")
  /\ PageUnchanged /\ UNCHANGED <<users, data, others, calm, starts>>

\* GET /settings or GET /users.
Read(c) ==
  /\ At(c, "sent", "load")
  /\ \E w \in call[c].todo :
       \E P \in SUBSET users :
         /\ IF w = "users" THEN IsPage(P, users) ELSE P = {}
         /\ call' = [call EXCEPT ![c] = [@ EXCEPT !.at = "good", !.req = w, !.todo = call[c].todo \ {w},
                                                  !.value = IF w = "settings" THEN settings ELSE None,
                                                  !.list = P]]
  /\ PageUnchanged /\ StoreUnchanged /\ UNCHANGED <<calm, starts>>

\* UsersService.create looks for the name and hashes the password, then creates.
findByUsername(c) ==
  /\ At(c, "sent", "addUser")
  /\ IF call[c].id \in users THEN Answer(c, FALSE) ELSE Go(c, "checked")
  /\ PageUnchanged /\ StoreUnchanged /\ UNCHANGED <<calm, starts>>

\* The index refuses a name taken since.
createUser(c) ==
  /\ At(c, "checked", "addUser")
  /\ Answer(c, call[c].id \notin users)
  /\ users' = users \cup {call[c].id}
  /\ PageUnchanged /\ UNCHANGED <<settings, data, others, calm, starts>>

deleteUser(c) ==
  /\ At(c, "sent", "deleteUser")
  /\ Answer(c, call[c].id \in users)
  /\ users' = users \ {call[c].id}
  /\ PageUnchanged /\ UNCHANGED <<settings, data, others, calm, starts>>

export(c) ==
  /\ At(c, "sent", "export")
  /\ Answer(c, TRUE)
  /\ PageUnchanged /\ StoreUnchanged /\ UNCHANGED <<calm, starts>>

File(c) == call[c].list

\* The next collection from i on, one that is empty in the file being left as it is.
Advance(c, i) ==
  LET left == {k \in i..Len(Collections) : Collections[k] \in File(c)}
  IN IF left = {} THEN Go(c, "good")
     ELSE call' = [call EXCEPT ![c] = [@ EXCEPT !.at = "clear",
                                                !.next = CHOOSE k \in left : \A l \in left : k <= l]]

\* The file is unpacked and its credentials, if it has any, are opened with the password
\* before anything is cleared.
Unpack(c) ==
  /\ At(c, "sent", "restore")
  /\ IF call[c].opens THEN Advance(c, 1) ELSE Answer(c, FALSE)
  /\ PageUnchanged /\ StoreUnchanged /\ UNCHANGED <<calm, starts>>

ClearNothing(c) ==  \* mutant: the old documents stay
  /\ At(c, "clear", "restore")
  /\ Go(c, "fill")
  /\ PageUnchanged /\ StoreUnchanged /\ UNCHANGED <<calm, starts>>

deleteMany(c) ==
  /\ At(c, "clear", "restore")
  /\ data' = [data EXCEPT ![Collections[call[c].next]] = {}]
  /\ Go(c, "fill")
  /\ PageUnchanged /\ UNCHANGED <<settings, users, others, calm, starts>>

insertMany(c) ==
  /\ At(c, "fill", "restore")
  /\ data' = [data EXCEPT ![Collections[call[c].next]] = @ \cup {"backup"}]
  /\ Advance(c, call[c].next + 1)
  /\ PageUnchanged /\ UNCHANGED <<settings, users, others, calm, starts>>

\* A request, its answer, or an await of the store fails.
Fails(c) ==
  /\ call[c].at \notin {"idle", "bad"}
  /\ IF call[c].req = "load"
     THEN \E w \in call[c].todo :
            call' = [call EXCEPT ![c] = [Bad(c) EXCEPT !.req = w, !.todo = call[c].todo \ {w}]]
     ELSE Answer(c, FALSE)
  /\ calm' = FALSE
  /\ PageUnchanged /\ StoreUnchanged /\ UNCHANGED starts

\* Another window saves settings or deletes a user.
OtherWindow ==
  /\ others < MaxOthers /\ others' = others + 1
  /\ \/ settings' = <<"other", 0>> /\ UNCHANGED users
     \/ \E u \in users : users' = users \ {u} /\ UNCHANGED settings
  /\ calm' = FALSE
  /\ PageUnchanged /\ UNCHANGED <<data, call, starts>>

-----------------------------------------------------------------------------
(* The page meets an answer *)

End(c) == call' = [call EXCEPT ![c] = Idle]

\* A saved form stays as it is; nothing is read again.
Saved(c) ==
  /\ call[c].at = "good" /\ call[c].req \in {"save", "export"}
  /\ busy' = busy \ {call[c].kind}
  /\ form' = IF call[c].req = "save" THEN [form EXCEPT !.typed = form.value # call[c].value] ELSE form
  /\ End(c)
  /\ StoreUnchanged /\ UNCHANGED <<shown, loading, loadFailed, calm, restored, starts>>

UserSaved(c) ==
  /\ call[c].at = "good" /\ call[c].req \in {"addUser", "deleteUser"}
  /\ call' = [call EXCEPT ![c] = Load(call[c].kind, {"users"})]
  /\ StoreUnchanged /\ PageUnchanged /\ UNCHANGED <<calm, starts>>

\* The button no longer waits; the settings and the users are read again, the types are not.
Restored(c) ==
  /\ At(c, "good", "restore")
  /\ restored' = File(c)
  /\ busy' = busy \ {"restore"}
  /\ call' = [call EXCEPT ![c] = Load("none", {"settings", "users"})]
  /\ StoreUnchanged /\ UNCHANGED <<form, shown, loading, loadFailed, calm, starts>>

\* What the user typed meanwhile is replaced.
fetchSettings(c) ==
  /\ At(c, "good", "settings")
  /\ form' = [value |-> call[c].value, typed |-> FALSE]
  /\ loading' = FALSE
  /\ call' = [call EXCEPT ![c] = Rest(c)]
  /\ StoreUnchanged /\ UNCHANGED <<shown, busy, loadFailed, calm, restored, starts>>

fetchUsers(c) ==
  /\ At(c, "good", "users")
  /\ shown' = call[c].list
  /\ busy' = busy \ {call[c].kind}
  /\ call' = [call EXCEPT ![c] = Rest(c)]
  /\ StoreUnchanged /\ UNCHANGED <<form, loading, loadFailed, calm, restored, starts>>

\* A toast.  Without an answer the form holds what it held, at first DEFAULT_SETTINGS.
Failed(c) ==
  /\ call[c].at = "bad"
  /\ loading' = IF call[c].req = "settings" THEN FALSE ELSE loading
  /\ loadFailed' = (loadFailed \/ call[c].req = "settings")
  /\ busy' = busy \ {call[c].kind}
  /\ call' = [call EXCEPT ![c] = Rest(c)]
  /\ StoreUnchanged /\ UNCHANGED <<form, shown, calm, restored, starts>>

-----------------------------------------------------------------------------
Init ==
  /\ settings = <<"first", 0>>
  /\ \E S \in SUBSET Users : users = S
  /\ data = [k \in Coll |-> {"instance"}]
  /\ form = [value |-> DEFAULT_SETTINGS, typed |-> FALSE]
  /\ shown = {} /\ loading = TRUE /\ busy = {}
  /\ \E m \in Calls : call = [c \in Calls |-> IF c = m THEN Load("none", {"settings", "users"}) ELSE Idle]
  /\ loadFailed = FALSE /\ calm = TRUE /\ restored = {}
  /\ starts = 0 /\ others = 0

Click(c) == \/ handleSaveSettings(c) \/ handleAddUser(c) \/ handleDeleteUser(c) \/ handleExport(c)
            \/ handleRestore(c)
Serve(c) == \/ updateSettings(c) \/ Read(c) \/ findByUsername(c) \/ createUser(c) \/ deleteUser(c)
            \/ export(c) \/ Unpack(c) \/ deleteMany(c) \/ insertMany(c) \/ Fails(c)
Meet(c) == \/ Saved(c) \/ UserSaved(c) \/ Restored(c) \/ fetchSettings(c) \/ fetchUsers(c) \/ Failed(c)

Next == \/ \E c \in Calls : Click(c) \/ Serve(c) \/ Meet(c)
        \/ Type \/ OtherWindow

Spec == Init /\ [][Next]_vars

-----------------------------------------------------------------------------
(* Properties *)

Values == {"first", "page", "other"} \X {0, 1}

\* Every variable holds a value of its kind, and a button waits only for its own handler.
SettingsPageTypeOK ==
  /\ settings \in Values /\ form \in [value : Values, typed : BOOLEAN]
  /\ users \subseteq Users /\ shown \subseteq Users /\ restored \subseteq Coll
  /\ data \in [Coll -> SUBSET Docs]
  /\ {loading, loadFailed, calm} \subseteq BOOLEAN
  /\ \A k \in busy : \E c \in Busy : call[c].kind = k
  /\ starts \in 0..MaxStarts /\ others \in 0..MaxOthers

\* The values the page starts with never reach the stored settings, unless the page could
\* not read these: every save sends all fields.
DefaultsStayOut == ~loadFailed => settings[1] # "page"

\* A page that has written alone, one handler at a time, none failed, shows the stored
\* users, as many as the API lists, and the settings but for what is typed over them.
SettingsShown ==
  calm /\ Busy = {} => IsPage(shown, users) /\ (form.typed \/ form.value = settings)

\* Whatever restores the page asks for, one at a time and none of them cut short, no
\* collection ends empty, one whose password opens no credentials included; and each
\* collection in the file of the last that went well holds the backup's documents alone.
RestoreExact ==
  calm /\ (\A c \in Busy : call[c].req # "restore") =>
    \A k \in Coll : data[k] # {} /\ (k \in restored => data[k] = {"backup"})

=============================================================================
