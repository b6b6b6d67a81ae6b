------------------------------- MODULE Session -------------------------------
(***************************************************************************)
(* The session of one user: refresh tokens the API rotates (AuthService),  *)
(* and a browser whose tabs share the refresh token in localStorage, keep  *)
(* an access token each, and refresh it when a request is answered 401     *)
(* (services/api.ts, AuthContext).  A slot of Calls is a request of a tab  *)
(* with the API's work on it; a page that unloads abandons its requests,   *)
(* which the API finishes.  Refresh token n is the n-th the API issued; of *)
(* an access token only whether there is one matters.                      *)
(***************************************************************************)
EXTENDS Naturals, FiniteSets

CONSTANTS Tabs, Calls,
          MaxTokens,  \* bound: pairs of tokens issued; then the store fails
          MaxLogins   \* bound: those issued to a login

ASSUME CallsFinite == IsFiniteSet(Calls) /\ Calls # {}
ASSUME BoundsNat == MaxTokens \in Nat /\ MaxLogins \in Nat
ASSUME NamesApart == "none" \notin Tabs /\ {"no", "done"} \cap Calls = {}

VARIABLES db,      \* the refresh tokens in the store
          parent,  \* of each pair issued, the refresh token it replaced (0: a login)
          local,   \* the refresh token in localStorage (0: none)
          tab,     \* of each tab: its access token, whether it has a user, and so on
          call,    \* where each request is
          gone,    \* refresh tokens lost to a logout, to time, to a fault or to an unload
          alone    \* a logout with no other request under way, then "done"

vars == <<db, parent, local, tab, call, gone, alone>>

Tokens == 1..MaxTokens
Issued == DOMAIN parent
NewToken == Cardinality(Issued) + 1

Idle == [at |-> "idle", kind |-> "api", tab |-> "none", tok |-> FALSE, old |-> 0,
         got |-> 0, again |-> FALSE]
At(c, at) == call[c].at = at
Go(c, at) == call' = [call EXCEPT ![c].at = at]
Busy == {c \in Calls : ~At(c, "idle")}

-----------------------------------------------------------------------------
(* A tab sends a request *)

Send(c, t, kind) ==
  /\ At(c, "idle")
  /\ call' = [call EXCEPT ![c] = [Idle EXCEPT !.at = "sent", !.kind = kind, !.tab = t,
                                              !.tok = tab[t].access]]

\* The pages behind AuthGuard call the API; the header logs out.
StartApi(c, t) ==
  /\ tab[t].user
  /\ Send(c, t, "api")
  /\ alone' = "no"
  /\ UNCHANGED <<db, parent, local, tab, gone>>

StartLogout(c, t) ==
  /\ tab[t].user
  /\ Send(c, t, "logout")
  /\ alone' = IF Busy = {} THEN c ELSE "no"
  /\ UNCHANGED <<db, parent, local, tab, gone>>

\* The form of the login page, whose button waits for its last attempt.
StartLogin(c, t) ==
  /\ ~tab[t].user /\ ~tab[t].loading /\ ~tab[t].leaving
  /\ Cardinality({n \in Issued : parent[n] = 0}) < MaxLogins
  /\ \A d \in Busy : ~(call[d].kind = "login" /\ call[d].tab = t)
  /\ Send(c, t, "login")
  /\ alone' = "no"
  /\ UNCHANGED <<db, parent, local, tab, gone>>

Fresh == [access |-> FALSE, user |-> FALSE, loading |-> FALSE, leaving |-> FALSE]

\* A page (re)loads: what it had under way is abandoned, and tryRestoreSession
\* trades the stored token, if there is one, for a new pair.
Load(t, c) ==
  /\ local # 0 => At(c, "idle")
  /\ tab' = [tab EXCEPT ![t] = [Fresh EXCEPT !.loading = local # 0]]
  /\ LET left == [d \in Calls |-> IF call[d].tab # t THEN call[d]
                                  ELSE [call[d] EXCEPT !.tab = "none", !.again = FALSE,
                                          !.kind = IF At(d, "sent") THEN @ ELSE "api"]]
     IN call' = IF local = 0 THEN left
                ELSE [left EXCEPT ![c] = [Idle EXCEPT !.at = "refresh", !.kind = "restore",
                                                      !.tab = t, !.old = local]]
  /\ alone' = IF alone = "done" /\ local = 0 THEN "done" ELSE "no"
  /\ UNCHANGED <<db, parent, local, gone>>

-----------------------------------------------------------------------------
(* The API *)

\* Only a token that localStorage holds, or may yet, is missed.
Lose(S) == gone' = (gone \cup S) \cap ({local} \cup {call[d].got : d \in Calls})

Issue(old) ==
  /\ NewToken \in Tokens
  /\ parent' = [n \in Issued \cup {NewToken} |-> IF n = NewToken THEN old ELSE parent[n]]
  /\ db' = db \cup {NewToken}

Reply(c, at) == call' = [call EXCEPT ![c] = [@ EXCEPT !.at = at, !.tok = FALSE]]
Accepted(c) == call[c].tok /\ Reply(c, "ok")
Rejected(c) == Reply(c, "401")

\* JwtAuthGuard: any request may find its access token expired, or have none.
ServeApi(c) ==
  /\ At(c, "sent") /\ call[c].kind = "api"
  /\ Accepted(c) \/ Rejected(c)
  /\ UNCHANGED <<db, parent, local, tab, gone, alone>>

ServeLogoutOne(c) ==  \* mutant: forgets the token in use only
  /\ At(c, "sent") /\ call[c].kind = "logout"
  /\ \/ Accepted(c) /\ db' = db \ {local}
     \/ Rejected(c) /\ db' = db
  /\ Lose(db \ db')
  /\ UNCHANGED <<parent, local, tab, alone>>

\* deleteMany of the user's tokens.
ServeLogout(c) ==
  /\ At(c, "sent") /\ call[c].kind = "logout"
  /\ \/ Accepted(c) /\ db' = {}
     \/ Rejected(c) /\ db' = db
  /\ Lose(db \ db')
  /\ UNCHANGED <<parent, local, tab, alone>>

ServeLogin(c) ==
  /\ At(c, "sent") /\ call[c].kind = "login"
  /\ \/ /\ Issue(0)
        /\ call' = [call EXCEPT ![c] = [@ EXCEPT !.at = "ok", !.tok = FALSE, !.got = NewToken]]
     \/ /\ Rejected(c)  \* a wrong password
        /\ UNCHANGED <<db, parent>>
  /\ UNCHANGED <<local, tab, gone, alone>>

Refuse(c) == call' = [call EXCEPT ![c] = [@ EXCEPT !.at = "refused", !.old = 0]]

\* AuthService.refresh: three awaits.
FindToken(c) ==
  /\ At(c, "refresh")
  /\ IF call[c].old \in db THEN Go(c, "found") ELSE Refuse(c)
  /\ UNCHANGED <<db, parent, local, tab, gone, alone>>

DeleteTokenNever(c) ==  \* mutant: the old token stays
  /\ At(c, "found")
  /\ Go(c, "deleted")
  /\ UNCHANGED <<db, parent, local, tab, gone, alone>>

DeleteToken(c) ==
  /\ At(c, "found")
  /\ db' = db \ {call[c].old}
  /\ Go(c, "deleted")
  /\ UNCHANGED <<parent, local, tab, gone, alone>>

CreateToken(c) ==
  /\ At(c, "deleted")
  /\ Issue(call[c].old)
  /\ call' = [call EXCEPT ![c] = [@ EXCEPT !.at = "refreshed", !.got = NewToken]]
  /\ UNCHANGED <<local, tab, gone, alone>>

\* The network or the store fails: the request throws or is answered 500.  (A page's
\* request or a login that fails has no other effect than one answered.)
Fails(c) ==
  /\ \/ At(c, "sent") /\ call[c].kind = "logout" /\ Go(c, "error")
     \/ call[c].at \in {"refresh", "found", "deleted"} /\ Refuse(c)
  /\ Lose(IF At(c, "deleted") THEN {call[c].old} ELSE {})
  /\ UNCHANGED <<db, parent, local, tab, alone>>

\* The TTL index removes the token, or refresh finds it past expiresAt: of the token in use only.
RefreshExpires(n) ==
  /\ n \in db /\ n = local
  /\ db' = db \ {n}
  /\ Lose({n})
  /\ UNCHANGED <<parent, local, tab, call, alone>>

-----------------------------------------------------------------------------
(* A tab meets an answer *)

Mine(c, at) == At(c, at) /\ call[c].tab \in Tabs
Tab(c) == tab[call[c].tab]
End(c) == call' = [call EXCEPT ![c] = Idle]
SetTab(c, r) == tab' = [tab EXCEPT ![call[c].tab] = r]

\* A logout clears the browser whatever its answer; the user only when it is good.
Answered(c) ==
  /\ Mine(c, "ok")
  /\ End(c)
  /\ CASE call[c].kind = "api" -> UNCHANGED <<local, tab>>
       [] call[c].kind = "login" ->
            /\ SetTab(c, [Tab(c) EXCEPT !.access = TRUE, !.user = TRUE])
            /\ local' = call[c].got
       [] call[c].kind = "logout" ->
            /\ SetTab(c, [Tab(c) EXCEPT !.access = FALSE, !.user = FALSE])
            /\ local' = 0
  /\ alone' = IF alone = c THEN "done" ELSE alone
  /\ UNCHANGED <<db, parent, gone>>

\* forceLogout: the browser goes to /login and forgets both tokens.
ForceLogout(c) ==
  /\ SetTab(c, [Tab(c) EXCEPT !.access = FALSE, !.leaving = TRUE])
  /\ local' = 0

Throws(c) ==
  /\ End(c)
  /\ IF call[c].kind = "logout"
     THEN SetTab(c, [Tab(c) EXCEPT !.access = FALSE]) /\ local' = 0
     ELSE UNCHANGED <<local, tab>>

Failed(c) ==
  /\ Mine(c, "error")
  /\ Throws(c)
  /\ UNCHANGED <<db, parent, gone, alone>>

\* 401: refresh once, with the token localStorage holds now.
Unauthorized(c) ==
  /\ Mine(c, "401")
  /\ IF ~Tab(c).access /\ ~call[c].again THEN Throws(c)
     ELSE IF local = 0 \/ call[c].again THEN End(c) /\ ForceLogout(c)
     ELSE /\ call' = [call EXCEPT ![c] = [@ EXCEPT !.at = "refresh", !.old = local]]
          /\ UNCHANGED <<local, tab>>
  /\ UNCHANGED <<db, parent, gone, alone>>

RefusedSpins(c) ==  \* mutant: only a restored session stops the spinner
  /\ Mine(c, "refused")
  /\ End(c)
  /\ IF call[c].kind = "restore" THEN local' = 0 /\ tab' = tab ELSE ForceLogout(c)
  /\ UNCHANGED <<db, parent, gone, alone>>

RefreshedUnsaved(c) ==  \* mutant: the new refresh token is not stored
  /\ Mine(c, "refreshed")
  /\ SetTab(c, [Tab(c) EXCEPT !.access = TRUE])
  /\ call' = [call EXCEPT ![c] = [@ EXCEPT !.at = "sent", !.tok = TRUE, !.old = 0,
                                           !.got = 0, !.again = TRUE]]
  /\ UNCHANGED <<db, parent, local, gone, alone>>

\* The new pair is kept and the request sent again, or the session restored.
Refreshed(c) ==
  /\ Mine(c, "refreshed")
  /\ local' = call[c].got
  /\ IF call[c].kind = "restore"
     THEN /\ SetTab(c, [Tab(c) EXCEPT !.access = TRUE, !.user = TRUE, !.loading = FALSE])
          /\ End(c)
     ELSE /\ SetTab(c, [Tab(c) EXCEPT !.access = TRUE])
          /\ call' = [call EXCEPT ![c] = [@ EXCEPT !.at = "sent", !.tok = TRUE, !.old = 0,
                                                   !.got = 0, !.again = TRUE]]
  /\ UNCHANGED <<db, parent, gone, alone>>

Refused(c) ==
  /\ Mine(c, "refused")
  /\ End(c)
  /\ IF call[c].kind = "restore"
     THEN SetTab(c, [Tab(c) EXCEPT !.loading = FALSE]) /\ local' = 0
     ELSE ForceLogout(c)
  /\ UNCHANGED <<db, parent, gone, alone>>

\* Nobody waits for the answer.
Dropped(c) ==
  /\ call[c].tab = "none"
  /\ call[c].at \in {"ok", "401", "error", "refreshed", "refused"}
  /\ Lose({call[c].old} \ {0})
  /\ End(c)
  /\ UNCHANGED <<db, parent, local, tab, alone>>

-----------------------------------------------------------------------------
Init ==
  /\ db = {} /\ gone = {}
  /\ parent = << >>
  /\ local = 0
  /\ tab = [t \in Tabs |-> Fresh]
  /\ call = [c \in Calls |-> Idle]
  /\ alone = "no"

Serve(c) == \/ ServeApi(c) \/ ServeLogout(c) \/ ServeLogin(c)
            \/ FindToken(c) \/ DeleteToken(c) \/ CreateToken(c)

Receive(c) == \/ Answered(c) \/ Failed(c) \/ Unauthorized(c)
              \/ Refreshed(c) \/ Refused(c) \/ Dropped(c)

Next ==
  \/ \E c \in Calls, t \in Tabs : StartApi(c, t) \/ StartLogout(c, t) \/ StartLogin(c, t) \/ Load(t, c)
  \/ \E c \in Calls : Serve(c) \/ Fails(c) \/ Receive(c)
  \/ \E n \in Tokens : RefreshExpires(n)

Spec == Init /\ [][Next]_vars

-----------------------------------------------------------------------------
(* Properties *)

TokenOrNone == 0..MaxTokens
CallStates == [at : {"idle", "sent", "ok", "401", "error", "refresh", "found", "deleted",
                     "refreshed", "refused"},
               kind : {"api", "logout", "login", "restore"}, tab : Tabs \cup {"none"},
               tok : BOOLEAN, old : TokenOrNone, got : TokenOrNone,
               again : BOOLEAN]
TabStates == [access : BOOLEAN, user : BOOLEAN, loading : BOOLEAN, leaving : BOOLEAN]

\* Every variable holds a value of its kind.
SessionTypeOK ==
  /\ \E k \in TokenOrNone : parent \in [1..k -> TokenOrNone]
  /\ db \subseteq Issued /\ gone \subseteq TokenOrNone
  /\ local \in TokenOrNone
  /\ tab \in [Tabs -> TabStates]
  /\ call \in [Calls -> CallStates]
  /\ alone \in Calls \cup {"no", "done"}

\* Two refreshes with one token may both find it before either deletes it, so a
\* token can have several successors, but never more than there were requests under
\* way, and once it has one it is out of the store for good.
SuccessorBound ==
  \A n \in Issued :
    LET successors == {m \in Issued : parent[m] = n}
    IN Cardinality(successors) <= Cardinality(Calls) /\ (successors # {} => n \notin db)

\* The token in localStorage is one the API accepts, unless a logout, its age, a
\* fault or an unloaded page took it, or a refresh under way is replacing it: however
\* requests and tabs overlap, no answer puts a token there that another has used up.
TokenKept ==
  \/ local \in {0} \cup db \cup gone
  \/ \E c \in Calls : call[c].at \in {"deleted", "refreshed"} /\ call[c].old = local

\* A logout that went well with no other request under way leaves nothing to come
\* back with: no token in the store, none in the browser.
QuietLogout == alone = "done" => db = {} /\ local = 0

\* A page spins only while a request that will stop the spinner is under way.
SpinnerWaits ==
  \A t \in Tabs : tab[t].loading =>
    \E c \in Calls : call[c].kind = "restore" /\ call[c].tab = t /\ ~At(c, "idle")

=============================================================================
