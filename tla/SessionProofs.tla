---------------------------- MODULE SessionProofs ----------------------------
(***************************************************************************)
(* What holds of a session for any number of tabs, requests and tokens.    *)
(***************************************************************************)
EXTENDS Session, FiniteSetTheorems, TLAPS

-----------------------------------------------------------------------------
(* What each step does to the requests, field by field. *)

CallsTyped == call \in [Calls -> CallStates]

\* The other requests, and of this one all but where it is, stay.
Others(c) == \A d \in Calls \ {c} : call'[d] = call[d]
SameOwner(c) == call'[c].kind = call[c].kind /\ call'[c].tab = call[c].tab
Keeps(c) == SameOwner(c) /\ call'[c].old = call[c].old /\ call'[c].got = call[c].got
Moves(c, from, to) == call[c].at \in from /\ call'[c].at \in to

Starting(c, t, kind) ==
  /\ Others(c) /\ Moves(c, {"idle"}, {"sent"})
  /\ call'[c].kind = kind /\ call'[c].tab = t /\ call'[c].old = 0 /\ call'[c].got = 0

Abandoning(d, t) ==
  /\ call'[d].at = call[d].at /\ call'[d].old = call[d].old /\ call'[d].got = call[d].got
  /\ IF call[d].tab # t THEN SameOwner(d)
     ELSE call'[d].tab = "none" /\ call'[d].kind = IF At(d, "sent") THEN call[d].kind ELSE "api"

Restores(c, t) ==
  /\ Moves(c, {"idle"}, {"refresh"})
  /\ call'[c].kind = "restore" /\ call'[c].tab = t /\ call'[c].old = local /\ call'[c].got = 0

Refusing(c, from) ==
  Others(c) /\ SameOwner(c) /\ call'[c].got = call[c].got /\ Moves(c, from, {"refused"}) /\ call'[c].old = 0

Ending(c) ==
  /\ Others(c) /\ Moves(c, {"ok", "401", "error", "refreshed", "refused"}, {"idle"})
  /\ call'[c].kind = "api" /\ call'[c].tab = "none" /\ call'[c].old = 0 /\ call'[c].got = 0

Resending(c) ==
  /\ Others(c) /\ SameOwner(c) /\ Moves(c, {"refreshed"}, {"sent"}) /\ call[c].kind # "restore"
  /\ call'[c].old = 0 /\ call'[c].got = 0

Refreshing(c) ==
  /\ Others(c) /\ SameOwner(c) /\ Moves(c, {"401"}, {"refresh"})
  /\ call'[c].old = local /\ call'[c].got = call[c].got

LEMMA StartEffect ==
  ASSUME CallsTyped, NEW c \in Calls, NEW t, NEW kind, Send(c, t, kind)
  PROVE  Starting(c, t, kind)
BY DEF Others, Send, Starting, Moves, At, Idle, CallsTyped

LEMMA LoadEffect ==
  ASSUME CallsTyped, NEW c \in Calls, NEW t \in Tabs, Load(t, c)
  PROVE  /\ local # 0 => Restores(c, t)
         /\ \A d \in Calls : d # c \/ local = 0 => Abandoning(d, t)
<1> DEFINE left == [d \in Calls |-> IF call[d].tab # t THEN call[d]
                        ELSE [call[d] EXCEPT !.tab = "none", !.again = FALSE,
                                !.kind = IF At(d, "sent") THEN @ ELSE "api"]]
           r == [Idle EXCEPT !.at = "refresh", !.kind = "restore", !.tab = t, !.old = local]
<1>1. \A d \in Calls :
        /\ left[d].at = call[d].at /\ left[d].old = call[d].old /\ left[d].got = call[d].got
        /\ IF call[d].tab # t THEN left[d].kind = call[d].kind /\ left[d].tab = call[d].tab
           ELSE left[d].tab = "none" /\ left[d].kind = IF At(d, "sent") THEN call[d].kind ELSE "api"
  BY DEF CallsTyped, CallStates
<1>2. call' = IF local = 0 THEN left ELSE [left EXCEPT ![c] = r]
  BY DEF Load
<1>3. r.at = "refresh" /\ r.kind = "restore" /\ r.tab = t /\ r.old = local /\ r.got = 0
  BY DEF Idle
<1>4. local # 0 => At(c, "idle")
  BY DEF Load
<1>5. DOMAIN left = Calls
  OBVIOUS
<1> HIDE DEF left, r
<1>6. local # 0 => call'[c] = r
  BY <1>2, <1>5
<1>7. \A d \in Calls : d # c \/ local = 0 => call'[d] = left[d]
  BY <1>2, <1>5
<1>8. local # 0 => Restores(c, t)
  BY <1>3, <1>4, <1>6 DEF Restores, Moves, At
<1>9. ASSUME NEW d \in Calls, d # c \/ local = 0 PROVE Abandoning(d, t)
  BY <1>1, <1>7, <1>9 DEF Abandoning, SameOwner
<1> QED
  BY <1>8, <1>9

LEMMA AccessEffect ==
  ASSUME CallsTyped, NEW c \in Calls, ServeApi(c) \/ ServeLogout(c)
  PROVE  Others(c) /\ Keeps(c) /\ Moves(c, {"sent"}, {"ok", "401"})
<1>1. PICK at \in {"ok", "401"} : call' = [call EXCEPT ![c] = [@ EXCEPT !.at = at, !.tok = FALSE]]
  BY DEF ServeApi, ServeLogout, Accepted, Rejected, Reply
<1> QED
  BY <1>1 DEF Others, ServeApi, ServeLogout, At, CallsTyped, CallStates, Keeps, SameOwner, Moves

LEMMA LoginEffect ==
  ASSUME CallsTyped, NEW c \in Calls, ServeLogin(c)
  PROVE  /\ Others(c) /\ SameOwner(c) /\ call'[c].old = call[c].old
         /\ \/ Issue(0) /\ Moves(c, {"sent"}, {"ok"}) /\ call'[c].got = NewToken
            \/ /\ UNCHANGED <<db, parent>> /\ Moves(c, {"sent"}, {"401"}) /\ call'[c].got = call[c].got
<1>1. CASE Issue(0) /\ call' = [call EXCEPT ![c] = [@ EXCEPT !.at = "ok", !.tok = FALSE, !.got = NewToken]]
  BY <1>1 DEF Others, ServeLogin, At, CallsTyped, CallStates, SameOwner, Moves
<1>2. CASE Rejected(c) /\ UNCHANGED <<db, parent>>
  BY <1>2 DEF Others, ServeLogin, Rejected, Reply, At, CallsTyped, CallStates, SameOwner, Moves
<1> QED
  BY <1>1, <1>2 DEF ServeLogin

LEMMA FindEffect ==
  ASSUME CallsTyped, NEW c \in Calls, FindToken(c)
  PROVE  \/ Others(c) /\ Keeps(c) /\ Moves(c, {"refresh"}, {"found"}) /\ call[c].old \in db
         \/ Refusing(c, {"refresh"})
BY DEF Others, FindToken, Go, Refuse, At, CallsTyped, CallStates, Keeps, SameOwner, Moves, Refusing

LEMMA DeleteEffect ==
  ASSUME CallsTyped, NEW c \in Calls, DeleteToken(c)
  PROVE  Others(c) /\ Keeps(c) /\ Moves(c, {"found"}, {"deleted"})
BY DEF Others, DeleteToken, Go, At, CallsTyped, CallStates, Keeps, SameOwner, Moves

LEMMA CreateEffect ==
  ASSUME CallsTyped, NEW c \in Calls, CreateToken(c)
  PROVE  /\ Others(c) /\ SameOwner(c) /\ Moves(c, {"deleted"}, {"refreshed"})
         /\ call'[c].old = call[c].old /\ call'[c].got = NewToken
BY DEF Others, CreateToken, At, CallsTyped, CallStates, SameOwner, Moves

LEMMA FailsEffect ==
  ASSUME CallsTyped, NEW c \in Calls, Fails(c)
  PROVE  \/ Others(c) /\ Keeps(c) /\ Moves(c, {"sent"}, {"error"}) /\ call[c].kind = "logout"
         \/ Refusing(c, {"refresh", "found", "deleted"})
BY DEF Others, Fails, Go, Refuse, At, CallsTyped, CallStates, Keeps, SameOwner, Moves, Refusing

\* An answer ends the request, sends it again, or has it refresh.
LEMMA EndEffect ==
  ASSUME CallsTyped, NEW c \in Calls, End(c),
         call[c].at \in {"ok", "401", "error", "refreshed", "refused"}
  PROVE  Ending(c)
BY DEF Others, End, Ending, Moves, Idle, CallsTyped

LEMMA ReceiveEffect ==
  ASSUME CallsTyped, NEW c \in Calls, Receive(c)
  PROVE  \/ Ending(c)
         \/ Refreshed(c) /\ Resending(c)
         \/ Unauthorized(c) /\ Refreshing(c) /\ local' = local
<1>1. CASE Answered(c) \/ Failed(c) \/ Refused(c) \/ Dropped(c)
  BY <1>1, EndEffect DEF Answered, Failed, Refused, Dropped, Throws, Mine, At
<1>2. CASE Unauthorized(c)
  <2>1. \/ End(c)
        \/ call' = [call EXCEPT ![c] = [@ EXCEPT !.at = "refresh", !.old = local]] /\ local' = local
    BY <1>2, Zenon DEF Unauthorized, Throws
  <2>2. CASE End(c)
    BY <1>2, <2>2, EndEffect DEF Unauthorized, Mine, At
  <2>3. CASE call' = [call EXCEPT ![c] = [@ EXCEPT !.at = "refresh", !.old = local]] /\ local' = local
    BY <1>2, <2>3 DEF Others, Unauthorized, Mine, At, CallsTyped, CallStates, SameOwner, Moves, Refreshing
  <2> QED
    BY <2>1, <2>2, <2>3
<1>3. CASE Refreshed(c)
  <2>1. CASE call[c].kind = "restore"
    BY <1>3, <2>1, EndEffect DEF Refreshed, Mine, At
  <2>2. CASE call[c].kind # "restore"
    <3> DEFINE r == [call[c] EXCEPT !.at = "sent", !.tok = TRUE, !.old = 0, !.got = 0, !.again = TRUE]
    <3>1. call[c].at = "refreshed" /\ call' = [call EXCEPT ![c] = r]
      BY <1>3, <2>2 DEF Refreshed, Mine, At
    <3>2. r.at = "sent" /\ r.old = 0 /\ r.got = 0 /\ r.kind = call[c].kind /\ r.tab = call[c].tab
      BY DEF CallsTyped, CallStates
    <3> HIDE DEF r
    <3>3. call'[c] = r /\ Others(c)
      BY <3>1 DEF CallsTyped, Others
    <3>4. Resending(c)
      BY <2>2, <3>1, <3>2, <3>3 DEF SameOwner, Moves, Resending
    <3> QED
      BY <1>3, <3>4
  <2> QED
    BY <2>1, <2>2
<1> QED
  BY <1>1, <1>2, <1>3 DEF Receive

-----------------------------------------------------------------------------
(* Types: every token named anywhere is one the API has issued. *)

IssuedOrNone == Issued \cup {0}

Known ==
  /\ local \in IssuedOrNone
  /\ \A c \in Calls : call[c].old \in IssuedOrNone /\ call[c].got \in IssuedOrNone
  /\ \A n \in Issued : parent[n] \in IssuedOrNone

Typed == SessionTypeOK /\ Known

\* A restored session is never a request that is sent, or answered, itself.
Restoring ==
  \A c \in Calls : call[c].kind = "restore" =>
    call[c].at \in {"idle", "refresh", "found", "deleted", "refreshed", "refused"}

\* The tokens are numbered as they are issued.
LEMMA IssuedInterval ==
  ASSUME SessionTypeOK
  PROVE  /\ \E k \in TokenOrNone : Issued = 1..k /\ NewToken = k + 1
         /\ IsFiniteSet(Issued) /\ NewToken \in Nat \ {0} /\ NewToken \notin Issued
<1>1. PICK k \in TokenOrNone : parent \in [1..k -> TokenOrNone]
  BY DEF SessionTypeOK
<1>2. Issued = 1..k /\ k \in Nat
  BY <1>1, BoundsNat DEF Issued, TokenOrNone
<1>3. IsFiniteSet(1..k) /\ Cardinality(1..k) = k
  BY <1>2, FS_Interval
<1> QED
  BY <1>2, <1>3 DEF NewToken

\* A pair that is issued extends the numbering by one.
LEMMA IssueTyped ==
  ASSUME Typed, NEW old \in IssuedOrNone, Issue(old)
  PROVE  /\ Issued' = Issued \cup {NewToken} /\ NewToken \in Issued' /\ NewToken \in TokenOrNone
         /\ IssuedOrNone \subseteq IssuedOrNone'
         /\ (\E k \in TokenOrNone : parent \in [1..k -> TokenOrNone])'
         /\ (\A n \in Issued : parent[n] \in IssuedOrNone)'
         /\ (db \subseteq Issued)'
<1>1. PICK k \in TokenOrNone : Issued = 1..k /\ NewToken = k + 1
  BY IssuedInterval DEF Typed
<1>2. k + 1 \in TokenOrNone /\ k \in Nat
  BY <1>1, BoundsNat DEF Issue, Tokens, TokenOrNone
<1>3. Issued \cup {NewToken} = 1..(k + 1)
  BY <1>1, <1>2
<1>4. parent' = [n \in 1..(k + 1) |-> IF n = k + 1 THEN old ELSE parent[n]]
  BY <1>1, <1>3 DEF Issue
<1>5. Issued' = 1..(k + 1)
  BY <1>4 DEF Issued
<1>6. \A n \in 1..k : parent[n] \in IssuedOrNone
  BY <1>1 DEF Typed, Known
<1>7. IssuedOrNone \subseteq TokenOrNone
  BY <1>1, <1>2, BoundsNat DEF IssuedOrNone, TokenOrNone
<1>8. \A n \in 1..(k + 1) : parent'[n] \in IssuedOrNone
  BY <1>1, <1>2, <1>4, <1>6
<1>9. parent' \in [1..(k + 1) -> TokenOrNone]
  BY <1>4, <1>7, <1>8
<1>10. IssuedOrNone \subseteq IssuedOrNone'
  BY <1>3, <1>5 DEF IssuedOrNone
<1>11. db' \subseteq Issued'
  BY <1>3, <1>5 DEF Issue, Typed, SessionTypeOK
<1> QED
  BY <1>1, <1>2, <1>3, <1>5, <1>8, <1>9, <1>10, <1>11

LEMMA InitTyped == Init => Typed
<1> SUFFICES ASSUME Init PROVE Typed
  OBVIOUS
<1>1. Issued = {} /\ parent \in [1..0 -> TokenOrNone]
  BY DEF Init, Issued
<1>2. 0 \in TokenOrNone
  BY BoundsNat DEF TokenOrNone
<1>3. Idle \in CallStates /\ Fresh \in TabStates
  BY <1>2 DEF Idle, CallStates, Fresh, TabStates
<1>4. SessionTypeOK
  BY <1>1, <1>2, <1>3 DEF Init, SessionTypeOK
<1>5. Known
  BY <1>1 DEF Init, Known, IssuedOrNone, Idle
<1> QED
  BY <1>4, <1>5 DEF Typed

LEMMA IssuedAreTokens ==
  ASSUME SessionTypeOK
  PROVE  IssuedOrNone \subseteq TokenOrNone /\ 0 \in IssuedOrNone
<1>1. PICK k \in TokenOrNone : Issued = 1..k
  BY IssuedInterval
<1> QED
  BY <1>1, BoundsNat DEF IssuedOrNone, TokenOrNone

\* A step that issues nothing keeps the types if each variable keeps its own.
LEMMA SameTyped ==
  ASSUME Typed, UNCHANGED parent, db' \subseteq Issued, gone' \subseteq TokenOrNone,
         local' \in IssuedOrNone, tab' \in [Tabs -> TabStates], call' \in [Calls -> CallStates],
         \A c \in Calls : call'[c].old \in IssuedOrNone /\ call'[c].got \in IssuedOrNone,
         alone' \in Calls \cup {"no", "done"}
  PROVE  Typed'
<1>1. Issued' = Issued /\ IssuedOrNone' = IssuedOrNone
  BY DEF Issued, IssuedOrNone
<1>2. SessionTypeOK'
  BY <1>1, IssuedAreTokens DEF Typed, SessionTypeOK
<1>3. Known'
  BY <1>1 DEF Typed, Known
<1> QED
  BY <1>2, <1>3 DEF Typed

\* What is lost is a token.
LEMMA LoseTyped ==
  ASSUME Typed, NEW S \in SUBSET IssuedOrNone, Lose(S)
  PROVE  gone' \subseteq TokenOrNone
BY IssuedAreTokens DEF Typed, SessionTypeOK, Lose

-----------------------------------------------------------------------------
(* Every step keeps the types: one lemma for the steps of a tab, one for those of the *)
(* API, and one for the answers.                                                      *)

Starts == \E c \in Calls, t \in Tabs : StartApi(c, t) \/ StartLogout(c, t) \/ StartLogin(c, t) \/ Load(t, c)
Serves == \E c \in Calls : Serve(c) \/ Fails(c)
Receives == \E c \in Calls : Receive(c)
Expires == \E n \in Tokens : RefreshExpires(n)

LEMMA NextParts == Next <=> Starts \/ Serves \/ Receives \/ Expires
BY DEF Next, Starts, Serves, Receives, Expires

LEMMA SendTyped ==
  ASSUME Typed, NEW c \in Calls, NEW t \in Tabs, NEW kind \in {"api", "logout", "login"},
         Send(c, t, kind)
  PROVE  /\ call' \in [Calls -> CallStates]
         /\ \A d \in Calls : call'[d].old \in IssuedOrNone /\ call'[d].got \in IssuedOrNone
<1>1. 0 \in IssuedOrNone /\ 0 \in TokenOrNone
  BY IssuedAreTokens DEF Typed
<1>2. tab[t].access \in BOOLEAN
  BY DEF Typed, SessionTypeOK, TabStates
<1> DEFINE r == [Idle EXCEPT !.at = "sent", !.kind = kind, !.tab = t, !.tok = tab[t].access]
<1>3. r \in CallStates /\ r.old = 0 /\ r.got = 0
  BY <1>1, <1>2 DEF Idle, CallStates
<1>4. call' = [call EXCEPT ![c] = r]
  BY DEF Send
<1> QED
  BY <1>1, <1>3, <1>4 DEF Typed, SessionTypeOK, Known

LEMMA StartsTyped ==
  ASSUME Typed, Starts
  PROVE  Typed'
<1> USE DEF Typed, SessionTypeOK, Known
<1>1. PICK c \in Calls, t \in Tabs : StartApi(c, t) \/ StartLogout(c, t) \/ StartLogin(c, t) \/ Load(t, c)
  BY DEF Starts
<1>2. CASE StartApi(c, t)
  BY <1>2, SendTyped, SameTyped DEF StartApi
<1>3. CASE StartLogout(c, t)
  BY <1>3, SendTyped, SameTyped DEF StartLogout
<1>4. CASE StartLogin(c, t)
  BY <1>4, SendTyped, SameTyped DEF StartLogin
<1>5. CASE Load(t, c)
  <2> DEFINE left == [d \in Calls |-> IF call[d].tab # t THEN call[d]
                          ELSE [call[d] EXCEPT !.tab = "none", !.again = FALSE,
                                  !.kind = IF At(d, "sent") THEN @ ELSE "api"]]
             r == [Idle EXCEPT !.at = "refresh", !.kind = "restore", !.tab = t, !.old = local]
  <2>1. 0 \in IssuedOrNone /\ 0 \in TokenOrNone /\ local \in TokenOrNone
    BY IssuedAreTokens
  <2>2. left \in [Calls -> CallStates]
    BY DEF CallStates
  <2>3. \A d \in Calls : left[d].old \in IssuedOrNone /\ left[d].got \in IssuedOrNone
    BY DEF CallStates
  <2>4. r \in CallStates /\ r.old = local /\ r.got = 0
    BY <2>1 DEF Idle, CallStates
  <2>5. call' = left \/ call' = [left EXCEPT ![c] = r]
    BY <1>5 DEF Load
  <2>6. /\ call' \in [Calls -> CallStates]
        /\ \A d \in Calls : call'[d].old \in IssuedOrNone /\ call'[d].got \in IssuedOrNone
    <3> HIDE DEF left, r
    <3> QED
      BY <2>1, <2>2, <2>3, <2>4, <2>5
  <2>7. tab' \in [Tabs -> TabStates]
    BY <1>5 DEF Load, Fresh, TabStates
  <2> QED
    BY <1>5, <2>6, <2>7, SameTyped DEF Load
<1> QED
  BY <1>1, <1>2, <1>3, <1>4, <1>5

\* The requests keep their types if one of them is given a value of the type.
LEMMA OneCallTyped ==
  ASSUME Typed, NEW c \in Calls, NEW r \in CallStates, r.old \in IssuedOrNone, r.got \in IssuedOrNone,
         call' = [call EXCEPT ![c] = r]
  PROVE  /\ call' \in [Calls -> CallStates]
         /\ \A d \in Calls : call'[d].old \in IssuedOrNone /\ call'[d].got \in IssuedOrNone
BY DEF Typed, SessionTypeOK, Known

LEMMA ServesTyped ==
  ASSUME Typed, Serves
  PROVE  Typed'
<1> USE DEF Typed, SessionTypeOK, Known
<1>1. PICK c \in Calls : Serve(c) \/ Fails(c)
  BY DEF Serves
<1>2. /\ call[c] \in CallStates /\ call[c].old \in IssuedOrNone /\ call[c].got \in IssuedOrNone
      /\ 0 \in IssuedOrNone /\ IssuedOrNone \subseteq TokenOrNone
  BY IssuedAreTokens
<1>3. CASE ServeApi(c) \/ ServeLogout(c)
  <2>1. PICK at \in {"ok", "401"} : call' = [call EXCEPT ![c] = [@ EXCEPT !.at = at, !.tok = FALSE]]
    BY <1>3 DEF ServeApi, ServeLogout, Accepted, Rejected, Reply
  <2>2. [call[c] EXCEPT !.at = at, !.tok = FALSE] \in CallStates
    BY <1>2 DEF CallStates
  <2>3. db' \subseteq Issued /\ gone' \subseteq TokenOrNone
    BY <1>2, <1>3 DEF ServeApi, ServeLogout, Lose, IssuedOrNone
  <2>4. /\ call' \in [Calls -> CallStates]
        /\ \A d \in Calls : call'[d].old \in IssuedOrNone /\ call'[d].got \in IssuedOrNone
    BY <1>2, <2>1, <2>2, OneCallTyped DEF CallStates
  <2> QED
    BY <1>3, <2>3, <2>4, SameTyped DEF ServeApi, ServeLogout
<1>4. CASE ServeLogin(c)
  <2> DEFINE r == [call[c] EXCEPT !.at = "ok", !.tok = FALSE, !.got = NewToken]
  <2>1. CASE Issue(0) /\ call' = [call EXCEPT ![c] = r]
    <3>1. /\ Issued' = Issued \cup {NewToken} /\ NewToken \in Issued' /\ NewToken \in TokenOrNone
          /\ IssuedOrNone \subseteq IssuedOrNone'
          /\ (\E k \in TokenOrNone : parent \in [1..k -> TokenOrNone])'
          /\ (\A n \in Issued : parent[n] \in IssuedOrNone)'
          /\ (db \subseteq Issued)'
      BY <1>2, <2>1, IssueTyped
    <3>2. r \in CallStates /\ r.old = call[c].old /\ r.got = NewToken
      BY <1>2, <3>1 DEF CallStates
    <3>3. NewToken \in IssuedOrNone'
      BY <3>1 DEF IssuedOrNone
    <3> HIDE DEF r
    <3>4. /\ call' \in [Calls -> CallStates]
          /\ \A d \in Calls : call'[d].old \in IssuedOrNone' /\ call'[d].got \in IssuedOrNone'
      BY <1>2, <2>1, <3>1, <3>2, <3>3
    <3> QED
      BY <1>4, <3>1, <3>4 DEF ServeLogin
  <2>2. CASE Rejected(c) /\ UNCHANGED <<db, parent>>
    <3>1. [call[c] EXCEPT !.at = "401", !.tok = FALSE] \in CallStates
      BY <1>2 DEF CallStates
    <3>2. /\ call' \in [Calls -> CallStates]
          /\ \A d \in Calls : call'[d].old \in IssuedOrNone /\ call'[d].got \in IssuedOrNone
      BY <1>2, <2>2, <3>1, OneCallTyped DEF CallStates, Rejected, Reply
    <3> QED
      BY <1>4, <2>2, <3>2, SameTyped DEF ServeLogin
  <2> QED
    BY <1>4, <2>1, <2>2 DEF ServeLogin
<1>5. CASE FindToken(c) \/ DeleteToken(c)
  <2> DEFINE moved(at) == [call[c] EXCEPT !.at = at]
             refused == [call[c] EXCEPT !.at = "refused", !.old = 0]
  <2>1. \/ call' = [call EXCEPT ![c] = moved("found")]
        \/ call' = [call EXCEPT ![c] = moved("deleted")]
        \/ call' = [call EXCEPT ![c] = refused]
    BY <1>5 DEF FindToken, DeleteToken, Go, Refuse
  <2>2. /\ \A r \in {moved("found"), moved("deleted"), refused} :
             r \in CallStates /\ r.old \in IssuedOrNone /\ r.got \in IssuedOrNone
    BY <1>2 DEF CallStates
  <2>4. /\ call' \in [Calls -> CallStates]
        /\ \A d \in Calls : call'[d].old \in IssuedOrNone /\ call'[d].got \in IssuedOrNone
    <3> HIDE DEF moved, refused
    <3> QED
      BY <2>1, <2>2, OneCallTyped
  <2> QED
    BY <1>5, <2>4, SameTyped DEF FindToken, DeleteToken
<1>6. CASE CreateToken(c)
  <2> DEFINE r == [call[c] EXCEPT !.at = "refreshed", !.got = NewToken]
  <2>1. Issue(call[c].old) /\ call' = [call EXCEPT ![c] = r]
    BY <1>6 DEF CreateToken
  <2>2. /\ Issued' = Issued \cup {NewToken} /\ NewToken \in Issued' /\ NewToken \in TokenOrNone
        /\ IssuedOrNone \subseteq IssuedOrNone'
        /\ (\E k \in TokenOrNone : parent \in [1..k -> TokenOrNone])'
        /\ (\A n \in Issued : parent[n] \in IssuedOrNone)'
        /\ (db \subseteq Issued)'
    BY <1>2, <2>1, IssueTyped
  <2>3. r \in CallStates /\ r.old = call[c].old /\ r.got = NewToken
    BY <1>2, <2>2 DEF CallStates
  <2>4. NewToken \in IssuedOrNone'
    BY <2>2 DEF IssuedOrNone
  <2> HIDE DEF r
  <2>5. /\ call' \in [Calls -> CallStates]
        /\ \A d \in Calls : call'[d].old \in IssuedOrNone' /\ call'[d].got \in IssuedOrNone'
    BY <1>2, <2>1, <2>2, <2>3, <2>4
  <2> QED
    BY <1>6, <2>2, <2>5 DEF CreateToken
<1>7. CASE Fails(c)
  <2>1. \/ call' = [call EXCEPT ![c] = [@ EXCEPT !.at = "error"]]
        \/ call' = [call EXCEPT ![c] = [@ EXCEPT !.at = "refused", !.old = 0]]
    BY <1>7 DEF Fails, Go, Refuse
  <2>2. /\ [call[c] EXCEPT !.at = "error"] \in CallStates
        /\ [call[c] EXCEPT !.at = "refused", !.old = 0] \in CallStates
    BY <1>2 DEF CallStates
  <2>3. PICK r \in CallStates : /\ r.old \in IssuedOrNone /\ r.got \in IssuedOrNone
                               /\ call' = [call EXCEPT ![c] = r]
    BY <1>2, <2>1, <2>2 DEF CallStates
  <2>4. /\ call' \in [Calls -> CallStates]
        /\ \A d \in Calls : call'[d].old \in IssuedOrNone /\ call'[d].got \in IssuedOrNone
    BY <2>3, OneCallTyped
  <2>5. gone' \subseteq TokenOrNone
    BY <1>2, <1>7, LoseTyped DEF Fails
  <2> QED
    BY <1>7, <2>4, <2>5, SameTyped DEF Fails
<1> QED
  BY <1>1, <1>3, <1>4, <1>5, <1>6, <1>7 DEF Serve

LEMMA ReceivesTyped ==
  ASSUME Typed, Restoring, Receives
  PROVE  Typed'
<1> USE DEF Typed, SessionTypeOK, Known
<1>1. PICK c \in Calls : Receive(c)
  BY DEF Receives
<1>2. /\ call[c] \in CallStates /\ call[c].old \in IssuedOrNone /\ call[c].got \in IssuedOrNone
      /\ 0 \in IssuedOrNone /\ IssuedOrNone \subseteq TokenOrNone
  BY IssuedAreTokens
<1> DEFINE again == [call[c] EXCEPT !.at = "sent", !.tok = TRUE, !.old = 0, !.got = 0, !.again = TRUE]
           refresh == [call[c] EXCEPT !.at = "refresh", !.old = local]
<1>3. \/ call' = [call EXCEPT ![c] = Idle]
      \/ call' = [call EXCEPT ![c] = again]
      \/ call' = [call EXCEPT ![c] = refresh]
  BY <1>1 DEF Receive, Answered, Failed, Unauthorized, Refreshed, Refused, Dropped, End, Throws
<1>4. /\ Idle \in CallStates /\ Idle.old = 0 /\ Idle.got = 0
      /\ again \in CallStates /\ again.old = 0 /\ again.got = 0
      /\ refresh \in CallStates /\ refresh.old = local /\ refresh.got = call[c].got
  BY <1>2 DEF Idle, CallStates
<1>5. /\ call' \in [Calls -> CallStates]
      /\ \A d \in Calls : call'[d].old \in IssuedOrNone /\ call'[d].got \in IssuedOrNone
  <2> HIDE DEF again, refresh
  <2> QED
    BY <1>2, <1>3, <1>4, OneCallTyped
<1>6. tab' \in [Tabs -> TabStates]
  <2>1. CASE Dropped(c)
    BY <2>1 DEF Dropped
  <2>2. CASE call[c].tab \in Tabs
    <3>1. Tab(c) \in TabStates
      BY <2>2 DEF Tab
    <3>2. /\ \A a, u \in BOOLEAN : [Tab(c) EXCEPT !.access = a, !.user = u] \in TabStates
          /\ [Tab(c) EXCEPT !.access = FALSE, !.leaving = TRUE] \in TabStates
          /\ \A a \in BOOLEAN : [Tab(c) EXCEPT !.access = a] \in TabStates
          /\ [Tab(c) EXCEPT !.access = TRUE, !.user = TRUE, !.loading = FALSE] \in TabStates
          /\ [Tab(c) EXCEPT !.loading = FALSE] \in TabStates
      BY <3>1 DEF TabStates
    <3>3. \A r \in TabStates : SetTab(c, r) => tab' \in [Tabs -> TabStates]
      BY DEF SetTab
    <3> HIDE DEF SessionTypeOK, Known
    <3>4. CASE Answered(c)
      <4>1. call[c].kind \in {"api", "login", "logout"}
        BY <1>2, <3>4 DEF Answered, Mine, At, Restoring, CallStates
      <4>2. CASE call[c].kind = "api"
        BY <3>4, <4>2 DEF Answered, SessionTypeOK
      <4>3. CASE call[c].kind = "login"
        BY <3>2, <3>3, <3>4, <4>3 DEF Answered
      <4>4. CASE call[c].kind = "logout"
        BY <3>2, <3>3, <3>4, <4>4 DEF Answered
      <4> QED
        BY <4>1, <4>2, <4>3, <4>4
    <3>5. CASE Failed(c) \/ Unauthorized(c)
      BY <3>2, <3>3, <3>5 DEF Failed, Unauthorized, Throws, ForceLogout, SessionTypeOK
    <3>6. CASE Refreshed(c) \/ Refused(c)
      BY <3>2, <3>3, <3>6 DEF Refreshed, Refused, ForceLogout
    <3> QED
      BY <1>1, <2>1, <3>4, <3>5, <3>6 DEF Receive
  <2> QED
    BY <1>1, <2>1, <2>2 DEF Receive, Answered, Failed, Unauthorized, Refreshed, Refused, Mine
<1>7. local' \in IssuedOrNone
  <2>1. CASE Answered(c) \/ Refreshed(c)
    BY <1>2, <2>1 DEF Answered, Refreshed, Mine, At, Restoring, CallStates
  <2>2. CASE Failed(c) \/ Unauthorized(c) \/ Refused(c) \/ Dropped(c)
    BY <1>2, <2>2 DEF Failed, Unauthorized, Refused, Dropped, ForceLogout, Throws
  <2> QED
    BY <1>1, <2>1, <2>2 DEF Receive
<1>8. UNCHANGED <<db, parent>>
  BY <1>1 DEF Receive, Answered, Failed, Unauthorized, Refreshed, Refused, Dropped
<1>9. gone' \subseteq TokenOrNone /\ alone' \in Calls \cup {"no", "done"}
  <2>1. CASE Dropped(c)
    BY <1>2, <2>1, LoseTyped DEF Dropped
  <2>2. CASE ~Dropped(c)
    BY <1>1, <2>2 DEF Receive, Answered, Failed, Unauthorized, Refreshed, Refused
  <2> QED
    BY <2>1, <2>2
<1> QED
  BY <1>5, <1>6, <1>7, <1>8, <1>9, SameTyped

LEMMA ExpiresTyped ==
  ASSUME Typed, Expires
  PROVE  Typed'
<1> USE DEF Typed, SessionTypeOK, Known
<1>1. PICK n \in Tokens : RefreshExpires(n)
  BY DEF Expires
<1>2. gone' \subseteq TokenOrNone
  BY <1>1, LoseTyped DEF RefreshExpires, IssuedOrNone
<1> QED
  BY <1>1, <1>2, SameTyped DEF RefreshExpires

LEMMA StepTyped == Typed /\ Restoring /\ [Next]_vars => Typed'
<1> SUFFICES ASSUME Typed, Restoring, [Next]_vars PROVE Typed'
  OBVIOUS
<1>1. CASE UNCHANGED vars
  BY <1>1, SameTyped DEF vars, Typed, SessionTypeOK, Known
<1> QED
  BY <1>1, NextParts, StartsTyped, ServesTyped, ReceivesTyped, ExpiresTyped

LEMMA StepRestoring == Typed /\ Restoring /\ [Next]_vars => Restoring'
<1> SUFFICES ASSUME Typed, Restoring, [Next]_vars PROVE Restoring'
  OBVIOUS
<1>1. CallsTyped
  BY DEF Typed, SessionTypeOK, CallsTyped
<1>2. CASE Starts
  <2>1. PICK c \in Calls, t \in Tabs : StartApi(c, t) \/ StartLogout(c, t) \/ StartLogin(c, t) \/ Load(t, c)
    BY <1>2 DEF Starts
  <2>2. CASE \E kind \in {"api", "logout", "login"} : Starting(c, t, kind)
    BY <2>2 DEF Starting, Others, Restoring
  <2>3. CASE Load(t, c)
    BY <1>1, <2>3, LoadEffect DEF Restores, Abandoning, SameOwner, Moves, At, Restoring
  <2> QED
    BY <1>1, <2>1, <2>2, <2>3, StartEffect DEF StartApi, StartLogout, StartLogin
<1>3. CASE Serves
  <2>1. PICK c \in Calls : Serve(c) \/ Fails(c)
    BY <1>3 DEF Serves
  <2>2. Others(c) /\ SameOwner(c)
    BY <1>1, <2>1, AccessEffect, LoginEffect, FindEffect, DeleteEffect, CreateEffect, FailsEffect
       DEF Serve, Keeps, Refusing
  <2>3. \/ Moves(c, {"sent"}, {"ok", "401", "error"})
        \/ Moves(c, {"refresh", "found", "deleted"}, {"found", "deleted", "refreshed", "refused"})
    BY <1>1, <2>1, AccessEffect, LoginEffect, FindEffect, DeleteEffect, CreateEffect, FailsEffect
       DEF Serve, Refusing, Moves
  <2> QED
    BY <2>2, <2>3 DEF Others, SameOwner, Moves, Restoring
<1>4. CASE Receives
  <2>1. PICK c \in Calls : Receive(c)
    BY <1>4 DEF Receives
  <2>2. Ending(c) \/ Resending(c) \/ Refreshing(c)
    BY <1>1, <2>1, ReceiveEffect
  <2> QED
    BY <2>2 DEF Ending, Resending, Refreshing, Others, SameOwner, Moves, Restoring
<1>5. CASE Expires \/ UNCHANGED vars
  BY <1>5 DEF Expires, RefreshExpires, vars, Restoring
<1> QED
  BY <1>2, <1>3, <1>4, <1>5, NextParts

LEMMA TypedAlways == Spec => [](Typed /\ Restoring)
<1>1. Init => Restoring
  BY DEF Init, Restoring, Idle
<1> QED
  BY <1>1, InitTyped, StepTyped, StepRestoring, PTL DEF Spec

\* The types of Session: tokens are numbered as they are issued, and every token a tab,
\* a request or the store names has been issued.
THEOREM SessionTypeCorrect == Spec => []SessionTypeOK
<1>1. Typed => SessionTypeOK
  BY DEF Typed
<1> QED
  BY <1>1, TypedAlways, PTL

-----------------------------------------------------------------------------
(* A new pair is kept.  A token that a request has got and not yet handed over is in     *)
(* nobody's hands: not in the browser, not in a refresh, not in another request.         *)

InHand(n) == n \in db \cup gone

OnlyHere(c) ==
  /\ call[c].got # local
  /\ \A d \in Calls : call[d].old # call[c].got /\ (d # c => call[d].got # call[c].got)

Pending == \A c \in Calls : call[c].got # 0 => InHand(call[c].got) /\ OnlyHere(c)

KeepInv == Pending /\ TokenKept

\* A token in gone that the browser or a request names stays there.
LEMMA LoseKeeps ==
  ASSUME NEW S, NEW n, Lose(S), n \in gone \cup S, n = local \/ \E d \in Calls : call[d].got = n
  PROVE  n \in gone'
BY DEF Lose

\* Nobody names a token before it is issued.
LEMMA NewIsNew ==
  ASSUME Typed
  PROVE  /\ NewToken # 0 /\ NewToken # local
         /\ \A c \in Calls : call[c].old # NewToken /\ call[c].got # NewToken
<1>1. NewToken \notin IssuedOrNone
  BY IssuedInterval DEF Typed, IssuedOrNone
<1> QED
  BY <1>1 DEF Typed, Known, IssuedOrNone

LEMMA StartsKeep ==
  ASSUME Typed, KeepInv, Starts
  PROVE  KeepInv'
<1>1. PICK c \in Calls, t \in Tabs : StartApi(c, t) \/ StartLogout(c, t) \/ StartLogin(c, t) \/ Load(t, c)
  BY DEF Starts
<1>2. CallsTyped /\ UNCHANGED <<db, gone, local>>
  BY <1>1 DEF Typed, SessionTypeOK, CallsTyped, StartApi, StartLogout, StartLogin, Load
<1>3. \A d \in Calls : /\ call'[d].got \in {0, call[d].got}
                       /\ call'[d].old \in {0, local, call[d].old}
                       /\ call[d].at \in {"deleted", "refreshed"} =>
                            call'[d].at = call[d].at /\ call'[d].old = call[d].old
  <2>1. CASE \E kind \in {"api", "logout", "login"} : Starting(c, t, kind)
    BY <2>1 DEF Starting, Others, Moves
  <2>2. CASE Load(t, c)
    <3>1. /\ local # 0 => Restores(c, t)
          /\ \A d \in Calls : d # c \/ local = 0 => Abandoning(d, t)
      BY <1>2, <2>2, LoadEffect
    <3> QED
      BY <3>1 DEF Restores, Abandoning, Moves
  <2> QED
    BY <1>1, <1>2, <2>1, <2>2, StartEffect DEF StartApi, StartLogout, StartLogin
<1>4. Pending'
  BY <1>2, <1>3 DEF KeepInv, Pending, InHand, OnlyHere
<1>5. TokenKept'
  BY <1>2, <1>3 DEF KeepInv, TokenKept
<1> QED
  BY <1>4, <1>5 DEF KeepInv

LEMMA ServesKeep ==
  ASSUME Typed, KeepInv, Serves
  PROVE  KeepInv'
<1>1. PICK c \in Calls : Serve(c) \/ Fails(c)
  BY DEF Serves
<1>2. CallsTyped /\ local' = local
  BY <1>1 DEF Typed, SessionTypeOK, CallsTyped, Serve, ServeApi, ServeLogout, ServeLogin,
              FindToken, DeleteToken, CreateToken, Fails
<1> USE DEF KeepInv
<1>3. CASE ServeApi(c)
  <2>1. Others(c) /\ Keeps(c) /\ Moves(c, {"sent"}, {"ok", "401"}) /\ UNCHANGED <<db, gone>>
    BY <1>2, <1>3, AccessEffect DEF ServeApi
  <2>2. Pending'
    BY <1>2, <2>1 DEF Others, Keeps, Pending, InHand, OnlyHere
  <2>3. TokenKept'
    BY <1>2, <2>1 DEF Others, Moves, TokenKept
  <2> QED
    BY <2>2, <2>3
<1>4. CASE ServeLogout(c)
  <2>1. Others(c) /\ Keeps(c) /\ Moves(c, {"sent"}, {"ok", "401"})
    BY <1>2, <1>4, AccessEffect
  <2>2. Lose(db \ db') /\ db' \subseteq db
    BY <1>4 DEF ServeLogout
  <2>3. \A n : InHand(n) /\ (n = local \/ \E d \in Calls : call[d].got = n) => InHand(n)'
    BY <2>2, LoseKeeps DEF InHand
  <2>4. Pending'
    BY <1>2, <2>1, <2>3 DEF Others, Keeps, Pending, OnlyHere
  <2>5. TokenKept'
    BY <1>2, <2>1, <2>3 DEF Others, Moves, TokenKept, InHand
  <2> QED
    BY <2>4, <2>5
<1>5. CASE ServeLogin(c)
  <2>1. /\ Others(c) /\ SameOwner(c) /\ call'[c].old = call[c].old
        /\ \/ Issue(0) /\ Moves(c, {"sent"}, {"ok"}) /\ call'[c].got = NewToken
           \/ /\ UNCHANGED <<db, parent>> /\ Moves(c, {"sent"}, {"401"}) /\ call'[c].got = call[c].got
    BY <1>2, <1>5, LoginEffect
  <2>2. gone' = gone /\ db \subseteq db' /\ (Issue(0) => NewToken \in db')
    BY <1>5, <2>1 DEF ServeLogin, Issue
  <2>3. Pending'
    <3>1. CASE Issue(0) /\ call'[c].got = NewToken
      BY <1>2, <2>1, <2>2, <3>1, NewIsNew DEF Others, Pending, InHand, OnlyHere
    <3>2. CASE call'[c].got = call[c].got
      BY <1>2, <2>1, <2>2, <3>2 DEF Others, Pending, InHand, OnlyHere
    <3> QED
      BY <2>1, <3>1, <3>2
  <2>4. TokenKept'
    BY <1>2, <2>1, <2>2 DEF Others, Moves, TokenKept
  <2> QED
    BY <2>3, <2>4
<1>6. CASE FindToken(c)
  <2>1. /\ Others(c) /\ call'[c].got = call[c].got /\ call'[c].old \in {0, call[c].old}
        /\ Moves(c, {"refresh"}, {"found", "refused"}) /\ UNCHANGED <<db, gone>>
    BY <1>2, <1>6, FindEffect DEF Refusing, Keeps, Moves, FindToken
  <2>2. Pending'
    BY <1>2, <2>1 DEF Others, Pending, InHand, OnlyHere
  <2>3. TokenKept'
    BY <1>2, <2>1 DEF Others, Moves, TokenKept
  <2> QED
    BY <2>2, <2>3
<1>7. CASE DeleteToken(c)
  <2>1. Others(c) /\ Keeps(c) /\ Moves(c, {"found"}, {"deleted"})
    BY <1>2, <1>7, DeleteEffect
  <2>2. db' = db \ {call[c].old} /\ gone' = gone
    BY <1>7 DEF DeleteToken
  <2>3. Pending'
    BY <1>2, <2>1, <2>2 DEF Others, Keeps, Pending, InHand, OnlyHere
  <2>4. TokenKept'
    BY <1>2, <2>1, <2>2 DEF Others, Keeps, Moves, TokenKept
  <2> QED
    BY <2>3, <2>4
<1>8. CASE CreateToken(c)
  <2>1. /\ Others(c) /\ Moves(c, {"deleted"}, {"refreshed"})
        /\ call'[c].old = call[c].old /\ call'[c].got = NewToken
    BY <1>2, <1>8, CreateEffect
  <2>2. gone' = gone /\ db' = db \cup {NewToken}
    BY <1>8 DEF CreateToken, Issue
  <2>3. Pending'
    BY <1>2, <2>1, <2>2, NewIsNew DEF Others, Pending, InHand, OnlyHere
  <2>4. TokenKept'
    BY <1>2, <2>1, <2>2 DEF Others, Moves, TokenKept
  <2> QED
    BY <2>3, <2>4
<1>9. CASE Fails(c)
  <2>1. /\ Others(c) /\ call'[c].got = call[c].got /\ call'[c].old \in {0, call[c].old}
        /\ Moves(c, {"sent", "refresh", "found", "deleted"}, {"error", "refused"})
    BY <1>2, <1>9, FailsEffect DEF Refusing, Keeps, Moves
  <2>2. Lose(IF At(c, "deleted") THEN {call[c].old} ELSE {}) /\ db' = db
    BY <1>9 DEF Fails
  <2>3. \A n : InHand(n) /\ (n = local \/ \E d \in Calls : call[d].got = n) => InHand(n)'
    BY <2>2, LoseKeeps DEF InHand
  <2>4. Pending'
    BY <1>2, <2>1, <2>3 DEF Others, Pending, OnlyHere
  <2>5. TokenKept'
    <3>1. CASE local \in {0} \cup db \cup gone
      BY <1>2, <2>3, <3>1 DEF TokenKept, InHand
    <3>2. CASE At(c, "deleted") /\ call[c].old = local
      BY <1>2, <2>2, <3>2, LoseKeeps DEF TokenKept
    <3>3. CASE \E d \in Calls \ {c} : call[d].at \in {"deleted", "refreshed"} /\ call[d].old = local
      BY <1>2, <2>1, <3>3 DEF TokenKept, Others
    <3> QED
      BY <2>1, <3>1, <3>2, <3>3 DEF TokenKept, Moves, At
  <2> QED
    BY <2>4, <2>5
<1> QED
  BY <1>1, <1>3, <1>4, <1>5, <1>6, <1>7, <1>8, <1>9 DEF Serve

LEMMA ReceivesKeep ==
  ASSUME Typed, Restoring, KeepInv, Receives
  PROVE  KeepInv'
<1>1. PICK c \in Calls : Receive(c)
  BY DEF Receives
<1>2. CallsTyped /\ db' = db
  BY <1>1 DEF Typed, SessionTypeOK, CallsTyped, Receive, Answered, Failed, Unauthorized, Refreshed,
              Refused, Dropped
<1> USE DEF KeepInv
<1>3. CASE Dropped(c)
  <2>1. Ending(c)
    BY <1>2, <1>3, EndEffect DEF Dropped
  <2>2. Lose({call[c].old} \ {0}) /\ local' = local
    BY <1>3 DEF Dropped
  <2>3. \A n : InHand(n) /\ (n = local \/ \E d \in Calls : call[d].got = n) => InHand(n)'
    BY <1>2, <2>2, LoseKeeps DEF InHand
  <2>4. Pending'
    BY <1>2, <2>1, <2>2, <2>3 DEF Ending, Others, Pending, OnlyHere
  <2>5. TokenKept'
    <3>1. CASE local \in {0} \cup db \cup gone
      BY <1>2, <2>2, <2>3, <3>1 DEF TokenKept, InHand
    <3>2. CASE call[c].old = local /\ local # 0
      BY <1>2, <2>2, <3>2, LoseKeeps DEF TokenKept
    <3>3. CASE \E d \in Calls \ {c} : call[d].at \in {"deleted", "refreshed"} /\ call[d].old = local
      BY <1>2, <2>1, <2>2, <3>3 DEF TokenKept, Ending, Others
    <3> QED
      BY <3>1, <3>2, <3>3 DEF TokenKept
  <2> QED
    BY <2>4, <2>5
<1>4. CASE Answered(c) \/ Failed(c) \/ Unauthorized(c) \/ Refreshed(c) \/ Refused(c)
  <2>1. gone' = gone
    BY <1>4 DEF Answered, Failed, Unauthorized, Refreshed, Refused
  <2>2. Ending(c) \/ Resending(c) \/ (Unauthorized(c) /\ Refreshing(c) /\ local' = local)
    BY <1>1, <1>2, ReceiveEffect
  <2>3. local' \in {0, local, call[c].got} /\ (call[c].at = "refreshed" => local' = call[c].got)
    <3>1. CASE Answered(c)
      <4>1. call[c].kind \in {"api", "login", "logout"}
        BY <1>2, <3>1 DEF Answered, Mine, At, Restoring, CallsTyped, CallStates
      <4> QED
        BY <3>1, <4>1 DEF Answered, Mine, At
    <3>2. CASE Failed(c) \/ Unauthorized(c) \/ Refused(c)
      BY <3>2 DEF Failed, Unauthorized, Refused, Mine, At, ForceLogout, Throws
    <3>3. CASE Refreshed(c)
      BY <3>3 DEF Refreshed
    <3> QED
      BY <1>4, <3>1, <3>2, <3>3
  <2>4. CASE Ending(c) \/ Resending(c)
    <3>1. /\ Others(c) /\ call'[c].old = 0 /\ call'[c].got = 0
          /\ call[c].at \in {"ok", "401", "error", "refreshed", "refused"}
      BY <2>4 DEF Ending, Resending, Moves
    <3>2. Pending'
      BY <1>2, <2>1, <2>3, <3>1 DEF Others, Pending, InHand, OnlyHere
    <3>3. TokenKept'
      <4>1. CASE local' = local /\ call[c].at # "refreshed"
        BY <1>2, <2>1, <3>1, <4>1 DEF TokenKept, Others
      <4>2. CASE local' = 0 \/ local' = call[c].got
        BY <1>2, <2>1, <4>2 DEF TokenKept, Pending, InHand
      <4> QED
        BY <2>3, <4>1, <4>2
    <3> QED
      BY <3>2, <3>3
  <2>5. CASE Refreshing(c) /\ local' = local
    <3>1. Pending'
      BY <1>2, <2>1, <2>5 DEF Refreshing, Others, Pending, InHand, OnlyHere
    <3>2. TokenKept'
      BY <1>2, <2>1, <2>5 DEF Refreshing, Moves, Others, TokenKept
    <3> QED
      BY <3>1, <3>2
  <2> QED
    BY <2>2, <2>4, <2>5
<1> QED
  BY <1>1, <1>3, <1>4 DEF Receive

LEMMA StepKeeps == Typed /\ Restoring /\ KeepInv /\ [Next]_vars => KeepInv'
<1> SUFFICES ASSUME Typed, Restoring, KeepInv, [Next]_vars PROVE KeepInv'
  OBVIOUS
<1>1. CASE Expires
  <2>1. PICK n \in Tokens : RefreshExpires(n)
    BY <1>1 DEF Expires
  <2>2. Lose({n}) /\ db' = db \ {n} /\ UNCHANGED <<local, call>>
    BY <2>1 DEF RefreshExpires
  <2>3. \A m : InHand(m) /\ (m = local \/ \E d \in Calls : call[d].got = m) => InHand(m)'
    BY <2>2, LoseKeeps DEF InHand
  <2>4. Pending'
    BY <2>2, <2>3 DEF KeepInv, Pending, OnlyHere
  <2>5. TokenKept'
    BY <2>2, <2>3 DEF KeepInv, TokenKept, InHand
  <2> QED
    BY <2>4, <2>5 DEF KeepInv
<1>2. CASE UNCHANGED vars
  BY <1>2 DEF vars, KeepInv, Pending, InHand, OnlyHere, TokenKept
<1> QED
  BY <1>1, <1>2, NextParts, StartsKeep, ServesKeep, ReceivesKeep

\* However requests, tabs and reloads overlap, the refresh token in the browser is one the
\* API accepts, unless a logout, its age, a fault or an unload took it or a refresh under
\* way is replacing it.
THEOREM TokenStaysGood == Spec => []TokenKept
<1>1. Init => KeepInv
  BY DEF Init, KeepInv, Pending, TokenKept, Idle
<1>2. Spec => []KeepInv
  BY <1>1, TypedAlways, StepKeeps, PTL DEF Spec
<1>3. KeepInv => TokenKept
  BY DEF KeepInv
<1> QED
  BY <1>2, <1>3, PTL

-----------------------------------------------------------------------------
(* A quiet logout: the request that logs out is alone, and answered well only after the  *)
(* store was emptied.                                                                   *)

Quiet ==
  /\ alone \in Calls =>
       /\ \A c \in Calls \ {alone} : At(c, "idle")
       /\ ~At(alone, "idle") => call[alone].kind = "logout"
       /\ At(alone, "ok") => db = {}
  /\ alone = "done" => /\ db = {} /\ local = 0
                       /\ \A c \in Calls : At(c, "idle")

LEMMA StepQuiet == Typed /\ Restoring /\ Quiet /\ [Next]_vars => Quiet'
<1> SUFFICES ASSUME Typed, Restoring, Quiet, [Next]_vars PROVE Quiet'
  OBVIOUS
<1>1. CallsTyped
  BY DEF Typed, SessionTypeOK, CallsTyped
<1>2. CASE Starts
  <2>1. PICK c \in Calls, t \in Tabs : StartApi(c, t) \/ StartLogout(c, t) \/ StartLogin(c, t) \/ Load(t, c)
    BY <1>2 DEF Starts
  <2>2. CASE StartApi(c, t) \/ StartLogin(c, t)
    BY <2>2, NamesApart DEF StartApi, StartLogin, Quiet
  <2>3. CASE StartLogout(c, t)
    <3>1. Starting(c, t, "logout") /\ alone' = IF Busy = {} THEN c ELSE "no"
      BY <1>1, <2>3, StartEffect DEF StartLogout
    <3> QED
      BY <3>1, NamesApart DEF Starting, Others, Moves, Busy, At, Quiet
  <2>4. CASE Load(t, c)
    <3>1. CASE alone = "done" /\ local = 0
      <4>1. \A d \in Calls : Abandoning(d, t)
        BY <1>1, <2>4, <3>1, LoadEffect
      <4>2. UNCHANGED <<db, local>> /\ alone' = "done"
        BY <2>4, <3>1 DEF Load
      <4> QED
        BY <3>1, <4>1, <4>2, NamesApart DEF Abandoning, At, Quiet
    <3>2. CASE ~(alone = "done" /\ local = 0)
      BY <2>4, <3>2, NamesApart DEF Load, Quiet
    <3> QED
      BY <3>1, <3>2
  <2> QED
    BY <2>1, <2>2, <2>3, <2>4
<1>3. CASE Serves
  <2>1. PICK c \in Calls : Serve(c) \/ Fails(c)
    BY <1>3 DEF Serves
  <2>2. Others(c) /\ SameOwner(c) /\ ~At(c, "idle") /\ call'[c].at # "idle"
    BY <1>1, <2>1, AccessEffect, LoginEffect, FindEffect, DeleteEffect, CreateEffect, FailsEffect
       DEF Serve, Keeps, Refusing, Moves, At
  <2>3. UNCHANGED <<alone, local>>
    BY <2>1 DEF Serve, ServeApi, ServeLogout, ServeLogin, FindToken, DeleteToken, CreateToken, Fails
  <2>4. call'[c].at = "ok" => call[c].kind # "logout" \/ db' = {}
    <3>1. CASE ServeApi(c) \/ ServeLogin(c)
      BY <3>1 DEF ServeApi, ServeLogin
    <3>2. CASE ServeLogout(c)
      BY <1>1, <3>2 DEF ServeLogout, Accepted, Rejected, Reply, CallsTyped, CallStates
    <3>3. CASE FindToken(c) \/ DeleteToken(c) \/ CreateToken(c) \/ Fails(c)
      BY <1>1, <3>3, FindEffect, DeleteEffect, CreateEffect, FailsEffect DEF Refusing, Moves
    <3> QED
      BY <2>1, <3>1, <3>2, <3>3 DEF Serve
  <2> QED
    BY <2>2, <2>3, <2>4 DEF Others, SameOwner, At, Quiet
<1>4. CASE Receives
  <2>1. PICK c \in Calls : Receive(c)
    BY <1>4 DEF Receives
  <2>2. Ending(c) \/ Resending(c) \/ Refreshing(c)
    BY <1>1, <2>1, ReceiveEffect
  <2>3. db' = db /\ call[c].at # "idle"
    BY <2>1, <2>2 DEF Receive, Answered, Failed, Unauthorized, Refreshed, Refused, Dropped,
                      Ending, Resending, Refreshing, Moves
  <2>4. CASE Answered(c)
    <3>1. CASE alone = c
      <4>1. call[c].kind = "logout" /\ db = {} /\ \A d \in Calls \ {c} : At(d, "idle")
        BY <2>3, <2>4, <3>1 DEF Answered, Mine, At, Quiet
      <4>2. local' = 0 /\ alone' = "done" /\ Ending(c)
        BY <1>1, <2>4, <3>1, <4>1, EndEffect DEF Answered, Mine, At
      <4> QED
        BY <2>3, <4>1, <4>2, NamesApart DEF Ending, Others, Moves, At, Quiet
    <3>2. CASE alone # c
      <4>1. alone \notin Calls /\ alone # "done"
        BY <2>3, <3>2 DEF At, Quiet
      <4>2. alone' = alone
        BY <2>4, <3>2 DEF Answered
      <4> QED
        BY <4>1, <4>2 DEF Quiet
    <3> QED
      BY <3>1, <3>2
  <2>5. CASE ~Answered(c)
    <3>1. alone' = alone
      BY <2>1, <2>5 DEF Receive, Failed, Unauthorized, Refreshed, Refused, Dropped
    <3> QED
      BY <2>2, <2>3, <3>1 DEF Ending, Resending, Refreshing, Others, SameOwner, Moves, At, Quiet
  <2> QED
    BY <2>4, <2>5
<1>5. CASE Expires
  BY <1>5, NamesApart DEF Expires, RefreshExpires, At, Quiet
<1>6. CASE UNCHANGED vars
  BY <1>6 DEF vars, At, Quiet
<1> QED
  BY <1>2, <1>3, <1>4, <1>5, <1>6, NextParts

\* A logout that went well with no other request under way leaves no token in the store
\* and none in the browser, whatever was done before it.
THEOREM LogoutIsComplete == Spec => []QuietLogout
<1>1. Init => Quiet
  BY NamesApart DEF Init, Quiet
<1>2. Spec => []Quiet
  BY <1>1, TypedAlways, StepQuiet, PTL DEF Spec
<1>3. Quiet => QuietLogout
  BY DEF Quiet, QuietLogout
<1> QED
  BY <1>2, <1>3, PTL

-----------------------------------------------------------------------------
(* The successors of a token: each was issued to a request that had found it before it   *)
(* was deleted, so those there are and those to come are no more than the requests.      *)

Successors(n) == {m \in Issued : parent[m] = n}
Finders(n) == {c \in Calls : call[c].at \in {"found", "deleted"} /\ call[c].old = n}

UsedUp == \A c \in Calls : At(c, "deleted") => call[c].old \notin db
OutForGood == \A n \in Issued : Successors(n) # {} => n \notin db
Bounded == \A n \in Issued : Cardinality(Successors(n)) + Cardinality(Finders(n)) <= Cardinality(Calls)

SuccInv == UsedUp /\ OutForGood /\ Bounded

LEMMA SetsFinite ==
  ASSUME Typed, NEW n
  PROVE  /\ IsFiniteSet(Successors(n)) /\ IsFiniteSet(Finders(n))
         /\ Cardinality(Successors(n)) \in Nat /\ Cardinality(Finders(n)) \in Nat
         /\ Cardinality(Finders(n)) <= Cardinality(Calls) /\ Cardinality(Calls) \in Nat
<1>1. Successors(n) \in SUBSET Issued /\ IsFiniteSet(Issued)
  BY IssuedInterval DEF Typed, Successors
<1>2. Finders(n) \in SUBSET Calls
  BY DEF Finders
<1>3. IsFiniteSet(Successors(n))
  BY <1>1, FS_Subset
<1>4. IsFiniteSet(Finders(n)) /\ Cardinality(Finders(n)) <= Cardinality(Calls)
  BY <1>2, CallsFinite, FS_Subset
<1> QED
  BY <1>3, <1>4, CallsFinite, FS_CardinalityType

\* A step that issues nothing, and after which no request has found more, keeps the bound.
LEMMA NoMoreFound ==
  ASSUME Typed, SuccInv, UNCHANGED parent, db' \subseteq db,
         \A c \in Calls : call'[c].at \in {"found", "deleted"} =>
           call[c].at \in {"found", "deleted"} /\ call'[c].old = call[c].old
  PROVE  OutForGood' /\ Bounded'
<1>1. Issued' = Issued /\ \A n : Successors(n)' = Successors(n)
  BY DEF Issued, Successors
<1>2. OutForGood'
  BY <1>1 DEF SuccInv, OutForGood
<1>3. ASSUME NEW n \in Issued
      PROVE  Cardinality(Successors(n)') + Cardinality(Finders(n)') <= Cardinality(Calls)
  <2>1. Finders(n)' \in SUBSET Finders(n)
    BY DEF Finders
  <2>2. IsFiniteSet(Finders(n)') /\ Cardinality(Finders(n)') <= Cardinality(Finders(n))
    BY <2>1, SetsFinite, FS_Subset
  <2>3. Cardinality(Finders(n)') \in Nat
    BY <2>2, FS_CardinalityType
  <2>4. Cardinality(Successors(n)) + Cardinality(Finders(n)) <= Cardinality(Calls)
    BY DEF SuccInv, Bounded
  <2> QED
    BY <1>1, <2>2, <2>3, <2>4, SetsFinite
<1>4. Bounded'
  BY <1>1, <1>3 DEF Bounded
<1> QED
  BY <1>2, <1>4

\* What a pair that is issued adds to the successors.
LEMMA IssueSuccessors ==
  ASSUME Typed, NEW old \in IssuedOrNone, Issue(old)
  PROVE  /\ Issued' = Issued \cup {NewToken} /\ db' = db \cup {NewToken}
         /\ \A n \in Issued : Successors(n)' = IF n = old THEN Successors(n) \cup {NewToken}
                                                ELSE Successors(n)
         /\ \A n : n = NewToken => Successors(n)' = {}
<1>1. NewToken \notin IssuedOrNone
  BY IssuedInterval DEF Typed, IssuedOrNone
<1>2. parent' = [m \in Issued \cup {NewToken} |-> IF m = NewToken THEN old ELSE parent[m]]
  BY DEF Issue
<1>3. Issued' = Issued \cup {NewToken}
  BY <1>2 DEF Issued
<1>4. \A m \in Issued' : parent'[m] = IF m = NewToken THEN old ELSE parent[m]
  BY <1>2, <1>3
<1>5. \A m \in Issued : parent[m] # NewToken
  BY <1>1 DEF Typed, Known
<1>6. ASSUME NEW n, n = NewToken PROVE Successors(n)' = {}
  BY <1>1, <1>3, <1>4, <1>5, <1>6 DEF Successors, IssuedOrNone
<1>7. ASSUME NEW n \in Issued
      PROVE  Successors(n)' = IF n = old THEN Successors(n) \cup {NewToken} ELSE Successors(n)
  BY <1>1, <1>3, <1>4 DEF Successors, IssuedOrNone
<1> QED
  BY <1>3, <1>6, <1>7 DEF Issue

\* A step that issues a token that replaces old keeps the bound, if its request is one of
\* those that have found old, or old is none.
LEMMA IssueKeepsBound ==
  ASSUME Typed, SuccInv, NEW c \in Calls, NEW old \in IssuedOrNone, Issue(old), Others(c),
         call'[c].at \notin {"found", "deleted"},
         old = 0 \/ (At(c, "deleted") /\ call[c].old = old)
  PROVE  SuccInv'
<1>1. /\ Issued' = Issued \cup {NewToken} /\ db' = db \cup {NewToken}
      /\ \A n \in Issued : Successors(n)' = IF n = old THEN Successors(n) \cup {NewToken}
                                             ELSE Successors(n)
      /\ \A n : n = NewToken => Successors(n)' = {}
  BY IssueSuccessors
<1>2. 0 \notin Issued /\ NewToken \notin Issued
  <2>1. PICK k \in TokenOrNone : Issued = 1..k
    BY IssuedInterval DEF Typed
  <2> QED
    BY <2>1, IssuedInterval DEF Typed
<1>3. \A n : Finders(n)' = Finders(n) \ {c}
  BY DEF Finders, Others
<1>4. UsedUp'
  BY <1>1, NewIsNew DEF SuccInv, UsedUp, Others, At
<1>5. OutForGood'
  BY <1>1, <1>2 DEF SuccInv, UsedUp, OutForGood
<1>6. ASSUME NEW n \in Issued'
      PROVE  Cardinality(Successors(n)') + Cardinality(Finders(n)') <= Cardinality(Calls)
  <2>1. /\ IsFiniteSet(Successors(n)) /\ IsFiniteSet(Finders(n))
        /\ Cardinality(Successors(n)) \in Nat /\ Cardinality(Finders(n)) \in Nat
        /\ Cardinality(Finders(n)) <= Cardinality(Calls) /\ Cardinality(Calls) \in Nat
    BY SetsFinite
  <2>2. Cardinality(Finders(n)') = IF c \in Finders(n) THEN Cardinality(Finders(n)) - 1
                                   ELSE Cardinality(Finders(n))
    BY <1>3, <2>1, FS_RemoveElement
  <2>3. n \in Issued => Cardinality(Successors(n)) + Cardinality(Finders(n)) <= Cardinality(Calls)
    BY DEF SuccInv, Bounded
  <2>4. CASE n = NewToken
    BY <1>1, <2>1, <2>2, <2>4, FS_EmptySet
  <2>5. CASE n \in Issued /\ n # old
    BY <1>1, <2>1, <2>2, <2>3, <2>5
  <2>6. CASE n \in Issued /\ n = old
    <3>1. Successors(n)' = Successors(n) \cup {NewToken} /\ NewToken \notin Successors(n)
      BY <1>1, <1>2, <2>6 DEF Successors
    <3>2. Cardinality(Successors(n)') = Cardinality(Successors(n)) + 1
      BY <2>1, <3>1, FS_AddElement
    <3>3. c \in Finders(n)
      BY <1>2, <2>6 DEF Finders, At
    <3> QED
      BY <2>1, <2>2, <2>3, <2>6, <3>2, <3>3
  <2> QED
    BY <1>1, <2>4, <2>5, <2>6
<1>7. Bounded'
  BY <1>6 DEF Bounded
<1> QED
  BY <1>4, <1>5, <1>7 DEF SuccInv

LEMMA ServesBound ==
  ASSUME Typed, SuccInv, Serves
  PROVE  SuccInv'
<1>1. PICK c \in Calls : Serve(c) \/ Fails(c)
  BY DEF Serves
<1>2. CallsTyped
  BY DEF Typed, SessionTypeOK, CallsTyped
<1>3. CASE ServeApi(c) \/ ServeLogout(c) \/ Fails(c)
  <2>1. /\ Others(c) /\ call'[c].at \notin {"found", "deleted"}
    BY <1>2, <1>3, AccessEffect, FailsEffect DEF Refusing, Moves
  <2>2. UNCHANGED parent /\ db' \subseteq db
    BY <1>3 DEF ServeApi, ServeLogout, Fails
  <2>3. OutForGood' /\ Bounded'
    BY <2>1, <2>2, NoMoreFound DEF Others
  <2>4. UsedUp'
    BY <2>1, <2>2 DEF SuccInv, UsedUp, Others, At
  <2> QED
    BY <2>3, <2>4 DEF SuccInv
<1>4. CASE ServeLogin(c)
  <2>1. /\ Others(c) /\ call'[c].at \notin {"found", "deleted"}
        /\ Issue(0) \/ UNCHANGED <<db, parent>>
    BY <1>2, <1>4, LoginEffect DEF Moves
  <2>2. CASE Issue(0)
    BY <2>1, <2>2, IssueKeepsBound, IssuedAreTokens DEF Typed
  <2>3. CASE UNCHANGED <<db, parent>>
    <3>1. OutForGood' /\ Bounded'
      BY <2>1, <2>3, NoMoreFound DEF Others
    <3>2. UsedUp'
      BY <2>1, <2>3 DEF SuccInv, UsedUp, Others, At
    <3> QED
      BY <3>1, <3>2 DEF SuccInv
  <2> QED
    BY <2>1, <2>2, <2>3
<1>5. CASE FindToken(c)
  <2>1. UNCHANGED <<parent, db>>
    BY <1>5 DEF FindToken
  <2>2. CASE Refusing(c, {"refresh"})
    <3>1. OutForGood' /\ Bounded'
      BY <2>1, <2>2, NoMoreFound DEF Refusing, Moves, Others
    <3>2. UsedUp'
      BY <2>1, <2>2 DEF Refusing, Moves, Others, SuccInv, UsedUp, At
    <3> QED
      BY <3>1, <3>2 DEF SuccInv
  <2>3. CASE Others(c) /\ Keeps(c) /\ Moves(c, {"refresh"}, {"found"}) /\ call[c].old \in db
    <3>1. Issued' = Issued /\ \A n : Successors(n)' = Successors(n)
      BY <2>1 DEF Issued, Successors
    <3>2. UsedUp' /\ OutForGood'
      BY <2>1, <2>3, <3>1 DEF Moves, Others, SuccInv, UsedUp, OutForGood, At
    <3>3. ASSUME NEW n \in Issued
          PROVE  Cardinality(Successors(n)) + Cardinality(Finders(n)') <= Cardinality(Calls)
      <4>1. CASE n = call[c].old
        <5>1. Successors(n) = {}
          BY <2>3, <4>1 DEF SuccInv, OutForGood
        <5>2. Finders(n)' \in SUBSET Calls
          BY DEF Finders
        <5>3. Cardinality(Finders(n)') <= Cardinality(Calls) /\ Cardinality(Finders(n)') \in Nat
          BY <5>2, CallsFinite, FS_Subset, FS_CardinalityType
        <5> QED
          BY <5>1, <5>3, FS_EmptySet
      <4>2. CASE n # call[c].old
        <5>1. Finders(n)' = Finders(n)
          BY <2>3, <4>2 DEF Finders, Others, Keeps
        <5> QED
          BY <5>1 DEF SuccInv, Bounded
      <4> QED
        BY <4>1, <4>2
    <3>4. Bounded'
      BY <3>1, <3>3 DEF Bounded
    <3> QED
      BY <3>2, <3>4 DEF SuccInv
  <2> QED
    BY <1>2, <1>5, <2>2, <2>3, FindEffect
<1>6. CASE DeleteToken(c)
  <2>1. Others(c) /\ Keeps(c) /\ Moves(c, {"found"}, {"deleted"})
    BY <1>2, <1>6, DeleteEffect
  <2>2. UNCHANGED parent /\ db' = db \ {call[c].old}
    BY <1>6 DEF DeleteToken
  <2>3. OutForGood' /\ Bounded'
    BY <2>1, <2>2, NoMoreFound DEF Keeps, Moves, Others
  <2>4. UsedUp'
    BY <2>1, <2>2 DEF SuccInv, UsedUp, Keeps, Others, At
  <2> QED
    BY <2>3, <2>4 DEF SuccInv
<1>7. CASE CreateToken(c)
  <2>1. Others(c) /\ call'[c].at \notin {"found", "deleted"} /\ At(c, "deleted")
    BY <1>2, <1>7, CreateEffect DEF Moves, At
  <2>2. Issue(call[c].old) /\ call[c].old \in IssuedOrNone
    BY <1>7 DEF CreateToken, Typed, Known
  <2> QED
    BY <2>1, <2>2, IssueKeepsBound
<1> QED
  BY <1>1, <1>3, <1>4, <1>5, <1>6, <1>7 DEF Serve

LEMMA StepBound == Typed /\ SuccInv /\ [Next]_vars => SuccInv'
<1> SUFFICES ASSUME Typed, SuccInv, [Next]_vars PROVE SuccInv'
  OBVIOUS
<1>1. CallsTyped
  BY DEF Typed, SessionTypeOK, CallsTyped
<1>2. CASE Starts \/ Receives \/ Expires \/ UNCHANGED vars
  <2>1. \A d \in Calls : call'[d].at \in {"found", "deleted"} =>
          call'[d].at = call[d].at /\ call'[d].old = call[d].old
    <3>1. CASE Starts
      <4>1. PICK c \in Calls, t \in Tabs :
              StartApi(c, t) \/ StartLogout(c, t) \/ StartLogin(c, t) \/ Load(t, c)
        BY <3>1 DEF Starts
      <4>2. CASE \E kind \in {"api", "logout", "login"} : Starting(c, t, kind)
        BY <4>2 DEF Starting, Others, Moves
      <4>3. CASE Load(t, c)
        BY <1>1, <4>3, LoadEffect DEF Restores, Abandoning, Moves
      <4> QED
        BY <1>1, <4>1, <4>2, <4>3, StartEffect DEF StartApi, StartLogout, StartLogin
    <3>2. CASE Receives
      <4>1. PICK c \in Calls : Receive(c)
        BY <3>2 DEF Receives
      <4>2. Ending(c) \/ Resending(c) \/ Refreshing(c)
        BY <1>1, <4>1, ReceiveEffect
      <4> QED
        BY <4>2 DEF Ending, Resending, Refreshing, Others, Moves
    <3>3. CASE Expires \/ UNCHANGED vars
      BY <3>3 DEF Expires, RefreshExpires, vars
    <3> QED
      BY <1>2, <3>1, <3>2, <3>3
  <2>2. UNCHANGED parent /\ db' \subseteq db
    BY <1>2 DEF Starts, StartApi, StartLogout, StartLogin, Load, Receives, Receive, Answered, Failed,
      Unauthorized, Refreshed, Refused, Dropped, Expires, RefreshExpires, vars
  <2>3. OutForGood' /\ Bounded'
    BY <2>1, <2>2, NoMoreFound
  <2>4. UsedUp'
    BY <2>1, <2>2 DEF SuccInv, UsedUp, At
  <2> QED
    BY <2>3, <2>4 DEF SuccInv
<1> QED
  BY <1>2, NextParts, ServesBound

\* A refresh token has no more successors than there are requests at once, and once it has
\* one it never is in the store again.
THEOREM SuccessorsAreBounded == Spec => []SuccessorBound
<1>1. Init => SuccInv
  BY DEF Init, SuccInv, UsedUp, OutForGood, Bounded, At, Idle, Issued
<1>2. Spec => [](Typed /\ SuccInv)
  BY <1>1, TypedAlways, StepBound, PTL DEF Spec
<1>3. Typed /\ SuccInv => SuccessorBound
  <2> SUFFICES ASSUME Typed, SuccInv, NEW n \in Issued
               PROVE  /\ Cardinality(Successors(n)) <= Cardinality(Calls)
                      /\ Successors(n) # {} => n \notin db
    BY DEF SuccessorBound, Successors
  <2>1. Cardinality(Successors(n)) + Cardinality(Finders(n)) <= Cardinality(Calls)
    BY DEF SuccInv, Bounded
  <2> QED
    BY <2>1, SetsFinite DEF SuccInv, OutForGood
<1> QED
  BY <1>2, <1>3, PTL

-----------------------------------------------------------------------------
(* The spinner: the request that restores the session of a tab stops it when it ends. *)

LEMMA ReceivesStopSpinner ==
  ASSUME Typed, Restoring, NEW c \in Calls, Receive(c)
  PROVE  \A t \in Tabs : tab'[t].loading =>
           tab[t].loading /\ (call[c].tab = t => call[c].kind # "restore")
<1>1. call[c] \in CallStates /\ tab \in [Tabs -> TabStates]
  BY DEF Typed, SessionTypeOK
<1>2. ASSUME NEW r \in TabStates, SetTab(c, r), call[c].tab \in Tabs,
             r.loading = Tab(c).loading \/ r.loading = FALSE,
             call[c].kind = "restore" => r.loading = FALSE
      PROVE  \A t \in Tabs : tab'[t].loading =>
               tab[t].loading /\ (call[c].tab = t => call[c].kind # "restore")
  BY <1>1, <1>2 DEF SetTab, Tab
<1>3. CASE tab' = tab /\ (call[c].kind = "restore" => call[c].tab \notin Tabs)
  BY <1>3
<1>4. CASE Dropped(c)
  BY <1>3, <1>4, NamesApart DEF Dropped
<1>5. CASE call[c].tab \in Tabs /\ ~Dropped(c)
  <2>1. Tab(c) \in TabStates
    BY <1>1, <1>5 DEF Tab
  <2> DEFINE left == [Tab(c) EXCEPT !.access = FALSE, !.leaving = TRUE]
             bare == [Tab(c) EXCEPT !.access = FALSE]
             good == [Tab(c) EXCEPT !.access = TRUE]
             inn == [Tab(c) EXCEPT !.access = TRUE, !.user = TRUE]
             out == [Tab(c) EXCEPT !.access = FALSE, !.user = FALSE]
             back == [Tab(c) EXCEPT !.access = TRUE, !.user = TRUE, !.loading = FALSE]
             stop == [Tab(c) EXCEPT !.loading = FALSE]
  <2>2. /\ \A r \in {left, bare, good, inn, out} : r \in TabStates /\ r.loading = Tab(c).loading
        /\ \A r \in {back, stop} : r \in TabStates /\ r.loading = FALSE
    BY <2>1 DEF TabStates
  <2>3. CASE call[c].kind = "restore"
    <3>1. ~At(c, "ok") /\ ~At(c, "401") /\ ~At(c, "error")
      BY <2>3 DEF Restoring, At
    <3>2. SetTab(c, back) \/ SetTab(c, stop)
      BY <1>5, <2>3, <3>1 DEF Receive, Answered, Failed, Unauthorized, Refreshed, Refused, Mine
    <3> HIDE DEF back, stop
    <3> QED
      BY <1>2, <1>5, <2>2, <3>2
  <2>4. CASE call[c].kind # "restore"
    <3>1. \/ tab' = tab \/ SetTab(c, left) \/ SetTab(c, bare) \/ SetTab(c, good)
          \/ SetTab(c, inn) \/ SetTab(c, out)
      <4>1. CASE Answered(c)
        <5>1. call[c].kind \in {"api", "login", "logout"}
          BY <1>1, <2>4 DEF CallStates
        <5> QED
          BY <4>1, <5>1 DEF Answered
      <4>2. CASE Failed(c) \/ Unauthorized(c)
        BY <4>2 DEF Failed, Unauthorized, Throws, ForceLogout
      <4>3. CASE Refreshed(c) \/ Refused(c)
        BY <2>4, <4>3 DEF Refreshed, Refused, ForceLogout
      <4> QED
        BY <1>5, <4>1, <4>2, <4>3 DEF Receive
    <3> HIDE DEF left, bare, good, inn, out
    <3> QED
      BY <1>2, <1>3, <1>5, <2>2, <2>4, <3>1
  <2> QED
    BY <2>3, <2>4
<1> QED
  BY <1>4, <1>5 DEF Receive, Answered, Failed, Unauthorized, Refreshed, Refused, Mine

LEMMA StepSpinner == Typed /\ Restoring /\ SpinnerWaits /\ [Next]_vars => SpinnerWaits'
<1> SUFFICES ASSUME Typed, Restoring, SpinnerWaits, [Next]_vars,
                    NEW t \in Tabs, tab'[t].loading
             PROVE  \E c \in Calls : call'[c].kind = "restore" /\ call'[c].tab = t /\ call'[c].at # "idle"
  BY DEF SpinnerWaits, At
<1>1. CallsTyped
  BY DEF Typed, SessionTypeOK, CallsTyped
<1>2. tab[t].loading => \E d \in Calls : call[d].kind = "restore" /\ call[d].tab = t /\ call[d].at # "idle"
  BY DEF SpinnerWaits, At
<1>3. CASE Starts
  <2>1. PICK c \in Calls, u \in Tabs : StartApi(c, u) \/ StartLogout(c, u) \/ StartLogin(c, u) \/ Load(u, c)
    BY <1>3 DEF Starts
  <2>2. CASE StartApi(c, u) \/ StartLogout(c, u) \/ StartLogin(c, u)
    <3>1. tab' = tab /\ \E kind \in {"api", "logout", "login"} : Starting(c, u, kind)
      BY <1>1, <2>2, StartEffect DEF StartApi, StartLogout, StartLogin
    <3> QED
      BY <1>2, <3>1 DEF Starting, Others, Moves
  <2>3. CASE Load(u, c)
    <3>1. /\ local # 0 => Restores(c, u)
          /\ \A d \in Calls : d # c \/ local = 0 => Abandoning(d, u)
      BY <1>1, <2>3, LoadEffect
    <3>2. CASE t = u
      <4>1. local # 0
        BY <2>3, <3>2 DEF Load, Fresh, Typed, SessionTypeOK
      <4> QED
        BY <3>1, <3>2, <4>1 DEF Restores, Moves
    <3>3. CASE t # u
      <4>1. tab'[t] = tab[t]
        BY <2>3, <3>3 DEF Load, Typed, SessionTypeOK
      <4> QED
        BY <1>2, <3>1, <3>3, <4>1 DEF Restores, Abandoning, SameOwner, Moves
    <3> QED
      BY <3>2, <3>3
  <2> QED
    BY <2>1, <2>2, <2>3
<1>4. CASE Serves
  <2>1. PICK c \in Calls : Serve(c) \/ Fails(c)
    BY <1>4 DEF Serves
  <2>2. Others(c) /\ SameOwner(c) /\ call'[c].at # "idle"
    BY <1>1, <2>1, AccessEffect, LoginEffect, FindEffect, DeleteEffect, CreateEffect, FailsEffect
       DEF Serve, Keeps, Refusing, Moves
  <2>3. tab' = tab
    BY <2>1 DEF Serve, ServeApi, ServeLogout, ServeLogin, FindToken, DeleteToken, CreateToken, Fails
  <2> QED
    BY <1>2, <2>2, <2>3 DEF Others, SameOwner
<1>5. CASE Receives
  <2>1. PICK c \in Calls : Receive(c)
    BY <1>5 DEF Receives
  <2>2. tab[t].loading /\ (call[c].tab = t => call[c].kind # "restore")
    BY <2>1, ReceivesStopSpinner
  <2>3. Others(c)
    BY <1>1, <2>1, ReceiveEffect DEF Ending, Resending, Refreshing
  <2> QED
    BY <1>2, <2>2, <2>3 DEF Others
<1>6. CASE Expires \/ UNCHANGED vars
  BY <1>2, <1>6 DEF Expires, RefreshExpires, vars
<1> QED
  BY <1>3, <1>4, <1>5, <1>6, NextParts

\* No page spins for ever because the request that would stop it is gone: a tab that loads
\* has a request of its own that restores its session.
THEOREM SpinnersStop == Spec => []SpinnerWaits
<1>1. Init => SpinnerWaits
  BY DEF Init, SpinnerWaits, Fresh
<1> QED
  BY <1>1, TypedAlways, StepSpinner, PTL DEF Spec

=============================================================================
