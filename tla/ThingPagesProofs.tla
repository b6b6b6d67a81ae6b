--------------------------- MODULE ThingPagesProofs ---------------------------
(***************************************************************************)
(* What holds of the page of a thing and of the notifications for any      *)
(* number of windows, handlers, groups, rules, devices and requests.       *)
(***************************************************************************)
EXTENDS MCThingPages, FiniteSetTheorems, TLAPS

-----------------------------------------------------------------------------
(* The page of a thing: its requests *)

Requests == {"get", "patch", "delete", "scan", "reveal"}
Places == {"idle", "sent", "good", "bad"}

\* No array holds a group twice, wherever a copy of it is.
Once(groupIds) == groupIds \in [Groups -> {0, 1}]
Doc(d) == d = None \/ (Once(d.groupIds) /\ d.channels \in Seq(1..MaxChannels))
Saving(body) ==
  \/ DOMAIN body = {"cred"} /\ body["cred"] \in Credentials
  \/ DOMAIN body = {"groupIds"} /\ Once(body["groupIds"])
  \/ DOMAIN body = {"channels"} /\ body["channels"] \in Seq(1..MaxChannels)

\* A request of no page is a write on its way; a spinner's flag is that of its request.
Request(r) ==
  /\ DOMAIN r = {"at", "req", "kind", "page", "body", "got"}
  /\ r.at \in Places /\ r.req \in Requests /\ r.page \in Pages \cup {None}
  /\ r.page = None => r.at = "idle" \/ (r.at = "sent" /\ r.req \in {"patch", "delete"})
  /\ r.req = "patch" => Saving(r.body)
  /\ r.req = "get" /\ r.at = "good" => r.got \in Views /\ Doc(r.got)
  /\ r.req = "reveal" => r.kind = "reveal" /\ (r.at = "good" => r.got \in Credentials)
  /\ r.req \in {"patch", "delete", "scan"} => r.kind \notin {"load", "reveal"}
  /\ r.req = "scan" => r.kind = "scan"
CallsTyped == DOMAIN call = Calls /\ \A c \in Calls : Request(call[c])

Shown(r) ==
  /\ DOMAIN r = {"open", "shown", "form", "revealed", "busy"}
  /\ r.open \in BOOLEAN /\ r.shown \in Views \cup {None} /\ Doc(r.shown)
  /\ r.form \in Credentials /\ r.revealed \in Credentials \cup {None}
  /\ r.busy \subseteq Flags \cup {"load"}
PagesTyped == DOMAIN page = Pages /\ \A p \in Pages : Shown(page[p])

ThingTyped == thing \in Things \cup {None} /\ Doc(thing) /\ calm \subseteq Pages /\ starts \in 0..MaxStarts

Typed == ThingTyped /\ PagesTyped /\ CallsTyped

-----------------------------------------------------------------------------
(* A page that is not disturbed *)

Writes == {c \in Busy : call[c].req \in {"patch", "delete"}}
Gets(p) == {c \in Of(p) : call[c].req = "get"}
Reveals(p) == {c \in Of(p) : call[c].req = "reveal"}
Answered == \E c \in Writes : call[c].at = "good"

\* While the thing is read nothing is written, and the page shows no credentials.
Loading(p, c) ==
  /\ Gets(p) = {c} /\ Writes = {} /\ Reveals(p) = {}
  /\ "load" \in page[p].busy /\ page[p].revealed = None
  /\ thing = None => page[p].shown = None
  /\ call[c].at = "good" => call[c].got = View(thing) /\ thing # None
  /\ call[c].at = "bad" => thing = None

Current(p) ==
  /\ page[p].shown = View(thing)
  /\ page[p].revealed # None => page[p].revealed = thing.cred
  /\ \A c \in Reveals(p) : call[c].at = "good" => call[c].got = thing.cred

Quiet(p) ==
  /\ \A c, d \in Writes : c = d /\ call[c].page = p
  /\ \A c \in Writes : call[c].req = "patch" /\ call[c].at = "good" => thing # None
  /\ \A c \in Gets(p) : Loading(p, c)
  /\ Gets(p) = {} /\ ~Answered => Current(p)
QuietPages == \A p \in calm : page[p].open => Quiet(p)

ThingInv == Typed /\ BusyWaits /\ QuietPages

-----------------------------------------------------------------------------
(* Effects, field by field *)

\* A slot or a page that is replaced, and the others.
LEMMA CallReplaced ==
  ASSUME NEW c \in Calls, NEW STATE r, DOMAIN call = Calls, call' = [call EXCEPT ![c] = r]
  PROVE  DOMAIN call' = Calls /\ call'[c] = r /\ \A d \in Calls \ {c} : call'[d] = call[d]
OBVIOUS

LEMMA PageReplaced ==
  ASSUME NEW p \in Pages, NEW STATE r, DOMAIN page = Pages, page' = [page EXCEPT ![p] = r]
  PROVE  DOMAIN page' = Pages /\ page'[p] = r /\ \A q \in Pages \ {p} : page'[q] = page[q]
OBVIOUS

\* A row that is taken out leaves a list of the same kind.
LEMMA RemoveAtIsList ==
  ASSUME NEW S, NEW s \in Seq(S), NEW i \in DOMAIN s
  PROVE  RemoveAt(s, i) \in Seq(S)
<1>1. SubSeq(s, 1, i - 1) \in Seq(S)
  OBVIOUS
<1>2. SubSeq(s, i + 1, Len(s)) \in Seq(S)
  OBVIOUS
<1> QED
  BY <1>1, <1>2 DEF RemoveAt

LEMMA IdleIsRequest == Request(Idle)
BY DEF Request, Idle, Places, Requests

\* What a closed page and a page that reloads look like.
LEMMA NothingIsTyped == NoCredentials \in Credentials
BY DEF NoCredentials, Credentials

LEMMA ClosedIsShown == Shown(Closed)
BY NothingIsTyped DEF Shown, Closed, Doc

LEMMA Reloads ==
  ASSUME NEW STATE r, Shown(r)
  PROVE  /\ Shown(Reload(r)) /\ Reload(r).open = r.open /\ Reload(r).shown = r.shown
         /\ Reload(r).revealed = None /\ Reload(r).busy = (r.busy \cup {"load"}) \ {"reveal"}
BY DEF Shown, Reload

\* A page that opens reads the thing.
LEMMA OpenEffects ==
  ASSUME Typed, NEW p \in Pages, NEW c \in Calls, Open(p, c)
  PROVE  /\ PagesTyped' /\ CallsTyped' /\ call[c].at = "idle" /\ ~page[p].open
         /\ page'[p].revealed = None /\ page'[p].shown = None /\ page'[p].busy = {"load"}
         /\ \A q \in Pages \ {p} : page'[q] = page[q]
         /\ call'[c].at = "sent" /\ call'[c].req = "get" /\ call'[c].page = p
         /\ \A d \in Calls \ {c} : call'[d] = call[d]
<1> DEFINE r == [Closed EXCEPT !.open = TRUE]
           q == [Idle EXCEPT !.at = "sent", !.page = p]
<1>1. Shown(r) /\ r.shown = None /\ r.busy = {}
  BY NothingIsTyped DEF Shown, Closed, Doc
<1>2. /\ Shown(Reload(r)) /\ Reload(r).shown = None /\ Reload(r).revealed = None
      /\ Reload(r).busy = {"load"}
  BY <1>1, Reloads
<1>3. Request(q) /\ q.at = "sent" /\ q.req = "get" /\ q.page = p
  BY PageAssumption DEF Request, Idle, Places, Requests, NoneIsNothing
<1> HIDE DEF r, q
<1>4. /\ page' = [page EXCEPT ![p] = Reload(r)] /\ call' = [call EXCEPT ![c] = q]
      /\ call[c].at = "idle" /\ ~page[p].open
  BY DEF Open, r, q
<1>5. DOMAIN page = Pages /\ DOMAIN call = Calls
  BY DEF Typed, PagesTyped, CallsTyped
<1>6. DOMAIN page' = Pages /\ page'[p] = Reload(r) /\ \A o \in Pages \ {p} : page'[o] = page[o]
  BY <1>4, <1>5, PageReplaced
<1>7. DOMAIN call' = Calls /\ call'[c] = q /\ \A d \in Calls \ {c} : call'[d] = call[d]
  BY <1>4, <1>5, CallReplaced
<1> QED
  BY <1>2, <1>3, <1>4, <1>6, <1>7 DEF Typed, PagesTyped, CallsTyped

\* What nobody waits for: a write that was sent goes on, nothing else.
LEMMA Orphans ==
  ASSUME Typed, NEW S, NEW d \in Calls
  PROVE  /\ Request(Orphan(S)[d]) /\ DOMAIN Orphan(S) = Calls
         /\ d \notin S => Orphan(S)[d] = call[d]
         /\ d \in S => /\ Orphan(S)[d].at = "idle" \/ Orphan(S)[d].page = None
                       /\ Orphan(S)[d].at # "idle" =>
                            /\ Orphan(S)[d].at = "sent" /\ call[d].at = "sent"
                            /\ Orphan(S)[d].req = call[d].req
                            /\ call[d].req \in {"patch", "delete"}
<1>1. CASE d \in S /\ call[d].at = "sent" /\ call[d].req \in {"patch", "delete"}
  <2> DEFINE r == [call[d] EXCEPT !.page = None]
  <2>1. Orphan(S)[d] = r
    BY <1>1 DEF Orphan
  <2>2. Request(call[d])
    BY DEF Typed, CallsTyped
  <2>3. Request(r) /\ r.page = None /\ r.at = "sent" /\ r.req = call[d].req
    BY <1>1, <2>2 DEF Request
  <2> QED
    BY <1>1, <2>1, <2>3 DEF Orphan
<1>2. CASE d \in S /\ ~(call[d].at = "sent" /\ call[d].req \in {"patch", "delete"})
  <2>1. Orphan(S)[d] = Idle
    BY <1>2 DEF Orphan
  <2> QED
    BY <1>2, <2>1, IdleIsRequest DEF Orphan, Idle
<1>3. CASE d \notin S
  BY <1>3 DEF Orphan, Typed, CallsTyped
<1> QED
  BY <1>1, <1>2, <1>3

\* A request is sent with the flag of its button.
LEMMA StartEffects ==
  ASSUME Typed, NEW p \in Pages, NEW c \in Calls, NEW CONSTANT kind, NEW CONSTANT req, NEW STATE body,
         req \in Requests \ {"get"}, req = "patch" => Saving(body),
         req = "reveal" => kind = "reveal", req = "scan" => kind = "scan",
         req \in {"patch", "delete", "scan"} => kind \notin {"load", "reveal"},
         Start(p, c, kind, req, body)
  PROVE  /\ PagesTyped' /\ CallsTyped' /\ call[c].at = "idle"
         /\ page'[p].open = page[p].open /\ page'[p].shown = page[p].shown
         /\ page'[p].revealed = page[p].revealed
         /\ page'[p].busy = page[p].busy \cup ({kind} \cap Flags)
         /\ \A q \in Pages \ {p} : page'[q] = page[q]
         /\ call'[c].at = "sent" /\ call'[c].req = req /\ call'[c].kind = kind /\ call'[c].page = p
         /\ \A d \in Calls \ {c} : call'[d] = call[d]
<1> DEFINE r == [page[p] EXCEPT !.busy = @ \cup ({kind} \cap Flags)]
           q == [Idle EXCEPT !.at = "sent", !.req = req, !.kind = kind, !.page = p, !.body = body]
<1>1. Shown(page[p])
  BY DEF Typed, PagesTyped
<1>2. /\ Shown(r) /\ r.open = page[p].open /\ r.shown = page[p].shown /\ r.revealed = page[p].revealed
      /\ r.busy = page[p].busy \cup ({kind} \cap Flags)
  BY <1>1 DEF Shown
<1>3. Request(q) /\ q.at = "sent" /\ q.req = req /\ q.kind = kind /\ q.page = p
  BY PageAssumption DEF Request, Idle, Places, Requests, NoneIsNothing
<1> HIDE DEF r, q
<1>4. /\ page' = [page EXCEPT ![p] = r] /\ call' = [call EXCEPT ![c] = q]
      /\ call[c].at = "idle"
  BY DEF Start, r, q, Typed, PagesTyped
<1>5. DOMAIN page = Pages /\ DOMAIN call = Calls
  BY DEF Typed, PagesTyped, CallsTyped
<1>6. DOMAIN page' = Pages /\ page'[p] = r /\ \A o \in Pages \ {p} : page'[o] = page[o]
  BY <1>4, <1>5, PageReplaced
<1>7. DOMAIN call' = Calls /\ call'[c] = q /\ \A d \in Calls \ {c} : call'[d] = call[d]
  BY <1>4, <1>5, CallReplaced
<1> QED
  BY <1>2, <1>3, <1>4, <1>6, <1>7 DEF Typed, PagesTyped, CallsTyped

\* A request meets the API.
LEMMA GoEffects ==
  ASSUME Typed, NEW c \in Calls, NEW STATE at, NEW STATE got, Go(c, at, got)
  PROVE  /\ DOMAIN call' = Calls
         /\ DOMAIN call'[c] = DOMAIN call[c]
         /\ call'[c].at = at /\ call'[c].got = got /\ call'[c].req = call[c].req
         /\ call'[c].kind = call[c].kind /\ call'[c].page = call[c].page
         /\ call'[c].body = call[c].body
         /\ \A d \in Calls \ {c} : call'[d] = call[d]
<1> DEFINE r == [call[c] EXCEPT !.at = at, !.got = got]
<1>1. DOMAIN call[c] = {"at", "req", "kind", "page", "body", "got"} /\ DOMAIN call = Calls
  BY DEF Typed, CallsTyped, Request
<1>2. /\ DOMAIN r = DOMAIN call[c] /\ r.at = at /\ r.got = got /\ r.req = call[c].req
      /\ r.kind = call[c].kind /\ r.page = call[c].page /\ r.body = call[c].body
  BY <1>1
<1>3. call' = [call EXCEPT ![c] = r]
  BY <1>1 DEF Go
<1> HIDE DEF r
<1>4. DOMAIN call' = Calls /\ call'[c] = r /\ \A d \in Calls \ {c} : call'[d] = call[d]
  BY <1>1, <1>3, CallReplaced
<1> QED
  BY <1>2, <1>4

LEMMA EndEffects ==
  ASSUME Typed, NEW c \in Calls, End(c)
  PROVE  CallsTyped' /\ call'[c] = Idle /\ \A d \in Calls \ {c} : call'[d] = call[d]
BY IdleIsRequest, CallReplaced DEF Typed, CallsTyped, End

\* The API answers the page, if there is one.
LEMMA ReplyEffects ==
  ASSUME Typed, NEW c \in Calls, NEW STATE got, call[c].at = "sent", Reply(c, got),
         call[c].req = "get" /\ thing # None => got \in Views /\ Doc(got),
         call[c].req = "reveal" /\ thing # None => got \in Credentials
  PROVE  /\ CallsTyped'
         /\ \A d \in Calls \ {c} : call'[d] = call[d]
         /\ call[c].page = None => call'[c] = Idle
         /\ call[c].page # None => /\ call'[c].at = (IF thing = None THEN "bad" ELSE "good")
                                   /\ call'[c].got = got /\ call'[c].req = call[c].req
                                   /\ call'[c].kind = call[c].kind /\ call'[c].page = call[c].page
<1>1. CASE call[c].page = None
  BY <1>1, EndEffects DEF Reply
<1>2. CASE call[c].page # None
  <2>1. /\ DOMAIN call' = Calls
        /\ DOMAIN call'[c] = DOMAIN call[c]
        /\ call'[c].at = (IF thing = None THEN "bad" ELSE "good")
        /\ call'[c].got = got /\ call'[c].req = call[c].req
        /\ call'[c].kind = call[c].kind /\ call'[c].page = call[c].page
        /\ call'[c].body = call[c].body
        /\ \A d \in Calls \ {c} : call'[d] = call[d]
    <3>1. Go(c, IF thing = None THEN "bad" ELSE "good", got)
      BY <1>2 DEF Reply
    <3> QED
      BY <3>1, GoEffects
  <2>2. Request(call[c])
    BY DEF Typed, CallsTyped
  <2>3. Request(call'[c])
    BY <1>2, <2>1, <2>2 DEF Request, Places
  <2> QED
    BY <1>2, <2>1, <2>3 DEF Typed, CallsTyped
<1> QED
  BY <1>1, <1>2

LEMMA FailEffects ==
  ASSUME Typed, NEW c \in Calls, Fails(c)
  PROVE  /\ CallsTyped'
         /\ \A d \in Calls \ {c} : call'[d] = call[d]
         /\ call[c].page = None => call'[c] = Idle
         /\ call[c].page # None => /\ call'[c].at = "bad" /\ call'[c].req = call[c].req
                                   /\ call'[c].kind = call[c].kind /\ call'[c].page = call[c].page
<1>1. CASE call[c].page = None
  BY <1>1, EndEffects DEF Fails
<1>2. CASE call[c].page # None
  <2>1. /\ DOMAIN call' = Calls
        /\ DOMAIN call'[c] = DOMAIN call[c] /\ call'[c].at = "bad"
        /\ call'[c].req = call[c].req
        /\ call'[c].kind = call[c].kind /\ call'[c].page = call[c].page
        /\ call'[c].body = call[c].body
        /\ \A d \in Calls \ {c} : call'[d] = call[d]
    BY <1>2, GoEffects DEF Fails
  <2>2. Request(call[c])
    BY DEF Typed, CallsTyped
  <2>3. Request(call'[c])
    BY <1>2, <2>1, <2>2 DEF Request, Places
  <2> QED
    BY <1>2, <2>1, <2>3 DEF Typed, CallsTyped
<1> QED
  BY <1>1, <1>2

\* What an answer is met by.
LEMMA AnswerOfPage ==
  ASSUME Typed, NEW c \in Calls, call[c].at \in {"good", "bad"} \/ Sent(c, "get") \/ Sent(c, "reveal")
                                   \/ Sent(c, "scan")
  PROVE  call[c].page \in Pages
BY PageAssumption DEF Typed, CallsTyped, Request, NoneIsNothing, Sent

LEMMA SetPageEffects ==
  ASSUME Typed, NEW c \in Calls, call[c].at \in {"good", "bad"}, NEW STATE r, Shown(r), SetPage(c, r)
  PROVE  /\ PagesTyped' /\ page'[call[c].page] = r
         /\ \A q \in Pages \ {call[c].page} : page'[q] = page[q]
<1>1. call[c].page \in Pages
  BY AnswerOfPage
<1>2. PICK p \in Pages : p = call[c].page
  BY <1>1
<1>3. DOMAIN page = Pages
  BY DEF Typed, PagesTyped
<1>4. DOMAIN page' = Pages /\ page'[p] = r /\ \A q \in Pages \ {p} : page'[q] = page[q]
  BY <1>2, <1>3, PageReplaced DEF SetPage
<1> QED
  BY <1>2, <1>4 DEF Typed, PagesTyped

\* What a page makes of what was read.
LEMMA LoadedEffects ==
  ASSUME Typed, NEW c \in Calls, Loaded(c)
  PROVE  /\ PagesTyped' /\ CallsTyped' /\ call[c].page \in Pages
         /\ page'[call[c].page].open = page[call[c].page].open
         /\ page'[call[c].page].shown = call[c].got
         /\ page'[call[c].page].revealed = page[call[c].page].revealed
         /\ page'[call[c].page].busy = page[call[c].page].busy \ {"load", call[c].kind}
         /\ \A q \in Pages \ {call[c].page} : page'[q] = page[q]
         /\ call'[c] = Idle /\ \A d \in Calls \ {c} : call'[d] = call[d]
<1> DEFINE o == page[call[c].page]
           r == [o EXCEPT !.shown = call[c].got, !.busy = @ \ Settle(c), !.form = NoCredentials]
<1>1. call[c].at = "good" /\ call[c].req = "get" /\ SetPage(c, r) /\ End(c)
  BY DEF Loaded, Good, Page
<1>2. call[c].page \in Pages /\ Request(call[c])
  BY <1>1, AnswerOfPage DEF Typed, CallsTyped
<1>3. Shown(o)
  BY <1>2 DEF Typed, PagesTyped
<1>4. /\ Shown(r) /\ r.open = o.open /\ r.shown = call[c].got /\ r.revealed = o.revealed
      /\ r.busy = o.busy \ {"load", call[c].kind}
  BY <1>1, <1>2, <1>3, NothingIsTyped DEF Shown, Request, Settle
<1> HIDE DEF o, r
<1>5. /\ PagesTyped' /\ page'[call[c].page] = r
      /\ \A q \in Pages \ {call[c].page} : page'[q] = page[q]
  BY <1>1, <1>4, SetPageEffects
<1>6. CallsTyped' /\ call'[c] = Idle /\ \A d \in Calls \ {c} : call'[d] = call[d]
  BY <1>1, EndEffects
<1> QED
  BY <1>2, <1>4, <1>5, <1>6 DEF o

\* A page that ends a handler otherwise keeps what it shows.
LEMMA EndedEffects ==
  ASSUME Typed, NEW c \in Calls,
         \/ Scanned(c) /\ call[c].kind = "scan"
         \/ Refused(c)
  PROVE  /\ PagesTyped' /\ CallsTyped' /\ call[c].page \in Pages
         /\ page'[call[c].page].open = page[call[c].page].open
         /\ page'[call[c].page].shown = page[call[c].page].shown
         /\ page'[call[c].page].revealed = page[call[c].page].revealed
         /\ page'[call[c].page].busy = page[call[c].page].busy
              \ (IF call[c].req = "get" THEN {"load", call[c].kind} ELSE {call[c].kind})
         /\ \A q \in Pages \ {call[c].page} : page'[q] = page[q]
         /\ call'[c] = Idle /\ \A d \in Calls \ {c} : call'[d] = call[d]
<1> DEFINE o == page[call[c].page]
           r == [o EXCEPT !.busy = @ \ (IF call[c].req = "get" THEN {"load", call[c].kind} ELSE {call[c].kind})]
<1>1. call[c].at \in {"good", "bad"} /\ SetPage(c, r) /\ End(c)
  <2>1. CASE Scanned(c) /\ call[c].kind = "scan"
    BY <2>1 DEF Scanned, Good, Page
  <2>2. CASE Refused(c)
    BY <2>2 DEF Refused, Page, Settle
  <2> QED
    BY <2>1, <2>2
<1>2. call[c].page \in Pages
  BY <1>1, AnswerOfPage
<1>3. Shown(o)
  BY <1>2 DEF Typed, PagesTyped
<1>4. /\ Shown(r) /\ r.open = o.open /\ r.shown = o.shown /\ r.revealed = o.revealed
      /\ r.busy = o.busy \ (IF call[c].req = "get" THEN {"load", call[c].kind} ELSE {call[c].kind})
  BY <1>3 DEF Shown
<1> HIDE DEF o, r
<1>5. /\ PagesTyped' /\ page'[call[c].page] = r
      /\ \A q \in Pages \ {call[c].page} : page'[q] = page[q]
  BY <1>1, <1>4, SetPageEffects
<1>6. CallsTyped' /\ call'[c] = Idle /\ \A d \in Calls \ {c} : call'[d] = call[d]
  BY <1>1, EndEffects
<1> QED
  BY <1>2, <1>4, <1>5, <1>6 DEF o

LEMMA RevealedEffects ==
  ASSUME Typed, NEW c \in Calls, Revealed(c)
  PROVE  /\ PagesTyped' /\ CallsTyped' /\ call[c].page \in Pages
         /\ page'[call[c].page].open = page[call[c].page].open
         /\ page'[call[c].page].shown = page[call[c].page].shown
         /\ page'[call[c].page].revealed = call[c].got
         /\ page'[call[c].page].busy = page[call[c].page].busy \ {"reveal"}
         /\ \A q \in Pages \ {call[c].page} : page'[q] = page[q]
         /\ call'[c] = Idle /\ \A d \in Calls \ {c} : call'[d] = call[d]
<1> DEFINE o == page[call[c].page]
           r == [o EXCEPT !.revealed = call[c].got, !.busy = @ \ {"reveal"}]
<1>1. call[c].at = "good" /\ call[c].req = "reveal" /\ SetPage(c, r) /\ End(c)
  BY DEF Revealed, Good, Page
<1>2. call[c].page \in Pages /\ Request(call[c])
  BY <1>1, AnswerOfPage DEF Typed, CallsTyped
<1>3. Shown(o)
  BY <1>2 DEF Typed, PagesTyped
<1>4. /\ Shown(r) /\ r.open = o.open /\ r.shown = o.shown /\ r.revealed = call[c].got
      /\ r.busy = o.busy \ {"reveal"}
  BY <1>1, <1>2, <1>3 DEF Shown, Request
<1> HIDE DEF o, r
<1>5. /\ PagesTyped' /\ page'[call[c].page] = r
      /\ \A q \in Pages \ {call[c].page} : page'[q] = page[q]
  BY <1>1, <1>4, SetPageEffects
<1>6. CallsTyped' /\ call'[c] = Idle /\ \A d \in Calls \ {c} : call'[d] = call[d]
  BY <1>1, EndEffects
<1> QED
  BY <1>2, <1>4, <1>5, <1>6 DEF o

\* A page that saved reads the thing again, and shows no credentials meanwhile.
LEMMA SavedEffects ==
  ASSUME Typed, NEW c \in Calls, Saved(c)
  PROVE  /\ PagesTyped' /\ CallsTyped' /\ call[c].page \in Pages
         /\ page'[call[c].page].open = page[call[c].page].open
         /\ page'[call[c].page].shown = page[call[c].page].shown
         /\ page'[call[c].page].revealed = None
         /\ page'[call[c].page].busy = (page[call[c].page].busy \cup {"load"}) \ {"reveal"}
         /\ \A q \in Pages \ {call[c].page} : page'[q] = page[q]
         /\ call'[c].at = "sent" /\ call'[c].req = "get" /\ call'[c].kind = call[c].kind
         /\ call'[c].page = call[c].page
         /\ \A d \in Calls \ {c} :
              IF d \in Of(call[c].page) /\ call[d].req = "reveal" THEN call'[d] = Idle
              ELSE call'[d] = call[d]
<1> DEFINE o == page[call[c].page]
           S == {d \in Of(call[c].page) : call[d].req = "reveal"}
           r == [call[c] EXCEPT !.at = "sent", !.req = "get", !.body = << >>]
<1>1. /\ call[c].at = "good" /\ call[c].req = "patch" /\ SetPage(c, Reload(o))
      /\ call' = [Orphan(S) EXCEPT ![c] = [@ EXCEPT !.at = "sent", !.req = "get", !.body = << >>]]
  BY DEF Saved, Good, Page
<1>2. call[c].page \in Pages /\ Request(call[c])
  BY <1>1, AnswerOfPage DEF Typed, CallsTyped
<1>3. Shown(o)
  BY <1>2 DEF Typed, PagesTyped
<1>4. /\ Shown(Reload(o)) /\ Reload(o).open = o.open /\ Reload(o).shown = o.shown
      /\ Reload(o).revealed = None /\ Reload(o).busy = (o.busy \cup {"load"}) \ {"reveal"}
  BY <1>3, Reloads
<1>5. /\ PagesTyped' /\ page'[call[c].page] = Reload(o)
      /\ \A q \in Pages \ {call[c].page} : page'[q] = page[q]
  BY <1>1, <1>4, SetPageEffects
<1>6. Request(r) /\ r.at = "sent" /\ r.req = "get" /\ r.kind = call[c].kind /\ r.page = call[c].page
  BY <1>1, <1>2, PageAssumption DEF Request, Places, Requests, NoneIsNothing
<1>7. Orphan(S)[c] = call[c] /\ DOMAIN Orphan(S) = Calls
  BY <1>1, Orphans
<1>8. \A d \in Calls \ {c} : IF d \in S THEN call'[d] = Idle ELSE call'[d] = call[d]
  BY <1>1 DEF Orphan
<1>9. call'[c] = r /\ DOMAIN call' = Calls
  BY <1>1, <1>7
<1> HIDE DEF o, r
<1>10. CallsTyped'
  BY <1>6, <1>8, <1>9, IdleIsRequest DEF Typed, CallsTyped
<1>11. \A d \in Calls \ {c} :
         IF d \in Of(call[c].page) /\ call[d].req = "reveal" THEN call'[d] = Idle
         ELSE call'[d] = call[d]
  BY <1>8
<1> QED
  BY <1>2, <1>4, <1>5, <1>6, <1>9, <1>10, <1>11 DEF o

\* A page that closes.
LEMMA ClosesEffects ==
  ASSUME Typed, NEW p \in Pages, Leave(p) \/ \E c \in Calls : Deleted(c) /\ p = call[c].page
  PROVE  /\ PagesTyped' /\ CallsTyped' /\ ~page'[p].open /\ page'[p].busy = {}
         /\ \A q \in Pages \ {p} : page'[q] = page[q]
         /\ \A d \in Calls : /\ d \notin Of(p) => call'[d] = call[d]
                             /\ d \in Of(p) => /\ call'[d].at = "idle" \/ call'[d].page = None
                                               /\ call'[d].at # "idle" =>
                                                    /\ call'[d].at = "sent" /\ call[d].at = "sent"
                                                    /\ call'[d].req = call[d].req
                                                    /\ call[d].req \in {"patch", "delete"}
<1>0. DOMAIN page = Pages /\ DOMAIN call = Calls /\ Shown(Closed) /\ ~Closed.open /\ Closed.busy = {}
  BY ClosedIsShown DEF Typed, PagesTyped, CallsTyped, Closed
<1>1. CASE Leave(p)
  <2>1. page' = [page EXCEPT ![p] = Closed] /\ call' = Orphan(Of(p))
    BY <1>1 DEF Leave
  <2>2. DOMAIN page' = Pages /\ page'[p] = Closed /\ \A q \in Pages \ {p} : page'[q] = page[q]
    BY <1>0, <2>1, PageReplaced
  <2>3. PagesTyped' /\ ~page'[p].open /\ page'[p].busy = {}
    BY <1>0, <2>2 DEF Typed, PagesTyped
  <2>4. DOMAIN call' = Calls
    BY <1>0, <2>1 DEF Orphan
  <2>5. CallsTyped'
    BY <2>1, <2>4, Orphans DEF CallsTyped
  <2> QED
    BY <2>1, <2>2, <2>3, <2>5, Orphans
<1>2. CASE \E c \in Calls : Deleted(c) /\ p = call[c].page
  <2>1. PICK c \in Calls : Deleted(c) /\ p = call[c].page
    BY <1>2
  <2>2. /\ call[c].at = "good" /\ SetPage(c, Closed)
        /\ call' = [Orphan(Of(p)) EXCEPT ![c] = Idle]
    BY <2>1 DEF Deleted, Good
  <2>3. PagesTyped' /\ page'[p] = Closed /\ \A q \in Pages \ {p} : page'[q] = page[q]
    BY <1>0, <2>1, <2>2, SetPageEffects
  <2>4. c \in Of(p)
    BY <2>1, <2>2 DEF Of, Busy
  <2>5. DOMAIN Orphan(Of(p)) = Calls
    BY <2>4, Orphans
  <2>6. DOMAIN call' = Calls /\ call'[c] = Idle /\ \A d \in Calls \ {c} : call'[d] = Orphan(Of(p))[d]
    BY <2>2, <2>5
  <2>7. CallsTyped'
    BY <2>6, Orphans, IdleIsRequest DEF CallsTyped
  <2> QED
    BY <1>0, <2>3, <2>4, <2>6, <2>7, Orphans DEF Idle
<1> QED
  BY <1>1, <1>2

LEMMA TypeEffects ==
  ASSUME Typed, NEW p \in Pages, NEW o \in Parts, NEW k \in Secrets \cup {None}, Type(p, o, k)
  PROVE  /\ PagesTyped' /\ UNCHANGED <<thing, call, calm, starts>>
         /\ page'[p].open = page[p].open /\ page'[p].shown = page[p].shown
         /\ page'[p].revealed = page[p].revealed /\ page'[p].busy = page[p].busy
         /\ \A q \in Pages \ {p} : page'[q] = page[q]
<1> DEFINE form == [page[p].form EXCEPT ![o] = k]
           r == [page[p] EXCEPT !.form = form]
<1>1. Shown(page[p]) /\ DOMAIN page = Pages
  BY DEF Typed, PagesTyped
<1>5. form \in Credentials
  BY <1>1 DEF Shown, Credentials
<1>2. /\ Shown(r) /\ r.open = page[p].open /\ r.shown = page[p].shown
      /\ r.revealed = page[p].revealed /\ r.busy = page[p].busy
  BY <1>1, <1>5 DEF Shown
<1>3. page' = [page EXCEPT ![p] = r] /\ UNCHANGED <<thing, call, calm, starts>>
  BY <1>1 DEF Type, Shown
<1> HIDE DEF r, form
<1>4. DOMAIN page' = Pages /\ page'[p] = r /\ \A q \in Pages \ {p} : page'[q] = page[q]
  BY <1>1, <1>3, PageReplaced
<1> QED
  BY <1>2, <1>3, <1>4 DEF Typed, PagesTyped

\* A second click on the button of the credentials.
LEMMA HideEffects ==
  ASSUME Typed, NEW p \in Pages, page' = [page EXCEPT ![p].revealed = None]
  PROVE  /\ PagesTyped'
         /\ page'[p].open = page[p].open /\ page'[p].shown = page[p].shown
         /\ page'[p].revealed = None /\ page'[p].busy = page[p].busy
         /\ \A q \in Pages \ {p} : page'[q] = page[q]
<1> DEFINE r == [page[p] EXCEPT !.revealed = None]
<1>1. Shown(page[p]) /\ DOMAIN page = Pages
  BY DEF Typed, PagesTyped
<1>2. /\ Shown(r) /\ r.open = page[p].open /\ r.shown = page[p].shown
      /\ r.revealed = None /\ r.busy = page[p].busy
  BY <1>1 DEF Shown
<1>3. page' = [page EXCEPT ![p] = r]
  BY <1>1
<1> HIDE DEF r
<1>4. DOMAIN page' = Pages /\ page'[p] = r /\ \A q \in Pages \ {p} : page'[q] = page[q]
  BY <1>1, <1>3, PageReplaced
<1> QED
  BY <1>2, <1>4 DEF Typed, PagesTyped

\* Every button that writes computes an array or a form of its kind from what is shown.
Writer(p, c) ==
  \/ handleEdit(p, c) \/ handleDelete(p, c) \/ handleAddChannel(p, c) \/ handleRemoveChannel(p, c)
  \/ handleAddToGroup(p, c) \/ handleRemoveFromGroup(p, c)
Kinds == {"edit", "delete", "channel", "unchannel", "group", "ungroup"}

LEMMA WriterSends ==
  ASSUME Typed, NEW p \in Pages, NEW c \in Calls, Writer(p, c)
  PROVE  \E kind \in Kinds, req \in {"patch", "delete"} : \E body :
           (req = "patch" => Saving(body)) /\ Write(p, c, kind, req, body)
<1> DEFINE Goal == \E kind \in Kinds, req \in {"patch", "delete"} : \E body :
                     (req = "patch" => Saving(body)) /\ Write(p, c, kind, req, body)
<1>0. Shown(page[p])
  BY DEF Typed, PagesTyped
<1>1. ASSUME handleDelete(p, c) PROVE Goal
  BY <1>1 DEF handleDelete, Kinds
<1>2. ASSUME NEW kind \in Kinds, NEW field \in {"cred", "groupIds", "channels"}, NEW STATE value,
             Patch(p, c, kind, field, value), Saving([f \in {field} |-> value])
      PROVE  Goal
  BY <1>2 DEF Patch
<1>3. ASSUME NEW STATE value, Once(value) PROVE Saving([f \in {"groupIds"} |-> value])
  BY <1>3 DEF Saving
<1>4. ASSUME NEW STATE value, value \in Seq(1..MaxChannels) PROVE Saving([f \in {"channels"} |-> value])
  BY <1>4 DEF Saving
<1> SUFFICES Goal
  OBVIOUS
<1> HIDE DEF Goal
<1>5. CASE handleEdit(p, c)
  <2>1. Saving([f \in {"cred"} |-> page[p].form])
    BY <1>0 DEF Saving, Shown
  <2> QED
    BY <1>2, <1>5, <2>1 DEF handleEdit, Kinds
<1>6. ASSUME Ready(p)
      PROVE  Once(page[p].shown.groupIds) /\ page[p].shown.channels \in Seq(1..MaxChannels)
  BY <1>0, <1>6 DEF Shown, Ready, Doc
<1>7. CASE handleAddChannel(p, c)
  <2>1. channelForm(page[p].shown.channels) \in Seq(1..MaxChannels)
    BY <1>6, <1>7, PageAssumption DEF handleAddChannel, channelForm, PageBounds
  <2> QED
    BY <1>2, <1>4, <1>7, <2>1 DEF handleAddChannel, Kinds
<1>8. CASE handleRemoveChannel(p, c)
  <2>1. PICK i \in Rows(p) : Patch(p, c, "unchannel", "channels", RemoveAt(page[p].shown.channels, i))
    BY <1>8 DEF handleRemoveChannel
  <2>2. RemoveAt(page[p].shown.channels, i) \in Seq(1..MaxChannels)
    BY <1>6, <1>8, <2>1, RemoveAtIsList DEF handleRemoveChannel, Rows
  <2> QED
    BY <1>2, <1>4, <2>1, <2>2 DEF Kinds
<1>9. CASE handleAddToGroup(p, c)
  <2>1. PICK g \in Groups \ assignedGroups(p) :
          Patch(p, c, "group", "groupIds", Added(page[p].shown.groupIds, g))
    BY <1>9 DEF handleAddToGroup
  <2>2. Once(Added(page[p].shown.groupIds, g))
    BY <1>6, <1>9, <2>1 DEF handleAddToGroup, Once, Added, assignedGroups
  <2> QED
    BY <1>2, <1>3, <2>1, <2>2 DEF Kinds
<1>10. CASE handleRemoveFromGroup(p, c)
  <2>1. PICK g \in assignedGroups(p) :
          Patch(p, c, "ungroup", "groupIds", Removed(page[p].shown.groupIds, g))
    BY <1>10 DEF handleRemoveFromGroup
  <2>2. Once(Removed(page[p].shown.groupIds, g))
    BY <1>6, <1>10, <2>1 DEF handleRemoveFromGroup, Once, Removed, assignedGroups
  <2> QED
    BY <1>2, <1>3, <2>1, <2>2 DEF Kinds
<1> QED
  BY <1>1, <1>5, <1>7, <1>8, <1>9, <1>10 DEF Writer

\* What a page sends: the request of a write, a scan, or a reveal.
LEMMA WriteEffects ==
  ASSUME Typed, NEW p \in Pages, NEW c \in Calls, Writer(p, c)
  PROVE  /\ PagesTyped' /\ CallsTyped' /\ call[c].at = "idle" /\ thing' = thing
         /\ starts' \in 0..MaxStarts /\ calm' = IF Busy = {} THEN calm \cap {p} ELSE {}
         /\ page'[p].open = page[p].open /\ page'[p].shown = page[p].shown
         /\ page'[p].revealed = page[p].revealed
         /\ call'[c].at = "sent" /\ call'[c].req \in {"patch", "delete"} /\ call'[c].page = p
         /\ call'[c].kind \in Kinds
         /\ page'[p].busy \subseteq page[p].busy \cup {call'[c].kind}
         /\ \A q \in Pages \ {p} : page'[q] = page[q]
         /\ \A d \in Calls \ {c} : call'[d] = call[d]
<1>1. PICK kind \in Kinds, req \in {"patch", "delete"} : \E body :
        (req = "patch" => Saving(body)) /\ Write(p, c, kind, req, body)
  BY WriterSends
<1>2. PICK body : (req = "patch" => Saving(body)) /\ Write(p, c, kind, req, body)
  BY <1>1
<1>3. Start(p, c, kind, req, body) /\ req \in Requests \ {"get"} /\ kind \notin {"load", "reveal"}
  BY <1>2 DEF Write, Kinds, Requests
<1>4. /\ PagesTyped' /\ CallsTyped' /\ call[c].at = "idle"
      /\ page'[p].open = page[p].open /\ page'[p].shown = page[p].shown
      /\ page'[p].revealed = page[p].revealed
      /\ page'[p].busy = page[p].busy \cup ({kind} \cap Flags)
      /\ \A q \in Pages \ {p} : page'[q] = page[q]
      /\ call'[c].at = "sent" /\ call'[c].req = req /\ call'[c].kind = kind /\ call'[c].page = p
      /\ \A d \in Calls \ {c} : call'[d] = call[d]
  BY <1>2, <1>3, StartEffects
<1>5. starts' \in 0..MaxStarts /\ calm' = IF Busy = {} THEN calm \cap {p} ELSE {}
  BY <1>2, PageAssumption DEF Write, Typed, ThingTyped, PageBounds
<1> QED
  BY <1>3, <1>4, <1>5 DEF Start

LEMMA AskEffects ==
  ASSUME Typed, NEW p \in Pages, NEW c \in Calls, NEW kind \in {"scan", "reveal"},
         Start(p, c, kind, kind, << >>)
  PROVE  /\ PagesTyped' /\ CallsTyped' /\ call[c].at = "idle"
         /\ page'[p].open = page[p].open /\ page'[p].shown = page[p].shown
         /\ page'[p].revealed = page[p].revealed
         /\ page'[p].busy = page[p].busy \cup {kind}
         /\ \A q \in Pages \ {p} : page'[q] = page[q]
         /\ call'[c].at = "sent" /\ call'[c].req = kind /\ call'[c].kind = kind /\ call'[c].page = p
         /\ \A d \in Calls \ {c} : call'[d] = call[d]
<1>1. kind \in Requests \ {"get"} /\ {kind} \cap Flags = {kind}
  BY DEF Requests, Flags
<1>2. Saving(<< >>) \/ kind # "patch"
  OBVIOUS
<1> QED
  BY <1>1, StartEffects

-----------------------------------------------------------------------------
(* What is stored, shown and sent is of its kind *)

\* What is read of the thing has no credentials in it.
LEMMA ViewIsView ==
  ASSUME Typed
  PROVE  /\ View(thing) = None <=> thing = None
         /\ thing # None => View(thing) \in Views /\ Doc(View(thing))
<1>1. CASE thing = None
  BY <1>1 DEF View
<1>2. CASE thing # None
  <2>1. thing \in Things /\ Once(thing.groupIds)
    BY <1>2 DEF Typed, ThingTyped, Doc
  <2>2. View(thing) = [f \in Fields |-> thing[f]]
    BY <1>2 DEF View
  <2>3. View(thing) \in Views /\ View(thing).groupIds = thing.groupIds
        /\ View(thing).channels = thing.channels
    BY <2>1, <2>2 DEF Views, Things, Fields
  <2> QED
    BY <1>2, <2>1, <2>3, PageAssumption DEF Doc, NoneIsNoThing, Things
<1> QED
  BY <1>1, <1>2

\* A save changes one field of the thing.
LEMMA SetIsThing ==
  ASSUME Typed, thing # None, NEW body, Saving(body)
  PROVE  Set(thing, body) \in Things /\ Doc(Set(thing, body)) /\ Set(thing, body) # None
<1>1. thing \in Things /\ Once(thing.groupIds)
  BY DEF Typed, ThingTyped, Doc
<1>2. Set(thing, body) \in Things /\ Once(Set(thing, body).groupIds)
  <2>1. CASE DOMAIN body = {"cred"} /\ body["cred"] \in Credentials
    BY <1>1, <2>1 DEF Set, Things
  <2>2. CASE DOMAIN body = {"groupIds"} /\ Once(body["groupIds"])
    <3>1. body["groupIds"] \in [Groups -> Nat]
      BY <2>2 DEF Once
    <3>2. Set(thing, body) = [f \in DOMAIN thing |-> IF f = "groupIds" THEN body["groupIds"] ELSE thing[f]]
      BY <1>1, <2>2 DEF Set
    <3>3. /\ Set(thing, body) \in Things /\ Set(thing, body).groupIds = body["groupIds"]
      BY <1>1, <3>1, <3>2 DEF Things
    <3> QED
      BY <2>2, <3>3
  <2>3. CASE DOMAIN body = {"channels"} /\ body["channels"] \in Seq(1..MaxChannels)
    BY <1>1, <2>3 DEF Set, Things
  <2> QED
    BY <2>1, <2>2, <2>3 DEF Saving
<1> QED
  BY <1>2, PageAssumption DEF NoneIsNoThing, Doc, Things

LEMMA TypedStep ==
  ASSUME Typed, [Next]_vars
  PROVE  Typed'
<1>0. ThingTyped /\ PagesTyped /\ CallsTyped
  BY DEF Typed
<1>1. CASE UNCHANGED vars
  BY <1>1 DEF vars, Typed, ThingTyped, PagesTyped, CallsTyped
<1>2. ASSUME NEW p \in Pages, NEW c \in Calls, Click(p, c) PROVE Typed'
  <2>1. CASE Open(p, c)
    <3>1. UNCHANGED <<thing, starts>> /\ calm' \subseteq Pages
      BY <2>1, <1>0 DEF Open, ThingTyped
    <3>2. ThingTyped'
      BY <1>0, <3>1 DEF ThingTyped
    <3> QED
      BY <2>1, <3>2, OpenEffects DEF Typed
  <2>2. CASE Writer(p, c)
    <3>1. thing' = thing /\ starts' \in 0..MaxStarts /\ calm' \subseteq Pages /\ PagesTyped' /\ CallsTyped'
      BY <2>2, <1>0, WriteEffects DEF ThingTyped
    <3> QED
      BY <1>0, <3>1 DEF Typed, ThingTyped
  <2>3. CASE handleDeepScan(p, c)
    <3>1. Start(p, c, "scan", "scan", << >>) /\ UNCHANGED <<calm, starts>>
      BY <2>3 DEF handleDeepScan
    <3>2. thing' = thing
      BY <3>1 DEF Start
    <3> QED
      BY <1>0, <3>1, <3>2, AskEffects DEF Typed, ThingTyped
  <2>4. CASE handleReveal(p, c)
    <3>1. CASE page[p].revealed # None
      <4>1. page' = [page EXCEPT ![p].revealed = None] /\ UNCHANGED <<thing, call, calm, starts>>
        BY <2>4, <3>1 DEF handleReveal
      <4>2. PagesTyped'
        BY <4>1, HideEffects
      <4> QED
        BY <1>0, <4>1, <4>2 DEF Typed, ThingTyped, CallsTyped
    <3>2. CASE page[p].revealed = None
      <4>1. Start(p, c, "reveal", "reveal", << >>) /\ UNCHANGED <<calm, starts>>
        BY <2>4, <3>2 DEF handleReveal
      <4>2. thing' = thing
        BY <4>1 DEF Start
      <4> QED
        BY <1>0, <4>1, <4>2, AskEffects DEF Typed, ThingTyped
    <3> QED
      BY <3>1, <3>2
  <2> QED
    BY <1>2, <2>1, <2>2, <2>3, <2>4 DEF Click, Writer
<1>3. ASSUME NEW p \in Pages, Use(p) PROVE Typed'
  <2>1. CASE Leave(p)
    <3>1. UNCHANGED <<thing, calm, starts>>
      BY <2>1 DEF Leave
    <3> QED
      BY <1>0, <2>1, <3>1, ClosesEffects DEF Typed, ThingTyped
  <2>2. ASSUME NEW o \in Parts, NEW k \in Secrets \cup {None}, Type(p, o, k) PROVE Typed'
    BY <1>0, <2>2, TypeEffects DEF Typed, ThingTyped, CallsTyped
  <2> QED
    BY <1>3, <2>1, <2>2 DEF Use
<1>4. ASSUME NEW c \in Calls, Serve(c) PROVE Typed'
  <2>0. Request(call[c])
    BY <1>0 DEF CallsTyped
  <2>1. CASE findById(c)
    <3>1. call[c].at = "sent" /\ call[c].req = "get" /\ Reply(c, View(thing))
          /\ UNCHANGED <<thing, page, calm, starts>>
      BY <2>1 DEF findById, Sent
    <3>2. CallsTyped'
      BY <3>1, ViewIsView, ReplyEffects
    <3> QED
      BY <1>0, <3>1, <3>2 DEF Typed, ThingTyped, PagesTyped
  <2>2. CASE getCredentials(c)
    <3>1. call[c].at = "sent" /\ call[c].req = "reveal"
          /\ Reply(c, IF thing = None THEN None ELSE thing.cred)
          /\ UNCHANGED <<thing, page, calm, starts>>
      BY <2>2 DEF getCredentials, Sent
    <3>2. thing # None => thing.cred \in Credentials
      BY <1>0 DEF ThingTyped, Things
    <3>3. CallsTyped'
      BY <3>1, <3>2, ReplyEffects
    <3> QED
      BY <1>0, <3>1, <3>3 DEF Typed, ThingTyped, PagesTyped
  <2>3. CASE update(c)
    <3>1. call[c].at = "sent" /\ call[c].req = "patch" /\ Reply(c, None)
          /\ UNCHANGED <<page, calm, starts>>
          /\ thing' = IF thing = None THEN None ELSE Set(thing, call[c].body)
      BY <2>3 DEF update, Sent
    <3>2. CallsTyped'
      BY <3>1, ReplyEffects
    <3>3. PICK body : body = call[c].body
      OBVIOUS
    <3>4. Saving(body)
      BY <2>0, <3>1, <3>3 DEF Request
    <3>5. thing' \in Things \cup {None} /\ Doc(thing')
      BY <3>1, <3>3, <3>4, SetIsThing DEF Doc
    <3> QED
      BY <1>0, <3>1, <3>2, <3>5 DEF Typed, ThingTyped, PagesTyped
  <2>4. CASE delete(c)
    <3>1. call[c].at = "sent" /\ call[c].req = "delete" /\ Reply(c, None)
          /\ UNCHANGED <<page, calm, starts>> /\ thing' = None
      BY <2>4 DEF delete, Sent
    <3>2. CallsTyped'
      BY <3>1, ReplyEffects
    <3> QED
      BY <1>0, <3>1, <3>2 DEF Typed, ThingTyped, PagesTyped, Doc
  <2>5. CASE discover(c)
    <3>1. PICK at \in {"good", "bad"} :
            Sent(c, "scan") /\ Go(c, at, None) /\ UNCHANGED <<thing, page, calm, starts>>
      BY <2>5 DEF discover
    <3>2. Request(call'[c]) /\ DOMAIN call' = Calls /\ \A d \in Calls \ {c} : call'[d] = call[d]
      BY <2>0, <3>1, GoEffects DEF Request, Places, Sent
    <3> QED
      BY <1>0, <3>1, <3>2 DEF Typed, ThingTyped, PagesTyped, CallsTyped
  <2>6. CASE Fails(c)
    <3>1. calm' = calm \ {call[c].page} /\ UNCHANGED <<thing, page, starts>>
      BY <2>6 DEF Fails
    <3> QED
      BY <1>0, <2>6, <3>1, FailEffects DEF Typed, ThingTyped, PagesTyped
  <2> QED
    BY <1>4, <2>1, <2>2, <2>3, <2>4, <2>5, <2>6 DEF Serve
<1>5. ASSUME NEW c \in Calls, Answer(c) PROVE Typed'
  <2>0. UNCHANGED <<thing, calm, starts>>
    BY <1>5 DEF Answer, Loaded, Saved, Deleted, Scanned, Revealed, Refused
  <2>1. PagesTyped' /\ CallsTyped'
    <3>1. CASE Loaded(c)
      BY <3>1, LoadedEffects
    <3>2. CASE Saved(c)
      BY <3>2, SavedEffects
    <3>3. CASE Deleted(c)
      <4>1. call[c].page \in Pages
        BY <3>3, AnswerOfPage DEF Deleted, Good
      <4>2. PICK p \in Pages : p = call[c].page
        BY <4>1
      <4> QED
        BY <3>3, <4>2, ClosesEffects
    <3>4. CASE Scanned(c)
      BY <1>0, <3>4, EndedEffects DEF CallsTyped, Request, Scanned, Good
    <3>5. CASE Revealed(c)
      BY <3>5, RevealedEffects
    <3>6. CASE Refused(c)
      BY <3>6, EndedEffects
    <3> QED
      BY <1>5, <3>1, <3>2, <3>3, <3>4, <3>5, <3>6 DEF Answer
  <2> QED
    BY <1>0, <2>0, <2>1 DEF Typed, ThingTyped
<1> QED
  BY <1>1, <1>2, <1>3, <1>4, <1>5 DEF Next

-----------------------------------------------------------------------------
(* A spinner waits for a handler *)

WaitsFor(r, k) == IF k = "load" THEN r.req = "get" ELSE r.kind = k

\* A handler that goes on, of the same page, keeps what waits for it waiting.
LEMMA StillWaits ==
  ASSUME NEW p \in Pages, NEW k,
         \E d \in Calls : /\ call'[d].at # "idle" /\ call'[d].page = p /\ WaitsFor(call'[d], k)
  PROVE  (\E c \in Of(p) : IF k = "load" THEN call[c].req = "get" ELSE call[c].kind = k)'
BY DEF Of, Busy, WaitsFor

LEMMA Waited ==
  ASSUME BusyWaits, NEW p \in Pages, NEW k \in page[p].busy
  PROVE  \E d \in Calls : call[d].at # "idle" /\ call[d].page = p /\ WaitsFor(call[d], k)
BY DEF BusyWaits, Of, Busy, WaitsFor

LEMMA BusyWaitsStep ==
  ASSUME Typed, BusyWaits, [Next]_vars
  PROVE  BusyWaits'
<1> SUFFICES ASSUME NEW q \in Pages, NEW k \in page'[q].busy
             PROVE  \E d \in Calls : call'[d].at # "idle" /\ call'[d].page = q /\ WaitsFor(call'[d], k)
  BY StillWaits DEF BusyWaits
<1> DEFINE Goal == \E d \in Calls : call'[d].at # "idle" /\ call'[d].page = q /\ WaitsFor(call'[d], k)
<1>0. \A d \in Calls : Request(call[d])
  BY DEF Typed, CallsTyped
<1>1. CASE UNCHANGED vars
  BY <1>1, Waited DEF vars
<1>2. ASSUME NEW p \in Pages, NEW c \in Calls, Click(p, c) PROVE Goal
  <2>1. CASE Open(p, c)
    BY <2>1, OpenEffects, Waited DEF WaitsFor
  <2>2. CASE Writer(p, c)
    <3>1. /\ call[c].at = "idle"
          /\ call'[c].at = "sent" /\ call'[c].page = p /\ call'[c].kind \in Kinds
          /\ page'[p].busy \subseteq page[p].busy \cup {call'[c].kind}
          /\ \A o \in Pages \ {p} : page'[o] = page[o]
          /\ \A d \in Calls \ {c} : call'[d] = call[d]
      BY <2>2, WriteEffects
    <3> QED
      BY <3>1, Waited DEF WaitsFor, Kinds
  <2>3. ASSUME NEW kind \in {"scan", "reveal"}, Start(p, c, kind, kind, << >>) PROVE Goal
    BY <2>3, AskEffects, Waited DEF WaitsFor
  <2>4. CASE handleDeepScan(p, c)
    BY <2>3, <2>4 DEF handleDeepScan
  <2>5. CASE handleReveal(p, c)
    <3>1. CASE page[p].revealed # None
      <4>1. page' = [page EXCEPT ![p].revealed = None] /\ call' = call
        BY <2>5, <3>1 DEF handleReveal
      <4> QED
        BY <4>1, HideEffects, Waited
    <3> QED
      BY <2>3, <2>5, <3>1 DEF handleReveal
  <2> QED
    BY <1>2, <2>1, <2>2, <2>4, <2>5 DEF Click, Writer
<1>3. ASSUME NEW p \in Pages, Use(p) PROVE Goal
  <2>1. CASE Leave(p)
    <3>1. /\ page'[p].busy = {} /\ \A o \in Pages \ {p} : page'[o] = page[o]
          /\ \A d \in Calls : d \notin Of(p) => call'[d] = call[d]
      BY <2>1, ClosesEffects
    <3> QED
      BY <3>1, Waited DEF Of, Busy
  <2>2. ASSUME NEW o \in Parts, NEW f \in Secrets \cup {None}, Type(p, o, f) PROVE Goal
    BY <2>2, TypeEffects, Waited
  <2> QED
    BY <1>3, <2>1, <2>2 DEF Use
<1>4. ASSUME NEW c \in Calls, Serve(c) PROVE Goal
  <2>1. /\ page' = page
        /\ \A d \in Calls \ {c} : call'[d] = call[d]
        /\ call[c].page # None => /\ call'[c].at # "idle" /\ call'[c].req = call[c].req
                                  /\ call'[c].kind = call[c].kind /\ call'[c].page = call[c].page
    <3>1. ASSUME NEW got, NEW req \in Requests \ {"get", "reveal"}, Sent(c, req), Reply(c, got) PROVE
            /\ \A d \in Calls \ {c} : call'[d] = call[d]
            /\ call[c].page # None => /\ call'[c].at # "idle" /\ call'[c].req = call[c].req
                                      /\ call'[c].kind = call[c].kind /\ call'[c].page = call[c].page
      BY <3>1, ReplyEffects DEF Sent
    <3>2. CASE findById(c)
      BY <3>2, ReplyEffects, ViewIsView DEF findById, Sent
    <3>3. CASE getCredentials(c)
      <4>1. thing # None => thing.cred \in Credentials
        BY DEF Typed, ThingTyped, Things
      <4>2. call[c].at = "sent" /\ call[c].req = "reveal" /\ page' = page
            /\ Reply(c, IF thing = None THEN None ELSE thing.cred)
        BY <3>3 DEF getCredentials, Sent
      <4> QED
        BY <4>1, <4>2, ReplyEffects
    <3>4. CASE update(c) \/ delete(c)
      BY <3>1, <3>4 DEF update, delete, Requests
    <3>5. CASE discover(c)
      BY <3>5, GoEffects DEF discover
    <3>6. CASE Fails(c)
      BY <3>6, FailEffects DEF Fails
    <3> QED
      BY <1>4, <3>2, <3>3, <3>4, <3>5, <3>6 DEF Serve
  <2>2. q # None
    BY PageAssumption DEF NoneIsNothing
  <2> QED
    BY <2>1, <2>2, Waited DEF WaitsFor
<1>5. ASSUME NEW c \in Calls, Answer(c) PROVE Goal
  <2>1. CASE Loaded(c)
    <3>1. /\ call[c].page \in Pages /\ call[c].req = "get"
          /\ page'[call[c].page].busy = page[call[c].page].busy \ {"load", call[c].kind}
          /\ \A o \in Pages \ {call[c].page} : page'[o] = page[o]
          /\ \A d \in Calls \ {c} : call'[d] = call[d]
      BY <2>1, LoadedEffects DEF Loaded, Good
    <3> QED
      BY <3>1, Waited DEF WaitsFor
  <2>2. CASE Saved(c)
    <3>1. /\ call[c].page \in Pages
          /\ page'[call[c].page].busy = (page[call[c].page].busy \cup {"load"}) \ {"reveal"}
          /\ \A o \in Pages \ {call[c].page} : page'[o] = page[o]
          /\ call'[c].at = "sent" /\ call'[c].req = "get" /\ call'[c].kind = call[c].kind
          /\ call'[c].page = call[c].page
          /\ \A d \in Calls \ {c} : call[d].page # call[c].page \/ call[d].req # "reveal" =>
               call'[d] = call[d]
      BY <2>2, SavedEffects DEF Of
    <3>2. call[c].req = "patch"
      BY <2>2 DEF Saved, Good
    <3>3. CASE q # call[c].page
      BY <3>1, <3>3, Waited
    <3>4. CASE q = call[c].page /\ k = "load"
      BY <3>1, <3>4 DEF WaitsFor
    <3>5. CASE q = call[c].page /\ k # "load"
      <4>1. k \in page[q].busy /\ k # "reveal"
        BY <3>1, <3>5
      <4>2. PICK d \in Calls : call[d].at # "idle" /\ call[d].page = q /\ call[d].kind = k
        BY <3>5, <4>1, Waited DEF WaitsFor
      <4>3. call[d].req # "reveal"
        BY <1>0, <4>1, <4>2 DEF Request
      <4>4. CASE d = c
        BY <3>1, <3>5, <4>2, <4>4 DEF WaitsFor
      <4>5. CASE d # c
        BY <3>1, <3>5, <4>2, <4>3, <4>5 DEF WaitsFor
      <4> QED
        BY <4>4, <4>5
    <3> QED
      BY <3>3, <3>4, <3>5
  <2>3. CASE Deleted(c)
    <3>1. call[c].page \in Pages
      BY <2>3, AnswerOfPage DEF Deleted, Good
    <3>2. PICK p \in Pages : p = call[c].page
      BY <3>1
    <3>3. /\ page'[p].busy = {} /\ \A o \in Pages \ {p} : page'[o] = page[o]
          /\ \A d \in Calls : d \notin Of(p) => call'[d] = call[d]
      BY <2>3, <3>2, ClosesEffects
    <3> QED
      BY <3>3, Waited DEF Of, Busy
  <2>4. CASE Scanned(c) \/ Refused(c)
    <3>1. Scanned(c) => call[c].kind = "scan"
      BY <1>0 DEF Request, Scanned, Good
    <3>2. /\ call[c].page \in Pages
          /\ page'[call[c].page].busy = page[call[c].page].busy
               \ (IF call[c].req = "get" THEN {"load", call[c].kind} ELSE {call[c].kind})
          /\ \A o \in Pages \ {call[c].page} : page'[o] = page[o]
          /\ \A d \in Calls \ {c} : call'[d] = call[d]
      BY <2>4, <3>1, EndedEffects
    <3> QED
      BY <3>2, Waited DEF WaitsFor
  <2>5. CASE Revealed(c)
    <3>1. call[c].kind = "reveal" /\ call[c].req = "reveal"
      BY <1>0, <2>5 DEF Request, Revealed, Good
    <3> QED
      BY <2>5, <3>1, RevealedEffects, Waited DEF WaitsFor
  <2> QED
    BY <1>5, <2>1, <2>2, <2>3, <2>4, <2>5 DEF Answer
<1> QED
  BY <1>1, <1>2, <1>3, <1>4, <1>5 DEF Next

-----------------------------------------------------------------------------
(* A page that is not disturbed stays so *)

\* The requests a page depends on: every write, and its own reads.
Touches(r, p) == r.at # "idle" /\ (r.req \in {"patch", "delete"} \/ (r.page = p /\ r.req \in {"get", "reveal"}))

\* A step that leaves these requests and what the page shows alone, or hides something.
LEMMA QuietFrame ==
  ASSUME NEW p \in Pages, Quiet(p), thing' = thing,
         page'[p].shown = page[p].shown, page'[p].revealed \in {page[p].revealed, None},
         "load" \in page[p].busy => "load" \in page'[p].busy,
         \A d \in Calls : \/ call'[d] = call[d]
                          \/ ~Touches(call'[d], p) /\ (Touches(call[d], p) => call[d].req = "reveal")
  PROVE  Quiet(p)'
<1>1. Writes' = Writes /\ Gets(p)' = Gets(p) /\ Reveals(p)' \subseteq Reveals(p)
  BY DEF Touches, Writes, Gets, Reveals, Of, Busy
<1>2. \A d \in Writes \cup Gets(p) \cup Reveals(p)' : call'[d] = call[d]
  BY DEF Touches, Writes, Gets, Reveals, Of, Busy
<1>3. View(thing)' = View(thing)
  BY DEF View
<1>4. Answered' <=> Answered
  BY <1>1, <1>2 DEF Answered
<1>5. \A c \in Gets(p) : Loading(p, c)'
  BY <1>1, <1>2, <1>3 DEF Quiet, Loading
<1>6. Current(p) => Current(p)'
  BY <1>1, <1>2, <1>3 DEF Current
<1>7. /\ \A c, d \in Writes : c = d /\ call'[c].page = p
      /\ \A c \in Writes : call'[c].req = "patch" /\ call'[c].at = "good" => thing' # None
  BY <1>2 DEF Quiet
<1> QED
  BY <1>1, <1>4, <1>5, <1>6, <1>7 DEF Quiet

\* One request that does not matter to the page changes.
LEMMA QuietElsewhere ==
  ASSUME NEW p \in Pages, Quiet(p), thing' = thing, NEW c \in Calls,
         page'[p].shown = page[p].shown, page'[p].revealed \in {page[p].revealed, None},
         "load" \in page[p].busy => "load" \in page'[p].busy,
         \A d \in Calls \ {c} : call'[d] = call[d],
         ~Touches(call'[c], p), Touches(call[c], p) => call[c].req = "reveal"
  PROVE  Quiet(p)'
BY QuietFrame

\* The requests of a page that reads the thing, and of one that writes it.
LEMMA QuietFacts ==
  ASSUME NEW p \in Pages, Quiet(p), NEW c \in Calls, call[c].at # "idle"
  PROVE  /\ call[c].req \in {"patch", "delete"} =>
              call[c].page = p /\ Writes = {c} /\ Gets(p) = {}
         /\ call[c].req = "get" /\ call[c].page = p =>
              /\ Gets(p) = {c} /\ Writes = {} /\ Reveals(p) = {} /\ Loading(p, c)
         /\ call[c].req = "reveal" /\ call[c].page = p => Gets(p) = {}
<1>1. ASSUME call[c].req \in {"patch", "delete"}
      PROVE  call[c].page = p /\ Writes = {c} /\ Gets(p) = {}
  <2>1. c \in Writes
    BY <1>1 DEF Writes, Busy
  <2> QED
    BY <2>1 DEF Quiet, Loading
<1>2. ASSUME call[c].req = "get", call[c].page = p
      PROVE  Gets(p) = {c} /\ Writes = {} /\ Reveals(p) = {} /\ Loading(p, c)
  <2>1. c \in Gets(p)
    BY <1>2 DEF Gets, Of, Busy
  <2> QED
    BY <2>1 DEF Quiet, Loading
<1>3. ASSUME call[c].req = "reveal", call[c].page = p PROVE Gets(p) = {}
  <2>1. c \in Reveals(p)
    BY <1>3 DEF Reveals, Of, Busy
  <2> QED
    BY <2>1 DEF Quiet, Loading
<1> QED
  BY <1>1, <1>2, <1>3

LEMMA QuietClick ==
  ASSUME Typed, QuietPages, NEW p \in Pages, p \in calm', page'[p].open,
         NEW q \in Pages, NEW c \in Calls, Click(q, c)
  PROVE  Quiet(p)'
<1>1. CASE Open(q, c)
  <2>0. /\ calm' = (IF Busy = {} THEN calm \cup {q} ELSE calm \ {q}) /\ thing' = thing
        /\ call[c].at = "idle"
        /\ page'[q].revealed = None /\ page'[q].shown = None /\ page'[q].busy = {"load"}
        /\ \A o \in Pages \ {q} : page'[o] = page[o]
        /\ call'[c].at = "sent" /\ call'[c].req = "get" /\ call'[c].page = q
        /\ \A d \in Calls \ {c} : call'[d] = call[d]
    <3>1. calm' = (IF Busy = {} THEN calm \cup {q} ELSE calm \ {q}) /\ thing' = thing
      BY <1>1 DEF Open
    <3> QED
      BY <1>1, <3>1, OpenEffects
  <2>1. CASE p = q
    <3>1. Busy = {}
      BY <2>0, <2>1
    <3>2. Busy' = {c}
      BY <2>0, <3>1 DEF Busy
    <3>3. Gets(p)' = {c} /\ Writes' = {} /\ Reveals(p)' = {}
      BY <2>0, <2>1, <3>2 DEF Gets, Writes, Reveals, Of
    <3> QED
      BY <2>0, <2>1, <3>3 DEF Quiet, Loading
  <2>2. CASE p # q
    <3>1. Quiet(p)
      BY <2>0, <2>2 DEF QuietPages
    <3> QED
      BY <2>0, <2>2, <3>1, QuietElsewhere DEF Touches
  <2> QED
    BY <2>1, <2>2
<1>2. CASE Writer(q, c)
  <2>0. /\ call[c].at = "idle" /\ thing' = thing /\ calm' = IF Busy = {} THEN calm \cap {q} ELSE {}
        /\ page'[q].open = page[q].open /\ page'[q].shown = page[q].shown
        /\ page'[q].revealed = page[q].revealed
        /\ call'[c].at = "sent" /\ call'[c].req \in {"patch", "delete"} /\ call'[c].page = q
        /\ \A d \in Calls \ {c} : call'[d] = call[d]
    BY <1>2, WriteEffects
  <2>1. Busy = {} /\ p = q /\ p \in calm
    BY <2>0
  <2>2. Busy' = {c}
    BY <2>0, <2>1 DEF Busy
  <2>3. Gets(p)' = {} /\ Writes' = {c} /\ Reveals(p)' = {}
    BY <2>0, <2>2 DEF Gets, Writes, Reveals, Of
  <2>4. Quiet(p) /\ Gets(p) = {} /\ Writes = {}
    BY <2>0, <2>1 DEF QuietPages, Gets, Writes, Of
  <2>5. Current(p)
    BY <2>4 DEF Quiet, Answered
  <2>6. View(thing)' = View(thing)
    BY <2>0 DEF View
  <2>7. Current(p)'
    BY <2>0, <2>1, <2>3, <2>5, <2>6 DEF Current
  <2> QED
    BY <2>0, <2>1, <2>3, <2>7 DEF Quiet
<1>3. CASE handleDeepScan(q, c)
  <2>0. /\ call[c].at = "idle" /\ calm' = calm /\ thing' = thing
        /\ page'[q].open = page[q].open /\ page'[q].shown = page[q].shown
        /\ page'[q].revealed = page[q].revealed
        /\ page'[q].busy = page[q].busy \cup {"scan"}
        /\ \A o \in Pages \ {q} : page'[o] = page[o]
        /\ call'[c].req = "scan" /\ \A d \in Calls \ {c} : call'[d] = call[d]
    <3>1. calm' = calm /\ Start(q, c, "scan", "scan", << >>)
      BY <1>3 DEF handleDeepScan
    <3>2. thing' = thing
      BY <3>1 DEF Start
    <3> QED
      BY <3>1, <3>2, AskEffects
  <2>1. Quiet(p)
    BY <2>0 DEF QuietPages
  <2>2. ~Touches(call[c], p) /\ ~Touches(call'[c], p)
    BY <2>0 DEF Touches
  <2>3. /\ page'[p].shown = page[p].shown /\ page'[p].revealed = page[p].revealed
        /\ "load" \in page[p].busy => "load" \in page'[p].busy
    BY <2>0
  <2> QED
    BY <2>0, <2>1, <2>2, <2>3, QuietElsewhere
<1>4. CASE handleReveal(q, c) /\ page[q].revealed # None
  <2>0. page' = [page EXCEPT ![q].revealed = None] /\ UNCHANGED <<thing, call, calm>>
    BY <1>4 DEF handleReveal
  <2>1. /\ page'[q].open = page[q].open /\ page'[q].shown = page[q].shown
        /\ page'[q].revealed = None /\ page'[q].busy = page[q].busy
        /\ \A o \in Pages \ {q} : page'[o] = page[o]
    BY <2>0, HideEffects
  <2>2. Quiet(p)
    BY <2>0, <2>1 DEF QuietPages
  <2>3. /\ page'[p].shown = page[p].shown /\ page'[p].revealed \in {page[p].revealed, None}
        /\ "load" \in page[p].busy => "load" \in page'[p].busy
    BY <2>1
  <2> QED
    BY <2>0, <2>2, <2>3, QuietFrame
<1>5. CASE handleReveal(q, c) /\ page[q].revealed = None
  <2>0. /\ call[c].at = "idle" /\ calm' = calm /\ thing' = thing /\ "load" \notin page[q].busy
        /\ page'[q].open = page[q].open /\ page'[q].shown = page[q].shown
        /\ page'[q].revealed = page[q].revealed
        /\ page'[q].busy = page[q].busy \cup {"reveal"}
        /\ \A o \in Pages \ {q} : page'[o] = page[o]
        /\ call'[c].at = "sent" /\ call'[c].req = "reveal" /\ call'[c].page = q
        /\ \A d \in Calls \ {c} : call'[d] = call[d]
    <3>1. /\ calm' = calm /\ "load" \notin page[q].busy /\ Start(q, c, "reveal", "reveal", << >>)
      BY <1>5 DEF handleReveal, Ready
    <3>2. thing' = thing
      BY <3>1 DEF Start
    <3> QED
      BY <3>1, <3>2, AskEffects
  <2>1. Quiet(p)
    BY <2>0 DEF QuietPages
  <2>2. CASE p # q
    BY <2>0, <2>1, <2>2, QuietElsewhere DEF Touches
  <2>3. CASE p = q
    <3>1. Gets(p) = {}
      BY <2>0, <2>1, <2>3 DEF Quiet, Loading
    <3>2. Writes' = Writes /\ Gets(p)' = {} /\ Reveals(p)' = Reveals(p) \cup {c}
      BY <2>0, <2>3, <3>1 DEF Writes, Gets, Reveals, Of, Busy
    <3>3. c \notin Writes /\ \A d \in Writes \cup Reveals(p) : d # c => call'[d] = call[d]
      BY <2>0 DEF Writes, Reveals, Of, Busy
    <3>4. View(thing)' = View(thing) /\ (Answered' <=> Answered)
      BY <2>0, <3>2, <3>3 DEF View, Answered, Writes, Busy
    <3>5. Current(p) => Current(p)'
      BY <2>0, <2>3, <3>2, <3>3, <3>4 DEF Current
    <3>6. \A w \in Writes : call'[w] = call[w]
      BY <3>3
    <3> QED
      BY <2>0, <2>1, <3>1, <3>2, <3>4, <3>5, <3>6 DEF Quiet
  <2> QED
    BY <2>2, <2>3
<1> QED
  BY <1>1, <1>2, <1>3, <1>4, <1>5 DEF Click, Writer

LEMMA QuietUse ==
  ASSUME Typed, QuietPages, NEW p \in Pages, p \in calm', page'[p].open, NEW q \in Pages, Use(q)
  PROVE  Quiet(p)'
<1>1. CASE Leave(q)
  <2>0. /\ UNCHANGED <<thing, calm>> /\ ~page'[q].open
        /\ \A o \in Pages \ {q} : page'[o] = page[o]
        /\ \A d \in Calls : /\ d \notin Of(q) => call'[d] = call[d]
                            /\ d \in Of(q) => /\ call'[d].at = "idle" \/ call'[d].page = None
                                              /\ call'[d].at # "idle" =>
                                                   call[d].req \in {"patch", "delete"}
    BY <1>1, ClosesEffects DEF Leave
  <2>1. p # q /\ Quiet(p) /\ page'[p] = page[p]
    BY <2>0 DEF QuietPages
  <2>2. ASSUME NEW d \in Calls, call'[d] # call[d]
        PROVE  ~Touches(call'[d], p) /\ ~Touches(call[d], p)
    <3>1. d \in Of(q)
      BY <2>0, <2>2
    <3>2. call[d].at # "idle" /\ call[d].page = q
      BY <3>1 DEF Of, Busy
    <3>3. call[d].req \notin {"patch", "delete"}
      BY <2>1, <3>2, QuietFacts
    <3> QED
      BY <2>0, <2>1, <3>1, <3>2, <3>3 DEF Touches
  <2> QED
    BY <2>0, <2>1, <2>2, QuietFrame
<1>2. ASSUME NEW o \in Parts, NEW k \in Secrets \cup {None}, Type(q, o, k) PROVE Quiet(p)'
  <2>0. /\ UNCHANGED <<thing, call, calm>>
        /\ page'[q].open = page[q].open /\ page'[q].shown = page[q].shown
        /\ page'[q].revealed = page[q].revealed /\ page'[q].busy = page[q].busy
        /\ \A w \in Pages \ {q} : page'[w] = page[w]
    BY <1>2, TypeEffects
  <2>1. Quiet(p)
    BY <2>0 DEF QuietPages
  <2>2. /\ page'[p].shown = page[p].shown /\ page'[p].revealed = page[p].revealed
        /\ "load" \in page[p].busy => "load" \in page'[p].busy
    BY <2>0
  <2> QED
    BY <2>0, <2>1, <2>2, QuietFrame
<1> QED
  BY <1>1, <1>2 DEF Use

LEMMA QuietServe ==
  ASSUME Typed, QuietPages, NEW p \in Pages, p \in calm', page'[p].open, NEW c \in Calls, Serve(c)
  PROVE  Quiet(p)'
<1>0. page' = page /\ starts' = starts /\ calm' \subseteq calm
  BY DEF Serve, findById, getCredentials, update, delete, discover, Fails
<1>1. Quiet(p)
  BY <1>0 DEF QuietPages
<1>2. p # None
  BY PageAssumption DEF NoneIsNothing
<1>3. CASE findById(c)
  <2>0. /\ thing' = thing /\ call[c].at = "sent" /\ call[c].req = "get" /\ call[c].page \in Pages
        /\ call'[c].at = (IF thing = None THEN "bad" ELSE "good") /\ call'[c].got = View(thing)
        /\ call'[c].req = "get" /\ call'[c].page = call[c].page
        /\ \A d \in Calls \ {c} : call'[d] = call[d]
    <3>1. /\ thing' = thing /\ call[c].at = "sent" /\ call[c].req = "get" /\ call[c].page \in Pages
          /\ Reply(c, View(thing))
      BY <1>3, AnswerOfPage DEF findById, Sent
    <3>2. call[c].page # None
      BY <3>1, PageAssumption DEF NoneIsNothing
    <3> QED
      BY <3>1, <3>2, ViewIsView, ReplyEffects
  <2>1. CASE call[c].page # p
    BY <1>0, <1>1, <2>0, <2>1, QuietElsewhere DEF Touches
  <2>2. CASE call[c].page = p
    <3>1. Gets(p) = {c} /\ Writes = {} /\ Reveals(p) = {} /\ Loading(p, c)
      BY <1>1, <2>0, <2>2, QuietFacts
    <3>2. Gets(p)' = {c} /\ Writes' = {} /\ Reveals(p)' = {}
      BY <2>0, <2>2, <3>1 DEF Gets, Writes, Reveals, Of, Busy
    <3>3. View(thing)' = View(thing)
      BY <2>0 DEF View
    <3>4. Loading(p, c)'
      BY <1>0, <2>0, <3>1, <3>2, <3>3 DEF Loading
    <3> QED
      BY <3>2, <3>4 DEF Quiet
  <2> QED
    BY <2>1, <2>2
<1>4. CASE getCredentials(c)
  <2>0. /\ thing' = thing /\ call[c].at = "sent" /\ call[c].req = "reveal" /\ call[c].page \in Pages
        /\ call'[c].at = (IF thing = None THEN "bad" ELSE "good")
        /\ call'[c].got = (IF thing = None THEN None ELSE thing.cred)
        /\ call'[c].req = "reveal" /\ call'[c].page = call[c].page
        /\ \A d \in Calls \ {c} : call'[d] = call[d]
    <3>1. /\ thing' = thing /\ call[c].at = "sent" /\ call[c].req = "reveal" /\ call[c].page \in Pages
          /\ Reply(c, IF thing = None THEN None ELSE thing.cred)
      BY <1>4, AnswerOfPage DEF getCredentials, Sent
    <3>2. call[c].page # None
      BY <3>1, PageAssumption DEF NoneIsNothing
    <3>3. thing # None => thing.cred \in Credentials
      BY DEF Typed, ThingTyped, Things
    <3> QED
      BY <3>1, <3>2, <3>3, ReplyEffects
  <2>1. CASE call[c].page # p
    BY <1>0, <1>1, <2>0, <2>1, QuietElsewhere DEF Touches
  <2>2. CASE call[c].page = p
    <3>1. Gets(p) = {}
      BY <1>1, <2>0, <2>2, QuietFacts
    <3>2. Gets(p)' = {} /\ Writes' = Writes /\ Reveals(p)' = Reveals(p) /\ c \notin Writes
      BY <2>0, <2>2, <3>1 DEF Gets, Writes, Reveals, Of, Busy
    <3>3. View(thing)' = View(thing)
      BY <2>0 DEF View
    <3>4. Answered' <=> Answered
      BY <2>0, <3>2 DEF Answered, Writes, Busy
    <3>5. Current(p) => Current(p)'
      <4>1. \A d \in Reveals(p) : d # c => call'[d] = call[d]
        BY <2>0 DEF Reveals, Of, Busy
      <4> QED
        BY <1>0, <2>0, <3>2, <3>3, <4>1 DEF Current
    <3>6. \A w \in Writes : call'[w] = call[w]
      BY <2>0, <3>2 DEF Writes, Busy
    <3> QED
      BY <1>1, <2>0, <3>1, <3>2, <3>4, <3>5, <3>6 DEF Quiet
  <2> QED
    BY <2>1, <2>2
<1>5. CASE update(c) \/ delete(c)
  <2>0. /\ call[c].at = "sent" /\ call[c].req \in {"patch", "delete"} /\ Reply(c, None)
        /\ thing = None => thing' = None
        /\ call[c].req = "patch" /\ thing # None => thing' # None
    <3>1. CASE update(c)
      <4>1. call[c].at = "sent" /\ call[c].req = "patch" /\ Reply(c, None)
            /\ thing' = IF thing = None THEN None ELSE Set(thing, call[c].body)
        BY <3>1 DEF update, Sent
      <4>2. PICK body : body = call[c].body
        OBVIOUS
      <4>3. Saving(body)
        BY <4>1, <4>2 DEF Typed, CallsTyped, Request
      <4> QED
        BY <4>1, <4>2, <4>3, SetIsThing
    <3>2. CASE delete(c)
      BY <3>2 DEF delete, Sent
    <3> QED
      BY <1>5, <3>1, <3>2
  <2>1. call[c].page = p /\ Writes = {c} /\ Gets(p) = {}
    BY <1>1, <2>0, QuietFacts
  <2>2. /\ call'[c].at = (IF thing = None THEN "bad" ELSE "good")
        /\ call'[c].req = call[c].req /\ call'[c].page = p
        /\ \A d \in Calls \ {c} : call'[d] = call[d]
    <3>1. call[c].page # None
      BY <1>2, <2>1
    <3> QED
      BY <2>0, <2>1, <3>1, ReplyEffects
  <2>3. Writes' = {c} /\ Gets(p)' = {} /\ Reveals(p)' = Reveals(p)
        /\ \A d \in Reveals(p) : call'[d] = call[d]
    BY <2>0, <2>1, <2>2 DEF Writes, Gets, Reveals, Of, Busy
  <2>4. CASE thing = None
    <3>1. ~Answered
      BY <2>0, <2>1 DEF Answered
    <3>2. Current(p)
      BY <1>1, <2>1, <3>1 DEF Quiet
    <3>3. thing' = thing /\ View(thing)' = View(thing)
      BY <2>0, <2>4 DEF View
    <3>4. Current(p)'
      BY <1>0, <2>3, <3>2, <3>3 DEF Current
    <3> QED
      BY <2>2, <2>3, <2>4, <3>4 DEF Quiet
  <2>5. CASE thing # None
    <3>1. Answered'
      BY <2>2, <2>3, <2>5 DEF Answered
    <3> QED
      BY <2>0, <2>2, <2>3, <2>5, <3>1 DEF Quiet
  <2> QED
    BY <2>4, <2>5
<1>6. CASE discover(c)
  <2>0. /\ thing' = thing /\ call[c].req = "scan" /\ call'[c].req = "scan"
        /\ \A d \in Calls \ {c} : call'[d] = call[d]
    BY <1>6, GoEffects DEF discover, Sent
  <2> QED
    BY <1>0, <1>1, <2>0, QuietElsewhere DEF Touches
<1>7. CASE Fails(c)
  <2>0. /\ thing' = thing /\ call[c].at \in {"sent", "good"} /\ call[c].page # p
        /\ \A d \in Calls \ {c} : call'[d] = call[d]
        /\ call[c].page = None => call'[c] = Idle
        /\ call[c].page # None => call'[c].req = call[c].req /\ call'[c].page = call[c].page
    <3>1. thing' = thing /\ call[c].at \in {"sent", "good"} /\ calm' = calm \ {call[c].page}
      BY <1>7 DEF Fails
    <3> QED
      BY <1>7, <3>1, FailEffects
  <2>1. call[c].req \notin {"patch", "delete"}
    BY <1>1, <2>0, QuietFacts
  <2>2. ~Touches(call[c], p) /\ ~Touches(call'[c], p)
    BY <2>0, <2>1 DEF Touches, Idle
  <2> QED
    BY <1>0, <1>1, <2>0, <2>2, QuietElsewhere
<1> QED
  BY <1>3, <1>4, <1>5, <1>6, <1>7 DEF Serve

LEMMA QuietAnswer ==
  ASSUME Typed, QuietPages, NEW p \in Pages, p \in calm', page'[p].open, NEW c \in Calls, Answer(c)
  PROVE  Quiet(p)'
<1>0. UNCHANGED <<thing, calm, starts>> /\ call[c].at \in {"good", "bad"}
  BY DEF Answer, Loaded, Saved, Deleted, Scanned, Revealed, Refused, Good
<1>1. View(thing)' = View(thing) /\ Request(call[c]) /\ call[c].page \in Pages
  BY <1>0, AnswerOfPage DEF View, Typed, CallsTyped
<1>2. Idle.at = "idle"
  BY DEF Idle
\* Another page's answer, which is not that of a write.
<1>3. ASSUME Quiet(p), call[c].page # p, call[c].req \notin {"patch", "delete"},
             call'[c] = Idle, page'[p] = page[p], \A d \in Calls \ {c} : call'[d] = call[d]
      PROVE  Quiet(p)'
  BY <1>0, <1>2, <1>3, QuietElsewhere DEF Touches
<1>4. CASE Loaded(c)
  <2>0. /\ call[c].at = "good" /\ call[c].req = "get"
        /\ page'[call[c].page].open = page[call[c].page].open
        /\ page'[call[c].page].shown = call[c].got
        /\ page'[call[c].page].revealed = page[call[c].page].revealed
        /\ \A q \in Pages \ {call[c].page} : page'[q] = page[q]
        /\ call'[c] = Idle /\ \A d \in Calls \ {c} : call'[d] = call[d]
    BY <1>4, LoadedEffects DEF Loaded, Good
  <2>1. Quiet(p)
    BY <1>0, <2>0 DEF QuietPages
  <2>2. CASE call[c].page # p
    BY <1>3, <2>0, <2>1, <2>2
  <2>3. CASE call[c].page = p
    <3>1. Gets(p) = {c} /\ Writes = {} /\ Reveals(p) = {} /\ Loading(p, c)
      BY <2>0, <2>1, <2>3, QuietFacts
    <3>2. Gets(p)' = {} /\ Writes' = {} /\ Reveals(p)' = {}
      BY <1>2, <2>0, <3>1 DEF Gets, Writes, Reveals, Of, Busy
    <3>3. Current(p)'
      BY <1>0, <1>1, <2>0, <2>3, <3>1, <3>2 DEF Current, Loading
    <3> QED
      BY <3>2, <3>3 DEF Quiet
  <2> QED
    BY <2>2, <2>3
<1>5. CASE Saved(c)
  <2>0. /\ call[c].at = "good" /\ call[c].req = "patch"
        /\ page'[call[c].page].open = page[call[c].page].open
        /\ page'[call[c].page].shown = page[call[c].page].shown
        /\ page'[call[c].page].revealed = None
        /\ page'[call[c].page].busy = (page[call[c].page].busy \cup {"load"}) \ {"reveal"}
        /\ \A q \in Pages \ {call[c].page} : page'[q] = page[q]
        /\ call'[c].at = "sent" /\ call'[c].req = "get" /\ call'[c].page = call[c].page
        /\ \A d \in Calls \ {c} :
             IF d \in Of(call[c].page) /\ call[d].req = "reveal" THEN call'[d] = Idle
             ELSE call'[d] = call[d]
    BY <1>5, SavedEffects DEF Saved, Good
  <2>1. Quiet(p)
    BY <1>0, <1>1, <2>0 DEF QuietPages
  <2>2. call[c].page = p /\ Writes = {c} /\ Gets(p) = {} /\ thing # None
    <3>1. call[c].page = p /\ Writes = {c} /\ Gets(p) = {}
      BY <2>0, <2>1, QuietFacts
    <3> QED
      BY <2>0, <2>1, <3>1 DEF Quiet
  <2>3. Gets(p)' = {c} /\ Writes' = {} /\ Reveals(p)' = {}
    <3>1. \A d \in Calls \ {c} : \/ call'[d] = Idle /\ call[d].req = "reveal"
                                 \/ call'[d] = call[d] /\ d \notin Reveals(p)
      BY <2>0, <2>2 DEF Reveals
    <3> QED
      BY <1>2, <2>0, <2>2, <3>1 DEF Gets, Writes, Reveals, Of, Busy
  <2>4. Loading(p, c)'
    BY <1>0, <2>0, <2>2, <2>3 DEF Loading
  <2> QED
    BY <2>3, <2>4 DEF Quiet
<1>6. CASE Deleted(c)
  <2>0. call[c].at = "good" /\ call[c].req = "delete"
    BY <1>6 DEF Deleted, Good
  <2>1. PICK q \in Pages : q = call[c].page
    BY <1>1
  <2>2. ~page'[q].open /\ \A o \in Pages \ {q} : page'[o] = page[o]
    BY <1>6, <2>1, ClosesEffects
  <2>3. p # q /\ Quiet(p)
    BY <1>0, <2>2 DEF QuietPages
  <2>4. call[c].page = p
    BY <2>0, <2>3, QuietFacts
  <2> QED
    BY <2>1, <2>3, <2>4
<1>7. CASE Scanned(c)
  <2>0. /\ call[c].req = "scan" /\ call[c].kind = "scan"
    BY <1>1, <1>7 DEF Scanned, Good, Request
  <2>1. /\ page'[call[c].page].open = page[call[c].page].open
        /\ page'[call[c].page].shown = page[call[c].page].shown
        /\ page'[call[c].page].revealed = page[call[c].page].revealed
        /\ page'[call[c].page].busy = page[call[c].page].busy \ {"scan"}
        /\ \A q \in Pages \ {call[c].page} : page'[q] = page[q]
        /\ call'[c] = Idle /\ \A d \in Calls \ {c} : call'[d] = call[d]
    BY <1>7, <2>0, EndedEffects
  <2>2. Quiet(p)
    BY <1>0, <1>1, <2>1 DEF QuietPages
  <2>3. ~Touches(call[c], p) /\ ~Touches(call'[c], p)
    BY <1>2, <2>0, <2>1 DEF Touches
  <2>4. /\ page'[p].shown = page[p].shown /\ page'[p].revealed = page[p].revealed
        /\ "load" \in page[p].busy => "load" \in page'[p].busy
    BY <1>1, <2>1
  <2> QED
    BY <1>0, <2>1, <2>2, <2>3, <2>4, QuietElsewhere
<1>8. CASE Revealed(c)
  <2>0. /\ call[c].at = "good" /\ call[c].req = "reveal"
        /\ page'[call[c].page].open = page[call[c].page].open
        /\ page'[call[c].page].shown = page[call[c].page].shown
        /\ page'[call[c].page].revealed = call[c].got
        /\ page'[call[c].page].busy = page[call[c].page].busy \ {"reveal"}
        /\ \A q \in Pages \ {call[c].page} : page'[q] = page[q]
        /\ call'[c] = Idle /\ \A d \in Calls \ {c} : call'[d] = call[d]
    BY <1>8, RevealedEffects DEF Revealed, Good
  <2>1. Quiet(p)
    BY <1>0, <1>1, <2>0 DEF QuietPages
  <2>2. CASE call[c].page # p
    BY <1>3, <2>0, <2>1, <2>2
  <2>3. CASE call[c].page = p
    <3>1. Gets(p) = {}
      BY <1>0, <2>0, <2>1, <2>3, QuietFacts
    <3>2. c \in Reveals(p) /\ c \notin Writes
      BY <2>0, <2>3 DEF Reveals, Writes, Of, Busy
    <3>3. Writes' = Writes /\ Gets(p)' = {} /\ Reveals(p)' = Reveals(p) \ {c}
      BY <1>2, <2>0, <2>3, <3>1 DEF Writes, Gets, Reveals, Of, Busy
    <3>4. \A d \in Writes \cup Reveals(p)' : call'[d] = call[d]
      BY <2>0, <3>2, <3>3 DEF Writes, Reveals, Of, Busy
    <3>5. Answered' <=> Answered
      BY <3>3, <3>4 DEF Answered
    <3>6. Current(p) => Current(p)'
      BY <1>0, <1>1, <2>0, <2>3, <3>2, <3>3, <3>4 DEF Current
    <3> QED
      BY <1>0, <2>1, <3>1, <3>3, <3>4, <3>5, <3>6 DEF Quiet
  <2> QED
    BY <2>2, <2>3
<1>9. CASE Refused(c)
  <2>0. /\ call[c].at = "bad"
        /\ page'[call[c].page].open = page[call[c].page].open
        /\ page'[call[c].page].shown = page[call[c].page].shown
        /\ page'[call[c].page].revealed = page[call[c].page].revealed
        /\ page'[call[c].page].busy = page[call[c].page].busy
             \ (IF call[c].req = "get" THEN {"load", call[c].kind} ELSE {call[c].kind})
        /\ \A q \in Pages \ {call[c].page} : page'[q] = page[q]
        /\ call'[c] = Idle /\ \A d \in Calls \ {c} : call'[d] = call[d]
    BY <1>9, EndedEffects DEF Refused
  <2>1. Quiet(p)
    BY <1>0, <1>1, <2>0 DEF QuietPages
  <2>2. CASE call[c].req \in {"patch", "delete"}
    <3>1. call[c].page = p /\ Writes = {c} /\ Gets(p) = {}
      BY <1>0, <2>1, <2>2, QuietFacts
    <3>2. ~Answered
      BY <2>0, <3>1 DEF Answered
    <3>3. Current(p)
      BY <2>1, <3>1, <3>2 DEF Quiet
    <3>4. /\ Writes' = {} /\ Gets(p)' = {} /\ Reveals(p)' = Reveals(p)
          /\ \A d \in Reveals(p) : call'[d] = call[d]
      BY <1>2, <2>0, <2>2, <3>1 DEF Writes, Gets, Reveals, Of, Busy
    <3>5. Current(p)'
      BY <1>0, <1>1, <2>0, <3>1, <3>3, <3>4 DEF Current
    <3> QED
      BY <3>4, <3>5 DEF Quiet
  <2>3. CASE call[c].req = "get" /\ call[c].page = p
    <3>1. Gets(p) = {c} /\ Writes = {} /\ Reveals(p) = {} /\ Loading(p, c)
      BY <1>0, <2>1, <2>3, QuietFacts
    <3>2. Gets(p)' = {} /\ Writes' = {} /\ Reveals(p)' = {}
      BY <1>2, <2>0, <3>1 DEF Gets, Writes, Reveals, Of, Busy
    <3>3. thing = None /\ page[p].shown = None /\ page[p].revealed = None /\ View(thing) = None
      BY <2>0, <3>1 DEF Loading, View
    <3>4. Current(p)'
      BY <1>0, <1>1, <2>0, <2>3, <3>2, <3>3 DEF Current
    <3> QED
      BY <3>2, <3>4 DEF Quiet
  <2>4. CASE call[c].req = "reveal" /\ call[c].page = p
    <3>1. call[c].kind = "reveal"
      BY <1>1, <2>4 DEF Request
    <3>2. /\ page'[p].shown = page[p].shown /\ page'[p].revealed = page[p].revealed
          /\ "load" \in page[p].busy => "load" \in page'[p].busy
      BY <2>0, <2>4, <3>1
    <3> QED
      BY <1>0, <1>2, <2>0, <2>1, <2>4, <3>2, QuietElsewhere DEF Touches
  <2>5. CASE call[c].req = "scan"
    <3>1. call[c].kind = "scan"
      BY <1>1, <2>5 DEF Request
    <3>2. /\ page'[p].shown = page[p].shown /\ page'[p].revealed = page[p].revealed
          /\ "load" \in page[p].busy => "load" \in page'[p].busy
      BY <1>1, <2>0, <2>5, <3>1
    <3> QED
      BY <1>0, <1>2, <2>0, <2>1, <2>5, <3>2, QuietElsewhere DEF Touches
  <2>6. CASE call[c].req \in {"get", "reveal"} /\ call[c].page # p
    BY <1>3, <2>0, <2>1, <2>6
  <2> QED
    BY <1>1, <2>2, <2>3, <2>4, <2>5, <2>6 DEF Request, Requests
<1> QED
  BY <1>4, <1>5, <1>6, <1>7, <1>8, <1>9 DEF Answer

LEMMA ThingInvInit == Init => ThingInv
<1> SUFFICES ASSUME Init PROVE ThingInv
  OBVIOUS
<1>1. thing \in Things /\ Doc(thing)
  <2>1. PICK g \in [Groups -> {0}], k \in Given : thing = [groupIds |-> g, channels |-> << >>, cred |-> k]
    BY DEF Init
  <2>2. g \in [Groups -> Nat] /\ g \in [Groups -> {0, 1}] /\ << >> \in Seq(1..MaxChannels)
    OBVIOUS
  <2> QED
    BY <2>1, <2>2, PageAssumption DEF Things, Doc, Once, GivenAreCredentials
<1>2. ThingTyped
  BY <1>1, PageAssumption DEF Init, ThingTyped, PageBounds
<1>3. PagesTyped
  BY ClosedIsShown DEF Init, PagesTyped
<1>4. CallsTyped
  BY IdleIsRequest DEF Init, CallsTyped
<1>5. BusyWaits
  BY DEF Init, BusyWaits, Closed
<1>6. QuietPages
  BY DEF Init, QuietPages
<1> QED
  BY <1>2, <1>3, <1>4, <1>5, <1>6 DEF ThingInv, Typed

LEMMA ThingInvStep == ThingInv /\ [Next]_vars => ThingInv'
<1> SUFFICES ASSUME ThingInv, [Next]_vars PROVE ThingInv'
  OBVIOUS
<1>1. Typed' /\ BusyWaits'
  BY TypedStep, BusyWaitsStep DEF ThingInv
<1>2. ASSUME NEW p \in Pages, p \in calm', page'[p].open PROVE Quiet(p)'
  <2>0. Typed /\ QuietPages /\ (Next \/ UNCHANGED vars)
    BY DEF ThingInv
  <2>1. CASE UNCHANGED vars
    <3>1. Quiet(p)
      BY <1>2, <2>1 DEF ThingInv, QuietPages, vars
    <3> QED
      BY <2>1, <3>1, QuietFrame DEF vars
  <2>2. ASSUME NEW q \in Pages, NEW c \in Calls, Click(q, c) PROVE Quiet(p)'
    BY <1>2, <2>0, <2>2, QuietClick
  <2>3. ASSUME NEW q \in Pages, Use(q) PROVE Quiet(p)'
    BY <1>2, <2>0, <2>3, QuietUse
  <2>4. ASSUME NEW c \in Calls, Serve(c) PROVE Quiet(p)'
    BY <1>2, <2>0, <2>4, QuietServe
  <2>5. ASSUME NEW c \in Calls, Answer(c) PROVE Quiet(p)'
    BY <1>2, <2>0, <2>5, QuietAnswer
  <2> QED
    BY <2>0, <2>1, <2>2, <2>3, <2>4, <2>5 DEF Next
<1>3. QuietPages'
  BY <1>1, <1>2 DEF QuietPages, Typed, ThingTyped
<1> QED
  BY <1>1, <1>3 DEF ThingInv

THEOREM ThingInvariant == Spec => []ThingInv
BY ThingInvInit, ThingInvStep, PTL DEF Spec

\* However many windows overwrite each other's arrays with what they computed from copies
\* of any age, the thing is never twice in a group (the handlers of things/[id]/page.tsx
\* and the update of ThingsRepository).
THEOREM NeverTwiceInAGroup == Spec => []NoDuplicateGroups
<1>1. ThingInv => NoDuplicateGroups
  BY DEF ThingInv, Typed, ThingTyped, Doc, Once, NoDuplicateGroups
<1> QED
  BY <1>1, ThingInvariant, PTL

\* A page at rest that is not disturbed shows the stored thing.
LEMMA AtRest ==
  ASSUME ThingInv, NEW p \in calm, page[p].open, Of(p) = {}
  PROVE  Current(p)
<1>1. Quiet(p)
  BY DEF ThingInv, QuietPages
<1>2. Gets(p) = {} /\ ~Answered
  BY <1>1 DEF Quiet, Gets, Answered, Writes, Of
<1> QED
  BY <1>1, <1>2 DEF Quiet

\* A page that no other writer disturbed never shows credentials it has replaced itself
\* (CredentialsReveal is unmounted while the page loads).
THEOREM RevealsWhatIsStored == Spec => []RevealCurrent
<1>1. ThingInv => RevealCurrent
  BY AtRest DEF RevealCurrent, Current
<1> QED
  BY <1>1, ThingInvariant, PTL

-----------------------------------------------------------------------------
(* The notifications: what is stored and what is asked *)

Note == [rule : Notice!AllRules, device : Groups, read : BOOLEAN]
NotesTyped == \E n \in Nat : notes \in [1..n -> Note]

\* What is shown as read is stored as read.
True(rows) == DOMAIN rows \subseteq Notice!Stored /\ \A n \in DOMAIN rows : rows[n] => notes[n].read

\* What an answer says was so when it was made, and still is.
Asked(r) ==
  /\ DOMAIN r = {"at", "req", "from", "id", "rows", "total"}
  /\ r.at \in Places /\ (r.at = "idle" => r.req = "none" /\ r.from = "none")
  /\ r.req = "read" => r.id \in Notice!Stored /\ (r.at = "good" => notes[r.id].read)
  /\ r.req = "count" => r.from = "bell" /\ (r.at = "good" => r.total \in 0..Cardinality(Notice!Stored))
  /\ r.req = "list" /\ r.at = "good" => True(r.rows)
  /\ r.req = "all" /\ r.from = "page" /\ r.at = "good" =>
       crossed \/ \A n \in DOMAIN itsPage.rows : notes[n].read
Asks == DOMAIN itsCall = Calls /\ \A c \in Calls : Asked(itsCall[c])

\* The tab: its number, its rows, and the list it waits for.
Tab ==
  /\ DOMAIN itsPage = {"num", "rows", "total", "loading"} /\ itsPage.num \in Nat \ {0}
  /\ DOMAIN itsPage.rows \subseteq Notice!Stored
  /\ ~crossed => True(itsPage.rows)
  /\ itsPage.loading => \E c \in Calls : itsCall[c].req = "list" /\ itsCall[c].from = "page"

\* What is due is stored, still to be created, or lost with the evaluation that failed;
\* what is to be created is not stored, and nothing is stored twice.
Matched ==
  /\ rules \subseteq RuleNames /\ found \subseteq Groups /\ due \subseteq Notice!AllRules \X found
  /\ DOMAIN scan = {"at", "devices", "todo"}
  /\ scan.at \in {"idle", "called", "emitting"} /\ scan.devices \subseteq found
  /\ lost \subseteq due /\ scan.todo \subseteq due
  /\ scan.at # "emitting" => scan.todo = {}
  /\ scan.at = "called" => \A n \in Notice!Stored : notes[n].device \notin scan.devices
  /\ \A n \in Notice!Stored : Notice!Pair(n) \in due \ scan.todo
  /\ \A m, n \in Notice!Stored : Notice!Pair(m) = Notice!Pair(n) => m = n
  /\ \A p \in due \ lost : p[1] \in {"all", "here"} =>
       p \in scan.todo \/ \E n \in Notice!Stored : Notice!Pair(n) = p

\* The bell counts once; afterwards only marking all from the bell itself changes its number.
Counts(c) == itsCall[c].req = "count"
BellMarks(c) == itsCall[c].req = "all" /\ itsCall[c].from = "bell"
CountsOnce == \A c \in Calls : Counts(c) => bell = 0 /\ \A d \in Calls : ~BellMarks(d) /\ (Counts(d) => c = d)
CountsRight ==
  /\ \A c \in Calls : Counts(c) => \/ itsCall[c].at = "sent"
                                   \/ itsCall[c].at = "good" /\ itsCall[c].total = Cardinality(Notice!Unread)
  /\ \A c \in Calls : BellMarks(c) /\ itsCall[c].at = "good" => Notice!Unread = {}
  /\ \/ \E c \in Calls : Counts(c) \/ (BellMarks(c) /\ itsCall[c].at = "good")
     \/ bell = Cardinality(Notice!Unread)
Bell == bell \in 0..Cardinality(Notice!Stored) /\ CountsOnce /\ (itsCalm => CountsRight)

Said == crossed \in BOOLEAN /\ itsCalm \in BOOLEAN

NoticeInv == NotesTyped /\ Asks /\ Tab /\ Matched /\ Bell /\ Said
NoticesInv == which = "Notice" => NoticeInv

\* The instance counts as the library does.
LEMMA SameCount == \A S : Notice!Cardinality(S) = Cardinality(S)
BY DEF Notice!Cardinality, Cardinality, Notice!IsFiniteSet, IsFiniteSet

LEMMA StoredCount ==
  ASSUME NotesTyped
  PROVE  /\ \E n \in Nat : Notice!Stored = 1..n /\ Cardinality(Notice!Stored) = n
         /\ IsFiniteSet(Notice!Stored)
         /\ \A n \in Notice!Stored : notes[n] \in Note
<1>1. PICK n \in Nat : notes \in [1..n -> Note]
  BY DEF NotesTyped
<1>2. Notice!Stored = 1..n
  BY <1>1 DEF Notice!Stored
<1>3. IsFiniteSet(1..n) /\ Cardinality(1..n) = n
  BY <1>1, FS_Interval
<1> QED
  BY <1>1, <1>2, <1>3

LEMMA UnreadCount ==
  ASSUME NotesTyped
  PROVE  Cardinality(Notice!Unread) \in 0..Cardinality(Notice!Stored)
<1>1. Notice!Unread \in SUBSET Notice!Stored /\ IsFiniteSet(Notice!Stored)
  BY StoredCount DEF Notice!Unread
<1>2. /\ IsFiniteSet(Notice!Unread) /\ Cardinality(Notice!Unread) <= Cardinality(Notice!Stored)
      /\ Cardinality(Notice!Stored) \in Nat
  BY <1>1, FS_Subset, FS_CardinalityType
<1>3. Cardinality(Notice!Unread) \in Nat
  BY <1>2, FS_CardinalityType
<1> QED
  BY <1>2, <1>3

\* What is stored may grow and be marked as read: what was said stays true.
Grown ==
  /\ NotesTyped' /\ Notice!Stored \subseteq Notice!Stored'
  /\ \A n \in Notice!Stored : notes[n].read => notes'[n].read

LEMMA MoreStored ==
  ASSUME NotesTyped, Grown
  PROVE  0..Cardinality(Notice!Stored) \subseteq 0..Cardinality(Notice!Stored)'
<1>1. PICK n \in Nat : Notice!Stored = 1..n /\ Cardinality(Notice!Stored) = n
  BY StoredCount
<1>2. PICK m \in Nat : notes' \in [1..m -> Note]
  BY DEF Grown, NotesTyped, Note, Notice!AllRules
<1>3. Notice!Stored' = 1..m
  BY <1>2 DEF Notice!Stored
<1>4. Cardinality(Notice!Stored)' = m
  BY <1>2, <1>3, FS_Interval
<1>5. n <= m
  BY <1>1, <1>3 DEF Grown
<1> QED
  BY <1>1, <1>4, <1>5

LEMMA StaysAsked ==
  ASSUME NotesTyped, Grown, UNCHANGED crossed, DOMAIN itsPage'.rows = DOMAIN itsPage.rows,
         DOMAIN itsPage.rows \subseteq Notice!Stored, NEW c \in Calls, Asked(itsCall[c]),
         itsCall'[c] = itsCall[c]
  PROVE  Asked(itsCall[c])'
BY MoreStored DEF Asked, Grown, True

LEMMA ItsCallReplaced ==
  ASSUME NEW c \in Calls, NEW STATE r, DOMAIN itsCall = Calls, itsCall' = [itsCall EXCEPT ![c] = r]
  PROVE  DOMAIN itsCall' = Calls /\ itsCall'[c] = r /\ \A d \in Calls \ {c} : itsCall'[d] = itsCall[d]
OBVIOUS

LEMMA ItsIdle == /\ Notice!Idle.at = "idle" /\ Notice!Idle.req = "none" /\ Notice!Idle.from = "none"
                 /\ Asked(Notice!Idle)'
BY DEF Notice!Idle, Asked, Places

-----------------------------------------------------------------------------
(* The evaluation of the rules *)

LEMMA RulesKnown == RuleNames \subseteq Notice!AllRules
BY NoticeAssumption DEF Notice!KnownRules

LEMMA DiscoveredStep ==
  ASSUME NotesTyped, Matched, NEW D \in SUBSET (Groups \ found), Notice!Discovered(D)
  PROVE  Matched'
<1> DEFINE s == [Notice!NoScan EXCEPT !.at = "called", !.devices = D]
<1>0. s.at = "called" /\ s.devices = D /\ s.todo = {} /\ DOMAIN s = {"at", "devices", "todo"}
  BY DEF Notice!NoScan
<1> HIDE DEF s
<1>1. scan' = s /\ found' = found \cup D /\ UNCHANGED <<rules, notes, due, lost>> /\ scan.at = "idle"
  BY DEF Notice!Discovered, s
<1>2. \A n \in Notice!Stored : notes[n].device \in found
  <2> TAKE n \in Notice!Stored
  <2>1. Notice!Pair(n) \in Notice!AllRules \X found
    BY DEF Matched
  <2> QED
    BY <2>1 DEF Notice!Pair
<1>3. due' \subseteq Notice!AllRules' \X found'
  BY <1>1 DEF Matched, Notice!AllRules
<1>4. Notice!Stored' = Notice!Stored /\ \A n \in Notice!Stored : Notice!Pair(n)' = Notice!Pair(n)
  BY <1>1 DEF Notice!Stored, Notice!Pair
<1> QED
  BY <1>0, <1>1, <1>2, <1>3, <1>4 DEF Matched

LEMMA FindRulesStep ==
  ASSUME NotesTyped, Matched, Notice!findEnabledRules
  PROVE  Matched'
<1> DEFINE new == Notice!Matching(rules) \X scan.devices
           s == [scan EXCEPT !.at = "emitting", !.todo = new]
<1>0. /\ s.at = "emitting" /\ s.todo = new /\ s.devices = scan.devices
      /\ DOMAIN s = {"at", "devices", "todo"}
  BY DEF Matched
<1>1. /\ scan.at = "called" /\ scan' = s /\ due' = due \cup (Notice!Promised(rules) \X scan.devices)
      /\ UNCHANGED <<rules, notes, found, lost>>
  BY DEF Notice!findEnabledRules
<1> HIDE DEF s
<1>2. /\ Notice!Promised(rules) \subseteq Notice!AllRules
      /\ Notice!Matching(rules) \subseteq Notice!Promised(rules)
      /\ Notice!Promised(rules) \cap {"all", "here"} \subseteq Notice!Matching(rules)
  BY DEF Notice!Promised, Notice!Matching, Notice!AllRules
<1>3. new \subseteq due' /\ due \subseteq due' /\ due' \subseteq Notice!AllRules \X found
  BY <1>1, <1>2 DEF Matched
<1>4. Notice!Stored' = Notice!Stored /\ \A n \in Notice!Stored : Notice!Pair(n)' = Notice!Pair(n)
  BY <1>1 DEF Notice!Stored, Notice!Pair
<1>5. \A n \in Notice!Stored : Notice!Pair(n) \in due' \ new
  BY <1>1, <1>3 DEF Matched, Notice!Pair
<1>6. \A p \in due' \ lost : p[1] \in {"all", "here"} =>
        p \in new \/ \E n \in Notice!Stored : Notice!Pair(n) = p
  BY <1>1, <1>2 DEF Matched
<1> HIDE DEF new
<1>7. Notice!AllRules' = Notice!AllRules
  BY DEF Notice!AllRules
<1> QED
  BY <1>0, <1>1, <1>3, <1>4, <1>5, <1>6, <1>7 DEF Matched

\* A notification is added at the end.
LEMMA EmitEffects ==
  ASSUME NotesTyped, Matched, NEW p \in RuleNames \X Groups, Notice!emit(p)
  PROVE  /\ Grown /\ p \in scan.todo /\ scan.at = "emitting"
         /\ DOMAIN scan' = {"at", "devices", "todo"}
         /\ scan'.at = "emitting" /\ scan'.devices = scan.devices /\ scan'.todo = scan.todo \ {p}
         /\ UNCHANGED <<rules, found, due, lost, itsPage, bell, itsCall, crossed>> /\ itsCalm' = FALSE
         /\ \E k \in Notice!Stored' \ Notice!Stored :
              /\ Notice!Stored' = Notice!Stored \cup {k} /\ Notice!Pair(k)' = p
              /\ \A n \in Notice!Stored : Notice!Pair(n)' = Notice!Pair(n)
<1>1. PICK n \in Nat : Notice!Stored = 1..n /\ Cardinality(Notice!Stored) = n
  BY StoredCount
<1>2. /\ scan.at = "emitting" /\ p \in scan.todo
      /\ notes' = [m \in 1..(n + 1) |->
                     IF m \in 1..n THEN notes[m] ELSE [rule |-> p[1], device |-> p[2], read |-> FALSE]]
      /\ scan' = [scan EXCEPT !.todo = @ \ {p}]
      /\ UNCHANGED <<rules, found, due, lost, itsPage, bell, itsCall, crossed>> /\ itsCalm' = FALSE
  BY <1>1, SameCount DEF Notice!emit
<1>3. [rule |-> p[1], device |-> p[2], read |-> FALSE] \in Note
  BY RulesKnown DEF Note
<1>4. notes' \in [1..(n + 1) -> Note]
  BY <1>1, <1>2, <1>3, StoredCount
<1>5. Notice!Stored' = 1..(n + 1) /\ \A m \in 1..n : notes'[m] = notes[m]
  BY <1>1, <1>2 DEF Notice!Stored
<1>6. NotesTyped'
  <2>1. n + 1 \in Nat /\ Note' = Note
    BY <1>1 DEF Note, Notice!AllRules
  <2> QED
    BY <1>4, <2>1 DEF NotesTyped
<1>7. Grown
  BY <1>1, <1>5, <1>6 DEF Grown
<1>8. /\ n + 1 \in Notice!Stored' \ Notice!Stored /\ Notice!Stored' = Notice!Stored \cup {n + 1}
      /\ Notice!Pair(n + 1)' = p /\ \A m \in Notice!Stored : Notice!Pair(m)' = Notice!Pair(m)
  BY <1>1, <1>2, <1>5 DEF Notice!Pair
<1>9. /\ DOMAIN scan' = {"at", "devices", "todo"}
      /\ scan'.at = "emitting" /\ scan'.devices = scan.devices /\ scan'.todo = scan.todo \ {p}
  BY <1>2 DEF Matched
<1> QED
  BY <1>2, <1>7, <1>8, <1>9

LEMMA EmitStep ==
  ASSUME NotesTyped, Matched, NEW p \in RuleNames \X Groups, Notice!emit(p)
  PROVE  Matched'
<1>1. PICK k \in Notice!Stored' \ Notice!Stored :
        /\ Notice!Stored' = Notice!Stored \cup {k} /\ Notice!Pair(k)' = p
        /\ \A n \in Notice!Stored : Notice!Pair(n)' = Notice!Pair(n)
  BY EmitEffects
<1>2. /\ p \in scan.todo /\ scan.at = "emitting" /\ DOMAIN scan' = {"at", "devices", "todo"}
      /\ scan'.at = "emitting" /\ scan'.devices = scan.devices /\ scan'.todo = scan.todo \ {p}
      /\ UNCHANGED <<rules, found, due, lost>>
  BY EmitEffects
<1>3. Notice!AllRules' = Notice!AllRules
  BY DEF Notice!AllRules
<1>4. \A n \in Notice!Stored' : (Notice!Pair(n) \in due \ scan.todo)'
  BY <1>1, <1>2 DEF Matched
<1>5. \A m, n \in Notice!Stored' : (Notice!Pair(m) = Notice!Pair(n))' => m = n
  BY <1>1, <1>2 DEF Matched
<1>6. \A q \in due \ lost : q[1] \in {"all", "here"} =>
        q \in scan'.todo \/ \E n \in Notice!Stored' : Notice!Pair(n)' = q
  BY <1>1, <1>2 DEF Matched
<1> QED
  BY <1>2, <1>3, <1>4, <1>5, <1>6 DEF Matched

LEMMA EvaluatedStep ==
  ASSUME NotesTyped, Matched, Notice!Evaluated
  PROVE  Matched'
<1>1. /\ scan.at = "emitting" /\ lost' = lost \cup scan.todo /\ scan' = Notice!NoScan
      /\ UNCHANGED <<rules, notes, found, due>>
  BY DEF Notice!Evaluated
<1>2. /\ Notice!NoScan.at = "idle" /\ Notice!NoScan.devices = {} /\ Notice!NoScan.todo = {}
      /\ DOMAIN Notice!NoScan = {"at", "devices", "todo"}
  BY DEF Notice!NoScan
<1>3. Notice!Stored' = Notice!Stored /\ \A n \in Notice!Stored : Notice!Pair(n)' = Notice!Pair(n)
  BY <1>1 DEF Notice!Stored, Notice!Pair
<1>4. Notice!AllRules' = Notice!AllRules
  BY DEF Notice!AllRules
<1> QED
  BY <1>1, <1>2, <1>3, <1>4 DEF Matched

LEMMA EditRulesStep ==
  ASSUME NotesTyped, Matched, Notice!EditRules
  PROVE  Matched'
<1>1. rules' \subseteq RuleNames /\ UNCHANGED <<notes, scan, found, due, lost>>
  BY DEF Notice!EditRules, Matched
<1>2. Notice!Stored' = Notice!Stored /\ \A n \in Notice!Stored : Notice!Pair(n)' = Notice!Pair(n)
  BY <1>1 DEF Notice!Stored, Notice!Pair
<1>3. Notice!AllRules' = Notice!AllRules
  BY DEF Notice!AllRules
<1>4. UNCHANGED notes
  BY <1>1
<1> QED
  BY <1>1, <1>2, <1>3, <1>4 DEF Matched

\* Marking as read leaves what is matched alone.
LEMMA MatchedStays ==
  ASSUME Matched, UNCHANGED <<rules, scan, found, due, lost>>, Notice!Stored' = Notice!Stored,
         \A n \in Notice!Stored : notes'[n].rule = notes[n].rule /\ notes'[n].device = notes[n].device
  PROVE  Matched'
<1>1. \A n \in Notice!Stored : Notice!Pair(n)' = Notice!Pair(n)
  BY DEF Notice!Pair
<1>2. Notice!AllRules' = Notice!AllRules
  BY DEF Notice!AllRules
<1> QED
  BY <1>1, <1>2 DEF Matched

-----------------------------------------------------------------------------
(* The tab and the bell *)

LEMMA AskingShape ==
  ASSUME NEW req, NEW from, NEW n
  PROVE  LET r == Notice!Asking(req, from, n) IN
         /\ DOMAIN r = {"at", "req", "from", "id", "rows", "total"}
         /\ r.at = "sent" /\ r.req = req /\ r.from = from /\ r.id = n
BY DEF Notice!Asking, Notice!Idle

LEMMA ItsGoEffects ==
  ASSUME Asks, NEW c \in Calls, NEW at, Notice!Go(c, at)
  PROVE  /\ DOMAIN itsCall' = Calls /\ DOMAIN itsCall'[c] = DOMAIN itsCall[c]
         /\ itsCall'[c].at = at /\ itsCall'[c].req = itsCall[c].req
         /\ itsCall'[c].from = itsCall[c].from /\ itsCall'[c].id = itsCall[c].id
         /\ itsCall'[c].rows = itsCall[c].rows /\ itsCall'[c].total = itsCall[c].total
         /\ \A d \in Calls \ {c} : itsCall'[d] = itsCall[d]
<1> DEFINE r == [itsCall[c] EXCEPT !.at = at]
<1>1. DOMAIN itsCall = Calls /\ DOMAIN itsCall[c] = {"at", "req", "from", "id", "rows", "total"}
  BY DEF Asks, Asked
<1>2. /\ DOMAIN r = DOMAIN itsCall[c] /\ r.at = at /\ r.req = itsCall[c].req
      /\ r.from = itsCall[c].from /\ r.id = itsCall[c].id
      /\ r.rows = itsCall[c].rows /\ r.total = itsCall[c].total
  BY <1>1
<1>3. itsCall' = [itsCall EXCEPT ![c] = r]
  BY <1>1 DEF Notice!Go
<1> HIDE DEF r
<1>4. DOMAIN itsCall' = Calls /\ itsCall'[c] = r /\ \A d \in Calls \ {c} : itsCall'[d] = itsCall[d]
  BY <1>1, <1>3, ItsCallReplaced
<1> QED
  BY <1>2, <1>4

\* One request changes; a list that arrives while all are being marked is crossed.
LEMMA AsksStep ==
  ASSUME NotesTyped, Asks, Grown, NEW c \in Calls, DOMAIN itsCall' = Calls,
         \A d \in Calls \ {c} : itsCall'[d] = itsCall[d], Asked(itsCall[c])',
         crossed => crossed',
         \A d \in Calls \ {c} : itsCall[d].req = "all" /\ itsCall[d].from = "page" =>
           crossed' \/ (DOMAIN itsPage'.rows = DOMAIN itsPage.rows /\ DOMAIN itsPage.rows \subseteq Notice!Stored)
  PROVE  Asks'
<1>1. ASSUME NEW d \in Calls \ {c} PROVE Asked(itsCall[d])'
  <2>1. Asked(itsCall[d]) /\ itsCall'[d] = itsCall[d]
    BY DEF Asks
  <2>2. /\ DOMAIN itsCall'[d] = {"at", "req", "from", "id", "rows", "total"}
        /\ itsCall'[d].at \in Places
        /\ itsCall'[d].at = "idle" => itsCall'[d].req = "none" /\ itsCall'[d].from = "none"
    BY <2>1 DEF Asked
  <2>3. /\ itsCall'[d].req = "read" =>
              itsCall'[d].id \in Notice!Stored' /\ (itsCall'[d].at = "good" => notes'[itsCall'[d].id].read)
        /\ itsCall'[d].req = "list" /\ itsCall'[d].at = "good" => True(itsCall[d].rows)'
    BY <2>1 DEF Asked, Grown, True
  <2>4. itsCall'[d].req = "count" => /\ itsCall'[d].from = "bell"
                                     /\ itsCall'[d].at = "good" => itsCall'[d].total \in 0..Cardinality(Notice!Stored)'
    BY <2>1, MoreStored DEF Asked
  <2>5. itsCall'[d].req = "all" /\ itsCall'[d].from = "page" /\ itsCall'[d].at = "good" =>
          crossed' \/ \A n \in DOMAIN itsPage'.rows : notes'[n].read
    BY <2>1 DEF Asked, Grown
  <2> QED
    BY <2>2, <2>3, <2>4, <2>5 DEF Asked
<1> QED
  BY <1>1 DEF Asks

\* A request the bell's number does not depend on.
LEMMA BellFrame ==
  ASSUME Bell, UNCHANGED <<bell, notes>>, NEW c \in Calls,
         \A d \in Calls \ {c} : itsCall'[d] = itsCall[d],
         Counts(c)' => Counts(c), BellMarks(c)' => BellMarks(c),
         itsCalm' => /\ itsCalm /\ ~Counts(c) /\ ~Counts(c)'
                     /\ ~(BellMarks(c) /\ itsCall[c].at = "good")
                     /\ ~(BellMarks(c)' /\ itsCall'[c].at = "good")
  PROVE  Bell'
<1>1. /\ Notice!Stored' = Notice!Stored /\ Notice!Unread' = Notice!Unread
      /\ Cardinality(Notice!Stored)' = Cardinality(Notice!Stored)
      /\ Cardinality(Notice!Unread)' = Cardinality(Notice!Unread)
  BY DEF Notice!Stored, Notice!Unread
<1>2. CountsOnce'
  BY DEF Bell, CountsOnce, Counts, BellMarks
<1>3. ASSUME itsCalm' PROVE CountsRight'
  <2>1. CountsRight
    BY <1>3 DEF Bell
  <2>2. \A d \in Calls : /\ Counts(d)' => d # c /\ Counts(d) /\ itsCall'[d] = itsCall[d]
                         /\ BellMarks(d)' /\ itsCall'[d].at = "good" =>
                              d # c /\ BellMarks(d) /\ itsCall'[d] = itsCall[d]
    BY <1>3 DEF Counts, BellMarks
  <2>3. \A d \in Calls : /\ Counts(d) => Counts(d)'
                         /\ BellMarks(d) /\ itsCall[d].at = "good" => BellMarks(d)' /\ itsCall'[d].at = "good"
    BY <1>3 DEF Counts, BellMarks
  <2> QED
    BY <1>1, <2>1, <2>2, <2>3 DEF CountsRight
<1> QED
  BY <1>1, <1>2, <1>3 DEF Bell

LEMMA SameNotes ==
  ASSUME NotesTyped, UNCHANGED notes
  PROVE  /\ Grown /\ NotesTyped' /\ Notice!Stored' = Notice!Stored /\ Notice!Unread' = Notice!Unread
         /\ \A n \in Notice!Stored : notes'[n] = notes[n]
<1>1. Note' = Note
  BY DEF Note, Notice!AllRules
<1>2. NotesTyped'
  BY <1>1 DEF NotesTyped
<1>3. Notice!Stored' = Notice!Stored /\ Notice!Unread' = Notice!Unread
  BY DEF Notice!Stored, Notice!Unread
<1> QED
  BY <1>2, <1>3 DEF Grown

\* What a click leaves alone, and what it asks.
LEMMA ClickEffects ==
  ASSUME Asks, NEW c \in Calls, NEW req, NEW from, NEW n, Notice!Click(c, Notice!Asking(req, from, n))
  PROVE  /\ DOMAIN itsCall' = Calls /\ itsCall[c].req = "none" /\ itsCall[c].from = "none"
         /\ DOMAIN itsCall'[c] = {"at", "req", "from", "id", "rows", "total"}
         /\ itsCall'[c].at = "sent" /\ itsCall'[c].req = req /\ itsCall'[c].from = from
         /\ itsCall'[c].id = n
         /\ \A d \in Calls \ {c} : itsCall'[d] = itsCall[d]
         /\ UNCHANGED <<rules, notes, scan, found, due, lost, crossed, itsCalm>>
<1>1. itsCall[c].at = "idle" /\ itsCall' = [itsCall EXCEPT ![c] = Notice!Asking(req, from, n)]
      /\ UNCHANGED <<rules, notes, scan, found, due, lost, crossed, itsCalm>>
  BY DEF Notice!Click, Notice!Free
<1>2. DOMAIN itsCall = Calls /\ Asked(itsCall[c])
  BY DEF Asks
<1> QED
  BY <1>1, <1>2, ItsCallReplaced, AskingShape DEF Asked

\* A page is turned, a notification or all of them are marked.
LEMMA SendStep ==
  ASSUME NotesTyped, Asks, Tab, Bell, Said, NEW c \in Calls, Notice!Send(c)
  PROVE  Asks' /\ Tab' /\ Bell' /\ Said' /\ UNCHANGED <<rules, notes, scan, found, due, lost>>
<1> DEFINE Asking(req, from, n) == Notice!Click(c, Notice!Asking(req, from, n))
<1>0. \A n \in DOMAIN itsPage.rows : n \in Notice!Stored
  BY DEF Tab
\* Whatever is asked from the tab.
<1>1. ASSUME NEW req \in {"list", "read", "all"}, NEW n, Asking(req, "page", n),
             req = "read" => n \in Notice!Stored, bell' = bell,
             DOMAIN itsPage'.rows = DOMAIN itsPage.rows
      PROVE  Asks' /\ Bell' /\ Said' /\ UNCHANGED <<rules, notes, scan, found, due, lost, crossed>>
  <2>1. /\ DOMAIN itsCall' = Calls /\ itsCall[c].req = "none" /\ itsCall[c].from = "none"
        /\ DOMAIN itsCall'[c] = {"at", "req", "from", "id", "rows", "total"}
        /\ itsCall'[c].at = "sent" /\ itsCall'[c].req = req /\ itsCall'[c].from = "page"
        /\ itsCall'[c].id = n
        /\ \A d \in Calls \ {c} : itsCall'[d] = itsCall[d]
        /\ UNCHANGED <<rules, notes, scan, found, due, lost, crossed, itsCalm>>
    BY <1>1, ClickEffects
  <2>2. Grown /\ Notice!Stored' = Notice!Stored
    BY <2>1, SameNotes
  <2>3. Asked(itsCall[c])'
    BY <1>1, <2>1, <2>2 DEF Asked, Places
  <2>4. Asks'
    BY <1>0, <1>1, <2>1, <2>2, <2>3, AsksStep
  <2>5. Bell'
    BY <1>1, <2>1, BellFrame DEF Counts, BellMarks
  <2> QED
    BY <2>1, <2>4, <2>5 DEF Said
<1>2. CASE Notice!Turn(c)
  <2>1. PICK p \in (IF itsPage.num < itsPage.total \div Notice!Limit THEN {itsPage.num + 1} ELSE {})
                   \cup (IF itsPage.num > 1 THEN {itsPage.num - 1} ELSE {}) :
          /\ Notice!Click(c, Notice!Asking("list", "page", p))
          /\ itsPage' = [itsPage EXCEPT !.num = p, !.loading = TRUE]
    BY <1>2, Zenon DEF Notice!Turn
  <2>2. bell' = bell
    BY <1>2 DEF Notice!Turn
  <2>3. p \in Nat \ {0}
    BY <2>1 DEF Tab
  <2>4. /\ DOMAIN itsPage' = {"num", "rows", "total", "loading"} /\ itsPage'.num = p
        /\ itsPage'.rows = itsPage.rows
    BY <2>1 DEF Tab
  <2>5. Asks' /\ Bell' /\ Said' /\ UNCHANGED <<rules, notes, scan, found, due, lost, crossed>>
    BY <1>1, <2>1, <2>2, <2>4
  <2>6. itsCall'[c].req = "list" /\ itsCall'[c].from = "page"
    BY <2>1, ClickEffects
  <2>7. Notice!Stored' = Notice!Stored /\ notes' = notes
    BY <2>5, SameNotes
  <2>8. Tab'
    BY <2>3, <2>4, <2>5, <2>6, <2>7 DEF Tab, True
  <2> QED
    BY <2>5, <2>8
\* The marks leave the tab alone.
<1>3. ASSUME UNCHANGED itsPage, UNCHANGED <<notes, crossed>>, itsCall[c].req = "none",
             \A d \in Calls \ {c} : itsCall'[d] = itsCall[d]
      PROVE  Tab'
  <2>1. Notice!Stored' = Notice!Stored /\ notes' = notes
    BY <1>3, SameNotes
  <2> QED
    BY <1>3, <2>1 DEF Tab, True
<1>4. CASE Notice!handleMarkAsRead(c) \/ Notice!handleMarkAllRead(c)
  <2>1. PICK req \in {"read", "all"}, n \in Notice!Stored \cup {0} :
          Asking(req, "page", n) /\ (req = "read" => n \in Notice!Stored)
    BY <1>0, <1>4 DEF Notice!handleMarkAsRead, Notice!handleMarkAllRead
  <2>2. UNCHANGED <<itsPage, bell>>
    BY <1>4 DEF Notice!handleMarkAsRead, Notice!handleMarkAllRead
  <2>3. Asks' /\ Bell' /\ Said' /\ UNCHANGED <<rules, notes, scan, found, due, lost, crossed>>
    BY <1>1, <2>1, <2>2
  <2>4. itsCall[c].req = "none" /\ \A d \in Calls \ {c} : itsCall'[d] = itsCall[d]
    BY <2>1, ClickEffects
  <2> QED
    BY <1>3, <2>2, <2>3, <2>4
<1>5. CASE Notice!bellMarkAllRead(c)
  <2>1. bell > 0 /\ Asking("all", "bell", 0) /\ UNCHANGED <<itsPage, bell>>
    BY <1>5 DEF Notice!bellMarkAllRead
  <2>2. /\ DOMAIN itsCall' = Calls /\ itsCall[c].req = "none" /\ itsCall[c].from = "none"
        /\ DOMAIN itsCall'[c] = {"at", "req", "from", "id", "rows", "total"}
        /\ itsCall'[c].at = "sent" /\ itsCall'[c].req = "all" /\ itsCall'[c].from = "bell"
        /\ \A d \in Calls \ {c} : itsCall'[d] = itsCall[d]
        /\ UNCHANGED <<rules, notes, scan, found, due, lost, crossed, itsCalm>>
    BY <2>1, ClickEffects
  <2>3. Grown /\ Notice!Stored' = Notice!Stored /\ Notice!Unread' = Notice!Unread
    BY <2>2, SameNotes
  <2>4. Asked(itsCall[c])'
    BY <2>2 DEF Asked, Places
  <2>5. Asks'
    BY <1>0, <2>1, <2>2, <2>3, <2>4, AsksStep
  <2>6. \A d \in Calls : ~Counts(d) /\ ~Counts(d)'
    BY <2>1, <2>2 DEF Bell, CountsOnce, Counts
  <2>7. \A d \in Calls : /\ BellMarks(d)' /\ itsCall'[d].at = "good" => d # c /\ BellMarks(d) /\ itsCall[d].at = "good"
                         /\ BellMarks(d) => BellMarks(d)' /\ itsCall'[d] = itsCall[d]
    BY <2>2 DEF BellMarks
  <2>8. /\ Cardinality(Notice!Stored)' = Cardinality(Notice!Stored)
        /\ Cardinality(Notice!Unread)' = Cardinality(Notice!Unread)
    BY <2>3
  <2>9. itsCalm => CountsRight'
    BY <2>1, <2>3, <2>6, <2>7, <2>8 DEF Bell, CountsRight
  <2>10. Bell'
    BY <2>1, <2>2, <2>6, <2>8, <2>9 DEF Bell, CountsOnce
  <2>11. Tab'
    BY <1>3, <2>1, <2>2
  <2> QED
    BY <2>2, <2>5, <2>10, <2>11 DEF Said
<1> QED
  BY <1>2, <1>4, <1>5 DEF Notice!Send

\* While a request is served the tab stays, unless what is stored is marked.
LEMMA TabServed ==
  ASSUME Tab, Grown, UNCHANGED <<itsPage, crossed>>, NEW c \in Calls,
         \A d \in Calls \ {c} : itsCall'[d] = itsCall[d],
         itsCall'[c].req = itsCall[c].req, itsCall'[c].from = itsCall[c].from
  PROVE  Tab'
BY DEF Tab, Grown, True

LEMMA ReadingStep ==
  ASSUME NotesTyped, Asks, Tab, Bell, Said, NEW c \in Calls,
         Notice!findAllNotifications(c) \/ Notice!countUnread(c) \/ Notice!Fails(c)
  PROVE  Asks' /\ Tab' /\ Bell' /\ Said' /\ UNCHANGED <<rules, notes, scan, found, due, lost>>
<1>0. UNCHANGED <<rules, scan, found, due, lost, itsPage, bell, crossed, notes>> /\ Asked(itsCall[c])
  BY DEF Notice!findAllNotifications, Notice!countUnread, Notice!Fails, Notice!ApiUnchanged, Asks
<1>1. /\ Grown /\ Notice!Stored' = Notice!Stored /\ Notice!Unread' = Notice!Unread
      /\ DOMAIN itsCall = Calls /\ DOMAIN itsCall[c] = {"at", "req", "from", "id", "rows", "total"}
  BY <1>0, SameNotes DEF Asks, Asked
<1>2. CASE Notice!findAllNotifications(c)
  <2> DEFINE r == [itsCall[c] EXCEPT !.at = "good", !.rows = Notice!Rows(itsCall[c].id),
                                     !.total = Notice!Cardinality(Notice!Stored)]
  <2>1. itsCall' = [itsCall EXCEPT ![c] = r] /\ itsCall[c].req = "list" /\ itsCalm' = itsCalm
    BY <1>2 DEF Notice!findAllNotifications, Notice!At
  <2>2. /\ DOMAIN r = DOMAIN itsCall[c] /\ r.at = "good" /\ r.req = itsCall[c].req
        /\ r.from = itsCall[c].from /\ r.rows = Notice!Rows(itsCall[c].id)
    BY <1>1
  <2> HIDE DEF r
  <2>3. DOMAIN itsCall' = Calls /\ itsCall'[c] = r /\ \A d \in Calls \ {c} : itsCall'[d] = itsCall[d]
    BY <1>1, <2>1, ItsCallReplaced
  <2>4. True(r.rows)
    BY <2>2 DEF True, Notice!Rows
  <2>5. Asked(itsCall[c])'
    BY <1>0, <1>1, <2>1, <2>2, <2>3, <2>4 DEF Asked, Places, True
  <2>6. Asks'
    BY <1>0, <1>1, <2>3, <2>5, AsksStep DEF Tab
  <2>7. Tab'
    BY <1>0, <1>1, <2>2, <2>3, TabServed
  <2>8. Bell'
    BY <1>0, <2>1, <2>2, <2>3, BellFrame DEF Counts, BellMarks
  <2> QED
    BY <1>0, <2>1, <2>6, <2>7, <2>8 DEF Said
<1>3. CASE Notice!countUnread(c)
  <2> DEFINE r == [itsCall[c] EXCEPT !.at = "good", !.total = Notice!Cardinality(Notice!Unread)]
  <2>1. /\ itsCall' = [itsCall EXCEPT ![c] = r] /\ itsCall[c].req = "count" /\ itsCalm' = itsCalm
        /\ itsCall[c].at = "sent"
    BY <1>3 DEF Notice!countUnread, Notice!At
  <2>2. /\ DOMAIN r = DOMAIN itsCall[c] /\ r.at = "good" /\ r.req = itsCall[c].req
        /\ r.from = itsCall[c].from /\ r.total = Cardinality(Notice!Unread)
    BY <1>1, SameCount
  <2> HIDE DEF r
  <2>3. DOMAIN itsCall' = Calls /\ itsCall'[c] = r /\ \A d \in Calls \ {c} : itsCall'[d] = itsCall[d]
    BY <1>1, <2>1, ItsCallReplaced
  <2>4. /\ Cardinality(Notice!Stored)' = Cardinality(Notice!Stored)
        /\ Cardinality(Notice!Unread)' = Cardinality(Notice!Unread)
    BY <1>1
  <2>5. Asked(itsCall[c])'
    BY <1>0, <1>1, <2>1, <2>2, <2>3, <2>4, UnreadCount DEF Asked, Places
  <2>6. Asks'
    BY <1>0, <1>1, <2>3, <2>5, AsksStep DEF Tab
  <2>7. Tab'
    BY <1>0, <1>1, <2>2, <2>3, TabServed
  <2>8. \A d \in Calls : (Counts(d)' <=> Counts(d)) /\ (BellMarks(d)' <=> BellMarks(d))
    BY <2>2, <2>3 DEF Counts, BellMarks
  <2>9. CountsOnce'
    BY <1>0, <2>8 DEF Bell, CountsOnce
  <2>10. \A d \in Calls : ~BellMarks(d)' /\ (Counts(d)' <=> d = c)
    BY <2>1, <2>8 DEF Bell, CountsOnce, Counts
  <2>11. CountsRight'
    BY <1>1, <2>2, <2>3, <2>4, <2>10 DEF CountsRight
  <2> QED
    BY <1>0, <2>1, <2>4, <2>6, <2>7, <2>9, <2>11 DEF Said, Bell
<1>4. CASE Notice!Fails(c)
  <2>1. /\ itsCall[c].at \in {"sent", "good"} /\ Notice!Go(c, "bad")
        /\ itsCalm' = (itsCalm /\ (itsCall[c].from = "page" \/ (itsCall[c].at = "sent" /\ itsCall[c].req = "all")))
    BY <1>4 DEF Notice!Fails, Notice!At
  <2>2. /\ DOMAIN itsCall' = Calls /\ DOMAIN itsCall'[c] = DOMAIN itsCall[c]
        /\ itsCall'[c].at = "bad" /\ itsCall'[c].req = itsCall[c].req
        /\ itsCall'[c].from = itsCall[c].from /\ itsCall'[c].id = itsCall[c].id
        /\ \A d \in Calls \ {c} : itsCall'[d] = itsCall[d]
    BY <2>1, ItsGoEffects
  <2>3. Asked(itsCall[c])'
    BY <1>0, <1>1, <2>2 DEF Asked, Places
  <2>4. Asks'
    BY <1>0, <1>1, <2>2, <2>3, AsksStep DEF Tab
  <2>5. Tab'
    BY <1>0, <1>1, <2>2, TabServed
  <2>6. Bell'
    BY <1>0, <2>1, <2>2, BellFrame DEF Counts, BellMarks, Asked
  <2>7. itsCalm' \in BOOLEAN
    BY <2>1
  <2> QED
    BY <1>0, <2>4, <2>5, <2>6, <2>7 DEF Said
<1> QED
  BY <1>2, <1>3, <1>4

\* Marking: what is stored is the same but for what was read.
LEMMA MarkingStep ==
  ASSUME NotesTyped, Asks, Tab, Matched, Bell, Said, NEW c \in Calls,
         Notice!markAsRead(c) \/ Notice!markAllAsRead(c)
  PROVE  NotesTyped' /\ Asks' /\ Tab' /\ Matched' /\ Bell' /\ Said'
<1>0. /\ UNCHANGED <<rules, scan, found, due, lost, itsPage, bell, crossed>>
      /\ itsCall[c].at = "sent" /\ itsCall[c].req \in {"read", "all"} /\ Notice!Go(c, "good")
  BY DEF Notice!markAsRead, Notice!markAllAsRead, Notice!ApiUnchanged, Notice!At
<1>1. /\ DOMAIN itsCall' = Calls /\ DOMAIN itsCall'[c] = DOMAIN itsCall[c]
      /\ itsCall'[c].at = "good" /\ itsCall'[c].req = itsCall[c].req
      /\ itsCall'[c].from = itsCall[c].from /\ itsCall'[c].id = itsCall[c].id
      /\ \A d \in Calls \ {c} : itsCall'[d] = itsCall[d]
  BY <1>0, ItsGoEffects
<1>2. Asked(itsCall[c])
  BY DEF Asks
<1>3. PICK n \in Nat : notes \in [1..n -> Note] /\ Notice!Stored = 1..n
  BY DEF NotesTyped, Notice!Stored
<1>4. /\ notes' \in [1..n -> Note]
      /\ \A m \in 1..n : /\ notes'[m].rule = notes[m].rule /\ notes'[m].device = notes[m].device
                         /\ notes[m].read => notes'[m].read
      /\ itsCall[c].req = "read" => notes'[itsCall[c].id].read /\ itsCalm' = FALSE
      /\ itsCall[c].req = "all" => /\ \A m \in 1..n : notes'[m].read
                                   /\ itsCalm' = (itsCalm /\ itsCall[c].from = "bell")
  <2>1. CASE Notice!markAsRead(c)
    <3>1. /\ notes' = [notes EXCEPT ![itsCall[c].id].read = TRUE] /\ itsCall[c].req = "read"
          /\ itsCalm' = FALSE
      BY <2>1 DEF Notice!markAsRead, Notice!At
    <3>2. PICK i \in 1..n : i = itsCall[c].id
      BY <1>2, <1>3, <3>1 DEF Asked
    <3>3. notes' = [notes EXCEPT ![i] = [notes[i] EXCEPT !.read = TRUE]]
      BY <1>3, <3>1, <3>2
    <3>4. notes[i] \in Note
      BY <1>3
    <3> DEFINE r == [notes[i] EXCEPT !.read = TRUE]
    <3>5. r \in Note /\ r.rule = notes[i].rule /\ r.device = notes[i].device /\ r.read = TRUE
      BY <3>4 DEF Note
    <3> HIDE DEF r
    <3>6. notes' = [notes EXCEPT ![i] = r]
      BY <3>3 DEF r
    <3>7. notes' \in [1..n -> Note] /\ notes'[i] = r /\ \A m \in (1..n) \ {i} : notes'[m] = notes[m]
      BY <1>3, <3>5, <3>6
    <3> QED
      BY <3>1, <3>2, <3>5, <3>7
  <2>2. CASE Notice!markAllAsRead(c)
    <3>1. /\ notes' = [m \in 1..n |-> [notes[m] EXCEPT !.read = TRUE]] /\ itsCall[c].req = "all"
          /\ itsCalm' = (itsCalm /\ itsCall[c].from = "bell")
      BY <1>3, <2>2 DEF Notice!markAllAsRead, Notice!At
    <3>2. ASSUME NEW m \in 1..n
          PROVE  /\ notes'[m] \in Note /\ notes'[m].rule = notes[m].rule
                 /\ notes'[m].device = notes[m].device /\ notes'[m].read = TRUE
      <4>1. notes[m] \in Note /\ notes'[m] = [notes[m] EXCEPT !.read = TRUE]
        BY <1>3, <3>1
      <4> QED
        BY <4>1 DEF Note
    <3>3. notes' \in [1..n -> Note]
      BY <3>1, <3>2
    <3> QED
      BY <3>1, <3>2, <3>3
  <2> QED
    BY <2>1, <2>2
<1>5. NotesTyped' /\ Notice!Stored' = 1..n
  <2>1. Note' = Note
    BY DEF Note, Notice!AllRules
  <2>2. NotesTyped'
    BY <1>4, <2>1 DEF NotesTyped
  <2> QED
    BY <1>4, <2>2 DEF Notice!Stored
<1>6. Grown
  BY <1>3, <1>4, <1>5 DEF Grown
<1>7. Matched'
  BY <1>0, <1>3, <1>4, <1>5, MatchedStays
<1>8. Tab'
  BY <1>0, <1>1, <1>6, TabServed
<1>9. Asked(itsCall[c])'
  <2>1. DOMAIN itsPage.rows \subseteq 1..n
    BY <1>3 DEF Tab
  <2> QED
    BY <1>0, <1>1, <1>2, <1>3, <1>4, <1>5, <2>1 DEF Asked, Places
<1>10. Asks'
  BY <1>0, <1>1, <1>6, <1>9, AsksStep DEF Tab
<1>11. Cardinality(Notice!Stored)' = Cardinality(Notice!Stored)
  BY <1>3, <1>5
<1>12. \A d \in Calls : (Counts(d)' <=> Counts(d)) /\ (BellMarks(d)' <=> BellMarks(d))
  BY <1>1 DEF Counts, BellMarks
<1>13. CountsOnce'
  BY <1>0, <1>12 DEF Bell, CountsOnce
<1>14. ASSUME itsCalm' PROVE CountsRight'
  <2>1. itsCall[c].req = "all" /\ itsCall[c].from = "bell"
    BY <1>0, <1>4, <1>14
  <2>2. \A d \in Calls : ~Counts(d)'
    BY <1>12, <2>1 DEF Bell, CountsOnce, BellMarks
  <2>3. Notice!Unread' = {}
    BY <1>4, <1>5, <2>1 DEF Notice!Unread
  <2>4. BellMarks(c)' /\ itsCall'[c].at = "good"
    BY <1>1, <2>1 DEF BellMarks
  <2> QED
    BY <2>2, <2>3, <2>4 DEF CountsRight
<1>15. Said'
  <2>1. itsCalm' \in BOOLEAN
    BY <1>0, <1>4
  <2> QED
    BY <1>0, <2>1 DEF Said
<1> QED
  BY <1>0, <1>5, <1>7, <1>8, <1>10, <1>11, <1>13, <1>14, <1>15 DEF Bell

\* An answer is met.
LEMMA MeetStep ==
  ASSUME NotesTyped, Asks, Tab, Bell, Said, NEW c \in Calls, Notice!Meet(c)
  PROVE  Asks' /\ Tab' /\ Bell' /\ Said' /\ UNCHANGED <<rules, notes, scan, found, due, lost>>
<1>0. UNCHANGED <<rules, notes, scan, found, due, lost, itsCalm>>
  BY DEF Notice!Meet, Notice!Listed, Notice!Counted, Notice!Marked, Notice!MarkedAll,
         Notice!BellMarked, Notice!Failed, Notice!MeetUnchanged
<1>1. /\ Grown /\ Notice!Stored' = Notice!Stored /\ Notice!Unread' = Notice!Unread
      /\ DOMAIN itsCall = Calls /\ Asked(itsCall[c])
      /\ Cardinality(Notice!Stored)' = Cardinality(Notice!Stored)
      /\ Cardinality(Notice!Unread)' = Cardinality(Notice!Unread)
  BY <1>0, SameNotes DEF Asks
\* The slot is free again, and the bell's number does not depend on it.
<1>2. ASSUME itsCall' = [itsCall EXCEPT ![c] = Notice!Idle], crossed => crossed',
             \/ crossed' = crossed /\ DOMAIN itsPage'.rows = DOMAIN itsPage.rows
             \/ crossed' \/ \A d \in Calls : ~(itsCall[d].req = "all" /\ itsCall[d].from = "page")
      PROVE  /\ Asks' /\ itsCall'[c] = Notice!Idle /\ \A d \in Calls \ {c} : itsCall'[d] = itsCall[d]
             /\ bell' = bell /\ ~BellMarks(c) /\ (itsCalm => ~Counts(c)) => Bell'
  <2>1. /\ DOMAIN itsCall' = Calls /\ itsCall'[c] = Notice!Idle
        /\ \A d \in Calls \ {c} : itsCall'[d] = itsCall[d]
    BY <1>1, <1>2, ItsCallReplaced
  <2>2. Asks'
    BY <1>1, <1>2, <2>1, ItsIdle, AsksStep DEF Tab
  <2>3. ~Counts(c)' /\ ~BellMarks(c)'
    BY <2>1, ItsIdle DEF Counts, BellMarks
  <2>4. bell' = bell /\ ~BellMarks(c) /\ (itsCalm => ~Counts(c)) => Bell'
    BY <1>0, <2>1, <2>3, BellFrame
  <2> QED
    BY <2>1, <2>2, <2>4
\* The tab keeps its rows, or shows more of them as read that are.
<1>3. ASSUME DOMAIN itsPage' = {"num", "rows", "total", "loading"}, itsPage'.num = itsPage.num,
             DOMAIN itsPage'.rows = DOMAIN itsPage.rows, crossed' = crossed,
             ~crossed => True(itsPage.rows)', itsPage'.loading = itsPage.loading,
             itsCall[c].req # "list", \A d \in Calls \ {c} : itsCall'[d] = itsCall[d]
      PROVE  Tab'
  BY <1>1, <1>3 DEF Tab
<1>4. CASE Notice!Listed(c)
  <2>0. /\ itsCall[c].at = "good" /\ itsCall[c].req = "list" /\ bell' = bell
        /\ itsCall' = [itsCall EXCEPT ![c] = Notice!Idle]
    BY <1>4 DEF Notice!Listed, Notice!At
  <2>1. CASE itsCall[c].from = "bell"
    <3>1. UNCHANGED <<itsPage, crossed>>
      BY <1>4, <2>1 DEF Notice!Listed
    <3>2. Asks' /\ Bell' /\ \A d \in Calls \ {c} : itsCall'[d] = itsCall[d]
      BY <1>2, <2>0, <3>1 DEF BellMarks, Counts
    <3>3. Tab'
      BY <1>0, <1>1, <2>1, <3>1, <3>2 DEF Tab, True
    <3> QED
      BY <1>0, <3>1, <3>2, <3>3 DEF Said
  <2>2. CASE itsCall[c].from # "bell"
    <3>1. /\ itsPage' = [itsPage EXCEPT !.rows = itsCall[c].rows, !.total = itsCall[c].total,
                                        !.loading = FALSE]
          /\ crossed' = (crossed \/ \E d \in Calls : itsCall[d].req = "all" /\ itsCall[d].from = "page")
      BY <1>4, <2>2 DEF Notice!Listed
    <3>2. /\ DOMAIN itsPage' = {"num", "rows", "total", "loading"} /\ itsPage'.num = itsPage.num
          /\ itsPage'.rows = itsCall[c].rows /\ itsPage'.loading = FALSE
      BY <3>1 DEF Tab
    <3>3. Asks' /\ Bell'
      BY <1>2, <2>0, <3>1 DEF BellMarks, Counts
    <3>4. True(itsPage.rows)' /\ DOMAIN itsPage'.rows \subseteq Notice!Stored'
      BY <1>0, <1>1, <2>0, <3>2 DEF Asked, True
    <3>5. Tab'
      BY <3>2, <3>4 DEF Tab
    <3>6. crossed' \in BOOLEAN
      BY <3>1
    <3> QED
      BY <1>0, <3>3, <3>5, <3>6 DEF Said
  <2> QED
    BY <2>1, <2>2
<1>5. CASE Notice!Counted(c)
  <2>0. /\ itsCall[c].at = "good" /\ itsCall[c].req = "count" /\ bell' = itsCall[c].total
        /\ itsCall' = [itsCall EXCEPT ![c] = Notice!Idle] /\ UNCHANGED <<itsPage, crossed>>
    BY <1>5 DEF Notice!Counted, Notice!At
  <2>1. Asks' /\ itsCall'[c] = Notice!Idle /\ \A d \in Calls \ {c} : itsCall'[d] = itsCall[d]
    BY <1>2, <2>0
  <2>2. Tab'
    BY <1>0, <1>1, <2>0, <2>1 DEF Tab, True
  <2>3. \A d \in Calls : ~Counts(d)' /\ ~BellMarks(d)'
    BY <2>0, <2>1, ItsIdle DEF Bell, CountsOnce, Counts, BellMarks
  <2>4. bell' \in 0..Cardinality(Notice!Stored)'
    BY <1>1, <2>0 DEF Asked
  <2>5. itsCalm => bell' = Cardinality(Notice!Unread)
    BY <2>0 DEF Bell, CountsRight, Counts
  <2>6. itsCalm => CountsRight'
    BY <1>1, <2>3, <2>5 DEF CountsRight
  <2> QED
    BY <1>0, <2>0, <2>1, <2>2, <2>3, <2>4, <2>6 DEF Said, Bell, CountsOnce
<1>6. CASE Notice!Marked(c) \/ Notice!MarkedAll(c)
  <2> DEFINE new == IF itsCall[c].req = "read" THEN [n \in DOMAIN itsPage.rows |-> itsPage.rows[n] \/ n = itsCall[c].id]
                    ELSE [n \in DOMAIN itsPage.rows |-> TRUE]
  <2>0. /\ itsCall[c].at = "good" /\ UNCHANGED <<bell, crossed>>
        /\ itsCall[c].req = "read" \/ (itsCall[c].req = "all" /\ itsCall[c].from = "page")
        /\ itsCall' = [itsCall EXCEPT ![c] = Notice!Idle]
    BY <1>6 DEF Notice!Marked, Notice!MarkedAll, Notice!At
  <2>1. itsPage' = [itsPage EXCEPT !.rows = new]
    <3>1. CASE Notice!Marked(c)
      BY <3>1 DEF Notice!Marked, Notice!At, Tab
    <3>2. CASE Notice!MarkedAll(c)
      BY <3>2 DEF Notice!MarkedAll, Notice!At, Tab
    <3> QED
      BY <1>6, <3>1, <3>2
  <2>2. /\ DOMAIN new = DOMAIN itsPage.rows
        /\ \A n \in DOMAIN new : new[n] => itsPage.rows[n] \/ (itsCall[c].req = "read" /\ n = itsCall[c].id)
                                           \/ itsCall[c].req = "all"
    <3>1. CASE itsCall[c].req = "read"
      BY <3>1
    <3>2. CASE itsCall[c].req = "all"
      BY <3>2
    <3> QED
      BY <2>0, <3>1, <3>2
  <2> HIDE DEF new
  <2>3. /\ DOMAIN itsPage' = {"num", "rows", "total", "loading"} /\ itsPage'.num = itsPage.num
        /\ itsPage'.rows = new /\ itsPage'.loading = itsPage.loading
    BY <2>1 DEF Tab
  <2>4. Asks' /\ Bell' /\ \A d \in Calls \ {c} : itsCall'[d] = itsCall[d]
    BY <1>2, <2>0, <2>2, <2>3 DEF BellMarks, Counts
  <2>5. ~crossed => True(itsPage.rows)'
    BY <1>0, <1>1, <2>0, <2>2, <2>3 DEF Tab, True, Asked
  <2>6. Tab'
    BY <1>3, <2>0, <2>2, <2>3, <2>4, <2>5
  <2> QED
    BY <1>0, <2>0, <2>4, <2>6 DEF Said
<1>7. CASE Notice!BellMarked(c)
  <2>0. /\ itsCall[c].at = "good" /\ itsCall[c].req = "all" /\ itsCall[c].from = "bell" /\ bell' = 0
        /\ itsCall' = [itsCall EXCEPT ![c] = Notice!Asking("list", "bell", 1)]
        /\ UNCHANGED <<itsPage, crossed>>
    BY <1>7 DEF Notice!BellMarked, Notice!At
  <2>1. /\ DOMAIN itsCall' = Calls
        /\ DOMAIN itsCall'[c] = {"at", "req", "from", "id", "rows", "total"}
        /\ itsCall'[c].at = "sent" /\ itsCall'[c].req = "list" /\ itsCall'[c].from = "bell"
        /\ \A d \in Calls \ {c} : itsCall'[d] = itsCall[d]
    BY <1>1, <2>0, ItsCallReplaced, AskingShape
  <2>2. Asked(itsCall[c])'
    BY <2>1 DEF Asked, Places
  <2>3. Asks'
    BY <1>1, <2>0, <2>1, <2>2, AsksStep DEF Tab
  <2>4. Tab'
    BY <1>0, <1>1, <2>0, <2>1 DEF Tab, True
  <2>5. \A d \in Calls : ~Counts(d) /\ ~Counts(d)'
    BY <2>0, <2>1 DEF Bell, CountsOnce, Counts, BellMarks
  <2>6. 0 \in 0..Cardinality(Notice!Stored)
    BY StoredCount
  <2>7. ASSUME itsCalm PROVE CountsRight'
    <3>1. Notice!Unread = {}
      BY <2>0, <2>7 DEF Bell, CountsRight, BellMarks
    <3>2. bell' = Cardinality(Notice!Unread)'
      BY <1>1, <2>0, <3>1, FS_EmptySet
    <3> QED
      BY <1>1, <2>5, <3>1, <3>2 DEF CountsRight
  <2> QED
    BY <1>0, <1>1, <2>0, <2>3, <2>4, <2>5, <2>6, <2>7 DEF Said, Bell, CountsOnce
<1>8. CASE Notice!Failed(c)
  <2>0. /\ itsCall[c].at = "bad" /\ itsCall' = [itsCall EXCEPT ![c] = Notice!Idle]
        /\ UNCHANGED <<bell, crossed>>
        /\ itsPage' = IF itsCall[c].req = "list" /\ itsCall[c].from = "page"
                      THEN [itsPage EXCEPT !.loading = FALSE] ELSE itsPage
    BY <1>8 DEF Notice!Failed
  <2>1. /\ DOMAIN itsPage' = {"num", "rows", "total", "loading"} /\ itsPage'.num = itsPage.num
        /\ itsPage'.rows = itsPage.rows
        /\ itsPage'.loading =>
             itsPage.loading /\ ~(itsCall[c].req = "list" /\ itsCall[c].from = "page")
    BY <2>0 DEF Tab
  <2>2. /\ Asks' /\ \A d \in Calls \ {c} : itsCall'[d] = itsCall[d]
        /\ ~BellMarks(c) => Bell'
    BY <1>2, <2>0, <2>1 DEF Bell, CountsRight
  <2>3. Tab'
    BY <1>0, <1>1, <2>0, <2>1, <2>2 DEF Tab, True
  <2>4. Bell'
    <3>1. itsCall'[c] = Notice!Idle /\ ~Counts(c)' /\ ~BellMarks(c)'
      BY <1>1, <2>0, ItsCallReplaced, ItsIdle DEF Counts, BellMarks
    <3>2. itsCalm => ~Counts(c)
      BY <2>0 DEF Bell, CountsRight
    <3> QED
      BY <1>0, <2>0, <2>2, <3>1, <3>2, BellFrame
  <2> QED
    BY <1>0, <2>0, <2>2, <2>3, <2>4 DEF Said
<1> QED
  BY <1>4, <1>5, <1>6, <1>7, <1>8 DEF Notice!Meet

-----------------------------------------------------------------------------
(* The invariant of the notifications *)

LEMMA NoticeInvInit == Notice!Init => NoticeInv
<1> SUFFICES ASSUME Notice!Init PROVE NoticeInv
  OBVIOUS
<1>1. PICK d \in Groups : /\ notes = [n \in {1} |-> [rule |-> "all", device |-> d, read |-> FALSE]]
                          /\ found = {d} /\ due = {<<"all", d>>}
  BY DEF Notice!Init
<1>2. Notice!Stored = {1} /\ notes[1] = [rule |-> "all", device |-> d, read |-> FALSE]
  BY <1>1 DEF Notice!Stored
<1>3. NotesTyped
  <2>1. 1..1 = {1} /\ 1 \in Nat
    OBVIOUS
  <2>2. notes \in [1..1 -> Note]
    BY <1>1, <1>2, <2>1 DEF Note, Notice!AllRules
  <2> QED
    BY <2>1, <2>2 DEF NotesTyped
<1>4. PICK m, o \in Calls :
        /\ m # o
        /\ itsCall = [c \in Calls |-> CASE c = m -> Notice!Asking("count", "bell", 0)
                                        [] c = o -> Notice!Asking("list", "page", 1)
                                        [] OTHER -> Notice!Idle]
  BY Zenon DEF Notice!Init
<1>5. DOMAIN itsCall = Calls /\ itsCall[m] = Notice!Asking("count", "bell", 0)
  BY <1>4, Zenon
<1>6. itsCall[o] = Notice!Asking("list", "page", 1)
  BY <1>4, Zenon
<1>7. \A c \in Calls \ {m, o} : itsCall[c] = Notice!Idle
  BY <1>4, Zenon
<1>8. /\ Asked(Notice!Idle) /\ Notice!Idle.req = "none" /\ Notice!Idle.from = "none" /\ Notice!Idle.at = "idle"
  BY DEF Notice!Idle, Asked, Places
<1>9. /\ itsCall[m].req = "count" /\ itsCall[m].from = "bell" /\ itsCall[m].at = "sent"
      /\ itsCall[o].req = "list" /\ itsCall[o].from = "page" /\ itsCall[o].at = "sent"
      /\ DOMAIN itsCall[m] = {"at", "req", "from", "id", "rows", "total"}
      /\ DOMAIN itsCall[o] = {"at", "req", "from", "id", "rows", "total"}
  BY <1>5, <1>6, AskingShape
<1>10. Asks
  <2>1. Asked(itsCall[m]) /\ Asked(itsCall[o])
    BY <1>9 DEF Asked, Places
  <2> QED
    BY <1>5, <1>7, <1>8, <2>1 DEF Asks
<1>11. /\ rules \subseteq RuleNames /\ scan = Notice!NoScan /\ lost = {} /\ bell = 0
       /\ itsPage = [num |-> 1, rows |-> << >>, total |-> 0, loading |-> TRUE]
       /\ crossed = FALSE /\ itsCalm = TRUE
  BY DEF Notice!Init
<1>12. Tab
  BY <1>9, <1>11 DEF Tab, True
<1>13. Matched
  <2>1. /\ scan.at = "idle" /\ scan.devices = {} /\ scan.todo = {} /\ DOMAIN scan = {"at", "devices", "todo"}
    BY <1>11 DEF Notice!NoScan
  <2>2. Notice!Pair(1) = <<"all", d>>
    BY <1>2 DEF Notice!Pair
  <2> QED
    BY <1>1, <1>2, <1>11, <2>1, <2>2 DEF Matched, Notice!AllRules
<1>14. Bell
  <2>1. \A c \in Calls : (Counts(c) <=> c = m) /\ ~BellMarks(c)
    BY <1>7, <1>8, <1>9 DEF Counts, BellMarks
  <2>2. 0 \in 0..Cardinality(Notice!Stored)
    BY <1>3, StoredCount
  <2> QED
    BY <1>9, <1>11, <2>1, <2>2 DEF Bell, CountsOnce, CountsRight
<1> QED
  BY <1>3, <1>10, <1>11, <1>12, <1>13, <1>14 DEF NoticeInv, Said

LEMMA NoticeInvStep == NoticeInv /\ Notice!Next => NoticeInv'
<1> SUFFICES ASSUME NoticeInv, Notice!Next PROVE NoticeInv'
  OBVIOUS
<1>0. NotesTyped /\ Asks /\ Tab /\ Matched /\ Bell /\ Said
  BY DEF NoticeInv
\* The evaluation leaves the tab, the bell and the requests alone.
<1>1. ASSUME UNCHANGED <<notes, itsPage, bell, itsCall, crossed, itsCalm>>
      PROVE  NotesTyped' /\ Asks' /\ Tab' /\ Bell' /\ Said'
  <2>1. /\ Grown /\ NotesTyped' /\ Notice!Stored' = Notice!Stored /\ Notice!Unread' = Notice!Unread
        /\ notes' = notes
    BY <1>0, <1>1, SameNotes
  <2>2. Asks' /\ Tab'
    BY <1>0, <1>1, <2>1 DEF Asks, Asked, Tab, True
  <2>3. Bell'
    BY <1>0, <1>1, <2>1 DEF Bell, CountsOnce, CountsRight, Counts, BellMarks
  <2> QED
    BY <1>0, <1>1, <2>1, <2>2, <2>3 DEF Said
<1>2. ASSUME UNCHANGED <<rules, notes, scan, found, due, lost>>
      PROVE  NotesTyped' /\ Matched'
  <2>1. NotesTyped' /\ Notice!Stored' = Notice!Stored /\ \A n \in Notice!Stored : notes'[n] = notes[n]
    BY <1>0, <1>2, SameNotes
  <2> QED
    BY <1>0, <1>2, <2>1, MatchedStays
<1>3. ASSUME NEW D \in SUBSET (Groups \ found), Notice!Discovered(D) PROVE NoticeInv'
  <2>1. UNCHANGED <<notes, itsPage, bell, itsCall, crossed, itsCalm>>
    BY <1>3 DEF Notice!Discovered
  <2> QED
    BY <1>0, <1>1, <1>3, <2>1, DiscoveredStep DEF NoticeInv
<1>4. CASE Notice!findEnabledRules \/ Notice!Evaluated \/ Notice!EditRules
  <2>1. UNCHANGED <<notes, itsPage, bell, itsCall, crossed, itsCalm>>
    BY <1>4 DEF Notice!findEnabledRules, Notice!Evaluated, Notice!EditRules
  <2> QED
    BY <1>0, <1>1, <1>4, <2>1, FindRulesStep, EvaluatedStep, EditRulesStep DEF NoticeInv
<1>5. ASSUME NEW p \in RuleNames \X Groups, Notice!emit(p) PROVE NoticeInv'
  <2>1. Grown /\ UNCHANGED <<itsPage, bell, itsCall, crossed>> /\ itsCalm' = FALSE
    BY <1>0, <1>5, EmitEffects
  <2>2. ASSUME NEW c \in Calls PROVE Asked(itsCall[c])'
    BY <1>0, <2>1, StaysAsked DEF Asks, Tab
  <2>3. Asks' /\ Tab'
    BY <1>0, <2>1, <2>2 DEF Asks, Tab, True, Grown
  <2>4. Bell'
    BY <1>0, <2>1, MoreStored DEF Bell, CountsOnce, Counts, BellMarks
  <2>5. NotesTyped' /\ Said'
    BY <1>0, <2>1 DEF Grown, Said
  <2> QED
    BY <1>0, <1>5, <2>3, <2>4, <2>5, EmitStep DEF NoticeInv
<1>6. ASSUME NEW c \in Calls, Notice!Send(c) \/ Notice!Serve(c) \/ Notice!Meet(c) PROVE NoticeInv'
  <2>1. CASE Notice!Send(c)
    BY <1>0, <1>2, <2>1, SendStep DEF NoticeInv
  <2>2. CASE Notice!findAllNotifications(c) \/ Notice!countUnread(c) \/ Notice!Fails(c)
    BY <1>0, <1>2, <2>2, ReadingStep DEF NoticeInv
  <2>3. CASE Notice!markAsRead(c) \/ Notice!markAllAsRead(c)
    BY <1>0, <2>3, MarkingStep DEF NoticeInv
  <2>4. CASE Notice!Meet(c)
    BY <1>0, <1>2, <2>4, MeetStep DEF NoticeInv
  <2> QED
    BY <1>6, <2>1, <2>2, <2>3, <2>4 DEF Notice!Serve
<1> QED
  BY <1>3, <1>4, <1>5, <1>6 DEF Notice!Next

-----------------------------------------------------------------------------
(* Whichever module runs *)

AllInv == ThingInv /\ NoticesInv

LEMMA AllInvariant == AllSpec => []AllInv
<1>1. AllInit => AllInv
  BY ThingInvInit, NoticeInvInit DEF AllInit, AllInv, NoticesInv
<1>2. AllInv /\ [AllNext]_allVars => AllInv'
  <2> SUFFICES ASSUME AllInv, [AllNext]_allVars PROVE AllInv'
    OBVIOUS
  <2>1. [Next]_vars /\ which' = which
    BY DEF AllNext, allVars
  <2>2. ThingInv'
    BY <2>1, ThingInvStep DEF AllInv
  <2>3. ASSUME which = "Notice" PROVE NoticeInv'
    <3>1. NoticeInv
      BY <2>3 DEF AllInv, NoticesInv
    <3>2. CASE Notice!Next
      BY <3>1, <3>2, NoticeInvStep
    <3>3. CASE UNCHANGED allVars
      <4>1. /\ UNCHANGED <<notes, itsPage, bell, itsCall, crossed, itsCalm>>
            /\ UNCHANGED <<rules, scan, found, due, lost>>
        BY <3>3 DEF allVars
      <4>2. /\ NotesTyped' /\ Notice!Stored' = Notice!Stored /\ Notice!Unread' = Notice!Unread
            /\ \A n \in Notice!Stored : notes'[n] = notes[n]
        BY <3>1, <4>1, SameNotes DEF NoticeInv
      <4>3. Matched'
        BY <3>1, <4>1, <4>2, MatchedStays DEF NoticeInv
      <4>4. Asks' /\ Tab'
        BY <3>1, <4>1, <4>2 DEF NoticeInv, Asks, Asked, Tab, True
      <4>5. Bell'
        BY <3>1, <4>1, <4>2 DEF NoticeInv, Bell, CountsOnce, CountsRight, Counts, BellMarks
      <4> QED
        BY <3>1, <4>1, <4>2, <4>3, <4>4, <4>5 DEF NoticeInv, Said
    <3> QED
      BY <2>3, <3>2, <3>3 DEF AllNext
  <2> QED
    BY <2>1, <2>2, <2>3 DEF AllInv, NoticesInv
<1> QED
  BY <1>1, <1>2, PTL DEF AllSpec

\* Every variable holds a value of its kind, no page shows credentials it did not ask for,
\* and a spinner or a waiting button always waits for a handler under way, in both modules.
THEOREM PagesWait == AllSpec => []PagesTypeOK
<1>1. ThingInv => ThingPageTypeOK /\ BusyWaits
  BY DEF ThingInv, Typed, ThingTyped, PagesTyped, CallsTyped, Shown, Request, ThingPageTypeOK
<1>2. ASSUME NoticeInv PROVE Notice!NoticesTypeOK
  <2>1. /\ rules \subseteq RuleNames /\ found \subseteq Groups
        /\ DOMAIN itsPage.rows \subseteq Notice!Stored /\ itsPage.num >= 1
        /\ itsPage.loading => \E c \in Calls : itsCall[c].req = "list" /\ itsCall[c].from = "page"
    BY <1>2 DEF NoticeInv, Tab, Matched
  <2>2. {due, lost, scan.todo} \subseteq SUBSET (Notice!AllRules \X Groups)
    BY <1>2 DEF NoticeInv, Matched
  <2>3. PICK n \in Nat : Notice!Stored = 1..n /\ Cardinality(Notice!Stored) = n
    BY <1>2, StoredCount DEF NoticeInv
  <2>4. notes \in [1..Cardinality(Notice!Stored) -> Note] /\ bell <= Cardinality(Notice!Stored)
    <3>1. PICK k \in Nat : notes \in [1..k -> Note]
      BY <1>2 DEF NoticeInv, NotesTyped
    <3>2. 1..k = 1..n /\ DOMAIN notes = 1..n
      BY <2>3, <3>1 DEF Notice!Stored
    <3>3. notes \in [1..n -> Note]
      BY <3>1, <3>2
    <3> QED
      BY <1>2, <2>3, <3>3 DEF NoticeInv, Bell
  <2>5. {crossed, itsCalm} \subseteq BOOLEAN
    BY <1>2, Zenon DEF NoticeInv, Said
  <2> QED
    BY <2>1, <2>2, <2>4, <2>5, SameCount DEF Notice!NoticesTypeOK, Note
<1> QED
  BY <1>1, <1>2, AllInvariant, PTL DEF AllInv, NoticesInv, PagesTypeOK

\* A page that is not disturbed shows what is stored: the page of a thing the thing, after
\* any number of operations, the tab nothing as read that is not, the bell the number of
\* the unread notifications.
THEOREM PagesShowStored == AllSpec => []PagesShow
<1>1. ThingInv => QuietPageCurrent
  BY AtRest DEF QuietPageCurrent, Current
<1>2. NoticeInv => Notice!ReadIsStored
  BY DEF NoticeInv, Tab, True, Notice!ReadIsStored
<1>3. ASSUME NoticeInv PROVE Notice!BellCounts
  <2>1. SUFFICES ASSUME itsCalm, \A c \in Calls : itsCall[c].from = "bell" => itsCall[c].req = "list"
                 PROVE  bell = Cardinality(Notice!Unread)
    BY SameCount DEF Notice!BellCounts
  <2>2. CountsRight /\ Asks
    BY <1>3, <2>1 DEF NoticeInv, Bell
  <2>3. \A c \in Calls : ~Counts(c) /\ ~BellMarks(c)
    BY <2>1, <2>2 DEF Asks, Asked, Counts, BellMarks
  <2> QED
    BY <2>2, <2>3 DEF CountsRight
<1> QED
  BY <1>1, <1>2, <1>3, AllInvariant, PTL DEF AllInv, NoticesInv, PagesShow

\* The evaluation of the rules after a scan creates exactly one notification for a new
\* device and a rule that matches, and no other, however the rules are edited meanwhile
\* and unless it failed (evaluateDiscoveryRules).
THEOREM OneNoticePerMatch == AllSpec => []NoticePerMatch
<1>1. ASSUME NoticeInv PROVE Notice!NoticePerMatch
  <2>1. NotesTyped /\ Matched
    BY <1>1 DEF NoticeInv
  <2>2. ASSUME NEW p \in due PROVE Cardinality({n \in Notice!Stored : Notice!Pair(n) = p}) <= 1
    <3> DEFINE S == {n \in Notice!Stored : Notice!Pair(n) = p}
    <3>1. CASE S = {}
      BY <3>1, FS_EmptySet
    <3>2. ASSUME NEW n \in S PROVE Cardinality(S) <= 1
      <4>1. S = {n}
        BY <2>1 DEF Matched
      <4>2. Cardinality({n}) = 1
        BY FS_Singleton
      <4> QED
        BY <4>1, <4>2
    <3> QED
      BY <3>1, <3>2
  <2>3. /\ \A n \in Notice!Stored : Notice!Pair(n) \in due
        /\ scan.at = "idle" => \A p \in due \ lost : p[1] \in {"all", "here"} =>
             \E n \in Notice!Stored : Notice!Pair(n) = p
    BY <2>1 DEF Matched
  <2> QED
    BY <2>2, <2>3, SameCount DEF Notice!NoticePerMatch
<1>2. NoticesInv => NoticePerMatch
  BY <1>1 DEF NoticesInv, NoticePerMatch
<1> QED
  BY <1>2, AllInvariant, PTL DEF AllInv
=============================================================================
