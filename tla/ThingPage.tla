------------------------------ MODULE ThingPage ------------------------------
(***************************************************************************)
(* The page of one thing (app/(dashboard)/things/[id]), open in several    *)
(* windows, over the handlers of ThingsService.  Every button computes a   *)
(* whole array or form from the copy the page shows, PATCHes it and reads  *)
(* the thing again; requests of one or several pages overlap, fail, and    *)
(* outlive the page that sent them.  A slot of Calls is a handler of a     *)
(* page with the request it waits for.  Of the form only the credentials   *)
(* count: the API treats them otherwise than the rest, which no property   *)
(* tells apart; and of the groups' array how often each group is in it,    *)
(* not their order.                                                        *)
(***************************************************************************)
EXTENDS Naturals, SequencesExt

CONSTANTS Pages, Calls, Groups,
          Parts,        \* the credentials of a thing: its username, password and notes
          Secrets,      \* what a user types for one of them
          Given,        \* the credentials a thing may be created with
          None,         \* nothing; of a credential, that it is empty
          MaxChannels,  \* bound: channels of the thing a page still adds to
          MaxStarts     \* bound: requests that write, sent by the pages

NoneIsNothing == None \notin Secrets \cup Pages
PageBounds == MaxChannels \in Nat /\ MaxStarts \in Nat

VARIABLES thing,  \* the stored document, or None
          page,   \* of each page: what it shows, its form and flags
          call,   \* the handlers under way
          calm,   \* pages that were opened in silence and have met no other writer, overlap or fault
          starts  \* writing requests sent so far

vars == <<thing, page, call, calm, starts>>

Idle == [at |-> "idle", req |-> "get", kind |-> "load", page |-> None, body |-> << >>, got |-> None]

Busy == {c \in Calls : call[c].at # "idle"}
Of(p) == {c \in Busy : call[c].page = p}
Go(c, at, got) == call' = [call EXCEPT ![c] = [@ EXCEPT !.at = at, !.got = got]]
End(c) == call' = [call EXCEPT ![c] = Idle]
Flags == {"edit", "delete", "channel", "scan", "reveal"}  \* the handlers with a loading button

\* Credentials are one record of the thing: a page sends, and the API replaces, all parts.
Credentials == [Parts -> Secrets \cup {None}]
NoCredentials == [q \in Parts |-> None]
GivenAreCredentials == Given \subseteq Credentials

Closed == [open |-> FALSE, shown |-> None, form |-> NoCredentials, revealed |-> None, busy |-> {}]

-----------------------------------------------------------------------------
(* The page *)

\* The spinner replaces the page until a load ends: nothing can be clicked.  A dialog
\* covers the page, but Cancel closes it at any moment, whatever its handler waits for.
Ready(p) ==
  /\ page[p].open /\ page[p].shown # None
  /\ "load" \notin page[p].busy

ReloadShows(r) == [r EXCEPT !.busy = (@ \cup {"load"}) \ {"reveal"}]  \* mutant: still shows the credentials

\* setLoading(true) unmounts what the page contains, CredentialsReveal included.
Reload(r) == [r EXCEPT !.busy = (@ \cup {"load"}) \ {"reveal"}, !.revealed = None]

\* The effect of the page's mount.
Open(p, c) ==
  /\ ~page[p].open /\ call[c].at = "idle"
  /\ page' = [page EXCEPT ![p] = Reload([Closed EXCEPT !.open = TRUE])]
  /\ call' = [call EXCEPT ![c] = [Idle EXCEPT !.at = "sent", !.page = p]]
  /\ calm' = IF Busy = {} THEN calm \cup {p} ELSE calm \ {p}
  /\ UNCHANGED <<thing, starts>>

\* Nobody waits for these: a write on its way still arrives.
Orphan(S) == [d \in Calls |->
  IF d \notin S THEN call[d]
  ELSE IF call[d].at = "sent" /\ call[d].req \in {"patch", "delete"} THEN [call[d] EXCEPT !.page = None]
  ELSE Idle]

\* Back, or any link: what is under way goes on without the page.
Leave(p) ==
  /\ page[p].open
  /\ page' = [page EXCEPT ![p] = Closed]
  /\ call' = Orphan(Of(p))
  /\ UNCHANGED <<thing, calm, starts>>

\* A field of the dialog's form, which keeps what was typed when it is discarded.
Type(p, q, k) ==
  /\ Ready(p)
  /\ page' = [page EXCEPT ![p].form = [@ EXCEPT ![q] = k]]
  /\ UNCHANGED <<thing, call, calm, starts>>

\* A handler sends its request; a button with a flag of its own waits for the last.
Start(p, c, kind, req, body) ==
  /\ call[c].at = "idle"
  /\ kind \notin page[p].busy
  /\ page' = [page EXCEPT ![p].busy = @ \cup ({kind} \cap Flags)]
  /\ call' = [call EXCEPT ![c] = [Idle EXCEPT !.at = "sent", !.req = req, !.kind = kind,
                                              !.page = p, !.body = body]]
  /\ thing' = thing

Write(p, c, kind, req, body) ==
  /\ starts < MaxStarts
  /\ starts' = starts + 1
  /\ Start(p, c, kind, req, body)
  /\ calm' = IF Busy = {} THEN calm \cap {p} ELSE {}

handleDelete(p, c) == Ready(p) /\ Write(p, c, "delete", "delete", << >>)

Patch(p, c, kind, field, value) == Write(p, c, kind, "patch", [f \in {field} |-> value])

handleEdit(p, c) == Ready(p) /\ Patch(p, c, "edit", "cred", page[p].form)

\* The form proposes the length of the list and one, a number in use or not.
channelForm(channels) == Append(channels, Len(channels) + 1)

handleAddChannel(p, c) ==
  /\ Ready(p)
  /\ Len(page[p].shown.channels) < MaxChannels
  /\ Patch(p, c, "channel", "channels", channelForm(page[p].shown.channels))

\* A row of the table has a button that removes what is at its index.
Rows(p) == DOMAIN page[p].shown.channels

handleRemoveChannel(p, c) ==
  /\ Ready(p)
  /\ \E i \in Rows(p) : Patch(p, c, "unchannel", "channels", RemoveAt(page[p].shown.channels, i))

assignedGroups(p) == {g \in Groups : page[p].shown.groupIds[g] > 0}
Added(groupIds, g) == [groupIds EXCEPT ![g] = @ + 1]
Removed(groupIds, g) == [groupIds EXCEPT ![g] = 0]

handleAddAny(p, c) ==  \* mutant: offers every group
  /\ Ready(p)
  /\ \E g \in Groups : Patch(p, c, "group", "groupIds", Added(page[p].shown.groupIds, g))

\* The list offers the groups the shown copy is not in.
handleAddToGroup(p, c) ==
  /\ Ready(p)
  /\ \E g \in Groups \ assignedGroups(p) :
       Patch(p, c, "group", "groupIds", Added(page[p].shown.groupIds, g))

handleRemoveFromGroup(p, c) ==
  /\ Ready(p)
  /\ \E g \in assignedGroups(p) :
       Patch(p, c, "ungroup", "groupIds", Removed(page[p].shown.groupIds, g))

\* The scan itself is ScanQueue's.
handleDeepScan(p, c) ==
  /\ Ready(p)
  /\ Start(p, c, "scan", "scan", << >>)
  /\ UNCHANGED <<calm, starts>>

\* CredentialsReveal: a second click hides them.
handleReveal(p, c) ==
  /\ Ready(p)
  /\ IF page[p].revealed # None
     THEN page' = [page EXCEPT ![p].revealed = None] /\ UNCHANGED <<thing, call>>
     ELSE Start(p, c, "reveal", "reveal", << >>)
  /\ UNCHANGED <<calm, starts>>

-----------------------------------------------------------------------------
(* ThingsService *)

Fields == {"groupIds", "channels"}
ViewAll(d) == d  \* mutant: the credentials are not stripped
View(d) == IF d = None THEN None ELSE [f \in Fields |-> d[f]]

\* A form with all credentials empty leaves them alone; another empties those not typed.
Set(d, body) ==
  [f \in DOMAIN d |->
     IF f \notin DOMAIN body \/ (f = "cred" /\ body[f] = NoCredentials) THEN d[f] ELSE body[f]]

Sent(c, req) == call[c].at = "sent" /\ call[c].req = req
Reply(c, got) == IF call[c].page = None THEN End(c)
                 ELSE Go(c, IF thing = None THEN "bad" ELSE "good", got)

findById(c) == Sent(c, "get") /\ Reply(c, View(thing)) /\ UNCHANGED <<thing, page, calm, starts>>

getCredentials(c) ==
  /\ Sent(c, "reveal")
  /\ Reply(c, IF thing = None THEN None ELSE thing.cred)
  /\ UNCHANGED <<thing, page, calm, starts>>

update(c) ==
  /\ Sent(c, "patch")
  /\ Reply(c, None)
  /\ thing' = IF thing = None THEN None ELSE Set(thing, call[c].body)
  /\ UNCHANGED <<page, calm, starts>>

delete(c) ==
  /\ Sent(c, "delete")
  /\ Reply(c, None)
  /\ thing' = None
  /\ UNCHANGED <<page, calm, starts>>

\* Only the answer: what the call does is ScanQueue's, the limits that refuse it included.
discover(c) ==
  /\ Sent(c, "scan")
  /\ \E at \in {"good", "bad"} : Go(c, at, None)
  /\ UNCHANGED <<thing, page, calm, starts>>

\* The request or its answer is lost, or the store fails.
Fails(c) ==
  /\ call[c].at \in {"sent", "good"}
  /\ IF call[c].page = None THEN End(c) ELSE Go(c, "bad", None)
  /\ calm' = calm \ {call[c].page}
  /\ UNCHANGED <<thing, page, starts>>

-----------------------------------------------------------------------------
(* A page meets an answer *)

Good(c, req) == call[c].at = "good" /\ call[c].req = req
Page(c) == page[call[c].page]
SetPage(c, r) == page' = [page EXCEPT ![call[c].page] = r]
Settle(c) == IF call[c].req = "get" THEN {"load", call[c].kind} ELSE {call[c].kind}

Loaded(c) ==
  /\ Good(c, "get")
  /\ SetPage(c, [Page(c) EXCEPT !.shown = call[c].got, !.busy = @ \ Settle(c),
                                !.form = NoCredentials])
  /\ End(c)
  /\ UNCHANGED <<thing, calm, starts>>

SavedAsIs(c) ==  \* mutant: does not read the thing again
  /\ Good(c, "patch")
  /\ SetPage(c, [Page(c) EXCEPT !.busy = @ \ {call[c].kind}])
  /\ End(c)
  /\ UNCHANGED <<thing, calm, starts>>

\* The handler goes on as a load.
Saved(c) ==
  /\ Good(c, "patch")
  /\ SetPage(c, Reload(Page(c)))
  /\ call' = LET others == Orphan({d \in Of(call[c].page) : call[d].req = "reveal"})
             IN [others EXCEPT ![c] = [@ EXCEPT !.at = "sent", !.req = "get", !.body = << >>]]
  /\ UNCHANGED <<thing, calm, starts>>

\* router.push('/things')
Deleted(c) ==
  /\ Good(c, "delete")
  /\ SetPage(c, Closed)
  /\ call' = [Orphan(Of(call[c].page)) EXCEPT ![c] = Idle]
  /\ UNCHANGED <<thing, calm, starts>>

Scanned(c) ==
  /\ Good(c, "scan")
  /\ SetPage(c, [Page(c) EXCEPT !.busy = @ \ {"scan"}])
  /\ End(c)
  /\ UNCHANGED <<thing, calm, starts>>

Revealed(c) ==
  /\ Good(c, "reveal")
  /\ SetPage(c, [Page(c) EXCEPT !.revealed = call[c].got, !.busy = @ \ {"reveal"}])
  /\ End(c)
  /\ UNCHANGED <<thing, calm, starts>>

\* A toast; the page keeps what it showed.
Refused(c) ==
  /\ call[c].at = "bad"
  /\ SetPage(c, [Page(c) EXCEPT !.busy = @ \ Settle(c)])
  /\ End(c)
  /\ UNCHANGED <<thing, calm, starts>>

-----------------------------------------------------------------------------
Init ==
  /\ thing \in [groupIds : [Groups -> {0}], channels : {<< >>}, cred : Given]
  /\ page = [p \in Pages |-> Closed]
  /\ call = [c \in Calls |-> Idle]
  /\ calm = {} /\ starts = 0

Click(p, c) == \/ Open(p, c)
               \/ handleEdit(p, c) \/ handleDelete(p, c) \/ handleAddChannel(p, c)
               \/ handleRemoveChannel(p, c) \/ handleAddToGroup(p, c)
               \/ handleRemoveFromGroup(p, c) \/ handleDeepScan(p, c) \/ handleReveal(p, c)

Use(p) == \/ Leave(p)
          \/ \E q \in Parts, k \in Secrets \cup {None} : Type(p, q, k)

Serve(c) == findById(c) \/ getCredentials(c) \/ update(c) \/ delete(c) \/ discover(c) \/ Fails(c)

Answer(c) == \/ Loaded(c) \/ Saved(c) \/ Deleted(c) \/ Scanned(c) \/ Revealed(c)
             \/ Refused(c)

Next == \/ \E p \in Pages, c \in Calls : Click(p, c)
        \/ \E p \in Pages : Use(p)
        \/ \E c \in Calls : Serve(c) \/ Answer(c)

Spec == Init /\ [][Next]_vars

-----------------------------------------------------------------------------
(* Properties *)

Views == [groupIds : [Groups -> Nat], channels : Seq(1..MaxChannels)]
Things == [groupIds : [Groups -> Nat], channels : Seq(1..MaxChannels),
           cred : Credentials]
NoneIsNoThing == None \notin Views \cup Things \cup Credentials

\* Every variable holds a value of its kind; what a page shows has no credentials in it.
ThingPageTypeOK ==
  /\ thing \in Things \cup {None}
  /\ \A p \in Pages :
       /\ page[p].shown \in Views \cup {None}
       /\ page[p].revealed \in Credentials \cup {None}
       /\ page[p].open \in BOOLEAN
       /\ page[p].busy \subseteq Flags \cup {"load"}
  /\ \A c \in Calls : call[c].page \in Pages \cup {None}
  /\ calm \subseteq Pages /\ starts \in 0..MaxStarts

\* However pages overwrite each other's arrays with what they computed from copies
\* of different age, the thing is never twice in a group.
NoDuplicateGroups ==
  thing # None => \A g \in Groups : thing.groupIds[g] <= 1

\* A page that was opened with nothing under way, that no other page wrote behind,
\* and whose requests went well one at a time shows the stored thing once it settles,
\* however many operations it has done.
QuietPageCurrent ==
  \A p \in calm : page[p].open /\ Of(p) = {} => page[p].shown = View(thing)

\* Such a page never shows credentials it has replaced itself, nor one that a save which
\* typed only others has emptied.
RevealCurrent ==
  \A p \in calm : page[p].open /\ Of(p) = {} /\ page[p].revealed # None =>
                    page[p].revealed = thing.cred

\* A spinner or a waiting button waits for a handler under way, so nothing spins or
\* stays disabled for ever: not after a failure, nor when two loads of the page overlap.
BusyWaits ==
  \A p \in Pages : \A k \in page[p].busy :
    \E c \in Of(p) : IF k = "load" THEN call[c].req = "get" ELSE call[c].kind = k

=============================================================================
