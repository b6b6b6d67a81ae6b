------------------------------ MODULE LocalPage ------------------------------
(***************************************************************************)
(* The page of one local (app/(dashboard)/locals/[id]) over LocalsService  *)
(* and NetworksService: the networks of the local are listed, added,       *)
(* edited and removed, and the local itself is edited and deleted.  A slot *)
(* of Calls is a handler of the page with the request it waits for; other  *)
(* windows delete networks and the local.  What a form says is the network *)
(* it was typed for and its name.  The API lists a first page of the names *)
(* in order, and the page asks for no other.                               *)
(***************************************************************************)
EXTENDS Naturals, FiniteSets

CONSTANTS Networks, Calls, None,
          Texts,     \* the names a user types, as numbers in their order
          Limit,     \* how many networks the API lists, 20
          MaxStarts, \* bound: what the page sends
          MaxOthers  \* bound: what other windows delete

NetworksExist == None \notin Networks
TextsExist == Texts # {} /\ Texts \subseteq Nat /\ Limit \in Nat \ {0}
LocalBounds == {MaxStarts, MaxOthers} \subseteq Nat

VARIABLES local,      \* the local exists
          networks,   \* the stored networks of the local, each with its fields
          page,       \* what the page shows, its dialogs and flags
          call,       \* the handlers under way
          late,       \* networks whose creation was asked for once the local was gone
          calm,       \* one handler at a time, none failed, no other window has written
          starts, others \* requests of the page and foreign writes so far

vars == <<local, networks, page, call, late, calm, starts, others>>

Idle == [at |-> "idle", req |-> "none", kind |-> "none", id |-> None, body |-> None, got |-> None]
At(c, at, req) == call[c].at = at /\ call[c].req = req
Busy == {c \in Calls : call[c].at # "idle"}
Go(c, at) == call' = [call EXCEPT ![c].at = at]
End(c) == call' = [call EXCEPT ![c] = Idle]
\* Of an answer only the kind of its request and what it carries matter.
Answered(c, at, got) == [Idle EXCEPT !.at = at, !.req = call[c].req, !.kind = call[c].kind, !.got = got]
Keep(f, S) == [n \in DOMAIN f \cap S |-> f[n]]
Put(f, n, x) == [k \in DOMAIN f \cup {n} |-> IF k = n THEN x ELSE f[k]]

\* The answer to a list of the networks f: the first by name, equal names in any order.
FirstPage(got, f) ==
  \E S \in SUBSET DOMAIN f :
    /\ got = Keep(f, S) /\ Cardinality(S) <= Limit
    /\ S # DOMAIN f => Cardinality(S) = Limit
    /\ \A n \in S, m \in DOMAIN f \ S : f[n][2] <= f[m][2]

-----------------------------------------------------------------------------
(* The page *)

Closed == [open |-> FALSE, networks |-> << >>, editing |-> None, form |-> None, busy |-> {}]

\* While the local loads the spinner replaces the page; without a local, nothing is offered.
Ready == page.open /\ "local" \notin page.busy

\* A button with a flag waits for the last handler of its kind.
Start(c, kind, n, body) ==
  /\ Ready /\ call[c].at = "idle" /\ kind \notin page.busy
  /\ starts < MaxStarts /\ starts' = starts + 1
  /\ call' = [call EXCEPT ![c] = [Idle EXCEPT !.at = "sent", !.req = kind, !.kind = kind,
                                              !.id = n, !.body = body]]
  /\ page' = [page EXCEPT !.busy = @ \cup {kind}]
  /\ calm' = (calm /\ Busy = {})

handleEdit(c) == Start(c, "edit", None, None) /\ UNCHANGED <<local, networks, late, others>>
handleDeleteLocal(c) == Start(c, "delete", None, None) /\ UNCHANGED <<local, networks, late, others>>

\* A new network, of which the form says what was typed for it.
handleAddNetwork(c, n) ==
  /\ n \notin DOMAIN networks /\ n \notin late
  /\ \A d \in Busy : call[d].id # n
  /\ \E x \in Texts : Start(c, "add", n, <<n, x>>)
  /\ late' = IF local THEN late ELSE late \cup {n}
  /\ UNCHANGED <<local, networks, others>>

\* The dialog takes its fields from the row.
openEditNetwork(n) ==
  /\ Ready /\ n \in DOMAIN page.networks
  /\ page' = [page EXCEPT !.editing = n, !.form = page.networks[n]]
  /\ UNCHANGED <<local, networks, call, late, calm, starts, others>>

\* Only while the dialog is open; Cancel closes it and keeps the form.
Type(x) ==
  /\ Ready /\ page.editing # None
  /\ page' = [page EXCEPT !.form = <<page.editing, x>>]
  /\ UNCHANGED <<local, networks, call, late, calm, starts, others>>

handleEditNetwork(c) ==
  /\ page.editing # None
  /\ Start(c, "editNetwork", page.editing, page.form)
  /\ UNCHANGED <<local, networks, late, others>>

handleDeleteNetwork(c, n) ==
  /\ n \in DOMAIN page.networks
  /\ Start(c, "deleteNetwork", n, None)
  /\ UNCHANGED <<local, networks, late, others>>

-----------------------------------------------------------------------------
(* The API *)

Answer(c, ok) == call' = [call EXCEPT ![c] = Answered(c, IF ok THEN "good" ELSE "bad", None)]

\* LocalsService.findById and update.
findLocal(c) ==
  /\ At(c, "sent", "local") \/ At(c, "sent", "edit")
  /\ Answer(c, local)
  /\ UNCHANGED <<local, networks, page, late, calm, starts, others>>

\* findByLocalId: the local must exist.
findByLocalId(c) ==
  /\ At(c, "sent", "networks")
  /\ \/ ~local /\ Answer(c, FALSE)
     \/ /\ local
        /\ \E S \in SUBSET DOMAIN networks :
             LET got == Keep(networks, S)
             IN FirstPage(got, networks) /\ call' = [call EXCEPT ![c] = Answered(c, "good", got)]
  /\ UNCHANGED <<local, networks, page, late, calm, starts, others>>

\* The networks of the local stay.
deleteLocal(c) ==
  /\ At(c, "sent", "delete")
  /\ Answer(c, local)
  /\ local' = FALSE
  /\ UNCHANGED <<networks, page, late, calm, starts, others>>

\* NetworksService.create: two awaits.
CheckLocal(c) ==
  /\ At(c, "sent", "add")
  /\ IF local THEN Go(c, "checked") ELSE Answer(c, FALSE)
  /\ UNCHANGED <<local, networks, page, late, calm, starts, others>>

createNetwork(c) ==
  /\ At(c, "checked", "add")
  /\ networks' = Put(networks, call[c].id, call[c].body)
  /\ Answer(c, TRUE)
  /\ UNCHANGED <<local, page, late, calm, starts, others>>

updateNetwork(c) ==
  /\ At(c, "sent", "editNetwork")
  /\ LET there == call[c].id \in DOMAIN networks
     IN /\ Answer(c, there)
        /\ networks' = IF there THEN Put(networks, call[c].id, call[c].body) ELSE networks
  /\ UNCHANGED <<local, page, late, calm, starts, others>>

deleteNetwork(c) ==
  /\ At(c, "sent", "deleteNetwork")
  /\ Answer(c, call[c].id \in DOMAIN networks)
  /\ networks' = Keep(networks, Networks \ {call[c].id})
  /\ UNCHANGED <<local, page, late, calm, starts, others>>

\* A request or its answer is lost.
Fails(c) ==
  /\ call[c].at \in {"sent", "checked", "good"}
  /\ Answer(c, FALSE)
  /\ calm' = FALSE
  /\ UNCHANGED <<local, networks, page, late, starts, others>>

OtherWindow ==
  /\ others < MaxOthers
  /\ others' = others + 1
  /\ \/ local' = FALSE /\ UNCHANGED networks
     \/ \E n \in DOMAIN networks : networks' = Keep(networks, Networks \ {n}) /\ UNCHANGED local
  /\ calm' = FALSE
  /\ UNCHANGED <<page, call, late, starts>>

-----------------------------------------------------------------------------
(* The page meets an answer *)

\* What the handler reads again once its write went well.
Reload(c) == IF call[c].kind = "edit" THEN "local" ELSE "networks"

SavedAsIs(c) ==  \* mutant: nothing is read again
  /\ call[c].at = "good" /\ call[c].req \in {"edit", "add", "editNetwork", "deleteNetwork"}
  /\ End(c)
  /\ page' = [page EXCEPT !.busy = @ \ {call[c].kind}]
  /\ UNCHANGED <<local, networks, late, calm, starts, others>>

\* The dialog of an edited network closes, whichever network it is open for by now; what
\* it was filled with is replaced when it opens.
Saved(c) ==
  /\ call[c].at = "good" /\ call[c].req \in {"edit", "add", "editNetwork", "deleteNetwork"}
  /\ call' = [call EXCEPT ![c] = [Idle EXCEPT !.at = "sent", !.req = Reload(c), !.kind = call[c].kind]]
  /\ page' = [page EXCEPT !.busy = @ \cup {Reload(c)},
                          !.editing = IF call[c].kind = "editNetwork" THEN None ELSE @,
                          !.form = IF call[c].kind = "editNetwork" THEN None ELSE @]
  /\ UNCHANGED <<local, networks, late, calm, starts, others>>

fetchNetworks(c) ==
  /\ At(c, "good", "networks")
  /\ page' = [page EXCEPT !.networks = call[c].got, !.busy = @ \ {"networks", call[c].kind}]
  /\ End(c)
  /\ UNCHANGED <<local, networks, late, calm, starts, others>>

fetchLocal(c) ==
  /\ At(c, "good", "local")
  /\ page' = [page EXCEPT !.busy = @ \ {"local", call[c].kind}]
  /\ End(c)
  /\ UNCHANGED <<local, networks, late, calm, starts, others>>

\* router.push('/locals')
Deleted(c) ==
  /\ At(c, "good", "delete")
  /\ page' = Closed
  /\ call' = [d \in Calls |-> IF d # c /\ call[d].at \in {"sent", "checked"} THEN call[d] ELSE Idle]
  /\ UNCHANGED <<local, networks, late, calm, starts, others>>

\* A toast.
Failed(c) ==
  /\ call[c].at = "bad"
  /\ page' = [page EXCEPT !.busy = @ \ {call[c].req, call[c].kind}]
  /\ End(c)
  /\ UNCHANGED <<local, networks, late, calm, starts, others>>

-----------------------------------------------------------------------------
\* The page once the loads of its mount have been answered.
Init ==
  /\ local = TRUE
  /\ \E S \in SUBSET Networks : \E x \in [S -> Texts] : networks = [n \in S |-> <<n, x[n]>>]
  /\ \E S \in SUBSET DOMAIN networks :
       LET got == Keep(networks, S)
       IN FirstPage(got, networks) /\ page = [Closed EXCEPT !.open = TRUE, !.networks = got]
  /\ call = [c \in Calls |-> Idle]
  /\ late = {} /\ calm = TRUE
  /\ starts = 0 /\ others = 0

Click(c) == \/ handleEdit(c) \/ handleDeleteLocal(c) \/ handleEditNetwork(c)
            \/ \E n \in Networks : handleAddNetwork(c, n) \/ handleDeleteNetwork(c, n)

Serve(c) == \/ findLocal(c) \/ findByLocalId(c) \/ deleteLocal(c) \/ CheckLocal(c)
            \/ createNetwork(c) \/ updateNetwork(c) \/ deleteNetwork(c) \/ Fails(c)

Meet(c) == Saved(c) \/ fetchNetworks(c) \/ fetchLocal(c) \/ Deleted(c) \/ Failed(c)

Next == \/ \E c \in Calls : Click(c) \/ Serve(c) \/ Meet(c)
        \/ \E n \in Networks : openEditNetwork(n)
        \/ \E x \in Texts : Type(x)
        \/ OtherWindow

Spec == Init /\ [][Next]_vars

-----------------------------------------------------------------------------
(* Properties *)

Typed == Networks \X Texts
IsList(f) == DOMAIN f \subseteq Networks /\ \A n \in DOMAIN f : f[n] \in Typed

\* Every variable holds a value of its kind, and a flag is set only while its handler
\* is under way.
LocalPageTypeOK ==
  /\ {local, calm, page.open} \subseteq BOOLEAN
  /\ IsList(networks) /\ IsList(page.networks)
  /\ page.editing \in Networks \cup {None} /\ page.form \in Typed \cup {None}
  /\ late \subseteq Networks /\ starts \in 0..MaxStarts /\ others \in 0..MaxOthers
  /\ \A k \in page.busy : \E c \in Busy : k \in {call[c].kind, call[c].req}

\* A network never gets what was typed for another, however the dialogs of several
\* networks, their saves and the answers that close them follow each other.
EditedAsTyped == \A n \in DOMAIN networks : networks[n][1] = n

\* A page that has written alone, one handler at a time, none failed, shows once it settles
\* the stored networks with their fields: all of them, or as many as the API lists, none of
\* which comes after one that is left out.
NetworksShown == calm /\ page.open /\ Busy = {} => FirstPage(page.networks, networks)

\* What was asked for after the local was gone is not created in it, though the local is
\* looked up and the network created in two steps.
NoLateNetwork == late \cap DOMAIN networks = {}

=============================================================================
