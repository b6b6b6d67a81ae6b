------------------------------ MODULE ThingsPage ------------------------------
(***************************************************************************)
(* The list of things (app/(dashboard)/things): pages of the things that   *)
(* match what was searched for and the chosen status, read again by an     *)
(* effect whenever the page, the search or the status changes, and by the  *)
(* two handlers that delete.  A slot of Calls is a read, or a handler of   *)
(* the page, with the query it has closed over; scans and other windows    *)
(* add, register and delete things.                                        *)
(***************************************************************************)
EXTENDS Naturals, FiniteSets

CONSTANTS Things,    \* identities, in the order of their names
          Named,     \* those the search finds
          Limit,     \* rows of a page, 20
          Calls,
          MaxClicks, \* bound: filters, pages and handlers
          MaxOthers  \* bound: what scans and other windows write

ThingsAreOrdered ==
  /\ Things \subseteq Nat \ {0} /\ IsFiniteSet(Things) /\ Named \subseteq Things
  /\ Limit \in Nat \ {0}
ThingsBounds == {MaxClicks, MaxOthers} \subseteq Nat

VARIABLES things,     \* the stored things
          discovered, \* those of them that are not registered
          query,      \* page, search (debounced) and status
          search,     \* what is typed in the field
          shown,      \* the rows: the query they answer and the things
          total,      \* how many things matched then
          loading, busy,
          call,
          sure,       \* things the user has confirmed to delete, or all discovered
          calm,       \* one call at a time, none failed, nobody else has written
          clicks, others

vars == <<things, discovered, query, search, shown, total, loading, busy, call, sure, calm, clicks, others>>

First == [page |-> 1, search |-> FALSE, status |-> FALSE]
Idle == [at |-> "idle", req |-> "none", kind |-> "none", id |-> 0, query |-> First, rows |-> {}, total |-> 0]
At(c, at, req) == call[c].at = at /\ call[c].req = req
Busy == {c \in Calls : call[c].at # "idle"}
Free == Calls \ Busy
Go(c, at) == call' = [call EXCEPT ![c].at = at]
Asking(kind, q) == [Idle EXCEPT !.at = "sent", !.req = "list", !.kind = kind, !.query = q]

-----------------------------------------------------------------------------
(* ThingsRepository.findAll and usePagination *)

\* The search, and status "discovered"; without either, all things match.
Matching(q) == {t \in things : (q.search => t \in Named) /\ (q.status => t \in discovered)}

\* skip and limit of the things in order.
Rows(q) ==
  {t \in Matching(q) : LET before == Cardinality({u \in Matching(q) : u < t})
                       IN before >= (q.page - 1) * Limit /\ before < q.page * Limit}

Pages == (total + Limit - 1) \div Limit
hasNext == query.page < Pages
hasPrev == query.page > 1

-----------------------------------------------------------------------------
(* The page *)

Click == clicks < MaxClicks /\ clicks' = clicks + 1

\* The effect: a changed query is read, whatever is still being read.
Changed(q) ==
  /\ query' = q /\ loading' = TRUE
  /\ \E c \in Free : call' = [call EXCEPT ![c] = Asking("none", q)]
  /\ calm' = (calm /\ Busy = {})

\* The page stays the same when a filter changes.
setStatusFilter ==
  /\ Click /\ Changed([query EXCEPT !.status = ~@])
  /\ UNCHANGED <<things, discovered, search, shown, total, busy, sure, others>>

setSearch ==
  /\ Click /\ search' = ~search
  /\ UNCHANGED <<things, discovered, query, shown, total, loading, busy, call, sure, calm, others>>

\* 400 ms without a key.
Debounce ==
  /\ search # query.search /\ Changed([query EXCEPT !.search = search])
  /\ UNCHANGED <<things, discovered, search, shown, total, busy, sure, clicks, others>>

\* With no rows the buttons are not there.
Turn ==
  /\ Click /\ (loading \/ shown.rows # {})
  /\ \/ hasNext /\ Changed([query EXCEPT !.page = @ + 1])
     \/ hasPrev /\ Changed([query EXCEPT !.page = @ - 1])
  /\ UNCHANGED <<things, discovered, search, shown, total, busy, sure, others>>

Start(c, kind, t) ==
  /\ Click /\ kind \notin busy /\ c \in Free
  /\ busy' = busy \cup {kind}
  /\ call' = [call EXCEPT ![c] = [Idle EXCEPT !.at = "sent", !.req = kind, !.kind = kind, !.id = t,
                                 !.query = query]]
  /\ calm' = (calm /\ Busy = {})
  /\ UNCHANGED <<things, discovered, query, search, shown, total, loading, others>>

\* Its dialog may have been opened before the rows began to load.
handleDelete(c) ==
  \E t \in shown.rows : Start(c, "delete", t) /\ sure' = sure \cup {t}

handleDeleteDiscovered(c) == Start(c, "deleteDiscovered", 0) /\ sure' = sure \cup {0}

-----------------------------------------------------------------------------
(* The API and its other clients *)

ReadPage(c) ==
  /\ At(c, "sent", "list")
  /\ call' = [call EXCEPT ![c] = [@ EXCEPT !.at = "good", !.rows = Rows(call[c].query),
                                           !.total = Cardinality(Matching(call[c].query))]]
  /\ UNCHANGED <<things, discovered, query, search, shown, total, loading, busy, sure, calm, clicks, others>>

delete(c) ==
  /\ At(c, "sent", "delete")
  /\ Go(c, IF call[c].id \in things THEN "good" ELSE "bad")
  /\ things' = things \ {call[c].id} /\ discovered' = discovered \ {call[c].id}
  /\ UNCHANGED <<query, search, shown, total, loading, busy, sure, calm, clicks, others>>

DeleteShown(c) ==  \* mutant: deletes what the page shows as discovered
  /\ At(c, "sent", "deleteDiscovered")
  /\ Go(c, "good")
  /\ LET gone == discovered \cup (IF shown.query.status THEN shown.rows ELSE {})
     IN things' = things \ gone /\ discovered' = discovered \ gone
  /\ UNCHANGED <<query, search, shown, total, loading, busy, sure, calm, clicks, others>>

\* deleteByRegistrationStatus: those that are discovered by then.
deleteDiscovered(c) ==
  /\ At(c, "sent", "deleteDiscovered")
  /\ Go(c, "good")
  /\ things' = things \ discovered /\ discovered' = {}
  /\ UNCHANGED <<query, search, shown, total, loading, busy, sure, calm, clicks, others>>

Fails(c) ==
  /\ call[c].at \in {"sent", "good"}
  /\ Go(c, "bad")
  /\ calm' = FALSE
  /\ UNCHANGED <<things, discovered, query, search, shown, total, loading, busy, sure, clicks, others>>

\* A scan finds a thing, or another window registers or adds one.
OtherWindow(t) ==
  /\ others < MaxOthers /\ others' = others + 1
  /\ \/ t \notin things /\ things' = things \cup {t} /\ discovered' = discovered \cup {t}
     \/ t \in discovered /\ discovered' = discovered \ {t} /\ UNCHANGED things
  /\ calm' = FALSE
  /\ UNCHANGED <<query, search, shown, total, loading, busy, call, sure, clicks>>

-----------------------------------------------------------------------------
(* The page meets an answer *)

\* What was answered is shown, for whichever query it was asked.
setThings(c) ==
  /\ At(c, "good", "list")
  /\ shown' = [query |-> call[c].query, rows |-> call[c].rows] /\ total' = call[c].total
  /\ loading' = FALSE
  /\ busy' = busy \ {call[c].kind}
  /\ call' = [call EXCEPT ![c] = Idle]
  /\ UNCHANGED <<things, discovered, query, search, sure, calm, clicks, others>>

\* The list is read again with the query of the handler, which may no longer be the page's.
Deleted(c) ==
  /\ call[c].at = "good" /\ call[c].req # "list"
  /\ loading' = TRUE
  /\ call' = [call EXCEPT ![c] = Asking(call[c].kind, call[c].query)]
  /\ UNCHANGED <<things, discovered, query, search, shown, total, busy, sure, calm, clicks, others>>

Failed(c) ==
  /\ call[c].at = "bad"
  /\ loading' = IF call[c].req = "list" THEN FALSE ELSE loading
  /\ busy' = busy \ {call[c].kind}
  /\ call' = [call EXCEPT ![c] = Idle]
  /\ UNCHANGED <<things, discovered, query, search, shown, total, sure, calm, clicks, others>>

-----------------------------------------------------------------------------
Init ==
  /\ things = Things /\ discovered \in SUBSET Things
  /\ query = First /\ search = FALSE
  /\ shown = [query |-> First, rows |-> {}] /\ total = 0
  /\ loading = TRUE /\ busy = {} /\ sure = {} /\ calm = TRUE
  /\ \E m \in Calls : call = [c \in Calls |-> IF c = m THEN Asking("none", First) ELSE Idle]
  /\ clicks = 0 /\ others = 0

Serve(c) == ReadPage(c) \/ delete(c) \/ deleteDiscovered(c) \/ Fails(c)
Meet(c) == setThings(c) \/ Deleted(c) \/ Failed(c)

Next == \/ setStatusFilter \/ setSearch \/ Debounce \/ Turn
        \/ \E c \in Calls : handleDelete(c) \/ handleDeleteDiscovered(c) \/ Serve(c) \/ Meet(c)
        \/ \E t \in Things : OtherWindow(t)

Spec == Init /\ [][Next]_vars

-----------------------------------------------------------------------------
(* Properties *)

Queries == [page : 1..(Cardinality(Things) + 1), search : BOOLEAN, status : BOOLEAN]

\* Every variable holds a value of its kind, a page holds no more rows than its limit, and
\* a button waits only for its own handler.
ThingsPageTypeOK ==
  /\ things \subseteq Things /\ discovered \subseteq things /\ sure \subseteq Things \cup {0}
  /\ query \in Queries /\ shown.query \in Queries /\ shown.rows \subseteq Things
  /\ Cardinality(shown.rows) <= Limit /\ total \in 0..Cardinality(Things)
  /\ {search, loading, calm} \subseteq BOOLEAN
  /\ \A k \in busy : \E c \in Busy : call[c].kind = k
  /\ clicks \in 0..MaxClicks /\ others \in 0..MaxOthers

\* A page used alone, one call at a time and none failed, shows the stored things that
\* match its filters once it has settled.
ListCurrent ==
  calm /\ Busy = {} /\ search = query.search =>
    shown = [query |-> query, rows |-> Rows(query)] /\ total = Cardinality(Matching(query))

\* Nothing is deleted but the very things the user confirmed and, after "delete
\* discovered", things still discovered when the API deletes: a thing registered while
\* the page shows it as discovered stays.
DeletesAsAsked == \A t \in things \ things' : t \in sure \/ (0 \in sure /\ t \in discovered)

=============================================================================
