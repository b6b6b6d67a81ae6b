-------------------------- MODULE SessionPagesProofs --------------------------
(***************************************************************************)
(* What holds of the pages of a local, of the things and of the rules for  *)
(* any number of handlers, networks, texts, things, rules and requests.    *)
(***************************************************************************)
EXTENDS MCSessionPages, SessionProofs, FiniteSetTheorems

-----------------------------------------------------------------------------
(* The page of a local *)

\* A list of networks, each with what was typed for it.
AsTyped(f) ==
  /\ DOMAIN f \subseteq Networks /\ f = [n \in DOMAIN f |-> f[n]]
  /\ \A n \in DOMAIN f : f[n] \in Local!Typed /\ f[n][1] = n

LocalHandler(r) ==
  /\ DOMAIN r = {"at", "req", "kind", "id", "body", "got"}
  /\ r.at = "idle" => r.req = "none"
  /\ r.at = "checked" => r.req = "add"
  /\ r.req \in {"edit", "delete", "add", "editNetwork", "deleteNetwork"} => r.kind = r.req
  /\ r.req \in {"add", "editNetwork"} /\ r.at \in {"sent", "checked"} =>
       r.id \in Networks /\ r.body \in Local!Typed /\ r.body[1] = r.id
  /\ r.req = "networks" /\ r.at = "good" => AsTyped(r.got)

\* An open dialog holds what was typed for its own network.
Dialog(p) ==
  \/ p.editing = None /\ p.form \in Local!Typed \cup {None}
  \/ p.editing \in Networks /\ p.form \in Local!Typed /\ p.form[1] = p.editing
LocalShape(p) ==
  /\ DOMAIN p = {"open", "networks", "editing", "form", "busy"}
  /\ p.open \in BOOLEAN /\ AsTyped(p.networks) /\ Dialog(p)

LocalStored ==
  /\ itsLocal \in BOOLEAN /\ calm \in BOOLEAN /\ AsTyped(networks) /\ late \subseteq Networks
  /\ starts \in 0..MaxStarts /\ others \in 0..MaxOthers
LocalCalls == DOMAIN itsCall = Calls /\ \A c \in Calls : LocalHandler(itsCall[c])
Under(c) == itsCall[c].at # "idle"
LocalButtons == \A k \in page.busy : \E c \in Calls : Under(c) /\ k \in {itsCall[c].kind, itsCall[c].req}
LocalTyped == LocalStored /\ LocalShape(page) /\ LocalCalls /\ LocalButtons

\* What was asked for after the local was gone is not on its way to be created.
Late ==
  /\ late \cap DOMAIN networks = {}
  /\ late # {} => ~itsLocal
  /\ \A c \in Calls : itsCall[c].at = "checked" => itsCall[c].id \notin late

\* A page that writes alone has met the stored networks, or is about to read them.
NetworksDue(r) ==
  \/ r.req \in {"add", "editNetwork", "deleteNetwork"} /\ r.at = "good"
  \/ r.req = "networks" /\ r.at \in {"sent", "good"}
NetworksRead(r) == r.req = "networks" /\ r.at = "good" => Local!FirstPage(r.got, networks)
LocalDeleted(r) == r.req = "delete" /\ r.at = "good"
LocalCalm ==
  calm => /\ \A c, d \in Calls : Under(c) /\ Under(d) => c = d
          /\ \A c \in Calls : NetworksRead(itsCall[c])
          /\ page.open => /\ itsLocal \/ \E c \in Calls : LocalDeleted(itsCall[c])
                          /\ Local!FirstPage(page.networks, networks) \/ \E c \in Calls : NetworksDue(itsCall[c])

LocalInv == which = "Local" => LocalTyped /\ Late /\ LocalCalm

-----------------------------------------------------------------------------
(* The list of things *)

ListRequest(r) ==
  /\ DOMAIN r = {"at", "req", "kind", "id", "query", "rows", "total"}
  /\ r.at = "idle" => r.req = "none"
  /\ r.query \in List!Queries
  /\ r.req = "delete" => r.id \in Things /\ r.id \in sure
  /\ r.req = "deleteDiscovered" => 0 \in sure
  /\ r.req = "list" /\ r.at = "good" =>
       r.rows \subseteq Things /\ Cardinality(r.rows) <= Limit /\ r.total \in 0..Cardinality(Things)

ListStored ==
  /\ things \subseteq Things /\ discovered \subseteq things /\ sure \subseteq Things \cup {0}
  /\ query \in List!Queries /\ shown.query \in List!Queries /\ shown.rows \subseteq Things
  /\ Cardinality(shown.rows) <= Limit /\ total \in 0..Cardinality(Things)
  /\ search \in BOOLEAN /\ loading \in BOOLEAN /\ calm \in BOOLEAN
  /\ clicks \in 0..MaxClicks /\ others \in 0..MaxOthers
ListCalls == DOMAIN itsCall = Calls /\ \A c \in Calls : ListRequest(itsCall[c])
ListButtons == \A k \in busy : \E c \in Calls : Under(c) /\ itsCall[c].kind = k
ListTyped == ListStored /\ ListCalls /\ ListButtons

\* A page that is used alone has met the things that match, or is about to read them.
Page(q) == [query |-> q, rows |-> List!Rows(q)]
Matches(q) == Cardinality(List!Matching(q))
ListDue(r) == r.req = "list" \/ (r.req \in {"delete", "deleteDiscovered"} /\ r.at = "good")
ListRead(r) ==
  /\ r.at # "idle" => r.query = query
  /\ r.req = "list" => r.at # "bad"
  /\ r.req = "list" /\ r.at = "good" => r.rows = List!Rows(query) /\ r.total = Matches(query)
ListCalm ==
  calm => /\ \A c, d \in Calls : Under(c) /\ Under(d) => c = d
          /\ \A c \in Calls : ListRead(itsCall[c])
          /\ (shown = Page(query) /\ total = Matches(query)) \/ \E c \in Calls : ListDue(itsCall[c])

ListInv == which = "List" => ListTyped /\ ListCalm

-----------------------------------------------------------------------------
(* The rules *)

\* A form whose kind of target its condition knows and, unless a load of targets failed or
\* was overtaken, whose target is of this kind.
Fits(f) ==
  /\ f \in Rule!Forms /\ f.type \in Rule!TargetTypes(f.condition)
  /\ fit => f.target \in {f.type, None}
RuleList(f) ==
  /\ DOMAIN f \subseteq Things /\ f = [n \in DOMAIN f |-> f[n]]
  /\ \A n \in DOMAIN f : Fits(f[n]) /\ f[n].typed = n

RuleRequest(r) ==
  /\ DOMAIN r = {"at", "req", "id", "body", "flag", "page", "got", "total"}
  /\ r.page \in Nat \ {0}
  /\ r.at = "idle" => r.req = "none"
  /\ r.req = "none" => r.at = "idle"
  /\ r.req \in {"none", "create", "update", "delete", "list", "targets"}
  /\ r.req \in {"create", "update"} => r.id \in Things /\ Fits(r.body) /\ r.flag = "save"
  /\ r.req = "update" => r.body.typed = r.id
  /\ r.req = "delete" => r.flag = "delete"
  /\ r.req = "targets" => r.body \in Rule!Forms /\ r.flag = "targets"
  /\ r.req = "list" => /\ r.flag \in {"save", "delete", "none"}
                       /\ r.at = "good" => RuleList(r.got) /\ r.total \in 0..Rule!Cardinality(Things)

RuleModal ==
  /\ modal \in [open : BOOLEAN, editing : Things \cup {None}, form : Rule!Forms]
  /\ Fits(modal.form)
  /\ modal.open /\ modal.editing # None => modal.form.typed = modal.editing
  \* the select offers targets of the form's kind once it is enabled
  /\ fit /\ modal.open /\ "targets" \notin busy => options = {modal.form.type}
RuleStored ==
  /\ RuleList(rules) /\ RuleList(shown) /\ options \subseteq Rule!Kinds
  /\ page \in Nat \ {0} /\ total \in 0..Rule!Cardinality(Things)
  /\ fit \in BOOLEAN /\ calm \in BOOLEAN
  /\ starts \in 0..MaxStarts /\ others \in 0..MaxOthers
RuleCalls == DOMAIN itsCall = Calls /\ \A c \in Calls : RuleRequest(itsCall[c])
RuleButtons ==
  \A b \in busy : \E c \in Calls : Under(c) /\ (itsCall[c].flag = b \/ (b = "rules" /\ itsCall[c].req = "list"))
RuleTyped == RuleStored /\ RuleModal /\ RuleCalls /\ RuleButtons

\* A page that writes alone has met the rules of its page, or is about to read them.
Handles(r) == r.at # "idle" /\ r.req # "targets"
RulesDue(r) ==
  \/ r.req \in {"create", "update", "delete"} /\ r.at = "good"
  \/ r.req = "list"
RulesOf(f, n, p) == f = Rule!Rows(rules, p) /\ n = Rule!Cardinality(DOMAIN rules)
RulesRead(r) ==
  /\ Handles(r) => r.page = page
  /\ r.req = "list" => r.at # "bad" /\ (r.at = "good" => RulesOf(r.got, r.total, page))
RuleCalm ==
  calm => /\ \A c, d \in Calls : Handles(itsCall[c]) /\ Handles(itsCall[d]) => c = d
          /\ \A c \in Calls : RulesRead(itsCall[c])
          /\ RulesOf(shown, total, page) \/ \E c \in Calls : RulesDue(itsCall[c])

RuleInv == which = "Rule" => RuleTyped /\ RuleCalm

-----------------------------------------------------------------------------
(* A slot that is replaced *)

LEMMA SlotReplaced ==
  ASSUME NEW c \in Calls, NEW r, DOMAIN itsCall = Calls, itsCall' = [itsCall EXCEPT ![c] = r]
  PROVE  DOMAIN itsCall' = Calls /\ itsCall'[c] = r /\ \A d \in Calls \ {c} : itsCall'[d] = itsCall[d]
OBVIOUS

\* What a handler is after a move: the kind and the request its flags are set for are kept,
\* or the flags go.
LocalWaits(c, r) ==
  \A k \in page'.busy :
    \/ r.at # "idle" /\ k \in {r.kind, r.req}
    \/ k \in page.busy /\ (Under(c) => k \notin {itsCall[c].kind, itsCall[c].req})

LEMMA LocalTypedAfter ==
  ASSUME LocalTyped, NEW c \in Calls, NEW r, itsCall' = [itsCall EXCEPT ![c] = r], LocalHandler(r),
         LocalStored', (LocalShape(page))', LocalWaits(c, r)
  PROVE  LocalTyped'
<1>1. /\ DOMAIN itsCall' = Calls /\ itsCall'[c] = r
      /\ \A d \in Calls \ {c} : itsCall'[d] = itsCall[d]
  BY SlotReplaced DEF LocalTyped, LocalCalls
<1>2. LocalCalls'
  BY <1>1 DEF LocalTyped, LocalCalls, LocalHandler, AsTyped
<1>3. ASSUME NEW k \in page'.busy
      PROVE  \E d \in Calls : (Under(d))' /\ k \in {itsCall'[d].kind, itsCall'[d].req}
  <2>1. CASE r.at # "idle" /\ k \in {r.kind, r.req}
    BY <1>1, <2>1 DEF Under
  <2>2. CASE k \in page.busy /\ (Under(c) => k \notin {itsCall[c].kind, itsCall[c].req})
    <3>1. PICK d \in Calls : Under(d) /\ k \in {itsCall[d].kind, itsCall[d].req}
      BY <2>2 DEF LocalTyped, LocalButtons
    <3>2. d # c
      BY <2>2, <3>1
    <3> QED
      BY <1>1, <3>1, <3>2 DEF Under
  <2> QED
    BY <2>1, <2>2 DEF LocalWaits
<1> QED
  BY <1>2, <1>3 DEF LocalTyped, LocalButtons

\* A handler that keeps its request and kind keeps its flags.
LEMMA LocalSameWaits ==
  ASSUME NEW c \in Calls, NEW r, page'.busy = page.busy, r.at # "idle", r.kind = itsCall[c].kind,
         r.req = itsCall[c].req
  PROVE  LocalWaits(c, r)
BY DEF LocalWaits

-----------------------------------------------------------------------------
(* The page of a local alone *)

LocalSolo(c) ==
  /\ \A d \in Calls : Under(d) => d = c
  /\ NetworksRead(itsCall[c])
  /\ page.open => /\ itsLocal \/ LocalDeleted(itsCall[c])
                  /\ Local!FirstPage(page.networks, networks) \/ NetworksDue(itsCall[c])

LEMMA IdleLocal ==
  ASSUME NEW r, LocalHandler(r), r.at = "idle"
  PROVE  ~NetworksDue(r) /\ ~LocalDeleted(r) /\ r.req = "none"
BY DEF LocalHandler, NetworksDue, LocalDeleted

LEMMA LocalAlone ==
  ASSUME LocalTyped, LocalCalm, calm, NEW c \in Calls, Under(c) \/ Local!Busy = {}
  PROVE  LocalSolo(c)
<1>1. \A d \in Calls : Under(d) => d = c
  BY DEF LocalCalm, Under, Local!Busy
<1>2. \A d \in Calls : d # c => ~NetworksDue(itsCall[d]) /\ ~LocalDeleted(itsCall[d])
  BY <1>1, IdleLocal DEF LocalTyped, LocalCalls, Under
<1>3. page.open => itsLocal \/ LocalDeleted(itsCall[c])
  BY <1>2 DEF LocalCalm
<1>4. page.open => Local!FirstPage(page.networks, networks) \/ NetworksDue(itsCall[c])
  BY <1>2 DEF LocalCalm
<1> QED
  BY <1>1, <1>3, <1>4 DEF LocalSolo, LocalCalm

LEMMA SoloIsLocalCalm ==
  ASSUME LocalTyped, NEW c \in Calls, LocalSolo(c)
  PROVE  LocalCalm
<1>1. \A d \in Calls : d # c => itsCall[d].req = "none"
  BY IdleLocal DEF LocalSolo, Under, LocalTyped, LocalCalls
<1>2. \A d \in Calls : NetworksRead(itsCall[d])
  <2>1. \A d \in Calls : d # c => NetworksRead(itsCall[d])
    BY <1>1 DEF NetworksRead
  <2> QED
    BY <2>1 DEF LocalSolo
<1> QED
  BY <1>2 DEF LocalSolo, LocalCalm

LEMMA LocalCalmAfter ==
  ASSUME LocalTyped, LocalCalm, LocalTyped', NEW c \in Calls,
         calm' => calm /\ (Under(c) \/ Local!Busy = {}),
         calm' /\ LocalSolo(c) => (LocalSolo(c))'
  PROVE  LocalCalm'
<1>1. CASE ~calm'
  BY <1>1 DEF LocalCalm
<1>2. CASE calm'
  <2>1. (LocalSolo(c))'
    BY <1>2, LocalAlone
  <2> QED
    BY <2>1, SoloIsLocalCalm, PTL
<1> QED
  BY <1>1, <1>2

LEMMA LocalSoloAfter ==
  ASSUME LocalTyped, NEW c \in Calls, NEW r, itsCall' = [itsCall EXCEPT ![c] = r], LocalSolo(c),
         (NetworksRead(r))',
         page'.open => /\ itsLocal' \/ LocalDeleted(r)
                       /\ Local!FirstPage(page'.networks, networks') \/ NetworksDue(r)
  PROVE  (LocalSolo(c))'
<1>1. itsCall'[c] = r /\ \A d \in Calls \ {c} : itsCall'[d] = itsCall[d]
  BY SlotReplaced DEF LocalTyped, LocalCalls
<1>2. \A d \in Calls : (Under(d))' => d = c
  BY <1>1 DEF LocalSolo, Under
<1>3. (NetworksRead(itsCall[c]))'
  BY <1>1 DEF NetworksRead
<1>4. (page.open => /\ itsLocal \/ LocalDeleted(itsCall[c])
                    /\ Local!FirstPage(page.networks, networks) \/ NetworksDue(itsCall[c]))'
  BY <1>1 DEF LocalDeleted, NetworksDue
<1> QED
  BY <1>2, <1>3, <1>4 DEF LocalSolo

LEMMA LateAfter ==
  ASSUME LocalTyped, Late, NEW c \in Calls, NEW r, itsCall' = [itsCall EXCEPT ![c] = r],
         late' \cap DOMAIN networks' = {}, late' # {} => ~itsLocal',
         \A d \in Calls \ {c} : itsCall[d].at = "checked" => itsCall[d].id \notin late',
         r.at = "checked" => r.id \notin late'
  PROVE  Late'
<1>1. itsCall'[c] = r /\ \A d \in Calls \ {c} : itsCall'[d] = itsCall[d]
  BY SlotReplaced DEF LocalTyped, LocalCalls
<1> QED
  BY <1>1 DEF Late

-----------------------------------------------------------------------------
(* The page of a local: what its user does *)

LEMMA LocalStarts ==
  ASSUME LocalTyped, Late, LocalCalm, NEW c \in Calls, NEW kind, NEW n, NEW body,
         kind \in {"edit", "delete", "add", "editNetwork", "deleteNetwork"},
         Local!Start(c, kind, n, body), UNCHANGED <<itsLocal, networks, others>>,
         kind \in {"add", "editNetwork"} => n \in Networks /\ body \in Local!Typed /\ body[1] = n,
         \/ late' = late
         \/ /\ ~itsLocal /\ late' = late \cup {n} /\ n \in Networks \ DOMAIN networks
            /\ \A d \in Local!Busy : itsCall[d].id # n
  PROVE  LocalTyped' /\ Late' /\ LocalCalm'
<1>1. PICK r : r = [Local!Idle EXCEPT !.at = "sent", !.req = kind, !.kind = kind, !.id = n, !.body = body]
  OBVIOUS
<1>2. /\ DOMAIN r = {"at", "req", "kind", "id", "body", "got"} /\ r.at = "sent" /\ r.req = kind
      /\ r.kind = kind /\ r.id = n /\ r.body = body
  BY <1>1 DEF Local!Idle
<1>3. PICK p : p = [page EXCEPT !.busy = @ \cup {kind}]
  OBVIOUS
<1>4. /\ itsCall' = [itsCall EXCEPT ![c] = r] /\ page' = p /\ ~Under(c) /\ starts < MaxStarts
      /\ starts' = starts + 1 /\ calm' = (calm /\ Local!Busy = {})
  BY <1>1, <1>3 DEF Local!Start, Under
<1>5. LocalShape(page)
  BY DEF LocalTyped
<1>6. /\ DOMAIN p = DOMAIN page /\ p.open = page.open /\ p.networks = page.networks
      /\ p.editing = page.editing /\ p.form = page.form /\ p.busy = page.busy \cup {kind}
  BY <1>3, <1>5 DEF LocalShape
<1>7. (LocalShape(page))'
  BY <1>4, <1>5, <1>6 DEF LocalShape, Dialog
<1>8. LocalHandler(r)
  BY <1>2 DEF LocalHandler
<1>9. LocalStored'
  <2>1. starts' \in 0..MaxStarts
    BY <1>4, LocalAssumption DEF LocalTyped, LocalStored, Local!LocalBounds
  <2>2. calm' \in BOOLEAN
    BY <1>4
  <2>3. late' \subseteq Networks
    BY DEF LocalTyped, LocalStored
  <2>4. (AsTyped(networks))'
    BY DEF LocalTyped, LocalStored, AsTyped
  <2> QED
    BY <2>1, <2>2, <2>3, <2>4 DEF LocalTyped, LocalStored
<1>10. LocalTyped'
  <2>1. LocalWaits(c, r)
    BY <1>2, <1>4, <1>6 DEF LocalWaits
  <2> QED
    BY <1>4, <1>7, <1>8, <1>9, <2>1, LocalTypedAfter
<1>11. Late'
  <2>1. late' \cap DOMAIN networks' = {} /\ (late' # {} => ~itsLocal')
    BY DEF Late
  <2>2. \A d \in Calls \ {c} : itsCall[d].at = "checked" => itsCall[d].id \notin late'
    BY DEF Late, Local!Busy
  <2> QED
    BY <1>2, <1>4, <2>1, <2>2, LateAfter
<1>12. ASSUME LocalSolo(c) PROVE (LocalSolo(c))'
  <2>1. ~NetworksDue(itsCall[c]) /\ ~LocalDeleted(itsCall[c])
    BY <1>4, IdleLocal DEF LocalTyped, LocalCalls, Under
  <2>2. (NetworksRead(r))'
    BY <1>2 DEF NetworksRead
  <2> QED
    BY <1>4, <1>6, <1>12, <2>1, <2>2, LocalSoloAfter DEF LocalSolo
<1> QED
  BY <1>4, <1>10, <1>11, <1>12, LocalCalmAfter

LEMMA LocalClicks ==
  ASSUME LocalTyped, Late, LocalCalm, NEW c \in Calls, Local!Click(c)
  PROVE  LocalTyped' /\ Late' /\ LocalCalm'
<1> DEFINE Begins(kind, n, body) == Local!Start(c, kind, n, body) /\ UNCHANGED <<itsLocal, networks, others>>
           Ends == LocalTyped' /\ Late' /\ LocalCalm'
<1>0. ASSUME NEW kind \in {"edit", "delete", "add", "editNetwork", "deleteNetwork"}, NEW n, NEW body,
             Begins(kind, n, body),
             kind \in {"add", "editNetwork"} => n \in Networks /\ body \in Local!Typed /\ body[1] = n,
             \/ late' = late
             \/ /\ ~itsLocal /\ late' = late \cup {n} /\ n \in Networks \ DOMAIN networks
                /\ \A d \in Local!Busy : itsCall[d].id # n
      PROVE  Ends
  BY <1>0, LocalStarts
<1>1. ASSUME Local!handleEdit(c) PROVE Ends
  <2>1. Begins("edit", None, None) /\ late' = late
    BY <1>1, Zenon DEF Local!handleEdit
  <2>2. "edit" \notin {"add", "editNetwork"}
    OBVIOUS
  <2> HIDE DEF Begins, Ends
  <2> QED
    BY <2>1, <2>2, <1>0, Zenon
<1>2. ASSUME Local!handleDeleteLocal(c) PROVE Ends
  <2>1. Begins("delete", None, None) /\ late' = late
    BY <1>2, Zenon DEF Local!handleDeleteLocal
  <2>2. "delete" \notin {"add", "editNetwork"}
    OBVIOUS
  <2> HIDE DEF Begins, Ends
  <2> QED
    BY <2>1, <2>2, <1>0, Zenon
<1>3. ASSUME NEW n \in Networks, Local!handleAddNetwork(c, n) PROVE Ends
  <2>1. PICK x \in Texts : Begins("add", n, <<n, x>>)
    BY <1>3, Zenon DEF Local!handleAddNetwork
  <2>2. PICK body : body = <<n, x>>
    OBVIOUS
  <2>3. body \in Local!Typed /\ body[1] = n
    BY <2>2 DEF Local!Typed
  <2>4. /\ n \notin DOMAIN networks /\ \A d \in Local!Busy : itsCall[d].id # n
        /\ itsLocal => late' = late
        /\ ~itsLocal => late' = late \cup {n}
    BY <1>3, Zenon DEF Local!handleAddNetwork
  <2>5. Begins("add", n, body)
    BY <2>1, <2>2
  <2> HIDE DEF Begins, Ends
  <2> QED
    BY <2>3, <2>4, <2>5, <1>0
<1>4. ASSUME Local!handleEditNetwork(c) PROVE Ends
  <2>1. PICK n : n = page.editing
    OBVIOUS
  <2>2. PICK body : body = page.form
    OBVIOUS
  <2>3. Begins("editNetwork", n, body) /\ late' = late /\ page.editing # None
    BY <1>4, <2>1, <2>2, Zenon DEF Local!handleEditNetwork
  <2>4. n \in Networks /\ body \in Local!Typed /\ body[1] = n
    BY <2>1, <2>2, <2>3 DEF LocalTyped, LocalShape, Dialog
  <2> HIDE DEF Begins, Ends
  <2> QED
    BY <2>3, <2>4, <1>0
<1>5. ASSUME NEW n \in Networks, Local!handleDeleteNetwork(c, n) PROVE Ends
  <2>1. Begins("deleteNetwork", n, None) /\ late' = late
    BY <1>5, Zenon DEF Local!handleDeleteNetwork
  <2>2. "deleteNetwork" \notin {"add", "editNetwork"}
    OBVIOUS
  <2> HIDE DEF Begins, Ends
  <2> QED
    BY <2>1, <2>2, <1>0, Zenon
<1> QED
  BY <1>1, <1>2, <1>3, <1>4, <1>5 DEF Local!Click

\* The fields of a dialog are those of its row, or what is typed while it is open for it.
DialogHolds(n, form) ==
  /\ DOMAIN page' = DOMAIN page /\ page'.open = page.open /\ page'.networks = page.networks
  /\ page'.editing = n /\ page'.form = form /\ page'.busy = page.busy
  /\ UNCHANGED <<itsLocal, networks, itsCall, late, calm, starts, others>>

LEMMA LocalDialog ==
  ASSUME LocalTyped, Late, LocalCalm, NEW n \in Networks, NEW form \in Local!Typed, form[1] = n,
         DialogHolds(n, form)
  PROVE  LocalTyped' /\ Late' /\ LocalCalm'
<1>1. LocalShape(page)
  BY DEF LocalTyped
<1>2. UNCHANGED <<itsLocal, networks, itsCall, late, calm, starts, others>>
  BY DEF DialogHolds
<1>4. /\ DOMAIN page' = DOMAIN page /\ page'.open = page.open /\ page'.networks = page.networks
      /\ page'.editing = n /\ page'.form = form /\ page'.busy = page.busy
  BY DEF DialogHolds
<1>6. (LocalShape(page))'
  BY <1>1, <1>4 DEF LocalShape, Dialog
<1>7. LocalTyped'
  <2>1. LocalStored'
    BY <1>2 DEF LocalTyped, LocalStored, AsTyped
  <2>2. LocalCalls'
    BY <1>2 DEF LocalTyped, LocalCalls, LocalHandler, AsTyped
  <2>3. LocalButtons'
    BY <1>2, <1>4 DEF LocalTyped, LocalButtons, Under
  <2> QED
    BY <1>6, <2>1, <2>2, <2>3 DEF LocalTyped
<1>8. Late'
  BY <1>2 DEF Late
<1>9. LocalCalm'
  BY <1>2, <1>4 DEF LocalCalm, Under, NetworksRead, NetworksDue, LocalDeleted
<1> QED
  BY <1>7, <1>8, <1>9

LEMMA LocalDialogs ==
  ASSUME LocalTyped, Late, LocalCalm
  PROVE  /\ \A n \in Networks : Local!openEditNetwork(n) => LocalTyped' /\ Late' /\ LocalCalm'
         /\ \A x \in Texts : Local!Type(x) => LocalTyped' /\ Late' /\ LocalCalm'
<1>0. LocalShape(page)
  BY DEF LocalTyped
<1>1. ASSUME NEW n \in Networks, Local!openEditNetwork(n) PROVE LocalTyped' /\ Late' /\ LocalCalm'
  <2>1. PICK form : form = page.networks[n]
    OBVIOUS
  <2>2. n \in DOMAIN page.networks /\ DialogHolds(n, form)
    BY <1>0, <1>1, <2>1 DEF Local!openEditNetwork, LocalShape, DialogHolds
  <2>3. form \in Local!Typed /\ form[1] = n
    BY <1>0, <2>1, <2>2 DEF LocalShape, AsTyped
  <2> QED
    BY <2>2, <2>3, LocalDialog
<1>2. ASSUME NEW x \in Texts, Local!Type(x) PROVE LocalTyped' /\ Late' /\ LocalCalm'
  <2>1. PICK n \in Networks : n = page.editing
    BY <1>0, <1>2 DEF LocalShape, Dialog, Local!Type
  <2>2. PICK form : form = <<n, x>>
    OBVIOUS
  <2>3. form \in Local!Typed /\ form[1] = n
    BY <2>2 DEF Local!Typed
  <2>4. DialogHolds(n, form)
    BY <1>0, <1>2, <2>1, <2>2 DEF Local!Type, LocalShape, DialogHolds
  <2> QED
    BY <2>3, <2>4, LocalDialog
<1> QED
  BY <1>1, <1>2

\* What another window deletes stays as typed, and ends what is said of a page alone.
LEMMA LocalOthers ==
  ASSUME LocalTyped, Late, LocalCalm, Local!OtherWindow
  PROVE  LocalTyped' /\ Late' /\ LocalCalm'
<1>1. /\ others < MaxOthers /\ others' = others + 1 /\ calm' = FALSE
      /\ UNCHANGED <<page, itsCall, late, starts>>
  BY DEF Local!OtherWindow
<1>2. /\ (AsTyped(networks))' /\ DOMAIN networks' \subseteq DOMAIN networks
      /\ itsLocal' \in BOOLEAN /\ (itsLocal' => itsLocal)
  <2>1. CASE itsLocal' = FALSE /\ UNCHANGED networks
    BY <2>1 DEF LocalTyped, LocalStored, AsTyped
  <2>2. ASSUME NEW n \in DOMAIN networks, networks' = Local!Keep(networks, Networks \ {n}), UNCHANGED itsLocal
        PROVE  /\ (AsTyped(networks))' /\ DOMAIN networks' \subseteq DOMAIN networks
               /\ itsLocal' \in BOOLEAN /\ (itsLocal' => itsLocal)
    BY <2>2 DEF LocalTyped, LocalStored, AsTyped, Local!Keep
  <2> QED
    BY <2>1, <2>2 DEF Local!OtherWindow
<1>3. others' \in 0..MaxOthers
  BY <1>1, LocalAssumption DEF LocalTyped, LocalStored, Local!LocalBounds
<1>4. LocalTyped'
  <2>1. LocalStored'
    BY <1>1, <1>2, <1>3 DEF LocalTyped, LocalStored
  <2>2. LocalCalls'
    BY <1>1 DEF LocalTyped, LocalCalls, LocalHandler, AsTyped
  <2>3. (LocalShape(page))'
    BY <1>1 DEF LocalTyped, LocalShape, Dialog, AsTyped
  <2>4. LocalButtons'
    BY <1>1 DEF LocalTyped, LocalButtons, Under
  <2> QED
    BY <2>1, <2>2, <2>3, <2>4 DEF LocalTyped
<1>5. Late'
  BY <1>1, <1>2 DEF Late
<1> QED
  BY <1>1, <1>4, <1>5 DEF LocalCalm

-----------------------------------------------------------------------------
(* The page of a local: the API *)

\* A request that is answered, and what it has done to the store.
LEMMA LocalAnswers ==
  ASSUME LocalTyped, Late, LocalCalm, NEW c \in Calls, NEW at \in {"good", "bad"}, NEW got, NEW r,
         r = Local!Answered(c, at, got), itsCall' = [itsCall EXCEPT ![c] = r],
         itsCall[c].at \in {"sent", "checked", "good"}, UNCHANGED <<page, late, others, starts>>,
         (AsTyped(networks))', late \cap DOMAIN networks' = {}, itsLocal' \in BOOLEAN,
         itsLocal' => itsLocal, calm' \in BOOLEAN, calm' => calm,
         itsCall[c].req = "networks" /\ at = "good" =>
           Local!FirstPage(got, networks) /\ AsTyped(got) /\ networks' = networks,
         calm' /\ LocalSolo(c) /\ page.open =>
           /\ itsLocal' \/ (itsCall[c].req = "delete" /\ at = "good")
           /\ \/ Local!FirstPage(page.networks, networks')
              \/ at = "good" /\ itsCall[c].req \in {"add", "editNetwork", "deleteNetwork", "networks"}
  PROVE  LocalTyped' /\ Late' /\ LocalCalm'
<1>1. /\ DOMAIN r = {"at", "req", "kind", "id", "body", "got"} /\ r.at = at
      /\ r.req = itsCall[c].req /\ r.kind = itsCall[c].kind /\ r.got = got
  BY DEF Local!Answered, Local!Idle
<1>2. Under(c) /\ LocalHandler(itsCall[c]) /\ AsTyped(networks)
  BY DEF Under, LocalTyped, LocalCalls, LocalStored
<1>3. LocalHandler(r)
  BY <1>1, <1>2 DEF LocalHandler
<1>4. LocalTyped'
  <2>1. (LocalShape(page))'
    BY DEF LocalTyped, LocalShape, Dialog, AsTyped
  <2>2. LocalStored'
    BY DEF LocalTyped, LocalStored
  <2>3. LocalWaits(c, r)
    BY <1>1, LocalSameWaits
  <2> QED
    BY <1>3, <2>1, <2>2, <2>3, LocalTypedAfter
<1>5. Late'
  BY <1>1, LateAfter DEF Late
<1>6. ASSUME calm', LocalSolo(c) PROVE (LocalSolo(c))'
  <2>1. (NetworksRead(r))'
    BY <1>1 DEF NetworksRead
  <2>2. page'.open => /\ itsLocal' \/ LocalDeleted(r)
                      /\ Local!FirstPage(page'.networks, networks') \/ NetworksDue(r)
    BY <1>1, <1>6 DEF LocalDeleted, NetworksDue
  <2> QED
    BY <1>6, <2>1, <2>2, LocalSoloAfter
<1> QED
  BY <1>2, <1>4, <1>5, <1>6, LocalCalmAfter

\* The cases of an answer without a body.
LEMMA LocalAnswered ==
  ASSUME LocalTyped, Late, LocalCalm, NEW c \in Calls, NEW ok \in BOOLEAN, Local!Answer(c, ok),
         itsCall[c].at \in {"sent", "checked", "good"}, UNCHANGED <<page, late, others, starts>>,
         (AsTyped(networks))', late \cap DOMAIN networks' = {}, itsLocal' \in BOOLEAN,
         itsLocal' => itsLocal, calm' \in BOOLEAN, calm' => calm,
         itsCall[c].req = "networks" => ~ok,
         calm' /\ LocalSolo(c) /\ page.open =>
           /\ itsLocal' \/ (itsCall[c].req = "delete" /\ ok)
           /\ \/ Local!FirstPage(page.networks, networks')
              \/ ok /\ itsCall[c].req \in {"add", "editNetwork", "deleteNetwork"}
  PROVE  LocalTyped' /\ Late' /\ LocalCalm'
<1>1. PICK at \in {"good", "bad"} : at = IF ok THEN "good" ELSE "bad"
  OBVIOUS
<1>2. PICK r : r = Local!Answered(c, at, None)
  OBVIOUS
<1>3. itsCall' = [itsCall EXCEPT ![c] = r]
  BY <1>1, <1>2 DEF Local!Answer
<1>4. (at = "good" => ok) /\ (ok => at = "good")
  BY <1>1
<1> QED
  BY <1>2, <1>3, <1>4, LocalAnswers

\* What is due under a handler that runs alone.
LEMMA LocalOwes ==
  ASSUME NEW c \in Calls, LocalSolo(c), page.open
  PROVE  /\ itsLocal \/ (itsCall[c].req = "delete" /\ itsCall[c].at = "good")
         /\ \/ Local!FirstPage(page.networks, networks)
            \/ itsCall[c].req = "networks"
            \/ itsCall[c].req \in {"add", "editNetwork", "deleteNetwork"} /\ itsCall[c].at = "good"
BY DEF LocalSolo, LocalDeleted, NetworksDue

LEMMA FindLocalKeeps ==
  ASSUME LocalTyped, Late, LocalCalm, NEW c \in Calls, Local!findLocal(c)
  PROVE  LocalTyped' /\ Late' /\ LocalCalm'
<1>1. /\ itsCall[c].at = "sent" /\ itsCall[c].req \in {"local", "edit"} /\ Local!Answer(c, itsLocal)
      /\ UNCHANGED <<itsLocal, networks, page, late, calm, starts, others>>
  BY DEF Local!findLocal, Local!At
<1>2. PICK ok \in BOOLEAN : ok = itsLocal
  BY DEF LocalTyped, LocalStored
<1>3. Local!Answer(c, ok)
  BY <1>1, <1>2
<1>4. (AsTyped(networks))' /\ late \cap DOMAIN networks' = {} /\ calm \in BOOLEAN
  BY <1>1 DEF LocalTyped, LocalStored, AsTyped, Late
<1> QED
  BY <1>1, <1>2, <1>3, <1>4, LocalAnswered, LocalOwes

LEMMA FindByLocalIdKeeps ==
  ASSUME LocalTyped, Late, LocalCalm, NEW c \in Calls, Local!findByLocalId(c)
  PROVE  LocalTyped' /\ Late' /\ LocalCalm'
<1>1. /\ itsCall[c].at = "sent" /\ itsCall[c].req = "networks"
      /\ UNCHANGED <<itsLocal, networks, page, late, calm, starts, others>>
  BY Zenon DEF Local!findByLocalId, Local!At
<1>2. /\ (AsTyped(networks))' /\ late \cap DOMAIN networks' = {} /\ calm \in BOOLEAN
      /\ itsLocal \in BOOLEAN
  BY <1>1 DEF LocalTyped, LocalStored, AsTyped, Late
<1>3. CASE itsLocal
  <2>1. PICK S \in SUBSET DOMAIN networks :
          LET got == Local!Keep(networks, S)
          IN /\ Local!FirstPage(got, networks)
             /\ itsCall' = [itsCall EXCEPT ![c] = Local!Answered(c, "good", got)]
    BY <1>3, Zenon DEF Local!findByLocalId
  <2>2. PICK got : got = Local!Keep(networks, S)
    OBVIOUS
  <2>3. AsTyped(got)
    BY <2>2 DEF LocalTyped, LocalStored, AsTyped, Local!Keep
  <2>4. PICK r : r = Local!Answered(c, "good", got)
    OBVIOUS
  <2>5. Local!FirstPage(got, networks) /\ itsCall' = [itsCall EXCEPT ![c] = r]
    BY <2>1, <2>2, <2>4
  <2> QED
    BY <1>1, <1>2, <1>3, <2>3, <2>4, <2>5, LocalAnswers
<1>4. CASE ~itsLocal
  <2>1. Local!Answer(c, FALSE)
    BY <1>4, Zenon DEF Local!findByLocalId
  <2>2. ~(LocalSolo(c) /\ page.open)
    BY <1>1, <1>4, LocalOwes
  <2> QED
    BY <1>1, <1>2, <2>1, <2>2, LocalAnswered
<1> QED
  BY <1>3, <1>4

LEMMA DeleteLocalKeeps ==
  ASSUME LocalTyped, Late, LocalCalm, NEW c \in Calls, Local!deleteLocal(c)
  PROVE  LocalTyped' /\ Late' /\ LocalCalm'
<1>1. /\ itsCall[c].at = "sent" /\ itsCall[c].req = "delete" /\ Local!Answer(c, itsLocal)
      /\ itsLocal' = FALSE /\ UNCHANGED <<networks, page, late, calm, starts, others>>
  BY DEF Local!deleteLocal, Local!At
<1>2. PICK ok \in BOOLEAN : ok = itsLocal
  BY DEF LocalTyped, LocalStored
<1>3. Local!Answer(c, ok)
  BY <1>1, <1>2
<1>4. (AsTyped(networks))' /\ late \cap DOMAIN networks' = {} /\ calm \in BOOLEAN
  BY <1>1 DEF LocalTyped, LocalStored, AsTyped, Late
<1> QED
  BY <1>1, <1>2, <1>3, <1>4, LocalAnswered, LocalOwes

LEMMA CheckLocalKeeps ==
  ASSUME LocalTyped, Late, LocalCalm, NEW c \in Calls, Local!CheckLocal(c)
  PROVE  LocalTyped' /\ Late' /\ LocalCalm'
<1>1. /\ itsCall[c].at = "sent" /\ itsCall[c].req = "add"
      /\ UNCHANGED <<itsLocal, networks, page, late, calm, starts, others>>
  BY Zenon DEF Local!CheckLocal, Local!At
<1>2. /\ (AsTyped(networks))' /\ late \cap DOMAIN networks' = {} /\ calm \in BOOLEAN
      /\ itsLocal \in BOOLEAN /\ LocalHandler(itsCall[c]) /\ Under(c)
  BY <1>1 DEF LocalTyped, LocalStored, LocalCalls, AsTyped, Late, Under
<1>3. CASE itsLocal
  <2>1. itsCall' = [itsCall EXCEPT ![c].at = "checked"]
    BY <1>3, Zenon DEF Local!CheckLocal, Local!Go
  <2>2. PICK r : r = [itsCall[c] EXCEPT !.at = "checked"]
    OBVIOUS
  <2>3. /\ DOMAIN r = {"at", "req", "kind", "id", "body", "got"} /\ r.at = "checked" /\ r.req = "add"
        /\ r.kind = itsCall[c].kind /\ r.id = itsCall[c].id /\ r.body = itsCall[c].body
    BY <1>1, <1>2, <2>2 DEF LocalHandler
  <2>4. itsCall' = [itsCall EXCEPT ![c] = r]
    BY <2>1, <2>2
  <2>5. LocalHandler(r)
    BY <1>1, <1>2, <2>3 DEF LocalHandler
  <2>6. LocalTyped'
    <3>1. LocalStored' /\ (LocalShape(page))'
      BY <1>1 DEF LocalTyped, LocalStored, LocalShape, Dialog, AsTyped
    <3>2. LocalWaits(c, r)
      BY <1>1, <2>3, LocalSameWaits
    <3> QED
      BY <2>4, <2>5, <3>1, <3>2, LocalTypedAfter
  <2>7. Late'
    BY <1>1, <1>3, <2>4, LateAfter DEF Late
  <2>8. ASSUME LocalSolo(c) PROVE (LocalSolo(c))'
    <3>1. (NetworksRead(r))'
      BY <2>3 DEF NetworksRead
    <3>2. page.open => Local!FirstPage(page.networks, networks)
      BY <1>1, <2>8, LocalOwes
    <3> QED
      BY <1>1, <1>3, <2>4, <2>8, <3>1, <3>2, LocalSoloAfter
  <2> QED
    BY <1>1, <1>2, <2>6, <2>7, <2>8, LocalCalmAfter
<1>4. CASE ~itsLocal
  <2>1. Local!Answer(c, FALSE)
    BY <1>4, Zenon DEF Local!CheckLocal
  <2> QED
    BY <1>1, <1>2, <2>1, LocalAnswered, LocalOwes
<1> QED
  BY <1>3, <1>4

\* Putting what was typed for a network keeps the list as typed.
LEMMA PutAsTyped ==
  ASSUME AsTyped(networks), NEW n \in Networks, NEW x \in Local!Typed, x[1] = n,
         networks' = Local!Put(networks, n, x)
  PROVE  (AsTyped(networks))' /\ DOMAIN networks' = DOMAIN networks \cup {n}
BY DEF AsTyped, Local!Put

LEMMA CreateNetworkKeeps ==
  ASSUME LocalTyped, Late, LocalCalm, NEW c \in Calls, Local!createNetwork(c)
  PROVE  LocalTyped' /\ Late' /\ LocalCalm'
<1>1. /\ itsCall[c].at = "checked" /\ itsCall[c].req = "add" /\ Local!Answer(c, TRUE)
      /\ networks' = Local!Put(networks, itsCall[c].id, itsCall[c].body)
      /\ UNCHANGED <<itsLocal, page, late, calm, starts, others>>
  BY DEF Local!createNetwork, Local!At
<1>2. /\ AsTyped(networks) /\ calm \in BOOLEAN /\ itsLocal \in BOOLEAN
      /\ itsCall[c].id \in Networks /\ itsCall[c].body \in Local!Typed
      /\ itsCall[c].body[1] = itsCall[c].id
  BY <1>1 DEF LocalTyped, LocalStored, LocalCalls, LocalHandler
<1>3. (AsTyped(networks))' /\ DOMAIN networks' = DOMAIN networks \cup {itsCall[c].id}
  <2>1. PICK n \in Networks : n = itsCall[c].id
    BY <1>2
  <2>2. PICK x \in Local!Typed : x = itsCall[c].body
    BY <1>2
  <2> QED
    BY <1>1, <1>2, <2>1, <2>2, PutAsTyped
<1>4. late \cap DOMAIN networks' = {}
  BY <1>1, <1>3 DEF Late
<1> QED
  BY <1>1, <1>2, <1>3, <1>4, LocalAnswered, LocalOwes

LEMMA UpdateNetworkKeeps ==
  ASSUME LocalTyped, Late, LocalCalm, NEW c \in Calls, Local!updateNetwork(c)
  PROVE  LocalTyped' /\ Late' /\ LocalCalm'
<1>1. PICK ok \in BOOLEAN : ok <=> itsCall[c].id \in DOMAIN networks
  OBVIOUS
<1>2. /\ itsCall[c].at = "sent" /\ itsCall[c].req = "editNetwork" /\ Local!Answer(c, ok)
      /\ UNCHANGED <<itsLocal, page, late, calm, starts, others>>
  BY <1>1, Zenon DEF Local!updateNetwork, Local!At
<1>3. /\ ok => networks' = Local!Put(networks, itsCall[c].id, itsCall[c].body)
      /\ ~ok => networks' = networks
  BY <1>1, Zenon DEF Local!updateNetwork
<1>4. /\ AsTyped(networks) /\ calm \in BOOLEAN /\ itsLocal \in BOOLEAN
      /\ itsCall[c].id \in Networks /\ itsCall[c].body \in Local!Typed
      /\ itsCall[c].body[1] = itsCall[c].id
  BY <1>2 DEF LocalTyped, LocalStored, LocalCalls, LocalHandler
<1>5. (AsTyped(networks))' /\ DOMAIN networks' = DOMAIN networks
  <2>1. PICK n \in Networks : n = itsCall[c].id
    BY <1>4
  <2>2. PICK x \in Local!Typed : x = itsCall[c].body
    BY <1>4
  <2>3. CASE ok
    BY <1>1, <1>3, <1>4, <2>1, <2>2, <2>3, PutAsTyped
  <2>4. CASE ~ok
    BY <1>3, <1>4, <2>4 DEF AsTyped
  <2> QED
    BY <2>3, <2>4
<1>6. late \cap DOMAIN networks' = {}
  BY <1>5 DEF Late
<1> QED
  BY <1>2, <1>3, <1>4, <1>5, <1>6, LocalAnswered, LocalOwes

LEMMA DeleteNetworkKeeps ==
  ASSUME LocalTyped, Late, LocalCalm, NEW c \in Calls, Local!deleteNetwork(c)
  PROVE  LocalTyped' /\ Late' /\ LocalCalm'
<1>1. PICK ok \in BOOLEAN : ok <=> itsCall[c].id \in DOMAIN networks
  OBVIOUS
<1>2. /\ itsCall[c].at = "sent" /\ itsCall[c].req = "deleteNetwork" /\ Local!Answer(c, ok)
      /\ networks' = [n \in DOMAIN networks \cap (Networks \ {itsCall[c].id}) |-> networks[n]]
      /\ UNCHANGED <<itsLocal, page, late, calm, starts, others>>
  BY <1>1 DEF Local!deleteNetwork, Local!At, Local!Keep
<1>3. AsTyped(networks) /\ calm \in BOOLEAN /\ itsLocal \in BOOLEAN
  BY DEF LocalTyped, LocalStored
<1>4. /\ (AsTyped(networks))' /\ DOMAIN networks' \subseteq DOMAIN networks
  BY <1>2, <1>3 DEF AsTyped
<1>5. late \cap DOMAIN networks' = {}
  BY <1>4 DEF Late
<1>6. CASE ok
  BY <1>2, <1>3, <1>4, <1>5, <1>6, LocalAnswered, LocalOwes
<1>7. CASE ~ok
  <2>1. calm' /\ LocalSolo(c) /\ page.open => Local!FirstPage(page.networks, networks)
    BY <1>2, LocalOwes
  <2>2. networks' = networks
    BY <1>1, <1>2, <1>3, <1>7 DEF AsTyped
  <2> QED
    BY <1>1, <1>2, <1>3, <1>4, <1>5, <1>7, <2>1, <2>2, LocalAnswered, LocalOwes
<1> QED
  BY <1>6, <1>7

LEMMA LocalFailsKeeps ==
  ASSUME LocalTyped, Late, LocalCalm, NEW c \in Calls, Local!Fails(c)
  PROVE  LocalTyped' /\ Late' /\ LocalCalm'
<1>1. /\ itsCall[c].at \in {"sent", "checked", "good"} /\ Local!Answer(c, FALSE) /\ calm' = FALSE
      /\ UNCHANGED <<itsLocal, networks, page, late, starts, others>>
  BY DEF Local!Fails
<1>2. (AsTyped(networks))' /\ late \cap DOMAIN networks' = {} /\ itsLocal \in BOOLEAN
  BY <1>1 DEF LocalTyped, LocalStored, AsTyped, Late
<1>3. PICK ok \in BOOLEAN : ok = FALSE
  OBVIOUS
<1> QED
  BY <1>1, <1>2, <1>3, LocalAnswered

LEMMA LocalServes ==
  ASSUME LocalTyped, Late, LocalCalm, NEW c \in Calls, Local!Serve(c)
  PROVE  LocalTyped' /\ Late' /\ LocalCalm'
BY FindLocalKeeps, FindByLocalIdKeeps, DeleteLocalKeeps, CheckLocalKeeps, CreateNetworkKeeps,
   UpdateNetworkKeeps, DeleteNetworkKeeps, LocalFailsKeeps, Zenon DEF Local!Serve

-----------------------------------------------------------------------------
(* The page of a local meets an answer *)

LocalStays == UNCHANGED <<itsLocal, networks, late, calm, starts, others>>

\* The slot of a handler that met its answer, and what the page makes of it.
LEMMA LocalMeets ==
  ASSUME LocalTyped, Late, LocalCalm, NEW c \in Calls, NEW r, itsCall' = [itsCall EXCEPT ![c] = r],
         Under(c), LocalStays, LocalHandler(r), r.at # "checked", (LocalShape(page))', LocalWaits(c, r),
         r.req = "networks" => r.at # "good",
         page'.open = page.open,
         LocalSolo(c) /\ page.open => /\ itsLocal \/ LocalDeleted(r)
                                      /\ Local!FirstPage(page'.networks, networks) \/ NetworksDue(r)
  PROVE  LocalTyped' /\ Late' /\ LocalCalm'
<1>1. LocalTyped'
  <2>1. LocalStored'
    BY DEF LocalTyped, LocalStored, AsTyped, LocalStays
  <2> QED
    BY <2>1, LocalTypedAfter
<1>2. Late'
  BY LateAfter DEF Late, LocalStays
<1>3. ASSUME LocalSolo(c) PROVE (LocalSolo(c))'
  <2>1. (NetworksRead(r))'
    BY DEF NetworksRead
  <2>2. page'.open => /\ itsLocal' \/ LocalDeleted(r)
                      /\ Local!FirstPage(page'.networks, networks') \/ NetworksDue(r)
    BY <1>3 DEF LocalStays
  <2> QED
    BY <1>3, <2>1, <2>2, LocalSoloAfter
<1> QED
  BY <1>1, <1>2, <1>3, LocalCalmAfter DEF LocalStays

LEMMA LocalSavedKeeps ==
  ASSUME LocalTyped, Late, LocalCalm, NEW c \in Calls, Local!Saved(c)
  PROVE  LocalTyped' /\ Late' /\ LocalCalm'
<1>1. PICK reload : reload = Local!Reload(c)
  OBVIOUS
<1>2. PICK r : r = [Local!Idle EXCEPT !.at = "sent", !.req = reload, !.kind = itsCall[c].kind]
  OBVIOUS
<1>3. PICK closes \in BOOLEAN : closes <=> itsCall[c].kind = "editNetwork"
  OBVIOUS
<1>4. PICK p : p = [page EXCEPT !.busy = @ \cup {reload}, !.editing = IF closes THEN None ELSE @,
                                !.form = IF closes THEN None ELSE @]
  OBVIOUS
<1>5. /\ itsCall[c].at = "good" /\ itsCall[c].req \in {"edit", "add", "editNetwork", "deleteNetwork"}
      /\ itsCall' = [itsCall EXCEPT ![c] = r] /\ LocalStays
  BY <1>1, <1>2, Zenon DEF Local!Saved, LocalStays
<1>6. page' = p
  BY <1>1, <1>3, <1>4 DEF Local!Saved
<1>7. LocalShape(page) /\ LocalHandler(itsCall[c]) /\ Under(c)
  BY <1>5 DEF LocalTyped, LocalCalls, Under
<1>8. /\ DOMAIN p = DOMAIN page /\ p.open = page.open /\ p.networks = page.networks
      /\ p.busy = page.busy \cup {reload}
      /\ \/ p.editing = None /\ p.form = None
         \/ p.editing = page.editing /\ p.form = page.form
  BY <1>4, <1>7 DEF LocalShape
<1>9. (LocalShape(page))'
  BY <1>6, <1>7, <1>8 DEF LocalShape, Dialog
<1>10. /\ DOMAIN r = {"at", "req", "kind", "id", "body", "got"} /\ r.at = "sent" /\ r.req = reload
       /\ r.kind = itsCall[c].kind
  BY <1>2 DEF Local!Idle
<1>11. /\ itsCall[c].kind = itsCall[c].req /\ reload \in {"local", "networks"}
       /\ itsCall[c].req # "edit" => reload = "networks"
  BY <1>1, <1>5, <1>7 DEF LocalHandler, Local!Reload
<1>12. LocalHandler(r)
  BY <1>10, <1>11 DEF LocalHandler
<1>13. LocalWaits(c, r)
  BY <1>6, <1>8, <1>10, <1>11 DEF LocalWaits
<1>14. LocalSolo(c) /\ page.open => /\ itsLocal \/ LocalDeleted(r)
                                    /\ Local!FirstPage(page'.networks, networks) \/ NetworksDue(r)
  BY <1>5, <1>6, <1>8, <1>10, <1>11, LocalOwes DEF NetworksDue
<1> QED
  BY <1>5, <1>6, <1>7, <1>8, <1>9, <1>10, <1>12, <1>13, <1>14, LocalMeets

\* The last answer of a handler ends it and clears its flags.
LEMMA LocalEnds ==
  ASSUME LocalTyped, Late, LocalCalm, NEW c \in Calls, Local!End(c), Under(c), LocalStays,
         (LocalShape(page))', page'.open = page.open,
         page'.busy \subseteq page.busy \ {itsCall[c].req, itsCall[c].kind},
         LocalSolo(c) /\ page.open => itsLocal /\ Local!FirstPage(page'.networks, networks)
  PROVE  LocalTyped' /\ Late' /\ LocalCalm'
<1>1. PICK r : r = Local!Idle
  OBVIOUS
<1>2. itsCall' = [itsCall EXCEPT ![c] = r]
  BY <1>1 DEF Local!End
<1>3. DOMAIN r = {"at", "req", "kind", "id", "body", "got"} /\ r.at = "idle" /\ r.req = "none"
  BY <1>1 DEF Local!Idle
<1>4. LocalHandler(r)
  BY <1>3 DEF LocalHandler
<1>5. LocalWaits(c, r)
  BY DEF LocalWaits
<1> QED
  BY <1>2, <1>3, <1>4, <1>5, LocalMeets

LEMMA FetchNetworksKeeps ==
  ASSUME LocalTyped, Late, LocalCalm, NEW c \in Calls, Local!fetchNetworks(c)
  PROVE  LocalTyped' /\ Late' /\ LocalCalm'
<1>1. PICK p : p = [page EXCEPT !.networks = itsCall[c].got, !.busy = @ \ {"networks", itsCall[c].kind}]
  OBVIOUS
<1>2. itsCall[c].at = "good" /\ itsCall[c].req = "networks" /\ page' = p /\ Local!End(c) /\ LocalStays
  BY <1>1, Zenon DEF Local!fetchNetworks, Local!At, LocalStays
<1>3. LocalShape(page) /\ LocalHandler(itsCall[c]) /\ Under(c)
  BY <1>2 DEF LocalTyped, LocalCalls, Under
<1>4. /\ DOMAIN p = DOMAIN page /\ p.open = page.open /\ p.networks = itsCall[c].got
      /\ p.busy = page.busy \ {"networks", itsCall[c].kind}
      /\ p.editing = page.editing /\ p.form = page.form
  BY <1>1, <1>3 DEF LocalShape
<1>5. (LocalShape(page))'
  BY <1>2, <1>3, <1>4 DEF LocalShape, LocalHandler, Dialog
<1>6. LocalSolo(c) /\ page.open => itsLocal /\ Local!FirstPage(page'.networks, networks)
  BY <1>2, <1>4, LocalOwes DEF LocalSolo, NetworksRead
<1> QED
  BY <1>2, <1>3, <1>4, <1>5, <1>6, LocalEnds

LEMMA FetchLocalKeeps ==
  ASSUME LocalTyped, Late, LocalCalm, NEW c \in Calls, Local!fetchLocal(c) \/ Local!Failed(c)
  PROVE  LocalTyped' /\ Late' /\ LocalCalm'
<1>1. PICK p : p = [page EXCEPT !.busy = @ \ {itsCall[c].req, itsCall[c].kind}]
  OBVIOUS
<1>2. /\ page' = p /\ Local!End(c) /\ LocalStays
      /\ itsCall[c].at = "bad" \/ (itsCall[c].at = "good" /\ itsCall[c].req = "local")
  BY <1>1, Zenon DEF Local!fetchLocal, Local!Failed, Local!At, LocalStays
<1>3. LocalShape(page) /\ Under(c)
  BY <1>2 DEF LocalTyped, Under
<1>4. /\ DOMAIN p = DOMAIN page /\ p.open = page.open /\ p.networks = page.networks
      /\ p.busy = page.busy \ {itsCall[c].req, itsCall[c].kind}
      /\ p.editing = page.editing /\ p.form = page.form
  BY <1>1, <1>3 DEF LocalShape
<1>5. (LocalShape(page))'
  BY <1>2, <1>3, <1>4 DEF LocalShape, Dialog
<1>6. LocalSolo(c) /\ page.open => itsLocal /\ Local!FirstPage(page'.networks, networks)
  BY <1>2, <1>4 DEF LocalSolo, LocalDeleted, NetworksDue
<1> QED
  BY <1>2, <1>3, <1>4, <1>5, <1>6, LocalEnds

\* The page is left: what had been sent goes on in the API.
LEMMA LocalDeletedKeeps ==
  ASSUME LocalTyped, Late, LocalCalm, NEW c \in Calls, Local!Deleted(c)
  PROVE  LocalTyped' /\ Late' /\ LocalCalm'
<1>1. /\ page' = Local!Closed /\ LocalStays
      /\ itsCall' = [d \in Calls |-> IF d # c /\ itsCall[d].at \in {"sent", "checked"}
                                     THEN itsCall[d] ELSE Local!Idle]
  BY Zenon DEF Local!Deleted, LocalStays
<1>2. PICK r : r = Local!Idle
  OBVIOUS
<1>3. DOMAIN r = {"at", "req", "kind", "id", "body", "got"} /\ r.at = "idle" /\ r.req = "none"
  BY <1>2 DEF Local!Idle
<1>4. DOMAIN itsCall' = Calls /\ \A d \in Calls : itsCall'[d] = itsCall[d] \/ itsCall'[d] = r
  BY <1>1, <1>2
<1>5. PICK p : p = Local!Closed
  OBVIOUS
<1>6. /\ DOMAIN p = {"open", "networks", "editing", "form", "busy"} /\ p.open = FALSE
      /\ p.networks = << >> /\ p.editing = None /\ p.form = None /\ p.busy = {}
  BY <1>5 DEF Local!Closed
<1>7. page' = p
  BY <1>1, <1>5
<1>8. LocalTyped'
  <2>1. LocalStored'
    BY <1>1 DEF LocalTyped, LocalStored, AsTyped, LocalStays
  <2>2. (LocalShape(page))'
    <3>1. AsTyped(<< >>)
      BY DEF AsTyped
    <3> QED
      BY <1>6, <1>7, <3>1 DEF LocalShape, Dialog
  <2>3. LocalCalls'
    <3>1. LocalHandler(r)
      BY <1>3 DEF LocalHandler
    <3> QED
      BY <1>4, <3>1 DEF LocalTyped, LocalCalls
  <2>4. LocalButtons'
    BY <1>6, <1>7 DEF LocalButtons
  <2> QED
    BY <2>1, <2>2, <2>3, <2>4 DEF LocalTyped
<1>9. Late'
  BY <1>1, <1>3, <1>4 DEF Late, LocalStays
<1>10. LocalCalm'
  <2>1. \A d \in Calls : (Under(d))' => Under(d)
    BY <1>3, <1>4 DEF Under
  <2>2. ASSUME calm, NEW d \in Calls PROVE (NetworksRead(itsCall[d]))'
    BY <1>1, <1>3, <1>4, <2>2 DEF LocalCalm, NetworksRead, LocalStays
  <2>3. calm' => calm
    BY <1>1 DEF LocalStays
  <2> QED
    BY <1>6, <1>7, <2>1, <2>2, <2>3 DEF LocalCalm
<1> QED
  BY <1>8, <1>9, <1>10

LEMMA LocalMet ==
  ASSUME LocalTyped, Late, LocalCalm, NEW c \in Calls, Local!Meet(c)
  PROVE  LocalTyped' /\ Late' /\ LocalCalm'
BY LocalSavedKeeps, FetchNetworksKeeps, FetchLocalKeeps, LocalDeletedKeeps, Zenon DEF Local!Meet

LEMMA LocalSteps ==
  ASSUME LocalTyped, Late, LocalCalm, Local!Next
  PROVE  LocalTyped' /\ Late' /\ LocalCalm'
BY LocalClicks, LocalServes, LocalMet, LocalDialogs, LocalOthers, Zenon DEF Local!Next

LEMMA LocalBegins ==
  ASSUME Local!Init
  PROVE  LocalTyped /\ Late /\ LocalCalm
<1>0. PICK S \in SUBSET Networks : \E x \in [S -> Texts] : networks = [n \in S |-> <<n, x[n]>>]
  BY Zenon DEF Local!Init
<1>1. PICK x \in [S -> Texts] : networks = [n \in S |-> <<n, x[n]>>]
  BY <1>0
<1>12. PICK T \in SUBSET DOMAIN networks :
         LET got == Local!Keep(networks, T)
         IN /\ Local!FirstPage(got, networks)
            /\ page = [Local!Closed EXCEPT !.open = TRUE, !.networks = got]
  BY Zenon DEF Local!Init
<1>13. PICK got : got = Local!Keep(networks, T)
  OBVIOUS
<1>2. PICK p : p = [Local!Closed EXCEPT !.open = TRUE, !.networks = got]
  OBVIOUS
<1>3. /\ DOMAIN p = {"open", "networks", "editing", "form", "busy"} /\ p.open = TRUE
      /\ p.networks = got /\ p.editing = None /\ p.form = None /\ p.busy = {}
  BY <1>2 DEF Local!Closed
<1>4. PICK r : r = Local!Idle
  OBVIOUS
<1>5. DOMAIN r = {"at", "req", "kind", "id", "body", "got"} /\ r.at = "idle" /\ r.req = "none"
  BY <1>4 DEF Local!Idle
<1>6. /\ page = p /\ itsCall = [c \in Calls |-> r] /\ itsLocal = TRUE /\ late = {} /\ calm = TRUE
      /\ starts = 0 /\ others = 0
  <2>1. page = p
    BY <1>2, <1>12, <1>13
  <2> QED
    BY <1>4, <2>1 DEF Local!Init
<1>7. AsTyped(networks) /\ AsTyped(got)
  <2>1. AsTyped(networks)
    BY <1>1 DEF AsTyped, Local!Typed
  <2> QED
    BY <1>13, <2>1 DEF AsTyped, Local!Keep
<1>8. LocalHandler(r)
  BY <1>5 DEF LocalHandler
<1>9. LocalTyped
  <2>1. LocalStored
    BY <1>6, <1>7, LocalAssumption DEF LocalStored, Local!LocalBounds
  <2> QED
    BY <1>3, <1>6, <1>7, <1>8, <2>1 DEF LocalTyped, LocalShape, Dialog, LocalCalls, LocalButtons
<1>10. Late
  BY <1>5, <1>6 DEF Late
<1>11. LocalCalm
  <2>1. Local!FirstPage(page.networks, networks)
    BY <1>3, <1>6, <1>12, <1>13
  <2> QED
    BY <1>5, <1>6, <2>1 DEF LocalCalm, Under, NetworksRead
<1> QED
  BY <1>9, <1>10, <1>11

-----------------------------------------------------------------------------
(* The list of things: the rows of a page *)

LEMMA ListCounts ==
  \A S : List!Cardinality(S) = Cardinality(S) /\ (List!IsFiniteSet(S) <=> IsFiniteSet(S))
BY DEF List!Cardinality, Cardinality, List!IsFiniteSet, IsFiniteSet

\* A page has no more rows than its limit: the things before a row are fewer than those
\* before the next.
LEMMA RowsFit ==
  ASSUME things \subseteq Things, NEW q \in List!Queries
  PROVE  /\ List!Rows(q) \subseteq Things /\ Cardinality(List!Rows(q)) <= Limit
         /\ Cardinality(List!Matching(q)) \in 0..Cardinality(Things)
<1> DEFINE Before(x) == {v \in List!Matching(q) : v < x}
<1> DEFINE least == (q.page - 1) * Limit
<1> DEFINE rank == [t \in List!Rows(q) |-> Cardinality(Before(t))]
<1>1. /\ List!Matching(q) \subseteq Things /\ List!Rows(q) \subseteq List!Matching(q)
      /\ IsFiniteSet(Things) /\ Things \subseteq Nat
  <2>1. IsFiniteSet(Things) /\ Things \subseteq Nat
    BY ListAssumption, ListCounts DEF List!ThingsAreOrdered
  <2>2. List!Matching(q) \subseteq Things
    BY DEF List!Matching
  <2>3. List!Rows(q) \subseteq List!Matching(q)
    BY Zenon DEF List!Rows
  <2> QED
    BY <2>1, <2>2, <2>3
<1>2. Cardinality(List!Matching(q)) \in 0..Cardinality(Things)
  BY <1>1, FS_Subset, FS_CardinalityType
<1>3. q.page \in Nat /\ Limit \in Nat /\ least \in Int /\ q.page * Limit = least + Limit
  <2>1. q.page \in Nat /\ Limit \in Nat
    BY ListAssumption, <1>1, FS_CardinalityType DEF List!Queries, List!ThingsAreOrdered
  <2> QED
    BY <2>1
<1>4. ASSUME NEW t \in List!Rows(q), NEW u \in List!Rows(q), t < u
      PROVE  Cardinality(Before(t)) # Cardinality(Before(u))
  <2>1. Before(t) \subseteq Before(u) /\ t \in Before(u) /\ t \notin Before(t) /\ IsFiniteSet(Before(u))
    <3>1. t \in Nat /\ u \in Nat /\ t \in List!Matching(q) /\ List!Matching(q) \subseteq Nat
      BY <1>1
    <3>2. IsFiniteSet(Before(u))
      BY <1>1, FS_Subset
    <3> QED
      BY <1>4, <3>1, <3>2
  <2>2. Cardinality(Before(t)) = Cardinality(Before(u)) => Before(t) = Before(u)
    BY <2>1, FS_Subset
  <2> QED
    BY <2>1, <2>2
<1>5. ASSUME NEW t \in List!Rows(q) PROVE Cardinality(Before(t)) \in least..(least + Limit - 1)
  <2>1. /\ List!Cardinality(Before(t)) >= (q.page - 1) * Limit
        /\ List!Cardinality(Before(t)) < q.page * Limit
    BY Zenon DEF List!Rows
  <2>2. Cardinality(Before(t)) \in Nat
    BY <1>1, FS_Subset, FS_CardinalityType
  <2>3. Cardinality(Before(t)) >= least /\ Cardinality(Before(t)) < q.page * Limit
    BY <2>1, ListCounts
  <2> HIDE DEF Before, least
  <2> QED
    BY <1>3, <2>2, <2>3
<1>6. rank \in Injection(List!Rows(q), least..(least + Limit - 1))
  <2>1. ASSUME NEW t \in List!Rows(q), NEW u \in List!Rows(q), rank[t] = rank[u] PROVE t = u
    <3>1. t \in Nat /\ u \in Nat
      BY <1>1
    <3>2. ~(t < u) /\ ~(u < t)
      BY <1>4, <2>1
    <3> QED
      BY <3>1, <3>2
  <2>2. rank \in [List!Rows(q) -> least..(least + Limit - 1)]
    BY <1>5
  <2> HIDE DEF rank, least
  <2> QED
    BY <2>1, <2>2 DEF Injection, IsInjective
<1>7. Cardinality(List!Rows(q)) <= Limit
  <2> HIDE DEF rank, least
  <2>1. IsFiniteSet(least..(least + Limit - 1)) /\ Cardinality(least..(least + Limit - 1)) <= Limit
    <3>1. PICK top \in Int : top = least + Limit - 1
      BY <1>3
    <3>2. /\ IsFiniteSet(least..top)
          /\ Cardinality(least..top) = IF least > top THEN 0 ELSE top - least + 1
      BY <1>3, <3>1, FS_Interval
    <3> QED
      BY <1>3, <3>1, <3>2
  <2>2. IsFiniteSet(List!Rows(q)) /\ Cardinality(List!Rows(q)) <= Cardinality(least..(least + Limit - 1))
    BY <1>6, <2>1, FS_Injection
  <2>3. Cardinality(List!Rows(q)) \in Nat /\ Cardinality(least..(least + Limit - 1)) \in Nat
    BY <2>1, <2>2, FS_CardinalityType
  <2> QED
    BY <1>3, <2>1, <2>2, <2>3
<1> QED
  BY <1>1, <1>2, <1>7

-----------------------------------------------------------------------------
(* The list of things: its slots, and the page alone *)

ListWaits(c, r) ==
  \A k \in busy' : \/ r.at # "idle" /\ r.kind = k
                   \/ k \in busy /\ (Under(c) => itsCall[c].kind # k)

LEMMA ListTypedAfter ==
  ASSUME ListTyped, NEW c \in Calls, NEW r, itsCall' = [itsCall EXCEPT ![c] = r],
         (ListRequest(r))', sure \subseteq sure', ListStored', ListWaits(c, r)
  PROVE  ListTyped'
<1>1. /\ DOMAIN itsCall' = Calls /\ itsCall'[c] = r
      /\ \A d \in Calls \ {c} : itsCall'[d] = itsCall[d]
  BY SlotReplaced DEF ListTyped, ListCalls
<1>2. ListCalls'
  BY <1>1 DEF ListTyped, ListCalls, ListRequest
<1>3. ASSUME NEW k \in busy'
      PROVE  \E d \in Calls : (Under(d))' /\ itsCall'[d].kind = k
  <2>1. CASE r.at # "idle" /\ r.kind = k
    BY <1>1, <2>1 DEF Under
  <2>2. CASE k \in busy /\ (Under(c) => itsCall[c].kind # k)
    <3>1. PICK d \in Calls : Under(d) /\ itsCall[d].kind = k
      BY <2>2 DEF ListTyped, ListButtons
    <3>2. d # c
      BY <2>2, <3>1
    <3> QED
      BY <1>1, <3>1, <3>2 DEF Under
  <2> QED
    BY <2>1, <2>2 DEF ListWaits
<1> QED
  BY <1>2, <1>3 DEF ListTyped, ListButtons

ListSolo(c) ==
  /\ \A d \in Calls : Under(d) => d = c
  /\ ListRead(itsCall[c])
  /\ (shown = Page(query) /\ total = Matches(query)) \/ ListDue(itsCall[c])

LEMMA IdleList ==
  ASSUME NEW r, r.at = "idle", r.req = "none"
  PROVE  ~ListDue(r) /\ ListRead(r)
BY DEF ListDue, ListRead

LEMMA IdleSlots ==
  ASSUME ListTyped, NEW c \in Calls, ~Under(c)
  PROVE  ~ListDue(itsCall[c]) /\ ListRead(itsCall[c])
BY IdleList DEF ListTyped, ListCalls, ListRequest, Under

LEMMA ListAlone ==
  ASSUME ListTyped, ListCalm, calm, NEW c \in Calls, Under(c) \/ List!Busy = {}
  PROVE  ListSolo(c)
<1>1. \A d \in Calls : Under(d) => d = c
  BY DEF ListCalm, Under, List!Busy
<1>2. \A d \in Calls : d # c => ~ListDue(itsCall[d])
  BY <1>1, IdleSlots
<1> QED
  BY <1>1, <1>2 DEF ListSolo, ListCalm

LEMMA SoloIsListCalm ==
  ASSUME ListTyped, NEW c \in Calls, ListSolo(c)
  PROVE  ListCalm
<1>1. \A d \in Calls : ListRead(itsCall[d])
  <2>1. \A d \in Calls : d # c => ListRead(itsCall[d])
    BY IdleSlots DEF ListSolo
  <2> QED
    BY <2>1 DEF ListSolo
<1> QED
  BY <1>1 DEF ListSolo, ListCalm

LEMMA ListCalmAfter ==
  ASSUME ListTyped, ListCalm, ListTyped', NEW c \in Calls,
         calm' => calm /\ (Under(c) \/ List!Busy = {}),
         calm' /\ ListSolo(c) => (ListSolo(c))'
  PROVE  ListCalm'
<1>1. CASE ~calm'
  BY <1>1 DEF ListCalm
<1>2. CASE calm'
  <2>1. (ListSolo(c))'
    BY <1>2, ListAlone
  <2> QED
    BY <2>1, SoloIsListCalm, PTL
<1> QED
  BY <1>1, <1>2

LEMMA ListSoloAfter ==
  ASSUME ListTyped, NEW c \in Calls, NEW r, itsCall' = [itsCall EXCEPT ![c] = r], ListSolo(c),
         (ListRead(r))', (shown = Page(query) /\ total = Matches(query))' \/ ListDue(r)
  PROVE  (ListSolo(c))'
<1>1. itsCall'[c] = r /\ \A d \in Calls \ {c} : itsCall'[d] = itsCall[d]
  BY SlotReplaced DEF ListTyped, ListCalls
<1>2. \A d \in Calls : (Under(d))' => d = c
  BY <1>1 DEF ListSolo, Under
<1>3. (ListRead(itsCall[c]))'
  BY <1>1 DEF ListRead, Page, Matches, List!Rows, List!Matching
<1>4. (shown = Page(query) /\ total = Matches(query))' \/ (ListDue(itsCall[c]))'
  BY <1>1 DEF ListDue
<1> QED
  BY <1>2, <1>3, <1>4 DEF ListSolo

\* What matches depends on the stored things alone.
LEMMA SameRows ==
  ASSUME UNCHANGED <<things, discovered>>, NEW q
  PROVE  /\ List!Rows(q)' = List!Rows(q) /\ (Matches(q))' = Matches(q)
         /\ (Page(q))' = Page(q)
BY DEF List!Rows, List!Matching, Matches, Page

-----------------------------------------------------------------------------
(* The list of things: what its user does *)

LEMMA FirstIsQuery == List!First \in List!Queries
<1>1. Cardinality(Things) \in Nat /\ List!Cardinality(Things) = Cardinality(Things)
  BY ListAssumption, ListCounts, FS_CardinalityType DEF List!ThingsAreOrdered
<1> QED
  BY <1>1 DEF List!First, List!Queries

\* A read that is asked for, for a handler or for the effect.
LEMMA ListAsks ==
  ASSUME NEW kind, NEW q \in List!Queries, NEW r, r = List!Asking(kind, q)
  PROVE  /\ DOMAIN r = {"at", "req", "kind", "id", "query", "rows", "total"}
         /\ r.at = "sent" /\ r.req = "list" /\ r.kind = kind /\ r.query = q
         /\ ListDue(r) /\ (ListRequest(r))'
<1>1. /\ DOMAIN r = {"at", "req", "kind", "id", "query", "rows", "total"}
      /\ r.at = "sent" /\ r.req = "list" /\ r.kind = kind /\ r.query = q
  BY DEF List!Asking, List!Idle
<1> QED
  BY <1>1 DEF ListRequest, ListDue

LEMMA ListChanges ==
  ASSUME ListTyped, ListCalm, NEW q \in List!Queries, List!Changed(q),
         UNCHANGED <<things, discovered, shown, total, busy, sure, others>>,
         clicks' \in 0..MaxClicks, search' \in BOOLEAN
  PROVE  ListTyped' /\ ListCalm'
<1>1. PICK c \in List!Free : itsCall' = [itsCall EXCEPT ![c] = List!Asking("none", q)]
  BY Zenon DEF List!Changed
<1>2. query' = q /\ loading' = TRUE /\ calm' = (calm /\ List!Busy = {})
  BY Zenon DEF List!Changed
<1>3. PICK r : r = List!Asking("none", q)
  OBVIOUS
<1>4. PICK kind : kind = "none"
  OBVIOUS
<1>5. r.at = "sent" /\ r.req = "list" /\ r.query = q /\ ListDue(r) /\ (ListRequest(r))'
  BY <1>3, <1>4, ListAsks
<1>6. c \in Calls /\ ~Under(c) /\ itsCall' = [itsCall EXCEPT ![c] = r]
  BY <1>1, <1>3 DEF List!Free, List!Busy, Under
<1>7. ListTyped'
  <2>1. ListStored'
    <3>1. calm' \in BOOLEAN
      BY <1>2
    <3> QED
      BY <1>2, <3>1 DEF ListTyped, ListStored
  <2>2. ListWaits(c, r)
    BY <1>6 DEF ListWaits
  <2> QED
    BY <1>5, <1>6, <2>1, <2>2, ListTypedAfter
<1>8. ASSUME ListSolo(c) PROVE (ListSolo(c))'
  <2>1. (ListRead(r))'
    BY <1>2, <1>5 DEF ListRead
  <2> QED
    BY <1>5, <1>6, <1>8, <2>1, ListSoloAfter
<1> QED
  BY <1>2, <1>6, <1>7, <1>8, ListCalmAfter

LEMMA ListFilters ==
  ASSUME ListTyped, ListCalm, List!setStatusFilter \/ List!Debounce
  PROVE  ListTyped' /\ ListCalm'
<1>1. query \in List!Queries /\ search \in BOOLEAN /\ clicks \in 0..MaxClicks /\ MaxClicks \in Nat
  BY ListAssumption DEF ListTyped, ListStored, List!ThingsBounds
<1>2. CASE List!setStatusFilter
  <2>1. PICK q : q = [query EXCEPT !.status = ~@]
    OBVIOUS
  <2>2. q \in List!Queries
    BY <1>1, <2>1 DEF List!Queries
  <2>3. /\ List!Changed(q) /\ clicks < MaxClicks /\ clicks' = clicks + 1
        /\ UNCHANGED <<things, discovered, search, shown, total, busy, sure, others>>
    BY <1>2, <2>1, Zenon DEF List!setStatusFilter, List!Click
  <2> QED
    BY <1>1, <2>2, <2>3, ListChanges
<1>3. CASE List!Debounce
  <2>1. PICK q : q = [query EXCEPT !.search = search]
    OBVIOUS
  <2>2. q \in List!Queries
    BY <1>1, <2>1 DEF List!Queries
  <2>3. /\ List!Changed(q)
        /\ UNCHANGED <<things, discovered, search, shown, total, busy, sure, clicks, others>>
    BY <1>3, <2>1, Zenon DEF List!Debounce
  <2> QED
    BY <1>1, <2>2, <2>3, ListChanges
<1> QED
  BY <1>2, <1>3

\* No more pages than rows.
LEMMA PagesFit ==
  ASSUME NEW n \in Nat, NEW p \in Nat, p < (n + Limit - 1) \div Limit
  PROVE  p <= n
<1>1. Limit \in Nat /\ Limit >= 1
  BY ListAssumption DEF List!ThingsAreOrdered
<1>2. PICK k \in Int : k = (n + Limit - 1) \div Limit
  BY <1>1
<1>3. Limit * k <= n + Limit - 1
  BY <1>1, <1>2
<1>4. ASSUME p >= n + 1 PROVE FALSE
  <2>1. k >= n + 2
    BY <1>2, <1>4
  <2>2. PICK m \in Nat : k = n + 1 + m
    BY <2>1
  <2>3. Limit * k = Limit * n + Limit + Limit * m
    BY <1>1, <2>2
  <2>4. Limit * n >= n /\ Limit * m >= 0
    BY <1>1, <2>2
  <2> QED
    BY <1>1, <1>3, <2>3, <2>4
<1> QED
  BY <1>4

\* A page is turned only where there is one.
LEMMA ListTurns ==
  ASSUME ListTyped, ListCalm, List!Turn
  PROVE  ListTyped' /\ ListCalm'
<1>1. /\ query \in List!Queries /\ search \in BOOLEAN /\ clicks \in 0..MaxClicks /\ MaxClicks \in Nat
      /\ total \in 0..Cardinality(Things)
  BY ListAssumption DEF ListTyped, ListStored, List!ThingsBounds
<1>2. Cardinality(Things) \in Nat /\ List!Cardinality(Things) = Cardinality(Things)
  BY ListAssumption, ListCounts, FS_CardinalityType DEF List!ThingsAreOrdered
<1>3. /\ clicks < MaxClicks /\ clicks' = clicks + 1
      /\ UNCHANGED <<things, discovered, search, shown, total, busy, sure, others>>
  BY Zenon DEF List!Turn, List!Click
<1>4. PICK up : up = [query EXCEPT !.page = @ + 1]
  OBVIOUS
<1>5. PICK down : down = [query EXCEPT !.page = @ - 1]
  OBVIOUS
<1>6. (List!hasNext /\ List!Changed(up)) \/ (List!hasPrev /\ List!Changed(down))
  BY <1>4, <1>5, Zenon DEF List!Turn
<1>7. ASSUME List!hasNext, List!Changed(up) PROVE ListTyped' /\ ListCalm'
  <2>1. query.page + 1 \in 1..(Cardinality(Things) + 1)
    <3>1. query.page \in Nat \ {0} /\ query.page < (total + Limit - 1) \div Limit /\ total \in Nat
      BY <1>1, <1>2, <1>7 DEF List!Queries, List!hasNext, List!Pages
    <3>2. query.page <= total
      BY <3>1, PagesFit
    <3> QED
      BY <1>1, <1>2, <3>1, <3>2
  <2>2. up \in List!Queries
    BY <1>1, <1>2, <1>4, <2>1 DEF List!Queries
  <2> QED
    BY <1>1, <1>3, <1>7, <2>2, ListChanges
<1>8. ASSUME List!hasPrev, List!Changed(down) PROVE ListTyped' /\ ListCalm'
  <2>1. query.page - 1 \in 1..(Cardinality(Things) + 1)
    BY <1>1, <1>2, <1>8 DEF List!Queries, List!hasPrev
  <2>2. down \in List!Queries
    BY <1>1, <1>2, <1>5, <2>1 DEF List!Queries
  <2> QED
    BY <1>1, <1>3, <1>8, <2>2, ListChanges
<1> QED
  BY <1>6, <1>7, <1>8

\* What is typed is not asked for yet.
LEMMA ListSearches ==
  ASSUME ListTyped, ListCalm, List!setSearch
  PROVE  ListTyped' /\ ListCalm'
<1>1. /\ clicks < MaxClicks /\ clicks' = clicks + 1 /\ search' = ~search
      /\ UNCHANGED <<things, discovered, query, shown, total, loading, busy, itsCall, sure, calm, others>>
  BY DEF List!setSearch, List!Click
<1>2. MaxClicks \in Nat
  BY ListAssumption DEF List!ThingsBounds
<1>3. ListTyped'
  <2>1. ListStored'
    BY <1>1, <1>2 DEF ListTyped, ListStored
  <2>2. ListCalls'
    BY <1>1 DEF ListTyped, ListCalls, ListRequest
  <2>3. ListButtons'
    BY <1>1 DEF ListTyped, ListButtons, Under
  <2> QED
    BY <2>1, <2>2, <2>3 DEF ListTyped
<1>4. ListCalm'
  BY <1>1 DEF ListCalm, ListRead, ListDue, Under, Page, Matches, List!Rows, List!Matching
<1> QED
  BY <1>3, <1>4

LEMMA ListStarts ==
  ASSUME ListTyped, ListCalm, NEW c \in Calls, NEW kind \in {"delete", "deleteDiscovered"}, NEW t \in Nat,
         List!Start(c, kind, t), sure' = sure \cup {t}, kind = "delete" => t \in Things,
         kind = "deleteDiscovered" => t = 0
  PROVE  ListTyped' /\ ListCalm'
<1>1. PICK r : r = [List!Idle EXCEPT !.at = "sent", !.req = kind, !.kind = kind, !.id = t, !.query = query]
  OBVIOUS
<1>2. /\ DOMAIN r = {"at", "req", "kind", "id", "query", "rows", "total"}
      /\ r.at = "sent" /\ r.req = kind /\ r.kind = kind /\ r.query = query /\ r.id = t
  BY <1>1 DEF List!Idle
<1>3. /\ itsCall' = [itsCall EXCEPT ![c] = r] /\ clicks < MaxClicks /\ clicks' = clicks + 1
      /\ busy' = busy \cup {kind} /\ calm' = (calm /\ List!Busy = {}) /\ c \in List!Free
      /\ UNCHANGED <<things, discovered, query, search, shown, total, loading, others>>
  BY <1>1, Zenon DEF List!Start, List!Click
<1>4. ~Under(c)
  BY <1>3 DEF List!Free, List!Busy, Under
<1>5. ListTyped'
  <2>1. ListStored'
    <3>1. MaxClicks \in Nat
      BY ListAssumption DEF List!ThingsBounds
    <3>2. clicks' \in 0..MaxClicks
      BY <1>3, <3>1 DEF ListTyped, ListStored
    <3>3. calm' \in BOOLEAN
      BY <1>3
    <3>4. sure' \subseteq Things \cup {0}
      BY DEF ListTyped, ListStored
    <3> QED
      BY <1>3, <3>2, <3>3, <3>4 DEF ListTyped, ListStored
  <2>2. (ListRequest(r))'
    BY <1>2 DEF ListRequest, ListTyped, ListStored
  <2>3. ListWaits(c, r)
    BY <1>2, <1>3, <1>4 DEF ListWaits
  <2> QED
    BY <1>3, <2>1, <2>2, <2>3, ListTypedAfter
<1>6. ASSUME ListSolo(c) PROVE (ListSolo(c))'
  <2>1. (ListRead(r))'
    BY <1>2, <1>3 DEF ListRead
  <2>2. (shown = Page(query) /\ total = Matches(query))
    BY <1>4, <1>6, IdleSlots DEF ListSolo
  <2>3. (shown = Page(query) /\ total = Matches(query))'
    BY <1>3, <2>2 DEF Page, Matches, List!Rows, List!Matching
  <2> QED
    BY <1>3, <1>6, <2>1, <2>3, ListSoloAfter
<1> QED
  BY <1>3, <1>5, <1>6, ListCalmAfter

LEMMA ListDeletes ==
  ASSUME ListTyped, ListCalm, NEW c \in Calls, List!handleDelete(c) \/ List!handleDeleteDiscovered(c)
  PROVE  ListTyped' /\ ListCalm'
<1>1. Things \subseteq Nat
  BY ListAssumption DEF List!ThingsAreOrdered
<1>2. ASSUME List!handleDelete(c) PROVE ListTyped' /\ ListCalm'
  <2>1. PICK t \in shown.rows : List!Start(c, "delete", t) /\ sure' = sure \cup {t}
    BY <1>2, Zenon DEF List!handleDelete
  <2>2. t \in Things /\ t \in Nat
    BY <1>1 DEF ListTyped, ListStored
  <2>3. PICK kind \in {"delete", "deleteDiscovered"} : kind = "delete"
    OBVIOUS
  <2> QED
    BY <2>1, <2>2, <2>3, ListStarts
<1>3. ASSUME List!handleDeleteDiscovered(c) PROVE ListTyped' /\ ListCalm'
  <2>1. PICK t \in Nat : t = 0
    OBVIOUS
  <2>2. PICK kind \in {"delete", "deleteDiscovered"} : kind = "deleteDiscovered"
    OBVIOUS
  <2>3. List!Start(c, kind, t) /\ sure' = sure \cup {t}
    BY <1>3, <2>1, <2>2, Zenon DEF List!handleDeleteDiscovered
  <2> QED
    BY <2>1, <2>2, <2>3, ListStarts
<1> QED
  BY <1>2, <1>3

-----------------------------------------------------------------------------
(* The list of things: the API *)

\* What the steps of the API and of other windows leave alone.
ListApi == UNCHANGED <<query, search, shown, total, loading, busy, sure, clicks>>

\* A request that is answered, and what it has done to the store.
LEMMA ListAnswers ==
  ASSUME ListTyped, ListCalm, NEW c \in Calls, Under(c), NEW r, itsCall' = [itsCall EXCEPT ![c] = r],
         DOMAIN r = DOMAIN itsCall[c], r.at \in {"good", "bad"}, r.req = itsCall[c].req,
         r.kind = itsCall[c].kind, r.id = itsCall[c].id, r.query = itsCall[c].query,
         ListApi, UNCHANGED others, things' \subseteq Things, discovered' \subseteq things',
         calm' \in BOOLEAN, calm' => calm,
         r.req = "list" /\ r.at = "good" =>
           /\ r.rows = List!Rows(r.query) /\ r.total = Matches(r.query)
           /\ UNCHANGED <<things, discovered>>,
         calm' => /\ r.req = "list" => r.at = "good"
                  /\ r.at = "bad" => itsCall[c].at # "good" /\ UNCHANGED <<things, discovered>>
                  /\ r.at = "good" => r.req \in {"list", "delete", "deleteDiscovered"}
  PROVE  ListTyped' /\ ListCalm'
<1>1. ListRequest(itsCall[c]) /\ things \subseteq Things
  BY DEF ListTyped, ListCalls, ListStored
<1>2. (ListRequest(r))'
  <2>1. r.query \in List!Queries
    BY <1>1 DEF ListRequest
  <2>2. r.req = "list" /\ r.at = "good" =>
          r.rows \subseteq Things /\ Cardinality(r.rows) <= Limit /\ r.total \in 0..Cardinality(Things)
    BY <1>1, <2>1, RowsFit DEF Matches
  <2> QED
    BY <1>1, <2>2 DEF ListRequest, ListApi
<1>3. ListTyped'
  <2>1. ListStored'
    BY DEF ListTyped, ListStored, ListApi
  <2>2. ListWaits(c, r)
    BY DEF ListWaits, ListApi
  <2>3. sure \subseteq sure'
    BY DEF ListApi
  <2> QED
    BY <1>2, <2>1, <2>2, <2>3, ListTypedAfter
<1>4. ASSUME calm', ListSolo(c) PROVE (ListSolo(c))'
  <2>1. r.query = query /\ query' = query
    BY <1>4 DEF ListSolo, ListRead, Under, ListApi
  <2>2. (ListRead(r))'
    <3>1. CASE r.req = "list"
      <4>1. r.rows = List!Rows(query) /\ r.total = Matches(query) /\ UNCHANGED <<things, discovered>>
        BY <1>4, <2>1, <3>1
      <4>2. List!Rows(query)' = List!Rows(query) /\ (Matches(query))' = Matches(query)
        BY <2>1, <4>1 DEF List!Rows, List!Matching, Matches
      <4> QED
        BY <1>4, <2>1, <3>1, <4>1, <4>2 DEF ListRead
    <3>2. CASE r.req # "list"
      BY <2>1, <3>2 DEF ListRead
    <3> QED
      BY <3>1, <3>2
  <2>3. (shown = Page(query) /\ total = Matches(query))' \/ ListDue(r)
    <3>1. CASE r.at = "good"
      BY <1>4, <3>1 DEF ListDue
    <3>2. CASE r.at = "bad"
      <4>1. UNCHANGED <<things, discovered>> /\ itsCall[c].at # "good" /\ r.req # "list"
        BY <1>4, <3>2
      <4>2. shown = Page(query) /\ total = Matches(query)
        BY <1>4, <4>1 DEF ListSolo, ListDue
      <4> QED
        BY <2>1, <4>1, <4>2 DEF Page, Matches, List!Rows, List!Matching, ListApi
    <3> QED
      BY <3>1, <3>2
  <2> QED
    BY <1>4, <2>2, <2>3, ListSoloAfter
<1> QED
  BY <1>3, <1>4, ListCalmAfter

\* A slot of the list moves on with what it was asked for.
LEMMA ListGoes ==
  ASSUME ListTyped, NEW c \in Calls, NEW at, List!Go(c, at), NEW r, r = [itsCall[c] EXCEPT !.at = at]
  PROVE  /\ itsCall' = [itsCall EXCEPT ![c] = r] /\ r.at = at /\ DOMAIN r = DOMAIN itsCall[c]
         /\ r.req = itsCall[c].req /\ r.kind = itsCall[c].kind /\ r.id = itsCall[c].id
         /\ r.query = itsCall[c].query
BY DEF ListTyped, ListCalls, ListRequest, List!Go

LEMMA ReadPageKeeps ==
  ASSUME ListTyped, ListCalm, NEW c \in Calls, List!ReadPage(c)
  PROVE  ListTyped' /\ ListCalm'
<1>1. PICK rows : rows = List!Rows(itsCall[c].query)
  OBVIOUS
<1>2. PICK n : n = List!Cardinality(List!Matching(itsCall[c].query))
  OBVIOUS
<1>3. PICK r : r = [itsCall[c] EXCEPT !.at = "good", !.rows = rows, !.total = n]
  OBVIOUS
<1>4. /\ itsCall[c].at = "sent" /\ itsCall[c].req = "list" /\ ListApi
      /\ UNCHANGED <<things, discovered, calm, others>>
  BY Zenon DEF List!ReadPage, List!At, ListApi
<1>5. itsCall' = [itsCall EXCEPT ![c] = r]
  BY <1>1, <1>2, <1>3 DEF List!ReadPage
<1>6. /\ DOMAIN r = DOMAIN itsCall[c] /\ r.at = "good" /\ r.req = itsCall[c].req
      /\ r.kind = itsCall[c].kind /\ r.id = itsCall[c].id /\ r.query = itsCall[c].query
      /\ r.rows = rows /\ r.total = n
  BY <1>3 DEF ListTyped, ListCalls, ListRequest
<1>7. n = Matches(itsCall[c].query)
  BY <1>2, ListCounts DEF Matches
<1>8. Under(c) /\ calm \in BOOLEAN /\ things \subseteq Things /\ discovered \subseteq things
  BY <1>4 DEF Under, ListTyped, ListStored
<1> QED
  BY <1>1, <1>4, <1>5, <1>6, <1>7, <1>8, ListAnswers

LEMMA DeleteThingKeeps ==
  ASSUME ListTyped, ListCalm, NEW c \in Calls, List!delete(c)
  PROVE  ListTyped' /\ ListCalm'
<1>1. PICK at \in {"good", "bad"} : at = IF itsCall[c].id \in things THEN "good" ELSE "bad"
  OBVIOUS
<1>2. /\ itsCall[c].at = "sent" /\ itsCall[c].req = "delete" /\ List!Go(c, at) /\ ListApi
      /\ things' = things \ {itsCall[c].id} /\ discovered' = discovered \ {itsCall[c].id}
      /\ UNCHANGED <<calm, others>>
  BY <1>1, Zenon DEF List!delete, List!At, ListApi
<1>3. PICK r : r = [itsCall[c] EXCEPT !.at = at]
  OBVIOUS
<1>4. /\ itsCall' = [itsCall EXCEPT ![c] = r] /\ r.at = at /\ DOMAIN r = DOMAIN itsCall[c]
      /\ r.req = itsCall[c].req /\ r.kind = itsCall[c].kind /\ r.id = itsCall[c].id
      /\ r.query = itsCall[c].query
  BY <1>2, <1>3, ListGoes
<1>5. Under(c) /\ calm \in BOOLEAN /\ things \subseteq Things /\ discovered \subseteq things
  BY <1>2 DEF Under, ListTyped, ListStored
<1>6. at = "bad" => UNCHANGED <<things, discovered>>
  BY <1>1, <1>2, <1>5
<1>7. things' \subseteq Things /\ discovered' \subseteq things'
  BY <1>2, <1>5
<1> QED
  BY <1>1, <1>2, <1>4, <1>5, <1>6, <1>7, ListAnswers

LEMMA DeleteDiscoveredKeeps ==
  ASSUME ListTyped, ListCalm, NEW c \in Calls, List!deleteDiscovered(c)
  PROVE  ListTyped' /\ ListCalm'
<1>1. /\ itsCall[c].at = "sent" /\ itsCall[c].req = "deleteDiscovered" /\ List!Go(c, "good") /\ ListApi
      /\ things' = things \ discovered /\ discovered' = {} /\ UNCHANGED <<calm, others>>
  BY Zenon DEF List!deleteDiscovered, List!At, ListApi
<1>2. PICK at : at = "good"
  OBVIOUS
<1>3. PICK r : r = [itsCall[c] EXCEPT !.at = at]
  OBVIOUS
<1>4. /\ itsCall' = [itsCall EXCEPT ![c] = r] /\ r.at = at /\ DOMAIN r = DOMAIN itsCall[c]
      /\ r.req = itsCall[c].req /\ r.kind = itsCall[c].kind /\ r.id = itsCall[c].id
      /\ r.query = itsCall[c].query
  BY <1>1, <1>2, <1>3, ListGoes
<1>5. Under(c) /\ calm \in BOOLEAN /\ things \subseteq Things
  BY <1>1 DEF Under, ListTyped, ListStored
<1> QED
  BY <1>1, <1>2, <1>4, <1>5, ListAnswers

LEMMA ListFailsKeeps ==
  ASSUME ListTyped, ListCalm, NEW c \in Calls, List!Fails(c)
  PROVE  ListTyped' /\ ListCalm'
<1>1. /\ itsCall[c].at \in {"sent", "good"} /\ List!Go(c, "bad") /\ calm' = FALSE /\ ListApi
      /\ UNCHANGED <<things, discovered, others>>
  BY Zenon DEF List!Fails, ListApi
<1>2. PICK at : at = "bad"
  OBVIOUS
<1>3. PICK r : r = [itsCall[c] EXCEPT !.at = at]
  OBVIOUS
<1>4. /\ itsCall' = [itsCall EXCEPT ![c] = r] /\ r.at = at /\ DOMAIN r = DOMAIN itsCall[c]
      /\ r.req = itsCall[c].req /\ r.kind = itsCall[c].kind /\ r.id = itsCall[c].id
      /\ r.query = itsCall[c].query
  BY <1>1, <1>2, <1>3, ListGoes
<1>5. Under(c) /\ calm' \in BOOLEAN /\ things \subseteq Things /\ discovered \subseteq things
  BY <1>1 DEF Under, ListTyped, ListStored
<1> QED
  BY <1>1, <1>2, <1>4, <1>5, ListAnswers

LEMMA ListOthers ==
  ASSUME ListTyped, ListCalm, NEW t \in Things, List!OtherWindow(t)
  PROVE  ListTyped' /\ ListCalm'
<1>1. /\ others < MaxOthers /\ others' = others + 1 /\ calm' = FALSE /\ ListApi /\ UNCHANGED itsCall
  BY Zenon DEF List!OtherWindow, ListApi
<1>2. things' \subseteq Things /\ discovered' \subseteq things'
  BY DEF List!OtherWindow, ListTyped, ListStored
<1>3. others' \in 0..MaxOthers
  BY <1>1, ListAssumption DEF ListTyped, ListStored, List!ThingsBounds
<1>4. ListTyped'
  <2>1. ListStored'
    BY <1>1, <1>2, <1>3 DEF ListTyped, ListStored, ListApi
  <2>2. ListCalls'
    BY <1>1 DEF ListTyped, ListCalls, ListRequest, ListApi
  <2>3. ListButtons'
    BY <1>1 DEF ListTyped, ListButtons, Under, ListApi
  <2> QED
    BY <2>1, <2>2, <2>3 DEF ListTyped
<1> QED
  BY <1>1, <1>4 DEF ListCalm

-----------------------------------------------------------------------------
(* The list of things meets an answer *)

LEMMA SetThingsKeeps ==
  ASSUME ListTyped, ListCalm, NEW c \in Calls, List!setThings(c)
  PROVE  ListTyped' /\ ListCalm'
<1>1. PICK r : r = List!Idle
  OBVIOUS
<1>2. /\ itsCall[c].at = "good" /\ itsCall[c].req = "list"
      /\ shown' = [query |-> itsCall[c].query, rows |-> itsCall[c].rows]
      /\ total' = itsCall[c].total /\ loading' = FALSE /\ busy' = busy \ {itsCall[c].kind}
      /\ itsCall' = [itsCall EXCEPT ![c] = r]
      /\ UNCHANGED <<things, discovered, query, search, sure, calm, clicks, others>>
  BY <1>1 DEF List!setThings, List!At
<1>3. /\ DOMAIN r = {"at", "req", "kind", "id", "query", "rows", "total"}
      /\ r.at = "idle" /\ r.req = "none" /\ r.query \in List!Queries
  BY <1>1, FirstIsQuery DEF List!Idle
<1>4. ListRequest(itsCall[c]) /\ Under(c)
  BY <1>2 DEF ListTyped, ListCalls, Under
<1>5. ListTyped'
  <2>1. ListStored'
    <3>1. shown'.query = itsCall[c].query /\ shown'.rows = itsCall[c].rows
      BY <1>2
    <3> QED
      BY <1>2, <1>4, <3>1 DEF ListTyped, ListStored, ListRequest
  <2>2. (ListRequest(r))'
    BY <1>3 DEF ListRequest
  <2>3. ListWaits(c, r)
    BY <1>2 DEF ListWaits
  <2> QED
    BY <1>2, <2>1, <2>2, <2>3, ListTypedAfter
<1>6. ASSUME ListSolo(c) PROVE (ListSolo(c))'
  <2>1. (ListRead(r))'
    BY <1>3 DEF ListRead
  <2>2. itsCall[c].query = query /\ itsCall[c].rows = List!Rows(query) /\ itsCall[c].total = Matches(query)
    BY <1>2, <1>6 DEF ListSolo, ListRead
  <2>3. (shown = Page(query) /\ total = Matches(query))'
    BY <1>2, <2>2 DEF Page, Matches, List!Rows, List!Matching
  <2> QED
    BY <1>2, <1>6, <2>1, <2>3, ListSoloAfter
<1> QED
  BY <1>2, <1>4, <1>5, <1>6, ListCalmAfter

LEMMA ListDeletedKeeps ==
  ASSUME ListTyped, ListCalm, NEW c \in Calls, List!Deleted(c)
  PROVE  ListTyped' /\ ListCalm'
<1>1. PICK kind : kind = itsCall[c].kind
  OBVIOUS
<1>2. PICK q \in List!Queries : q = itsCall[c].query
  BY DEF ListTyped, ListCalls, ListRequest
<1>3. PICK r : r = List!Asking(kind, q)
  OBVIOUS
<1>4. /\ itsCall[c].at = "good" /\ itsCall[c].req # "list" /\ loading' = TRUE
      /\ itsCall' = [itsCall EXCEPT ![c] = r]
      /\ UNCHANGED <<things, discovered, query, search, shown, total, busy, sure, calm, clicks, others>>
  BY <1>1, <1>2, <1>3 DEF List!Deleted
<1>5. r.at = "sent" /\ r.req = "list" /\ r.kind = kind /\ r.query = q /\ ListDue(r) /\ (ListRequest(r))'
  BY <1>3, ListAsks
<1>6. Under(c)
  BY <1>4 DEF Under
<1>7. ListTyped'
  <2>1. ListStored'
    BY <1>4 DEF ListTyped, ListStored
  <2>2. ListWaits(c, r)
    BY <1>1, <1>4, <1>5 DEF ListWaits
  <2> QED
    BY <1>4, <1>5, <2>1, <2>2, ListTypedAfter
<1>8. ASSUME ListSolo(c) PROVE (ListSolo(c))'
  <2>1. (ListRead(r))'
    BY <1>2, <1>4, <1>5, <1>8 DEF ListRead, ListSolo
  <2> QED
    BY <1>4, <1>5, <1>8, <2>1, ListSoloAfter
<1> QED
  BY <1>4, <1>6, <1>7, <1>8, ListCalmAfter

LEMMA ListFailedKeeps ==
  ASSUME ListTyped, ListCalm, NEW c \in Calls, List!Failed(c)
  PROVE  ListTyped' /\ ListCalm'
<1>1. PICK r : r = List!Idle
  OBVIOUS
<1>2. /\ itsCall[c].at = "bad" /\ busy' = busy \ {itsCall[c].kind}
      /\ itsCall' = [itsCall EXCEPT ![c] = r]
      /\ UNCHANGED <<things, discovered, query, search, shown, total, sure, calm, clicks, others>>
  BY <1>1, Zenon DEF List!Failed
<1>3. /\ DOMAIN r = {"at", "req", "kind", "id", "query", "rows", "total"}
      /\ r.at = "idle" /\ r.req = "none" /\ r.query \in List!Queries
  BY <1>1, FirstIsQuery DEF List!Idle
<1>4. loading' \in BOOLEAN
  BY DEF List!Failed, ListTyped, ListStored
<1>5. Under(c)
  BY <1>2 DEF Under
<1>6. ListTyped'
  <2>1. ListStored'
    BY <1>2, <1>4 DEF ListTyped, ListStored
  <2>2. (ListRequest(r))'
    BY <1>3 DEF ListRequest
  <2>3. ListWaits(c, r)
    BY <1>2 DEF ListWaits
  <2> QED
    BY <1>2, <2>1, <2>2, <2>3, ListTypedAfter
<1>7. ASSUME ListSolo(c) PROVE (ListSolo(c))'
  <2>1. (ListRead(r))'
    BY <1>3 DEF ListRead
  <2>2. shown = Page(query) /\ total = Matches(query)
    BY <1>2, <1>7 DEF ListSolo, ListRead, ListDue
  <2>3. (shown = Page(query) /\ total = Matches(query))'
    BY <1>2, <2>2 DEF Page, Matches, List!Rows, List!Matching
  <2> QED
    BY <1>2, <1>7, <2>1, <2>3, ListSoloAfter
<1> QED
  BY <1>2, <1>5, <1>6, <1>7, ListCalmAfter

LEMMA ListSteps ==
  ASSUME ListTyped, ListCalm, List!Next
  PROVE  ListTyped' /\ ListCalm'
BY ListFilters, ListSearches, ListTurns, ListDeletes, ReadPageKeeps, DeleteThingKeeps,
   DeleteDiscoveredKeeps, ListFailsKeeps, SetThingsKeeps, ListDeletedKeeps, ListFailedKeeps,
   ListOthers, Zenon DEF List!Next, List!Serve, List!Meet

LEMMA ListBegins ==
  ASSUME List!Init
  PROVE  ListTyped /\ ListCalm
<1>1. PICK m \in Calls : itsCall = [c \in Calls |-> IF c = m THEN List!Asking("none", List!First) ELSE List!Idle]
  BY Zenon DEF List!Init
<1>2. /\ things = Things /\ discovered \in SUBSET Things /\ query = List!First /\ search = FALSE
      /\ shown = [query |-> List!First, rows |-> {}] /\ total = 0 /\ loading = TRUE /\ busy = {}
      /\ sure = {} /\ calm = TRUE /\ clicks = 0 /\ others = 0
  BY Zenon DEF List!Init
<1>3. PICK r : r = List!Asking("none", List!First)
  OBVIOUS
<1>4. PICK s : s = List!Idle
  OBVIOUS
<1>5. List!First \in List!Queries
  BY FirstIsQuery
<1>6. /\ DOMAIN r = {"at", "req", "kind", "id", "query", "rows", "total"}
      /\ r.at = "sent" /\ r.req = "list" /\ r.query = List!First
  BY <1>3 DEF List!Asking, List!Idle
<1>7. /\ DOMAIN s = {"at", "req", "kind", "id", "query", "rows", "total"}
      /\ s.at = "idle" /\ s.req = "none" /\ s.query = List!First
  BY <1>4 DEF List!Idle
<1>8. itsCall = [c \in Calls |-> IF c = m THEN r ELSE s]
  BY <1>1, <1>3, <1>4
<1>9. ListTyped
  <2>1. ListStored
    <3>1. Cardinality({}) = 0 /\ Cardinality(Things) \in Nat /\ Limit \in Nat
      BY FS_EmptySet, FS_CardinalityType, ListAssumption, ListCounts DEF List!ThingsAreOrdered
    <3>2. shown.query = List!First /\ shown.rows = {}
      BY <1>2
    <3>3. clicks \in 0..MaxClicks /\ others \in 0..MaxOthers
      BY <1>2, ListAssumption DEF List!ThingsBounds
    <3>4. query \in List!Queries /\ shown.query \in List!Queries
      BY <1>2, <1>5, <3>2
    <3>5. Cardinality(shown.rows) <= Limit /\ total \in 0..Cardinality(Things)
      BY <1>2, <3>1, <3>2
    <3>6. things \subseteq Things /\ discovered \subseteq things /\ sure \subseteq Things \cup {0}
      BY <1>2
    <3> QED
      BY <1>2, <3>2, <3>3, <3>4, <3>5, <3>6 DEF ListStored
  <2>2. ListRequest(r) /\ ListRequest(s)
    BY <1>5, <1>6, <1>7 DEF ListRequest
  <2> QED
    BY <1>2, <1>8, <2>1, <2>2 DEF ListTyped, ListCalls, ListButtons
<1>10. ListCalm
  <2>1. \A c \in Calls : (Under(c) => c = m) /\ ListRead(itsCall[c])
    BY <1>2, <1>6, <1>7, <1>8 DEF Under, ListRead
  <2>2. ListDue(itsCall[m])
    BY <1>6, <1>8 DEF ListDue
  <2> QED
    BY <2>1, <2>2 DEF ListCalm
<1> QED
  BY <1>9, <1>10

\* What is gone was asked for: a thing by its own confirmation, or as discovered.
LEMMA ListDeletesAsAsked ==
  ASSUME ListTyped, List!Next
  PROVE  List!DeletesAsAsked
<1>1. ASSUME NEW c \in Calls, List!delete(c) PROVE List!DeletesAsAsked
  BY <1>1 DEF List!delete, List!At, List!DeletesAsAsked, ListTyped, ListCalls, ListRequest
<1>2. ASSUME NEW c \in Calls, List!deleteDiscovered(c) PROVE List!DeletesAsAsked
  BY <1>2 DEF List!deleteDiscovered, List!At, List!DeletesAsAsked, ListTyped, ListCalls, ListRequest
<1>3. ASSUME NEW t \in Things, List!OtherWindow(t) PROVE List!DeletesAsAsked
  BY <1>3 DEF List!OtherWindow, List!DeletesAsAsked
<1>4. CASE things' = things
  BY <1>4 DEF List!DeletesAsAsked
<1>5. ASSUME NEW c \in Calls, List!Serve(c) \/ List!Meet(c) \/ List!handleDelete(c) \/ List!handleDeleteDiscovered(c)
      PROVE  List!DeletesAsAsked
  BY <1>1, <1>2, <1>4, <1>5, Zenon DEF List!Serve, List!Meet, List!handleDelete, List!handleDeleteDiscovered,
     List!Start, List!ReadPage, List!Fails, List!setThings, List!Deleted, List!Failed
<1>6. CASE List!setStatusFilter \/ List!setSearch \/ List!Debounce \/ List!Turn
  BY <1>4, <1>6, Zenon DEF List!setStatusFilter, List!setSearch, List!Debounce, List!Turn
<1> QED
  BY <1>3, <1>5, <1>6, Zenon DEF List!Next

-----------------------------------------------------------------------------
(* The rules: forms, slots, and the page alone *)

LEMMA RuleCounts == \A S : Rule!Cardinality(S) = Cardinality(S)
BY DEF Rule!Cardinality, Cardinality, Rule!IsFiniteSet, IsFiniteSet

LEMMA RuleKinds ==
  /\ Rule!Kinds = {"network", "local", "thing", "group"}
  /\ \A x \in Rule!Conditions : Rule!TargetTypes(x) \subseteq Rule!Kinds /\ Rule!FirstOf(x) \in Rule!TargetTypes(x)
BY DEF Rule!Kinds, Rule!Conditions, Rule!TargetTypes, Rule!FirstOf

LEMMA EmptyFits ==
  /\ Fits(Rule!Empty) /\ (Fits(Rule!Empty))' /\ Rule!Empty.typed = New
BY RuleKinds DEF Fits, Rule!Empty, Rule!Forms, Rule!TargetTypes, Rule!Conditions

\* What fits goes on to fit: a load that fails or is overtaken only asks less.
LEMMA FitsStill ==
  ASSUME fit' => fit, NEW f
  PROVE  (Fits(f) => (Fits(f))') /\ (RuleList(f) => (RuleList(f))')
BY DEF Fits, RuleList

\* A page of the rules is a list of rules, and there are no more of them than identities.
LEMMA RowsOfRules ==
  ASSUME RuleList(rules), NEW f, NEW n, NEW p, RulesOf(f, n, p)
  PROVE  RuleList(f) /\ n \in 0..Rule!Cardinality(Things)
<1>1. Rule!OnPage(rules, p) \subseteq DOMAIN rules
  BY Zenon DEF Rule!OnPage
<1>2. PICK S \in SUBSET DOMAIN rules : f = [k \in S |-> rules[k]]
  BY <1>1 DEF RulesOf, Rule!Rows
<1>3. RuleList(f)
  BY <1>2 DEF RuleList
<1>4. n \in 0..Cardinality(Things)
  BY ListAssumption, ListCounts, RuleCounts, FS_Subset, FS_CardinalityType
  DEF RuleList, RulesOf, List!ThingsAreOrdered
<1> QED
  BY <1>3, <1>4, RuleCounts

RuleWaitsFor(r, b) == r.at # "idle" /\ (r.flag = b \/ (b = "rules" /\ r.req = "list"))
RuleWaits(c, r) ==
  \A b \in busy' : RuleWaitsFor(r, b) \/ (b \in busy /\ ~RuleWaitsFor(itsCall[c], b))

LEMMA RuleTypedAfter ==
  ASSUME RuleTyped, NEW c \in Calls, NEW r, itsCall' = [itsCall EXCEPT ![c] = r],
         (RuleRequest(r))', fit' => fit, RuleStored', RuleModal', RuleWaits(c, r)
  PROVE  RuleTyped'
<1>1. /\ DOMAIN itsCall' = Calls /\ itsCall'[c] = r
      /\ \A d \in Calls \ {c} : itsCall'[d] = itsCall[d]
  BY SlotReplaced DEF RuleTyped, RuleCalls
<1>2. ASSUME NEW d \in Calls \ {c} PROVE (RuleRequest(itsCall[d]))'
  <2>1. PICK s : s = itsCall[d]
    OBVIOUS
  <2>2. RuleRequest(s) /\ itsCall'[d] = s
    BY <1>1, <2>1 DEF RuleTyped, RuleCalls
  <2>3. (Fits(s.body) => (Fits(s.body))') /\ (RuleList(s.got) => (RuleList(s.got))')
    BY FitsStill
  <2> QED
    BY <2>2, <2>3 DEF RuleRequest
<1>3. RuleCalls'
  BY <1>1, <1>2 DEF RuleCalls
<1>4. ASSUME NEW b \in busy'
      PROVE  \E d \in Calls : (Under(d))' /\ (itsCall'[d].flag = b \/ (b = "rules" /\ itsCall'[d].req = "list"))
  <2>1. CASE RuleWaitsFor(r, b)
    BY <1>1, <2>1 DEF Under, RuleWaitsFor
  <2>2. CASE b \in busy /\ ~RuleWaitsFor(itsCall[c], b)
    <3>1. PICK d \in Calls : Under(d) /\ (itsCall[d].flag = b \/ (b = "rules" /\ itsCall[d].req = "list"))
      BY <2>2 DEF RuleTyped, RuleButtons
    <3>2. d # c
      BY <2>2, <3>1 DEF RuleWaitsFor, Under
    <3> QED
      BY <1>1, <3>1, <3>2 DEF Under
  <2> QED
    BY <2>1, <2>2 DEF RuleWaits
<1> QED
  BY <1>3, <1>4 DEF RuleTyped, RuleButtons

RuleSolo(c) ==
  /\ \A d \in Calls : Handles(itsCall[d]) => d = c
  /\ RulesRead(itsCall[c])
  /\ RulesOf(shown, total, page) \/ RulesDue(itsCall[c])

LEMMA AsideSlots ==
  ASSUME RuleTyped, NEW c \in Calls, ~Handles(itsCall[c])
  PROVE  itsCall[c].req \in {"none", "targets"} /\ ~RulesDue(itsCall[c]) /\ RulesRead(itsCall[c])
BY DEF RuleTyped, RuleCalls, RuleRequest, Handles, RulesDue, RulesRead, RulesOf

LEMMA RuleAlone ==
  ASSUME RuleTyped, RuleCalm, calm, NEW c \in Calls,
         Handles(itsCall[c]) \/ \A d \in Calls : ~Handles(itsCall[d])
  PROVE  RuleSolo(c)
<1>1. \A d \in Calls : Handles(itsCall[d]) => d = c
  BY DEF RuleCalm
<1>2. \A d \in Calls : d # c => ~RulesDue(itsCall[d])
  BY <1>1, AsideSlots
<1> QED
  BY <1>1, <1>2 DEF RuleSolo, RuleCalm

LEMMA SoloIsRuleCalm ==
  ASSUME RuleTyped, NEW c \in Calls, RuleSolo(c)
  PROVE  RuleCalm
<1>1. \A d \in Calls : d # c => RulesRead(itsCall[d])
  BY AsideSlots DEF RuleSolo
<1> QED
  BY <1>1 DEF RuleSolo, RuleCalm

LEMMA RuleCalmAfter ==
  ASSUME RuleTyped, RuleCalm, RuleTyped', NEW c \in Calls,
         calm' => calm /\ (Handles(itsCall[c]) \/ \A d \in Calls : ~Handles(itsCall[d])),
         calm' /\ RuleSolo(c) => (RuleSolo(c))'
  PROVE  RuleCalm'
<1>1. CASE ~calm'
  BY <1>1 DEF RuleCalm
<1>2. CASE calm'
  <2>1. (RuleSolo(c))'
    BY <1>2, RuleAlone
  <2> QED
    BY <2>1, SoloIsRuleCalm, PTL
<1> QED
  BY <1>1, <1>2

LEMMA RuleSoloAfter ==
  ASSUME RuleTyped, NEW c \in Calls, NEW r, itsCall' = [itsCall EXCEPT ![c] = r], RuleSolo(c),
         (RulesRead(r))', (RulesOf(shown, total, page))' \/ RulesDue(r)
  PROVE  (RuleSolo(c))'
<1>1. itsCall'[c] = r /\ \A d \in Calls \ {c} : itsCall'[d] = itsCall[d]
  BY SlotReplaced DEF RuleTyped, RuleCalls
<1>2. \A d \in Calls : (Handles(itsCall[d]))' => d = c
  BY <1>1 DEF RuleSolo, Handles
<1>3. (RulesRead(itsCall[c]))'
  BY <1>1 DEF RulesRead, RulesOf, Handles
<1>4. (RulesOf(shown, total, page) \/ RulesDue(itsCall[c]))'
  BY <1>1 DEF RulesDue
<1> QED
  BY <1>2, <1>3, <1>4 DEF RuleSolo

\* A load of targets runs beside the handlers.
LEMMA AsideIsCalm ==
  ASSUME RuleTyped, RuleCalm, NEW c \in Calls, NEW r, itsCall' = [itsCall EXCEPT ![c] = r],
         ~Handles(itsCall[c]), r.req \in {"none", "targets"}, r.at = "idle" \/ r.req = "targets",
         UNCHANGED <<rules, shown, page, total>>, calm' => calm
  PROVE  RuleCalm'
<1>1. itsCall'[c] = r /\ \A d \in Calls \ {c} : itsCall'[d] = itsCall[d]
  BY SlotReplaced DEF RuleTyped, RuleCalls
<1>2. CASE ~calm'
  BY <1>2 DEF RuleCalm
<1>3. CASE calm'
  <2>1. \A d \in Calls : (Handles(itsCall[d]))' => d # c /\ Handles(itsCall[d])
    BY <1>1 DEF Handles
  <2>2. \A d \in Calls : (RulesRead(itsCall[d]))'
    <3>1. ASSUME NEW d \in Calls \ {c} PROVE (RulesRead(itsCall[d]))'
      BY <1>1, <1>3 DEF RuleCalm, RulesRead, RulesOf, Handles
    <3>2. (RulesRead(itsCall[c]))'
      BY <1>1 DEF RulesRead, RulesOf, Handles
    <3> QED
      BY <3>1, <3>2
  <2>3. (RulesOf(shown, total, page) \/ \E d \in Calls : RulesDue(itsCall[d]))'
    <3>1. CASE RulesOf(shown, total, page)
      BY <3>1 DEF RulesOf
    <3>2. ASSUME NEW d \in Calls, RulesDue(itsCall[d]) PROVE (RulesDue(itsCall[d]))'
      <4>1. d # c
        BY <3>2, AsideSlots
      <4> QED
        BY <1>1, <3>2, <4>1 DEF RulesDue
    <3> QED
      BY <1>3, <3>1, <3>2 DEF RuleCalm
  <2> QED
    BY <1>3, <2>1, <2>2, <2>3 DEF RuleCalm
<1> QED
  BY <1>2, <1>3

-----------------------------------------------------------------------------
(* The rules: the dialog *)

\* A dialog that is on its way to be shown.
ModalOK(m) ==
  /\ m \in [open : BOOLEAN, editing : Things \cup {None}, form : Rule!Forms]
  /\ Fits(m.form)
  /\ m.open /\ m.editing # None => m.form.typed = m.editing

LEMMA RuleShows ==
  ASSUME RuleTyped, RuleCalm, NEW m, ModalOK(m), Rule!Shows(m)
  PROVE  RuleTyped' /\ RuleCalm'
<1>1. /\ modal' = m /\ Rule!Effect(m) /\ UNCHANGED <<rules, shown, page, total, options, fit, others>>
  BY Zenon DEF Rule!Shows
<1>2. (ModalOK(m))' /\ fit' = fit
  BY <1>1 DEF ModalOK, Fits
<1>3. /\ RuleModal /\ RuleStored
  BY DEF RuleTyped
<1>4. ASSUME starts' \in 0..MaxStarts, calm' \in BOOLEAN PROVE RuleStored'
  BY <1>1, <1>3, <1>4 DEF RuleStored, RuleList, Fits
<1>5. CASE m.open /\ (~modal.open \/ m.form.type # modal.form.type)
  <2>1. PICK c \in Rule!Free : itsCall' = [itsCall EXCEPT ![c] =
               [Rule!Idle EXCEPT !.at = "sent", !.req = "targets", !.body = m.form, !.flag = "targets"]]
    BY <1>1, <1>5, Zenon DEF Rule!Effect
  <2>2. starts < MaxStarts /\ starts' = starts + 1 /\ busy' = busy \cup {"targets"} /\ calm' = calm
    BY <1>1, <1>5, Zenon DEF Rule!Effect
  <2>3. PICK r : r = [Rule!Idle EXCEPT !.at = "sent", !.req = "targets", !.body = m.form, !.flag = "targets"]
    OBVIOUS
  <2>4. /\ DOMAIN r = {"at", "req", "id", "body", "flag", "page", "got", "total"} /\ r.at = "sent" /\ r.req = "targets"
        /\ r.body = m.form /\ r.flag = "targets" /\ r.page = 1
    BY <2>3 DEF Rule!Idle
  <2>5. c \in Calls /\ ~Under(c) /\ itsCall' = [itsCall EXCEPT ![c] = r]
    BY <2>1, <2>3 DEF Rule!Free, Rule!Busy, Under
  <2>6. starts' \in 0..MaxStarts /\ calm' \in BOOLEAN
    BY <1>3, <2>2, RuleAssumption DEF RuleStored, Rule!RulesBounds
  <2>7. RuleModal'
    BY <1>1, <1>2, <2>2 DEF RuleModal, ModalOK
  <2>8. (RuleRequest(r))'
    BY <2>4 DEF RuleRequest, ModalOK
  <2>9. RuleWaits(c, r)
    BY <2>2, <2>4, <2>5 DEF RuleWaits, RuleWaitsFor, Under
  <2>10. RuleTyped'
    BY <1>2, <1>4, <2>5, <2>6, <2>7, <2>8, <2>9, RuleTypedAfter
  <2>11. ~Handles(itsCall[c])
    BY <2>5 DEF Handles, Under
  <2> QED
    BY <1>1, <2>2, <2>4, <2>5, <2>10, <2>11, AsideIsCalm
<1>6. CASE ~(m.open /\ (~modal.open \/ m.form.type # modal.form.type))
  <2>1. UNCHANGED <<busy, itsCall, calm, starts>>
    BY <1>1, <1>6, Zenon DEF Rule!Effect
  <2>2. RuleModal'
    BY <1>1, <1>2, <1>3, <1>6, <2>1 DEF RuleModal, ModalOK
  <2>3. RuleStored'
    BY <1>3, <1>4, <2>1 DEF RuleStored
  <2>4. RuleCalls'
    BY <1>2, <2>1 DEF RuleTyped, RuleCalls, RuleRequest, RuleList, Fits
  <2>5. RuleButtons'
    BY <2>1 DEF RuleTyped, RuleButtons, Under
  <2>6. RuleCalm'
    BY <1>1, <2>1 DEF RuleCalm, Handles, RulesRead, RulesOf, RulesDue
  <2> QED
    BY <2>2, <2>3, <2>4, <2>5, <2>6 DEF RuleTyped
<1> QED
  BY <1>5, <1>6

\* The form of an open dialog is changed, not whose it is.
LEMMA RuleForms ==
  ASSUME RuleTyped, RuleCalm, NEW f, Fits(f), f.typed = modal.form.typed, Rule!Form(f)
  PROVE  RuleTyped' /\ RuleCalm'
<1>1. PICK m : m = [modal EXCEPT !.form = f]
  OBVIOUS
<1>2. modal.open /\ Rule!Shows(m)
  BY <1>1, Zenon DEF Rule!Form
<1>3. ModalOK(m)
  BY <1>1 DEF ModalOK, Fits, RuleTyped, RuleModal
<1> QED
  BY <1>2, <1>3, RuleShows

LEMMA RuleOpens ==
  ASSUME RuleTyped, RuleCalm
  PROVE  /\ Rule!handleOpenNewRule => RuleTyped' /\ RuleCalm'
         /\ \A n \in Things : Rule!handleEditRule(n) => RuleTyped' /\ RuleCalm'
         /\ Rule!Cancel => RuleTyped' /\ RuleCalm'
<1>1. ASSUME Rule!handleOpenNewRule PROVE RuleTyped' /\ RuleCalm'
  <2>1. PICK m : m = [open |-> TRUE, editing |-> None, form |-> Rule!Empty]
    OBVIOUS
  <2>2. ModalOK(m)
    BY <2>1, EmptyFits DEF ModalOK, Fits
  <2>3. Rule!Shows(m)
    BY <1>1, <2>1, Zenon DEF Rule!handleOpenNewRule
  <2> QED
    BY <2>2, <2>3, RuleShows
<1>2. ASSUME NEW n \in Things, Rule!handleEditRule(n) PROVE RuleTyped' /\ RuleCalm'
  <2>1. PICK m : m = [open |-> TRUE, editing |-> n, form |-> shown[n]]
    OBVIOUS
  <2>2. n \in DOMAIN shown /\ Rule!Shows(m)
    BY <1>2, <2>1, Zenon DEF Rule!handleEditRule
  <2>3. Fits(shown[n]) /\ shown[n].typed = n
    BY <2>2 DEF RuleTyped, RuleStored, RuleList
  <2>4. ModalOK(m)
    BY <2>1, <2>3 DEF ModalOK, Fits
  <2> QED
    BY <2>2, <2>4, RuleShows
<1>3. ASSUME Rule!Cancel PROVE RuleTyped' /\ RuleCalm'
  <2>1. PICK m : m = [modal EXCEPT !.open = FALSE, !.editing = None]
    OBVIOUS
  <2>2. Rule!Shows(m)
    BY <1>3, <2>1, Zenon DEF Rule!Cancel
  <2>3. ModalOK(m)
    BY <2>1 DEF ModalOK, RuleTyped, RuleModal
  <2> QED
    BY <2>2, <2>3, RuleShows
<1> QED
  BY <1>1, <1>2, <1>3

LEMMA RuleChoices ==
  ASSUME RuleTyped, RuleCalm
  PROVE  /\ \A x \in Rule!Conditions : Rule!ChooseCondition(x) => RuleTyped' /\ RuleCalm'
         /\ \A ty \in Rule!Kinds : Rule!ChooseType(ty) => RuleTyped' /\ RuleCalm'
         /\ \A x \in Rule!Kinds \cup {None} : Rule!ChooseTarget(x) => RuleTyped' /\ RuleCalm'
<1>1. PICK form \in Rule!Forms : form = modal.form
  BY DEF RuleTyped, RuleModal
<1>2. Fits(form)
  BY <1>1 DEF RuleTyped, RuleModal
<1>3. ASSUME NEW x \in Rule!Conditions, Rule!ChooseCondition(x) PROVE RuleTyped' /\ RuleCalm'
  <2>1. PICK f : f = IF form.type \in Rule!TargetTypes(x) THEN [form EXCEPT !.condition = x]
                     ELSE [form EXCEPT !.condition = x, !.type = Rule!FirstOf(x), !.target = None]
    OBVIOUS
  <2>2. Rule!Form(f)
    BY <1>1, <1>3, <2>1 DEF Rule!ChooseCondition
  <2>3. Fits(f) /\ f.typed = form.typed
    BY <1>2, <2>1, RuleKinds DEF Fits, Rule!Forms
  <2> QED
    BY <1>1, <2>2, <2>3, RuleForms
<1>4. ASSUME NEW ty \in Rule!Kinds, Rule!ChooseType(ty) PROVE RuleTyped' /\ RuleCalm'
  <2>1. PICK f : f = [form EXCEPT !.type = ty, !.target = None]
    OBVIOUS
  <2>2. Rule!Form(f) /\ ty \in Rule!TargetTypes(form.condition)
    BY <1>1, <1>4, <2>1 DEF Rule!ChooseType
  <2>3. Fits(f) /\ f.typed = form.typed
    BY <1>2, <2>1, <2>2 DEF Fits, Rule!Forms
  <2> QED
    BY <1>1, <2>2, <2>3, RuleForms
<1>5. ASSUME NEW x \in Rule!Kinds \cup {None}, Rule!ChooseTarget(x) PROVE RuleTyped' /\ RuleCalm'
  <2>1. PICK f : f = [form EXCEPT !.target = x]
    OBVIOUS
  <2>2. Rule!Form(f) /\ "targets" \notin busy /\ x \in options \cup {None}
    BY <1>1, <1>5, <2>1 DEF Rule!ChooseTarget
  <2>3. modal.open
    BY <2>2 DEF Rule!Form
  <2>4. fit => x \in {form.type, None}
    BY <1>1, <2>2, <2>3 DEF RuleTyped, RuleModal
  <2>5. Fits(f) /\ f.typed = form.typed
    BY <1>2, <2>1, <2>4 DEF Fits, Rule!Forms
  <2> QED
    BY <1>1, <2>2, <2>5, RuleForms
<1> QED
  BY <1>3, <1>4, <1>5

-----------------------------------------------------------------------------
(* The rules: the handlers *)

LEMMA RuleStarts ==
  ASSUME RuleTyped, RuleCalm, NEW c \in Calls, NEW kind \in {"create", "update", "delete"},
         NEW n, NEW body, NEW flag, flag = IF kind = "delete" THEN "delete" ELSE "save",
         Rule!Start(c, kind, n, body), busy' = busy \cup {flag},
         kind # "delete" => n \in Things /\ Fits(body),
         kind = "update" => body.typed = n
  PROVE  RuleTyped' /\ RuleCalm'
<1>1. PICK r : r = [Rule!Idle EXCEPT !.at = "sent", !.req = kind, !.id = n, !.body = body, !.flag = flag,
                                 !.page = page]
  OBVIOUS
<1>2. /\ DOMAIN r = {"at", "req", "id", "body", "flag", "page", "got", "total"} /\ r.at = "sent" /\ r.req = kind
      /\ r.id = n /\ r.body = body /\ r.flag = flag /\ r.page = page
  BY <1>1 DEF Rule!Idle
<1>3. /\ itsCall' = [itsCall EXCEPT ![c] = r] /\ c \in Rule!Free /\ starts < MaxStarts
      /\ starts' = starts + 1 /\ calm' = (calm /\ \A d \in Rule!Busy : itsCall[d].req = "targets")
      /\ UNCHANGED <<rules, shown, page, total, modal, options, fit, others>>
  BY <1>1 DEF Rule!Start, Rule!Alone
<1>4. ~Under(c)
  BY <1>3 DEF Rule!Free, Rule!Busy, Under
<1>5. RuleTyped'
  <2>1. RuleStored'
    <3>1. starts' \in 0..MaxStarts
      BY <1>3, RuleAssumption DEF RuleTyped, RuleStored, Rule!RulesBounds
    <3>2. calm' \in BOOLEAN
      BY <1>3
    <3> QED
      BY <1>3, <3>1, <3>2 DEF RuleTyped, RuleStored, RuleList, Fits
  <2>2. RuleModal'
    BY <1>3 DEF RuleTyped, RuleModal, Fits
  <2>3. (RuleRequest(r))'
    BY <1>2, <1>3 DEF RuleRequest, Fits, RuleTyped, RuleStored
  <2>4. RuleWaits(c, r)
    BY <1>2, <1>4 DEF RuleWaits, RuleWaitsFor, Under
  <2> QED
    BY <1>3, <2>1, <2>2, <2>3, <2>4, RuleTypedAfter
<1>6. ASSUME RuleSolo(c) PROVE (RuleSolo(c))'
  <2>1. (RulesRead(r))'
    BY <1>2, <1>3 DEF RulesRead, RulesOf, Handles
  <2>2. ~RulesDue(itsCall[c])
    BY <1>4, AsideSlots DEF Handles, Under
  <2> QED
    BY <1>3, <1>6, <2>1, <2>2, RuleSoloAfter DEF RuleSolo, RulesOf
<1>7. calm' => calm /\ \A d \in Calls : ~Handles(itsCall[d])
  BY <1>3 DEF Handles, Rule!Busy
<1> QED
  BY <1>5, <1>6, <1>7, RuleCalmAfter

LEMMA SaveRuleKeeps ==
  ASSUME RuleTyped, RuleCalm, NEW c \in Calls, Rule!handleSaveRule(c)
  PROVE  RuleTyped' /\ RuleCalm'
<1>1. PICK body : body = modal.form
  OBVIOUS
<1>2. PICK flag : flag = "save"
  OBVIOUS
<1>3. modal.open /\ busy' = busy \cup {flag}
  BY <1>2, Zenon DEF Rule!handleSaveRule
<1>4. Fits(body) /\ modal.editing \in Things \cup {None}
      /\ (modal.editing # None => body.typed = modal.editing)
  BY <1>1, <1>3 DEF RuleTyped, RuleModal
<1>5. CASE modal.editing = None
  <2>1. PICK n \in Things : Rule!Start(c, "create", n, body)
    BY <1>1, <1>5, Zenon DEF Rule!handleSaveRule, Rule!Newer
  <2>2. PICK kind \in {"create", "update", "delete"} : kind = "create"
    OBVIOUS
  <2> QED
    BY <1>2, <1>3, <1>4, <2>1, <2>2, RuleStarts
<1>6. CASE modal.editing # None
  <2>1. PICK n : n = modal.editing
    OBVIOUS
  <2>2. PICK kind \in {"create", "update", "delete"} : kind = "update"
    OBVIOUS
  <2>3. Rule!Start(c, kind, n, body)
    BY <1>1, <1>6, <2>1, <2>2, Zenon DEF Rule!handleSaveRule
  <2> QED
    BY <1>2, <1>3, <1>4, <1>6, <2>1, <2>2, <2>3, RuleStarts
<1> QED
  BY <1>5, <1>6

LEMMA DeleteRuleStarts ==
  ASSUME RuleTyped, RuleCalm, NEW c \in Calls, Rule!handleDeleteRule(c)
  PROVE  RuleTyped' /\ RuleCalm'
<1>1. PICK n \in DOMAIN shown : Rule!Start(c, "delete", n, Rule!Empty)
  BY Zenon DEF Rule!handleDeleteRule
<1>2. PICK flag : flag = "delete"
  OBVIOUS
<1>3. busy' = busy \cup {flag}
  BY <1>2, Zenon DEF Rule!handleDeleteRule
<1>4. PICK kind \in {"create", "update", "delete"} : kind = "delete"
  OBVIOUS
<1>5. PICK body : body = Rule!Empty
  OBVIOUS
<1> QED
  BY <1>1, <1>2, <1>3, <1>4, <1>5, RuleStarts

-----------------------------------------------------------------------------
(* The rules: the API *)

RuleApi == UNCHANGED <<shown, page, total, modal, options, busy, fit, starts, others>>

\* A request that is answered, and what it has done to the store.
LEMMA RuleAnswers ==
  ASSUME RuleTyped, RuleCalm, NEW c \in Calls, Handles(itsCall[c]), NEW r,
         itsCall' = [itsCall EXCEPT ![c] = r],
         DOMAIN r = DOMAIN itsCall[c], r.at \in {"good", "bad"}, r.req = itsCall[c].req,
         r.id = itsCall[c].id, r.body = itsCall[c].body, r.flag = itsCall[c].flag,
         r.page = itsCall[c].page,
         RuleApi, RuleList(rules'), calm' \in BOOLEAN, calm' => calm,
         r.req = "list" /\ r.at = "good" =>
           RulesOf(r.got, r.total, itsCall[c].page) /\ rules' = rules,
         calm' => /\ r.req = "list" => r.at = "good"
                  /\ r.at = "bad" => itsCall[c].at = "sent" /\ rules' = rules
  PROVE  RuleTyped' /\ RuleCalm'
<1>1. RuleRequest(itsCall[c]) /\ RuleList(rules)
  BY DEF RuleTyped, RuleCalls, RuleStored
<1>2. RuleRequest(r) /\ r.req \notin {"none", "targets"}
  <2>1. r.req = "list" /\ r.at = "good" => RuleList(r.got) /\ r.total \in 0..Rule!Cardinality(Things)
    BY <1>1, RowsOfRules DEF RuleRequest, RulesOf
  <2> QED
    BY <1>1, <2>1 DEF RuleRequest, Handles
<1>3. (RuleRequest(r))'
  <2>1. (Fits(r.body) => (Fits(r.body))') /\ (RuleList(r.got) => (RuleList(r.got))')
    BY FitsStill DEF RuleApi
  <2> QED
    BY <1>2, <2>1 DEF RuleRequest
<1>4. RuleTyped'
  <2>1. RuleStored'
    BY DEF RuleTyped, RuleStored, RuleApi, RuleList, Fits
  <2>2. RuleModal'
    BY DEF RuleTyped, RuleModal, RuleApi, Fits
  <2>3. RuleWaits(c, r)
    BY DEF RuleWaits, RuleWaitsFor, RuleApi
  <2>4. fit' => fit
    BY DEF RuleApi
  <2> QED
    BY <1>3, <2>1, <2>2, <2>3, <2>4, RuleTypedAfter
<1>5. ASSUME calm', RuleSolo(c) PROVE (RuleSolo(c))'
  <2>1. itsCall[c].page = page
    BY <1>5 DEF RuleSolo, RulesRead
  <2>3. (RulesRead(r))'
    BY <1>5, <2>1 DEF RulesRead, RulesOf, Handles, RuleApi
  <2>2. (RulesOf(shown, total, page))' \/ RulesDue(r)
    <3>1. CASE r.at = "good"
      BY <1>2, <3>1 DEF RulesDue, RuleRequest
    <3>2. CASE r.at = "bad"
      BY <1>5, <3>2 DEF RulesDue, RuleSolo, RuleApi, RulesOf
    <3> QED
      BY <3>1, <3>2
  <2> QED
    BY <1>5, <2>2, <2>3, RuleSoloAfter
<1> QED
  BY <1>4, <1>5, RuleCalmAfter

LEMMA RuleGoes ==
  ASSUME RuleTyped, NEW c \in Calls, NEW at, Rule!Go(c, at), NEW r, r = [itsCall[c] EXCEPT !.at = at]
  PROVE  /\ itsCall' = [itsCall EXCEPT ![c] = r] /\ r.at = at /\ DOMAIN r = DOMAIN itsCall[c]
         /\ r.req = itsCall[c].req /\ r.id = itsCall[c].id /\ r.body = itsCall[c].body
         /\ r.flag = itsCall[c].flag /\ r.page = itsCall[c].page
BY DEF RuleTyped, RuleCalls, RuleRequest, Rule!Go

\* A write to one rule keeps the list.
LEMMA WithFits ==
  ASSUME RuleList(rules), NEW n \in Things, NEW f, Fits(f), f.typed = n
  PROVE  RuleList(Rule!With(rules, n, f))
BY DEF RuleList, Rule!With

LEMMA CreateRuleKeeps ==
  ASSUME RuleTyped, RuleCalm, NEW c \in Calls, Rule!createRule(c)
  PROVE  RuleTyped' /\ RuleCalm'
<1>1. PICK at \in {"good", "bad"} : at = "good"
  OBVIOUS
<1>2. PICK f : f = [itsCall[c].body EXCEPT !.typed = itsCall[c].id]
  OBVIOUS
<1>3. /\ itsCall[c].at = "sent" /\ itsCall[c].req = "create" /\ Rule!Go(c, at)
      /\ rules' = Rule!With(rules, itsCall[c].id, f) /\ RuleApi /\ UNCHANGED calm
  BY <1>1, <1>2 DEF Rule!createRule, Rule!At, Rule!ApiUnchanged, RuleApi
<1>4. PICK r : r = [itsCall[c] EXCEPT !.at = at]
  OBVIOUS
<1>5. /\ itsCall' = [itsCall EXCEPT ![c] = r] /\ r.at = at /\ DOMAIN r = DOMAIN itsCall[c]
      /\ r.req = itsCall[c].req /\ r.id = itsCall[c].id /\ r.body = itsCall[c].body
      /\ r.flag = itsCall[c].flag /\ r.page = itsCall[c].page
  BY <1>3, <1>4, RuleGoes
<1>6. RuleRequest(itsCall[c]) /\ Handles(itsCall[c]) /\ RuleList(rules) /\ calm \in BOOLEAN
  BY <1>3 DEF RuleTyped, RuleCalls, RuleStored, Handles
<1>7. itsCall[c].id \in Things /\ Fits(itsCall[c].body)
  BY <1>3, <1>6 DEF RuleRequest
<1>8. Fits(f) /\ f.typed = itsCall[c].id
  BY <1>2, <1>7 DEF Fits, Rule!Forms
<1>9. RuleList(rules')
  <2>1. PICK n \in Things : n = itsCall[c].id
    BY <1>7
  <2> QED
    BY <1>3, <1>6, <1>8, <2>1, WithFits
<1> QED
  BY <1>1, <1>3, <1>5, <1>6, <1>9, RuleAnswers

LEMMA UpdateRuleKeeps ==
  ASSUME RuleTyped, RuleCalm, NEW c \in Calls, Rule!updateRule(c)
  PROVE  RuleTyped' /\ RuleCalm'
<1>1. PICK ok \in BOOLEAN : ok <=> itsCall[c].id \in DOMAIN rules /\ itsCall[c].body.target # None
  OBVIOUS
<1>2. PICK at \in {"good", "bad"} : at = IF ok THEN "good" ELSE "bad"
  OBVIOUS
<1>3. /\ itsCall[c].at = "sent" /\ itsCall[c].req = "update" /\ Rule!Go(c, at)
      /\ ok => rules' = Rule!With(rules, itsCall[c].id, itsCall[c].body)
      /\ ~ok => rules' = rules
      /\ RuleApi /\ UNCHANGED calm
  BY <1>1, <1>2 DEF Rule!updateRule, Rule!At, Rule!ApiUnchanged, RuleApi
<1>4. PICK r : r = [itsCall[c] EXCEPT !.at = at]
  OBVIOUS
<1>5. /\ itsCall' = [itsCall EXCEPT ![c] = r] /\ r.at = at /\ DOMAIN r = DOMAIN itsCall[c]
      /\ r.req = itsCall[c].req /\ r.id = itsCall[c].id /\ r.body = itsCall[c].body
      /\ r.flag = itsCall[c].flag /\ r.page = itsCall[c].page
  BY <1>3, <1>4, RuleGoes
<1>6. RuleRequest(itsCall[c]) /\ Handles(itsCall[c]) /\ RuleList(rules) /\ calm \in BOOLEAN
  BY <1>3 DEF RuleTyped, RuleCalls, RuleStored, Handles
<1>7. itsCall[c].id \in Things /\ Fits(itsCall[c].body) /\ itsCall[c].body.typed = itsCall[c].id
  BY <1>3, <1>6 DEF RuleRequest
<1>8. RuleList(rules')
  <2>1. PICK n \in Things : n = itsCall[c].id
    BY <1>7
  <2>2. PICK f : f = itsCall[c].body
    OBVIOUS
  <2> QED
    BY <1>3, <1>6, <1>7, <2>1, <2>2, WithFits
<1>9. at = "bad" => rules' = rules
  BY <1>2, <1>3
<1> QED
  BY <1>2, <1>3, <1>5, <1>6, <1>8, <1>9, RuleAnswers

LEMMA DeleteRuleKeeps ==
  ASSUME RuleTyped, RuleCalm, NEW c \in Calls, Rule!deleteRule(c)
  PROVE  RuleTyped' /\ RuleCalm'
<1>1. PICK at \in {"good", "bad"} : at = IF itsCall[c].id \in DOMAIN rules THEN "good" ELSE "bad"
  OBVIOUS
<1>2. /\ itsCall[c].at = "sent" /\ itsCall[c].req = "delete" /\ Rule!Go(c, at)
      /\ rules' = [k \in DOMAIN rules \ {itsCall[c].id} |-> rules[k]]
      /\ RuleApi /\ UNCHANGED calm
  BY <1>1 DEF Rule!deleteRule, Rule!At, Rule!ApiUnchanged, RuleApi
<1>3. PICK r : r = [itsCall[c] EXCEPT !.at = at]
  OBVIOUS
<1>4. /\ itsCall' = [itsCall EXCEPT ![c] = r] /\ r.at = at /\ DOMAIN r = DOMAIN itsCall[c]
      /\ r.req = itsCall[c].req /\ r.id = itsCall[c].id /\ r.body = itsCall[c].body
      /\ r.flag = itsCall[c].flag /\ r.page = itsCall[c].page
  BY <1>2, <1>3, RuleGoes
<1>5. Handles(itsCall[c]) /\ RuleList(rules) /\ calm \in BOOLEAN
  BY <1>2 DEF RuleTyped, RuleStored, Handles
<1>6. RuleList(rules')
  BY <1>2, <1>5 DEF RuleList
<1>7. at = "bad" => rules' = rules
  BY <1>1, <1>2, <1>5 DEF RuleList
<1>8. itsCall[c].at = "sent" /\ itsCall[c].req = "delete" /\ RuleApi /\ UNCHANGED calm
  BY <1>2
<1> QED
  BY <1>1, <1>4, <1>5, <1>6, <1>7, <1>8, RuleAnswers

LEMMA FindAllRulesKeeps ==
  ASSUME RuleTyped, RuleCalm, NEW c \in Calls, Rule!findAllRules(c)
  PROVE  RuleTyped' /\ RuleCalm'
<1>1. PICK r : r = [itsCall[c] EXCEPT !.at = "good", !.got = Rule!Rows(rules, itsCall[c].page),
                                      !.total = Rule!Cardinality(DOMAIN rules)]
  OBVIOUS
<1>2. /\ itsCall[c].at = "sent" /\ itsCall[c].req = "list" /\ itsCall' = [itsCall EXCEPT ![c] = r]
      /\ RuleApi /\ UNCHANGED <<calm, rules>>
  BY <1>1 DEF Rule!findAllRules, Rule!At, Rule!ApiUnchanged, RuleApi
<1>3. /\ r.at = "good" /\ DOMAIN r = DOMAIN itsCall[c]
      /\ RulesOf(r.got, r.total, itsCall[c].page)
      /\ r.req = itsCall[c].req /\ r.id = itsCall[c].id /\ r.body = itsCall[c].body
      /\ r.flag = itsCall[c].flag /\ r.page = itsCall[c].page
  BY <1>1 DEF RuleTyped, RuleCalls, RuleRequest, RulesOf
<1>4. Handles(itsCall[c]) /\ RuleList(rules) /\ calm \in BOOLEAN
  BY <1>2 DEF RuleTyped, RuleStored, Handles
<1>5. RuleList(rules')
  BY <1>2, <1>4
<1> QED
  BY <1>2, <1>3, <1>4, <1>5, RuleAnswers

\* A load of targets is answered, or fails.
LEMMA FindTargetsKeeps ==
  ASSUME RuleTyped, RuleCalm, NEW c \in Calls, itsCall[c].req = "targets", NEW at \in {"good", "bad"},
         Rule!Go(c, at), RuleApi, UNCHANGED rules, calm' \in BOOLEAN, calm' => calm
  PROVE  RuleTyped' /\ RuleCalm'
<1>1. PICK r : r = [itsCall[c] EXCEPT !.at = at]
  OBVIOUS
<1>2. /\ itsCall' = [itsCall EXCEPT ![c] = r] /\ r.at = at /\ DOMAIN r = DOMAIN itsCall[c]
      /\ r.req = itsCall[c].req /\ r.id = itsCall[c].id /\ r.body = itsCall[c].body
      /\ r.flag = itsCall[c].flag /\ r.page = itsCall[c].page
  BY <1>1, RuleGoes
<1>3. RuleRequest(itsCall[c])
  BY DEF RuleTyped, RuleCalls
<1>4. (RuleRequest(r))'
  BY <1>2, <1>3 DEF RuleRequest
<1>5. RuleTyped'
  <2>1. RuleStored'
    BY DEF RuleTyped, RuleStored, RuleApi, RuleList, Fits
  <2>2. RuleModal'
    BY DEF RuleTyped, RuleModal, RuleApi, Fits
  <2>3. RuleWaits(c, r)
    BY <1>2 DEF RuleWaits, RuleWaitsFor, RuleApi
  <2>4. fit' => fit
    BY DEF RuleApi
  <2> QED
    BY <1>2, <1>4, <2>1, <2>2, <2>3, <2>4, RuleTypedAfter
<1>6. ~Handles(itsCall[c])
  BY DEF Handles
<1> QED
  BY <1>2, <1>5, <1>6, AsideIsCalm DEF RuleApi

LEMMA RuleFailsKeeps ==
  ASSUME RuleTyped, RuleCalm, NEW c \in Calls, Rule!Fails(c)
  PROVE  RuleTyped' /\ RuleCalm'
<1>1. PICK at \in {"good", "bad"} : at = "bad"
  OBVIOUS
<1>2. /\ itsCall[c].at \in {"sent", "good"} /\ Rule!Go(c, at) /\ calm' = FALSE /\ RuleApi /\ UNCHANGED rules
  BY <1>1 DEF Rule!Fails, RuleApi
<1>3. CASE itsCall[c].req = "targets"
  BY <1>2, <1>3, FindTargetsKeeps
<1>4. CASE itsCall[c].req # "targets"
  <2>1. PICK r : r = [itsCall[c] EXCEPT !.at = at]
    OBVIOUS
  <2>2. /\ itsCall' = [itsCall EXCEPT ![c] = r] /\ r.at = at /\ DOMAIN r = DOMAIN itsCall[c]
        /\ r.req = itsCall[c].req /\ r.id = itsCall[c].id /\ r.body = itsCall[c].body
        /\ r.flag = itsCall[c].flag /\ r.page = itsCall[c].page
    BY <1>2, <2>1, RuleGoes
  <2>3. Handles(itsCall[c]) /\ RuleList(rules')
    BY <1>2, <1>4 DEF RuleTyped, RuleStored, Handles
  <2> QED
    BY <1>1, <1>2, <2>2, <2>3, RuleAnswers
<1> QED
  BY <1>3, <1>4

LEMMA RuleServes ==
  ASSUME RuleTyped, RuleCalm, NEW c \in Calls, Rule!Serve(c)
  PROVE  RuleTyped' /\ RuleCalm'
<1>1. ASSUME Rule!findTargets(c) PROVE RuleTyped' /\ RuleCalm'
  <2>1. PICK at \in {"good", "bad"} : at = "good"
    OBVIOUS
  <2>2. /\ itsCall[c].req = "targets" /\ Rule!Go(c, at) /\ RuleApi /\ UNCHANGED <<calm, rules>>
    BY <1>1, <2>1 DEF Rule!findTargets, Rule!At, Rule!ApiUnchanged, RuleApi
  <2>3. calm \in BOOLEAN
    BY DEF RuleTyped, RuleStored
  <2> QED
    BY <2>2, <2>3, FindTargetsKeeps
<1> QED
  BY <1>1, CreateRuleKeeps, UpdateRuleKeeps, DeleteRuleKeeps, FindAllRulesKeeps, RuleFailsKeeps, Zenon
  DEF Rule!Serve

LEMMA RuleOthers ==
  ASSUME RuleTyped, RuleCalm, Rule!OtherWindow
  PROVE  RuleTyped' /\ RuleCalm'
<1>1. /\ others < MaxOthers /\ others' = others + 1 /\ calm' = FALSE
      /\ UNCHANGED <<shown, page, total, modal, options, busy, itsCall, fit, starts>>
  BY Zenon DEF Rule!OtherWindow
<1>2. PICK n \in DOMAIN rules : rules' = [k \in DOMAIN rules \ {n} |-> rules[k]]
  BY Zenon DEF Rule!OtherWindow
<1>3. RuleTyped'
  <2>1. RuleStored'
    <3>1. others' \in 0..MaxOthers
      BY <1>1, RuleAssumption DEF RuleTyped, RuleStored, Rule!RulesBounds
    <3>2. (RuleList(rules))'
      BY <1>1, <1>2 DEF RuleTyped, RuleStored, RuleList, Fits
    <3>3. (RuleList(shown))'
      BY <1>1 DEF RuleTyped, RuleStored, RuleList, Fits
    <3> QED
      BY <1>1, <3>1, <3>2, <3>3 DEF RuleTyped, RuleStored
  <2>2. RuleModal'
    BY <1>1 DEF RuleTyped, RuleModal, Fits
  <2>3. RuleCalls'
    BY <1>1 DEF RuleTyped, RuleCalls, RuleRequest, RuleList, Fits
  <2>4. RuleButtons'
    BY <1>1 DEF RuleTyped, RuleButtons, Under
  <2> QED
    BY <2>1, <2>2, <2>3, <2>4 DEF RuleTyped
<1> QED
  BY <1>1, <1>3 DEF RuleCalm

-----------------------------------------------------------------------------
(* The rules meet an answer *)

LEMMA IdleRule ==
  ASSUME NEW r, r = Rule!Idle
  PROVE  r.at = "idle" /\ r.req = "none" /\ (RuleRequest(r))'
BY DEF Rule!Idle, RuleRequest

\* Another page is read, with the number that the page has by then.
LEMMA RuleTurns ==
  ASSUME RuleTyped, RuleCalm, NEW c \in Calls, Rule!Turn(c)
  PROVE  RuleTyped' /\ RuleCalm'
<1>1. PICK p \in {page - 1, page + 1} \cap 1..(IF page < Rule!Pages THEN page + 1 ELSE page) :
        /\ page' = p
        /\ itsCall' = [itsCall EXCEPT ![c] = [Rule!Idle EXCEPT !.at = "sent", !.req = "list", !.page = p]]
  BY Zenon DEF Rule!Turn
<1>2. PICK r : r = [Rule!Idle EXCEPT !.at = "sent", !.req = "list", !.page = p]
  OBVIOUS
<1>3. /\ DOMAIN r = {"at", "req", "id", "body", "flag", "page", "got", "total"} /\ r.at = "sent"
      /\ r.req = "list" /\ r.flag = "none" /\ r.page = p
  BY <1>2 DEF Rule!Idle
<1>4. /\ itsCall' = [itsCall EXCEPT ![c] = r] /\ c \in Rule!Free /\ starts < MaxStarts
      /\ starts' = starts + 1 /\ busy' = busy \cup {"rules"}
      /\ calm' = (calm /\ \A d \in Rule!Busy : itsCall[d].req = "targets")
      /\ UNCHANGED <<rules, shown, total, modal, options, fit, others>>
  BY <1>1, <1>2 DEF Rule!Turn, Rule!Alone
<1>5. ~Under(c)
  BY <1>4 DEF Rule!Free, Rule!Busy, Under
<1>6. p \in Nat \ {0}
  <2>1. page \in Nat /\ p \in {page - 1, page + 1}
    BY <1>1 DEF RuleTyped, RuleStored
  <2>2. \A q : p \in 1..q => p >= 1
    OBVIOUS
  <2> QED
    BY <1>1, <2>1, <2>2
<1>7. RuleTyped'
  <2>1. RuleStored'
    <3>1. starts' \in 0..MaxStarts
      BY <1>4, RuleAssumption DEF RuleTyped, RuleStored, Rule!RulesBounds
    <3>2. calm' \in BOOLEAN
      BY <1>4
    <3> QED
      BY <1>1, <1>4, <1>6, <3>1, <3>2 DEF RuleTyped, RuleStored, RuleList, Fits
  <2>2. RuleModal'
    BY <1>4 DEF RuleTyped, RuleModal, Fits
  <2>3. (RuleRequest(r))'
    BY <1>3, <1>6 DEF RuleRequest
  <2>4. RuleWaits(c, r)
    BY <1>3, <1>4, <1>5 DEF RuleWaits, RuleWaitsFor, Under
  <2> QED
    BY <1>4, <2>1, <2>2, <2>3, <2>4, RuleTypedAfter
<1>8. ASSUME RuleSolo(c) PROVE (RuleSolo(c))'
  <2>1. (RulesRead(r))' /\ RulesDue(r)
    BY <1>1, <1>3 DEF RulesRead, RulesOf, Handles, RulesDue
  <2> QED
    BY <1>4, <1>8, <2>1, RuleSoloAfter
<1>9. calm' => calm /\ \A d \in Calls : ~Handles(itsCall[d])
  BY <1>4 DEF Handles, Rule!Busy
<1> QED
  BY <1>4, <1>7, <1>8, <1>9, RuleCalmAfter

\* What loads of targets say of a form is dropped once one fails or is overtaken.
LEMMA LoadTargetsKeeps ==
  ASSUME RuleTyped, RuleCalm, NEW c \in Calls, Rule!loadTargets(c)
  PROVE  RuleTyped' /\ RuleCalm'
<1>1. PICK r : r = Rule!Idle
  OBVIOUS
<1>2. /\ itsCall[c].req = "targets" /\ itsCall[c].at \in {"good", "bad"}
      /\ options' = IF itsCall[c].at = "good" THEN {itsCall[c].body.type} ELSE options
      /\ fit' = (fit /\ itsCall[c].at = "good" /\ itsCall[c].body.type = modal.form.type)
      /\ busy' = busy \ {"targets"} /\ itsCall' = [itsCall EXCEPT ![c] = r]
      /\ UNCHANGED <<rules, shown, page, total, modal, calm, starts, others>>
  BY <1>1 DEF Rule!loadTargets
<1>3. r.at = "idle" /\ r.req = "none" /\ (RuleRequest(r))'
  BY <1>1, IdleRule
<1>4. RuleRequest(itsCall[c])
  BY DEF RuleTyped, RuleCalls
<1>5. itsCall[c].body \in Rule!Forms /\ itsCall[c].flag = "targets"
  BY <1>2, <1>4 DEF RuleRequest
<1>6. fit' => fit /\ options' = {modal.form.type}
  BY <1>2
<1>7. RuleStored'
  <2>1. options' \subseteq Rule!Kinds /\ fit' \in BOOLEAN
    BY <1>2, <1>5 DEF RuleTyped, RuleStored, Rule!Forms
  <2>2. (RuleList(rules))' /\ (RuleList(shown))'
    BY <1>2, <1>6 DEF RuleTyped, RuleStored, RuleList, Fits
  <2> QED
    BY <1>2, <2>1, <2>2 DEF RuleTyped, RuleStored
<1>8. RuleModal'
  BY <1>2, <1>6 DEF RuleTyped, RuleModal, Fits
<1>9. RuleWaits(c, r)
  BY <1>2, <1>5 DEF RuleWaits, RuleWaitsFor
<1>10. RuleTyped'
  BY <1>2, <1>3, <1>6, <1>7, <1>8, <1>9, RuleTypedAfter
<1>11. ~Handles(itsCall[c])
  BY <1>2 DEF Handles
<1> QED
  BY <1>2, <1>3, <1>10, <1>11, AsideIsCalm

LEMMA RuleSavedKeeps ==
  ASSUME RuleTyped, RuleCalm, NEW c \in Calls, Rule!Saved(c)
  PROVE  RuleTyped' /\ RuleCalm'
<1>1. PICK r : r = [Rule!Idle EXCEPT !.at = "sent", !.req = "list", !.flag = itsCall[c].flag,
                                 !.page = itsCall[c].page]
  OBVIOUS
<1>2. /\ itsCall[c].at = "good" /\ itsCall[c].req \in {"create", "update", "delete"}
      /\ itsCall' = [itsCall EXCEPT ![c] = r] /\ busy' = busy \cup {"rules"}
      /\ UNCHANGED <<rules, shown, page, total, options, fit, calm, starts, others>>
  BY <1>1 DEF Rule!Saved
<1>3. /\ DOMAIN r = {"at", "req", "id", "body", "flag", "page", "got", "total"} /\ r.at = "sent" /\ r.req = "list"
      /\ r.flag = itsCall[c].flag /\ r.page = itsCall[c].page
  BY <1>1 DEF Rule!Idle
<1>4. RuleRequest(itsCall[c]) /\ Handles(itsCall[c])
  BY <1>2 DEF RuleTyped, RuleCalls, Handles
<1>5. RuleModal'
  <2>1. CASE modal' = modal
    BY <1>2, <2>1 DEF RuleTyped, RuleModal, Fits
  <2>2. CASE modal' = [open |-> FALSE, editing |-> None, form |-> Rule!Empty]
    BY <2>2, EmptyFits DEF RuleModal, Fits
  <2> QED
    BY <2>1, <2>2 DEF Rule!Saved
<1>6. RuleTyped'
  <2>1. RuleStored'
    BY <1>2 DEF RuleTyped, RuleStored, RuleList, Fits
  <2>2. (RuleRequest(r))'
    BY <1>2, <1>3, <1>4 DEF RuleRequest
  <2>3. RuleWaits(c, r)
    BY <1>2, <1>3 DEF RuleWaits, RuleWaitsFor
  <2> QED
    BY <1>2, <1>5, <2>1, <2>2, <2>3, RuleTypedAfter
<1>7. ASSUME RuleSolo(c) PROVE (RuleSolo(c))'
  <2>1. (RulesRead(r))' /\ RulesDue(r)
    BY <1>2, <1>3, <1>4, <1>7 DEF RuleSolo, RulesRead, RulesOf, Handles, RulesDue
  <2> QED
    BY <1>2, <1>7, <2>1, RuleSoloAfter
<1> QED
  BY <1>2, <1>4, <1>6, <1>7, RuleCalmAfter

LEMMA FetchRulesKeeps ==
  ASSUME RuleTyped, RuleCalm, NEW c \in Calls, Rule!fetchRules(c)
  PROVE  RuleTyped' /\ RuleCalm'
<1>1. PICK r : r = Rule!Idle
  OBVIOUS
<1>2. /\ itsCall[c].req = "list" /\ itsCall[c].at \in {"good", "bad"}
      /\ shown' = IF itsCall[c].at = "good" THEN itsCall[c].got ELSE shown
      /\ total' = IF itsCall[c].at = "good" THEN itsCall[c].total ELSE total
      /\ busy' = busy \ {itsCall[c].flag, "rules"} /\ itsCall' = [itsCall EXCEPT ![c] = r]
      /\ UNCHANGED <<rules, page, modal, options, fit, calm, starts, others>>
  BY <1>1 DEF Rule!fetchRules
<1>3. r.at = "idle" /\ r.req = "none" /\ (RuleRequest(r))'
  BY <1>1, IdleRule
<1>4. RuleRequest(itsCall[c]) /\ Handles(itsCall[c])
  BY <1>2 DEF RuleTyped, RuleCalls, Handles
<1>5. RuleTyped'
  <2>1. RuleStored'
    <3>1. (RuleList(shown))'
      <4>1. PICK f : f = shown'
        OBVIOUS
      <4>2. RuleList(f)
        BY <1>2, <1>4, <4>1 DEF RuleRequest, RuleTyped, RuleStored
      <4> QED
        BY <1>2, <4>1, <4>2 DEF RuleList, Fits
    <3>2. (RuleList(rules))'
      BY <1>2 DEF RuleTyped, RuleStored, RuleList, Fits
    <3>3. total' \in 0..Rule!Cardinality(Things)
      BY <1>2, <1>4 DEF RuleTyped, RuleStored, RuleRequest
    <3> QED
      BY <1>2, <3>1, <3>2, <3>3 DEF RuleTyped, RuleStored
  <2>2. RuleModal'
    BY <1>2, <1>4 DEF RuleTyped, RuleModal, Fits, RuleRequest
  <2>3. RuleWaits(c, r)
    BY <1>2 DEF RuleWaits, RuleWaitsFor
  <2> QED
    BY <1>2, <1>3, <2>1, <2>2, <2>3, RuleTypedAfter
<1>6. ASSUME RuleSolo(c) PROVE (RuleSolo(c))'
  <2>1. (RulesRead(r))'
    BY <1>3 DEF RulesRead, RulesOf, Handles
  <2>2. (RulesOf(shown, total, page))'
    BY <1>2, <1>6 DEF RuleSolo, RulesRead, RulesOf, Handles
  <2> QED
    BY <1>2, <1>6, <2>1, <2>2, RuleSoloAfter
<1> QED
  BY <1>2, <1>4, <1>5, <1>6, RuleCalmAfter

LEMMA RuleFailedKeeps ==
  ASSUME RuleTyped, RuleCalm, NEW c \in Calls, Rule!Failed(c)
  PROVE  RuleTyped' /\ RuleCalm'
<1>1. PICK r : r = Rule!Idle
  OBVIOUS
<1>2. /\ itsCall[c].at = "bad" /\ itsCall[c].req \in {"create", "update", "delete"}
      /\ busy' = busy \ {itsCall[c].flag} /\ itsCall' = [itsCall EXCEPT ![c] = r]
      /\ UNCHANGED <<rules, shown, page, total, modal, options, fit, calm, starts, others>>
  BY <1>1 DEF Rule!Failed
<1>3. r.at = "idle" /\ r.req = "none" /\ (RuleRequest(r))'
  BY <1>1, IdleRule
<1>4. RuleRequest(itsCall[c]) /\ Handles(itsCall[c])
  BY <1>2 DEF RuleTyped, RuleCalls, Handles
<1>5. RuleTyped'
  <2>1. RuleStored'
    BY <1>2 DEF RuleTyped, RuleStored, RuleList, Fits
  <2>2. RuleModal'
    BY <1>2, <1>4 DEF RuleTyped, RuleModal, Fits, RuleRequest
  <2>3. RuleWaits(c, r)
    BY <1>2 DEF RuleWaits, RuleWaitsFor
  <2> QED
    BY <1>2, <1>3, <2>1, <2>2, <2>3, RuleTypedAfter
<1>6. ASSUME RuleSolo(c) PROVE (RuleSolo(c))'
  <2>1. (RulesRead(r))'
    BY <1>3 DEF RulesRead, RulesOf, Handles
  <2>2. (RulesOf(shown, total, page))'
    BY <1>2, <1>6 DEF RuleSolo, RulesDue, RulesOf
  <2> QED
    BY <1>2, <1>6, <2>1, <2>2, RuleSoloAfter
<1> QED
  BY <1>2, <1>4, <1>5, <1>6, RuleCalmAfter

LEMMA RuleMet ==
  ASSUME RuleTyped, RuleCalm, NEW c \in Calls, Rule!Meet(c)
  PROVE  RuleTyped' /\ RuleCalm'
BY LoadTargetsKeeps, RuleSavedKeeps, FetchRulesKeeps, RuleFailedKeeps, Zenon DEF Rule!Meet

LEMMA RuleSteps ==
  ASSUME RuleTyped, RuleCalm, Rule!Next
  PROVE  RuleTyped' /\ RuleCalm'
<1>1. \A ty : ty \in Rule!Kinds => ty \in Rule!Kinds \cup {None}
  OBVIOUS
<1>2. None \in Rule!Kinds \cup {None}
  OBVIOUS
<1> QED
  BY <1>1, <1>2, SaveRuleKeeps, DeleteRuleStarts, RuleTurns, RuleServes, RuleMet, RuleOpens, RuleChoices, RuleOthers,
     Zenon DEF Rule!Next

LEMMA RuleBegins ==
  ASSUME Rule!Init
  PROVE  RuleTyped /\ RuleCalm
<1>0. PICK S \in SUBSET Things : \E x \in [S -> Rule!Conditions] :
        rules = [n \in S |-> [condition |-> x[n], type |-> Rule!FirstOf(x[n]), target |-> None, typed |-> n]]
  BY Zenon DEF Rule!Init
<1>1. PICK x \in [S -> Rule!Conditions] :
        rules = [n \in S |-> [condition |-> x[n], type |-> Rule!FirstOf(x[n]), target |-> None, typed |-> n]]
  BY <1>0
<1>2. PICK r : r = Rule!Idle
  OBVIOUS
<1>3. r.at = "idle" /\ r.req = "none" /\ RuleRequest(r)
  BY <1>2 DEF Rule!Idle, RuleRequest
<1>4. PICK m : m = [open |-> FALSE, editing |-> None, form |-> Rule!Empty]
  OBVIOUS
<1>5. /\ RulesOf(shown, total, page) /\ page = 1 /\ modal = m /\ options = {} /\ busy = {} /\ itsCall = [c \in Calls |-> r]
      /\ fit = TRUE /\ calm = TRUE /\ starts = 0 /\ others = 0
  BY <1>2, <1>4 DEF Rule!Init, RulesOf
<1>6. RuleList(rules)
  <2>1. ASSUME NEW n \in S
        PROVE  Fits([condition |-> x[n], type |-> Rule!FirstOf(x[n]), target |-> None, typed |-> n])
    <3>1. PICK y \in Rule!Conditions : y = x[n]
      OBVIOUS
    <3>2. Rule!FirstOf(y) \in Rule!TargetTypes(y) /\ Rule!FirstOf(y) \in Rule!Kinds
      BY RuleKinds
    <3> QED
      BY <3>1, <3>2 DEF Fits, Rule!Forms
  <2> QED
    BY <1>1, <2>1 DEF RuleList
<1>7. RuleStored
  <2>1. RuleList(shown) /\ total \in 0..Rule!Cardinality(Things)
    BY <1>5, <1>6, RowsOfRules
  <2> QED
    BY <1>5, <1>6, <2>1, RuleAssumption DEF RuleStored, Rule!RulesBounds
<1>8. RuleModal
  BY <1>4, <1>5, EmptyFits DEF RuleModal, Fits
<1>9. RuleTyped
  BY <1>3, <1>5, <1>7, <1>8 DEF RuleTyped, RuleCalls, RuleButtons
<1>10. RuleCalm
  BY <1>3, <1>5 DEF RuleCalm, Handles, RulesRead, RulesOf
<1> QED
  BY <1>9, <1>10

-----------------------------------------------------------------------------
(* The pages together *)

PagesInv == LocalInv /\ ListInv /\ RuleInv

\* A step of another module leaves a page alone.
LEMMA LocalStutters ==
  ASSUME LocalTyped, Late, LocalCalm,
         UNCHANGED <<itsLocal, networks, page, itsCall, late, calm, starts, others>>
  PROVE  LocalTyped' /\ Late' /\ LocalCalm'
BY DEF LocalTyped, LocalStored, LocalShape, Dialog, LocalCalls, LocalHandler, LocalButtons, Under, AsTyped,
       Late, LocalCalm, NetworksRead, NetworksDue, LocalDeleted

LEMMA ListStutters ==
  ASSUME ListTyped, ListCalm,
         UNCHANGED <<things, discovered, query, search, shown, total, loading, busy, itsCall, sure, calm,
                     clicks, others>>
  PROVE  ListTyped' /\ ListCalm'
<1>1. ListTyped'
  BY DEF ListTyped, ListStored, ListCalls, ListRequest, ListButtons, Under
<1>2. ListCalm'
  BY DEF Under, ListCalm, ListRead, ListDue, Page, Matches, List!Rows, List!Matching
<1> QED
  BY <1>1, <1>2

LEMMA RuleStutters ==
  ASSUME RuleTyped, RuleCalm,
         UNCHANGED <<rules, shown, page, total, modal, options, busy, itsCall, fit, calm, starts, others>>
  PROVE  RuleTyped' /\ RuleCalm'
<1>1. RuleStored' /\ RuleModal'
  BY DEF RuleTyped, RuleStored, RuleModal, RuleList, Fits
<1>2. RuleCalls' /\ RuleButtons'
  BY DEF RuleTyped, RuleCalls, RuleRequest, RuleButtons, RuleList, Fits, Under
<1>3. RuleCalm'
  BY DEF RuleCalm, Handles, RulesRead, RulesOf, RulesDue
<1> QED
  BY <1>1, <1>2, <1>3 DEF RuleTyped

LEMMA PagesInvariant == AllSpec => []PagesInv
<1>1. AllInit => PagesInv
  <2>1. AllInit => which \in {"Session", "Local", "List", "Rule"}
                   /\ (which = "Local" => Local!Init) /\ (which = "List" => List!Init)
                   /\ (which = "Rule" => Rule!Init)
    <3>1. ASSUME AllInit PROVE \/ which = "Session" \/ (which = "Local" /\ Local!Init)
                               \/ (which = "List" /\ List!Init) \/ (which = "Rule" /\ Rule!Init)
      BY <3>1, Zenon DEF AllInit
    <3> QED
      BY <3>1
  <2> QED
    BY <2>1, LocalBegins, ListBegins, RuleBegins DEF PagesInv, LocalInv, ListInv, RuleInv
<1>2. PagesInv /\ [AllNext]_allVars => PagesInv'
  <2> SUFFICES ASSUME PagesInv, [AllNext]_allVars PROVE PagesInv'
    OBVIOUS
  <2>1. UNCHANGED which
    BY Zenon DEF AllNext, allVars
  <2>2. ASSUME which = "Local" PROVE LocalTyped' /\ Late' /\ LocalCalm'
    <3>1. LocalTyped /\ Late /\ LocalCalm
      BY <2>2 DEF PagesInv, LocalInv
    <3>2. Local!Next \/ UNCHANGED <<itsLocal, networks, page, itsCall, late, calm, starts, others>>
      <4>1. "Local" # "Session" /\ "Local" # "List" /\ "Local" # "Rule"
        OBVIOUS
      <4> QED
        BY <2>2, <4>1, Zenon DEF AllNext, allVars
    <3> QED
      BY <3>1, <3>2, LocalSteps, LocalStutters, Zenon
  <2>3. ASSUME which = "List" PROVE ListTyped' /\ ListCalm'
    <3>1. ListTyped /\ ListCalm
      BY <2>3 DEF PagesInv, ListInv
    <3>2. List!Next \/ UNCHANGED <<things, discovered, query, search, shown, total, loading, busy, itsCall,
                                   sure, calm, clicks, others>>
      <4>1. "List" # "Session" /\ "List" # "Local" /\ "List" # "Rule"
        OBVIOUS
      <4> QED
        BY <2>3, <4>1, Zenon DEF AllNext, allVars
    <3> QED
      BY <3>1, <3>2, ListSteps, ListStutters, Zenon
  <2>4. ASSUME which = "Rule" PROVE RuleTyped' /\ RuleCalm'
    <3>1. RuleTyped /\ RuleCalm
      BY <2>4 DEF PagesInv, RuleInv
    <3>2. Rule!Next \/ UNCHANGED <<rules, shown, page, total, modal, options, busy, itsCall, fit, calm, starts, others>>
      <4>1. "Rule" # "Session" /\ "Rule" # "Local" /\ "Rule" # "List"
        OBVIOUS
      <4> QED
        BY <2>4, <4>1, Zenon DEF AllNext, allVars
    <3> QED
      BY <3>1, <3>2, RuleSteps, RuleStutters, Zenon
  <2>5. LocalInv'
    BY <2>1, <2>2, Zenon DEF LocalInv
  <2>6. ListInv'
    BY <2>1, <2>3, Zenon DEF ListInv
  <2>7. RuleInv'
    BY <2>1, <2>4, Zenon DEF RuleInv
  <2> QED
    BY <2>5, <2>6, <2>7, Zenon DEF PagesInv
<1> QED
  BY <1>1, <1>2, PTL DEF AllSpec

\* Whatever page is chosen, the session is one of Session.
LEMMA SessionRuns == AllSpec => Spec
<1>1. AllInit => Init
  BY Zenon DEF AllInit
<1>2. [AllNext]_allVars => [Next]_vars
  BY Zenon DEF AllNext, allVars
<1> QED
  BY <1>1, <1>2, PTL DEF AllSpec, Spec

\* Every variable of the pages holds a value of its kind; no button, spinner or flag waits
\* for a handler that is not under way; a page of things has no more rows than its limit.
THEOREM PagesWaitForHandlers == AllSpec => []PagesTypeOK
<1>1. ASSUME LocalTyped PROVE Local!LocalPageTypeOK
  <2>1. /\ Local!IsList(networks) /\ Local!IsList(page.networks)
        /\ page.editing \in Networks \cup {None} /\ page.form \in Local!Typed \cup {None}
        /\ page.open \in BOOLEAN
    BY <1>1 DEF LocalTyped, LocalStored, LocalShape, Dialog, AsTyped, Local!IsList
  <2>2. \A k \in page.busy : \E c \in Local!Busy : k \in {itsCall[c].kind, itsCall[c].req}
    BY <1>1 DEF LocalTyped, LocalButtons, Under, Local!Busy
  <2> QED
    BY <1>1, <2>1, <2>2 DEF LocalTyped, LocalStored, Local!LocalPageTypeOK
<1>2. ASSUME ListTyped PROVE List!ThingsPageTypeOK
  <2>1. \A k \in busy : \E c \in List!Busy : itsCall[c].kind = k
    BY <1>2 DEF ListTyped, ListButtons, Under, List!Busy
  <2> QED
    BY <1>2, <2>1, ListCounts DEF ListTyped, ListStored, List!ThingsPageTypeOK
<1>3. ASSUME RuleTyped PROVE Rule!RulesPageTypeOK
  <2>1. Rule!IsList(rules) /\ Rule!IsList(shown)
    BY <1>3 DEF RuleTyped, RuleStored, RuleList, Fits, Rule!IsList
  <2>2. \A b \in busy : \E c \in Rule!Busy : itsCall[c].flag = b \/ (b = "rules" /\ itsCall[c].req = "list")
    BY <1>3 DEF RuleTyped, RuleButtons, Under, Rule!Busy
  <2> QED
    BY <1>3, <2>1, <2>2 DEF RuleTyped, RuleStored, RuleModal, Rule!RulesPageTypeOK
<1>4. PagesInv => /\ which = "Local" => Local!LocalPageTypeOK
                  /\ which = "List" => List!ThingsPageTypeOK
                  /\ which = "Rule" => Rule!RulesPageTypeOK
  BY <1>1, <1>2, <1>3, Zenon DEF PagesInv, LocalInv, ListInv, RuleInv
<1> QED
  BY <1>4, PagesInvariant, SessionRuns, SessionTypeCorrect, SpinnersStop, PTL DEF PagesTypeOK

\* A page used alone, one handler at a time and none failed, shows what is stored once it
\* settles: the networks that come first by name, and the things and the rules of its page,
\* for the handlers read again what they changed (fetchNetworks, refetch, fetchRules).
THEOREM QuietPagesShow == AllSpec => []PagesShow
<1>1. ASSUME LocalTyped, LocalCalm PROVE Local!NetworksShown
  <2>1. \A c \in Calls : itsCall[c].at = "idle" => ~NetworksDue(itsCall[c])
    BY <1>1, IdleLocal DEF LocalTyped, LocalCalls
  <2> QED
    BY <1>1, <2>1 DEF LocalCalm, Local!NetworksShown, Local!Busy
<1>2. ASSUME ListTyped, ListCalm PROVE List!ListCurrent
  <2>1. \A c \in Calls : ~Under(c) => ~ListDue(itsCall[c])
    BY <1>2, IdleSlots
  <2>2. calm /\ List!Busy = {} => shown = Page(query) /\ total = Matches(query)
    BY <1>2, <2>1 DEF ListCalm, List!Busy, Under
  <2> QED
    BY <2>2, ListCounts DEF List!ListCurrent, Page, Matches
<1>3. ASSUME RuleTyped, RuleCalm PROVE Rule!RulesShown
  <2>1. ASSUME \A c \in Rule!Busy : itsCall[c].req = "targets" PROVE \A c \in Calls : ~RulesDue(itsCall[c])
    <3>1. \A c \in Calls : ~Handles(itsCall[c])
      BY <2>1 DEF Handles, Rule!Busy
    <3> QED
      BY <1>3, <3>1, AsideSlots
  <2> QED
    BY <1>3, <2>1 DEF RuleCalm, RulesOf, Rule!RulesShown, Rule!Alone
<1>4. PagesInv => PagesShow
  BY <1>1, <1>2, <1>3, Zenon DEF PagesInv, LocalInv, ListInv, RuleInv, PagesShow
<1> QED
  BY <1>4, PagesInvariant, PTL

\* A network or a rule gets what was typed for it, however dialogs, saves and answers
\* follow each other; a rule's target fits its kind; nothing is created in a local found
\* gone (NetworksService.create); and nothing is deleted that was not confirmed.
THEOREM NothingUnasked == AllSpec => WritesAsAsked
<1>1. PagesInv => /\ which = "Local" => Local!EditedAsTyped /\ Local!NoLateNetwork
                  /\ which = "Rule" => Rule!RuleAsTyped /\ Rule!TargetFits
  <2>1. ASSUME LocalTyped, Late PROVE Local!EditedAsTyped /\ Local!NoLateNetwork
    BY <2>1 DEF LocalTyped, LocalStored, AsTyped, Late, Local!EditedAsTyped, Local!NoLateNetwork
  <2>2. ASSUME RuleTyped PROVE Rule!RuleAsTyped /\ Rule!TargetFits
    BY <2>2 DEF RuleTyped, RuleStored, RuleList, Fits, Rule!RuleAsTyped, Rule!TargetFits
  <2> QED
    BY <2>1, <2>2, Zenon DEF PagesInv, LocalInv, RuleInv
<1>2. PagesInv /\ [AllNext]_allVars => [which = "List" => List!DeletesAsAsked]_allVars
  <2> SUFFICES ASSUME PagesInv, AllNext, which = "List" PROVE List!DeletesAsAsked
    OBVIOUS
  <2>1. ListTyped
    BY DEF PagesInv, ListInv
  <2>2. List!Next
    <3>1. "List" # "Session" /\ "List" # "Local" /\ "List" # "Rule"
      OBVIOUS
    <3> QED
      BY <3>1, Zenon DEF AllNext
  <2> QED
    BY <2>1, <2>2, ListDeletesAsAsked
<1>3. AllSpec => [](/\ which = "Local" => Local!EditedAsTyped /\ Local!NoLateNetwork
                    /\ which = "Rule" => Rule!RuleAsTyped /\ Rule!TargetFits)
  BY <1>1, PagesInvariant, PTL
<1>4. AllSpec => [][which = "List" => List!DeletesAsAsked]_allVars
  BY <1>2, PagesInvariant, PTL DEF AllSpec
<1> QED
  BY <1>3, <1>4, PTL DEF WritesAsAsked
=============================================================================
