------------------------------ MODULE RulesPage ------------------------------
(***************************************************************************)
(* The rules tab of the notifications page over NotificationsService.  The *)
(* dialog's condition decides which kinds of target it offers, and its     *)
(* effects reset the kind and load its targets when one of these changes.  *)
(* The rules come in pages, the newest first.  A slot of Calls is a        *)
(* handler of the page, or a load, with the request it waits for and the   *)
(* page number it has closed over; another window deletes rules.  There is *)
(* one target of each kind, named as its kind.                             *)
(***************************************************************************)
EXTENDS Naturals, FiniteSets

CONSTANTS Rules,     \* identities of rules, in the order of their creation
          Calls, None, New,
          Limit,     \* rows of a page, 20
          MaxStarts, \* bound: rules saved or deleted, pages turned and loads of targets
          MaxOthers  \* bound: rules another window deletes

RulesExist == None \notin Rules /\ New \notin Rules
RulesAreOrdered == Rules \subseteq Nat /\ IsFiniteSet(Rules) /\ Limit \in Nat \ {0}
RulesBounds == {MaxStarts, MaxOthers} \subseteq Nat

VARIABLES rules,   \* the stored rules
          shown,   \* the rules the tab shows
          page,    \* rulesPagination: the number of the page and
          total,   \* how many rules there were when one was read
          modal,   \* ruleModalOpen, editingRule and ruleForm
          options, \* targetOptions
          busy,    \* savingRule, deleting, loadingTargets, loadingRules
          call,
          fit,     \* no load of targets has failed or was answered for a kind the form had left
          calm,    \* one handler at a time, none failed, nobody else has deleted
          starts, others

vars == <<rules, shown, page, total, modal, options, busy, call, fit, calm, starts, others>>

\* CONDITIONS; a duration is to a change of the status what a threshold is to none.
Conditions == {"status", "discovery"}
TargetTypes(condition) == IF condition = "discovery" THEN {"network", "local"} ELSE {"thing", "group"}
Kinds == UNION {TargetTypes(x) : x \in Conditions}
FirstOf(condition) == IF condition = "discovery" THEN "network" ELSE "thing"
Empty == [condition |-> "status", type |-> "thing", target |-> None, typed |-> New]

Idle == [at |-> "idle", req |-> "none", id |-> None, body |-> Empty, flag |-> "none",
         page |-> 1, got |-> << >>, total |-> 0]
At(c, at, req) == call[c].at = at /\ call[c].req = req
Busy == {c \in Calls : call[c].at # "idle"}
Free == Calls \ Busy
Go(c, at) == call' = [call EXCEPT ![c].at = at]
With(f, n, x) == [k \in DOMAIN f \cup {n} |-> IF k = n THEN x ELSE f[k]]
Alone == \A d \in Busy : call[d].req = "targets"

\* Page p of the rules f: skip and limit, sorted by createdAt, the newest first.
OnPage(f, p) ==
  {n \in DOMAIN f : LET newer == Cardinality({m \in DOMAIN f : m > n})
                    IN newer >= (p - 1) * Limit /\ newer < p * Limit}
Rows(f, p) == [n \in OnPage(f, p) |-> f[n]]
Pages == (total + Limit - 1) \div Limit

\* A rule that is created is newer than all that are stored or that a copy speaks of.
Known == DOMAIN rules \cup DOMAIN shown \cup {modal.editing} \cup
         UNION {{call[c].id} \cup DOMAIN call[c].got : c \in Calls}
Newer == {n \in Rules : \A m \in Known \cap Rules : m < n}

-----------------------------------------------------------------------------
(* The dialog *)

\* The effect of [targetType, ruleModalOpen]: if one changes while the dialog is open,
\* targets are loaded.
Effect(m) ==
  IF m.open /\ (~modal.open \/ m.form.type # modal.form.type)
  THEN /\ starts < MaxStarts /\ starts' = starts + 1
       /\ busy' = busy \cup {"targets"}
       /\ \E c \in Free : call' = [call EXCEPT ![c] =
            [Idle EXCEPT !.at = "sent", !.req = "targets", !.body = m.form, !.flag = "targets"]]
       /\ calm' = calm
  ELSE UNCHANGED <<busy, call, calm, starts>>

Shows(m) == modal' = m /\ Effect(m) /\ UNCHANGED <<rules, shown, page, total, options, fit, others>>

handleOpenNewRule == ~modal.open /\ Shows([open |-> TRUE, editing |-> None, form |-> Empty])

\* The rows are hidden while they load.
handleEditRule(n) ==
  /\ ~modal.open /\ "rules" \notin busy /\ n \in DOMAIN shown
  /\ Shows([open |-> TRUE, editing |-> n, form |-> shown[n]])

Cancel == modal.open /\ Shows([modal EXCEPT !.open = FALSE, !.editing = None])

Form(f) == modal.open /\ Shows([modal EXCEPT !.form = f])

\* The effect of [condition]: a kind that is not one of the condition's becomes the first
\* that is, without a target.
ChooseCondition(x) ==
  Form(IF modal.form.type \in TargetTypes(x) THEN [modal.form EXCEPT !.condition = x]
       ELSE [modal.form EXCEPT !.condition = x, !.type = FirstOf(x), !.target = None])

ChooseType(ty) ==
  /\ ty \in TargetTypes(modal.form.condition)
  /\ Form([modal.form EXCEPT !.type = ty, !.target = None])

\* The select is disabled while targets load.
ChooseTarget(x) ==
  /\ "targets" \notin busy /\ x \in options \cup {None}
  /\ Form([modal.form EXCEPT !.target = x])

-----------------------------------------------------------------------------
(* The handlers *)

Start(c, kind, n, body) ==
  /\ c \in Free /\ starts < MaxStarts /\ starts' = starts + 1
  /\ call' = [call EXCEPT ![c] = [Idle EXCEPT !.at = "sent", !.req = kind, !.id = n, !.body = body,
                                 !.flag = IF kind = "delete" THEN "delete" ELSE "save", !.page = page]]
  /\ calm' = (calm /\ Alone)
  /\ UNCHANGED <<rules, shown, page, total, modal, options, fit, others>>

handleSaveRule(c) ==
  /\ modal.open /\ "save" \notin busy /\ busy' = busy \cup {"save"}
  /\ IF modal.editing = None
     THEN \E n \in Newer : Start(c, "create", n, modal.form)
     ELSE Start(c, "update", modal.editing, modal.form)

\* Its dialog may have been opened before the rows began to load.
handleDeleteRule(c) ==
  /\ ~modal.open /\ "delete" \notin busy /\ busy' = busy \cup {"delete"}
  /\ \E n \in DOMAIN shown : Start(c, "delete", n, Empty)

\* The effect of the page number reads its page.  The buttons are there while there are
\* rows or some load, and the dialog covers them.
Turn(c) ==
  /\ c \in Free /\ ~modal.open /\ ("rules" \in busy \/ DOMAIN shown # {})
  /\ starts < MaxStarts /\ starts' = starts + 1
  /\ \E p \in {page - 1, page + 1} \cap 1..(IF page < Pages THEN page + 1 ELSE page) :
       /\ page' = p
       /\ call' = [call EXCEPT ![c] = [Idle EXCEPT !.at = "sent", !.req = "list", !.page = p]]
  /\ busy' = busy \cup {"rules"}
  /\ calm' = (calm /\ Alone)
  /\ UNCHANGED <<rules, shown, total, modal, options, fit, others>>

-----------------------------------------------------------------------------
(* The API *)

ApiUnchanged == UNCHANGED <<shown, page, total, modal, options, busy, fit, calm, starts, others>>

\* Without a target the field is left out.
createRule(c) ==
  /\ At(c, "sent", "create")
  /\ rules' = With(rules, call[c].id, [call[c].body EXCEPT !.typed = call[c].id])
  /\ Go(c, "good") /\ ApiUnchanged

\* An empty target is no ObjectId: the update is refused, as is that of a rule that is gone.
updateRule(c) ==
  /\ At(c, "sent", "update")
  /\ LET ok == call[c].id \in DOMAIN rules /\ call[c].body.target # None
     IN /\ rules' = IF ok THEN With(rules, call[c].id, call[c].body) ELSE rules
        /\ Go(c, IF ok THEN "good" ELSE "bad")
  /\ ApiUnchanged

deleteRule(c) ==
  /\ At(c, "sent", "delete")
  /\ Go(c, IF call[c].id \in DOMAIN rules THEN "good" ELSE "bad")
  /\ rules' = [k \in DOMAIN rules \ {call[c].id} |-> rules[k]]
  /\ ApiUnchanged

findAllRules(c) ==
  /\ At(c, "sent", "list")
  /\ call' = [call EXCEPT ![c] = [@ EXCEPT !.at = "good", !.got = Rows(rules, call[c].page),
                                           !.total = Cardinality(DOMAIN rules)]]
  /\ ApiUnchanged /\ UNCHANGED rules

findTargets(c) == At(c, "sent", "targets") /\ Go(c, "good") /\ ApiUnchanged /\ UNCHANGED rules

\* A request or its answer is lost.
Fails(c) ==
  /\ call[c].at \in {"sent", "good"} /\ Go(c, "bad")
  /\ calm' = FALSE
  /\ UNCHANGED <<rules, shown, page, total, modal, options, busy, fit, starts, others>>

OtherWindow ==
  /\ others < MaxOthers /\ others' = others + 1
  /\ \E n \in DOMAIN rules : rules' = [k \in DOMAIN rules \ {n} |-> rules[k]]
  /\ calm' = FALSE
  /\ UNCHANGED <<shown, page, total, modal, options, busy, call, fit, starts>>

-----------------------------------------------------------------------------
(* The page meets an answer *)

\* The first answer enables the select, whichever kind it is for.
loadTargets(c) ==
  /\ call[c].req = "targets" /\ call[c].at \in {"good", "bad"}
  /\ options' = IF call[c].at = "good" THEN {call[c].body.type} ELSE options
  /\ fit' = (fit /\ call[c].at = "good" /\ call[c].body.type = modal.form.type)
  /\ busy' = busy \ {"targets"}
  /\ call' = [call EXCEPT ![c] = Idle]
  /\ UNCHANGED <<rules, shown, page, total, modal, calm, starts, others>>

\* A save closes the dialog, whichever rule it is open for by now, and empties the form.
Saved(c) ==
  /\ call[c].at = "good" /\ call[c].req \in {"create", "update", "delete"}
  /\ modal' = IF call[c].req = "delete" THEN modal ELSE [open |-> FALSE, editing |-> None, form |-> Empty]
  /\ call' = [call EXCEPT ![c] = [Idle EXCEPT !.at = "sent", !.req = "list", !.flag = call[c].flag,
                                           !.page = call[c].page]]
  /\ busy' = busy \cup {"rules"}
  /\ UNCHANGED <<rules, shown, page, total, options, fit, calm, starts, others>>

fetchRules(c) ==
  /\ call[c].req = "list" /\ call[c].at \in {"good", "bad"}
  /\ shown' = IF call[c].at = "good" THEN call[c].got ELSE shown
  /\ total' = IF call[c].at = "good" THEN call[c].total ELSE total
  /\ busy' = busy \ {call[c].flag, "rules"}
  /\ call' = [call EXCEPT ![c] = Idle]
  /\ UNCHANGED <<rules, page, modal, options, fit, calm, starts, others>>

\* A toast; the dialog stays.
Failed(c) ==
  /\ call[c].at = "bad" /\ call[c].req \in {"create", "update", "delete"}
  /\ busy' = busy \ {call[c].flag}
  /\ call' = [call EXCEPT ![c] = Idle]
  /\ UNCHANGED <<rules, shown, page, total, modal, options, fit, calm, starts, others>>

-----------------------------------------------------------------------------
\* The page once the load of its mount has been answered.
Init ==
  /\ \E S \in SUBSET Rules : \E x \in [S -> Conditions] :
       rules = [n \in S |-> [condition |-> x[n], type |-> FirstOf(x[n]), target |-> None, typed |-> n]]
  /\ page = 1 /\ shown = Rows(rules, 1) /\ total = Cardinality(DOMAIN rules)
  /\ modal = [open |-> FALSE, editing |-> None, form |-> Empty]
  /\ options = {} /\ busy = {} /\ call = [c \in Calls |-> Idle]
  /\ fit = TRUE /\ calm = TRUE /\ starts = 0 /\ others = 0

Serve(c) == \/ createRule(c) \/ updateRule(c) \/ deleteRule(c)
            \/ findAllRules(c) \/ findTargets(c) \/ Fails(c)
Meet(c) == loadTargets(c) \/ Saved(c) \/ fetchRules(c) \/ Failed(c)

Next == \/ \E c \in Calls : handleSaveRule(c) \/ handleDeleteRule(c) \/ Turn(c) \/ Serve(c) \/ Meet(c)
        \/ handleOpenNewRule \/ (\E n \in Rules : handleEditRule(n)) \/ Cancel
        \/ (\E x \in Conditions : ChooseCondition(x))
        \/ (\E ty \in Kinds : ChooseType(ty) \/ ChooseTarget(ty)) \/ ChooseTarget(None)
        \/ OtherWindow

Spec == Init /\ [][Next]_vars

-----------------------------------------------------------------------------
(* Properties *)

Forms == [condition : Conditions, type : Kinds, target : Kinds \cup {None}, typed : Rules \cup {New}]
IsList(f) == DOMAIN f \subseteq Rules /\ \A n \in DOMAIN f : f[n] \in Forms

\* Every variable holds a value of its kind, and a button waits only for its own handler.
RulesPageTypeOK ==
  /\ IsList(rules) /\ IsList(shown) /\ page \in Nat \ {0} /\ total \in 0..Cardinality(Rules)
  /\ modal \in [open : BOOLEAN, editing : Rules \cup {None}, form : Forms]
  /\ options \subseteq Kinds /\ {fit, calm} \subseteq BOOLEAN
  /\ \A b \in busy : \E c \in Busy : call[c].flag = b \/ (b = "rules" /\ call[c].req = "list")
  /\ starts \in 0..MaxStarts /\ others \in 0..MaxOthers

\* A rule never gets what was typed for another or for a new one, however its dialogs,
\* their saves and the answers that close them follow each other.
RuleAsTyped == \A n \in DOMAIN rules : rules[n].typed = n

\* Every stored rule watches a kind of target its condition knows, and, unless a load of
\* targets failed or was overtaken, a target of this kind.
TargetFits ==
  \A n \in DOMAIN rules :
    /\ rules[n].type \in TargetTypes(rules[n].condition)
    /\ fit => rules[n].target \in {rules[n].type, None}

\* A page that has written alone, one handler at a time, none failed, shows once it settles
\* the rules of its page and counts them all, whatever was created or deleted before it.
RulesShown == calm /\ Alone => shown = Rows(rules, page) /\ total = Cardinality(DOMAIN rules)

=============================================================================
