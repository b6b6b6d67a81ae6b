--------------------------- MODULE MCSessionPages ---------------------------
(***************************************************************************)
(* Session, and the pages of locals, things and rules, checked in one run: *)
(* a behaviour is one of a single module, chosen at the start.             *)
(***************************************************************************)
EXTENDS Session, TLC

CONSTANTS None, MaxStarts, MaxOthers,
          Networks, Texts,         \* LocalPage
          Limit,                   \* LocalPage, ThingsPage, RulesPage
          Things, Named, MaxClicks, \* ThingsPage
          New                      \* RulesPage

VARIABLES which,  \* the module that runs
          itsLocal, networks, page, itsCall, late, calm, starts, others, things, discovered,
          query, search, shown, total, loading, busy, sure, clicks, rules, modal, options, fit

Local == INSTANCE LocalPage WITH
  local <- itsLocal, call <- itsCall
List == INSTANCE ThingsPage WITH
  call <- itsCall
Rule == INSTANCE RulesPage WITH
  Rules <- Things, call <- itsCall

ASSUME LocalAssumption == Local!NetworksExist /\ Local!TextsExist /\ Local!LocalBounds
ASSUME ListAssumption == List!ThingsAreOrdered /\ List!ThingsBounds
ASSUME RuleAssumption == Rule!RulesExist /\ Rule!RulesAreOrdered /\ Rule!RulesBounds

\* A variable of a module that does not run.
Off == "off"

AllInit ==
  /\ Init
  /\ \/ /\ which = "Session"
        /\ itsLocal = Off /\ networks = Off /\ page = Off /\ itsCall = Off /\ late = Off
        /\ calm = Off /\ starts = Off /\ others = Off /\ things = Off /\ discovered = Off
        /\ query = Off /\ search = Off /\ shown = Off /\ total = Off /\ loading = Off
        /\ busy = Off /\ sure = Off /\ clicks = Off /\ rules = Off /\ modal = Off
        /\ options = Off /\ fit = Off
     \/ /\ which = "Local" /\ Local!Init
        /\ things = Off /\ discovered = Off /\ query = Off /\ search = Off /\ shown = Off
        /\ total = Off /\ loading = Off /\ busy = Off /\ sure = Off /\ clicks = Off
        /\ rules = Off /\ modal = Off /\ options = Off /\ fit = Off
     \/ /\ which = "List" /\ List!Init
        /\ itsLocal = Off /\ networks = Off /\ page = Off /\ late = Off /\ starts = Off
        /\ rules = Off /\ modal = Off /\ options = Off /\ fit = Off
     \/ /\ which = "Rule" /\ Rule!Init
        /\ itsLocal = Off /\ networks = Off /\ late = Off /\ things = Off /\ discovered = Off
        /\ query = Off /\ search = Off /\ loading = Off /\ sure = Off /\ clicks = Off

AllNext ==
  /\ UNCHANGED which
  /\ \/ /\ which = "Session" /\ Next
        /\ UNCHANGED <<itsLocal, networks, page, itsCall, late, calm, starts, others, things,
                       discovered, query, search, shown, total, loading, busy, sure, clicks,
                       rules, modal, options, fit>>
     \/ /\ which = "Local" /\ Local!Next /\ UNCHANGED vars
        /\ UNCHANGED <<things, discovered, query, search, shown, total, loading, busy, sure,
                       clicks, rules, modal, options, fit>>
     \/ /\ which = "List" /\ List!Next /\ UNCHANGED vars
        /\ UNCHANGED <<itsLocal, networks, page, late, starts, rules, modal, options, fit>>
     \/ /\ which = "Rule" /\ Rule!Next /\ UNCHANGED vars
        /\ UNCHANGED <<itsLocal, networks, late, things, discovered, query, search, loading,
                       sure, clicks>>

allVars == <<vars, which, itsLocal, networks, page, itsCall, late, calm, starts, others, things,
                    discovered, query, search, shown, total, loading, busy, sure, clicks,
                    rules, modal, options, fit>>

AllSpec == AllInit /\ [][AllNext]_allVars

Symmetry == Permutations(Calls) \cup Permutations(Tabs)

-----------------------------------------------------------------------------
(* Properties: their parts are those of the modules, where they are explained. *)

\* Every variable holds a value of its kind, and no button, spinner or flag waits for a
\* handler that is not under way.
PagesTypeOK ==
  /\ SessionTypeOK
  /\ SpinnerWaits
  /\ which = "Local" => Local!LocalPageTypeOK
  /\ which = "List" => List!ThingsPageTypeOK
  /\ which = "Rule" => Rule!RulesPageTypeOK

\* A page used alone, one handler at a time, none failed, shows what is stored once it
\* settles: its handlers read again what they changed.
PagesShow ==
  /\ which = "Local" => Local!NetworksShown
  /\ which = "List" => List!ListCurrent
  /\ which = "Rule" => Rule!RulesShown

\* The pages write nothing but what was asked for: a network or a rule gets what was
\* typed for it and a target that fits, nothing is created in a local that was gone,
\* and nothing is deleted that was not confirmed.
WritesAsAsked ==
  /\ [](which = "Local" => Local!EditedAsTyped)
  /\ [](which = "Local" => Local!NoLateNetwork)
  /\ [](which = "Rule" => Rule!RuleAsTyped)
  /\ [](which = "Rule" => Rule!TargetFits)
  /\ [][which = "List" => List!DeletesAsAsked]_allVars

=============================================================================
