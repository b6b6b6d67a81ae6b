---------------------------- MODULE MCThingPages ----------------------------
(***************************************************************************)
(* The page of a thing and the notifications, checked in one run: a        *)
(* behaviour is one of a single module, chosen at the start.               *)
(***************************************************************************)
EXTENDS ThingPage, TLC

CONSTANTS RuleNames, MaxEvents, MaxEdits, MaxClicks \* Notices

VARIABLES which,  \* the module that runs
          rules, notes, scan, found, due, lost, itsPage, bell, itsCall, crossed, itsCalm,
          events, edits, clicks

\* A thing is created with all its credentials.
AllGiven == [Parts -> Secrets]

Notice == INSTANCE Notices WITH
  Devices <- Groups, page <- itsPage, call <- itsCall, calm <- itsCalm

ASSUME PageAssumption == NoneIsNothing /\ NoneIsNoThing /\ GivenAreCredentials /\ PageBounds
ASSUME NoticeAssumption == Notice!KnownRules /\ Notice!NoticesBounds

\* A variable of a module that does not run.
Off == "off"

AllInit ==
  /\ Init
  /\ \/ /\ which = "ThingPage"
        /\ rules = Off /\ notes = Off /\ scan = Off /\ found = Off /\ due = Off
        /\ lost = Off /\ itsPage = Off /\ bell = Off /\ itsCall = Off /\ crossed = Off
        /\ itsCalm = Off /\ events = Off /\ edits = Off /\ clicks = Off
     \/ /\ which = "Notice" /\ Notice!Init

AllNext ==
  /\ UNCHANGED which
  /\ \/ /\ which = "ThingPage" /\ Next
        /\ UNCHANGED <<rules, notes, scan, found, due, lost, itsPage, bell, itsCall, crossed,
                       itsCalm, events, edits, clicks>>
     \/ which = "Notice" /\ Notice!Next /\ UNCHANGED vars

allVars == <<vars, which, rules, notes, scan, found, due, lost, itsPage, bell, itsCall, crossed,
                    itsCalm, events, edits, clicks>>

AllSpec == AllInit /\ [][AllNext]_allVars

Symmetry == Permutations(Calls) \cup Permutations(Pages) \cup Permutations(Groups)
            \cup Permutations(Parts)

-----------------------------------------------------------------------------
(* Properties: their parts are those of the modules, where they are explained. *)

\* Every variable holds a value of its kind, and no button, spinner or flag waits for a
\* handler that is not under way.
PagesTypeOK ==
  /\ ThingPageTypeOK
  /\ BusyWaits
  /\ which = "Notice" => Notice!NoticesTypeOK

\* A page that is not disturbed shows what is stored: the page of a thing, the tab of
\* notifications, which shows nothing as read that is not, and the bell.
PagesShow ==
  /\ QuietPageCurrent
  /\ which = "Notice" => Notice!ReadIsStored
  /\ which = "Notice" => Notice!BellCounts

\* The evaluation of the rules after a scan creates one notification for each new
\* device and each rule that matches, and no other.
NoticePerMatch == which = "Notice" => Notice!NoticePerMatch

=============================================================================
