-------------------------- MODULE MCInventoryPages --------------------------
(***************************************************************************)
(* Inventory with handlers that overlap and fail; and, one at a time, the  *)
(* handlers of Inventory and the calls of ScanQueue; and the settings      *)
(* page.  A behaviour is one of the four, chosen at the start.             *)
(***************************************************************************)
EXTENDS MCInventory

CONSTANTS MaxSerial,                                  \* Serial
          Jobs, Networks, Requests, MaxQueueDepth,    \* ScanQueue
          None, Users, Limit, Collections, Sealed, MaxStarts, MaxOthers \* SettingsPage

VARIABLES which,  \* the module that runs
          itsLife, itsDoc, itsHistory, itsScan, itsCheck, itsEdit, itsMessages, status, net,
          cooling, call, wait, active, results, finished, worker, channel, hpc, settings,
          users, data, form, shown, loading, busy, loadFailed, calm, restored, starts, others

\* The collections of the restore that is checked.
Restored == <<"things", "groups">>

Serial == INSTANCE Inventory WITH
  MaxRunning <- 1, MaxMessages <- MaxSerial, Faults <- {}, life <- itsLife, doc <- itsDoc,
  history <- itsHistory, scan <- itsScan, check <- itsCheck, edit <- itsEdit,
  messages <- itsMessages
Queue == INSTANCE ScanQueue WITH
  Faults <- {"worker", "api", "store"}
Settings == INSTANCE SettingsPage WITH
  Calls <- Scans

ASSUME QueueAssumption == /\ IsFiniteSet(Jobs) /\ IsFiniteSet(Requests)
                          /\ "none" \notin Jobs \cup Networks /\ MaxQueueDepth \in Nat \ {0}
ASSUME SettingsAssumption == Settings!UsersExist /\ Settings!CollectionsInOrder /\ Settings!SettingsBounds

\* A variable of a module that does not run.
Off == "off"

AllInit ==
  /\ Init
  /\ \/ /\ which = "Inventory"
        /\ itsLife = Off /\ itsDoc = Off /\ itsHistory = Off /\ itsScan = Off /\ itsCheck = Off
        /\ itsEdit = Off /\ itsMessages = Off /\ status = Off /\ net = Off /\ cooling = Off
        /\ call = Off /\ wait = Off /\ active = Off /\ results = Off /\ finished = Off
        /\ worker = Off /\ channel = Off /\ hpc = Off /\ settings = Off /\ users = Off
        /\ data = Off /\ form = Off /\ shown = Off /\ loading = Off /\ busy = Off
        /\ loadFailed = Off /\ calm = Off /\ restored = Off /\ starts = Off /\ others = Off
     \/ /\ which = "Serial" /\ Serial!Init
        /\ status = Off /\ net = Off /\ cooling = Off /\ call = Off /\ wait = Off
        /\ active = Off /\ results = Off /\ finished = Off /\ worker = Off /\ channel = Off
        /\ hpc = Off /\ settings = Off /\ users = Off /\ data = Off /\ form = Off
        /\ shown = Off /\ loading = Off /\ busy = Off /\ loadFailed = Off /\ calm = Off
        /\ restored = Off /\ starts = Off /\ others = Off
     \/ /\ which = "Queue" /\ Queue!Init
        /\ itsLife = Off /\ itsDoc = Off /\ itsHistory = Off /\ itsScan = Off /\ itsCheck = Off
        /\ itsEdit = Off /\ itsMessages = Off /\ settings = Off /\ users = Off /\ data = Off
        /\ form = Off /\ shown = Off /\ loading = Off /\ busy = Off /\ loadFailed = Off
        /\ calm = Off /\ restored = Off /\ starts = Off /\ others = Off
     \/ /\ which = "Settings" /\ Settings!Init
        /\ itsLife = Off /\ itsDoc = Off /\ itsHistory = Off /\ itsScan = Off /\ itsCheck = Off
        /\ itsEdit = Off /\ itsMessages = Off /\ status = Off /\ net = Off /\ cooling = Off
        /\ wait = Off /\ active = Off /\ results = Off /\ finished = Off /\ worker = Off
        /\ channel = Off /\ hpc = Off

AllNext ==
  /\ UNCHANGED which
  /\ \/ /\ which = "Inventory" /\ Next
        /\ UNCHANGED <<itsLife, itsDoc, itsHistory, itsScan, itsCheck, itsEdit, itsMessages,
                       status, net, cooling, call, wait, active, results, finished, worker,
                       channel, hpc, settings, users, data, form, shown, loading, busy,
                       loadFailed, calm, restored, starts, others>>
     \/ /\ which = "Serial" /\ Serial!Next /\ UNCHANGED vars
        /\ UNCHANGED <<status, net, cooling, call, wait, active, results, finished, worker,
                       channel, hpc, settings, users, data, form, shown, loading, busy,
                       loadFailed, calm, restored, starts, others>>
     \/ /\ which = "Queue" /\ Queue!Next /\ UNCHANGED vars
        /\ UNCHANGED <<itsLife, itsDoc, itsHistory, itsScan, itsCheck, itsEdit, itsMessages,
                       settings, users, data, form, shown, loading, busy, loadFailed, calm,
                       restored, starts, others>>
     \/ /\ which = "Settings" /\ Settings!Next /\ UNCHANGED vars
        /\ UNCHANGED <<itsLife, itsDoc, itsHistory, itsScan, itsCheck, itsEdit, itsMessages,
                       status, net, cooling, wait, active, results, finished, worker, channel,
                       hpc>>

allVars == <<vars, which, itsLife, itsDoc, itsHistory, itsScan, itsCheck, itsEdit, itsMessages,
                    status, net, cooling, call, wait, active, results, finished, worker,
                    channel, hpc, settings, users, data, form, shown, loading, busy,
                    loadFailed, calm, restored, starts, others>>

AllSpec == AllInit /\ [][AllNext]_allVars

AllSymmetry == Symmetry \cup Permutations(Users)

-----------------------------------------------------------------------------
(* Properties: their parts are those of the modules, where they are explained. *)

\* Every variable holds a value of its kind, and no button waits for a handler that is
\* not under way.
PagesTypeOK ==
  /\ TypeOK
  /\ which = "Serial" => Serial!TypeOK
  /\ which = "Queue" => Queue!TypeOK
  /\ which = "Settings" => Settings!SettingsPageTypeOK

\* With one handler at a time, the history is what its design says: no health is
\* recorded twice in a row, the last event is the health between handlers, and the
\* health changes only to what the history says.
SerialHistory ==
  /\ [](which = "Serial" => Serial!HistoryAlternates)
  /\ [](which = "Serial" => Serial!HistorySettles)
  /\ [][which = "Serial" => Serial!RecordedFirst]_allVars

\* With one call of discover at a time, the documented limits hold exactly: one
\* unfinished job for a network, the depth of the queue, and no scan of a network that
\* cools down.
DocumentedLimits ==
  /\ [](which = "Queue" => Queue!OneScanPerNetwork)
  /\ [](which = "Queue" => Queue!QueueDepthLimit)
  /\ [][which = "Queue" => Queue!NoneCooling]_allVars

\* The settings page never saves the values it starts with over settings it could read,
\* shows the settings that are stored and a page of the stored users when it has
\* written alone, and a restore it asks for leaves the collections as they were or as
\* its file has them.
SettingsKept ==
  /\ which = "Settings" => Settings!DefaultsStayOut
  /\ which = "Settings" => Settings!SettingsShown
  /\ which = "Settings" => Settings!RestoreExact

=============================================================================
