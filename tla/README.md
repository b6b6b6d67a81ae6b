# IoT Sentinel in TLA+

IoT Sentinel discovers the devices of a home network, keeps an inventory of
them and watches their health. This directory holds TLA+ models of the parts
of it in which several things happen at once, the TLC configurations that check
them on small instances, and proofs, checked by TLAPS, of what holds for every
instance.

| Part | Modules | State |
|---|---|---|
| scan jobs: API, Redis queue, worker, completion handlers | `ScanQueue`, `ScanLifecycle` (what it promises), `MCScanQueue`, `ScanQueueProofs` | modelled, checked, safety proved |
| inventory: things, their registration, health and history | `Inventory`, `MCInventory`, `InventoryProofs` | modelled, checked, safety proved |
| first boot: settings, administrators, restore | `Instance`, `MCInstance`, `InstanceProofs` | modelled, checked, safety proved |
| sessions: login, refresh tokens, logout, over two browser tabs | `Session`, `MCSessionPages`, `SessionProofs` | modelled, checked, safety proved |
| things on the screen: the list, the page of one, the assignment to a group | `ThingsPage`, `ThingPage`, `GroupPage`; `SessionPagesProofs`, `ThingPagesProofs`, `InstanceProofs` | modelled, checked, safety proved |
| locals and their networks | `LocalPage`, `SessionPagesProofs` | modelled, checked, safety proved |
| thing types: seeds, API, tab | `TypesPage`, `InstanceProofs` | modelled, checked, safety proved |
| settings, users, backup: API and tabs | `SettingsPage`, `InventoryPagesProofs` | modelled, checked, safety proved |
| notifications: rules, evaluation, list, bell | `RulesPage`, `Notices`; `SessionPagesProofs`, `ThingPagesProofs` | modelled, checked, safety proved |
| scanner page | `ScannerPage`, `MCScannerPage`, `ScannerPageProofs` | modelled, checked with liveness, safety proved |
| health cycle, uptime | | see "Not modelled" |

To run: `tlc -config ScanQueueConcurrent.cfg MCScanQueue.tla`, and the same for
the other configurations (the `runs` of `PROJECT.json` name the module of each);
`tlapm ScanQueueProofs.tla` for the proofs. The modules `MC...Pages` check several
independent modules in one run: their variable `which` says, from the start, which
of them a behaviour is of, and the variables of the others stay at `Off`. `PROJECT.json` also maps every
definition to the lines of `src/` it stands for.

## 1. The system

Four processes: a NestJS **API** (one Node event loop), a Python **worker** with
two threads (job loop, health checker), **MongoDB**, and **Redis**, which carries
the Bull queue of scan jobs and two pub/sub channels back to the API. The
**frontend** (Next.js) calls the API from browsers.

What makes the behaviour hard is common to all parts: handlers are `async`
functions, every `await` lets others run, nothing is locked and no transaction
is used. What the database gives is that one document changes atomically and
that a unique index refuses a duplicate. Pub/sub keeps nothing for a subscriber
that is away.

### Components

| Component | State it keeps | Operations | Interacts with | What must be right |
|---|---|---|---|---|
| scanner (API), `api/src/scanner` | `scanjobs` documents: network, status, results | `discover` (active check, cooldown check, depth check, create, enqueue); `handleCompletion` (running, hosts, completed) | Redis queue and channel; things, history, notifications | one scan per network, queue depth, cooldown; a job is scanned once and its status only moves forward; an accepted job ends |
| queue (Redis, external) | `bull:scanner:wait`, `active`, `completed`, job hashes | add, brpoplpush, lrem, zadd, publish | scanner, worker | a job is in one place |
| worker job loop, `worker/src/main.py` | the job in hand | pop, scan, store, remove, complete, publish | queue, network scanner | no job is lost |
| network scanner, `worker/src/scanner.py` | none | `scan_network`, `parse_nmap_results` | nmap | parsing; hosts without a MAC address |
| health checker, `worker/src/health_checker.py` | interval | poll the API for networks, scan each, publish | monitor | a failed scan is not an empty network |
| monitor (API), `api/src/monitor` | none of its own | `getNetworksToCheck`, `processHealthCheck` | things, history, settings | only registered things are monitored; history agrees with health |
| things, `api/src/things` | `things` documents: addresses, registration, health, description, credentials | create, update (registers a discovered thing), delete, delete all discovered, migration at start | scanner, monitor, backup | one thing per MAC address; registered stays registered, deleted stays deleted |
| status history, `api/src/status-history` | `statusevents`: thing, health, time | `recordTransition`, `getHistory`, `getAverageUptime` | scanner, monitor | transitions only; the last event is the health; uptime arithmetic at the borders |
| settings and setup, `api/src/settings` | the settings document | `getOrCreate`, `update`, `completeSetup` | users; polled by the worker | setup is complete only with an administrator, and stays so |
| users, `api/src/users` | `users` documents | create, update, delete | setup, auth | unique names |
| auth, `api/src/auth` | `refreshtokens` | login, refresh (rotation), logout | users | a token is used once; logout ends all sessions |
| frontend session, `frontend/src/services/api.ts`, `contexts/auth-context.tsx` | access token in memory, refresh token in local storage | call, refresh on 401, restore session, forced logout | auth | parallel calls do not log each other out |
| backup, `api/src/backup` | none | `export`, `restore`, `restoreFull` | every collection | a restore is whole or not finished; a password that does not open the credentials of the file changes nothing |
| locals, networks, groups, `api/src/{locals,networks,groups}` | their documents | create, read, update, delete | things refer to them | what remains of a reference to what was deleted |
| thing types, `api/src/thing-types` | `thingtypes` | seed at start, create, update, delete | things name them by slug; restore replaces them | a slug names one type; system types stay unless renamed through the API or restored |
| notifications, `api/src/notifications` | rules, notifications | rules, `evaluateDiscoveryRules`, unread count, gateway | scanner, frontend | a matching rule notifies once |
| crypto, dashboard, health, common | none | encryption of credentials, counts, answers | | pure or read-only |
| frontend pages | what was fetched, what is being edited | load, poll, submit | API | forms and lists over documents that handlers change |

`PROJECT.json` lists the hazards at their lines. The kinds that dominate are
check-then-act over two awaits (`scanner.service.ts:27`, `:44`,
`settings.repository.ts:17`, `auth.service.ts:32`), documents read before an
await and written after it (`monitor.service.ts:109`, `things.service.ts:89`),
two writes that belong together (`monitor.service.ts:122`,
`settings.service.ts:44`, `backup.service.ts:97`), and messages that are lost
(`main.py:87`).

## 2. The models

An action is what runs between two awaits (or two Redis calls). What a handler
remembers across an await is part of its state, so a stale copy is a stale copy
in the model too.

### ScanQueue: the life of a scan job

| Variable | In the code |
|---|---|
| `status`, `net` | `scanjobs.status`, `.networkId`; `none` for an identity not used yet |
| `cooling` | networks whose last completed job is younger than `cooldownSeconds`; leaves by the clock (`CooldownExpires`) |
| `call` | the `discover` calls in flight and the await each is at |
| `wait`, `active`, `results`, `finished` | the Bull keys the worker works on; `results` are the stored return values |
| `worker` | the step of `consume_jobs` and the job in hand |
| `channel` | published completions no subscriber has received |
| `hpc` | the completion handler of each job: lookup, mark, hosts |

`Receive`, `Admit`, `Create`, `Enqueue` are `ScannerService.discover`; `Pop`,
`StoreResult`, `RemoveFromActive`, `AddToCompleted`, `Publish` the worker's loop;
`Deliver`, `LookUp`, `MarkRunning`, `MarkCompleted` the subscriber and
`handleCompletion`. The faults are parameters: `worker` (the scan raises, or the
worker stops between two Redis calls), `api` (the API stops: its calls, handlers
and unread messages are gone), `store` (an await rejects; the subscriber
reconnects and misses messages). The worker's job loop is one thread, so there
is one `worker`.

`ScanLifecycle` is the abstract specification: a job is accepted, scanned at
most once, begun and finished only after its scan returned, and never goes back.
`Lifecycle == INSTANCE ScanLifecycle WITH scanned <- results` is the refinement
mapping; `LifecycleSafe` (every fault) and `LifecycleFair` (no fault, with
fairness) say that `ScanQueue` implements it.

### Inventory: things, health and history

| Variable | In the code |
|---|---|
| `life`, `doc` | whether a thing's document exists (`unused`, `live`, `deleted`) and its `macAddress`, `ipAddress`, `registrationStatus`, `healthStatus` |
| `history` | the status events of each thing, in order of time |
| `scan`, `check` | the completion and health check handlers: what is left to do, and for the thing in hand what was read |
| `edit` | a `PATCH /things/:id` between its read and its write |
| `messages` | counts the messages received, for the bound `MaxMessages` |

A scan handler goes through its hosts one by one: `FindHost`
(`findByMacAddress`), then `ScanRecords` and `ScanUpdates` for a known thing or
`ScanCreates` for a new one; an error of one host (`HostFails`, a duplicate key)
does not stop the loop. A health check reads all registered things at once
(`CheckReceived`), decides what it will write for each (`Verdict`: seen by MAC
address, compared in upper case, or by IP address), and then writes event and
document of each in two awaits; an error ends it. The result of a scan or of a
check is any set of `Hosts`: the network is the environment. Users create, edit,
delete and delete all discovered at any time.

The addresses are few on purpose. A device is a MAC address; `MCMacs` has one in
two spellings, for the property that tells spellings apart; a host whose MAC
address is unknown is the other case the code distinguishes.

### Instance: the first boot

| Variable | In the code |
|---|---|
| `settings` | the `settings` documents in the order `findOne` meets them: whether `setupCompleted`, and whether it came from a backup |
| `users` | the role of each user name |
| `data` | the collections a restore replaces, in its order: its own documents, none, or the backup's |
| `call` | the `completeSetup`, `setup/restore` and `SettingsService.get` calls in flight |
| `answered`, `touched` | remembered for the properties: a setup call succeeded; a restore or an administrator removed settings or users |

`CheckSetup`, `GetSettings`, `CreateSettings`, `UpdateSettings`, `FindUser`,
`CreateUser`, `MarkSetupComplete` are the awaits of `completeSetup`;
`ClearCollection` and `FillCollection` the pairs of `deleteMany` and `insertMany`
of `restore`, `ClearSettings` to `FillUsers` the end of `restoreFull`. The worker
polls `/monitor/networks-to-check`, which reads the settings through
`getOrCreate`: it is a reader. The backup holds one settings document, marked
complete, at least one user, and documents in every collection; a restore into
documents with the same ids is refused by MongoDB. That `findOne({})` meets the
oldest document first is MongoDB's behaviour without an index, not a promise.

### The pages: requests, answers and what the page makes of them

The modules of the frontend share one form. A page is what it shows, its dialogs
and its flags; a slot of `Calls` is a handler of the page with the request it waits
for: `sent`, then what the API does with it (each await a step, `checked` between
two), then `good` or `bad`, then the step in which the page meets the answer. Two
slots are two handlers that overlap, and the answers may be met in any order. `Fails` is a request, or its
answer, that is lost: a write may have happened or not. Another window, or another
administrator, writes in between (`OtherWindow`, `OtherAdmin`). What a user types
is remembered as the object it was typed for, because the hazard of a dialog that
serves several objects is that it reaches another one. `calm` is a remembered
condition of the properties that hold only for a page used alone, one handler at a
time, none failed.

| Module | State | Actions, in the code |
|---|---|---|
| `Session` | the refresh tokens in the store (`db`) and what each replaced (`parent`), the one in `localStorage` (`local`), each `tab` with its access token and whether it is loading, where each `call` of the tabs is | `api` with the refresh on a 401 (`Unauthorized`, `Refreshed`, `Refused`), `tryRestoreSession` (`Load`, `Dropped`), login and logout; on the API `login`, `refresh` in its three awaits (`FindToken`, `DeleteToken`, `CreateToken`), `deleteAllUserTokens` |
| `ThingPage` | one thing with groups, channels and credentials, which are a record of several (`Parts`) that a save replaces as a whole; two windows, each with its copy, form and revealed credentials | every handler of `things/[id]/page.tsx` and `CredentialsReveal`; `ThingsService.update`, `findById` (without credentials), `getCredentials`, `delete`; of `ScannerService.discover` the answer |
| `ThingsPage` | things, which are discovered; query, typed search, rows and total | the effect that reads on every change of query, the debounced search, turning pages, both deletions |
| `GroupPage` | the groups of each thing; the copies in the dialog; one PATCH for each selected thing | the dialog, `Promise.all` over the PATCHes, its failure while the others go on; lists of members (`Limit`) and of all things (`MaxOffered`) are first pages |
| `LocalPage` | the local, its networks, the page and its dialogs | add (two awaits), edit, delete of networks; edit and delete of the local; the list is the first page of `Limit` |
| `TypesPage` | types, whether the API listens, what a restore has yet to insert, the application's copy, the dialog | `onModuleInit` seed by seed, which leaves out a slug any type holds; `create`, `update`, `delete` with their checks, by the page or by the API alone; `restore` of the types while the API listens; restarts; the tab |
| `SettingsPage` | settings, users, collections; the form, the list | save, add and delete users, the first page of them, export, and `restore` collection by collection, for which the password counts only when the file holds credentials (`Sealed`) |
| `RulesPage` | rules, the page of them, the dialog, the targets it offers | the effects that reset the kind of target and load targets; save, edit, delete, which read the page again; turning pages |
| `Notices` | rules, notifications, the evaluation under way, the tab and the bell | `evaluateDiscoveryRules` rule by rule, mark one, mark all, count |
| `ScannerPage` | jobs, the page of them, the interval | `handleStartScan`, `fetchJobs`, the effect that sets the interval with the page of its render |

A button with a flag is disabled while the flag is set, so a second click needs the
first to end; where two handlers share a page they may still overlap. A handler that
outlives its page goes on and changes nothing (`ThingPage`, `LocalPage`).

## 3. What the runs show

### Runs that pass

| Run | Instance | Shows |
|---|---|---|
| `scan_queue_concurrent` | 4 jobs, 2 networks, 2 calls at once, depth 2, every fault | how far the limits can be exceeded (`QueueDepthBound`, `ActivePerNetworkBound`: by the calls in flight); `JobInOnePlace`; `StatusFollowsPlace`; `StatusForward`; `LifecycleSafe` |
| `scan_queue_live` | 2 jobs, 2 networks, 2 calls, no fault, fairness | every accepted job completes, because the fair `ScanLifecycle` is implemented (`LifecycleFair`) |
| `inventory_concurrent`: `Inventory` | 2 things, 2 scans and 1 check of which 2 overlap, 2 messages, rejected awaits and restarts | `UniqueMac`, `RegisteredStays`, `DeletedStays`, `DiscoveredNotMonitored`, `OfflineRecorded` |
| the same, `Serial` | 2 things, one handler at a time, 3 messages, no fault, users at every point | the history is as designed (`SerialHistory`): it alternates, its last event is the health, and the health changes only to what it says |
| the same, `Queue` | 3 jobs, 3 networks, one call at a time, every fault | the documented limits, exactly (`DocumentedLimits`): `OneScanPerNetwork`, `QueueDepthLimit`, `NoneCooling` |
| the same, `Settings` | 2 handlers, 2 requests beside the load, 2 users of which 1 is listed, 2 collections, 1 foreign write | `SettingsKept`: the page's start values are never saved over settings it could read; a restore is exact, one whose password does not open the credentials of the file clears nothing; and the page shows the stored settings and a page of the users |
| `instance_setup`: `Instance` | 2 setup calls, 1 restore, 1 reader, 2 names, rejected awaits and restarts | `CompleteHasAdmin`, `SetupEffective`, `SettingsBound`, `RestoredWithData` |
| the same, `Types` | 1 seed, 3 identities, 2 slugs, any types at the first start, 1 backup, 2 handlers of the page and another administrator, 2 requests, 1 restart | `SlugsNameTypes`; `SystemTypesKept`; `TypedForIt`; `PagesShow` |
| the same, `Group` | 2 things, 2 groups, 1 member listed, 2 openings of the dialog, 2 lists at once, 1 foreign write | an assignment touches no other group (`OtherGroupsKept`); what it reports is so, and the members are shown (`PagesShow`) |
| `session`: `Session` | 2 tabs, 2 calls at once, 3 tokens, 1 login | a token has at most as many successors as refreshes overlap (`SuccessorBound`); a new token is not lost from the browser unless a call fails (`TokenKept`); `QuietLogout`; a page spins only for a request (in `PagesTypeOK`) |
| the same, `Local` | 2 networks of which 1 is listed, 2 texts, 2 handlers, 3 requests, 1 foreign deletion | `WritesAsAsked`: what is typed for a network does not reach another, and none is created in a local that was gone; `PagesShow` |
| the same, `List` | 2 things, pages of 1, 2 calls, 3 clicks, 1 foreign write | `WritesAsAsked`: nothing is deleted that was not confirmed; `PagesShow` |
| the same, `Rule` | 2 rules, pages of 1, both conditions, 2 handlers, 3 requests, 1 foreign deletion | `WritesAsAsked`: a rule gets what was typed for it and a target of its kind; `PagesShow` |
| `thing_page`: `ThingPage` | 2 windows, 2 handlers, 2 groups, 2 parts of the credentials, each typed or empty, 1 channel | `NoDuplicateGroups`; `RevealCurrent`, also of what a save has emptied; `PagesShow` |
| the same, `Notice` | 2 devices, a rule that matches and one that does not, 1 scan, 1 edit of the rules, 2 clicks | one notification for each match (`NoticePerMatch`); nothing is shown as read that is not, and the bell counts (`PagesShow`) |
| `scanner_page` | 2 requests at once, 2 jobs, pages of 1, 4 clicks, fairness | `ScreenFollows`: the end of a job reaches the screen, and so does the page the user turned to; `ScannerPageTypeOK`: the button and the spinner wait only for a handler that releases them |

`PagesTypeOK`, `PagesShow`, `WritesAsAsked`, `SettingsKept`, `SlugsNameTypes`,
`SerialHistory`, `DocumentedLimits` and `ScreenFollows` are conjunctions: their parts, one
for each page or concern, are named and explained in the modules they are about, and the
`MC...Pages` modules put together those of the modules they run. `PagesShow` says of each
page: used alone, one handler at a time, none failed, it shows what is stored once it
settles, because its handlers read again what they changed. For a page with a list that
is what its one request brings: the page of rows it is on (`ThingsPage`, `RulesPage`,
`ScannerPage`) or, where the page has no buttons to turn, a first page (`LocalPage`,
`GroupPage`, `SettingsPage`). `PagesTypeOK` is the
type invariant, with what makes a button or a spinner come back: it is busy only
while the handler that will release it is under way.

The concurrent and the serial checks of a module belong together: the first says what
is left when calls or handlers overlap, the second that the stronger, documented
property is lost to the overlap alone and to nothing else. `NoneCooling`
depends on an order that is easy to change: with the cooldown check before the
active check (the mutant) a scan may complete between the two.
`OfflineRecorded` is what writing the event before the document buys.

### Runs that find the code or a document wrong

| Run | Finding |
|---|---|
| `scan_queue_exclusive` | two calls of `discover` for one network, at the same time, are both accepted; the design allows one scan per network and promises 409 |
| `scan_queue_stuck` | a job whose scan raises stays `queued` for ever (and its network answers 409): `failed` is never assigned |
| `inventory_diverges` | a scan and a check that overlap write event and document in opposite orders: the history says one health and the thing another |
| `inventory_identity` | a MAC address written in lower case is another MAC address to `findByMacAddress`: the next scan makes a second thing |
| `instance_restore` | a restore at the first boot removes the users, cannot insert those of the backup (no passwords), and has already completed the setup: nobody can log in and the wizard is closed |

### Known differences

Seen while modelling, modelled as the code does it, and not given a run:

- The queue depth is exceeded by concurrent calls, as `QueueDepthBound` says, against
  the design's limit; a job becomes `running` and gets its `startedAt` when the scan is
  over, against "when execution began" (design, line 179); after an event whose document
  could not be written, the next check records the transition again, against "only
  records transitions"; new things are created `online`, against `unknown`
  (`2026-03-26-batch-fixes-v1.md`); hosts without a MAC address become a new thing with
  every scan.
- A thing made by hand is `discovered` by the schema's default, so delete-all-discovered
  removes it; the dialog speaks of things "found by scan but not registered"
  (`frontend/messages/en.json:301`).
- Deleting a local leaves its networks; the dialog says they "will also be removed"
  (`en.json:270`).
- A restore leaves a collection alone that is empty in the backup
  (`backup.service.ts:97`); the dialog says it "will replace" the collections
  (`en.json:220`). The page does not read the types again after it.
- The pages of a local, of a group and of the users ask for one page of 20 and have no
  buttons for the next (`locals/[id]/page.tsx:67`, `groups/[id]/page.tsx:65`,
  `settings/page.tsx:136`): a 21st network, member or user is stored and not shown. The
  dialog of a group offers a member that is past the page again; assigning it changes
  nothing. The tab of the rules turns its pages, but a page emptied by deletions shows
  no rule, and with one page left no button to go back.
- A save that types one of the credentials empties the others (`things.service.ts:122-128`
  stores `''` for each that was not typed), and every load of the page empties the form:
  who changes a password alone loses the user name and the notes. What a page
  shows afterwards is what is stored (`RevealCurrent`).
- The password of a backup opens only the credentials in it (`backup.service.ts:82-91`):
  without any, a file is restored with any password. The tab speaks of a
  "password-protected backup of all data" (`en.json:211`, `src/README.md:42`).
- A seed whose slug a user's own type holds is left out at every start
  (`thing-types.service.ts:40-41`), so a system type may not exist; `update` has no check of
  `isSystem` (73-83), so the API renames one, though the page does not; and a restore
  removes all types while the API listens (`backup.service.ts:96-98`), those of the system
  until the next start.
- A rule for a local never matches a scan, though the dialog offers locals
  (`notifications/page.tsx:39`), and rules for a status or an offline duration are
  evaluated by nobody (`src/README.md:38`).
- A logout that overlaps a refresh leaves the new token alive, and a refused second
  refresh of two tabs logs out a session that another call has just renewed.
- A rule without a target can be created but not edited: the empty target is refused.
- Two windows on one thing undo each other's groups and channels.

### Bounds, and why they are enough

- `Jobs` bounds the job documents: 4 fill a queue of depth 2 and leave 2 for the
  calls that race past the check. When they are used up the model stops where the
  system would not, so the `ScanQueue` configurations do not check deadlock.
- 2 calls at once show every race of check-then-act; the two bounds are stated
  with the number of calls and proved for any number.
- 3 networks in the serial check of the queue keep one cooling, one waiting and one scanned.
- `MaxMessages` bounds the handlers of a behaviour, `MaxRunning` those that
  overlap: two handlers that hold stale documents, and users in between. 3
  messages were also explored once, with the same result. Three messages in the
  serial check let a health change, and change again.
- 1 collection in `instance_setup` keeps the run short: the order that matters is
  data before settings before users; `instance_restore` has 2.
- One restore at a time: `RestoredWithData` says so. Two that overlap clear each
  other's collections, which the wizard's disabled button makes unlikely and the
  code does not prevent.
- On the pages 2 handlers at once show every pair of answers that overtake each other;
  `MaxStarts`, `MaxClicks` and `MaxOpens` bound how many requests follow each other, and
  leave room for a write, its reload and a request in between. `MaxOthers` is 1: one
  foreign write between the read and the use of a copy is what makes it stale.
- Pages of lists hold one row (`Limit`), so that two things, rules, networks, users or jobs are
  more than a page. A first page without an order in the code is any of that many.
- Of the thing types there are one seed and a slug of a user's own, each of which a type of
  either kind may hold at the first start; one backup, of a user's type that holds the slug
  of the seed, is what a restore can do to both.
- Two parts of the credentials, typed or empty, tell a form that replaces the record
  from one that merges into it. A thing is created with all of them (`Given`).
- When the bounds are used up a page may have nothing left to do, so these
  configurations do not check deadlock.
- Symmetry is used for safety only, on sets whose members the specification
  treats alike.

### Fairness

`LiveSpec` of `ScanQueue` assumes weak fairness of each call (the event loop runs
every continuation that is ready), of the worker's loop (`brpoplpush` returns
while a job waits), of delivery, and of each handler. Weak is enough: none of
these steps, once enabled, is disabled by another. Nobody has to call
`discover`, no fault has to happen, and no network has to cool down for an
accepted job to complete. `scan_queue_stuck` uses the same fairness, so its
counterexample is not a system that just stops.

`LiveSpec` of `ScannerPage` assumes weak fairness of the API or the network (a request
is answered or fails) and of the browser (an answer is met), and strong fairness of the
interval, of the answered list and of its arrival: an interval fires again and again,
but finds no free slot while other requests are under way, and reads asked for for
ever do not all fail. That a job ends is not assumed.

## 4. What is proved

For every value of the constants, under the `ASSUME`s next to them (finite sets of
jobs, calls, and so on; a queue depth of at least one; model values apart from
`"none"`). The `MC...Pages` modules give their constants no values, so a theorem about
their `AllSpec` holds for any number of handlers, windows, users, types or rules, too;
the bounds on requests (`MaxStarts` and the like) are only numbers there. Each proof
module says of a component: the initial states are in the invariant, every action keeps it,
one step for each, and the invariant implies the property.

**ScanQueueProofs.** `TypeCorrect`, `OnePlace` (`JobInOnePlace`), `StatusAgrees`
(`StatusFollowsPlace`), `DepthBounded`, `NetworkBounded`, `ForwardOnly`
(`StatusForward`) and `ImplementsLifecycle` (`LifecycleSafe`). The inductive
invariant is `PlacesInv == TypeOK /\ JobInOnePlace /\ StatusFollowsPlace`. Neither
of the last two is inductive alone: that a popped job is `queued` and has no
result needs that it was nowhere else, and that the worker publishes nothing twice
needs the status. Forward steps and the refinement follow from it action by
action: a handler marks only what is queued and has a result. The two bounds
need no places: they count, beside the jobs, the calls that have passed the check
(`PastDepthCheck`, `PastActiveCheck`), which makes each inductive; a call trades its
place for a job when it creates one. `LimitsHoldForOneCall` assumes one call at a time
and nothing else: the two bounds are then the documented limits, and no job is
created for a network that cools down, because of `Fresh`: between the cooldown check and the
creation a job of the network would have to complete, and the active check, which
came before, has found none.

**InventoryProofs.** `TypeCorrect`, `MacsAreUnique`, `OnlyRegisteredMonitored`,
`OfflineHasEvent`, `RegistrationStays`, `DeletionStays`. The invariant is
`IInv == TypeOK /\ Holds /\ Unmonitored /\ Recorded /\ UniqueMac`. `Holds` says what
handlers may hold: a scan only things that were created, a check only things
that were registered when it read them, and since nothing unregisters a thing,
still are. `Unmonitored` and `Recorded` are the two properties for deleted things
too, and for what a check is about to write. `HistoryIsExact` assumes one handler at a
time and no fault, and adds `SerialInv == Alone /\ ScanTold /\ CheckTold /\ LiveTold
/\ HistoryAlternates`: what a check has read of a thing is still its health and its
last event (`CheckTold`), a scan that is about to record has found the thing not online
(`ScanTold`), and only the thing a handler is about to update is behind its history
(`LiveTold`).

**InstanceProofs.** `TypeCorrect`, `CompletionHasAdmin`, `SetupTakesEffect`,
`SettingsAreBounded`. The invariant is `IInv == TypeOK /\ Pending /\ Behind`.
`Pending` gives every call that is about to add a settings document a place of its
own beside the documents that exist, among as many places as there are calls;
`Behind` says what a call has achieved by the place it is at: an administrator
before `markSetupComplete`, a document before `update`. `RestoreIsWhole`
(`RestoredWithData`) is for restores that do not overlap (`RestoresApart`, as in the
run). Its `DataFirst` says how far a restore has come: the collections behind it are the
backup's, and it reaches the settings only when all are.

The same module proves of the thing types and the group page `PagesTyped` (`PagesTypeOK`), `SlugsNameOneType`
(`SlugsNameTypes`), `SystemTypesAreKept` (`SystemTypesKept`), `FormsLandWhereTyped` (`TypedForIt`), `PagesShowStored`
(`PagesShow`), `AssignmentKeepsOthers` (`OtherGroupsKept`). Their invariants are
`TypesInv` and `GroupInv`. Of the types it says that no two have one slug and that each holds
what was typed for it, as do the dialog and every request, and, until the API is asked to
rename a system type or to restore the types, that whatever names a system type leaves it
(`LeftAlone`): every copy of the list, however old, and the dialog have its slug, a check
has not let its deletion pass, and what is to be created is new. Of the group page it says that a PATCH that was
answered has put its thing in the group (`Arrived`), which the requests an earlier failed
assignment left behind must not undo; that every copy of a thing's groups agrees with the
stored ones but for this group, until another window writes (`Copies`); and that the
members are read only when nothing is being assigned (`MembersFollowed`).

**SessionProofs.** `SessionTypeCorrect`, `TokenStaysGood` (`TokenKept`),
`LogoutIsComplete` (`QuietLogout`), `SuccessorsAreBounded` (`SuccessorBound`),
`SpinnersStop` (`SpinnerWaits`, a part of `PagesTypeOK`), for any number of tabs, requests
and tokens. Each has an invariant of its own, on top of `Typed`:
the tokens issued are always `1..n`, so that a new one is new to the store, to the
browser and to every request. `KeepInv` adds to `TokenKept` that a token a request has
been given and not yet stored is in the store of the API and in no other hand
(`Pending`): without it a late answer could put a dead token back. `SuccInv` counts,
for each token, its successors with the requests that have found it and not yet
replaced it; they trade one for the other, and no more can find it once it is deleted. `Quiet`
follows a logout that started alone to its end, and `Restoring` says whose request will
stop a spinner. What a step does to the requests is stated once, field by field, in
lemmas about the effects of each action, which the five proofs share.

**SessionPagesProofs.** `PagesWaitForHandlers` (`PagesTypeOK`), `QuietPagesShow`
(`PagesShow`) and `NothingUnasked` (`WritesAsAsked`, with its action property
`DeletesAsAsked`), for a local, the list of things and the rules; a behaviour of the
composed module is one of `Session` too (`SessionRuns`), so its theorems carry over. Each
page has a part for its data and a part for the page used alone:

- `LocalInv`: an open dialog holds what was typed for its own network, and so does every
  request made from it; `Late` says that a network asked for after the local was gone is not
  on its way to be created.
- `ListInv`: a page of things has no more rows than its limit. `RowsFit` proves it
  from the order of the things: the number of things before a thing on the list grows
  strictly along it.
- `RuleInv`: a form, in the dialog, in a request or in a list, has a target of its kind
  unless a load of targets failed or was overtaken (`Fits`), and what was typed for its own rule.
- `LocalCalm`, `ListCalm`, `RuleCalm`: while the page is used alone there is at most one
  handler, and either it owes a reload or the page shows what is stored. The
  property at rest alone is not inductive: it says nothing while a write is
  under way.

**ThingPagesProofs.** `NeverTwiceInAGroup` (`NoDuplicateGroups`), `RevealsWhatIsStored`
(`RevealCurrent`), `PagesWait` (`PagesTypeOK`), `PagesShowStored` (`PagesShow`), `OneNoticePerMatch`
(`NoticePerMatch`), for any number of windows, handlers, groups, rules and devices.
`ThingInv == Typed /\ BusyWaits /\ QuietPages`: every copy of the groups, wherever it
is, holds each once; a flag is set only for a handler that will reset it; and an
undisturbed window that writes is the only writer, reads the thing again with no
credentials revealed, and otherwise shows what is stored. The credentials a thing is created
with are any (`GivenAreCredentials`). `NoticeInv` follows the
evaluation: what is `due` is stored, once, or still to be created, or lost with an evaluation
that failed (`Matched`); what the tab shows as read, or was asked to mark, is stored so (`Asks`,
`Tab`); and the bell counts once and has the stored number unless an answer is still due (`Bell`).

**InventoryPagesProofs.** `SettingsAreKept` (`SettingsKept`), `PagesTyped`
(`PagesTypeOK`), `HistoryStaysExact` (`SerialHistory`), `LimitsStayExact`
(`DocumentedLimits`). The invariant of the settings page is `SettingsInv == Typed /\
Defaults /\ Calm`: the form holds its start values only while it loads or when a load has
failed, and a save under way never does otherwise; `Calm` follows the restores: a
collection holds its own documents, none or the file's, by the place of the loop. Assumed
is that the collections are a sequence, in any order, with the things among them (`CollectionsInOrder`). The other
three theorems carry what is proved of `Inventory` and `ScanQueue` alone over to the module
that runs one of them. A behaviour keeps to its module (`KeepsTo`), so it is one of that
module's specification (`RunsSerial`, `RunsQueue`, `RunsInventory`); the proofs are
instantiated with the same parameters (`SerialProofs`, `QueueProofs`), and the instance
they speak of is shown to be the one that runs, action by action (`SerialIsInventory`,
`QueueIsScanQueue`). What an instance assumes of its constants follows from what the
composed module assumes of its own. `LimitsStayExact` has the hypothesis that there is one
call, `Cardinality(Requests) = 1`, as in the run; `HistoryStaysExact` needs none,
since one handler at a time and no fault are what the instance `Serial` is.

**ScannerPageProofs.** `ScannerTyped` (`ScannerPageTypeOK`), `PollsWhatItShows`,
`ScreenIsNeverAhead`, for any number of jobs, requests and clicks. The invariant is
`PageInv == Typed /\ Waits /\ Polls /\ Behind`. `Waits`: the button waits for one
handler and the spinner for a list that was asked for. `Polls`: the interval is set if and
only if an active job is on the screen; with it the screen that stays behind is one that
is being polled, the part of `ScreenFollows` that is not liveness. `Behind`: every list,
on its way or shown, is of jobs that exist, none shown as ended that has not ended; since
a job never goes back (`JobsGoOn`), an answer that is overtaken is only old.

Model-checked only:

- Liveness (`LifecycleFair`, `ScreenFollows`): it needs fairness and `ENABLED`, which are
  out of this prover's reach.
- The five findings, which are counterexamples.

## 5. What is not modelled

- I/O and presentation: nmap and name lookups (their result is any set of hosts),
  UI components, the map, logging, encryption.
- The polling of the health checker and `getNetworksToCheck`: their result is any set of
  hosts in `Inventory`.
- The uptime computation, which has no state of its own, and the expiry of events.
- Host names, vendors and ports of things; passwords and their hashes.
- The lists of locals and groups, the dialog that creates a thing, and the edit and
  deletion of a group: forms whose handlers are those of the modelled pages again.
- The migration at the start of the API, whose effect is the library's.
- The gateway: nothing emits its events, so the bell and the pages are pushed nothing.
- Time, except the cooldown: intervals and debounces only say that something may happen.

## 6. Plan

Done: the core (`ScanQueue`, `Inventory`, `Instance`) and the sessions with their proofs, and
the pages with the parts of the API they use, with theirs. What is left, in this order:

1. `HealthCycle`: health checker, `getNetworksToCheck` and monitor over the things of
   several networks, with failing scans; composed with `Inventory`'s verdict. To
   state: what is set offline was looked for. Fairness: the checker's loop.
2. `Uptime`: `calculateUptime`, `getAverageUptime`, `parseRange` and the segments of
   the uptime bar as functions, against a reference that sums instants, over all
   short event sequences. Written with folds so that lemmas can be proved.
3. The composition of `ScannerPage` with `ScanLifecycle` instead of its own `Ends`.
