# listr: a verification development in TLA+

listr is a shared-list application. Devices keep their boards, lists and items in
IndexedDB, work offline, and exchange whole documents with one or more servers over
WebSockets under last-writer-wins. The server keeps the latest version of each document
in SQLite, decides who may connect, and calls outside services that enrich items.

This directory holds TLA+ modules translated from the source, TLC configurations that
check them on small instances, and proofs checked by TLAPS that the main properties hold
for every value of the constants. `PROJECT.json` maps each definition to the lines it
stands for. Paths below are relative to `src/packages/`.

## 1. Inventory

| Component | State it keeps | Operations | Source |
|---|---|---|---|
| Entity store | `boards`, `lists`, `items`, `assets`, `tombstones`, `asset_keys` | push_entity, push_delete, re-key, what a pull selects | `server/src/db.ts` |
| Sync sessions of the server | per socket: handshake, user, keys; per key: subscribed sockets | hello, auth, pull, pushes, broadcasts, key and grant messages, close | `server/src/index.ts` |
| Sync client | per key: cursor; per server: connection, `ws`, retry timer | initial sync, live push, merge, forced resyncs, election of a primary | `client/src/sync/` |
| Device database | the tables of IndexedDB | user operations, merges of incoming documents, tombstones | `client/src/db/`, `client/src/sync/mergeLogic.ts` |
| Integration runner | result rows, queue, jobs map, daily counters | item and board changes, ticks, calls, answers, restart | `server/src/integration-runner.ts` |
| Identity and grants | users in a tree, clients, keys, grants, redemptions | issue, redeem, peek, expire, claim, the operator's commands | `server/src/db.ts`, `server/scripts/auth-cli.ts` |
| Key scoping and sharing | `sync_key` of boards, lists, items; bindings of boards to servers | share, move, join, leave | `client/src/sync/pushRouting.ts`, `keyScoping.ts`, `client/src/db/keyCleanup.ts` |
| Endpoint connections | per endpoint: socket, phase, timers; per server: primary and standbys | connect, retry, time out, take over, force a resync, reconfigure | `client/src/sync/SyncClient.ts` |
| Order of items | `after_id` links | insert, move, delete, heal, the operator's scripts | `client/src/db/operations.ts`, `client/src/hooks/`, `shared/src/migrate-after-id.ts` |
| Migrations | schema versions, columns, converted formats | each statement, start, stop, the bridge from the old database | `server/src/db.ts`, `client/src/db/database.ts` |
| Export and import | a file, an import under way | write, preview, apply, push | `client/src/db/exportImport.ts` |
| Format language | programs of a board and its lists | parse, check, evaluate, save | `shared/src/format/`, the two forms |
| Overlay and OMDb | a result, its options, the pick | look up, choose, pick, show, edit settings | `shared/src/integrations.ts`, `server/src/integrations/omdb.ts` |
| Console API and monitor | records of connections and runs, event replay, a tab's page | record, answer, subscribe, fetch, pause | `server/src/console-api/`, `server/console/src/` |
| Others | | user interface, AI import, join dialogs, configuration, command line | see `PROJECT.json` |

How they interact:

* A user operation writes IndexedDB and then pushes to the server of the board's key. If no
  connection is ready the push is dropped: there is no outbox. The initial sync of the
  next connection compares the stamps of all rows and tombstones with the cursor of the key.
* The server handles a message to the end before the next one. It clamps the stamp, lets the
  store decide, and broadcasts what was accepted to the other sockets of the key. A pull
  answers with what was edited since the cursor, and the server's time becomes the cursor.
* The device handles messages as they come, without waiting for the merge of the one
  before; what orders merges, user operations and tombstones is IndexedDB's queue per store.
* An accepted item or board goes to the runner, which writes a result row and broadcasts it.
* Authentication and redemption of a grant both end in `completeAuthentication`, which
  subscribes the socket to the keys of the user. The operator's tool changes the same
  database from another process, and tells no socket.
* A result reaches the devices like any document. They lay it over what the user has typed, by
  the rules of the board's settings and of the user's pick.
* The client routes each push by caches of its tables (which board, key and server), which follow the
  tables with a delay, and by which endpoint is the primary one of a server.
* The console reads the monitor's records and the store, and learns of changes from an event stream.

What is hard in this code, and which properties it calls for:

* Stamps come from device clocks, the cursor from the server's; both are compared. (Nothing a
  user did may be stranded behind the cursor; devices agree in the end; skewed clocks
  cannot make a version unbeatable.)
* Documents move between keys and are deleted by id, in any order. (A namespace holds the
  same on both sides; a deletion is heard by all; an asset is visible wherever its document is.)
* Read-then-write over two IndexedDB transactions. (No version is replaced by an older one;
  each edit is pushed.)
* Sockets that are replaced still deliver their close event. (One primary per server, on an open
  socket; some endpoint connects in the end.)
* Operations read some of their input from the screen and some from the table. (Each item is shown
  once, where it was put; all that was relinked is pushed.)
* Calls that last seconds while the item, the board or the results of other modules change.
  (No trigger is lost, cascades end, nothing is counted twice.)
* Grants with uses, attempts, expiry and an effect that may fail. (Each use is accounted
  for, capabilities only come from above.)
* Two maps and a set per socket kept in step by hand. (A connection acts only for whom its
  client may act for.)
* Conversions that run on server and device apart, and may be cut short. (Nothing is dropped; copies agree.)
* Work in many steps without a transaction. (An import that ends leaves what the file says.)
* Pages fetched and updated by events at once. (At rest a page shows what the server would answer.)
* A static check that promises something of evaluation. (What passes it does not fail on any item.)

The full list, at the lines where it bites, is under `hazards` in `PROJECT.json`.

## 2. Modules

```
LwwRegister <--refines-- ListrStoreHistory --> ListrStore <-- ListrSync
ListrDeviceDb           (the merge step of ListrSync, between its awaits)
ListrEndpoints          (the connection of ListrSync, one per server)
ListrSharing            (many keys and servers; the exchange of ListrSync in one step)
ListrChain <-- ListrItems, ListrTransfer
ListrRunner             ListrOverlay (what a job asks and answers, what readers see)
ListrGrants <--refines and extends-- ListrSessions
ListrFormat             ListrFormatParser
ListrConsole            ListrMigrations
*_proofs                theorems about the module of that name; ListrSessions_proofs also has those of ListrGrants,
                        ListrParts_proofs those of ListrConsole, ListrOverlay and ListrDeviceDb, and
                        ListrStore_proofs those of ListrStoreHistory
MC*                     instances for TLC
```

**ListrStore** is the entity store. `row`, `tomb` and `assetKeys` are the tables; `now` is
`Date.now()`. One action per handler, as handlers of the server run without an await:
`UpsertEntity` is the disjunction of the exits of `upsertEntity` in the code's order (format
gate, stale check with or without a re-key, tombstone check, write), `ApplyTombstone` that of
`applyTombstone`. A blob is abstracted to a content of which the store knows whether its
schema version is current and which assets it references. `EntitiesSince` and
`TombstonesSince` are the two queries of a pull.

**LwwRegister** is what the store promises: a register that remembers the set of operations it
received and shows a winner among them. **ListrStoreHistory** adds that set as a history
variable to the store, and the mapping under which the store refines the register.

**ListrSync** is the protocol on one namespace: devices with tables, a cursor and a connection;
the server over ListrStore. A connection is two FIFO channels; a drop loses what they hold.
`doInitialSync` is cut at its awaits (`stage`): rows are pushed, then tombstones, then the pull
is sent, and user operations and incoming messages come between. `HandlePull` leaves out a key
whose answer does not fit `MAX_PULL_ENTITIES`. `world`, chosen once, says what clocks, network
and users may do; it is environment, so it has no line in the code.

**ListrDeviceDb** opens the merge that is one step in ListrSync: one entity, a queue of
requests per IndexedDB store, and the handlers as chains of requests. Running the first request
may append the handler's next one at the end. `timing`, chosen once, says which handlers may overlap.

**ListrRunner** is the runner on one board. The jobs map, the queues, the rows and the counters
are variables. A handler waits until the pump of the one before is done (`HandlerDone`), since
`enqueue` pumps synchronously; only the answer of a call comes later. Dates are abstracted to
"pending" or "due". `link` says which module's inputs depend on which other's values. The history
`missed` records waiting jobs a restart took; `crossed` records items on which a cascade triggered a
module after one that reads it, and which the chain keeps from looking again.

**ListrGrants** has one action per transaction of identity: the operator's commands, the grants'
lifecycle, keys of users. Right or wrong secret is a boolean of the redemption. History:
`offered`, `minter`, `extra`.

**ListrSessions** composes it with the sockets. `conn[x]` is what the closure of a socket holds,
`routes` is `keyToClients`. A hello may be said again at any time, on an authenticated socket too: it
replaces the client and the declared keys and leaves the user (its awaited thumbprint is folded in). The
verification of a signature is under way for the client that was captured when it started, and its outcome
is a step apart: wrong, known, or the claim of an empty server. `completeAuthentication` is an action of its own that nothing can
come before (`HandlerDone`). Home keys are written as their user's id and `Key` has the shared ones, so keys and
users are disjoint; what `homeKeyToClients` tells the other sockets of a user is left out. History: `vouched`,
the clients that signed on the socket or got an account there, and `linked`, the issuers of the device links redeemed there.

**ListrEndpoints** has the sockets of every endpoint. All maps of the client are fields of one record,
`client`; a callback is an operator that transforms it, so that the nesting of calls is the code's
(`ReleasePrimary` within `Closed` within `Progress`). A socket that was closed or replaced stays,
disowned, until its close event has come; `stray` remembers that a connection was stopped that left another
socket open than its current one. What a ready socket sends is left to ListrSync.

**ListrSharing** has boards, one list and one item under home and shared keys. `mem` holds the
client's caches, which `Refresh` brings up to date some time after the tables. Per server and key a
member who is always connected shows what it was sent. A home key is written as its server. `world`,
chosen once, says which operations occur and how patient the user is.

**ListrChain** has the pure algorithms on `after_id`: the walk that gives the order, healing, the patches
of every operation, and the operator's two scripts. **ListrItems** lets two devices use them: an operation
is a handler of the page with all its writes and pushes; `seen` is the screen, redrawn after the table.
`plan` is the history of what users wanted, kept while each operation was made on what its user saw.

**ListrTransfer** writes a file and reads it back: `job` says how far the import is, and a reload may cut
it short between any two steps. **ListrMigrations** runs `SCHEMA_SQL` and migrations 1 to 9 statement by
statement (`Script`), the versions of the device's database, and the bridge between its names. Tables
are their sets of columns, with rows where a migration reads rows.

**ListrFormat** has programs as records of `ast.ts`: what the checks report (`Errors`), what evaluation
runs into (`Faults`), and the forms that save. **ListrFormatParser** is the recursive descent on tokens,
as functions on positions, with its diagnostics and its recovery.

**ListrOverlay** has one item: the lookup of its title, a step per answer of OMDb, the options and
the pick, the values a reader sees, and the settings as lines of a file.

**ListrConsole** has the monitor's records, the event stream with its replay, what each page asks, and one
tab that fetches, merges events, throttles, pauses and reconnects.

Recursion is written with recursive functions and folds, except in ListrFormat and ListrFormatParser, whose
mutually recursive descents are RECURSIVE operators; no theorem is about them.

Definitions called "Mutation of ..." are variants with a plausible bug; nothing but the
mutants listed in `PROJECT.json` uses them.

## 3. Runs

All bounds are constants in the `.cfg`. In every module deadlock means that users stopped acting
and the bounds are used up, so it is checked only in the store, whose handlers never block.

| Run | Checks | Instance |
|---|---|---|
| `store` | ReferencedAssetsVisible, NeverRegresses, ImplementsRegister | one item, one asset, two keys, three blobs (plain, with a reference, legacy), clock to 2, allowance 1, four operations |
| `sync` | NothingStranded, FullResyncAgrees, SettledAgrees | two devices and four worlds, below |
| `sync_live` | UploadsComplete | clocks ahead, one drop, two operations, fairness |
| `device_overwrite` | NeverOlder, violated | timing `edits` |
| `parts` | the properties of seven small modules, below | one part acts in a behaviour |
| `runner` | JobsAccounted, IdleUpToDate, OrphansRetried | two items, one module, limit 3, three edits, one midnight, one restart |
| `runner_cascade` | IdleUpToDate, RunnerRests | one item, two modules under three links, no limit, fairness |
| `grants` | UsesAccounted, CapsHandedDown, Forest | three users, two clients, two grants of every kind, two attempts, two actions of the operator |
| `sessions` | ActsForOwner, KeysAreRouted | two sockets, two clients, two users, one grant, one key, two hellos, one action of the operator |
| `items` | ShownAsPlanned, OneChain, PushedWhole | two devices, two lists, four ids, a clean and a legacy table, two operations and a drag of the inline row |
| `endpoints` | OnePrimaryPerServer, Reconnects | two endpoints, three servers of which one is of another variant, five sockets (for fairness), one failure, one resync, one change, fairness |
| `sharing` | NamespacesAgree, DeletionsHeard, LeftStaysLeft, BoundStaysHome, OnlyMembersSee | two boards, a list, an item, two keys, one or two servers, three to five operations in six worlds |

`parts` puts modules of small state spaces side by side; the first choice of a behaviour is which one
acts, and the others keep the smallest state they can, so it checks each as if it were alone.

| Part | Properties | Instance |
|---|---|---|
| ListrDeviceDb | QuietAgrees, QuietShowsLatest, NeverOlderApart | clock to 5, three operations of the user, timings `serial`, `stream`, `pairs` and `deletions` |
| ListrConsole | PageCurrent, BodiesAccounted | seven kinds of page in eleven worlds, two runs kept, three events replayed, a budget of three characters |
| ListrMigrations | UpgradeKeeps, CopiesAgree | files of three eras, device copies of versions 1, 3 and 6, boards and lists of equal and different stamps, bridges with and without data |
| ListrTransfer | ImportRestores, ImportTells | three shelves, two actions of the user before a file is read, one new item |
| ListrFormat | CheckedRuns | programs of two definitions with up to three forms each, two toplevels, three wraps, two tooltips; two attributes, one of which changes its type; a list with one part of its own |
| ListrFormatParser | ErrorsStayLocal | two toplevel lines, two directives of three, two definitions of eleven, seven of which are malformed |
| ListrOverlay | PickShown, NothingForgotten | three films, two titles, four boards with settings as line and as table, three edits (a title, a pick, another pick), one change of the board, one failure |

Why the bounds are enough. *Store*: an allowance of one and clock readings 1 and 2 give stamps before, at
and after each other, and stamps that the clamp makes equal; two keys are what a re-key needs, and
the asset may come before or after what references it. The proofs remove these bounds.
*Sync*: `IdleDrops` (clocks ahead, drops that lose no message, two operations and two drops or
resyncs) is where stranding could occur without loss; `Losses` (different clocks, three
operations in two ticks, one lossy drop) and `LongLosses` (two operations in three ticks) need a
resync to heal; `Steady` (equal clocks, two entities, no drop,
devices that connect at different times) is where convergence is due. Two devices are one that
writes and one that must hear of it; each argument of the code concerns one device and the server.
*Device*: a version, an edit, a second version and a deletion, with ticks between them, fit in
five. *Runner*: an item whose job runs, another whose job waits behind `max_concurrent` = 1, and three
edits: one starts a job, one dirties it, one drops or reconfigures the integration meanwhile.
Two modules suffice for a cascade that comes back. *Grants*: a chain of three users is as deep as
`MaxTreeDepth`; two grants let a user act on one made by another redemption. *Sessions*: two
sockets of two clients, so that a socket of the same user and one of another are both there; two hellos are one
on each socket, or one that comes while the signature of the other is verified or after it.
*Items*: a relink touches an item, the one it leaves and the one it joins, so that three or four items in
two lists have every neighbourhood; the second operation meets what the first one linked, on the same or
the other device. *Endpoints*: a primary and a standby are two endpoints of a server; the second
server is what an address may lead to after a change, the third what the handshake turns away. The sockets are not
bounded; fairness is stated for five, and no state of the run has others. *Sharing*: two boards, so that a list can move and one key may belong to two;
five operations create a board with its children and share, move and delete it;
four of the worlds keep clear of what section 5 says, in two the caches are behind at any time. *Migrations*: every
stop between two migrations is there, since the number of starts is not bounded. *Format*: two definitions
call each other with and without arguments. *Parser*: recovery concerns the failed piece and the one after it.

What the less obvious properties say:

* `NothingStranded` has the condition under which the code can keep it (`Lossless`): nothing drops; or
  drops lose no message and clocks run ahead of the server, so that what is done after a snapshot is
  stamped after it. Without the condition it fails (section 5). `UploadsComplete` is its liveness half.
* `SettledAgrees` speaks of the moment when everybody is connected and nothing is under way, in worlds
  (`Calm`) without drops and deletions, with equal clocks and a key that fits the budget of a pull.
* `FullResyncAgrees` uses the history `exact`: a full snapshot was sent and neither side wrote since.
* `WithinAllowance`, in all three: no clock is further ahead than `MAX_CLOCK_SKEW_MS`. Beyond, the server
  stores a stamp that is not the device's, and device and server disagree about it for good.
* `QuietShowsLatest` says that when nothing is under way in the device's database, the row, or else the tombstone,
  is at least as recent as the latest message: if handlers do not overlap, with the user's edits and deletions
  between them, and if versions arrive back to back. Where deletions overlap with versions it fails (section 5).
  `NeverOlderApart` is `NeverOlder` without edits that overlap with merges, for there it fails (`device_overwrite`).
* `QuietAgrees` is what remains of it then: an edit and a merge that overlap (`pairs`) may lose the edit, but on both sides.
  Once all is quiet the row is the latest of what the server sent and what was pushed, as `updateItem` pushes
  what it reads back. With several merges under way beside an edit it fails (section 5).
* `IdleUpToDate` says that when the runner has nothing to do, each result answers the inputs of now,
  or is unprocessed with an attempt pending. It is for boards on which no value that is read is taken away
  (`ValuesStay`) and spares `missed` and `crossed`; in each of the three cases it fails (section 5).
* `OrphansRetried` holds at any time: a row whose item is gone was written by a call that outlived
  the deletion, and has an attempt pending that removes it.
* `UsesAccounted`: uses left plus redemptions recorded are the uses offered, unless guesses burned them.
* `ActsForOwner`: the user a socket acts for, and every user whose home key it is subscribed to, is one a client that signed
  on this very socket is registered for, or the issuer of a device link redeemed on it. A second hello in another
  name, before, during or after a verification, changes nothing about that.
* `ShownAsPlanned` has the condition that each operation was made on what its user saw. `OneChain` has a part
  without it: whatever the links are, `resolveChain` shows each item once.
* `Careful` keeps the user of `items` clear of two traps of the inline row (section 5), and the worlds of
  `sharing` and of the console leave out what section 5 says of them: `anyKey`, `anyTime`, `apart`
  and `prompt`, commented where they are declared. `MaxChanges` and `MaxResyncs` are not both used in one run
  of `endpoints` unless `Tangled`. `OnePrimaryPerServer` is claimed until `stray`, which that run never reaches.
* `NamespacesAgree`, `DeletionsHeard` and `LeftStaysLeft` speak of rest (`Quiet`): caches refreshed,
  connections up, nothing pending, and the first two of worlds in which an operation ends before the caches are
  refreshed (`prompt`). `BoundStaysHome` and `OnlyMembersSee` hold at any time; the latter whatever the caches know:
  what is sent with stale caches goes where a board of the entity was at some time, or to the devices of the user.
* `PageCurrent` spares pages that missed more events than the server keeps (`tab.gap`).
* `UpgradeKeeps` is for stops between two migrations; `CopiesAgree` needs one version of a list's board.
* `CheckedRuns` is about what is saved, by a board's form or a list's: an attribute's values stay when its type changes.
* `ErrorsStayLocal` has the condition that what stands before the definitions is free of errors, and that one
  definition is malformed.

Fairness. `sync_live`: weak fairness of `Connect` and `Progress` per device. The event loops of
browser and server run on, and `scheduleRetry` reconnects five seconds after a close for as long as
it takes; the drops are bounded. Nothing is assumed of users, ticks or drops. `runner_cascade`: weak
fairness of `StartJob`, since `pump` starts what it can in every handler, and strong fairness of an
answer per item and module, since every call has a timeout and its continuation gets its turn
although handlers run in between. No fairness of edits, ticks or time; `RunnerRests` is conditional
on retries and refreshes no longer falling due.
`endpoints`: weak fairness of each socket's events and of each retry timer, which browsers deliver; none of
users, failures, resyncs or the connect timeout. `Reconnects` is for a configuration that stays what it is.

## 4. Proofs

Assumptions on constants are the named `ASSUME`s in the modules; TLC evaluates them in the runs.

* **ListrStore_proofs**: `StoreInv` is `TypeOK` with the four safety invariants, and is inductive.
  Every step is one of five cases (`StepCases`): a tick, a re-key, an accepted write, an accepted
  deletion, or nothing. The clamp gives a non-zero stamp within the allowance (`ClampBound`); a
  re-key keeps stamp and content and adds the associations of the stored blob, so that visible
  assets stay visible. `StoreNeverRegresses` follows step by step from `StoreInv`: a write beats both row
  and tombstone, a deletion beats the tombstone and what it removes.
  Of ListrStoreHistory, `TablesMatchHistory` with `StoreInv` is inductive, and says that the
  shown value is a winner among the operations received (`ShownWins`). Each accepted or refused
  operation is one receipt of the register; where two writes tie, the store keeps what it shows, as the
  register does. Hence `StoreImplementsRegister`.
* **ListrSessions_proofs**, first part, the identity store alone: users are only added and capabilities never taken away, so what a minter could
  hand down it still has; a grant keeps issuer and capabilities from issue to redemption and its
  capabilities lie within the issuer's (`GrantsWithinCaps`); minters are users. With
  `NothingRedeemedUnissued` these make `UsesAccounted`, `NoOrphanUser` and `CapsHandedDown` inductive.
  The proof is in two halves: what a step does to users (`RowRaised`, `RowAdded`) and to grants
  (`GrantRowChanged`).
  For `GrantsForest`, `Ranked` says that some rank falls on the way up from every user. Then the walk from a
  user meets nobody twice (`WalkDescends`), hence everybody above it within as many steps as there are users
  (`WalkIsShort`, by the pigeonhole principle); with no more users than `MaxTreeDepth` the guard of set-parent
  misses none of them, and what is below the moved user can be raised above its new place (`ReparentRanked`). With
  more users the property fails, as `MCListrGrantsDeep.cfg` shows (section 5). `Above`, a recursive function over the
  naturals, is reasoned about through the set of numbers where a claim fails, which has a least element
  (`AllNaturals`).
  Second part, the connections: every handler is a transaction of ListrGrants or leaves the store alone
  (`StepTransacts`), which carries `GrantsInv` over. `RoutesInv` (an
  open socket is in the route of each of its keys) is inductive with the types of the sockets, however often a socket authenticates.
  For `SessionsActForOwner`, `OwnInv` says of the user of a socket, of the one about to be completed, and of every
  user whose home key is routed to it that it is among `MayActFor`. Nothing is taken from that set, since a
  registered client never loses its registration; and what a socket is subscribed to beside shared keys is the home key of
  the user it is completed for. It is used that home keys are not shared keys (`SessionsAssumption`).
* **ListrEndpoints_proofs** assumes nothing about failures, resyncs or changes, nor how many sockets there are.
  `Well` is what holds at the end of every callback: the types (`IsClient`), and, until `stray`, `Sound`: a socket
  that nobody owns closes; a sender is its connection's own socket, open and past its handshake; who is ready has a
  connection to that server and a sender that is ready, hence can take over; each server that somebody is ready on has
  a primary among them, and no other. `Sound` does not hold halfway through a callback: `Sound(c, X)` spares the endpoints of
  X, whose socket has just been closed or replaced, until `Forget` promotes a standby (`ReleaseSound`) or `ClaimOrDefer`
  settles who is primary. One lemma per operator, one per event; the loops over the configuration are recursive
  functions, whose finite approximations exist (`VisitsExist`) and keep what each step keeps (`VisitsKeep`).
* **ListrSync_proofs** is in four layers, for any number of devices, entities, operations and drops. `BaseInv`:
  types, the store's own invariant, and what the channels hold at each point of a connection (`ChannelsOf`: a pull only
  after the tombstones, a snapshot only after the pull). `Devices`, for `SyncNothingStranded`: no stamp on a device
  or on its way will be clamped; what the server tells, it has (`MsgCovered`); an initial sync has sent what is
  stamped after its cursor up to its stage (`UploadedBy`); so that a snapshot, whose time becomes the cursor, comes to a
  device all of whose changes are stamped later or `Secured`. Without drops that lose messages `PendingAt` is kept
  as well, which is the property. `Exact`, for `SyncFullResyncAgrees`: while `exact` holds, the last message under way is all that
  the server has (`Current`), and the server covers what the device holds besides. `CalmInv`, for
  `SyncSettledAgrees`: each device has each version of the server, is being told it, or is still to ask (`Told`).
* **ListrRunner_proofs** begins with queues: sorting is a permutation, each item stands in a queue once.
  `Accounted` (types and `JobsOK`) gives `RunnerTypeCorrect` and `RunnerJobsAccounted`; `Orphans` adds that no job that runs
  for a deleted item meets a row, which gives `RunnerOrphansRetried`. For `RunnerIdleUpToDate`, `Idle` says of each result
  what keeps it from being forgotten (`Att`): it is up to date; or its job waits or is to run again; or the job runs and
  the row is unprocessed meanwhile; a refresh is only ever for a result that is up to date, and a job that will
  not run again runs on the inputs of now. `Chains` adds that no module in a job's chain reads what the job makes, and
  `OffUntouched` that what was never switched on has neither row nor job. Each action is a step on a pair (`LookIdle`,
  `StartIdle`, `StoredIdle` and so on), and each step is described once by an operator (`LookedAt`, `StartOutcome`,
  `AnswerOutcome`, `Ended`) that all layers use.
* **ListrParts_proofs** has three parts of the run `parts`. *Console*: `BodiesInv` is the types of the runs kept
  with `BodiesAccounted`. The count is a sum over a sequence, a recursive function (`Sums`), and the lemmas say what it
  does when a run begins, grows, loses its bodies or leaves the ring. `BudgetKept`: dropping the oldest bodies as long as
  the sum is above the limit ends at or below it, whatever one body holds. *Overlay*: `PickedFilm` says of a result, and of a lookup that
  has chosen, that where the pick was among the options it is the film; it holds from the choice on (`OverlayInv`), since
  pick, options and film travel together and a stale answer is discarded. That the reader then sees it is
  about places: the first integration that offers a value wins (`HeadOffers`, `IdShown`, `TitleShown`).
  *Device database*: the requests that wait are a set (`Queued`), but for one thing, their order (`Ordered`):
  a version that has been compared is older than every one that has not, and within each kind versions wait by age.
  Hence what a compared version replaces is older still when its write runs (`Waits`), however many handlers
  overlap, which gives `DbNeverOlder` (of `NeverOlderApart`). For `DbQuietAgrees`, `PairsInv` lists what one merge and one edit may
  have in the queue at each point, and what the row then is compared with what was heard and pushed: a version that replaces
  an edit is read back before it is pushed. For `DbQuietShowsLatest`, `SerialInv` says what the one
  request under way still has to do: a version or a deletion is the latest message (`Carries`, `TombCarries`), or the row is
  there and survives the deletion (`Newer`); `StreamInv` says that the latest version is in the table or waits.

* **ListrItems_proofs** has four results. `ItemsEachOnce` is about `resolveChain` and any links: the members of a finite
  set in a strict order, ranked, are a list of it (`RankedListed`), and `bySequence` is such an order (`SequenceOrders`); what the
  walk has met and what it has still to visit have no item in common and none twice, since an item follows one other
  (`Journey`); it meets at most all, and the orphans are the rest (`Resolved`). For `ItemsPushedWhole`, `Whole` says that
  there is one table that every device comes to hold: what it holds, with what is under way to it, ends there
  (`Pending`: of the messages about an item each is newer than the one before and than the row, and the last says what the
  table has). A merge keeps that (`PendingHead`). An operation of a user who is up to date starts from that table and
  makes the next one, and its messages say of each item it changed, once, what became of it (`Sound`); hence they can join
  what is under way (`PendingMore`). Per operation it remains that what it pushes is what it wrote, although part is read
  from the screen, part from the table, and items that leave their list are written twice: the patch never
  names them (`MovedAndPatched`).
  The other two assume `Careful`, as the inline row can link an item to itself (section 5). For `ItemsShownAsPlanned`,
  `PlanInv` adds to this that on the common table every list is `ListPlanned`: its links are the chain of the order wanted
  (`Chained`), or some of its rows have the old format, the others a link, and it shows that order. A chain shows
  itself (`ChainResolves`). To cut an item out of a chain, or put one in, changes two links, and what comes out is the chain of the
  new order; each operation is a few of these and a patch that writes just them (`AddPlanned`, `DeletePlanned`, `ReorderPlanned`,
  `CrossMovePlanned`, `MoveSelectedPlanned`, `HealPlanned`). Only operations of a user who is up to date count, and merges leave
  the common table alone. What the property needs of the constants is `StartsAssumption`: devices start from lists that
  are chains or have rows of the old format. For `ItemsOneChain`, a round of `buildOrder` on a chain places the items
  that follow, at least one (`RoundPlaces`), so that in as many rounds as there are items it has placed the chain
  (`RevertedChain`). Numbers written along a chain sort back to it (`RankedByNumber`), and migrating links it
  anew as it was (`LinkedAgain`). `ItemsEachOnce` and `ItemsPushedWhole` need neither assumption.
* **ListrSharing_proofs** has three results, about what servers and members are sent and what is left. `SentToMembersOnly` assumes
  nothing of users, network or caches. What is to be shown is where a push or an upload may go (`Lets`): the caches name as the key of a
  board one it has or had (`CachesKnown`), as the board of the list one it is or was on, and where they know none the home key; each
  refresh, operation and merge keeps that (`FreshKnown`, `CachesStay`), so that a push goes where it may whether or not the caches
  are behind (`PushLets`, `ServersSent`); an operator of the server or the device only ever adds what it was given (`UpsertIs`, `MergeRowOK`). For `BoardsStayHome`, what a server has of a board is no argument for where the next push goes,
  and `HomeInv` adds what decides that. A key belongs to one board (`OwnKeys`), and once a server was told of it, to that
  server (`KeysAtHome`), so that what a connection declares is known nowhere else (`HelloAtHome`). A pull brings
  nothing: what a server has is no newer than the row of the device, and where there is no row its key was left (`Behind`),
  hence is not declared (`LeftKeys`). Pushes reach the board's server as every board is bound while any is
  connected (`Bound`). Worlds of several servers must be `Spared`, in which nobody deletes, redeems a grant or writes on
  another device, for there the property fails (section 5); for a single server nothing is assumed (`LoneInv`).
  `LeftKeysStayLeft` is about rest, and its invariant about all that comes before. On one server (`LeavesInv`) what brings a
  key back is a row that names it. So a server files a board under the key its row names (`Filed`), and the device
  names the same, or has a later version that nobody overtakes (`Agrees`): without that a row with the old key would be filed
  under the new one, be pulled there, and restore the key it names. What a connection declared is in the caches still
  (`Declared`), and at rest these have no key that was left (`Forgotten`). On several servers it follows from `HomeInv`. It assumes
  `TellsOnLeaving`: nobody leaves while the server cannot be told, and a world has moves between keys or other
  writers, not both, for their stamps may cross. All worlds of the run satisfy it.

Some theorems state what no run checks, as they hold for all constants: the type correctness of the modules,
`StoreTombstoneWins`, `StoreStampsBounded`, `StoreTablesMatchHistory`, `GrantsNoOrphanUser`, `SessionsKeysAreRouted`, and
`EachOnce`, the part of `OneChain` that needs no `Careful`. They are part of the inductive invariants or follow from them, and the
definitions remain for anyone who wants to add them to a configuration.

Only model-checked: everything temporal under fairness (`UploadsComplete`, `RunnerRests`, `Reconnects`), which is
out of the prover's reach; what folds and recursive operators compute over data: `CheckedRuns`, `ErrorsStayLocal`
(programs), `PageCurrent` (replayed events), `UpgradeKeeps` and `CopiesAgree` (a migration is a flattened sequence of
statements), `ImportRestores` and `ImportTells` (files written and read), and `NothingForgotten`, an action property
over settings that are flattened; and `NamespacesAgree` and `DeletionsHeard`, which are about what has been delivered at rest.

## 5. Where code and documentation part, and what properties have to spare

Listed in `PROJECT.json` with its run is `device_overwrite`: `mergeEntity` reads and writes in two
transactions, and an edit between them is overwritten by an older version, which is then also what `updateItem`
reads back and pushes.

The following configurations reproduce others; run them with
`tlc -config <cfg> <module>`, each ends in a counterexample:

| Configuration | Property | What happens |
|---|---|---|
| `MCListrSyncLate.cfg` | LatestEverywhere | `getEntitiesSince` selects by the time of editing: what is uploaded late is behind the cursor of a device that was away |
| `MCListrSyncLost.cfg` | NothingStrandedAnywhere | a live push lost with the connection after the snapshot is merged is behind the cursor (`ARCHITECTURE.md:262`) |
| `MCListrSyncCrossing.cfg` | TombstoneWinsOnDevice | an older version on its way when the user deletes comes back: `mergeEntity` never looks at local tombstones |
| `MCListrRunnerFirst.cfg` | AllUpToDate | `enqueue` gives a job that exists the chain of its latest trigger; a module that answered first is then passed over |
| `MCListrRunnerRestart.cfg` | AllUpToDate | a job that waits at a restart is gone |
| `MCListrGrantsDeep.cfg` | Forest | below a chain of `MAX_TREE_DEPTH` users, set-parent closes a cycle |
| `MCListrSessionsDevice.cfg` | ActsForRegistered | a device link redeemed by a client that has a user: the connection acts for the issuer, the registration stays |
| `MCListrSessionsLate.cfg` | ClosedNotRouted | a socket that closes during verification is subscribed after its close handler |
| `MCListrMigrationsCrash.cfg` | AssociationsSurvive | a stop between `DROP TABLE user_keys` and the `RENAME` of migration 5 loses every association of users and keys |

Four more need a line or two of a configuration that is there. `CutOff`, added to `MCListrSessions.cfg`: a suspended user
who is connected stays connected. `DroppedHasNoResults`, added to `MCListrRunner.cfg`: the answer of a call outlives the
integration the board dropped. `DeferredOnlyOnce` in `MCListrSync.cfg` with `Worlds <- MCBudget` and `MaxPull = 1`: a
key over the pull budget by itself is deferred at every pull (`index.ts:757-762`). `ShowsLatest` in
`MCListrDeviceDbOverwrite.cfg` with `Timings = {"deletions"}`: a deletion is followed at once by a newer version;
`applyTombstone` reads the row before `mergeEntity` writes it and deletes it after, and the newer version is gone
from the device.

What `QuietAgrees` says fails with two versions and an edit under way at once (timing `edits`): the newer version
compares with the edit, finds it as new and gives way, the older one was compared before and overwrites the edit.

The others came up while modelling; a condition of a property or a field of a `world` spares each.

*Sync.* A device whose clock is ahead by more than the allowance keeps its own stamp where the server stores a
lower one: a full resync leaves the row as it is, and it counts as uploaded only by its clamped stamp.

*Sessions and runner.* Switching off an integration whose values another one reads leaves what that one made of
them: `onBoardChanged` looks at no item when only something was dropped. A module that waits for quota is
unprocessed without a job; when it is triggered after midnight by the cascade of a module that reads its values, the
reader is in the chain, and does not look again when they come. A second `completeAuthentication` on a socket replaces `syncKeys` and leaves the old
entries of `keyToClients`: a key that another connection has left stays routed to the socket, and so does the home key of the user
it acted for before, after the socket is closed as well. When a restart
loses the trigger of a changed configuration, a later refresh runs for the new one; switching back is passed
over, and the answer for the other configuration is stored. The daily limit is counted from the last restart.

*Endpoints.* After a forced resync and a change of the endpoints in one go, a socket is left open that no
connection owns (`Tangled`), though `setEndpoints` says a change that leaves nothing enabled tears
connections down. From there on (`stray`) the socket may open, and its endpoint send on it. Disabling or re-keying the primary leaves endpoints in error without a retry until something
else happens. With two servers, a failed endpoint of one is not retried while the other is ready.

*Sharing* (`anyKey`, `anyTime`, `prompt`, `apart`). A deletion made offline in the home namespace gets the
key "" and is never uploaded (`ARCHITECTURE.md:262`). After a reload `itemListMap` is empty, so that deleting an
item of a shared board goes out under the home key; `deleteBoard` and `deleteList` push after an await and
meet refreshed caches. Lists and items keep their stamps when their board is shared under a key that was synced
before, or when they move to a board of another key, and stay behind. A board shared offline under a key that is
then left stays under it. Leaving offline is lost, and the server's key list brings the key back.
`adoptUserKeys` reads and writes the roster in two steps. A second tombstone keeps the key of the first. A
board created while two servers are connected is pushed to both; a received one is unbound until any server
connects, though `keyScoping.ts` says a key belonging to one world is never volunteered to another. What is deleted while only
another server is connected gets that server's home key as the key of its tombstone, so that the board's own server never hears
of it and a pull brings items back without their list; a key that is joined on a second server is then declared there for
the boards of the first.

*Order of items.* Dropping an item just below an inline row that stands behind it links it to itself; an inline row
stays behind an item that is moved away or deleted (`Careful`). Operations on what another device has changed
make forks, and two moves that cross can close a cycle; `resolveChain` shows the items all the same. For such
links, healing on the device and `migrate-after-id.ts` differ, though the script's header says "exact same chain".

*Migrations* (`anytime`). A stop after `CREATE TABLE user_keys_new` or `assets_new` leaves a server that
never starts again; one between `ALTER TABLE` and `UPDATE` leaves columns empty. A list in one version on both
sides converts differently if its board's versions differ in their macros (`database.ts`: "so both sides
agree without touching updated_at"). A bridge cut between configuration and endpoints loses the endpoints, and
never deletes the old database. A macro named like a generated `legacy_N` collides with it.

*Export and import* (`InPlace`, `Unburied`). Items of the file that sit in another list break both chains; a list
that exists under another board is not moved. Deleting by tombstone does not relink what followed. An entity that
is among the deletions and the rows of a file is counted differently by preview and import. The deletion
of an older tombstone overwrites the stamp of a newer local one. `applyImportOrder` of the AI import does not push
the rows it relinks; equal titles give it one id twice.

*Format.* `check.ts:197` speaks of each definition that is part of a cycle, but the search misses those whose
cycle leads through one already done. A program that passes can render nothing: `MAX_DEPTH` bounds
definitions nested to 65 and more. A date cannot be compared with any literal. A parameter or the name of a
wrap that is also an attribute wins, though `FORMAT.md` says it is ignored. The editor of a list shows errors of its
own text only (`CleanListRuns` is no invariant). After an error inside a directive the parser goes on where it
stood, so that definitions the directive had consumed are lost, though the header says it resumes at the next line in
column 0; two lone quotes swallow the definitions between them.

*Overlay.* Between a pick and its answer the other attributes show the film before. After a pick has released
the title, a lookup that finds nothing leaves it blank; clearing a title typed later goes back to the pick's.
A year that fills a date attribute shows 1970-01-01.

*Console* (`prompt`). Events emitted while nobody subscribes are dropped, and the page is not fetched again after
a reconnect. An answer that was on its way overwrites a newer event. The filter "running" keeps runs that
ended. `connChallenged`, an asynchronous `authFailed` and the runner's queue mark nothing as changed. `closedByClient`
has no bound, though `monitor.ts:4` says everything is bounded. A record becomes "authenticated" after its socket closed.

## 6. Not modelled, and why

* Message layout, JSON, labels, display names, logs, rate limits and per-IP counters: no rule of the
  modelled parts reads them. Cryptography is the choice whether a signature or secret is right.
* Within ListrSync: several keys per device and fan-out to sibling connections; ListrSharing has them, with the
  exchange in one step.
* Stamps of integration results: ListrRunner ends at the row, ListrOverlay has one device.
* Of the format language: styles, locale-dependent formatting, flexible quotes and the arithmetic of dates.
* Of the console: the lockout after failed logins, graphs, logs and administrative forms.
* HTTP, beyond the outcome of a request.
* Some awaits, where the handler is one step: `forceFullSync` between clearing the stores and resetting the cursors, and the
  page's operations on several items (`crossMove`, `moveSelected`, `deleteItem`) between their reads and writes. A merge can come
  before and after, not within; what overlapping reads and writes of one entity do is ListrDeviceDb's.
* `handleChallenge` checks the server id against the connection's copy of its endpoint's configuration, which `liveQuery` brings
  up to date a moment after the table; ListrEndpoints has one configuration. They can differ only for a connection that
  the same change stops.
* The import dialog with its AI half, the join dialogs, the user interface, configuration and the command
  line: views, single requests, or code that runs once. The operations they call are in the modules above.

## 7. Plan

What is left to prove: `NamespacesAgree` and `DeletionsHeard`, for which the invariant has to say of each cursor what
was uploaded below it; the rest of what they need, that server and device name the same key, is `LeavesInv`.
