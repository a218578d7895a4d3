# Bluecode: TLA+ models

Bluecode adds context compression to a coding agent. A plugin runs inside the host process; it
starts an rtk server of its own, which compresses tool output and keeps the originals, and
shares one headroom daemon per user, which archives and summarises session history. This directory
models the parts that run concurrently, fail, restart or share storage, and the algorithms whose
results the others rely on, checks the models with TLC and proves the central safety properties
with TLAPS.

1. [The system](#the-system)
2. [Modules and how they correspond to the code](#modules-and-how-they-correspond-to-the-code)
3. [Runs](#runs)
4. [Where the code and its documentation disagree](#where-the-code-and-its-documentation-disagree)
5. [Bounds](#bounds)
6. [Fairness](#fairness)
7. [Proofs](#proofs)
8. [What is only model-checked, and what is not
   modelled](#what-is-only-model-checked-and-what-is-not-modelled)
9. [Plan](#plan)

Run a configuration with `tlc -config <X>.cfg <MCmodule>` and check proofs with
`tlapm <X>Proofs.tla`. `PROJECT.json` lists the runs, the lines each definition models, the
mutants that show each property can fail, and the hazards the properties were chosen for.

## The system

Paths are relative to `src/packages/`.

| component | state | operations | talks to |
|---|---|---|---|
| **rtk client** `rtk/src/client.ts` | child process, handshake, restart count, breaker, timers; pending requests, queue, single slot, byte budget, ring of late ids, protocol streak | `create`, `compress`, `fetch`, `shutdown`; callbacks for frames, exits and timers | rtk server over stdio |
| **rtk server loop** `rtk/src/server.ts`, `bin.ts` | none beyond a line counter | read a frame, answer it, in order | engine |
| **rtk object store** `rtk/src/engine.ts`, `ownership.ts`, `shared/src/cas.ts` | object files, ledger rows (pending, published), ownership rows, writer lock | start and backfill, publish (lock, reconcile, reserve, write, sync, grant, finally), fetch | shared by all rtk servers of a user |
| **storage migrations** `rtk/src/migration.ts`, `headroomd/src/migration.ts` | lock file, stage directory, target | check, copy, verify, publish by rename | offline, races version 2 servers |
| **headroom daemon** `headroomd/src/server.ts`, `bin.ts`, `store/lease.ts` | socket file, pid file, writer lease, open connections, admitted requests, idle timer | start (probe, unlink, lease, bind, pid), serve, idle exit, stop | clients over a local socket |
| **headroom client** `headroomd/src/client.ts` | socket, pending requests, spawned daemon | `connect` (spawn when the path is dead), `request`, `close` | daemon |
| **headroom engine** `headroomd/src/engine.ts`, `layered.ts`, `turns.ts`, `compaction.ts`, `memory.ts`, `summarize.ts` | none of its own | compress, archive, plan a compaction | metadata, objects, manifests |
| **headroom metadata and index** `headroomd/src/store/db.ts`, `fts.ts`, `objects.ts`, `nodes.ts` | two SQLite databases and the object directory | insert, search, rebuild a lost index | engine |
| **headroom views and manifests** `headroomd/src/store/manifests.ts`, `layered-operations.ts` | manifests, the current view per session | `saveManifest`, `setView`, `clearView`, `getView` | plugin runtime through the daemon |
| **enhancement jobs** `headroomd/src/enhancement.ts` and its store | jobs with states, two permits, usage counters | submit, run, cancel, dispose, restore | model provider |
| **headroom retrieval** `headroomd/src/node-retrieval.ts`, `history-reader.ts` | bounded table of cursors | page through archived history | metadata |
| **plugin runtime** `plugin/src/runtime.ts` | sessions map, a state per session (generation, epoch, snapshot, view, flags), job queue with two permits and a byte limit, enhancement polls | the host's hooks and events, hydrate, plan, poll, dispose | host, daemon, security scanner |
| **plugin host adapter** `plugin/src/host-adapter.ts`, `index.ts` and others | the ports, reconnect cooldown | project host messages, apply a view, reconnect | runtime |
| **security guard** `plugin/src/security*.ts` | none that outlives a call | evaluate a tool call before it runs, sanitize its output after | vsec agent, host |
| **security rules** `security-core/` | none | findings in commands, paths and text | scanner |
| **vsec agent** `vsecagent/` | child process by generation, pending requests, pump; in the child a cache of decisions | enqueue, pump, receive, restart, close; scan, adapters | security guard |
| **rtk core** `rtk-core/` | none | classify and shorten text within a budget | engine |
| **shared framing and paging** `shared/src/` | line buffer | split frames, pages of text | all processes |
| **contracts** `contracts/`, **evaluation** `eval/` | | schemas; benchmarks | |

What is hard in it, and what correctness means:

* **rtk client.** A request that timed out keeps the single slot until its late answer, a stall
  timer or the child's exit frees it; six paths give the byte budget back; create, restart timer,
  probe and exit all lead to a spawn. Correct: budgets are exact, the slot always has somebody who
  frees it, answers go to the request they carry, there is one child and one owner of the
  recovery, and shutdown leaves nothing.
* **rtk store.** Several processes, three kinds of storage (files, ledger, lock) that do not
  commit together, and a crash between any two calls. Correct: the quota holds, nobody reclaims
  another server's reservation, what was reported stored can be fetched, a refusal for lack of
  space is true.
* **headroom daemon.** Probe, unlink, lease and bind are separate calls that two daemons
  interleave; connections close while requests run. Correct: whoever works on the store holds the
  lease and whoever does not has given it back, the idle timer runs exactly in the daemons nobody uses, `connect()` ends and leaves no
  daemon when it fails.
* **plugin runtime.** Every hook and job awaits a scanner or the daemon while events invalidate
  what it captured; states are evicted while their jobs run. Correct: a view is of its session's
  epoch, the flags that coalesce work stand for exactly one job, the counters of the queue are
  exact, work and dispose end.
* **headroom storage.** The object directory, `meta.db` and `index.db` never commit together, the
  index may fall back behind the other two, and whether it has is guessed from counts. Correct: a
  search finds only what the session owns, a published plan has its rows, nodes and objects, and
  one start heals the index for good.
* **layered plans.** A plan is made for one moment and applied to a host that has moved on.
  Correct: following every reference gives the host's text back, and a changed history is shown as
  it is.
* **retrieval.** Pages are bounded in bytes and items, and the archive changes between them.
  Correct: everything is shown once and in order, or reported missing, and every page gets ahead.
* **enhancement jobs.** Provider calls outlive their cancellation, their timeout and the daemon.
  Correct: the lifetime budget holds but for what a provider takes beyond its ceiling and nobody
  could know, at most two calls are open and one for a session, no job waits beside a free permit,
  what was rejected stays so while its row is kept.
* **connections.** The socket cuts frames anywhere. Correct: exactly the answers among the whole
  frames are handled, and no call waits on a connection that is gone.
* **security guard.** The scanner dies, answers late or finds an exception that ends meanwhile.
  Correct: calls fail closed, outputs are shown as redacted for that call, no request waits for
  nobody.
* **migrations.** Two invocations, a server and crashes race for one path. Correct: what says it
  is migrated is complete.
* **rtk core.** Correct: what is left out of an output is declared exactly, and nothing vital is.

The full list of hazards, each at its line with the properties that cover it, is in `PROJECT.json`.

## Modules and how they correspond to the code

All processes are JavaScript: a callback runs to completion, so an action is what happens between
two awaits, in one callback of the event loop, or in one system call where processes share a file.
Time is abstract: an armed timer may fire at any moment. Contents are abstract: a frame has a kind
and an id, an object is its hash, a message is a version number. Algorithms on text work on
sequences of abstract units or classified lines.

### `RtkClient` (with `MCRtkClient`, `RtkClientProofs`)

`rtk/src/client.ts`. The variables are the fields of the class under their own names (`proc`,
`ready`, `pending`, `queuedBytes`, `queue`, `inFlight`, `stalledTimer`, `protocolStreak`,
`lateReplyIds`, `restartAttempt`, `breakerOpen`, ...), `handshake` and `owner` for where
`spawnAndGreet` is and who called it, and the child with its pipes. Two kinds of microtask matter
and are explicit: a pending `drainQueue` and the continuation of an accepted handshake. While one is
outstanding no other callback runs (`Idle`), except that callers may issue a request from a
microtask of their own. The server is external: it may greet, answer what it was sent in order and
at any speed, send a corrupt frame, or exit. Its stdin is in `inbox`.

### `RtkStore` implementing `QuotaStore` (with `MCRtkStore`, `RtkStoreProofs`)

`rtk/src/engine.ts` (`createEngine`, the publication), `ownership.ts` (`reserve`, `grant`,
`reconcilePending`, the lock of `publish` and its finally clause) and `shared/src/cas.ts`. Several
servers share one root; each goes through `begin, reconcile, reserve, write, sync, grant, finally,
rollback`; any statement or call may fail and a server may crash anywhere. `unsynced` holds the
objects whose directory entry no sync has covered. `QuotaStore` is the promise to callers: objects
appear within the limit and never go away, and a session comes to own only what is there.
`ImplementsPromise` maps `stored` to `objects` and `owned` to `refs`.

### `HeadroomDaemon` (with `MCHeadroomDaemon`, `HeadroomDaemonProofs`)

`headroomd/src/server.ts`, `bin.ts`, `store/lease.ts`, and `connect`/`close` of
`headroomd/src/client.ts`. `socket`, `pidfile` and `lease` are the shared files; `pc` is where each
daemon is between probe and exit; `openClients`, `operations` and `idleTimer` are its counters;
`cpc`, `child` and `attempt` are each client's `connect()`. A crash leaves socket and pid file and
frees the lease. A bind fails because another daemon has the path, which is probed again, or for
another reason; either way the store is closed first. The boot of a spawned daemon fails by its
timer, which may fire up to the moment the boot line is read, by the end of its output or by a bad
line. What requests do to the store is left out, that they run is not.

### `PluginRuntime` (with `MCPluginRuntime`, `PluginRuntimeProofs`)

`plugin/src/runtime.ts`. `rt` is the record of the closure's variables: `sessions` (the map in
insertion order), `state` (the session states, which outlive their map entry while a closure holds
them), `queue`, `run` (what each permit is doing) and `bytes`. `polls` are the promises of
`pollEnhancement`, outside the permits; `scanning` is the history a `transform` has cloned and is
having scanned; `resuming` are hooks that will schedule after their last await; `host` is the
history the host has. A history is an upstream epoch and the versions of its messages; a plan is
made for an epoch from a prefix of messages and applies to every history with that prefix.

Answers of the daemon and of the scanner are choices, and every call may fail, the scan of a
hydrated plan included. Whether the recent turns that must stay raw rule a plan out
(`retainRecentTurns`) is a choice too (`keeps` in `CheckView`). The answer "already-compacted" of
`applyHostView`, after which the code keeps the view, needs the plan's own replacement among the
host's messages; views are applied to a copy that is shown to the model and never stored, so it
does not occur. The daemon's
`getView` may return the plan of any history the session has had, which covers every lost, late or
dropped `clearView`. A missing port has the effect of a refused job, except in the one closure that
is not async (see the findings). A host change and its event are one step. Left out: the `attempted`
fingerprint (a plan may always be skipped instead), the model cache, metrics, `toolAfter`, the modes
"shadow" and "off", the legacy strategy.

### `HeadroomStore` (with `MCStoreAndGuard`, `HeadroomStoreProofs`)

`compress`, `compressLayered`, `persistArchive` and `backfill` of `headroomd/src/engine.ts` over
`store/db.ts`, `fts.ts`, `objects.ts`, `nodes.ts` and `manifests.ts`. A table is a set of its rows
(`casMeta`, `refs`, `nodes`, `manifests`, `views`; a row's `msg_seq` counts from where its history
begins in the session, `SeqBase`), `index` the record of what `index.db` holds
and `checkpoint` what a power loss may roll it back to (`synchronous=NORMAL`). `job` is the
compress under way, one step per file write or transaction; a crash may come between any two.
`DamageObject` loses or corrupts an object file, `DamageIndex` makes the index unreadable. `Start`
opens the store and rebuilds the index when `indexLooksLost` says so. In a rebuild an object the
security policy refuses counts as skipped, like a corrupt one; where a refusal aborts the start,
nothing has changed and the next start meets the same state. `damaged` and `job.hurt`
(objects damaged after the compress had checked them) are for the properties only.

### `LayeredPlan` (in `MCComponents`)

`layered.ts`, `turns.ts`, `compaction.ts`, `layered-operations.ts`. `host` are the session's
messages, which are said, completed, edited and dropped; `plan` is made by `BuildLayered` or
`BuildLegacy` from the host's messages at that moment; `View(host, plan)` is what is shown. A text
is a sequence of units that name their message, version and position, so that taking the wrong
stretch of the wrong version shows. Some outputs may not be replaced (`kept`): a failure whose
diagnosis does not fit a note (`safeToReplace`), and an output that holds references itself.

### `HeadroomRetrieval` (in `MCComponents`, with `ComponentsProofs`)

`history-reader.ts`, `node-retrieval.ts`, `store/history-cursors.ts`, `shared/src/paging.ts`, the
query pages of `engine.ts`, and the tool's retry in `plugin/src/retrieval.ts`. `reader` is one
client following its cursor; a page takes one step per row, because each row is an await. Objects
vanish and return, a daemon restarts and archives are added in between. A request that ends in an
error, because not one code point or not one reference of a child (`RefSize`) fits or the lineage
of a node is broken, leaves the cursor and sets `failed`. Offsets are UTF-16 units,
budgets UTF-8 bytes. `Content(c)` is the text below a history or a node and `NodesAt` the nodes at a
depth, by recursion over the depth that containers nest to (`MaxDepth`, `NestingAssumption`: an
archive is made before the message that replaces it, a node after its children); they are what the
properties compare the pages with, and the reader uses neither.

### `Enhancement` (in `MCComponents`, with `EnhancementProofs`)

`enhancement.ts` (the manager: `Submit`, `PumpWith`, `Answer`, `Decide`, `Timeout`, `Leave`,
`Release`, `Cancel`) and `enhancement-integration.ts` with its rows (the coordinator: `Prepare`,
`AskCandidate`, `FinishCandidate`, `Invalidate`, `Close`, `Start`). `usage` is the manager's
memory and `saved` the row in `meta.db`. A job that is cancelled while its answer is under way
stays cancelled, whatever the answer says.

Each call is reserved at its ceiling, `MaxTokens`, but a provider may charge more, up to
`MaxCharge`. What it says it used is charged to the session, the excess too, and such an answer is
rejected. The code checks the budget before a call only, so the last call admitted may exceed it;
an excess the provider did not report, or that a daemon did not live to learn, is charged nowhere.
`spent` (what was really charged) and `unseen` (the excess nobody learned of) are for the
properties only: `LifetimeBudget` says that these are the only ways past the budget. The model has
one kind of tokens where the code has input and output, each with its ceiling and budget.

`row` are the rows of the jobs, and `older` which of them was inserted before which: inserting a row
deletes the ended rows (`ready`, `rejected`) beyond the newest `KeptRows`, 256 in the code, whatever
their session. `UpdateRow` changes nothing where the row is gone. The statuses `queued` and
`running` of a row are one, since nothing tells them apart.

### `HeadroomWire` (in `MCComponents`, with `ComponentsProofs`)

One connection: requests, `OnData` and the ends of `headroomd/src/client.ts`, the connection
handler of `server.ts`, and `createLineReconstructor` of `shared/src/jsonl.ts` on both sides.
`toDaemon` and `toClient` are the units under way; a chunk is any prefix of them. `heard`,
everything the client has read, is for the properties only: `Frames(heard)` splits it by a
definition of its own. The client refuses a call at its limit or for its bytes, which is a choice;
the daemon refuses by its own limits, which other connections use up too, so the room it has for
this one (`room` in `ReadRequests`) is a choice. A call that `close()` gave up is told apart from
one that failed with its connection: the latter must have had no answer in what was read.

### `Migration` (in `MCComponents`, with `ComponentsProofs`)

`rtk/src/migration.ts` and `headroomd/src/migration.ts`. Each invocation takes the lock file, checks
the target, copies (row by row, or everything and then verifies), publishes by `rename` and removes
lock and stage in its finally clause, which a crash skips. A directory sync that fails after the
rename reports an error although the store is in place. A version 2 server may create the target
at any moment.

### `ToolOutput` (in `MCComponents`)

`rtk-core/src/pipeline.ts`, `budget.ts`, `anchor.ts` and the strategies for tests, listings, matches
and diffs, as operators on the lines printed so far; a line is its class, length, file and number.
The classes of test lines follow the patterns of `test.ts`, `FAILED` headers, which are no seed of a
failure block, included.
The state machine only enumerates outputs; the property compares the result with what it must be.

### `VsecAgent` (in `MCStoreAndGuard`, with `VsecAgentProofs`)

`plugin/src/security.ts` in enforce mode, `vsecagent/src/client.ts`, and the scanner of
`vsecagent/src/engine.ts`, `cache.ts` and `adapters.ts`. `client` is the record of the client's
fields and where its pump is, `child` the process of the current generation with its inbox, work
and cache, `lines` what children have printed and nobody has read: lines of an older generation
stay there and arrive late. A line that breaks the protocol ends its generation
(`ReceiveInvalid`). One sanitizing is one request: the batches of `strings` go one after the other
and each fails closed for itself, and a text too large to ask about is withheld without asking
(`asked` in `After`). Attachments of kinds the guard does not know pass as they are, which the code
counts as a gap in its coverage; they are not part of an output here. `lawful`, for the properties only, records whether the call was
allowed at some moment between its question and its answer.

`MCComponents` and `MCStoreAndGuard` each hold several components that share no state: a behaviour
chooses one of them at its start and only that one moves, so a run is the union of their state
spaces, not the product. `GuardSpec`, `MigrationSpec`, `WireSpec`, `RetrievalSpec` and the `Spec`
of `Enhancement` are the specifications of the single components, which the proofs are about; the
MC modules extend those modules, so that TLC evaluates their assumptions.

## Runs

| run | configuration | shows |
|---|---|---|
| `rtk_client_requests` | 3 requests of 2 sizes, 2 children, 2 corrupt frames, ring of 1; 7.2 M states | `AdmissionExact` (budgets and queue account for every unsettled request), `LateReplyNeverStrikes`, `RepliesCorrelate` |
| `rtk_client_recovery` | 3 children, 1 restart, 2 requests; fair; 186 k | `OneChild`, `OneRecoveryOwner`, `ShutdownReaps`, `SlotIsFreed`, `RecoversOrBreaks` |
| `rtk_store` | 2 servers, 2 sessions, 3 objects of sizes 1, 1, 2, limit 3, a legacy object; fair; 626 k | `QuotaHolds`, `ReservationKept`, `StoredIsFetchable`, `CapacityHonest`, `ImplementsPromise`, `PublicationEnds` |
| `rtk_store_durability` | 1 server, 1 object | *violation* of `OwnedIsDurable` |
| `headroom_daemon` | 2 daemons, 2 clients, 2 connections, 2 requests, 2 attempts; fair; 72 k | `LeaseGuardsStore`, `IdleTimerExact`, `UnreachableDaemonEnds`, `ConnectSettles` |
| `plugin_runtime_views` | 1 session, epochs 0 and 1, 2 messages with 2 versions, a dropping port; 1.9 M | `ViewMatchesEpoch` |
| `plugin_runtime_work` | 2 permits, queue of 3, polls, a dropping port, dispose; fair; 365 k | `WorkExact`, `WorkEnds` |
| `plugin_runtime_sessions` | 2 sessions for 1 map entry, 1 permit, queue of 3; 1.4 M | `TypeOK`, `FlagsExact` |
| `store_and_guard` | store: 2 sessions, 2 messages, a layered plan and its candidate, 2 faults; guard: 3 calls, 2 scanners, an exception that ends; 1.7 M | `SearchIsOwned`, `Backed`, `HealCompletes`, `HealConverges`; `FailClosed`, `ShowsOwnRedacted`, `PendingIsPumped` |
| `components` | see [Bounds](#bounds); 1.7 M | `LifetimeBudget`, `ProviderLoad`, `NoIdlePermit`, `RejectedStaysRejected` (Enhancement); `PagesInOrder`, `PagesAdvance` (HeadroomRetrieval); `Recoverable` (LayeredPlan); `AnswersExact` (HeadroomWire); `MigratedIsComplete` (Migration); `OmissionsExact` (ToolOutput) |
| `plugin_runtime_permits` | 2 permits, queue of 4, a dropping port; fair | *violation* of `BusySessionsGetFree` |
| `plugin_runtime_summary` | 1 session, 1 message with 2 versions | *violation* of `NoStaleSummary` |

`CHECK_DEADLOCK FALSE` is set where the system may really stop: a client after shutdown, daemons
that have all exited, a closed runtime, a client, host or migration that has nothing more to do
within its bounds. The store never stops, since a server can always start or be
given a publication, and is checked for deadlock.

## Where the code and its documentation disagree

Shown by a run each:

* **A granted object may not be durable** (`shared/src/cas.ts:65`). `docs/architecture.md:49` says
  the directory is synced before ownership is granted. An object linked by an attempt whose sync
  failed is found by the next attempt, which skips the sync and grants it.
* **A permit can be lost** (`plugin/src/runtime.ts:186`). The closure `clearView` queues is not
  async; started without a port it throws in `pump` after `active++`. With both permits lost no job
  starts after the reconnection that `docs/operations.md:64` describes, and a scheduled session
  stays busy. `WorkEnds` shows that this is the only way: while no permit is lost, work ends.
* **A stale summary can be injected** (`plugin/src/runtime.ts:440`).
  `docs/reliability-implementation.md:22` forbids injecting a summary only because an old view and
  an old snapshot agree. `transform` stores the messages it cloned before the scan; an edit event
  during the scan finds no snapshot to delete.

Met while modelling, without a run of their own; the models contain the behaviour:

* The header of `rtk/src/client.ts` (lines 8-10) says that timeouts alone cannot kill the child;
  the stall timer (`client.ts:478`) kills a child that has not answered one second after one
  timeout. `SlotIsFreed` depends on it.
* `headroomd/src/server.ts:15-16` says that only a confirmed stale socket may be removed. The
  probe is over when the unlink at `:176` happens, and a stopping daemon unlinks the path at
  `:528` after it released its lease; in both windows another daemon may have bound it.
  `LeaseGuardsStore` and `UnreachableDaemonEnds` show that the consequence is bounded: the store
  keeps a single writer and the unreachable daemon ends once it is unused.
* A migration that crashes leaves its lock file, and every later one is refused until somebody
  removes it by hand (`TakeLock` in `Migration`).
* A connection of the daemon that receives a frame too large drops the whole frames before it in
  the same chunk (`server.ts:460` does not look at the error's `completedLines`); the client does.
* A summary that was rejected and whose row was deleted by the trim (`store/enhancements.ts:33-35`)
  while its job is still cached can be requested again: the row is inserted as `queued` and may
  become ready. `RejectedStaysRejected` therefore speaks of rows that are kept.
* A provider that charges more than its ceiling takes a session past its lifetime budget by the
  excess of one call (`enhancement.ts:85` checks before the call only); a crash loses an excess.
* A vsec request whose timer fires while the scanner is being restarted takes the new scanner down
  (`failGeneration` from the timer in `vsecagent/src/client.ts`).
* `readHistoryPage` would keep the offset inside a message if the message turned out to stand for
  an older archive. The proof of `PagesInOrder` shows that this does not happen: an archive is made
  before the message that replaces it, so an offset is only ever kept inside a plain text.

## Bounds

Every counter the code leaves unbounded has a named bound: `MaxCalls`, `MaxSpawns`, `MaxNoise`
(RtkClient), the set `Daemons` (a process is spawned at most once), `MaxStates`, `MaxGeneration`,
`MaxEpoch`, `MaxMessages`, `MaxContent` (PluginRuntime), `MaxFaults` (HeadroomStore), `MaxTime`,
`MaxGens` (VsecAgent), `JobIds`, `MaxCrashes`, `MaxCharge` (Enhancement), `MaxChanges`, `MaxDepth`
(HeadroomRetrieval), `MaxMessages`, `MaxEdits` (LayeredPlan), `Calls` (HeadroomWire), `MaxMishaps`
(Migration), `MaxLines` (ToolOutput). The code's own limits (queue lengths, rings, streaks,
attempts, quota) are constants that the runs set small so that they are reached.

* RtkClient: three requests fill the slot and the queue and overflow the limits; two children let
  a request outlive its child; a streak of two and two corrupt frames trip it; three children and
  one restart go through backoff, breaker and a successful or failed probe.
* RtkStore: two servers, since only the lock holder and one other party interact; three objects
  and a limit of three make some pairs fit and others not; the legacy object exercises the
  backfill.
* HeadroomDaemon: two daemons are what every race over the path needs; two clients fill the
  connection limit and each can spawn one of them.
* PluginRuntime: interactions are within a session (views: two epochs, two messages, edits), among
  jobs for permits (work: two permits and one waiting job) or among sessions for the map
  (sessions: two ids for one entry, so eviction happens on every change). Each run fixes the other
  dimensions at their smallest value. A generation bound of two lets a job be overtaken twice.
* HeadroomStore: a session and its fork archive the same two messages, so that rows of one history
  differ only in their owner, and begin at different places of their sessions; two faults let a power loss follow a crash, or a crash follow
  damage.
* VsecAgent: two calls with equal arguments share a cache entry whose exception ends, a third is
  denied by an adapter; two scanners let answers come from the one that was given up.
* Enhancement: two sessions, one permit and a queue of one make jobs wait and be refused; a third
  job meets what the first left; a budget of two ceilings is used up, and a call may charge twice
  its ceiling. One ended row is kept, so that the second takes the first away.
* HeadroomRetrieval: a history that replaced an archive, a message copied from a session that is
  not this one's and a text with a surrogate pair; budgets below, at and above the size of a code
  point and of a reference.
* LayeredPlan: four messages, an output longer than a leaf, one that may not be replaced, notes
  merged two by two.
* HeadroomWire: three calls, one question, answer and frame each at the maximum size, and a pair
  that chunks may cut.
* Migration: two invocations, a row's object shared by two projects, projects exchanged by the
  mapping, a quota that is just enough.
* ToolOutput: every output of up to five lines of each kind; a strategy looks at most at a line's
  neighbours, its group and the totals, and the budget is exceeded from three lines on.

The proofs remove these bounds for the properties they cover: they hold for every value of the
constants that satisfies the assumptions.

## Fairness

Only progress that the event loop, the operating system or a timeout guarantees is assumed, always
as weak fairness.

* RtkClient: queued microtasks run, data in a pipe is read, armed timers fire, a dead child's exit
  is reported, and a child sent SIGKILL dies. Nothing is assumed of a living child: it may hang for
  ever, and a SIGTERM may be ignored.
* RtkStore: a server that is inside a publication takes its next step unless it crashes, and takes
  the lock when it is free (`busy_timeout` bounds the wait with an error, which is a step too).
* HeadroomDaemon: requests are answered, the idle timer fires, SIGTERM is handled, the drain of a
  stopping daemon and its cleanup go on; the boot line, the boot timer and the retries of
  `connect()` fire. Daemons may crash at any time and need not ever start to listen.
* PluginRuntime: each job and the polls go on, because the clients they call reject after a
  timeout, and `dispose` closes the ports when its promises have settled. Nothing is assumed of the
  host or of the connection.
* `HeadroomStore`, `VsecAgent` and the components of `MCComponents` are checked for invariants and
  action properties only, and assume no fairness.

## Proofs

Each `Proofs` module extends its component's module, and `ComponentsProofs` those of
`HeadroomWire`, `Migration` and `HeadroomRetrieval`; nothing is assumed beyond the named `ASSUME`s
of the specifications, which TLC evaluates in every run.

**RtkClientProofs.** From `RtkClientAssumption` (the limits are naturals, positive where the code's
are): `TypeCorrect` (`[]TypeOK`), `OneChildHolds`, `OneRecoveryOwnerHolds`, `ShutdownReapsHolds`.
`OneChild` is not inductive: that `trySpawn` finds no living child follows only from who may spawn
and when. `LifecycleInv` adds that children are spawned in order and `proc` is the last of them
(`ChildrenInOrder`, `ProcIsLast`), that without a `proc` the last one is gone (`LastIsGone`), that a
handshake has an owner (`SpawnHasOwner`), what holds before `create()` resolves and after
`shutdown()` began (`BeforeCreated`, `AfterShutdown`), and that requests wait only on a ready client
(`PendingNeedsReady`).

The requests have an invariant of their own, `RequestsCorrect`, on top of it, for any number and
sizes of requests, any ring and any streak. The central fact is `OneAnswerOwed`: the current child
owes one answer at most, to the request in flight, and it is either still to be written or in the
pipe once. With `LateKnown` (a request that timed out in the slot is in the ring, and the ring has
room for one) it gives `LateRepliesNeverStrike`; with `PendingOK` (a pending request is unsettled
and was made for the current child) `RepliesAlwaysCorrelate`; `QueueOK` (the queue has no id
twice, and what is pending and not queued is in flight) and `BudgetOK` give
`AdmissionAlwaysExact`. `SlotOK` is what makes the slot empty when a new child is spawned and when
a handshake empties the ring. The byte budget is a fold over a set in the order `CHOOSE` picks;
`WeighIs` and `WeighSame` prove that this fold exists, that any member may be taken out first and
that it depends on its members only.

**RtkStoreProofs.** From `RtkStoreAssumption` (`Bytes` is an additive, monotone sum of sizes) and
`NoServerAssumption`: `QuotaAlwaysHolds`, `ReservationAlwaysKept`, `StoredAlwaysFetchable`,
`RefusalsHonest`, `StoreImplementsPromise`, for any number of servers, sessions and objects. The
quota rests on `Counted` (once a server has started every object has its row; while it starts, all
but those it has yet to backfill), `RowsBacked` (a published row has its object, and when a server
reserves so has every pending one), `OwnedBacked` and `OkBacked` (what is owned or reported is
there), and `WriteFits` (a new object about to be linked still fits, because only the lock holder
reserves).

**HeadroomDaemonProofs.** From `HeadroomDaemonAssumption` and `NobodyAssumption`:
`LeaseAlwaysGuardsStore` and `IdleTimerAlwaysExact`, for any number of daemons and clients. The
first is proved in both directions: the lease is held by nobody who has ended, yielded or failed
to bind. The invariant adds that a connecting client has an attempt left and that requests are under way only in
daemons that listen or stop (`AttemptLeft`, `WorkIsServed`).

**HeadroomStoreProofs.** From `StoreAssumption`: `SearchAlwaysOwned`, `AlwaysBacked`,
`HealAlwaysCompletes` and `HealAlwaysConverges`, for any number of sessions, histories, messages,
nodes and faults. None of the four is inductive. `ArchiveInv` adds that both the index and what a
power loss may leave of it refer only to rows of `meta.db` (`IndexOwned`), that a row is the one
its history prescribes and its object was written (`RowsFaithful`, without which INSERT OR IGNORE
could keep a wrong row; rows of a history number its messages without gaps, from wherever it
begins), and what a compress has behind it at each of its steps (`Progress`).
`HealInv` adds that the chunks of an index are those it refers to and that nothing was skipped
while nothing was damaged; since the index's references are among those of `meta.db`, equally many
are the same (`NotLostIsWhole`), which is why the counts of `indexLooksLost` are enough.

**PluginRuntimeProofs.** From the named assumptions of `PluginRuntime` (there is a session id;
permits and map entries are positive; limits and bounds are naturals; `None` is none of the
values): `AlwaysTyped`, `WorkAlwaysExact`, `FlagsAlwaysExact`, `ViewAlwaysMatchesEpoch`, for any
number of sessions, permits, places, messages and generations. `RuntimeInv` has four parts.
`Core`: the byte counter counts the queued jobs that hold messages, queue and permits together
keep the limit, a queued job has not begun, and nobody waits beside a free permit. `Flags`: for
each state, the jobs of a kind, queued and running, are as many as the flag that coalesces them
says. It is stated with one state exempt, because a hydration that ends clears its flag and may
schedule again before its permit is released; `Total` counts jobs of a set over queue and permits,
and the lemmas about `Pump`, `Enqueue`, `Release` and `Edit` say what each does to that count for
every set. `Views`: a view is of its state's epoch, and a job whose generation is still the
state's holds a plan of the state's epoch (`Dated`): whatever changes the epoch counts the
generation up, which is why comparing generations after an await is enough. `Gens` bounds the
generations. The proof needed one fact no run had stated: a state that is hydrating counts as
hydrated, since `hydrate` tests only the latter before it queues a job.

**EnhancementProofs.** From `EnhancementAssumption` (jobs are numbered; limits are naturals, a job
has a ceiling and there is a permit): `AlwaysWithinBudget`, `ProviderNeverOverloaded`, `NeverIdle`
and `RejectionIsFinal`, for any number of sessions, sources, jobs, permits, kept rows and crashes,
and any charge. `MoneyOK` says that both the manager's usage and the saved row cover what was spent
and what each open job may still cost (`SlackOf`, negative once a provider has used more than its
ceiling), but for the excess nobody learned of (`Net`); that a session with a job was within its
budget when the job was admitted; and that the saved row lacks at most the excess of the call
released last (`Slip`), which is what a crash may lose. Without the saved row a crash between an
answer and its settlement would not be covered. `QueueOK` and `Jobs` say that the queue holds exactly the jobs that wait, at
most one job of a session is open, and no more jobs hold permits than there are; `RowsOK` that a
candidate is built from a completed job. `NoIdlePermit` is inductive only with them: `pump` runs
after every release and cancellation and stops only at an empty queue or a full set of permits.

**VsecAgentProofs.** From `GuardAssumption` (every call has an input, times and bounds are
naturals): `AlwaysFailClosed`, `AlwaysShowsOwnRedacted`, `PendingAlwaysPumped`, for any number of
calls, scanners and pending requests and any exceptions. `Truth` says that every answer under way,
in the pipes, in the work of the scanner, in its cache or delivered, was right at some moment
since its call was asked about (`AllowedSince`), and that a cached allowance ends no later than
the exception it rests on; `AskedOnce` that nothing is under way about a call nobody has asked
about, so that no answer is older than its question; `AnswerComing` and what the client's fields
say about one another carry `PendingIsPumped` through restarts.

**ComponentsProofs**, about `HeadroomWire`. From `WireAssumption` (a text has no line ends and no
ids of calls, limits are naturals): `AnswersAlwaysExact`, for any number of calls, any texts and
limits, and every way the socket may cut the streams. `AnswersExact` compares what the client did
chunk by chunk with a definition on everything it has read, so half of the argument is about
sequences. `Parts` is shown to split a stream at its newlines by induction over its length
(`PartsJoin` says what the parts of two streams put together are), the bytes of
two texts put together are the sum of theirs less a pair that straddles the cut, which is what
`append` subtracts, and `PushDelivers` is the result: a reconstructor that holds the end of one
stream and is pushed another holds the end of both together, and has delivered exactly the lines
in between, up to the first that is too large. `WireInv` then says that the client's reconstructor
is the one a single chunk would have made (`WireEar`), that heard and coming together are whole
answers, the last cut only when the daemon's side is gone (`WireStream`), and that a line starts
with the id of a call only if the call was made (`WireUnits`), without which a stray line could be
taken for the answer of a call made later. That no call which failed with its connection had an
answer is part of `AnswersExact` itself and inductive with these: the lines before a frame that is
too large are handled before everybody still waiting is failed.

**ComponentsProofs**, about `Migration`. `MigratedAlwaysComplete`, for any number of invocations,
rows and crashes, any mapping and any quota, without assumptions on the constants. `Staged` says
what an invocation has in its stage at each step, `Reported` that one which reports success finds
its own migration at the target.

**ComponentsProofs**, about `HeadroomRetrieval`. From `RetrievalAssumption` (the shapes of the
tables, budgets and limits positive, a code point of one to four bytes) and `NestingAssumption`
(archives and nodes nest to a finite depth): `PagesAlwaysInOrder` and `PagesAlwaysAdvance`, for any
archives, trees of nodes, texts, budgets, limits and depths, and any losses and restarts.
`PagesInOrder` says only that what was shown is a prefix of what was asked for, which no step
preserves by itself. `RetrievalInv` says what is still to come: `LeftFor` reads off a place, a
stack of containers and an offset, the rest of the text or of the nodes it leads to, and
`Accounted` that what was shown and what is left make together exactly what was asked for. That
holds twice, at the client's cursor with the pages it has and at the place the page under way has
reached with that page added: a page that is dropped falls back on the first, a page that is
published makes the second the first. `PlaceOK` adds what keeps the rest meaningful while the
archive changes: containers on the stack are of the archive (`ArchivesOK`: with a history, the
archives its messages replaced), and an offset other than 0 is inside a text. For `PagesAdvance` it
is needed that an empty page still has its budget and its limit, so that it ends only with an
error. The lemmas below it are about the
operators: what `FlattenSeq` makes of an append, a front and a suffix, that offsets and bytes of
code points add up (`PaginateText` returns an end that is the start of a code point, after the
start, within the budget), and that the recursive functions `UnitsTo` and `NodesAt` satisfy their
equations at every depth and no longer depend on it once everything below is reached.

## What is only model-checked, and what is not modelled

Only checked by TLC on the instances above:

* every liveness property (`SlotIsFreed`, `RecoversOrBreaks`, `PublicationEnds`,
  `UnreachableDaemonEnds`, `ConnectSettles`, `WorkEnds`): fairness and `ENABLED` are outside the
  prover;
* `Recoverable` of `LayeredPlan` and `OmissionsExact` of `ToolOutput`: each compares a whole
  algorithm, a chain of folds over messages or lines, with what its result must be. The state
  machine around it only enumerates inputs, so such a proof has no invariant to find and is one
  induction over the data for every strategy;
* the three violations, which are counterexamples and need no proof.

The library's induction theorems take an operator as a parameter, which the provers cannot
instantiate. Where a proof needs induction (the fold of `RtkClient`, least elements in
`Enhancement`, `PluginRuntime` and `VsecAgent`) it takes the least member of a set of
counterexamples, from the well-foundedness of the naturals. `ComponentsProofs` states this once for
sets of numbers and of sequences (`AllNumbers`, `AllSequences`) and derives from it what the
recursive functions of `HeadroomWire` and `HeadroomRetrieval` and the library's `FlattenSeq`
compute.

Rests on the environment: that microtasks run before the next callback, that SQLite's exclusive
transactions and rollbacks work and end with their process, that `link` is atomic, that a SHA-256
names one content.

Not modelled:

* **text**: the rules of `security-core`, the patterns by which `rtk-core` classifies lines and
  recognises the kind of output (`classify.ts`), ranking and tokenisation of the search, the
  wording of summaries, memory entries and prompts. They are functions on strings without state;
  where another component depends on their verdict, the verdict is a choice.
* **plugin**: `headroom.ts`, `rtk-hook.ts` and `retrieve-tool.ts` are an earlier wiring `index.ts`
  does not install; `toolAfter` of the runtime, its model cache and metrics; audit mode, the map
  of past decisions and the guidance texts of the security guard.
* **headroomd**: ordinal cursors of old clients (`engine.ts:686-768`); the trims of the
  enhancement manager (512 jobs, 128 cached results), which drop jobs that have ended and make a
  source get a new job, its refusal of a session beyond 128, and the trim of stored cursors; `restoreState`, the
  deduplication of nodes by key and operations on ranges of messages; the quota of the store.
* **migrations**: the read-only readers of a legacy store.
* **contracts**: schemas. **eval**: benchmarks, fixtures and reports, which measure the system and
  are not part of it.

## Plan

Done, in the order of importance: the rtk client, the shared store with its abstract promise, the
daemon's lifecycle, the plugin runtime; then the headroom archive, the security guard, enhancement
jobs, retrieval, layered plans, the wire, migrations and the compression of tool output. Left:

1. Proofs: what the plans of `LayeredPlan` and the strategies of `ToolOutput` compute, with their
   folds restated as recursive functions, along the lines of `ComponentsProofs`.
2. An abstract archive that `HeadroomStore` implements, as `RtkStore` implements `QuotaStore`.
3. The quota of the headroom store, and the trims of the enhancement manager and of cursors.
