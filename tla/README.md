# Formal verification of opintel

TLA+ models of opintel's own control logic, the TLC runs that check them on small
instances, and proofs checked by TLAPS for every instance. Paths are relative to
the repository root (`src/...` is the Gateway API, `sidecar/...` the Opintel
Engine); in `PROJECT.json` the repository itself is the directory `src/`, so the
same file is `src/src/...` or `src/sidecar/...` there.

Run a model with `tlc -config <run>.cfg <module>.tla` (the module of each run is
in section 3) and the proofs with `tlapm` on the
modules that section 4 names.

## 1. The system

opintel lets *pools* of agents query customer databases under column and row
entitlements. It is two programs:

- the **Gateway API** (`src/`), TypeScript over PostgreSQL (READ COMMITTED
  transactions, `platform/db/scope.ts`), SpiceDB for authorization and Redis
  for sessions and live updates. Several gateway processes and operator scripts
  may share one database. The composition root is `src/platform/http/start.ts`,
  which also starts the timers: owner claims and completion recovery every 30 s,
  custody rehearsal every hour, presence every 5 s, the release sweep. There is
  no generic dispatcher of the relationship outbox or of the mail outbox.
- the **Opintel Engine** (`sidecar/`), one process on the customer's host under
  a supervisor, with a separate *egress controller* process that owns the
  firewall. It keeps files (landing register, token keys), executes queries in
  DuckDB and reads the customer's databases.

They meet over mutually authenticated HTTP calls in both directions: the gateway
asks (`sources/infrastructure/sidecar-source-connector.ts`), the engine reports
(heartbeats, landing receipts). Inside the gateway components meet in the rows of
the database and, for relationships, in SpiceDB.

### Components

| Component | State | Operations | What makes it hard | Correct when |
|---|---|---|---|---|
| Relationship outbox (`tenancy/application/relationship-outbox.ts`) | rows of `relationship_outbox`, the graph in SpiceDB | enqueue in a producer's transaction, `dispatchOne` | a remote write inside a transaction, lost answers, several dispatchers | decisions about a pair reach SpiceDB in commit order, a retry never undoes a newer one |
| Pool bindings (`pools/infrastructure/tables.ts`, `pools/application/binding.ts`) | binding rows, `pool.tables_explicit` | add, remove, set | two requests on one pool, failure between commit and dispatch | rows, newest decision and SpiceDB agree once settled |
| Filing register (`sidecar/ingest/register.ts`, `land.ts`, `postgres-landing.ts`; `src/modules/ingest`) | register file and lock, landing database, receipts, notices | scan, land, receipt, notice, reconcile, retry, open | a crash or lost answer between any two of four stores | the same bytes land once, rows are what the register says |
| Filing extraction (`sidecar/ingest/extract.ts`) | the file, its inspection, the landing transaction | inspect, read, land, replay | a file or a declaration that changes between readings | what lands is the delivered file under its own headers |
| Token key custody (`sidecar/custody`, `entitlements/application/key-custody.ts`) | key store, escrow, `state.json`; key and operation records | initialize, rotate, restore, rehearse, recovery, expiry | two-phase change over files and database, late requests, dead engine | the current key is always explained by the records; retained keys are never lost or replaced |
| Admission queue (`sidecar/execution/application/queue.ts`) | `active`, `waiting` | acquire, release, cancel, expire | callbacks that meet on one waiter, timers that run late | nobody waits for nothing, order, no overdue admission |
| Source scope, staged execution (`postgres-source-scope.ts`, `sidecar/session`, `sidecar/execution`) | leases, DuckDB sessions, staged tables | run, lend, cancel, stage, execute, abort | deadlines and aborts between any two steps | leases return, an answer says what it covers, nothing is left open |
| Source connection (`sources`, `engines/infrastructure/repository.ts`) | `data_source`, `introspection_run`, jobs of each process | create, assign, archive, scan, cancel, claim, read, publish | stale reads of the queue, cancellation by poll, death of a worker | one worker per run, ended stays ended, connected means through this engine |
| Egress policy (`engines/infrastructure/egress.ts`, `sidecar/egress`) | assignments; policy, applied version, firewall | heartbeat, install, persist | stale or late acknowledgments | a source is released only when its firewall admits it |
| Engine calls, supervision, registry | sockets, audit file; child and landing locks; observed health | call and retry; restart and reclaim; probe and route | retries over fresh connections, reused pids, reused observations | asked once and audited; only the child's locks are reclaimed; an engine heals by itself |
| Sessions (`redis-session-store.ts`), sign-in, links and mail | Redis keys and index; links, flows; limiter and mail outbox | create, touch, rotate, revoke; consume, restrict; request, send, open | read-then-write, statements that interleave, two transactions per mail | a revoked session stays revoked; a link opens one session |
| Membership, installation, device binding | `project_member` and grants; claims, companies; challenges | invite, accept, remove; claim, create; prove, approve, reset | SpiceDB written inside a SQL transaction; idempotent repetition; a provider that is never asked under a lock | rows and grants agree; a repeated request creates once; a binding is earned |
| Authorization port, HTTP platform, pool keys | snapshots; one request; keys and presence | check, write; route to answer; create, rotate, revoke, sweep | answers older than the write that emptied the cache; permissions that change on the way | fresh or refused; only the entitled learn; a revocation names all |
| Policy decisions, catalogue publication | decisions, versions; elements and declarations | decide, bulk, pattern rules; publish, declare | rules that decide while a person does; columns renamed, retyped, recreated | a person's decision stays; decisions keep their ground |
| Query pre-filter, engine inspection, query path | a statement and a policy; one query | compile, resolve, inspect twice; prepare, record, send, seal, answer | two implementations of the same rules; a failure at every step | neither inspection is looser than allowed; every query is recorded as it went |
| Release custody, evidence | grants and escrow; runs, exports | issue, redeem, revoke, sweep; export, redact, retire | a provider outside the transaction; pages read while rows change | a share leaves once; a complete export is whole |
| Project stream, MCP sessions, gateway life | Redis channel, hub, socket; sessions; phases and timers | publish, subscribe, catch up; batch, announce; start, stop | changes between subscribing and reading; requests during a batch | no gap; every change is told; shutdown ends |
| Migrations, database scope, package pairing, test database | ledger; connection; two packages' files; the tests' sessions | up, down; scope; install, pair, back up, restore; run, reset | death between two writes, branches run at once | the ledger tells the schema; settings stay their own; trust is mutual |
| SQL rewriting, tokenization, observations, console, scripts | | | sequential, data transformation or I/O | see section 8 |

## 2. Modules

`PROJECT.json` maps every definition to its lines; the header of each module says
what it follows and what it leaves out.

| Module | Role |
|---|---|
| `CommitOrderDelivery` | nothing in the code: the contract of an outbox (a log, a graph, acknowledgments at their turn) |
| `RelationshipOutbox` | the outbox and `dispatchOne`; implements `CommitOrderDelivery` |
| `PoolBinding` | EXTENDS `RelationshipOutbox`: a request is the dispatcher of the rows it enqueued; implements it |
| `FilingRegister` | register, landing, receipts and notices: one state machine over four stores |
| `KeyCustody` | the gateway's custody service over the engine's vault |
| `ExecutionQueue` | admission of one pool |
| `SourceConnection` | sources, runs, jobs, policy, controllers and heartbeats: two components that share the rows of `data_source` |
| `MCSidecar` | EXTENDS `ExecutionQueue`; adds `SourceScope`, `StagedExecution`, `EngineCalls`, `EngineSupervision`, `FilingExtraction` |
| `MCAdmission` | `SessionStore`, `SignIn`, `Installation`, `Membership`, `LinkDelivery`, `IdentityBinding` |
| `MCGateway` | `QueryPath`, `PolicyDecisions`, `PoolKeys`, `HttpRequest`, `AuthzSnapshots`, `EvidenceExport`, `Migrations`, `DatabaseScope`, `PackagePairing` |
| `MCPlatform` | `ReleaseCustody`, `EngineRegistry`, `ProjectStream`, `McpSessions`, `GatewayLife` |
| `MCQuery` | `QueryPreFilter`, `EngineInspection`, `CataloguePublication`, `TestDatabase`, with the meaning of statements over small databases |
| `...Proofs` | theorems about `RelationshipOutbox` and `PoolBinding`, `SourceConnection`, `FilingRegister`, `KeyCustody`, `MCAdmission`; those about the parts of `MCSidecar`, `MCGateway` and `MCPlatform` are at the end of these modules |

**How the runs put modules together.** The outbox, bindings, filing, custody and
source models are checked by themselves, each under a configuration that gives its
constants. The MC modules each hold several components that share no state. A
variable `part` (`subject` in `MCQuery`) is chosen by Init, and Next is the next
step of that part with every other variable unchanged; the variables of the other
parts start with one fixed value. So one run checks each of them in full and none
of their products, which would say nothing more. Fairness is stated per part.

### State and actions against the code

**RelationshipOutbox.** `outbox` is the table in id order (`written` is
`written_at IS NOT NULL`), `graph` is SpiceDB, `tx[d]` the open transaction of a
dispatcher. `Enqueue` is a producer's commit; `Claim` everything in
`dispatchOne` up to the remote write (pair lock, earlier-entry query, row lock
with SKIP LOCKED, re-check of `written_at`); `SpiceWrite`/`SpiceFail` the remote
write, applied or not when it fails; `CommitWritten`/`CommitRefused`/`Rollback`
the end of the transaction. `DropSession` and `AdriftWrite` are a lost database
session: PostgreSQL releases the locks while the process still awaits SpiceDB.
Locks are derived from `tx` (`Holds`), because a transaction-level advisory lock
and a row lock live exactly as long as their transaction. Producers of a pair
hold its source and pool rows FOR UPDATE, which is why the ids of a pair are in
commit order.

**PoolBinding.** `Add`, `Remove`, `SetBinding` are the tenant transactions;
`BindingRows` is the SQL function `enqueue_pool_binding` of migration 043;
`Backfilled` the first explicit decision about a pool. The dispatch loop differs
between the callers and so does `NotWritten`: `tables.ts` throws at the first row
that is not written, `binding.ts` goes on and answers at the end. `Crash` ends a
request anywhere; nothing takes its rows over.

**FilingRegister.** `pass` is the position of the one running pass (scan,
reconcile or retry are serialised by a promise queue). Each record is persisted
before the copy in memory changes, so `filings` is both. Landing commit
(`Land`), receipt (`SendReceipt`), notice (`Notify`) and the persist of each
outcome (`Save`, `Told`) are separate steps; `Crash` can fall between any two,
`NotifyFails` may leave a late notice that `ArrivesLate` delivers.

**FilingExtraction** is what `FilingRegister` takes as one step: a file is read
three times, row by row, hashed before and after, and may be rewritten, and its
rules exported anew, whenever none of this runs.

**KeyCustody.** An operation of the engine holds the lock file from its first
read to its last write, so it is a function of the disk: `path` lists the disk
after each write, and a failure or a death leaves one of them. The bytes of a key
are a number and the sentinel is the same number, since the sentinel is derived
from the bytes. `call` is the request being executed, one at a time; each step is
an engine call with the transaction that follows it. `ServedLate` is a request the
gateway gave up; `lock = "abandoned"` a dead engine's lock file; `Damage` a copy
lost or altered from outside.

**ExecutionQueue.** `allowed[r]` is the concurrency the request was sent with.
`Passes` is `release` with the recursion of `grant` over overdue waiters;
`TimePasses` lets the bound pass before the timer (`Expire`) runs. `Leaves`
removes a waiter from where it stands (`indexOf`/`splice`).

**SourceScope, StagedExecution, EngineCalls, EngineSupervision.** A lease counts
until its connection is closed, a race is left at once while its reader goes on
to the next check; a request is staged in one DuckDB session and queried in
another, and the parent may abort between any two steps; a call is tried again
only before TCP connects; a child's locks are reclaimed by pid once it is reaped.

**SourceConnection.** `source` and `run` are rows, `job[g][i]` what process `g`
does for run `i`, `controller[e]` an engine's egress controller: its policy in
memory and on disk, the policy told by the last heartbeat, the version it claims
to have applied, the denied sources and the firewall (`open`). The content hash
that names a policy is the set of assigned sources. `Pick` is the stale read of
the queue; `Claim` the transaction that re-reads; `Unsecured`/`Refuse` the path
of `source-runtime.ts:16`, in which a process whose custody check failed fails
the run by id; `Heard` the heartbeat transaction; `BeatLate` a heartbeat served
after the controller gave it up. Sources are created with an engine.

**SessionStore, SignIn, LinkDelivery.** `todo[w]` holds the Redis commands a
worker has still to send, so that the commands of others fall between them; `raced`
remembers the sessions a write and a removal of which were under way together. A
sign-in is a chain of separate statements; so is the way of a link, from the
limiter through two transactions to whoever opens the mail.

**Membership, Installation, IdentityBinding.** A transaction is what it looks up
and what it commits, with the locks between; a write to SpiceDB inside it may take
effect though its COMMIT fails. An Idempotency-Key has its own record.

**QueryPath, PolicyDecisions, PoolKeys, HttpRequest, AuthzSnapshots.** One query,
one request, one question are followed through their awaits while the policy, the
session, the bindings and the permissions change around them. Time is a tick; a
pool-key command is replayed from its receipt until that lapses, after 24 hours in the
code (`keys.ts:35,107`), and is a new request then.

**ReleaseCustody, EvidenceExport, EngineRegistry, ProjectStream, McpSessions,
GatewayLife.** A grant is touched in one transaction and the provider outside it;
an export is read page by page behind its cursor, and a run becomes visible at any
time after the one it is stamped with; a probe is shared while it runs;
the hub subscribes before it reads the sequence number; a batch of reads meets
requests and rotations; the timers guard themselves.

**Migrations, DatabaseScope, PackagePairing, TestDatabase.** A runner, a command
or a test may stop between any two writes; a scope's function may run branches of
several statements at once, which go on asking when the scope has failed.

**QueryPreFilter, EngineInspection, CataloguePublication.** Operators over
statements (trees of records as DuckDB serialises them), policies and snapshots of
a table. `MCQuery` gives statements a meaning over small databases and holds both
inspections against it: the meaning is the reference definition, not the code's.

## 3. Runs

| Run (module) | Instance | Shows |
|---|---|---|
| `pool_binding` (`PoolBinding`) | 1 pool, 2 tables of 1 source, 2 requests, 5 rows, fair | rows, newest decision and SpiceDB agree once settled; no older decision comes back; every step is one of the outbox and one of in-order delivery; every request ends |
| `binding_retry_stuck` (`PoolBinding`) | 1 request | *violation*, section 7 |
| `custody_changes` (`KeyCustody`) | set up, a rotation, restores of the first key, the daily rehearsal; 4 versions, 2 upsets, 1 damaged copy, the engine may die; fair | the current key is explained, only recorded keys return, a pending operation is finished |
| `filing` (`FilingRegister`) | 2 deliveries of the same bytes, 3 upsets, fair | landed once, rows match the register, every delivery settles |
| `source_runs` (`SourceConnection`) | 1 source, 1 engine, 2 gateways, 3 requests, 2 upsets, late beats | one active run per source and one worker per run |
| `source_engines` (`SourceConnection`) | 1 source, 2 engines, 1 gateway, 2 requests, 2 upsets, fair | released means installed; waiting runs move |
| `sidecar` (`MCSidecar`) | queue: 4 requests, limits 1 and 2, 3 waiting; scope: 2 operations, 1 connection; staged: 2 sources, 2 objects of 1 row; calls: 2 certificates, 2 attempts, 3 changes; supervision: 2 zones, 2 pids, each container with its own, 3 starts; extraction: 2 filings, 1 rewriting | admission, leases, staged answers, audited calls, reclaimed locks, extraction |
| `sessions_return` (`SessionStore`) | 1 session, 2 workers, 3 calls | *violation*, section 7 |
| `admission` (`MCAdmission`) | 2 sessions and workers, 4 calls; 2 sign-ins and links, 1 change of provider; 2 requests, 2 claims; 2 persons, workers and invitations; 2 link requests, 2 browsers; 2 devices | who gets in; who is gone stays gone unless a write crossed the removal |
| `gateway` (`MCGateway`) | 2 sources and builds; 1 element, 2 rules, 2 handlers, 3 versions; 1 credential, 2 keys, receipts of 2 ticks; 1 process, 3 revisions; 2 runs in pages of 1; 3 migrations, 2 runners; 2 scopes of 2 branches of 2 statements; 2 packages, 2 upsets | what is true in every state and of every step of the gateway |
| `platform` (`MCPlatform`) | 1 grant, 2 signing keys, 1 switch; 1 query, 2 versions; 3 changes, 2 openings; 1 session, 2 credentials; 2 requests, 2 jobs; fair | what the gateway promises in the end, with its safety |
| `query` (`MCQuery`) | every statement of the grammar over a table with all treatments, its contributors grouped by 2; policies of 2 objects; a table published 3 times; 2 clients of the test database; 2 dispatchers, 1 ordered and 1 unordered relationship, 4 rows, sessions may drop | the two inspections, compilation, publication, the tests' database; rows of a pair are acknowledged oldest first, lost sessions included |

The properties are the ones `PROJECT.json` lists with each run. Those of the MC
modules are conjunctions, one conjunct per component, named in the comment above
each; a conjunct is defined and explained in its component's module.

### Bounds and why they are enough

- *Rows of the outbox* (`MaxEntries`): the interesting histories of a pair are
  touch, delete, touch with one acknowledged, one in flight and one pending; four
  rows contain all of them with two dispatchers. A decision to bind enqueues
  three rows and one to unbind enqueues one, so five rows hold a binding and two
  decisions against it, in any order. The proofs have no such bound.
- *Upsets* (`MaxUpsets`, `Max...Changes`): each failure, crash, lost answer, late
  call or change from outside costs one. Two suffice for a failure during the
  recovery from a failure, three for another one while that is reported.
- *Requests, keys and versions* (`MaxVersion`: no call prepares a candidate beyond it): two user requests allow reassign and reassign
  back, three allow a scan besides; four key versions allow a rotation whose
  candidate expires and is prepared again, followed by a restore.
- *Two* dispatchers, gateways, requests, workers, runners: every lock and every
  race in the code is pairwise. One pool, one grant, one question where the
  others share nothing with it but ids. One handler's rules decide about one
  element: rules meet only on an element.
- *Statements* of a branch: two, the first asked for while the scope runs and the
  second when it may be over.
- *Clocks* (`Horizon`, `ReceiptLife`, `...Time`, `Idle`, `Grace`, `Ttl`, `Ceiling`): limits of one or two
  ticks, and a horizon beyond their sum, so that before, at and after are all
  reached.
- *Statements of SQL*: every class of expression the inspections distinguish, nested
  once (a CTE, a subquery, a set operation, a join), over databases of up to two
  groups and a group below, at and above the threshold.
- Deadlock checking is off in all runs: the bounds end every behaviour, and the
  real system may rest with nothing to do. Waiting on each other is instead a
  liveness question (`EveryRequestEnds`, `QueuedRunsMove`, `EveryLeaseReturns`), or
  the invariant `NobodyWaitsForNothing`.
- Symmetry is used only with invariants: in `source_runs` over gateways, in
  `admission` over attempts and devices, which differ in nothing but their name.
- `pool_binding` leaves out lost sessions and `source_engines` beats served after
  the controller gave them up: with them `NoResurrection` and
  `ReleasedMeansInstalled` fail (section 7). `WrittenInOrder` and `ContactedOnce`
  are checked, and proved, with them.

### Fairness

- `PoolBinding`: weak fairness of a request's progress. Each `await` is settled
  by PostgreSQL or SpiceDB, and Node runs the continuation.
- `FilingRegister`: weak fairness of the running pass; strong fairness of
  starting a scan and a reconciliation, which the two timers of `start()` do
  again and again; weak fairness of opening an engine that stopped and of
  removing the lock of a dead one, which the supervisor does.
- `KeyCustody`: weak fairness of the running request and of the end of an
  engine operation; strong fairness of the daily rehearsal (hourly timer over
  projects that are due) and of expiry, which is time passing.
- `SourceConnection`: weak fairness of the controller's 5 s timer and the steps
  it leads to, and of a gateway's work: each matched heartbeat and each list of
  sources calls `resume`.
- `ExecutionQueue`, `SourceScope`: time passes and timers fire, a cancelled
  statement is interrupted, a socket closes; executions and readers need never
  end, but DuckDB's scanner settles.
- `EngineSupervision`: the supervisor's own steps and, of the child, only that it
  dies once it was told to.
- `EngineRegistry`: probes and routed queries go on, and the refresh comes round. `ReleaseCustody`: time passes, and the sweep, which the timer
  repeats, is answered by the provider again and again. `ProjectStream`,
  `McpSessions`, `GatewayLife`: Redis answers the commands of a living connection,
  the second's batch runs, Node runs its timers.

Users, failures and agents are never fair. No run assumes that SpiceDB, the
landing database or the engine succeeds; only that failures are finite
(`MaxUpsets`), which every liveness statement needs.

## 4. Proofs

TLAPS checks eight modules. Nothing in them is bounded: the bounds of section 3
(`MaxEntries`, `MaxUpsets`, `MaxRequests`, `MaxVersion`) are arbitrary numbers there, and so are
the sets of dispatchers, pools, deliveries, sources, engines, gateways and
requests. The assumptions on constants are the ones their modules declare
(`OutboxAssumption`, `PoolBindingAssumption`, `FilingAssumption`, `QueueAssumption`,
`ConnectionAssumption`, `CustodyAssumption`, `NoneIsNoCandidate`,
`AdmissionAssumption`, `PlatformAssumption`, `GatewayAssumption`, `SidecarAssumption`, `AbsentAssumption`): they say what kind of thing a constant is, and TLC
evaluates them in every run. Two constants are switches of the environment and
one is the number of a branch's statements; the theorems that need a value of one of
them say so.

**`PoolBindingProofs`**, first about the outbox, which `PoolBinding` extends:

- `Typing`: the type invariant.
- `WrittenOldestFirst` (`WrittenInOrder`): rows of a pair are acknowledged oldest
  first, with or without lost sessions. It is not inductive alone: that a
  dispatcher about to acknowledge a row still has no older pending row follows
  from `LockDiscipline`, which says that the rows held by open transactions are
  different, of different pairs where order matters, unwritten, and have no
  pending elder. Producers only append, a claim checks exactly this, an
  acknowledgment only makes rows written.
- `Ordering` (`NoResurrection`, assuming `~SessionsMayDrop`). The strengthening is
  `NothingAdrift` (nobody writes without its locks) and `WrittenIsReflected`
  (who has written to SpiceDB and not committed knows that the graph shows its
  row); without the latter an acknowledgment could make the newest acknowledged
  row one the graph does not show.
- `Implementation` (`ImplementsDelivery`, same assumption): every step is a step of
  `CommitOrderDelivery` or a stutter, with the rows as the log and the written
  rows as the acknowledged positions.

The assumption is necessary: with lost sessions TLC finds the counterexample.

and then about the requests:

- `PoolTyping`: the type invariant, with the rows each request has to dispatch.
- `OutboxRefinement` (`ImplementsOutbox`): every step of the requests is a producer's
  or a dispatcher's step of the outbox, or none. A commit appends exactly the
  batch `BindingRows` says (`AppendedDecisions`), and a request dispatches only rows
  it appended. It carries `WrittenInOrder` and `NoResurrection` over to requests.
- `SettledAgreement` (`SettledPairsAgree`, assuming `~SessionsMayDrop`). The
  invariant below it says that the newest row about a pair is the decision in the
  tables, whether or not it is dispatched (`NewestPreserved`): adding a table of a
  bound source appends nothing, removing the last one appends the revocation, and
  a set appends one decision per pair it changes. With the outbox's own
  `NoResurrection` the graph follows once nothing is pending (`SettledFollows`).

**`MCSidecar`**, at the end of the module, first about the queue (`ExecutionQueue`):

- `Counting`: the type invariant, which says that `active` counts the running
  requests and the queue is an injection onto the waiting ones. It is inductive:
  a waiter leaves by its position (`Shortened`), a release drops a prefix
  (`Rest`), and a place that is passed on is held by one request before and after.
- `SomebodyRuns` (`NobodyWaitsForNothing`) rests on it: a request joins the queue
  only while every place is taken, and a release that finds nobody in time leaves
  an empty queue.
- `Admission` and `Timeliness` (`OverdueIsRefused`): statements about one step. Only
  a release lets a waiter in, and it is the first in time.

and then about the parts beside it, from `PartInv` (which TLC checks too):

- `TheEngineKeepsItsWord` (`EngineKeepsItsWord`). The leases of a scope are exactly
  the operations that hold one (`Lent`), so the ceiling on connections is one on
  leases, and a caller leaves its reader only when it has expired (`ScopeInv`). Of a
  staged execution, every source that was estimated is reported before anything is
  asked of it (`StagesUsed`), what is staged lies where the step is (`StagesPlaced`),
  and the objects before the current one are whole (`StagesWhole`), so an answer is
  given only over objects that all are. A call is followed at both
  ends of its connection (`CallInv`). What is open was opened under the certificate
  of now, or has not been handled (`ConnectionHeld`); only the leg of the operation
  reaches the source, a repeated leg never does (`ReachesOnce`); and each place a
  sample has come to says which records are durable (`RecordedFirst`). The
  supervisor has one child at most (`OneChild`); a signature in a lock is that
  child's, since the next is spawned only when what the last one signed was
  reclaimed (`SignedByTheChild`); and each start since the last stable period used up
  one of the delays (`StartsCounted`). What has landed is dated under the declarations
  it landed under, which change only while nothing runs (`DatedInv`), and the last day
  of a month is a date whose next is none (`LastDays`, over every year).
- `NothingOfOthersIsTouched` (`OthersAreLeftAlone`). A child holds the locks of the
  zones it opened (`ChildHolds`), so what a step removes is a child's or the
  supervisor's, or, where the containers on one volume number their processes apart,
  of an owner with the number of the child that is being reaped (`NumbersMeet`): that
  case is all the theorem leaves open, and section 7 has it; while the rows of a filing are read nothing of it has landed and
  it is landed under the strategy on record (`ExtractionInv`).

`SidecarAssumption` says nothing of how processes are numbered: `Separate` is either.
It says what a declared period is, a year and one of its months or quarters (`domain/landing.ts:12-13`; `exact_date`, whose
label is the date itself, is not modelled). Whether what lands is the file stays with
TLC.

**`SourceConnectionProofs`**

- `ConnectionTyping`: the type invariant; every run is of a source that exists.
- `OneContact` (`ContactedOnce`). Every step leaves the runs alone, adds one for a
  source without an active one, or moves an active run on, never back to the queue
  (`RunSteps`). So the active run is the latest of its source (`ActiveIsLatest`), and
  a gateway past its claim holds a run nobody else can claim (`TakenOnce`), although
  every gateway works from a stale read of the queue.
- `ReleaseNeedsFirewall` (`ReleasedMeansInstalled`, assuming `~LateBeats`): a
  controller claims to have applied a policy only while its firewall admits what
  the policy names (`BeatsReportTheFirewall`), through failing names, restarts and
  reassignments, and the beat that releases a source carries that claim. With
  late beats TLC has the counterexample: the claim may be out of date.
- `EndsForGood`, `ArchivedForGood`: action properties from the same invariants.
- `ConnectedThroughTheEngineOfNow`: a connected source was last introspected
  through the engine it is assigned to now; its invariant follows the latest run
  of the source and the jobs that hold it (`TestedThroughItsEngine`).

**`FilingRegisterProofs`**

- `FilingTyping`: the type invariant of all four stores and the running pass; the
  register never has more filings than there are deliveries (`NoMoreThan`).
- `RowsStandAsRegistered` (`RowsMatchRegister`) and `BytesLandOnce` (`LandedOnce`) from
  one invariant, `Inv`. Neither property is inductive. `FilesDiffer` and `OneReady`
  say that two filings are never of one file and never both ready with the same
  bytes; `OneReceipt` that the landing database has one commit receipt per filing;
  `PassKeeps` follows the running pass: what it is about to persist differs from
  the record in memory only in the progress of that filing (`Progresses`) or by
  what a retry identified (`Identifies`), and it works on a filing for landing only
  if nothing is committed for it; `Recovered` is the reason why that holds after a
  crash: a reconciliation recovers the commit receipts of every filing before it
  resumes one, so those still ahead of it that are committed are recorded as such.

**`KeyCustodyProofs`**

The properties are about what the engine has on disk after any write of any
operation, however it ended and whenever it was served, against the gateway's
records. The proof has three layers.

- *One operation.* `Behaves` says of the disks that an operation leaves write by
  write that each is well-shaped (`Sound`) and is one of six things (`Effect`): the
  retained keys as they were with the candidate kept or cleared, a first key, a
  prepared rotation or restore, a promoted candidate, a key put back; and, of an
  operation that answers ok, what the answer says of the disk (`Answers`). It is
  proved of each operation from its writes (`FirstKeyLeaves`, `StagedLeaves`,
  `PromoteLeaves`, `PutBackLeaves`), and of a call that fails, loses its answer or
  waits to be served (`CallsAreServed`).
- *The records.* `Fits` relates a disk, a late request and the keys made so far to
  the records. The argument follows the ids: an id is given to one candidate only,
  so the candidate a pending operation names is the one that was recorded for it
  (`PendingIsPrepared`), and a request that comes late (`Harmless`) commits either
  the pending candidate or nothing, and puts back only a recorded key. A candidate
  of a rotation is never a retained version, and a pending rotation's version is not
  on record yet (`Explained`): so a commit served after the rotation was finished
  finds no candidate. `EffectFits` shows that each of the six effects keeps `Fits`.
- *The steps.* One lemma per action of the gateway and of its surroundings
  (`StatusKeeps` to `DamageKeeps`), where a request finds what its place promises
  (`CallShape`).

`CustodyTyping`, `CustodyExplained` (`CurrentIsExplained`), `CustodyReturns`
(`OnlyRecordedKeysReturn`) and `CustodyMatch` (`KeysMatchRecords`, which no run lists)
follow from the invariant.

**`AdmissionProofs`**, of the composition `MCAdmission`: a step of it is a step of one of
its six modules and leaves the others alone, so each has an invariant of its own and
the run's four properties follow from them.

- `MembersAreGranted` (`RowsAndGrantsAgree`). `GrantsFollow` says what SpiceDB grants a
  person from the row, the creator's unwritten outbox row and the transaction that is
  about that person, at each of its writes; `LocksHold` which transactions can be open
  at one time under the row locks. A dispatcher that replays a grant meets a removal
  there. `SomebodyIsLeft` is why two removals at once leave an administrator.
- `AnsweredAreGranted` (`AnsweredMeansGranted`). Of companies: whoever is creating one
  under a key holds the key's lock and found none (`KeysHeld`), and the companies of a
  key are counted against the answers that lapsed (`CompaniesCounted`). Of links: what a
  request has come to tells whether its link and mail are there (`RequestStands`).
- `EntriesAreEarned` (`EntryIsEarned`). A sign-in remembers the link it spent, whatever
  became of it (`LinkSpent`, `LinksApart`); a challenge that is outstanding, or escrowed
  and not yet kept, has not been tried and belongs to one request (`PreparedStands`,
  `ChallengeStands`).
- `SessionsStayGone` (`GoneStaysGone`). The invariant is about the commands that are
  still to be sent. A session that is absent, and that nobody is about to write, stays
  so, since a write is begun only of a session that is present or new
  (`OnlyPutRevives`, `StillSettled`): that is the action property `GoneForGood`, without
  any exception. What the code does not keep is that a revocation ends in such a state:
  a `touch` or `rotate` that has read the session before brings it back (section 7).
  `BackOnlyIfCrossed` says that this is the only way: otherwise a worker takes a session
  out of the index only right after it deleted the key, or found it absent (`Paired`),
  so what is known and not listed is gone, and `revokeAllFor`, which reads only the
  index, misses nothing.

**`MCPlatform`**, at the end of the module. As in `AdmissionProofs` each part has an
invariant of its own; `PlatformStep` puts them together.

- `NoStreamHasAGap` (`NoGap`). The hub's channel, its subscriber and the reader are
  related by where each is in the project's sequence (`StreamInv`): whoever has read
  a position has subscribed before it, so what is published later is either in the
  snapshot or still in the channel, and what is queued for a socket continues what
  was sent. Grants: the keys in custody include the key of every grant that can
  still be redeemed (`ReleaseInv`). Sessions and start-up are invariants of the
  handler, the batch and the timers (`SessionsInv`, `ProcessInv`).
- `EachShareLeavesOnce` (`SharesLeaveOnce`): three action properties. A share leaves
  in the step that records the redemption, under the row's lock, so a revocation, an
  expiry and a switch of the provider come before or after it. A query is dispatched
  on an observation only if nothing was registered since (`Dispatches`). A batch closes
  a session by the credential it read with it (`GoodStayOpen`).

**`MCGateway`**, at the end of the module.

- `OnlyTheEntitledReachIt` (`OnlyTheEntitledLearn`). A request's invariant says what
  each of its steps has established before it (`RequestInv`). For the snapshots of
  permissions it follows three copies of an answer: kept, on its way and given. Each
  was true at its revision, is no younger than its age says, and one that was asked
  for after the process's own last write is of that write or later
  (`KeptAfterOwn`, `SentAfterOwn`), unless a write overlapped it; the exception is
  `OwnWritesAreSeen` of section 7.
- `EveryQueryIsRecorded` (`QueriesAreRecorded`). For each step of a query the invariant
  has what it has asked (`Unasked`), planned, put on record (`OnRecord`) and what may
  have ended it (`Causes`), under changes of the policy, of the bindings and of the
  engines between any two of them.
- `EveryCredentialIsEarned` (`CredentialsAreEarned`). *Pool keys*: an agent that is being
  observed holds a key that is current or retiring, since no command runs meanwhile
  (`ObservedHold`), so nobody appears with a revoked key after its revocation named
  its users. A key that an Idempotency-Key made is remembered with it, and until its
  receipt lapses the same Idempotency-Key makes no other, whatever was asked with it in
  between (`Remembered`, `Spaced`); after 24 hours it does, as in the code. *Pairing*: what
  a gateway has recorded or was answered is the engine's peer, or was taken back by a
  restore (`Mutual`); secrets are made from none (`SecretOnce`), in every backup too.
  *Policy*: custody is decided only where it can be bound (`DecisionInv`).
- `WhatIsThereIsTold` (`NothingIsLost`). *Exports*: every run a
  transfer owes and that is still there is written, read or behind the cursor
  (`OwedIsHeld`); what was written or read never is behind it (`TakenIsPast`), since
  the cursor only moves back in a strict order of time and id (`NewerOrders`), so no
  run is written twice and the page that is not full is the last one (`LastIsAll`).
  *Migrations*: the key of a ledger row is in one runner's hand (`OneHand`), and what
  that runner found of the row still holds when it commits (`RowsInHand`). *Scopes*:
  while a scope has the connection its statements stand in the order in which they were
  asked for, with none that is late before one that is not, and a scope that drains
  awaits all those (`Orderly`, `AskedOf`), so none of them is sent after it has ended
  (`SentInside`); between two statements nothing is tuned (`TunedForFirst`), unless a late
  one was sent over a connection that is no longer its own. That it may be is the code's
  (section 7); no bound on the statements of a branch is assumed.
- `WhatAPersonDecidedStays` (`DecidedByAPersonStays`): every decision of a rule is made of
  an undecided element (`Deciding`), and a compilation's two readings of the version
  enclose its reading of the policy.
- `EveryStepKeepsFaith` (`StepsKeepFaith`). A job that has stopped the services finds them
  stopped, and what it has in hand is one backup (`InHand`): the peer changes only as
  a restore replaces the directory, and a restore that completes runs one backup.
  `AgeingTwice`: reading a presence through a sweep and reading it as it is give the
  same state at every later time. That proof is why `RestoredIsWhole` is stated as it
  is: a restore that dies between the directory and the volumes leaves a mixture,
  which the next restore copies as its safety backup (TLC shows it with five upsets),
  so a completed restore runs one *backup*, and a backup is of one moment when the
  engine was.

### What stays with TLC

- Liveness (`EveryRequestEnds`, `EveryDeliverySettles`, `QueuedRunsMove`, `PendingSettles`,
  `EveryLeaseReturns`, `HealsByItself`, `EveryChangeIsTold`):
  fairness and ENABLED are out of the prover's reach.
- Of `sidecar`, `FilesLandWhole`: that what landed is the file, row by row, is
  induction over the file. Of `sidecar`, `pool_binding`, `custody_changes` and `filing` their liveness.
- `MCQuery`: what the recursive operators compute for every statement is induction
  over data, which the installed provers cannot do; the modules hold RECURSIVE
  operators, and no theorem may rest on them.

## 5. Plan

1. More of the filing register: receipts are grounded in commits, the gateway's
   projection shows what was noticed, what landed stays landed. TLC agrees with all
   three; they extend `Inv`.
2. `NothingSpilled`, the part of `FilesLandWhole` that is not about the rows or the
   names of a file.
3. Abstract specifications worth stating: a register of arrivals in which landing,
   receipt and notice are one step; a key ring whose rotation is one step.
4. Models to extend: loss of custody's lock session, sources without an engine,
   registration of a project at a controller.

## 6. Reading a violation run

A run that `PROJECT.json` lists with `"expect": "violation"` checks one property,
stating what a document, comment or test of the repository says; TLC finds a
behaviour of the code that contradicts it. `binding_retry_stuck` checks an action
property, so the last step of its behaviour is the disagreement: a repeated request
gives way to a row that no running request will dispatch. `sessions_return` ends in a
state in which a session whose revocation was answered is in Redis again: a request's
`touch` had read it before the revocation's DEL and sends its SET after it.

## 7. What the code does not keep

The first two rows are runs of the regular check. The others were met while
modelling: each is a property defined in the module (or, where no name is given, a
behaviour of it) that TLC finds violated when the module is checked for it, with
the bounds of section 3 unless a constant is named.

| Module | Property | Code | Disagrees with, or worth knowing because |
|---|---|---|---|
| `PoolBinding` | `RetryIsServed` | `relationship-outbox.ts:88`: a row left pending bars the pair and nobody dispatches it | `docs/slice1-technical-documentation.md:3036` |
| `SessionStore` | `RevokedIsGone` | `redis-session-store.ts:100-115`: a touch or a rotation writes back what a revocation deleted meanwhile | `test/session-store.test.ts:90`, test specification D-006, D-008 |
| `PoolBinding` | `BindAnsweredMeansReachable` | `pools/infrastructure/tables.ts:36`: binding again after a failed delivery enqueues nothing and answers ok | `docs/implementation-plan.md:106` |
| `RelationshipOutbox`, lost sessions | `NoResurrection` | `relationship-outbox.ts:86`: the pair's lock is no fence for the remote write | `relationship-outbox.ts:81-82` |
| `KeyCustody` | `PromotionResumes` | `file-custody.ts:34`: a dead engine's lock file stays | `test/key-custody.test.ts:149` |
| `KeyCustody` | `RestoredWhatWasAsked` | `key-custody.ts:67,69`: a key is reused for another version; a restore is answered ok by completing whichever was pending | `test/key-custody.test.ts:156` |
| `SourceConnection`, `Unresolvable` | `ResolvedProceed` | `egress.ts:15`: one unresolvable source that was archived stops its engine's policy | `docs/slice1-technical-documentation.md:5910-5912` |
| `SourceConnection` | `RecoveredIsRetested` | `egress.ts:18-19`: recovery of a connected source leaves it pending with nothing queued | `docs/slice1-technical-documentation.md:5911-5912` |
| `SourceConnection` | `PublicationEnds` | `introspection-job.ts:88`: a run in diffing has no way out when its worker died | `engines/infrastructure/repository.ts:33` |
| `SourceConnection`, `LateBeats` | `ReleasedMeansInstalled` | `egress.ts:13`: an old acknowledgment releases a source | `docs/test-specification.md:1630` |
| `FilingRegister` | `DuplicatesNameAnother` | `register.ts:290`: a retried filing becomes a duplicate of itself | `sidecar/README.md:117` |
| `FilingRegister` | `RestatementsLeadBack` | `register.ts:291`: two filings restate each other | `sidecar/README.md:115` |
| `FilingExtraction` | | `extract.ts:33-36`: a cell error in the first row after an omitted row refuses the whole filing | `sidecar/README.md:159-160` |
| `FilingExtraction`, `Restored` | | `register.ts:156-162`, `postgres-landing.ts:157`: rules exported anew between inspection and a retried landing; a file altered and put back between two hash checks | neither is detected |
| `ExecutionQueue` | | `queue.ts:19-20`: newcomers overtake after the limit was raised; lowered, a waiter starts above its own limit | `queue.ts:4`, `docs/algorithm-specifications.md:841` |
| `StagedExecution` | | `execute.ts:53`: the deadline starts after admission | `sidecar/execution/README.md:35` |
| `StagedExecution` | | an abort between two DuckDB statements is lost until the next | the deadline still ends it |
| `QueryPath` | | `mcp/application/query.ts:70-71`: a result that fails its contract after sealing leaves its shares until they expire | |
| `SignIn` | `MembersAreLetIn` | `invitation-repository.ts:27,100`, `magic-link-repositories.ts:43-46` | `test/invitations.test.ts:164` |
| `Membership` | `GrantsNothingUntilAccepted` | `invitation-repository.ts:105`: the grant is written before the COMMIT that may fail | `docs/implementation-plan.md:115` |
| `LinkDelivery` | | `magic-link-repositories.ts:62`: two requests at once leave two working links | test specification B-006 |
| `LinkDelivery` | | `platform/mail/outbox.ts:33`: `dispatchPending` has no caller, a mail that was retained is never sent again | `docs/slice1-technical-documentation.md:1049-1051` |
| `LinkDelivery` | | `oidc-routes.ts:12,24`: a second tab's OIDC sign-in takes the first one's cookie | |
| `AuthzSnapshots` | `OwnWritesAreSeen` | `spicedb-authorization-port.ts:122`: a check that began before a write stores its answer after the write cleared the snapshots | bounded by the staleness ceiling |
| `PolicyDecisions` | `EveryTargetIsDecided` | `migrations/097:2-18`: the guard's trigger refuses inside `pattern-rules.ts:80-86` | `pattern-rules.ts:36-37` |
| `CataloguePublication` | `TimestampsHaveAZone`, `SoundSourcesArePublished` | `introspection-diff.ts:98-108`, `catalog.ts:146-162` | `temporal.ts:32`, test specification G-005 |
| `CataloguePublication` | | a table dropped and created again carries decisions by attribute number; a contributor key may be hidden while `aggregate_only` rests on it | test specification ISO-003 |
| `DatabaseScope` | `NoneRunsOutsideItsScope` | `scope.ts:102`: branches of a failed scope go on after its drain (`introspection-query.ts:30`), and their statements go over a connection that was released | `platform/db/scope.ts:100-101` |
| `PackagePairing` | `RecordedIsPublished` | `customer-install.ts:210`: a crash between its writes; a restore that dies midway leaves a mixture (`deploy/customer/command:98-107`) | |
| `EngineSupervision`, `Separate` | `UnknownOwnersKeepTheirLocks` | `supervise.ts:18`: pids of two containers are compared | `supervise.ts:19-20` |
| `EngineSupervision` | | a crash between `open('wx')` and the write of the pid leaves an empty lock (`register.ts:89-90`); SIGTERM during start-up leaves one (`start.ts:60`) | |
| `EngineRegistry` | | `registry.ts:62,91`: with reuse off an unhealthy engine heals only by an explicit test; a registration edited elsewhere is still dispatched to | `registry.ts:140-142` |
| `PoolKeys` | | `presence.ts:73`: a sweep uses settings read before it started; a key is lost if its first answer is; `keys.ts:35,107`: after 24 hours the same Idempotency-Key makes a second key | |
| `ReleaseCustody` | | an escrow whose issue fails is an orphan until the sweep; a provider switch that fails midway commits revocations (`runtime.ts:98-105`) | |
| `GatewayLife` | | a stream in flight at SIGTERM subscribes after the hub has closed | it ends at the deadline |
| `McpSessions` | | a session whose requests always fall into the poll's window is never told of changed tools | |
| `TestDatabase` | `CapsAreTakenBack` | a stray reset that was not awaited, or a teardown's stray work, is never drained | `scripts/testing/database-deadline.ts:246` |

`NoResurrection` needs a second dispatcher of the same row; today every caller
dispatches only the rows it enqueued, so in `PoolBinding` the hazard is confined to
a request whose own session is lost.

## 8. Not modelled, and why

`PROJECT.json` has, for each part, what is left out. As a whole:

- *SQL rewriting and tokenization* transform data and keep no state; the
  repository's conformance tests are about them.
- *Observations* are inserts in the transaction of the operation they describe.
- *Console* is a user interface; *operator scripts, harness and deployment* are
  tooling, but for pairing and installation (`PackagePairing`), migrations and the
  tests' shared database.
- Within modelled parts: texts of reasons, audit entries, telemetry, and
  permission checks that refuse before anything changed are left out; a refused
  request is a step that changes nothing. Cryptography is what it promises: bytes
  are numbers, a sentinel is the number it was made of, a signature names its key.
- A text is a model value wherever only equality matters; names are sequences of
  characters in `QueryPreFilter`, where folding and joining them matters.
