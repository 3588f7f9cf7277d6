# falcoria in TLA+

TLA+ models of falcoria, a network-inventory platform: **scanledger** stores what is known
of a project's addresses, **tasker** turns scan requests into Temporal workflows, **workers**
run nmap and upload reports. The modules model the code under `src/apps/*/src` and
`src/packages/*/src`; TLC checks them on small instances and TLAPS proves some of their
properties for all values of the constants. `PROJECT.json` lists the runs, the mutants that
show each property can fail, the source lines behind each definition, the disagreements
found between code and documentation, and the hazards this code is exposed to.

Below, `SL`, `TK` and `WK` stand for the packages `falcoria_scanledger`, `falcoria_tasker`
and `falcoria_worker`.

## 1. The system

| component | state | operations | talks to |
|---|---|---|---|
| reconciliation (`SL/ips/modes.py`, `reconcile.py`, `dedup.py`) | none: pure | `dedup_batch`, `apply_mode`, `diff_ports`, `refresh_port`, `close_stale_port` | called by the write path |
| write path (`SL/ips/service.py`, `database.py`) | `ips`, `ports`, `observed_hostnames`, one transaction per request | `import_scan`, `create_ips`, `delete_ips` | PostgreSQL; stages history and outbox rows |
| event feed (`SL/events`) | `outbox_events`; the consumer's cursor | `build_event`, `write_events`, `read_events` | written by imports, polled by a consumer |
| history (`SL/history`) | `ip_port_history` | rows staged by imports, `list_history`, `delete_history` | written by imports |
| report parsing (`SL/ips/nmap.py`, `schemas.py`) | none | `parse_report`, `merge_port_ranges`, `export_report` | feeds the import, renders the inventory |
| search and facets (`SL/ips/search.py`, `facets.py`) | none | `search_ips`, `get_facets`: several statements each | PostgreSQL; asked by clients page by page, by tasker in chunks |
| users, projects, members (`SL/auth`, `SL/projects`, `SL/main.py`) | `users`, `projects`, `project_member_link` | seeding at every start, token rotation, membership, `validate_project_access` | asked by tasker for access checks |
| scan requests (`TK/scans/service.py`, `sharding.py`) | requests in flight, background tasks | `run_scan`, `get_scan_status`, `cancel_*` | scanledger over HTTP, Temporal |
| Temporal gateway (`TK/temporal`) | none of its own | start, list, query, batch cancel, batch terminate | Temporal's visibility store |
| targets and DNS (`TK/scans/targets.py`, `resolve.py`) | none beyond a request | duplicates, networks, private addresses; lookups with a semaphore, timeouts and retries | DNS |
| access cache (`TK/security.py`) | process-local cache, 45 s | `require_token`, `require_project_access` | scanledger |
| fleet view (`TK/workers`) | none | reads pollers | Temporal |
| workflows (`WK/temporal/workflows.py`) | per batch: counters and a window of children | `ScanBatchWorkflow`, `ScanWorkflow` | Temporal, activities |
| activities (`WK/temporal/activities.py`, `scanledger.py`) | one attempt | `nmap_scan`, `upload_results` | nmap, scanledger |
| nmap runs (`WK/nmap/executor.py`, `scanner.py`) | one process, one heartbeat task, one report file | run, terminate, heartbeat | the operating system |
| report merge (`WK/nmap/xml.py`) | none | merges the XML of two passes | - |
| shared packages | none | contracts, retrying HTTP transport, logging | all |

**What is hard here.**

- *Concurrency*: imports of one project run in parallel transactions; two `run_scan`
  requests and the batches of earlier scans interleave; a cancel races with everything.
- *Ordering*: transaction ids, commits and row locks order the same imports differently, and
  the feed's cursor depends on all three. Reports arrive in any order.
- *Failure*: activities and HTTP requests are delivered at least once; an attempt the server
  has given up on may go on; the API can die after it has answered and before it commits.
- *Timeouts and cancellation*: nested timeouts (nmap pass, activity, heartbeat, transport,
  idle transaction), two-phase cancels at two levels, cancellation at every `await`.

**What correctness means, per component.**

- Reconciliation: an import leaves only open ports, never closes what it has not covered, and
  is idempotent. The history follows the inventory.
- Write path: each import is one atomic reconciliation, however it interleaves; every
  transaction ends.
- Feed: at least once, in the order the changes were made, nothing skipped.
- Sharding and ranges: no port lost, none scanned oftener than listed, coverage exact.
- Search: a page misses or repeats a host only if hosts before it change meanwhile; excludes,
  facets and `matched_ports_only` agree with the search they belong to; what tasker is told
  to be known is known.
- Reports: the service pass adds services and nothing else; an export restores what it shows
  and closes nothing.
- Batch: retries, duplicates and shards together amount to one import per host; progress
  is honest; the batch ends; a cancel stops all of it; those who watch it through queries see
  it take the steps of a simple window of tasks.
- nmap run: no process, file or heartbeat is left behind; every attempt ends.
- Access: what tasker answers is at most as old as its cache allows, and what the environment
  configures is in force after a start.
- Targets: every address of a request is scanned, skipped or reported, once; a request ends
  whatever DNS does.
- Scan requests: what is known or under way is not scanned again; a cancel stops what its query
  reaches and nothing else; a status is not ahead of the work.

## 2. Modules

| module | models | composes |
|---|---|---|
| `Reconcile` | one import of one address, and its event | - |
| `InventoryLog` | abstract: imports and deletes as atomic steps with a log of events | `Reconcile` |
| `ImportFeed` | transactions, locks, outbox, feed and consumer | `Reconcile`; refines `InventoryLog` |
| `ImportFeedProofs` | theorems about `ImportFeed`: feed, locks, atomicity, single-address imports | `ImportFeed` |
| `PortRanges` | `merge_port_ranges`, `shard_ports` | - |
| `Ranges` | `PortRanges` under the name `R`, for modules with names of their own for what it defines | `PortRanges` |
| `FoldProofs` | lemmas on folds, and what the algorithms of `PortRanges` compute | `Ranges` |
| `ScanRequest` | one request from its hosts to its tasks and summary | `Ranges` |
| `ScanRequestProofs` | theorems about `ScanRequest`, and what `shard_ports` returns for any list | `ScanRequest`, `FoldProofs` |
| `NmapReport` | reports: merge of two passes, parsing, export | `Reconcile`, `Ranges` |
| `Inventory` | imports, batch dedup, stored state, history | `NmapReport` |
| `InventoryProofs` | theorems about `Inventory` (types, retries, REPLACE, history, merge and export of reports) and about `Search` | `Search`, `FoldProofs` |
| `Search` | readers of the inventory: lists, searches, facets, the known check | `Inventory` |
| `NmapScan` | one attempt of `nmap_scan` | - |
| `NmapScanProofs` | theorems about `NmapScan` | `NmapScan` |
| `BatchView` | a batch as queries show it, and its steps | - |
| `BatchOutline` | abstract: what a batch promises to its clients | `BatchView` |
| `ScanBatch` | one batch from its tasks to the inventory | `Reconcile`, `Ranges`; refines `BatchOutline` |
| `ScanBatchProofs` | theorems about `ScanBatch`: progress, refinement, inventory | `ScanBatch`, `FoldProofs` |
| `Campaign` | scan requests, batches, cancels, status | `BatchView`; takes over from `ScanRequest` |
| `CampaignProofs` | theorems about `Campaign` | `Campaign`, `FoldProofs` |
| `Access` | users, tokens, projects, members, seeding, tasker's cache | - |
| `AccessProofs` | theorems about `Access` | `Access`, `FoldProofs` |
| `MC*` | instances for TLC | - |

A definition whose name has the form `Name_Something` and whose comment starts with "Slip" is
a plausible mistake in the code that `Name` translates. `PROJECT.json` pairs each checked
property with the slips that violate it.

### Reconcile

`ApplyMode` is `apply_mode`: `Created` and `Updated` return the record the code calls a
`ChangeSet`. Ports are a function from `<<number, protocol>>` to
`[state, service, detail]`. `service` stands for the three tracked fields `service`, `product`
and `version`, which the code treats alike; `detail` for the untracked ones that events carry
all the same, `service_method`, `cpe` and `tunnel`. `RefreshPort` takes over both and
`FieldChanges` reports changes of `service` alone, so a port of which only `detail` is new
changes without an event. `ImportFeed` has both; in `Inventory` and `ScanBatch`, whose properties
are about ports, services and the log, a port has no `detail`. `meta` stands for `status` and `os`.
`""` is a missing value: it never overwrites one. `BuildEvent` returns at most one event.

### ImportFeed and InventoryLog

A session's transaction moves through `load` (the `SELECT ... FOR UPDATE` of `_load`, one row
at a time and in any order, since the statement has no `ORDER BY`), `write` (hostnames in any
order, then the history rows of a tracked import, then new addresses, the last two in the
order of the request) and commit. `delete` is the `DELETE` of `delete_ips`. A statement sees
the rows of its own snapshot; `gen` tells a row from a later row of the same address.
`WaitsFor` has the four waits of these statements: row locks, and the unique keys of hostnames,
of history rows and of addresses. `_write_history` runs before `session.flush()`, so two
imports of one new address may meet on its history rows before either inserts the address.
The order of the rows of one address is that of the ports in the request, which the model
leaves open (`HistoryOrders`). A transaction gets its id at its first lock or write; an
`INSERT ... ON CONFLICT DO NOTHING` that finds its row committed takes none in the model (where
PostgreSQL assigns one all the same, the id is only taken earlier, as by an import that has a
hostname to insert). `Abort` is a failing handler or a dying process, `IdleTimeout` the server
ending a session that sits between two statements, `DeadlockVictim` the deadlock detector.
`Finished` is `txid < pg_snapshot_xmin(...)`. The consumer saves its cursor after it has
processed a page (`Poll`) or dies before it has (`PollUnsaved`). The rows that `delete_history`
removes, and its locks, are left out here; `Inventory` has that operation.

`InventoryLog` is what clients may assume: an import reads, reconciles and logs in one step.
`ImplementsAtomicImports` maps `store` and the payloads of `outbox` to it.

### PortRanges and ScanRequest

`PortRanges` has the two algorithms on ranges. `MergePortRanges` puts the lower bound of each
range first (`Ordered`), raises if a bound is no port (`InBounds`: the result is then the empty
set, otherwise the set of one list), and fuses what touches with a fold that takes the greatest
range off the set (`Greatest`), which is what sorting is for; `ShardPorts` is a fold along the
list. `ScanRequest` is the pure and the
concurrent part of `run_scan`, for the requests its schemas accept (`Accepts`). Addresses are
numbers and networks intervals aligned as CIDR blocks are, so that `Normalize` and
`ExpandCidr` do what `ipaddress` does. Each hostname is a process: it acquires the semaphore,
asks, and on a failure sleeps or gives up, holding the semaphore throughout. `Start` takes any
answer of scanledger and Temporal about known and running addresses; `Tasks` is what
`_build_tasks` makes of what is left, and `response` the summary and the targets not scanned.
The ghost `answers` remembers what DNS said.

### NmapReport and Inventory

`NmapReport` follows a report through the system. `EnrichXml` is the worker's merge: it sets
the hostnames of the target and overlays the services a second pass found. `ParseReport` is
what scanledger makes of it, `ExportReport` what `GET /ips/download` returns. Repeated hosts
and ports stay, in order: `dedup_batch` and `_index_ports_by_key` let the later one win.

In `Inventory` requests are atomic (that they may be is what `ImportFeed` shows). `DedupBatch`
puts one entry after the other into a table of addresses (`PutEntry`), and their ports into
tables of keys (`PutPort`). A report whose `<scaninfo>` names a port that does not exist fails
to parse, and a list that names one is not accepted; the other lists come with their ranges
normalised (`Validated`). `Claims` are the sets of ranges the property of `merge_port_ranges`
is about. `history`
has the unique key of `ip_port_history`; `HistoryAfter` is `ON CONFLICT DO NOTHING`. The ghost
`clean` holds the addresses whose log can be complete: tracked since created, by imports newer
than every row. `Passes` are the merges the properties speak of.

### Search

`Search` adds readers to `Inventory`. A clause is the record of its fields that are set; a
column is the set of its value, empty for NULL, so that `Meets` can say what each condition
does with NULL. Of the columns that are read alike, one is kept: `service` for `service`,
`product`, `version` and `tunnel`, `meta` for `os`. A `LIKE` pattern is the set of texts that
contain it. A search is three statements, `Count`, `Page` and `Ports` (the hostnames of an
answer come by a fourth and are left out); a page of a list or of a search is followed by the
next until one is short (`Continue`), and `Write` is any import or delete between them.
`known` is `ScanledgerClient.search_ips`. `id` is the row id: rows are ordered by it in no
query, but a row created anew has another. `OFFSET` and `LIMIT` are said by how many of the
matching addresses come before one (`Earlier`); a page is a set, since no property is about
the order of its items. A chunk of candidates is cut in the same way (`Place`). Facets are taken of one state; the code asks for
one after the other.

### NmapScan

`pc` is the await the attempt sits in: the `start` of the process, `communicate`, the `grace`
wait after SIGTERM, the `reap` wait after SIGKILL, or, in `left`, the wait for the cancelled
heartbeat. A cancellation is delivered at any of them: at the start, where `SpawnFails` is a
failing `create_subprocess_exec`, no process comes of it (`NotStarted`), and in the last wait
it takes the place of the result (`Superseded`). `Leave` is what both
`finally` blocks do, together with what happens to a process that still lives. Ticks count
only while nmap runs.

### ScanBatch

The tasks are built as `_build_tasks` builds them (addresses times shards, shuffled; one
shard in INSERT mode), and `Coverage` is what scanledger takes from the report of a shard. A
child runs `scan`, then `upload`; each attempt is picked up by a worker (`Pick`) and ends
with a result, a failure, a timeout, or its worker. `execs` holds attempts the server may have
forgotten, `requests` uploads whose sender may have forgotten them. `Serve` processes an
upload and answers; `Commit` follows. `get_session` is a request-scoped dependency, and the
FastAPI that `uv.lock` pins leaves such a dependency after the response: `CommitLost` is an
API process or a connection that dies in between.

### BatchView, BatchOutline and Campaign

`BatchView` is the record visibility and progress queries show of a batch, with the functions
that change it (`Start`, `End`, `ClosedBy`). `BatchOutline` allows exactly those steps, and
closing only when asked. `ScanBatch!View` maps the workflow with all its attempts, retries and
lost workers to that record, and `ImplementsOutline` checks that it takes no other steps.
`Campaign` builds its batches from the same functions, so what it shows about scans and
cancels rests on what `ScanBatch` shows about one batch. What the outline leaves out is the
inventory: in `Campaign` a child that ends well has its report imported in the same step; in
`ScanBatch` the commit may follow or be lost.

Each `run_scan` of `Campaign` is a process that reads scanledger and Temporal at two moments
(`SearchKnown`, `ListRunning`), merges the hostnames of some of the known addresses, builds,
and starts its batches in any order, any of which may fail. `Matches` and `MatchesChild` are
the visibility queries; `Cancel` evaluates one, `Terminate` evaluates it again later.
`background` counts the tasks that wait to do so, per query, and `asked` remembers which
queries were cancelled; `MaxCancels` bounds the requests. `Restart` loses requests and
background tasks. `ListBatches` and `QueryProgress` are the two halves of a status request;
`Answers` is what it may say. `Delete` removes an address meanwhile. The ghost `before` is what
was known when a request came, `reported` what scanledger has from reports.

### Access

Each operation of the API is one step, guarded by what its dependencies require of some
caller. `Start` runs `ensure_primary_users` in one transaction: `Upsert` fails on another row
with the same token, and then scanledger stays down. A check by tasker is `Ask` (answered from
the cache if it can be), then one step for each statement of scanledger's answer
(`ReadUser`, `ReadProject`, `ReadMember`), `Return` or `Unreachable`. `Return` stores the
answer with an expiry that counts from `Ask`. The ghost `seen` holds the last moment at which
each fact about access was true. A generated token is new (`TokensAssumption`):
`generate_token` draws 60 random characters. `Tick` forgets entries that have expired and answers given.

## 3. Runs

All runs switch the deadlock check off: each model bounds the number of requests,
transactions or attempts, and stops when they are used up.

| run | shows | result |
|---|---|---|
| `feed_single` | single-address imports, tracked or not, three sessions, four transactions: the feed replays to the hostnames, ports and services stored, no event is skipped, circles of waits are over history rows of a new address only | holds |
| `feed_batch` | two-address imports and deletes, three transactions in two sessions, hanging and dying handlers, deadlocks: each transaction is atomic and ends, events arrive | holds |
| `feed_order` | the replay of `feed_single` with two-address imports | **violated** |
| `request` | all accepted lists of up to three hosts among addresses, overlapping networks and two hostnames, in two modes; of up to three ranges over five ports in one to four shards: every address accounted for, every port scanned as listed | holds |
| `inventory` | four tracked or untracked requests of all kinds over two addresses and three times, reports merged from two passes, ranges that overlap, are written backwards or name no ports: log, retry, late and repeated reports, merge, export, `merge_port_ranges` | holds |
| `batch_replace` | two shards of one host, a second upload attempt, zombies, lost commits | holds |
| `batch_live` | two hosts in INSERT mode with a window of one, transport resends, lost workers, hanging scans, cancels; refinement of `BatchOutline` | holds |
| `nmap_clean` | two passes of four ticks, one cancellation at any await, a failing start | holds |
| `nmap_leak` | the same, and no process may survive | **violated** |
| `campaign` | an UPDATE and an INSERT request over two addresses, with status requests, a cancel by scan or by address, a delete and a fault, workers or none | holds |
| `search` | three imports or deletes between the statements of lists, searches and known checks over three addresses | holds |
| `access` | two seeded accounts, one more user and project, three operations or restarts in any order with slow checks of a token | holds |

**Violated runs** state what a comment or a document says, and each is a finding in
`PROJECT.json`:

1. `feed_order`. The comment in `_load` argues that an import waiting for row locks has no
   id yet. An import of several addresses has one after its first row. While it waits for
   the second, the import that holds that row commits with a higher id: the feed then shows
   the changes of that address in the wrong order. Single-address imports, all a worker
   uploads, keep the order (`feed_single`).
2. `nmap_leak`. A cancellation that arrives during the grace period skips SIGKILL. The
   provable statement is that it takes two interruptions.

**Seen while modelling, without a run of their own:**

- Coverage has no protocol: `_scanned_ports` merges the services of every `<scaninfo>`, and
  `close_stale_port` compares numbers only (`Inventory!ScannedPorts`, `Reconcile!Closes`). A TCP
  scan of ports 1-100 under REPLACE closes a stored `53/udp`, which it never probed, where
  `docs/GLOSSARY.md` speaks of "what the current scan pass actually covered".
- `ensure_primary_users` cannot swap two tokens: the first upsert collides with the second
  account's row and scanledger does not start (`Access!Upsert`).
- Two tracked imports of one address that is not stored yet can deadlock: neither has a row to
  lock, so both insert their history rows, and if the reports have one end time and list the
  ports in different orders each waits for a row of the other. The detector ends one of them,
  and its retry finds the address stored. `DeadlocksAreOverHistory` says that single-address
  imports deadlock in no other way.
- A change of `service_method`, `cpe` or `tunnel` alone is stored without an event
  (`refresh_port` takes them over and records no change; a test asks for that). `ports.current`
  of the last event carries these fields, so a consumer has them as of the last tracked change:
  `FeedReplaysInventory` speaks of hostnames, ports and services.
- Concurrent checks of one token may store their answers in the wrong order
  (`Access!Return`); `AnswersAreRecent` bounds the age of each, not their order.
- The history's key drops exact repetitions only: the retry of an upload is harmless
  (`RetryIsHarmless`), but importing an old report after a newer one can write rows, where
  `SL/history/models.py` says that re-importing a scan "writes nothing" and
  `docs/INVARIANTS.md` that it "writes nothing new".
- Reports count in the order they arrive (`NewestReplaceWins`). A late one moves `last_seen`
  back (`Inventory!SeenAfter`), even before `first_seen`.
- `export_report` promises a round trip except for `first_seen`; a missing status comes back
  as "up" as well (`Restored`). Scripts are read below `<service>` and written there, where
  nmap has them below `<port>`; an output that is not a string is written as its JSON text
  (`_script_text`) and comes back as that string. Scripts are not in the models.
- In a search, an empty clause of `any_of` matches every host with a port and is left out of
  `matched_port_filter`: beside another clause, such a host comes without ports, where the
  request promises "the ports matching the all_of / any_of clauses".
- `list_ips` orders by the text of addresses, `search_ips` and the download by address. The
  `total` of a search and its items are of two statements, the facets of one answer of seven;
  writes in between show.
- `_validate_ports` bounds the start of a range and not its end (`ScanRequest!ValidPort`).
- Hostnames of a known address that is deleted between the two steps of a request are pushed
  all the same: the address is known again, without ports and without a report, and later
  INSERT scans skip it (`KnownWasReported` excepts this).
- The `start_to_close_timeout` of `nmap_scan` is one budget plus a minute, while
  `WK/nmap/scanner.py` gives each of two passes the whole budget: `NmapScan!TypeOK` bounds an
  attempt by two.
- The dedup of INSERT scans reads running children (`ListRunning`), not the targets queued
  behind the window of a running batch, which a new scan then scans again.
- A project-wide terminate query is evaluated after the grace period (`Terminate`) and
  matches batches started since, which were never cancelled. `OnlyAskedWorkStops` counts them
  as within reach of the cancel of their project.

**Bounds, and why they suffice.** *Feed*: a wait cycle and a reordering each need two
transactions and two rows; a third session (`feed_single`) lets the hold-back meet a third
party, and one transaction more than sessions reuses a session. A page of one event makes
every page boundary a cursor position. *Inventory*: a pattern in the log needs an opening, a
change and a closing, and a fourth request repeats or deletes one; three times give every
order of three scans. `Claims` has sets of up to three ranges around the web port, so that
nesting, overlap, contact and gaps occur, pairs of them written either way, and all sets of
ranges at the ends of the port numbers: inside, across and outside. *Request*: the lists have up to three ranges over five ports,
overlapping ones too, and four shards exceed some totals; the hosts include two networks
with one first address, a network of one address, private addresses in a network and from DNS,
and two hostnames for one address, with two attempts and one lookup at a time: how
lookups overlap is left to the proof, which is for any limit. *Access*: three
operations create a user, make it a member and revoke it, or rotate a token and restart; a
lifetime of two ticks and a clock of two let an answer arrive late and be used from the cache.
*Batch*: two tasks, so that children of one host (or of two) overlap, and a window of one, so
that the second waits; the activity is retried in one run and the transport sends twice in the
other. *nmap*: four ticks put an exit, a timeout or a cancellation anywhere in either pass;
one cancellation beside the timeouts makes two interruptions. *Campaign*: two scans that share
an address, the second in two batches of one task; one address known at the start; one cancel
(`MaxCancels`), one delete (`MaxDeletes`) and one fault (`MaxFaults`) are enough to meet each
step of a request, and a second cancel of the same query repeats the first. *Search*: three
addresses in pages of one or two, so that a middle page exists; their texts are ordered
differently from their addresses; chunks of two make a full and a short chunk; three writes
create, change and delete between three statements. The queries have an empty list, a NULL
column under each kind of condition, and each of the three port groups.

## 4. Fairness

- `ImportFeed!Fairness`: PostgreSQL completes a statement that is not blocked or, if none is
  sent, ends the transaction (`idle_in_transaction_session_timeout` in `get_engine`), and breaks
  deadlocks;
  the consumer polls. Nothing is assumed of the handlers: they may hang anywhere.
- `ScanBatch!Fairness`: some worker polls the queue, so workflow tasks and activities are
  picked up; server timers fire (both activities have `start_to_close_timeout`); an attempt
  of `nmap_scan` heartbeats (`_heartbeat_loop`) and learns by it that nobody waits; the
  HTTP client times out. Nothing is assumed of nmap, of scanledger or of one worker's life.
- `ScanRequest!Fairness`: the event loop starts waiting lookups, `wait_for` and `sleep` fire,
  and the calls to scanledger and Temporal return or fail. DNS need not answer.
- `NmapScan!Fairness`: the event loop runs, time passes, and a killed process dies. nmap need
  neither end nor obey SIGTERM.
- `Campaign!FairSpec`: a background task wakes up after its sleep. Workers may not exist at
  all. `SignalledBatchStops` excepts a restart or a failed call: both lose the task.

## 5. Proofs

Checked by `tlapm`, for every value of the constants that the named assumptions allow. Each
of the properties below is also an invariant or a property of a run, except for `LockInv`.
The inductive invariants were checked by TLC on the instances of the runs before they were
proved.

**Feed** (`ImportFeedProofs`).

- `TypeCorrect`: `Spec => []TypeOK`. `TypeOK` is inductive: besides the types it says that a
  session between transactions holds nothing and that each phase has a request of its kind.
- `FeedNeverSkips`: `Spec => []NoEventSkipped`. By itself this is not inductive: a transaction
  with an old id could commit behind the cursor. `FeedInv` adds why it cannot: every open
  transaction that has an id has one beyond the cursor's, as does every id still to be given
  out. `Finished` keeps this true at a poll, and ids only grow. `PageIsPrefix` shows that a
  page has no gaps.
- `LocksProtectReads`: `Spec => []LockInv`. No two sessions hold one row or have written one
  key (`HeldApart`), and what a session has read under its locks, or found missing and
  written, is what is stored until it commits (`TxInv`, `AbsentInv`).
- `ImportsAreAtomic`: `Spec => ImplementsAtomicImports`. By `LockInv` a commit writes what one
  import of the stored state would have written: `CommitImport` is `InventoryLog!Import`,
  `CommitDelete` its delete, and every other step stutters.
- `SingleImportsReplay` and `SingleImportsDeadlockOverHistory`: `FeedReplaysInventory` and
  `DeadlocksAreOverHistory`, if each request imports one address (`SingleAddress`: what a worker
  uploads), nothing is deleted, and, for the second, a host has at most one hostname
  (`names` is a Python set, so two requests may insert two hostnames in opposite orders).
  `ReplayInv`: a transaction that may still write an address has a later id than every event
  of that address (`OrderInv`); its events chain (`Chained`), the last one tells what is
  stored (`Latest`), and without one it is as at the start (`Silent`). `WaitInv`: a session
  locks rows before it inserts hostnames, those before history rows, and those before
  addresses (`Stages`), all for its own address (`Own`). So in a circle nobody waits for an
  address (who has inserted its own waits for nothing), nobody for a row (who does holds nothing
  that others wait for), nobody for a hostname (who does has inserted none), and only the rows
  of the history are left. The run `feed_order` shows that the first hypothesis is needed.

**Inventory** (`InventoryProofs`).

- `TypeCorrect`: only open ports are stored, no two log rows have one key. `InventoryInv`.
- `RetryChangesNothing` (`RetryIsHarmless`): `ApplyMode` is idempotent for every mode and
  table of ports, and what it would log again has the key of a row that is there.
- `ReplaceSettles` (`NewestReplaceWins`).
- `LogTellsInventory` (`HistoryTellsInventory`). `HistoryInv` adds to `InventoryInv` that, for
  a `clean` address, the rows of each port alternate and the last tells whether it is stored
  and with which service (`Told`).
- `MergeIsHarmless` (`MergeOpensNothing`): the merged report dedups to batches with the same
  ports and states (`AlikeBatches`), and such batches have the same effect on states
  (`SameEffect`).
- `ExportComesBack` (`ExportRestores`): the export lists every stored address and port once
  (`DistinctPorts`, `DistinctEntries`), dedups to what is stored, and covers nothing.
- `MergeIsMinimal` (`MergeIsMinimalCover`), from `FoldProofs!MergeIs`, for any finite sets
  of pairs of integers: when `merge_port_ranges` raises, what it returns otherwise, and that a
  REPLACE import closes by it what was claimed, of any stored ports.

**Readers** (`InventoryProofs`), for any queries, addresses, page sizes, chunks and writes.

- `NothingMissed` (`NothingIsMissed`) and `NothingRepeated` (`NothingIsRepeated`). A client is
  at a *position* in what its query finds now (`At`: how many come before an address).
  `SearchInv` says that what matched throughout and was not given lies ahead of it (`Ahead`,
  and then the page in hand is not the last one), and that what it was given lies behind it
  (`Behind`), each unless an address ordered before it has gone, or come (`Excused`). A write
  moves a position only with such an excuse (`AtMoves`); a page takes what lies between its
  two positions (`PageIs`), and is full if something comes after it (`NotTheLast`, which
  counts the positions between). Candidates of the known check keep their places, so nothing
  excuses them.
- `AnswersReasoned` (`AnswerShowsItsReason`): until something is written the rows of a page
  are the hosts that matched (`ShownInv`), and a port that meets a clause of the filter is
  returned (`ItemReasoned`).
- `FacetsAgree` (`FacetsAgreeWithSearch`), in every state: one more clause asks just for such
  a port, or for none (`WithAll`, `WithNone`), the clauses for a service and against it are
  complements, NULL included (`ClauseMet`), and each host is in one bucket of `os`
  (`ClassesAddUp`).

**Batch** (`ScanBatchProofs`).

- `TypeCorrect`, `HonestProgress`. `IInv` adds to the types that a counted child has closed
  and was counted as what it is (`CountInv`), that the running children of a running batch
  are uncounted and those fit the window (`WindowInv`), and that a completed child's upload
  was processed (`UploadInv`).
- `Implements`: `Spec => ImplementsOutline`. `StartChild` maps to `StartChild`, `Count` to
  `ChildEnds`, `Finish` to `Completes`, `RequestCancel` to `AskBatch`, `CloseBatch` to
  `Closes`, `CancelIp` to `AskChild`. The end of a child is seen when the batch counts it, or
  at once if the batch has closed; every other step stutters.
- `InventoryOfOneImport`: `Spec => []InventoryIsOneImport`, for every list of ranges, number
  of shards, mode and inventory. With the types it is inductive: only `Commit` writes, and
  importing a report on top of others is importing their union at once
  (`ImportedTogether`). This holds because the ranges a report says it covered are the ports
  scanned (`CoverageIsScanned`, from `FoldProofs!MergeCovers`), because a port once refreshed
  stays so (`RefreshTwice`), and in INSERT mode because there is one shard.

**Campaign** (`CampaignProofs`).

- `TypeCorrect`, `InsertSkipsKnown`, `MergeAddsNothing`, `CancelStopsItsOwn`. `IInv`: a batch
  accounts for its tasks (`BatchInv`); what an INSERT request must not scan is in scanledger
  until it searches and among what it found afterwards, and no chunk has it (`DedupInv`); a
  request finds known only what was reported (`ReportedInv`); every signal and every task
  that waits to terminate comes from a cancel (`AskedInv`).
- `CompletedMeansCounted` (`CompletedReportIsFinal`). A status request lists the batches and
  asks them for their progress at different times, so `StatusInv` adds what is stable: a
  completed batch has nothing outstanding and its counters add up, no batch can be started
  twice (`FinalInv`), and what was listed as completed still is (`ListedInv`). The answer adds
  up over any finite set of batches (`SumsAdd`).

**Access** (`AccessProofs`).

- `TypeCorrect`. `DbInv`: ids are given out in order, names and tokens of live users are
  distinct, and what is generated later is new.
- `AnswersRecent` (`AnswersAreRecent`). `SeenInv`: a fact that is true now was last seen now.
  `CacheInv`: what a cached answer says was seen at or after its expiry minus the TTL.
  `RequestInv`: what a check has read so far was seen since it came (`Sound`); between its
  statements a user may be deleted, but its token does not come to name another user.
- `SeedingWorks` (`SeedingTakesEffect`, an action property): a start that succeeds leaves each
  configured token with its account, by induction along the accounts.

**Request** (`ScanRequestProofs`).

- `EveryTargetAccounted` (`TargetsAccounted`), for any hosts, answers of DNS and interleaving
  of the lookups. `RequestInv` says how a lookup, the addresses resolved and the hostnames
  given up belong together (`LookupInv`; `Asked` has the three things a listed hostname can
  be), and what is started and told once a request is answered (`OutcomeInv`). The duplicates
  that `RemoveDuplicates` drops stand for no address and no hostname of their own
  (`DedupHarmless`): two entries that normalise alike are one network, and networks with the
  same addresses expand alike (`SameNetwork`). The summary adds up because the targets are
  finitely many (`TargetsFinite`, `StartedCount`).
- `TasksScanRequest` (`TasksMakeUpRequest`), for any list of ranges and number of shards.
  `ShardsMakeUp` follows `shard_ports` along the list with the invariant of its accumulator
  (`IsCut`, `Whole`): finished shards are full, the current one is not, and together with
  what is left of the range being split they are the ports seen so far, in order. A range is
  split in as many turns as it has ports at most (`SplitCut`).

**nmap** (`NmapScanProofs`).

- `HeartbeatCoversTheProcess`: `Spec => []TypeOK`, from `TypeInv`, which adds how the
  attempt's time splits into passes and that no file is left between passes.
- `OneInterruptNeverLeaks`: `Spec => []LeakNeedsTwoInterrupts`. `LeakInv` adds that a process
  is terminating only in the grace wait, and that one interruption has been counted by then.
- `AttemptCleansUp`: `Spec => []CleansUp`.

**Folds** (`FoldProofs`). The library's induction theorems take operators as parameters, which
the provers cannot instantiate. `SetInduction` states induction for a *set* of naturals
instead, `FoldExists` derives from it that the function behind a fold exists, and the other
lemmas reason along that function: `MergeCovers` (fusing gives ranges with the same ports as
those it was given, sorted, with a gap between any two; `MergeIs` adds the bounds and the swap)
and
`ShardPortsIs` (`shard_ports` is a chain of accumulators, one range after the other). The
chains of `RemoveDuplicates`, `DedupPorts`, `DedupBatch` and the seeding of accounts are
proved in the same way where they are used. `SumsExist` is the same for sums over a set.

**Assumptions.** `ConstantsAssumption`, `ImportsAssumption`, `DeletesAssumption` (feed:
addresses and hostnames are finite, requests well formed); `AddressesAssumption`,
`RequestsAssumption`, `PassesAssumption` (inventory: what the schemas and the parser let
through); `SearchAssumption`, `QueriesAssumption` (readers: an order is strict and total on
the addresses, limits are positive, a filter has the groups `PortGroups` gives it, tasker asks
only for candidates); `BatchAssumption`, `TasksAssumption`, `DataAssumption` (batch: limits are positive,
there are finitely many tasks, ranges are not inverted, what is open or stored is an open
port); `RequestAssumption` (request: hosts are entries of the three kinds, there are finitely
many hostnames and records); `CampaignAssumption`; `AccessAssumption`, `TokensAssumption`;
`NmapAssumption`. TLC evaluates them in every run of those modules.

**Only model-checked**: liveness, which with fairness and `ENABLED` is outside what the prover
can do: `EveryEventDelivered`, `EveryTransactionEnds`, `RequestEnds`, `BatchEnds`,
`CancelStopsEverything`, `AttemptEnds`, `SignalledBatchStops`. Every invariant and the other
properties of the passing runs are proved.

## 6. Not modelled

- Text: nmap command lines, XML elements and attributes, the escaping of `LIKE` patterns.
- `get_ip`, `list_history`, `list_users` and the listing of running targets: one read each.
- What a deleted project takes with it: its inventory goes by cascade. `update_project`
  changes labels.
- The fleet view, which projects what Temporal says of its pollers and keeps nothing.
- Port prevalence (a one-off load of a data file), migrations, logging, deployment.
- Two projects at once: every table and query is scoped by project.
- Of Temporal and PostgreSQL, only what the code relies on is modelled; these definitions
  are marked external in `PROJECT.json`.
- Requests that are inside scanledger when a batch is cancelled: `CancelStopsEverything` speaks
  of attempts and of what they send.
- Reports that nmap itself refuses to produce: `ScanBatch` assumes that it accepts the ports of
  each task (a range that ends beyond the last port is let through by `_validate_ports`, see
  section 3, and fails in nmap).
- The timeout the server puts on both passes of `nmap_scan` together (section 3).
- In `ScanBatch` all reports have the same time; `Inventory` has them in any order.

## 7. Plan

`Campaign` started from the tasks of `ScanRequest`, so that a request is followed from its hosts
to its batches in one specification.
