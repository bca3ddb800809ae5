# Formal models of the Technocore Observatory collector

TLA+ modules for the parts of this repository whose correctness depends on the
order of durable side effects, on several processes sharing files, and on what a
kill or a power loss leaves behind. `PROJECT.json` lists the components, the
runs, the source lines each definition stands for, the hazards and the theorems.
All line numbers refer to the files of this repository.

## 1. The system

| component | code | state it keeps | operations |
|---|---|---|---|
| tick ledger | `collect.py` 1451-2583 | `ticks.jsonl`, its checkpoint and its pending journal, one flock | `append_jsonl`, `append_jsonl_once`, `recover_pending_jsonl` |
| ledger verifier | `verify_ledger.py` | none (reads the ledger) | `verify_ledger` |
| collector loop | `collect.py` 6993-7227 | none of its own | one cycle: drain, (census), collect, drain |
| signer store and tick outbox | `collect.py` 2893-3184, 4454-4797, 6723-6962 | `signers.sqlite3` (WAL), the JSON mirror, one flock | `collect_tick`, `drain_tick_outbox` |
| identity census | `collect.py` 2625-2887 | census state file, one flock | `run_census`, acknowledgement |
| publication recovery | `recover_publication.py` | none of its own | drain, resolve the journal, verify |
| room lifecycle | `collect.py` 3187-4450, 5104-6275 | room tables of the signer store | plan and apply created rooms, due revisits |
| room sampler, signer funnel | `collect.py` 4798-5103, 6276-6723 | metadata row with the selector, one row per DID, JSON mirror | select rooms, update signers, count the funnel |
| signer schema | `collect.py` 3187-3476, 4128-4450, 4454-4797 | tables, triggers, totals, version | upgrade at every start |
| origin client | `collect.py` 237-678 | attempts in telemetry | `get` with retries and deadline |
| telemetry store, pulse probe | `telemetry.py`, `pulse_probe.py` | `telemetry.sqlite3` | cycles, attempts, snapshots, pruning |
| release publication | `rebuild.sh`, `build_site.py`, `check_staleness.py` | release directories, `current` link, unpublished sidecars | stage, validate, flip, publish, recover, prune |
| query service | `query_service.py` | read-only connections, request gate | HTTP requests |
| snapshots and incidents | `snapshots.py` | none (reads telemetry and ledger) | incidents, change records |
| derivation, claim guards, API contract | `derive.py`, `guards.py`, `api_contract.py` | none (pure) | numbers and text of the site |
| signer migration | `migrate_signers.py` | marker files and a new store | one-off conversion |

How they interact. The daemon (a systemd service with `Restart=always`), the
census invocation (cron, every six hours) and the recovery tool (run by an
operator) are separate processes that share the signer store, the census file
and the ledger through three flocks. A collection commits its tick as the single
row of an outbox table in the same transaction as everything it learned; a drain
moves that row into the ledger, acknowledges the census walk the row reports, and
removes the row. The rebuild copies the ledger under its flock, derives the site
and flips a link; the query service reads what the collector wrote.

Behaviours that are hard here:

- a kill or power loss between any two of write, fsync, rename, unlink and
  directory sync of the ledger family;
- a WAL database with `synchronous=NORMAL`, whose latest commits a power loss may
  undo while fsynced files that followed from them stay;
- several processes that release one lock before they take the next;
- retries of publications that may already be done;
- files that an operator copied back, and an older release that appends without
  the journal;
- two writers of the telemetry database that prune what the other may use, with
  row ids that are given out again;
- a schema upgrade whose statements commit by themselves or with others;
- readers that look at a database statement by statement while it is written;
- rows and ticks that carry the time of their beginning and are stored at their end.

What makes each component correct: the ledger is one hash chain, holds what was
acknowledged, and can always be resumed; the outbox publishes each committed tick
exactly once and in order, and can always be drained; the census reports each
walk and discards none; a release that is served is complete and a rebuild can
always be repeated; the lifecycle counts every created room exactly once; the
query gate always gives its slots back; signer rows, funnel and census agree
with the ticks that were committed; an upgrade ends in a complete store; the
telemetry keeps every change of the discovery fields; incidents do not depend on how
many attempts a release reads.

## 2. The modules

| module | contents |
|---|---|
| `TickLedger` | the ledger family and the processes that append to it |
| `TickLedgerInvariant` | its inductive invariants: `IInv` of the files and processes, `RInv` with the accounts of every tick |
| `TickLedgerProofs` | the theorems about both, about the refinement and about `TickLedgerRollback` |
| `TickLedgerRollback` | the same family with an operator who puts back an older ledger file alone |
| `AppendOnceLog` | what the ledger promises its callers |
| `TickOutbox` | daemon, census and recovery around the store, the census file and the ledger; `OInv` |
| `TickOutboxProofs` | the theorems about it |
| `RoomLifecycle` | created, listed and due rooms of a collection, and the counters and coverage computed from them |
| `RoomLifecycleProofs` | the theorems about it, with its inductive invariant `LInv` |
| `SignerStore` | sampler, DID rows, funnel, census total and JSON mirror through cycles and the v2 migration; `CycleInv`, `StoreInv`, `FrameInv` |
| `SignerSchema` | the upgrade of the signer database, started again after kills; `SInv` |
| `SignerProofs` | the theorems about both |
| `Telemetry` | the tables of the telemetry store and what each method does to them |
| `TelemetryWriters` | collector and pulse probe that use them, with the retry loop of the origin client; `WInv`, `HInv` |
| `TelemetryProofs` | the theorems about both |
| `QueryService` | the gate, the deadlines and the statements of the query endpoints; `QInv` |
| `QueryServiceProofs` | the theorems about it |
| `Incidents` | the incident history that a release derives from attempts and ticks; `OInv` |
| `IncidentsProofs` | the theorems about it |
| `ReleasePublication` | `rebuild.sh` and `build_release`: how a static release is published, repaired and retained; `PInv` |
| `ReleasePublicationProofs` | the theorems about it |
| `MC...` | instances for TLC |

`TickLedger` is shown to implement `AppendOnceLog` (`ImplementsAppendOnceLog`),
and `TickOutbox` uses `AppendOnceLog!Publish` and `AppendOnceLog!Latest` as its
ledger, so what is checked of the outbox rests on the checked ledger.
`TelemetryWriters` extends `Telemetry` by the processes. `TickOutbox`, `RoomLifecycle`
and `SignerStore` look at the same cycle of `collect_tick`: how its commit gets into the
ledger, what it does to the room tables, and what it does to the signer tables.

A definition marked `Fault` or `Variant` in its comment is no part of a model: it is the change
of the code that the mutant of a property puts in the place of the definition
after it.

### TickLedger

State: `disk` is the family as the running processes see it (ledger lines, bytes
after the last newline, a stamp for device, inode and times, the checkpoint, the
pending journal); `images` is the set of families a power loss could leave;
`lock` is the flock; each process has a `pc`, its request, and the journal it is
completing. `acked` and `alarm` are history variables: which calls returned, and
whether some call found the family inconsistent.

Each durable side effect is one action: `Write` (one `os.write`, of any length, or
the creation of the file), `Fsync`, `EntrySync`, `SaveCheckpoint` and
`CheckpointSync` (rename, directory sync), `UnlinkPending` and `UnlinkSync`,
`Decide` (which saves a new journal) and `PendingSync`, `Tip` and `TipSync` (the
rebound checkpoint), `Complete` and `FreshSync` (the rebound checkpoint of a fresh
append), `Suffix` (the checks after it, which run once). What the code reads between two side effects is read under the lock and
belongs to the next action. `Inspect`, `Recovered`, and the returns of `Decide` are
the branches of `_append_jsonl`.

Hashes are injective: the hash of a tick is the sequence of payloads it commits
to. A tick is `RecordBytes` bytes; sizes and offsets count ticks, and a torn append
is a number of bytes smaller than that.

The file system: changes of the directory are journalled in order; a sidecar's
temporary file is fsynced before its rename, so a renamed sidecar is whole; a
rename or unlink may reach the disk before older unsynced bytes of the ledger;
the sync of a directory makes its changes permanent; the fsync of a new ledger
makes its bytes permanent, but not its directory entry (which is why
`_complete_pending_append` syncs the directory of a fresh ledger).

Left out, with reason. The comparisons of the payload after a completed recovery
(2487-2494) and after the process's own append (2543-2548) repeat a condition that
was decided before under the same lock. `_append_jsonl` reloads the journal it has
just saved; under the lock this is the same record. Checkpoints of version 1 (no
operation id) are not modelled. Malformed sidecars are refused by the validators
and are not states that the program writes.

The environment: `Interrupt` (kill, or a failing system call that leaves the `with`
block), `PowerLoss`, `UnjournaledAppend` (a collector release older than the
journal), `RestoreCopy` (the family copied back with new metadata), and in
`TickLedgerRollback` the older file `RollBack`.

### TickOutbox

State: `db` is the signer store (outbox row, operations applied), `undone` the
database states that a power loss may return to, `log` the ledger, `census` the
census file, two flocks, and per process its step, the row it publishes, the walk
it carries and its census pass. The ledger's own lock is held only inside
`AppendOnce`, which is one action because `TickLedger` implements an atomic
publication.

`StartCycle` ... `CommitTick` follow `main`, `drain_tick_outbox`, `run_census` and
`collect_tick` in their order. What is read at the moment a lock is taken belongs to the
same action (`Load`, `WalkStart`, `Begin`). A census walk is named by its start time; the counts
of its shards are the set of shards counted, because a complete walk no longer
changes. The deadline of a walk may pass at any time, so `WalkEnd` is always
possible. An origin read fails or succeeds freely (`ReadShard`, `RoomsFail`,
`FetchFails`).
`CommitTick` has the outcome of `TickOutboxCommittedError`: the row is committed
and the cycle fails.

### ReleasePublication

State: the release directories (`absent`, `built`, `finished` with their error
pages, `damaged` while a recursive removal is under way), which of two was modified
earlier (`older`), sidecars, staging directories, the `current` link, the links
`.current.<pid>`, the ledger, and per rebuild its step, its copy of the ledger, its
release, the predecessor and the releases its retention removes. `before` and
`guarded` are history.

`Start` ... `Discard` follow `rebuild.sh` from top to bottom. Before the cleanup trap
is armed a failing step just ends the run (`Exit`; the builder's own `finally`
removes what it made); afterwards it leads to `Cleanup`. A signal is a failing step
where it is trapped and a `Kill` where it is not. `shutil.rmtree` is two steps: after
the first the release is damaged, and the modification time of its directory may
or may not be new. `Discarded` is the retention rule: newest first, the longest
prefix that fits beside the protected releases.

The identifier starts with the time of publication, so releases are numbers in
the order of their building. A killed rebuild's children keep the inherited lock
until they end, which is the same as being killed later. A second rebuild that
finds the lock taken exits at once and does nothing.

### RoomLifecycle

State: the wall clock; the origin's creation events; `store`, which is `room_ledger`
(`rooms`: each generation with the time of its last listing), `room_revisits`
(`checks`), `room_lifecycle_totals` (`totals`) and three fields of the metadata
(rotation, `last_updated`, `latest_room_listing_observed_at`); the listing each
collector holds; and the tick of the collector that holds the signer lock.

`ReadListing` is the read of `/rooms` before the lock. `Plan` is everything between
the event window and the first revisit read: it runs under the lock, reads only, and
nothing it reads can change before the commit. `Read` is one revisit, `Commit` the
transaction of phase 3. Results that the code decides from ranks or from the order
of equal due times are left open. A tick whose deadline passes commits what it
has read; the other checks stay pending. `Refused`, `EarlyAttempt` and `RolledBack`
are the ways a tick ends in an error, `Abandon` a kill or a failed read.

A check is a row `[outcome, timely, second]`; `timely` says whether it was attempted
before its window closed, which is all the counters ask of the time. The triggers
are `Rollup`: the contribution of each touched room is subtracted before and added
after. `StageCoverage` is the published coverage (terminal checks from the counters,
the others from a scan); `RowClass` is the same question asked of each row.

A revisit's attempt time and its answer are one moment, and the stamps of
supersession and finalization, taken after the reads, are those of the commit. The
sampled rooms, the lobby and the signers do not touch these tables.

### SignerStore

State: the v2 JSON store and the step of its migration; whether the SQLite file
exists, its committed content `db` (metadata row, a row per DID, outbox row) and the
JSON `mirror`; the signer lock; the cycle of each collector; the published ticks.

`Load` is phase 1a up to its commit, `Select` the sampler in memory, `Reads` the room
reads, `Census` the census of the cron job, `Commit` phase 3 (rows, funnel, metadata,
outbox), `Finish` the mirror; `Abort` is a failure or kill, `Drain` a whole drain. What the
messages of a room are is reduced to who signed with a nonce and when, which decides
signers and alternations (`Counterparties`). The migration streams its rows in one
transaction, so `MigrationCommit` is the step that stores them; `MigrationFail` cleans up
and `MigrationKill` does not.

The selector's ranking under the seed of an epoch is a constant, and a frame puts each
room at its `Place` in it; in the last epoch that SQLite can store a used-up frame ends
the cycle (`Exhausted`). Rooms that are kept for a DID are the smallest names; the lobby
is 0. The clock may be set back. A `Source` is what the migration's validators accept.
What a row and a funnel should be is defined from the history of ticks alone: `CountOf`,
`DatesOf`, `RoomsOf` and `Alternated` are about the first `n` ticks and the v2 store.

### SignerSchema

State: the store that was found (`began`), the committed store (`disk`), the running
start with what its connection sees (`run`). A store is a record of stages: which
columns are missing, unfilled or filled, which triggers and totals are there, and
so on. `Ddl` commits by itself outside a transaction, `Dml` opens one, `Commits` is
`executescript` or `commit`. The store that is found may be any `Consistent` one: room tables by creation
have a filled digest and outcome, the metadata row carries the version of its store, and
only version 3 counted co-occurrences. Between two actions `End` may kill the start. `CommitTick` is a
collector that writes to the store it has opened.

### Telemetry and TelemetryWriters

Tables are functions from row ids to rows, and a new row gets the largest id plus
one, as SQLite does without `AUTOINCREMENT`: the id of a removed last row returns.
`Selected` and what it is built from is what `prune` decides to remove (duplicate snapshots,
expired rows, and under pressure the oldest), `Prune` the removal. The query that leaves
out rows which others refer to (`Sampled`) and the foreign key that refuses their delete
(`Restricted`) are two definitions, because rows may be stored between them. Pages are
counted in units of an attempt.

A process goes through `Begin` (the first query of prune), `CountPages`, `SelectAttempts`
and `SelectCycles`, each of which reads by itself because no transaction is open before the
first `DELETE`, `PruneDelete`, `StartCycle`, then `Request`, `Try`, and `Accept`, `Reject` or `Compare` and `Record`, to `Finish`. `left` is the time to
the deadline: an answer takes some of it, a delay some more. `faults` bounds storage
errors and kills. What earlier cycles left is any well-formed content of the tables
whose newest cycle has not expired (`OldAssumption`); `Stored` reads the digests of a route
by the rank of their ids. `Answers` lists what the origin may answer with the outcome that is
recorded; a decode error counts as failed.

### QueryService

State: the database (generations of one room name with listing and checks, the
newest listing), the semaphore, the requests. Each statement is an action, because
the connection opens no transaction. `Expire` is the progress handler's deadline,
`Broken` another SQLite error, `Uncaught` an exception that nothing names, `Written` the
response, which a client may never read. `moments` is history.

### Incidents

State: the attempts in the order of `(observed_at, id)`, the times of the ledger's
ticks, the clock, and the incidents that the last release called open. `Cutoff`,
`HealthCarry`, `EndpointCarry`, `Pass`, `GapIncidents` and `Bounded` are the functions of
`snapshots.py`, `Accepted` the filter of `derive.py`; `Publish` is a release and
`Release(listed)` the one whose list of incidents is `listed`. `Record`,
`MarkInvalid`, `Prune` and `AppendTick` are what the other processes store meanwhile, up to
`Delay` after the time it carries. `Prune` removes a row that no older unsuccessful row
precedes, and leaves rows out, as snapshots make it do.

## 3. The runs

| run | question | instance | distinct states |
|---|---|---|---|
| `ledger` | do the chain, the acknowledged ticks and the checkpoint survive, does a later call ever refuse, is every step one atomic publication, an acknowledgement or invisible? (`RInv` too) | 2 processes, a reused operation id, an append without one, recovery; a ledger that does not exist yet, 3 calls, 3-byte ticks, 2 faults, 1 foreign append or restored copy | 1130k |
| `ledger_rollback` | is an older file beside newer sidecars refused, and is no tick behind the checkpoint exchanged? | 2 processes, 2 operations, recovery; 1 tick from before the journal, 3 calls, 2-byte ticks, 2 external events, 1 fault | 531k |
| `outbox` | are collections published once, in order and in the end, and walks never discarded? | daemon, 2 census invocations, recovery; 2 shards, 2 passes, 2 ticks, 2 walks, 2 faults, 1 lost commit | 609k |
| `rooms` | is coverage from counters exact, supersession justified, and do rooms only move forward? | 2 collectors, 2 names, 2 creations (time 0 and 2), 1 stage of length 2, clock to 4 with 1 backward step | 943k |
| `rooms_settle` | does every check get an outcome, although ticks whose reads contradict one another are rolled back again and again? | 1 collector, 1 name created at times 0 and 2 with different second senders, stages of length 1 and 2, budget 1, finalization 1, clock to 4 | 420k |
| `signers` | do signer rows, funnel, census total, frames and mirror agree with the committed ticks? | daemon and census job, 2 rooms and the lobby, 2 DIDs, 3 windows of messages (one author signs and the other does not; two alternate; they alternate too slowly), a v2 store to migrate, its sampler in the middle of the frame of the last epoch but one, 3 ticks, a clock that may be set back | 1130k |
| `schema` | does every upgrade, however often it is killed, end in a complete store? | stores of a fresh installation, versions 3 to 5 and six forms of version 6; 4 starts | 8k |
| `telemetry` | does the history of the discovery fields survive, does no cycle stay running without a cause, is a success complete, what may a foreign key refuse? | collector and pulse probe, 2 discovery digests, 2 requests with 1 retry, deadlines 0 and 2, 3 old cycles with a snapshot each, two of them the same, page limits that bite, 2 faults | 2780k |
| `query` | do slots come back, do the endpoints agree, are answers as new as their requests? | 2 threads, 1 slot, 2 generations of a room, 2 stages, clock to 3 | 300k |
| `incidents` | is a carried incident the one that all rows give, and is an open one listed again under its id, but for named exceptions? | `/healthz` and another route, 2 attempts read, 2 incidents kept, 4 rows, 2 ticks that may be late by 1 | 939k |
| `release` | is what is served whole, guarded and never older; what may a kill make a later rebuild refuse; what does retention spare? | 2 rebuilds, 5 releases (the last one large), bounds of 3 releases and 5 bytes, 1 tick, 2 kills, 1 rollback | 1717k |
| `schema_refused` | may a start refuse a store for ever? (expected violation) | as `schema` | - |

### The statement that the code does not keep

`schema_refused`: `DEPLOY.md` 461-463 says that the initializer performs the additive
upgrade to schema v6. On a store of version 3 to 5 a column is added by `ALTER TABLE`
(`collect.py` 4600, 4622), which commits by itself, and filled later by the same start,
which remembers in a variable that it added the column. A start killed in between
leaves columns that no later start fills and that `_migrate_room_generation_schema`
refuses every time.

### What else the models show

These are behaviours met while modelling; where a property would otherwise fail, it
names the exception.

- *Outbox.* `DEPLOY.md` 69-72 says that the outbox tolerates the loss of the last
  commit. If that commit removed an acknowledged row and the next census invocation has
  reset the walk, the row comes back and no drain can acknowledge it (`Stuck` in
  `OutboxDrained`); with two census invocations at once a kill between the
  acknowledgement and the removal of the row is enough. A row may also be drained by another process between
  `collect_tick` and the drain that follows it; `main` then reports a failed cycle for a
  published tick (7127). The comment at `collect.py` 116-118 says that a lost slot
  discards a completed walk; `NoWalkDiscarded` shows that it does not.
- *Release.* A retention killed inside a recursive removal leaves a partly removed
  release whose directory is the newest (`rebuild.sh` 227, 253), and a release that the
  operator rolled back from may be deleted by the next rebuild (152), while
  `DEPLOY.md` 870-871 asks to keep it. A rebuild killed between `ln` and `mv` (337-338) leaves
  `.current.<pid>`; the recovery that follows deletes the release behind it, and a later
  rebuild that gets the same process id fails at `ln -s` and is discarded. Its cleanup
  takes the link away (293), so that a kill costs one later rebuild at most
  (`OneRunPerKill`), and `RootSound` leaves this leftover out. The refusal of a dangling
  `current` (92-95) is in the model (`Lost`) and never met.
- *Rooms.* The comment at `collect.py` 5718-5728 argues that a tick can never commit
  at an earlier time than a stored terminal row. `CoverageExact` fails as soon as the
  check of `last_updated` in `update_signer_state` is dropped: the argument rests on
  it alone. A tick that reads two different second senders for one room is rolled back
  with everything else it learned, and so are the ticks after it that read the same,
  until the check's window closes; `rooms_settle` meets this and `ChecksSettle` shows that
  it ends.
- *Signer store.* The selector's advance lives in memory until phase 3, which is why
  `FramesCovered` holds through failed cycles. A power loss in the very first cycle may
  take back the database and leave the JSON mirror, which `load_signer_state` then
  refuses. A migration killed before its commit leaves a database without a metadata
  row: a second migration refuses it (`migrate_signers.py` 327), and a collector
  begins a fresh store in it.
- *Schema.* On a store whose case-insensitive search table is rebuilt, a kill between
  `CREATE VIRTUAL TABLE` and `'rebuild'` leaves the table without the older rooms.
- *Telemetry.* The queries of `prune` and its deletes do not share a transaction. If two
  probes that ran at once left a duplicate as the last snapshot, a selection
  made before another prune can delete the row that was given its id since
  (`HistorySurvives` names the condition, `OneProbe`). In a nearly full file `prune` may choose a
  try of this retention whose snapshot the probe stores just then; the foreign key refuses
  the delete, and a collector that meets it runs without telemetry until it is
  restarted. `OnlyFreshRefuse` says that this is the only refusal. There a try may also be
  removed before its client marks its answer: `update_attempt_outcome` raises
  `ValueError`, the collector ends, and its cycle stays `running` (an exception that
  `RunningHasWriter` names). The pulse probe ends with
  `success` although the record of its `/healthz` try may have failed. After one
  failed `start_cycle` or `finish_cycle` the collector writes no telemetry until it is
  restarted.
- *Query service.* Statements see different commits. A room that is in the old and in
  the new listing may be called absent, and a search may call a room
  `aged_out_unselected` that was just checked (532-534, 779). `AnswersUpToDate` says what
  remains true: the generation and the number of attempts in an answer are no older than
  the request, and what it calls present was listed at some moment since. It says nothing
  of rooms called absent or aged out.
- *Incidents.* A release may forget or rename an incident that the last one called open in
  five cases, which `OpenContinue` names: the attempt that opened it was pruned or
  reclassified; the success that ended it is no longer among the rows that are read; late
  rows make it part of an incident that began earlier, which has another id; a tick that
  carries a time before the gap is appended after it (`collect.py` 6790, `snapshots.py`
  754-757); the newest `MAX_INCIDENTS` are all no older (822-825).
- *Derivation.* With a regular cadence that does not divide the retention (61 s), the
  rollup bucket at a level's cutoff reports one tick as missing that is in the
  neighbouring level (`derive.py` 3369-3373).

### Bounds

A call of the ledger meets at most one unfinished append (the journal holds one), one
checkpoint and one file; with three calls and two faults an append is interrupted, its
completion is interrupted, and one more call meets the result. Two processes suffice
because the lock admits one and the others can only wait or time out. Two bytes per tick
give a torn append, three a torn append that is torn again. `ledger` begins without a file, so
that the journal of a new ledger is in it; `ledger_rollback` begins with a tick of the time
before the journal, which gives the operator a file to put back. A power loss that undoes one
commit is the boundary `DEPLOY.md` 70 documents ("the last committed transaction"); the
theorems hold for two as well. Three are too many: the removal of a row, the metadata of
the next cycle and the next row are three commits, and a loss of them all brings back a
row whose tick is no longer the latest, which the ledger then takes a second time. Two
shards and two passes give a partial walk that is continued, and a pass that fails. Two
ticks give one before or after one with a walk, and the census lock is there for two
census invocations, of which an operator may start one beside the cron job.

Five releases and a retention of three make both bounds of the retention rule bite: the
fourth release meets the count, the fifth the bytes. Two kills interrupt a rebuild and
the recovery after it.

For the lifecycle, two creations are the least that supersede (the second may carry an
older, equal or newer time than the first, because the origin's clock may lead by one) and
two checks the least that compete for a budget of one, a batch of two and a finalization
of one. The single stage of `rooms` is long enough for a creation before, at and after the
due time of the first check. With two stages `rooms_settle` adds the rotation and the
unused share of a stage. Its name is created again two units after the first time, when the
window of the first generation's check is still open: reads of the name then find the
other second sender, which contradicts the stored one. The symmetry of `rooms` is over
collectors and names, which the module does not distinguish; the run with liveness
uses none.

For the signer store, three ticks are a tick of each collector and one more that sees the
work of both; one day boundary and one sampler epoch lie within them, and a frame of two
rooms needs two ticks when the lobby takes one of the two reads. In `schema` four starts
interrupt an upgrade, its repetition, and the repetition of that. Every store of
`MCStores` is one that some release of the collector left, whole.

For the telemetry, a retention of one and limits of seven and ten pages are reached by the
old rows and one cycle each, so pruning by age and under pressure happen, and one of the
old snapshots repeats the one before it, so that a snapshot is pruned and ids are given
out again. Two faults interrupt both processes or one of them twice. One slot and two
threads are the least that compete. In `incidents` four rows with a bound of two leave
rows outside of what a release reads, and two of the routes' incidents with a gap exceed
the bound on incidents.

Deadlock is checked where a process may always go on (`outbox`, `query`, `release`). The
other runs switch it off because the system stops when bounded calls, ticks or the
clock are used up, and nobody is obliged to call.

### Fairness

`FairSpec` of the outbox: a process inside a cycle or call takes its next step (a process
that waits for a lock either gets it or gives up), and the daemon starts another cycle,
because it loops and systemd restarts it. Census invocations and the recovery tool need
not run at all. Origin reads are never assumed to succeed. `FairSpec` of the lifecycle:
time passes; each collector reads a listing again; a collection that can be planned or
refused again and again is in the end planned or refused, and one that can end again and
again (committed, rolled back, refused as early) does end (not every one is killed or cut
off by a failed read of the lobby). Revisit reads need not happen at all. `FairSpec` of
the query service: only the Python code and the progress handler go on. A statement
may run for ever and a client may never read its answer.

## 4. What is proved

TLAPS checks the theorems below for every value of the constants that the named
assumptions of the modules allow: any number of processes, any operations, payloads,
sizes, retention limits and bounds on faults. Each inductive invariant was first checked
with TLC on the instance of its component; `ledger` still checks `RInv`.

| theorem | states | about |
|---|---|---|
| `TickLedgerProofs!Invariance`, `TypeCorrect` | `[]IInv`, `[]TypeOK` | the family of files |
| `ChainNeverBroken`, `RecoveryNeverWedged`, `CheckpointNeverAhead` | `[]ChainIntact`, `[]NeverWedged`, `[]CheckpointAnchored` | |
| `Accounted` | `[]RInv` | where every tick comes from |
| `NothingRewritten` | `LedgerOnlyGrows` | no tick on disk is rewritten or taken away |
| `Refinement` | `ImplementsAppendOnceLog` | every step publishes one tick, acknowledges one, or is invisible |
| `RolledBackInvariance`, `RolledBackStays` | `[]BInv`, `RolledBackIsFrozen` | a ledger put back alone |
| `TickOutboxProofs!Outbox`, `OutboxTypes` | `[]OInv`, `[]TypeOK` | the databases that may come back |
| `OnceInOrder`, `WalksPublished` | `[]LedgerMatchesStore`, `NoWalkDiscarded` | each collection once, in order; no walk lost |
| `ReleasePublicationProofs!Publication` | `[]PInv` | what a rebuild and its leftovers look like |
| `Repairable`, `OneFailurePerKill`, `ServedIsGuarded` | `[]RootSound`, `[]OneRunPerKill`, `[]ServedComplete` | what later rebuilds meet |
| `ServedForward`, `RollbackPossible` | `NeverOlder`, `PredecessorKept` | |
| `QueryServiceProofs!Serving`, `ServiceTypes` | `[]QInv`, `[]TypeOK` | what a request knows of the database |
| `SlotsAccounted`, `SameState`, `UpToDate` | `[]SlotsExact`, `[]EndpointsAgree`, `[]AnswersUpToDate` | |
| `SignerProofs!Upgrade` | `[]SInv` | the stores a start can find and leave |
| `ReadyIsWhole`, `VersionSetLast`, `AlternationsKept` | `[]ReadyIsComplete`, `[]VersionIsLast`, `AlternationsStay` | |
| `TelemetryProofs!Telemetry`, `TelemetryTypes` | `[]WInv`, `[]TypeOK` | the tables and who works on which cycle |
| `CompleteSuccess`, `HistorySurvives` | `[]SuccessIsComplete`, `[]HistoryKept` | |
| `SignerProofs!Cycle`, `StoreHolds` | `[]CycleInv`, `[]StoreInv` | cycles, migration, origin; rows in the order of time |
| `MirrorHasItsStore`, `CensusSurvives`, `RowsAndFunnels` | `[]MirrorHasStore`, `[]CensusKept`, `[]StoreMatchesHistory` | |
| `Frames`, `FramesSampled` | `[]FrameInv`, `[]FramesCovered` | where the room sampler stands |
| `RoomLifecycleProofs!Lifecycle` | `[]LInv` | room tables, counters, and the collection in progress |
| `CountersMatchRows`, `CoverageMatchesRows` | `[]RollupExact`, `[]CoverageExact` | counters and published coverage are the counts over all rows |
| `SupersededByNewer`, `SettledForGood` | `[]SupersededJustified`, `RoomsAdvance` | why a check is superseded; finalized checks stay |
| `IncidentsProofs!OInvHolds`, `IncidentsTypeOK` | `[]OInv`, `[]TypeOK` | rows in order; what is behind an open gap |
| `CarryIsExactAlways`, `OpenIncidentsContinue` | `[]CarryExact`, `OpenContinue` | reading the newest rows with a carry; what stays open |

In every proof there is one lemma per action, under it one step per conjunct the action
can disturb, and what one change of a file, table or row does is a lemma that the actions
share.

**The ledger family** (`IInv`). `NeverWedged` is not inductive: whether the next call
raises depends on the family it reads. `Sound(s)` says that a family passes every check a
later call can make: the lines form a chain, the checkpoint names one of them, and the
journal describes the end of the file (nothing, a prefix, or all of its record
follows its base, and a checkpoint beyond the base names the journal's
operation). A power loss may leave the ledger of one moment beside the sidecars of
another, so `Recoverable` asks this of every image and of every image with the
sidecars that processes see now: the mixture is what a rename produces. A sync of
the file or directory drops images, and a write adds one. What makes the
checkpoint safe is `Settled`: once the checkpoint covers the journal's record (or
there is no journal), every image has the same file. `Progress(p)` gives what a
process in its critical section relies on, up to the reason why `SaveCheckpoint`
may run: at `ckpt` every image already has the file that processes see.

**The refinement** (`RInv`). That a step publishes one tick is a statement about all
families a power loss could leave, before and after the step. `Traced` adds to `IInv`
that every such family is the one processes see, with or without the last tick of the open
append, that the checkpoint names the operation of its tick, that a tick which neither
sidecar knows was written for no operation, and that a journal is never written for the
operation that was published last; `Serving` ties what a
process completes to the call it was made for. With them `Write`, the syncs, `Crash` and
`PowerLoss` are invisible or one `Publish`, and a return is one `Acknowledge` of a tick that
is in every image.

**A ledger put back alone** (`BInv`). Its family is not sound, and no call needs it to be:
what `RolledBackIsFrozen` rests on is what remains. `Remembers` says that the checkpoint is
at most one tick beyond the base of the journal, and that file, journal and checkpoint
agree wherever two of them know the same tick, whatever length the file was put back to.
So a family is behind only if no journal explains its checkpoint, and then no process is
at a step that writes: `Relies(p)` gives, step by step, how much of the file a call in its
critical section has seen or written, and a call that starts on such a family stops
in `_checkpointed_ledger_tip`. A checkpoint is saved only after the journal's record is
in the file (`Appended`), at a size its predecessor does not exceed, so the tick which the
old one names is still in the file.

**The outbox** (`OInv`). `LedgerMatchesStore` speaks of the database as it is; a power loss
may put back any of `undone`. `Follows` states it of every such database, `OneRow` that no two
of them have different rows waiting, and `Undoable` that a lost commit takes at most one
operation with it, which bounds the ticks that no row knows. `Working(p)` says that who
publishes holds the lock and the waiting row, and who collects has an empty outbox before
and after its first commit. The theorems assume `MaxLostCommits <= 2`; with three
`OneRow` is false (see *Bounds*), and TLC shows the second publication.

**The publication** (`PInv`). `Active(p)` says what a rebuild has done at each step: its
release is named, marked by a sidecar until it is published or gone, finished, guarded
and served in that order; what is marked is its own; the link it will rename is its own.
`LinksStale` covers the links of killed rebuilds, whose process ids return, and `Fresh` that a
release number is given out once. `Derived` relates a release to the length of the ledger
at its copy; from this and the lock follows `NeverOlder`.

**The query service** (`QInv`). Facts that stay true of a database that only grows:
`ReadOK` relates the row a request has chosen to what was committed when the request came,
`SeenOK` the listing it has read to the moments it has lived through.

**The upgrade** (`SInv`). Both the committed store and the one the start's open transaction
would commit are consistent, and `Progress` lists what holds from which step of the start
on. `Final` is the stronger form of `VersionIsLast` that a kill in a later start preserves.

**Telemetry** (`WInv`, `HInv`). The hard case is a row id that returns. `Owns(w)` says that the
cycle of a process is there, running, started by it and by no other; `Chosen(w)` that what
a prune is about to delete is not the newest cycle, and if it is still there, expired.
An id that is given out again is the largest, so it is in no selection, and the open cycle
of a process has not expired because `Tick` waits for it (a cycle lasts minutes, the
retention 90 days). With `Stored` by ranks, a new snapshot appends one digest and no other
step changes a route. `HistorySurvives` assumes `OneProbe`: the timer starts one
probe at a time (`Type=oneshot`), so that new snapshots never repeat one another, and the
last snapshot that earlier probes stored is no duplicate. What `prune` selects
then repeats an earlier snapshot that stays (`Repeating`), and no selected id is the
largest, which is why none of them is given out again. Without the second part a selection
of old duplicates may outlive them and name the id of a new row.

**The signer store** (`CycleInv`, `StoreInv`). `Holding(c)` says that who is in a cycle holds
the lock, that what it loaded is what is stored, and that after the selection it still
has the census, the origin and the time that are stored; `Migrating` that a migration runs
alone and before the first tick; `Origin` that the metadata carries the latest census of
the history and tells whether it was migrated. That suffices for the mirror and the census.
The rows need more than their agreement with the history: that a date is counted
once although only the last one is stored holds because ticks are in the order of time
(`TicksDated`) and the last date of a row is that of its last tick or of the v2 store
(`RowDated`); `update_signer_state` sees to both by refusing a tick that is older than
`last_updated` and a row that is inconsistent with its time. A tick that saw a DID then
adds one to the count, at most one date, the smallest of all its rooms (`KeptAgain`: keeping
eight of the rooms kept before and the new ones keeps eight of all) and its alternation,
and a funnel counts two rooms exactly when two were seen (`KeptTwo`), which is what the
assumption `RoomsKept > 1` is for.

**The room sampler** (`FrameInv`). `FramesCovered` joins what the ticks of an epoch have
sampled. `AtPlace` says that the stored position is as far as that, from where a migrated
store stood (`Base`: the v2 store may be in the middle of a frame), and that no tick
has a later epoch, so that nothing is joined when an epoch begins; `Advancing(c)` that a
cycle which has selected rooms is one slice ahead of what is stored, and the tick it may
commit continues exactly there. `FlattenSeq` is recursive: that it exists, that
one more sequence is joined at the end and that nothing joined is nothing (`FlatExists`,
`FlattenNext`, `FlattenNothing`) is proved along a set of numbers that holds 0 and
each successor (`Upward`, from the smallest number outside it).

**The room lifecycle** (`LInv`). `Planned` says that what a collection has planned is still so
when it commits, because no other one commits in between: new rooms are not in the tables,
what it has selected, superseded or aged out are three disjoint sets of pending checks that
were due, and each superseded one has a newer room among those in the tables and those that
will be. `Settled` says that a finalized check was due at the last commit, which the
counters, kept without looking at due times, need to agree with the classes of due
checks, and that no room was listed later than `listed`, so that a listing time never goes
back when the clock does. The triggers add, for each row they touch, the new tally and take away the
old one; `RollupExact` compares that with a sum over all rows. A statement about
sums over all finite sets is proved by looking at a smallest set for which it fails
(`SmallestSet`, from the well-foundedness of the strict subsets of a finite set): `SumsExist`,
`SumOfChanges` and `SumCounts` say that the sum exists, that changing rows changes it by the
differences, and that counting rows of a class is such a sum. `CoverageExact` then holds
class by class: counters give the attempted and the aged-out checks, and the scan of the
pending and superseded ones gives the others.

**The incidents** (`OInv`). `CarryExact` needs no more of a state than rows in the order of
their times (`Sorted`): a new row is inserted after those that are not later
(`InsertedOrdered`), which is what `ORDER BY observed_at, id` gives, and a row that is
reclassified or pruned leaves the order. Then the carry is compared with the table in three
steps. `Active(rule, route, m)` and `Done(rule, route, m)` say what the first `m` rows leave
open and what the rows from the cutoff to `m` resolved. The carry is `Active` at the cutoff
(`HealthCarryIs`, `EndpointCarryIs`), each row of the pass takes `Active` and `Done` from
`m - 1` to `m` (`StepIs`), and at the last row they are the incidents of the whole table
(`WholeIsPass`). `Pass` is a function on the places of rows, so that the second step is
carried along them by `Upward`. For `OpenContinue` an open gap must be known after its release:
`OpenKey` keeps that the tick before it is accepted and that the cadence has passed since.
Ticks that come later leave accepted ones accepted (`AcceptedGrows`), and the gap after
that tick is then among the published ones, unless the next tick fills it or `MaxIncidents`
newer gaps followed (`NewestCount`: gaps open at different times, so the newest ones are as
many). An open incident of attempts is found again by its opening row (`AttemptsContinue`).

The assumptions of the modules are evaluated by TLC in the runs: the model values differ,
a tick has more than one byte, sets that the code enumerates are finite, bounds are
natural numbers, and what an earlier release or cycle left is well-formed.

Only model-checked:

- the liveness properties (`OutboxDrained`, `ChecksSettle`, `SlotsReturn`), which are out of the prover's reach;
- `RunningHasWriter` and `OnlyFreshRefuse`, which depend on the size of a prune batch against
  the pages of the file and on what a batch may still refer to when it is deleted.

## 5. Plan

Every safety invariant and action property that a run checks is now a theorem, but for
`RunningHasWriter` and `OnlyFreshRefuse`: what remains is to prove the first under an
assumption on the sizes of a cycle and of a page, which the code would have to justify first,
and the second from an invariant on the selections of both writers.

Modules that could follow: `verify_ledger` as a function on a sequence of lines against
`ChainOK`, and the rollup levels of `derive.py` against a count over all ticks.

## 6. Not modelled

- The staleness check compares the time of the served release with two limits and
  keeps no state. Claim guards, the API contract table, the search benchmark,
  deployment configuration and static assets keep no state and order nothing.
- Parsers and validators of origin responses: whether a text parses is a free choice
  of the environment wherever it matters.
- `derive.py` beyond the filter of ticks and the gaps: rates, fractions and rollup
  levels are arithmetic over one pass. The status, change and coverage resources of
  `snapshots.py` are projections of the rows that `Incidents` follows.
- Texts of freshness and validity, ETags and paging of the query service. The number of
  its connection threads is not bounded by the code; only the gate is modelled.
- Contents of pages and files, and therefore power losses during a publication: no
  file of a release is synced, and no document promises more than an atomic link.
- The 64-bit bound on the sum of shard counts: counts are abstracted to the set of
  counted shards.
