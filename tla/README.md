# d-lmdb: TLA+ models, model checking and proofs

d-lmdb replicates an LMDB database with Raft (the `d-engine` crate). This
directory models the parts of d-lmdb that hold state, checks them with TLC on
small instances, and proves the main results with TLAPS for every instance.
Paths below are relative to the repository; `state_machine.rs`,
`storage_engine.rs` and `db.rs` are in `d-lmdb/src/`.

## 1. Inventory

| Component | State | Operations | Hard behaviour |
|---|---|---|---|
| State machine (`LmdbStateMachine`, state_machine.rs) | LMDB databases `kv`, `meta`; atomics `last_applied_*`, `running`; `entry_terms`, `snapshot_meta` | `new`, `apply_chunk`, `persist_last_applied`, `generate_snapshot_data`, `apply_snapshot_from_file`, `start`, `stop`, `reset`, `Drop` | the commit of a chunk does not persist `last_applied`; a snapshot is copied after its id was chosen; restores run on a blocking pool and can fail, panic or be cut off by a crash |
| Range reads (state_machine.rs) | none | `scan_range_core`, `scan_range_rev`, `scan_prefix_bounded`, `next_prefix` | limits, continuation keys, revision read apart from the data |
| Log store (`LmdbWal`, storage_engine.rs) | LMDB databases `log`, `meta` (purge boundary, hard state); atomic `last_index` | `new`, `persist_entries`, `purge`, `truncate`, `reset`, `save_hard_state` and reads | flush workers run side by side; `last_index` is updated after each commit; purge leaves it alone |
| Handle (`DLmdb`, db.rs; `wire/values.rs`, `time.rs`) | none of its own | `put`, `put_with_ttl`, `batch`, `delete`, `put_if_absent`, `compare_and_swap`, point reads, scans, `open`, `close` | a reader decides about expiry and deletes the bytes locally, in a later transaction, outside consensus |
| Lifetime of a handle (`lock.rs`, `open`, `open_from_file`, `close` in db.rs) | an OS file lock, two LMDB environments, the engine's tasks | `acquire`, `open`, `close`, drop | every way in and out must hold the lock longer than anything else; tasks that outlive the handle |
| Limits and errors (db.rs, config.rs, error.rs) | none | `validate_key`, `validate_value` | three limits for a key (path, handle, LMDB) and three for a value |
| HTTP service (`d-lmdb-server/`) | none | `GET`/`PUT`/`DELETE /kv/{key}`, `/primary`, `/replica`, `/status` | layers that answer before and after the handlers; calls that fail although the write commits |
| Compose cluster (`compose/`) | HAProxy's health counters | routing, health checks, timeouts | routing on stale health answers, retries of writes that may have committed |
| Examples | - | - | - |

The engine drives the state machine and the log store; the handle sends writes
through the engine's client and reads the state machine directly. What makes
each part correct:

* state machine: what is on disk, or in a snapshot, can always be brought to
  the state of the log by replaying from the log id it goes by; `last_applied`
  names a real entry and goes back only in memory and on disk at once; the
  replica catches up and serves again;
* log store: acknowledged entries survive and are counted; the stored log is
  the engine's log; a restart sees the same log end;
* handle: expired bytes may go, but nobody can tell, and all replicas decide
  alike;
* lifetime: one handle at a time uses the directory, whatever fails on the way
  in or out; the log is never purged of what the store on disk still needs;
* service: what was acknowledged is committed, a strong read is fresh whichever
  node it lands on, an error tells the client what to do, and a client that
  repeats its request is answered.

`PROJECT.json` lists the components with their status and, under `hazards`,
what is hard to test, with the line where it bites.

## 2. Modules

| Module | Models |
|---|---|
| `Commands` | the `match` of `apply_chunk`: what one replicated command does to the database |
| `LmdbStateMachine` | one replica's state machine with everything the engine calls |
| `LmdbWal` | the log store of one node with concurrent flush workers |
| `DLmdb` | the handle on the nodes of a cluster: writes, expiry, reaping reads |
| `KeyScan` | the scans, entry by entry, and a client that pages through a prefix |
| `ExclusiveUse` | abstract: users of a directory, one at a time |
| `DataDir` | the handles on one data_dir: lock, open, close, drop, death; implements `ExclusiveUse` |
| `Node` | `DataDir`, `LmdbStateMachine` and `LmdbWal` as `DLmdb::open` puts them together |
| `HttpApi` | what one server makes of a request and of an error (operators only) |
| `HttpCluster` | servers, load balancer and clients, over an abstract Raft |
| `MCStateMachine`, `MCWal`, `MCDLmdb`, `MCKeyScan`, `MCNode`, `MCHttpCluster` | constants for TLC |
| `Commands_proofs`, `LmdbStateMachine_proofs`, `LmdbWal_proofs`, `DLmdb_proofs`, `KeyScan_proofs`, `DataDir_proofs`, `Node_proofs`, `HttpCluster_proofs` | theorems and proofs |

`Node` instantiates `LmdbStateMachine_proofs` and `LmdbWal_proofs` (and so
`LmdbStateMachine` and `LmdbWal`), and extends `DataDir`; `HttpCluster` extends `HttpApi`; `DLmdb` and
`LmdbStateMachine` extend `Commands`.

### Commands

A database is a total function from keys to a stored value or `Absent`. A batch
is written in closed form (the last operation on a key decides); the loop of
the code is kept as `InOrder` in `MCStateMachine`, and the assumption
`BatchInOrder` has TLC compare the two for all batches of up to three
operations.

### LmdbStateMachine

Variables are split as in the code into durable ones (`kv_db`, `meta`, the last
snapshot `file`) and volatile ones (the atomics, the term cache, the calls in
progress). One call is several steps wherever something can happen in between:

* `apply_chunk`: `ApplyBegin` (write transaction), `ApplyEntry` per entry,
  `ApplyCommit`, `ApplyPublish`; `ApplyError` aborts the transaction but leaves
  the term cache filled;
* `generate_snapshot_data`: `GenBegin` (id fixed, directory), `GenCopy`
  (whatever is committed by then), `GenFinish`, `GenError`; it runs beside
  chunks, restores and persists (see the two exceptions below);
* `apply_snapshot_from_file`: `RestoreBegin` (`running` false), `RestoreCommit`
  (the transaction of `restore_blocking`), `RestoreFinish`, `RestoreError`, and
  `RestorePanic` for the `JoinError` return;
* `persist_last_applied`: `PersistLastApplied(i)` writes the caller's log id
  to `meta` and then, as line 512 does, into the atomics. The id is any one
  between `last_applied` and `MaxLag` entries before it, so a caller that read
  `last_applied` before another chunk was published takes it back;
* `New`, `Start`, `Stop`, `Reset`, `Drop`, and `Crash` at
  any point.

Ghosts: `hist[i]` is what log entries 1..i make of an empty database; an image
of the database carries `upto` (how far into the log its contents may reach)
and `recas` (a compare-and-swap was executed on contents that already had its
effect); `stopped` tells a stop somebody asked for from one that was left over.

Assumed of the engine: it serialises `apply_chunk`, `apply_snapshot_from_file`,
`persist_last_applied` and `reset`; asks for entries from `last_applied + 1`;
installs only snapshots ahead of `last_applied`, with a `last_included` that is
an entry of the log no later than the contents; drops the machine when no call
is in progress; and, while `generate_snapshot_data` runs, neither calls `reset`
nor persists a log id below its `last_included`. Without the last assumption
`SnapshotSound` is lost: a `reset` (or entries executed again from an earlier
position) between the choice of the id and the copy puts contents into the file
that do not reach the id. Nothing in the repository enforces it. An LMDB commit is atomic and durable. The two stores of
`update_last_applied` are one step, since nothing in the repository reads the
pair in between. `flush` and `save_hard_state` of this trait are empty in the
code. `delete_local` is not part of this module (see `DLmdb`): its results are
about databases without locally reaped values.

### LmdbWal

Entries are terms. `Enqueue` is the engine handing a batch to a flush worker;
`PersistCommit` and `PersistReturn` are the transaction of `persist_entries` and
its `fetch_max`; `TruncateCommit` / `ResetCommit` and `CutReturn` are the
transactions of `truncate` and `reset` and the store that follows; `Purge`,
`SaveHardState`, `New`, `Crash`. Assumed of the engine: truncate and reset run
when no flush is in progress; a purge does not reach into batches in flight (it
may reach beyond the log, after a snapshot was installed).

### DLmdb

Stored values are records with a tag and, if any, an expiry. A write call fixes
its encoded command, expiry included, when it is made (`Put`, `PutWithTtl`,
`Batch`, `Delete`, `PutIfAbsent`, `Cas`); `Commit` is the engine's; `Apply` is
`apply_chunk` on a node. A point read is three steps: `Fetch` (read
transaction), `Decode` (clock), `DeleteLocal` (write transaction). Each node has
one reader in progress; more readers only add windows of the same kind. There is
one clock for all nodes, so no result or counterexample is due to clock skew.
`validate_key` / `validate_value` only refuse calls and are left out.

### KeyScan

Keys are byte strings in LMDB's order; the greatest byte stands for 0xFF. A scan
(`ScanAll`, `ScanRange`, `ScanRangeRev`, `ScanPrefix`) opens a read transaction,
which keeps a copy of the database, and moves its cursor key by key (`Visit`,
`VisitRev`, `Finish`), reading the clock at each entry as `decode_for_scan` does;
`Expire` is the moment when the values with an expiry run out. `NextPage` is a
client that goes on after the last key of a page that may be truncated, as
db.rs:202 tells it to; `Write` changes the database under it. A single scan sees
one transaction, whose contents `Init` chooses freely, so writes are only needed
while a client pages. The revision in a `ScanResult` is left out.

### DataDir and ExclusiveUse

A handle is `opening` (lock taken; the log, then the store, then the engine are
opened: `OpenLog`, `OpenStore`, `StartEngine`), `open`, `stopping` (in `close`),
`dropping` and `unlocking`. `parts[h]` is what the handle or its tasks have open.
`OpenFails` is each `?` of `open` and `open_from_file` after the lock: locals go
in reverse order, the lock last. A handle that is open loses its fields in the
order of their declaration, `inner` and `state_machine` (`DropParts`) before
`_data_dir_lock` (`Unlock`). `close` awaits `stop()` first; `Drop` is a handle
that goes without it, or whose `stop()` fails: its tasks keep both environments
open until `TasksEnd`. `Exit` is the death of the process at any point; the
operating system drops the lock. A failed `acquire` changes nothing and is no
step.

`ExclusiveUse` knows only the set of users, empty or one. The refinement mapping
counts a handle as a user from its first environment until its fields are gone;
`OneAtATime` is the abstract specification under this mapping.

External: when tasks end, and that the lock goes with its file.

### Node

Every step of `DataDir` that opens or closes a part is joined with what the part
does: `NewLog` with `LmdbWal!New`, `NewStore` with `LmdbStateMachine!New`, the
last reference (`LetGo`, in `DropFields` or in `EndTasks`) with
`LmdbStateMachine!Drop`, which persists `last_applied`, and the closing of the
log; `Kill` with both crashes. `StoreOpen` and `LogOpen` take the place of the
two `up` flags. While an engine's tasks run, entries the cluster commits reach
the log (`Receive`, `Flush`), are applied once they are in it (`ApplyChunk`),
snapshots are taken and installed, `last_applied` is persisted, possibly late
but not below the snapshot the store reports (`Persist`), and the log is purged
up to the snapshot that `snapshot_metadata` reports (`Purge`). Tasks end only between calls. The log
holds committed entries only: `truncate` never concerns what was applied and is
left to `LmdbWal`, as are failed calls, `stop` and `reset` to
`LmdbStateMachine`. The log store's `crashes` counts closings as well.

When a handle opens the log although tasks of a dropped one still have it open,
the ghost `overlap` is set and the databases stand still from then on: what two
engines do to one directory is not modelled, only that it can come to that.

One thing the model reaches and no property forbids: a node is killed after the
log was purged by a snapshot known in memory only, before `last_applied` was
persisted. It comes back with a `last_applied` below its first log entry and
without snapshot metadata. By `PurgeCovered` nothing is lost, but the engine is
told a position it has no entry for; in the model such a node waits for a
snapshot.

### HttpApi and HttpCluster

Keys and values are lengths, since only limits look at them. `TurnedDown` gives,
in the order the code does, what answers before the engine: the body limit
(413), `ValidKey` and the query extractor (400), axum's own limit on `Bytes`,
`validate_key` and `validate_value` (of `put` alone; `delete` has none).
`FromError` is the table of error.rs; `normalize_error_body` is applied to every
response, as the outermost layer.

A request goes through the balancer (`Backend`, `Rotation`) to any server in
rotation (`Route`), is turned down (`Reject`), refused by a node that is not
leader (`Refuse`), or handled: `Propose` and `WriteDone` for a write, `ReadEventual`,
or `ReadStrong`, `Confirm` and `ReadDone`. Between any two of these the node may
crash (`Crash`), be deposed (`Elect` of another, `StepDown`), or the balancer
give up (`Abandon`). The client takes every answer but a 503 or a lost
connection as final, and repeats otherwise (`Receive`). `Check` is one health
check with HAProxy's counter.

External: Raft. A leader is elected by a majority; the new leader inherits any
part of the open proposals; a deposed leader may believe in itself, and accept
calls, until `StepDown`; a proposal is committed by the leader of the latest
term. An entry with a key LMDB refuses stops `Apply` on every node.

## 3. Runs

| Run | Bounds | Result |
|---|---|---|
| `sm_recovery` | 2 keys, 2 values, a batch and a compare-and-swap, 2 entries, 2 terms, ids persisted up to 2 entries late, 2 faults of which 1 may be a panic, `LiveSpec` | passes: `TypeOK`, `IInv`, `RecoverySound`, `SnapshotSound`, `Converged`, `IdsAreLogIds`, `ServesUnlessPanic`, `BackOnlyTogether`, `EventuallyApplied` |
| `sm_cas_replay` | 2 entries, 1 fault | `ReplicaConsistent` is violated |
| `sm_join_error` | 1 entry, 1 fault that may be a panic | `ResumesServing` is violated |
| `wal_safety` | 2 workers (symmetric), 4 indexes, 2 terms, 2 crashes | passes: `TypeOK`, `WalInv`, `Faithful`, `AckedVisible`, `NeverAhead`, `RestartAgrees` |
| `ttl_safety` | 2 nodes (symmetric), 2 keys, all six calls, 2 entries, clock 0..1, ttl 1 | passes: `TypeOK`, `TtlInv`, `ReapInvisible`, `CasAgreeWithoutTtl` |
| `scan_safety` | 4 stored keys of 1 and 2 bytes, bytes 0 and 1 (0xFF), 5 caller keys, limits 0, 1, 2 and none, 1 write | passes: `TypeOK`, `ScanInv`, `ScanCorrect`, `PagesComplete` |
| `scan_limit_zero` | as above, no write | `AtMostLimit` is violated |
| `ttl_reap_race` | 1 key, `put` and `put_with_ttl` | `ReapSafe` is violated |
| `ttl_cas_diverge` | 1 key, `put_with_ttl` and `put_if_absent` | `CasAgree` is violated |
| `node_safety` | 2 handles (symmetric), 1 key, a put and a delete, 1 flush worker, 3 indexes, ids persisted up to 1 entry late, one end of the store and of the log, closed or killed (`MaxFaults`, `MaxCrashes` 1) | passes: `TypeOK`, `NodeInv`, `Exclusive`, `PurgeCovered`, `OneAtATime`, `PersistedUnderLock` |
| `cluster_failover` | 3 nodes, 1 client with one of 7 writes and then one of 4 reads, 1 fault, `LiveSpec` | passes: `TypeOK`, `AckedCommitted`, `StrongReadsFresh`, `ErrorsActionable`, `RequestsAnswered` |
| `cluster_long_key` | as above, no fault | `AcceptedKeysServed` is violated |

Why the bounds are enough to be interesting: two entries and two faults give a
crash in the middle of the replay that follows a crash, a snapshot taken between
two chunks and installed after a reset, and a chunk whose second entry fails.
The batch puts one key and removes another, the compare-and-swap sets the key it
removes, so that order, replay and leftovers of a restore all show.
Four indexes give two batches in flight over a purged prefix. With two entries
and two nodes one node can reap between entries that the other applies first;
clock 0..1 with ttl 1 is the boundary `expires_at <= now`. The four keys hold a
prefix of another, a 0xFF byte at the end and a key of 0xFF bytes only. Two
handles and one closing or kill give a snapshot, a purge by it, an end of the
first handle at any point and the recovery by the second; a third handle would
only wait for the lock. After an overlap the databases stand still and no step depends
on them, so the view of `node_safety` tells such states apart by the directory
only (`NodeView`). In `cluster_failover` the one fault is a crash, a
deposed live leader or a timeout; that makes two leaders, a write that commits
after its call failed, and a retry of it at the next leader. The requests lie
at and beyond each limit (values of 1 MiB + 1024 and + 1025 bytes, keys of 0, 1,
512 and 513 bytes against LMDB's 511). `read_backend` has HAProxy's default rise
and fall shortened to 1, which only shortens the counting. One port serves HTTP
on every node, as in the compose file and as error.rs says it assumes. Every
safety property in the table is also proved without the bounds (section 4); the
two liveness properties are not.

A passing run never stops by itself except the ones of `DLmdb` (the log and the
clock reach their bound), `Node` (its log, handles' closings and kills do) and
`HttpCluster` (its clients have asked all they had to ask), which do not check
for deadlock.

Fairness (`sm_recovery`): weak fairness of `New` (a node that is down is
restarted), of the apply steps (the engine's apply worker takes the next chunk
while the machine is up) and of the restore steps (a task on the blocking pool
runs). Persists stop being late at some point: an engine that for ever persists
a position it has left behind makes the replica execute the same entry for ever.
Nothing is assumed of snapshotting, starting or faults; the number of faults is
finite, so failures of `apply_chunk` are transient. An entry that fails every
time is the subject of `cluster_long_key`. `EventuallyApplied` claims the
contents only if no compare-and-swap was executed twice, the position always.

Fairness (`cluster_failover`): handlers and the engine of a running node make
progress, a health check is made every two seconds (haproxy.cfg: `inter 2s`), an
open request is repeated, a deposed leader hears of its successor, a leader is
elected when none runs and a majority does, and its proposals are committed and
applied. Nobody restarts a dead node: the compose file has no restart policy.

`RequestsAnswered` makes one exception, `Blocked`: a key that LMDB refuses has
been committed. The instance contains the case, and `cluster_long_key` is about
it.

### Disagreements between comments and code

* `sm_cas_replay`: `apply_chunk` (state_machine.rs:460) commits without
  `last_applied`. After a crash the entries are executed again; puts and deletes
  are idempotent in order (that is `RecoverySound`), compare-and-swap is not:
  CAS(a, x->y), CAS(a, none->x) ends with `a = y` on the replica that crashed and
  `a = x` elsewhere. `lib.rs` promises "replicated and strongly consistent".
* `sm_join_error`: state_machine.rs:552 returns before `running` is set, against
  the comment "Always resume serving" (564).
* `ttl_reap_race`: a put that commits between `decode_live_value` and
  `delete_local` (db.rs:171) is deleted on one node, against "it doesn't change
  what any node reports for this key" (state_machine.rs:174-178).
* `ttl_cas_diverge`: a compare-and-swap looks at bytes that only some nodes have
  reaped, against "Safe without consensus" (state_machine.rs:173).

* `scan_limit_zero`: the window of `scan_range_rev` pushes after it pops
  (state_machine.rs:343), so limit 0 returns one entry, against "returning at most
  `limit` entries" (310).

* `cluster_long_key`: the default `max_key_bytes` is 512 ("Maximum accepted key
  size in bytes. Default: 512.", config.rs:21; "Exactly MAX_KEY_BYTES (512) must
  pass.", db_test.rs:21) and LMDB's limit 511. A put of 512 bytes passes
  `validate_key`, is committed, and then fails in `apply_chunk` on every node,
  with everything behind it in the log. The trace ends with the client waiting:
  no fault happens in it, and the balancer's timeouts count as faults; a
  repetition would wait in the same way.

For each the passing runs state, and the proofs confirm, what does hold: see
`Converged`, `ReapInvisible`, `CasAgreeWithoutTtl` and, for limits above 0,
`ScanCorrect`.

## 4. Proofs

`LmdbStateMachine_proofs`, for every set of keys, values and commands, every log
and any number of faults: `Invariance` (`IInv`), `TypeCorrect`,
`RecoveryCorrect`, `SnapshotCorrect`, `ReplicaConverges`, `GoesBackTogether`,
`LogIdsCorrect`, `AlwaysResumes`. Assumptions: the ones on the constants in `Commands` and
`LmdbStateMachine` (commands are well formed, bounds are naturals).

The argument: an image of the database is *replayable* from position j when
every key either has its value at j or is written again by an entry in
j+1..upto (or a compare-and-swap was repeated, where nothing is claimed).
`RecoverySound` alone is not inductive: it says nothing of the open transaction,
of the snapshot being copied or installed, or of the atomics. `IInv` adds that
all of these are replayable from the id they go by, that every id is a log id,
and `HistoryOK` (a stretch of the log that does not write a key leaves it). Two
lemmas carry the steps: what is replayable from j is replayable from any earlier
position (`ReplayableEarlier`), and executing entry j+1 makes an image that is
replayable from j replayable from j+1 (`ExecuteReplayable`), which rests on
`ApplyCommandFrame` and `ApplyCommandBlind`.

`GoesBackTogether` (`BackOnlyTogether`) says which steps may take the applied
position back: `reset`, which leaves an empty store and no position, and
`persist_last_applied` with a late id, which leaves the store as it is; in both
the position on disk and the one in memory are then the same. It needs
`MetaBehind` from `IInv` (`meta` is not ahead of `last_applied` while the machine
is up, except between the commit of a restore and its publication): otherwise
the position that a restore or `Drop` writes to `meta` could be
lower than the one it replaces.

`AlwaysResumes` (`ServesUnlessPanic`) states `ResumesServing` for as long as no
restore task has panicked, which is how far it is true (`sm_join_error`). With
the bound `panics` in the statement it is inductive by itself.

`LmdbWal_proofs`, for any number of flush workers, indexes, terms and crashes:
`WalInvariance` (`WalInv`), `TypeCorrect`, `StoredLogFaithful`,
`AckedEntriesVisible`, `CounterNeverAhead`, `RestartSeesSameEnd`. The four
properties speak of moments when nothing is in progress; `WalInv` says what
holds in between. The stored log is the log in memory less the batches still
queued (`StoredOK`); batches in flight do not overlap (`BatchesOK`) nor touch
what was acknowledged (`AckedOK`); `last_index` counts every stored entry but
those a worker has committed and not yet counted, and nothing that is neither
stored nor purged (`CountedOK`); nothing at or below the boundary is left
(`PurgedOK`); a cut runs alone and has read the end of what it left (`CutOK`).
The end of the log is a greatest key, whose existence comes from
well-foundedness (`GreatestExists`).

`DLmdb_proofs`, for every number of nodes, keys, payloads, ttls and calls:
`TtlInvariance` (`TtlInv`), `TypeCorrect`, `ReapingInvisible`,
`CasDeterministic`. `TtlInv`
strengthens `ReapInvisible` from what readers see to what is stored (equal to
the log's value, or removed and expired), adds that a reader about to delete has
seen an expiry that has passed (and expiry is monotone in time), and that keys
without expiry are never touched, from which the outcomes of compare-and-swap
are equal (`ApplyCommandLocal`).

`DataDir_proofs`, for any number of handles: `ExclusiveUseOfDir` and, as a
refinement, `ImplementsExclusiveUse`. `Exclusive` is not inductive, since it
does not say why a second handle cannot get in; `DirInv` adds that exactly the
handle on its way has the lock, that an open or stopping handle has all its
parts, and that whatever is open without the lock belongs to tasks left behind.

`Node_proofs`: every step of a node is a step of `DataDir` or leaves the
directory alone (`DirStep`, hence `NodeImplementsDir`: the node implements
`DirSpec`), so `NodeExclusive` and `NodeOneAtATime` follow from the two theorems
above. `NodePersistsUnderLock` goes through the actions that write `meta`:
each is either a call of the engine, whose tasks belong to a handle that has the
lock or was dropped (`EngineHeld`), or `Drop` of the state machine, which comes
before `Unlock`. It needs no assumption about the contents of either database.

`NodeInvariance` (`NodeInv`) puts the parts together, with `NodeTypeCorrect` and
`PurgedEntriesCovered` as consequences. While no two engines overlap, a step of
a node is a step of each part or leaves it alone, so `IInv` and `WalInv` carry
over. `PurgeCovered` needs a link between them, `PurgeBehind`: the purge boundary
never lies beyond what the contents on disk can be replayed from. That holds
because the log is purged up to a snapshot id and no snapshot id in memory is
beyond `last_applied`; because a chunk can only be applied when its entries are
in the log, which by `PurgedOK` puts it above the boundary; and because a
snapshot is only installed beyond the boundary (`InstallSnapshot`; after a kill
`last_applied` may be below it); and because no id is persisted that is below
the snapshot the log is purged by (`PersistBehind`). `NodeRunsComponents` states the first half on its own: until an
overlap, `Node` implements the next-state relations of `LmdbStateMachine` and
`LmdbWal` under its mapping, so that what is proved of the parts is about what
`DLmdb::open` runs. `NodeAssumption` collects what the parts assume of their
constants.

`KeyScan_proofs`, for any finite set of keys and any bounds, limits and writes:
`NextPrefixCloses`, `ScanInvariance` (`ScanInv`), `TypeCorrect`, `ScansCorrect`,
`PagingComplete`. The first half is about byte strings: LMDB's order is a strict
total order, shown by the position where two strings part, and `next_prefix`
bounds exactly the keys with the prefix, for prefixes that end in 0xFF bytes or
consist of them. `ScanInv` then says what a loop in progress has done: it has
visited a lower part of the range, its result is in order, holds only live keys
of that part, and lacks one only for a reverse scan whose window was full, and
then a lower one (`LoopOK`); the pages of a client are in order and complete up
to their last key, which is where the page in progress begins (`PagesOK`). Keys
are assumed finite since the cursor moves to a least key. Requests are those of
the properties: a prefix scan whose continuation key is not below its prefix,
and for a reverse scan's cap a limit above 0.

`HttpCluster_proofs`, for any number of nodes, clients, requests, limits, health
check settings and faults: `HttpInvariance` (`HttpInv`), `TypeCorrect`,
`AckedWritesCommitted`, `StrongReadsCurrent`, `ErrorResponsesActionable`.
`AckedCommitted` alone does not say why a 204 is only sent for a committed
entry; `HttpInv` adds that a call past `Propose`'s wait has its entry in the
log, that a confirmed strong read is at a position not below the log the client
started from, and that a response appears only with its answer. `HttpInv` itself is not among
the invariants of `cluster_failover`, its three conjuncts that are properties are. Assumed: all
nodes serve HTTP on one port (`PortAssumption`: "Assumes every node in the
cluster serves HTTP on the same port", http/error.rs:56), and
rise and fall are at least 1. Raft is as abstract as in the runs: the committed
log only grows and only the leader of the latest term commits, so these
theorems are about the layers around it.

Only model-checked: `EventuallyApplied` and `RequestsAnswered`, liveness under
fairness, which the prover does not handle; and the comparison of the batch loop
with its closed form, a recursive definition.

## 5. Not modelled, and the plan

* The revision of a `ScanResult`: it is read apart from the transaction, may lag
  behind or run ahead of the entries, and no document says what it is for.
* Overflow of now + ttl (db.rs:305): the clock is an unbounded integer here.
* Sizes of the environments (128 MiB for the log, `map_size_gb` for the data).
* `/replica`, which `haproxy.cfg` does not use, the Docker healthcheck command,
  which only reports, and a `max_value_bytes` above axum's own limit.
* Two engines at work on one directory (`overlap`), failed calls, `stop` and
  `reset` in `Node`.

What is left to do is in this list: failed calls, `stop` and `reset` of the state
machine inside `Node`, with `NodeInv` carried through them; and what, if
anything, still holds after an overlap beyond the types.

Out of scope: Raft itself (elections, log replication, read index, leases),
which is `d-engine`'s; LMDB's transactions, taken as atomic and durable;
configuration parsing, logging and message texts; the examples.
