# TLA+ verification of scry

scry is an observability backend.  Agents and gateways send batches of metrics,
logs, traces and profiles over a native wire protocol to ingest daemons, which
write them to a write-ahead log (WAL), build columnar blocks and upload the
blocks to an object store; a SQLite catalog per instance lists the blocks, and
query daemons read them.  Instances share nothing but the bucket and, when it is
configured, a Valkey server for leases, events and status.

This directory holds TLA+ modules of the parts where an interleaving, a crash or
a delayed message decides correctness, the TLC configurations that check them,
and TLAPS proofs of their main invariants.  Paths below are relative to
`src/crates/`.

## 1. Inventory

For each part: its state, its operations, what it talks to, what is hard about
it, and where it is modelled.

| Part | State and operations | Hard behaviour | Module |
|---|---|---|---|
| WAL (`wal/src/lib.rs`) | segment files, active segment, buffered writer; `open`, `append`, `rotate`, `prepare_release`, `release_segments`, `replay` | torn frames, a rotation that fails half way, files removed one by one without a lock | `Wal` |
| Ingest pipeline (`server/src/pipeline.rs`) | open block, its lowest segment, upload tasks, upload permits; `open_with_config_and_shard`, `ingest_decoded`, `flush_if_aged`, `flush`, `spawn_upload`, `run_upload` | uploads finish out of order or fail, crash at any point, a permit awaited under a mutex | `IngestPipeline`, abstractly `IntakePromise` |
| Server connections (`server/src/server.rs`) | sessions; decode, commit, push to the ring and the tail, ack | the ack is sent after the mutex is dropped | the commit and the ack are in `IngestPipeline`, the push in `LiveMerge` |
| Live ring, merged query (`server/src/live_ring.rs`, `live_merge.rs`, `query_service.rs`) | bounded ring of recent records; push, evict, snapshot, merge | snapshot and ring are read at different times, blocks arrive in any order | `LiveMerge` |
| Catalog (`catalog/src/lib.rs`) | block rows, lineage, reap and deletion deadlines, watermarks; insert, apply compaction, stage, adopt, delete | events that overtake each other, lineage of merged blocks | `Catalog`; the watermark in `IngestPipeline` and `LiveMerge` |
| Lease and fence (`valkey/src/lease.rs`, `block/src/fence.rs`) | the key with a TTL; acquire, renew, check, release, drop | delayed or lost commands and replies, a stalled task, expiry | `Lease` |
| Compaction (`compact/`, `cluster/src/maintain.rs`) | plan, lease, reconcile, merge, commit, apply, reap | crash between commit and catalog, stale plan, lease lost half way | `Maintenance` |
| Retention (`retention/`, `cluster/src/maintain.rs`) | plan, stage under the lease, announce, wait, reap | two reapers without a lease, merged blocks of mixed age | `Maintenance` |
| Convergence (`cluster/`, `valkey/src/pubsub.rs`, `staged.rs`) | events, full walk, staged-deletion registry | lost, repeated and reordered events | `Maintenance` |
| Alerting (`alert/`, `scry-alertd/`) | rule head, state head, transition records, receipts, tombstones, `alerts.sqlite`; evaluate, compare-and-swap, project, schedule, edit | stale rule or head after a long query, repeated commands, writes of unknown outcome | `AlertState`, `Alerts` |
| Error tracking (`errors/`, `scry-ingestd/src/errors_worker.rs`) | projections, commit markers, `errors.sqlite`, snapshot; extract, publish, fold, group, upload, adopt | ambiguous conditional create, hand-over between lease holders, blocks that cannot be processed | `Errors` |
| Client, gateway, agent (`client/`, `gateway/`, `agent/`) | session, queues, file positions; send, reconnect, resend | resend after an ambiguous failure | not modelled |
| Memory guard, admission (`server/src/memory_guard.rs`, `resources/`) | probes, one reclamation at a time; admit, reject | concurrent admissions around a reclamation | not modelled |
| Distributed query (`server/src/distributed_scheduler.rs`, `query_worker.rs`) | workers, assignments, fragments | a worker that disappears | not modelled |
| Object store access (`objstore/`) | pool, conditional writes | ambiguous conditional write | as the store the other modules use |
| Tail (`tail/`, `server/src/tail.rs`) | subscribers with bounded queues | slow subscriber | not modelled |
| Block formats, query engine, wire codecs, web and desktop interface, command line | pure data transformation, presentation, wiring | none a model checker would reach | not modelled |

The hazards of each part, with the line where they bite, are listed in
`PROJECT.json`.

## 2. Modules

```
  Wal  <-- IngestPipeline <-- LiveMerge <-- MCLive
                |   ^  ^----- MCIngest
                |   +-------- IngestStartupProofs <-- IngestPipelineProofs
                |                     IngestPromiseProofs --^  ^-- LiveMergeProofs
                +-- INSTANCE IntakePromise (refinement)
  Lease <-- MCLease
    ^------ LeaseProofs
  Catalog <-- Maintenance <-- MCMaint
                   ^--------- MaintenanceProofs
  AlertState <-- Alerts <-- MCAlerts
                    ^------ AlertsProofs
  Errors <-- MCErrors
    ^------- ErrorsProofs
```

`Maintenance`, `Alerts` and `Errors` use the lease through what `Lease` proves of
it: a fence that passes implies that the lease is held, and a failed check is
final.

### Wal

The log of one shard.  A frame is one payload and is numbered in the order of
the `append()` calls.  `segs` are the files, `at` says to which segment a frame
was written, `kept` are the frames with bytes on disk and `torn` those written
only in part.  `cur` is `current_seq`; `wseq` is the segment the writer really
has open, a variable of its own because `rotate()` swaps the writer before the
`sync_all` that may fail and updates `current_seq` after it.  `bytes` is
`current_bytes` in frames.

The operators are the operations: `WalOpen`, `WriteFrame`, `RotateOk` and the
three ways `rotate()` fails (`RotateFailsEarly`, `RotateFailsSync`,
`RotateRefused`), `MayRelease`, `Unlink` (one file of a release), and `Truncate`,
what a killed process leaves.  The user-space buffer is not a variable: a crash
keeps an arbitrary prefix of the unsealed segment, with or without a part of the
frame at the cut, which is every outcome of a partly flushed buffer.  `Tear`
models a failed write, whose error `tokio::fs::File` may report one call late.

### IngestPipeline

One shard of one signal.  `pc` is where the holder of the pipeline mutex is, or
where `open_with_config_and_shard` is before the listener starts:

| `pc` | place in the code |
|---|---|
| `down` | no process |
| `replay`, `put`, `insert` | the replay loop; `upload_replay_block` before and after the commit |
| `release`, `serve` | release of the replayed segments and the last watermark; the constructor's end |
| `free` | serving, the mutex is free |
| `boundary`, `close`, `age`, `flush` | inside `spawn_upload`, by caller: schema boundary, full block, age flusher, `flush()` |
| `append` | `ingest_decoded` after a boundary upload was spawned |
| `join` | `flush()` joins the upload tasks |

Each element of `uploads` is a `run_upload` task with its range `[low, sealed]`
and its step (`put`, `release`, `insert`).  `bucket` holds the committed blocks:
`meta.json` is the last PUT, so the PUTs of a block are one step, which may fail
before or after it was applied.  A live block's random uuid is represented by
the segment it sealed, a recovery block's by the set of frames digested so far
(`recovery_block_uuid`).  `rows` and `hw` are the catalog's block rows and WAL
watermark.  `replying` are batches whose handler has left the mutex and has not
acked yet; `lost` is a history variable.

Failing operations draw on `MaxFaults`, process deaths on `MaxCrashes`.

The upload permits are shared by all shards of the daemon (`with_upload_sem`).
The model gives a shard permits of its own: to this shard, a permit held by
another is a delay, and an upload task needs nothing but its permit to end.

### IntakePromise

What a shard promises, without WAL, blocks or uploads: a batch is taken, is
fresh, then safe, then stored; an acknowledged batch leaves `safe` only by being
stored, and only a batch that was taken is acknowledged.  A refused batch may be
stored all the same (intake is at least once).  `IngestPipeline` implements it
under the mapping of `Promise`: safe is what sits readable in a sealed segment.
The promise does not say that a batch is still held when it is acknowledged:
after two failures, a torn record in front of it and a failed upload of its
block, the handler acknowledges a batch that no replay will read.

### LiveMerge

Extends `IngestPipeline` with the stamp that `ingest_decoded` returns, the live
ring, the maintainers as far as a query node can notice them, the query node's
own catalog, and a merged query between its catalog snapshot and its ring read.
The actions of the shard are conjoined with what they do to the ring.  A push may
evict any number of the oldest entries; nothing else evicts, so a record that is
old already stays until the next push.

`Compact` commits a merged block, which has no WAL watermark; `Retire` and `Reap`
are retention's staging and the deletion of objects.  The query node has the rows
`seen`, of which `hid` are superseded or soft-deleted, and the watermark
`seenHw`.  It learns of blocks at any level, of deletions to come and of deletions
done (`LearnBlock`, `HideRow`, `ForgetRow`) in any order, late, repeatedly or
never; a missing object that a query repairs is a `LearnBlock` and a `ForgetRow`.
`known` is history: every id that ever had a row.  Partitions are left out: blocks
of one level may be merged whatever their day.  `MaxEvents` bounds the crashes,
merges and retirements together.

### Lease

One Valkey key, the instances that compete for it, and the commands and replies
between them.  Time is kept as ages and as the TTL that is left, so it is not
bounded; ages stop counting at caps above every comparison.  Between any two
steps any time may pass: that is a stalled connection, a slow reply or a task
that is not polled.  Commands and replies may be lost, and commands are served in
any order.  `Token` holds the uuids of acquisitions; a token can be used again
once nothing refers to it.  `Passes` is `ValkeyFence::check_at` without its latch,
`CheckFails` the latch.

### Catalog

The SQLite catalog of one instance as operators on a record; each is one method,
which the code runs as one transaction.  `rows`, `superseded` and `by` are the
rows and two of their columns, `claims` the lineage edges (kept when the
descendant's row is gone), `reap_at` and `delete_at` the two deadlines, whose
clock is reduced to not set, ahead and passed.  `InsertBlock` has both
directions of lineage: a new block supersedes the ancestors that are listed, and
is born superseded, without a pointer, when a descendant came first.

### Maintenance

The bucket, the catalogs of several instances and everything that changes them:
compaction and retention passes, block events, full walks, the staged-deletions
registry, and the eviction of a row whose object a query did not find.  A block
is a model value with `from`, the ancestor closure its sidecar carries, and
`level`.  `pass[i].pc` is where the maintenance task of instance `i` is:

| `pc` | place in the code |
|---|---|
| `reap`, `reapmeta`, `reaprow` | `reap_pending`, `reap_pending_deletions`: data objects, `meta.json`, row |
| `acquire` | `try_acquire` for the partition and level, or for retention |
| `list`, `fetch` | `reconcile_partition` and the revalidation of the plan |
| `merge`, `commit`, `put` | `merge_blocks`; the fenced commit; the `meta.json` PUT under way |
| `apply`, `stage` | `apply_compaction` and its events; `mark_deleted` and its announcement |

Events stay in `events` for good and any instance may apply any of them at any
time and any number of times, which covers loss, delay, reordering and
repetition.  A PUT that `run_fenced` drops may have been applied.  `Crash` ends a
task at any step and may take the catalog file along.

An entry of the staged-deletions registry may run out at any time
(`RegistryExpires`): its TTL is the grace and 300 s, retention passes renew it,
but `--retention-interval` may be longer than that.  `EvictOnNotFound` drops a row
whose object a query missed, after reconciling the partition.  The row need not be
live when it is dropped, as the query's snapshot may be older than a supersession
or a staging; that case counts as a fault, because a query which spans the whole
grace period is needed for it, and it takes away the reap deadline with the row.
`missed` is history: some reconcile under a lease met a NotFound for a replacement
of which it then had no other trace (`Misses`).

One assumption on time is made: by the time a peer can hold the lease, the store
has applied a commit PUT that was started under it, or never will
(`ExpireLease`, guard on `put`).  The fence leaves a third of the TTL for that.

### AlertState, Alerts

`AlertState` is the monitor's state machine as operators: `Evaluate` folds one
observation of one slot into the prior state, with `for`, `recover_for`, outages
that suspend an active status, and edits that restart holds.

`Alerts` is one monitor on several alertd instances.  `head` and `shead` are the
rule head and the state head in the bucket, both changed only by
compare-and-swap; `trans` are the transition records, `receipts` and `staged` the
mutation receipts and tombstones.  `proj[i]` is the monitor's part of
`alerts.sqlite`.  Three kinds of task run on an instance: the evaluation job
(`queued`, `state`, `recheck`, `trans`, `head`, `fold`: after dispatch, with the
lease, after the query, between the two PUTs, after the commit), the
reconciliation (`state`, `fold`) and the handler of a command (`publish`,
`stage`, `cas`, `receipt`, `fold`).  Every PUT may fail with its outcome unknown,
and a client repeats a command whose answer was lost.  `log` and `last` are
history: the commands in the order the rule head took them, and what the state
head was computed from.

As in `Errors`, a constant `Scenarios` holds small worlds (how far the clock runs, which commands
are sent how often, what queries answer, how many faults), and `Init` picks one.

### Errors

The error worker on several instances.  `data` and `markers` are the published
projections, `db[i]` is `errors.sqlite`, `snapshot` the uploaded copy.  A pass
runs through `list`, `fold` (a page of commit markers), `block`, `data`,
`marker`, `verify` (one source block: publish and fold), `group`, `snap` and
`upload`.  The database transactions are operators: `FoldCommitted` with
duplicates and collisions, `GroupPageOf` with the upsert of an issue's count,
first, last and latest event, `ListPage` and `SourcePage` with cursor and wrap.
Log blocks appear, are compacted and expire meanwhile (staging and reaping of an
expired block are one step, as the worker reads the bucket only); the lease is lost, a store
fails, a process dies with or without its disk, and an upload that was given up
may land later (`late`).

## 3. Runs

| Run | Instance | Shows |
|---|---|---|
| `ingest_faults` | 3 frames, 2 per segment, 2 per block, 2 uploads, the third frame of another schema, 2 crashes, 1 fault | `TypeOK`, `Durable`, `DisjointRanges`, `OneSchemaPerBlock`, `OpenBlockAboveWatermark`, `BlocksImmutable`, and that the shard implements `IntakePromise` |
| `ingest_live` | the same with 1 permit, 1 crash, no fault | `EventuallyStored`, `MutexReleased`, `WalDrains` |
| `live_double` | 2 frames of one schema, 1 upload at a time, 2 of: a crash, merges, retirements | `LiveTypeOK`, `NoDoubleOnceKnown`, `GapExplained` |
| `lease` | 2 instances, 2 tokens, TTL 3, 2 commands under way | `TypeOK`, `FenceSound`, `OneActs`, `NoFlap`, `KeySafeWhilePassing`, `FreeAgain` |
| `maint_safe` | 2 maintainers, one of them with an empty catalog, walking and subscribed; 2 blocks, one of which may expire, 2 merge outputs, zero grace, 1 fault that may lose a catalog | `TypeOK`, `NoLoss`, `SingleCopy`, `NoFork` |
| `maint_live` | 1 maintainer, 2 walking instances, no events, a grace period, 1 fault | `Converged`, `Reclaimed` |
| `alerts` | 2 instances and seven scenarios: all outcomes over four slots; two evaluators with a fault; an edit, a disabling edit, a delete during evaluation; two edits, and an edit and a delete, of one revision, each sent twice, with a fault | `TypeOK`, `ChainWhole`, `StatusEarned`, `CommandsOnce`, `ProjectionHonest`, `HeadAdvances`, `CaughtUp`, `Projected` |
| `errors` | 2 workers and five scenarios: a block that cannot be processed in a page of one; a block that appears behind the cursor; two blocks with a colliding event and their compaction; a merge that adds nothing but a collision; and, with two faults or expiries instead of one, a lease that moves to the peer and back | `CountedOnce`, `Rebuildable`, `EventuallyServed` |
| `ingest_torn` | 1 crash, 1 fault | a counterexample to `ReplayFailsClosed` |
| `ingest_sync` | no crash, 1 fault | a counterexample to `CurrentIsWritable` |
| `live_gap` | 2 frames, a block each, no crash, no fault | a counterexample to `NoGap` |
| `maint_leak` | 1 instance, a catalog lost once | a counterexample to `Reclaimed` |

**Bounds.**  *Ingest*: three frames with two per segment and two per block give a
segment that fills by itself, a block that spans two segments, a schema boundary
in the middle of a block, and two uploads beside an open block.  Two crashes
reach a recovery that is interrupted and started over; a single fault can be any
failing operation at any moment.  *Lease*: TTL 3 gives renew period 1 and
backstop 2; with two tokens each instance can be in an acquisition or hold the
lease while the late commands of an abandoned one are under way, and tokens are
used again.  `MaxNet` only bounds new acquisitions.  No symmetry is used, since
the run checks liveness.  *Maintenance*: two inputs, fan-out 2 and two outputs
allow a merge, its loss in every way, and the same merge by the peer or again;
one fault is any lost fence, crash, failed delete, failed reconcile, lost
registry write or ambiguous PUT.  Merges of merges (level 2) are left to the
proof.  *Alerts*: holds of one and two slots, an interval of one or two seconds,
and four slots pass every edge of the state machine.  *Errors*: pages of one or
two blocks and rows make every cursor wrap.

**Fairness.**  `IngestPipeline!Fairness`: the runtime keeps polling the mutex
holder and the upload tasks, a supervisor restarts a dead process, the age
flusher ticks.  Nothing is assumed of clients or failures; the run has no fault,
because a failed upload is not retried before the next start.
`Lease!Fairness`: time passes, commands are served unless they are lost, a pass
under the lease ends and releases it.  Neither the renew task nor any
acquisition is assumed to make progress beyond handling its answer.
`Maintenance!FairSpec`: grace periods and leases run out, a pass and a walk that
started go on, staged deletions are read from the registry.  `CompactStart` and
`RetainStart` are strongly fair, as every tick of the maintenance loop runs a
compaction pass and then a retention pass: neither can be starved by the other.
Nothing is assumed of events and queries.
`Alerts!FairSpec`: the clock runs to the scenario's horizon, the scheduler ticks,
jobs, passes and handlers go on, the lease of an instance without a job runs out.
Clients need not send anything.
`Errors!FairSpec`: the worker loop calls `pass()` forever and a dead holder's
lease expires.  `SaveSnapshot` is strongly fair: the snapshot interval elapses
between uploads, so a worker with changes cannot end every pass too early.

`CHECK_DEADLOCK FALSE` is set for `Maintenance` and `Alerts`, which come to rest:
nothing is left to compact or to expire, clients have no more commands and the
clock stands at its horizon.

### Where code and documentation disagree

* **Torn segments are released** (`ingest_torn`).  `wal/src/lib.rs:329` says that
  replay fails closed and that a segment that could not be decoded completely is
  never released.  `ReplayIter::next` logs a short or CRC-mismatched frame, skips
  the rest of the segment and goes on, and startup releases all replayed
  segments.  A frame acknowledged behind a torn one (after a failed append whose
  own batch was refused) is gone after the restart.  `Durable` therefore excepts
  frames behind a torn one.
* **`current_seq` after a failed sync** (`ingest_sync`).  `wal/src/lib.rs:120`
  calls it the active, writable segment.  After a failed `sync_all` in `rotate()`
  the writer is one ahead, and every later `rotate()` fails because its file
  exists.  No data is lost: the passing run has this fault as well.
* **Gap in merged queries** (`live_gap`).  `src/docs/decisions.md:2691` concludes "no
  gap, no double".  There is no double, but the watermark is a maximum: when a
  later block is committed or converges first, the records of the earlier one
  are dropped from the live half before their block is visible.
  `GapOnlyBehindLaterBlock` shows that nothing else hides a record.
* **Superseded blocks that no reaper sees** (`maint_leak`).
  `compact/src/lib.rs:155-158` says that the reconcile and the walk stage
  superseded inputs, which would leak forever otherwise.  Both use
  `stage_unstaged_superseded`, which asks for `superseded_by IS NOT NULL`; an
  input inserted after its output is born superseded with that column NULL.  An
  instance that rebuilds its catalog by a walk, whose GETs complete in any order,
  may so leave an input in the bucket for good.  In `maint_live` no catalog is
  lost and everything is reclaimed.

Five smaller ones have no run of their own:

* `cluster/src/poll.rs` refuses to compact after a reconcile that could not fetch a
  committed sidecar: its inputs look live, and "merging them again would create a
  second live copy of their rows".  A listed sidecar that is gone by its GET is not
  counted as such.  If a peer merges a listed output on to the next level and reaps
  it in between, the holder sees neither the output nor its replacement and merges
  the inputs again.  This takes a reap grace shorter than the reconcile and merges
  of merges, which `maint_safe` does not have; with `MAXLEVEL = 2`, a third initial
  block at level 1 and a grace period TLC finds it in 32 steps.  `NeverForked`
  shows that nothing else forks.
* `alert/src/state.rs` says that recovering time accumulated under another
  revision never counts towards the edited rule.  An outage under the new
  revision stores the suspended `recovering` status with its old start, and a
  clear observation afterwards resumes from it.  `StatusEarned` asks that the
  condition was clear for long enough, not that all of it was after the edit.
* `src/docs/design/alert-evaluation.md` says that the second revision check and
  the compare-and-swap of the state head reject the result of an edited rule.  An
  edit after that check does not move the state head, so the result of the old
  revision is committed.  The next slot, evaluated under the new revision,
  supersedes it (`HeadAdvances`).
* A transition record left by an evaluation that crashed or lost, with another
  observation of the same slot, takes the key that a second evaluation needs: the
  slot cannot be committed, and the monitor waits for the next one.  `CaughtUp`
  excepts exactly this.
* `errors/src/snapshot.rs:29-33` says that a late upload briefly regresses the
  snapshot until the next holder's upload corrects it.  The holder uploads only
  when it has changes, so without new errors the older snapshot stays.
  `EventuallyServed` excepts this through `overtaken`.

## 4. Proofs

TLAPS checks these for every value of the constants that satisfies the modules'
assumptions (`WalConstants`, `PipelineConstants`, `LeaseConstants`,
`MaintenanceAssumption`, `AlertsAssumption`, `ErrorsAssumption`): any number of frames, segments,
uploads, crashes and faults; any TTL of at least three minimal periods, any set of
instances and tokens; any set of blocks, any fan-out and depth of merges; any
commands and rules, any interval and any hold; any finite set of log blocks with
any rows, any page sizes.

**`IngestPipelineProofs`**: `TypeCorrect`, `RangesDisjoint`, `Durability`,
`WatermarkBelowOpenBlock`, all from `Invariance`, `Spec => []IInv`.  `Durable`
alone is not inductive: that a release drops no acknowledged frame depends on who
owns the segment.  `IInv` adds

* `WalInv`: the writer's segment is the highest and at most one above
  `current_seq`, and every frame on disk is in a segment that exists;
* `ControlInv`: which memory is empty at which control point;
* `UploadInv`: a task past its PUT has its frames in the bucket;
* `CoverInv`: a promised frame on disk belongs to the block, open or in upload,
  that owns its segment;
* `PromiseInv`: a promised frame is stored, on disk, cut off by a crash or behind
  a torn one;
* `ReplayInv`: during startup, everything readable is still to be read, in the
  recovery builder or in a block of this replay;
* `IdInv`: a task that has not committed has a uuid of its own, so its PUT
  overwrites nothing;
* `MarkInv`: the watermark is below the open block's range.

The proof is one lemma per action: `IngestStartupProofs` has the invariant, the
lemmas on the WAL operators and on PUT, and startup and crash;
`IngestPipelineProofs` has ingest, `spawn_upload`, the upload tasks and the
theorems.

`SchemasApart` and `BlocksNeverChange` come from a second invariant on top,
`BlockInv`.  A recovery block has a deterministic uuid, so that an interrupted
recovery overwrites its own block when it starts over: it must then write the
same contents.  `IsChunk` says that a recovery block is the last piece of the
frames its uuid digests, cut where `should_close` or a schema boundary cuts, and
`Replaying` that the running replay is at such a piece; two pieces of the same
digest are equal.

**`IngestPromiseProofs`**: `PromiseKept`, the refinement of `IntakePromise`.  Each
action is a step of the promise or none (`SealStep`, `StoreStep` and their like
restate the promise's steps in terms of what is held and what is safe).  It needs
`HeldInv`: what a replay has read and not yet uploaded is still on disk.

**`LiveMergeProofs`**: `LiveTypeCorrect`, `NeverDouble`, `GapsExplained`, from
`LiveInvariance`.  `NoDouble` compares two watermarks read at different times, so
the invariant orders stamps and seals: a stamp is at most the segment its block
seals (`StampInv`), no recovery block holds what the present process ingested
(`CurrentInv`), a block sealed at or above the stamp of a present frame holds that
frame or newer ones only (`OrderInv`), and the query node's watermark is that of
a block it has seen (`SeenInv`).

**`LeaseProofs`**: `TypeCorrect`, `FenceIsSound`, `MutualExclusion`, `FailedCheckIsFinal`,
`KeyIsSafe`, from `Spec => []LeaseInv`.  The heart is `GrantInv`: the server has
owed the holder a full TTL since the instant the last accepted command was
*sent*.  With the age measured from that instant and the backstop at two thirds
of the TTL, a passing check implies that a third of the TTL is left.  `DelInv`
(no DEL under way for a guard that is held) and `ReplyInv` (a reply exists only
for a caller that awaits it) keep late commands of abandoned acquisitions out.

**`MaintenanceProofs`**: `MaintenanceTypeCorrect`, `NothingLost`,
`NothingTwice`, from `Invariance`, `Spec => []Inv`.  A reap
deletes on the word of one catalog, so `NoLoss` needs to know what a catalog may
say.  `CatalogInv` is that: a superseded row has a committed descendant, a row
with a deletion deadline is past its TTL, and a live row has no listed
descendant; one lemma per catalog operator preserves it.
`Inv` adds

* `Graph`: `compacted_from` is transitive, without cycles, over committed blocks;
* `Cover`: a committed block that is not past its TTL is intact, or an ancestor
  of an intact one.  This survives the deletion of any block that is replaced or
  past its TTL, in any order and by any number of reapers, which is why reaping
  needs no lease;
* `Messages` and `Passes`: events, the registry and running passes carry only
  committed, replaced or expired blocks, as their kind says;
* `Distinct`: two instances never upload under one uuid.

`NoLoss` and `SingleCopy` do not depend on the lease at all; what the lease, the
reconcile under it and the commit fence buy is `NoFork`, theorem `NeverForked`.
Its invariant `ForkInv` follows a plan from the catalog to the commit: a pass that
may still commit holds the one lease of its level (`LeaseOK`); while it fetches, a
replaced input of its plan is superseded in its catalog or about to be, by a
sidecar on its list; after the revalidation its inputs are unreplaced, and stay so
until the PUT lands, since only the holder of the lease replaces blocks of that
level (`PlanOK`).  The theorem has a hypothesis, `ReconcileApplies`: a listed
sidecar that is gone by its GET is of a block past its TTL, or of one whose
replacement the catalog lists or the same LIST found.  It holds when the reap
grace is longer than a reconcile; section 3 says what happens without it.

**`AlertsProofs`**: `AlertsTypeCorrect`, `ChainIsWhole`,
`HeadOnlyAdvances`, `StatusIsEarned`, `CommandsTakenOnce`,
`ProjectionsAreHonest`, from `Invariance`, `Spec => []Inv`.  Its first part
is about `Evaluate`: which branch an outcome takes, and `EarnedStep`, that a
status is earned if the hold timers (`Timers`: a pending status has held at least
since its `since`, a recovering one, suspended by an outage or not, has been
clear since its own) were honest before.  A compare-and-swap compares versions,
so `Inv` has to say what a task may conclude from what it read earlier:

* `RuleInv`: the rule head is the last command's, commands are numbered without
  gaps, receipts only follow the head;
* `HistoryOK`: `last` belongs to the rule and the slot of the state head, and its
  timers are honest;
* `ReqOK`, `JobOK`, `RecOK`: what a handler, an evaluation and a reconciliation
  carry from their reads to their writes.  An evaluation past its query has
  evaluated the state head it read, and that head's record is in the bucket;
* `Unseen`: a reconciliation that found no rule head meets only rows folded after
  its epoch, which is why pruning undoes no acknowledged create;
* `Kept1`: an answered command is in the row of the instance that answered.

`Grows` says that the bucket only grows: commands are added, heads move up,
records stay.  Everything `Inv` says of memory is stable under `Grows`
(`MemoryKept`), so the lemma of an action only looks at the task that moves.  `Inv`
says nothing of the lease but its type: none of these properties depends on it.

**`ErrorsProofs`**: `EachCountedOnce`, `AlwaysRebuildable`, from `ErrInvariance`,
`Spec => []ErrInv`.  `ErrInv` says of every database, local, uploaded or in
flight, that it is `DbOK` and has folded only what has a marker, and of a pass
what it has established by the step it is at (`GoodPass`): the page it folds has
markers, a marker is put after the data object and folded after the marker.
`DbOK` adds to `CountedOnce` the types, the cursor's range and that no two rows
have an event in common.  Most of the proof is about the transactions:
`FoldOK` (a fold inserts the first row of each new event and accounts for all
others), and `GroupOK` with `UpsertIs`, that the upsert of a page's summary into
the stored one is the summary of both, ties of the latest event included.  They
rest on lemmas about finite sets of naturals (`MaxIs`, `SortedIs`, `EveryRank`),
proved from the well-foundedness of the naturals by taking a least counterexample.

**Only model-checked**: the liveness properties `EventuallyStored`,
`MutexReleased`, `WalDrains`, `FreeAgain`, `Converged`, `Reclaimed`, `CaughtUp`,
`Projected` and `EventuallyServed`: fairness and ENABLED are out of this prover's
reach.  Every invariant, every action property and the refinement that a passing
run checks is also a theorem; the properties of the violation runs do not hold.
The library's induction schemas take an operator as parameter, which the provers
cannot instantiate; where an induction was needed it is written as above.

## 5. Not modelled

Around the modelled paths: wire handshake, decoding, redaction, compression,
statistics, SQL planning and response limits; torn sectors and reordered writes
below a successful `sync_all`; the eight shards together (they share only the
permits); clock drift between the Valkey server and an instance, which the third
of the TTL behind the backstop is there to absorb.

*Maintenance*: the incremental poll, which inserts a subset of what a walk
inserts, and its cursors; block sizes and the memory admission of a merge; the
standalone `compact_once`, `retain_once` and `reconcile_from_bucket`, which run
the same steps on one instance without leases; the in-process
`LocalLeaseProvider`; label postings, lineage pruning and catalog snapshots.

*Alerts*: notification targets and secrets, which use the same head protocol and
have no evaluator behind them yet; permits and round-robin over several monitors;
jitter and evaluation delay; query execution, authentication, presentation.

*Errors*: extraction, codecs and fingerprints (a block's rows are a constant); a
change of the extractor or grouping generation; the standalone daemon with a
catalog of its own; the followers that download a snapshot; the row-level
idempotence of the mapping table, which the cursor makes unreachable.

Parts without a module: the client, gateway and agent keep no state between
batches beyond a connection and a position in memory; the memory guard decides on
byte counts of the allocator and the control group; the distributed query and the
query engine compute read-only results; the tail drops on overflow by design and
promises nothing; codecs and block formats are data transformations.

## 6. What could follow

1. The client and gateway in front of `IntakePromise`: a resend after an
   ambiguous failure stores a batch twice, and a second failure drops it.
2. The incremental poll's cursors and look-back window against late commits.
3. Several monitors under a permit limit.
