---------------------------- MODULE Maintenance ----------------------------
(* Several instances share one bucket; each keeps its own catalog and runs   *)
(* compaction and retention passes under leases, while block events, bucket  *)
(* walks and the staged-deletions registry make the catalogs converge.       *)
(*                                                                           *)
(*   meta, data  uuids whose meta.json / data objects are in the bucket      *)
(*   ever        uuids whose meta.json was committed at some time (history)  *)
(*   from, level compacted_from and level of every minted block              *)
(*   expired     records past their signal's TTL                             *)
(*   cat         the catalog of each instance                                *)
(*   events      block events published so far: pub/sub may lose, delay,     *)
(*               reorder and repeat them, so any may arrive at any time      *)
(*   registry    blocks with an entry in the staged-deletions registry       *)
(*   lease,fence lease records at the server, and the instances whose fence  *)
(*               still passes (module Lease: fence.check() => lease held)    *)
(*   pass        the maintenance task of each instance                       *)
(*   walking, listed                                                         *)
(*               the full-walk task: active, and the sidecars to fetch       *)
(*   missed      a reconcile under a lease met NotFound for a replacement    *)
(*               that it also has from nowhere else (history)                *)
(*   faults, losses                                                          *)
(*               the faults that may still happen, and how many of them may  *)
(*               lose a catalog file                                         *)
EXTENDS Catalog

CONSTANTS Inst, Maintainers, Walkers, Subscribers, Queriers, Warm,
          Initial, InitLevel, Output, Aging,
          FANOUT, MAXLEVEL, GRACEZERO, MAXFAULTS, MAXLOSSES, NoBlock

ASSUME MaintenanceAssumption ==
  /\ Block = Initial \cup Output
  /\ Initial \cap Output = {}
  /\ InitLevel \in [Initial -> Nat]
  /\ Maintainers \subseteq Inst /\ Walkers \subseteq Inst
  /\ Subscribers \subseteq Inst /\ Queriers \subseteq Inst /\ Warm \subseteq Inst
  /\ Aging \subseteq Initial
  /\ FANOUT \in Nat /\ FANOUT >= 2
  /\ MAXLEVEL \in Nat
  /\ GRACEZERO \in BOOLEAN
  /\ MAXFAULTS \in Nat /\ MAXLOSSES \in Nat
  /\ NoBlock \notin Block

VARIABLES meta, data, ever, from, level, expired, cat, events, registry,
          lease, fence, pass, walking, listed, missed, faults, losses

bucketVars == <<meta, data, ever, from, level>>
leaseVars  == <<lease, fence>>
walkVars   == <<walking, listed, missed>>
vars == <<meta, data, ever, from, level, expired, cat, events, registry,
          lease, fence, pass, walking, listed, missed, faults, losses>>

Kind    == {"compact", "retain"}
Event   == [kind : {"created", "superseded", "soft", "deleted"}, block : Block]
PassPc  == {"idle", "reap", "reapmeta", "reaprow", "acquire", "list", "fetch",
            "merge", "commit", "put", "apply", "stage"}
PassState == [kind : Kind, pc : PassPc, plan : SUBSET Block, lvl : Nat,
              todo : SUBSET Block, cur : Block \cup {NoBlock}]
Lease   == [who : Inst, kind : Kind, lvl : Nat]

IdlePass == [kind |-> "compact", pc |-> "idle", plan |-> {}, lvl |-> 0,
             todo |-> {}, cur |-> NoBlock]

(* The records a block holds: the initial blocks it is or descends from.     *)
Records(b) == {r \in Initial : r = b \/ r \in from[b]}
Intact     == meta \cap data

(* Variant: judge a block by its oldest record.                              *)
PastTtlOldest(b) == Records(b) \cap expired # {}

(* plan_reaping: a block is past its TTL when its newest record is.          *)
PastTtl(b) == Records(b) \subseteq expired

NewDeadline == IF GRACEZERO THEN Passed ELSE Ahead
DirectInputs(m) == {b \in from[m] : level[b] + 1 = level[m]}
Ev(k, S) == {[kind |-> k, block |-> b] : b \in S}
Emit(E) == events' = events \cup E

TypeOK ==
  /\ meta \subseteq Block /\ data \subseteq Block /\ ever \subseteq Block
  /\ from \in [Block -> SUBSET Block]
  /\ level \in [Block -> Nat]
  /\ expired \subseteq Initial
  /\ cat \in [Inst -> CatalogState]
  /\ \A i \in Inst : ColumnsOfRows(cat[i])
  /\ events \subseteq Event
  /\ registry \subseteq Block
  /\ lease \subseteq Lease /\ fence \subseteq Inst
  /\ pass \in [Inst -> PassState]
  /\ walking \subseteq Inst
  /\ listed \in [Inst -> SUBSET Block] /\ missed \in BOOLEAN
  /\ faults \in Nat /\ losses \in Nat

(* A bucket of committed blocks; the warm instances already list them, the   *)
(* others start with an empty catalog.                                       *)
Init ==
  /\ meta = Initial /\ data = Initial /\ ever = Initial
  /\ from = [b \in Block |-> {}]
  /\ level = [b \in Block |-> IF b \in Initial THEN InitLevel[b] ELSE 0]
  /\ expired = {}
  /\ cat = [i \in Inst |-> IF i \in Warm THEN [EmptyCatalog EXCEPT !.rows = Initial]
                                         ELSE EmptyCatalog]
  /\ events = {}
  /\ registry = {}
  /\ lease = {} /\ fence = {}
  /\ pass = [i \in Inst |-> IdlePass]
  /\ walking = {} /\ listed = [i \in Inst |-> {}] /\ missed = FALSE
  /\ faults = MAXFAULTS /\ losses = MAXLOSSES

-----------------------------------------------------------------------------
(* The environment: time, lost renewals, lease expiry, crashes.              *)

(* A record's age passes its signal's TTL.                                   *)
Age(r) ==
  /\ r \in Aging \ expired
  /\ expired' = expired \cup {r}
  /\ UNCHANGED <<bucketVars, cat, events, registry, leaseVars, pass, walkVars, faults, losses>>

GracePasses(i) ==
  /\ \E b \in cat[i].rows :
       \/ cat[i].reap_at[b] = Ahead /\ cat' = [cat EXCEPT ![i] = PassReap(@, b)]
       \/ cat[i].delete_at[b] = Ahead /\ cat' = [cat EXCEPT ![i] = PassDelete(@, b)]
  /\ UNCHANGED <<bucketVars, expired, events, registry, leaseVars, pass, walkVars, faults, losses>>

(* A renewal fails: the fence of i stops passing.                            *)
LoseFence(i) ==
  /\ faults > 0 /\ i \in fence
  /\ fence' = fence \ {i} /\ faults' = faults - 1
  /\ UNCHANGED <<bucketVars, expired, cat, events, registry, lease, pass, walkVars, losses>>

(* The fence reports the loss a third of a TTL before the server lets the    *)
(* lease expire; by then run_fenced has dropped the commit PUT and the store *)
(* has applied it or never will.                                             *)
ExpireLease(l) ==
  /\ l \in lease /\ l.who \notin fence
  /\ pass[l.who].pc # "put"
  /\ lease' = lease \ {l}
  /\ UNCHANGED <<bucketVars, expired, cat, events, registry, fence, pass, walkVars, faults, losses>>

(* The process of i dies and restarts. Its catalog file survives or, on an   *)
(* ephemeral disk, is lost; its leases stay until they expire. A commit PUT  *)
(* in flight may have reached the store.                                     *)
Crash(i) ==
  /\ faults > 0 /\ faults' = faults - 1
  /\ \/ UNCHANGED <<cat, losses>>
     \/ /\ losses > 0 /\ losses' = losses - 1
        /\ cat' = [cat EXCEPT ![i] = EmptyCatalog]
  /\ \/ meta' = meta /\ ever' = ever
     \/ /\ pass[i].pc = "put"
        /\ meta' = meta \cup {pass[i].cur} /\ ever' = ever \cup {pass[i].cur}
  /\ pass' = [pass EXCEPT ![i] = IdlePass]
  /\ fence' = fence \ {i}
  /\ walking' = walking \ {i} /\ listed' = [listed EXCEPT ![i] = {}]
  /\ UNCHANGED <<data, from, level, expired, events, registry, lease, missed>>

-----------------------------------------------------------------------------
(* Passes. A pass plans from the catalog, deletes what is due, and then does *)
(* one unit of leased work: a merge, or the staging of expired blocks.       *)

SetPass(i, p) == pass' = [pass EXCEPT ![i] = p]
MyLease(i) == [who |-> i, kind |-> pass[i].kind, lvl |-> pass[i].lvl]

(* guard.release(): delete the lease if it is still ours; the pass is over.  *)
Finish(i) ==
  /\ SetPass(i, IdlePass)
  /\ lease' = lease \ {MyLease(i)}
  /\ fence' = fence \ {i}

Free == {o \in Output : from[o] = {}}

(* plan_merges: FANOUT live blocks of one level below MAXLEVEL. Sizes are    *)
(* abstracted: any FANOUT of them may be the smallest.                       *)
Plans(c) ==
  {P \in SUBSET Live(c) :
     /\ Cardinality(P) = FANOUT /\ Free # {}
     /\ \E l \in 0..(MAXLEVEL - 1) : \A b \in P : level[b] = l}

CompactStart(i) ==
  /\ i \in Maintainers /\ pass[i].pc = "idle"
  /\ \E P \in Plans(cat[i]) \cup {{}} :
       /\ P = {} => Plans(cat[i]) = {} /\ PendingReaps(cat[i]) # {}
       /\ SetPass(i, [IdlePass EXCEPT
            !.pc = "reap", !.plan = P, !.todo = PendingReaps(cat[i]),
            !.lvl = IF P = {} THEN 0 ELSE level[CHOOSE b \in P : TRUE]])
  /\ UNCHANGED <<bucketVars, expired, cat, events, registry, leaseVars, walkVars, faults, losses>>

(* emit(SoftDeleted): the sink worker mirrors the staging into the registry  *)
(* and publishes it, unless its queue was full or the write failed.          *)
EmitSoft(S) ==
  /\ Emit(Ev("soft", S))
  /\ \/ registry' = registry \cup S /\ faults' = faults
     \/ S # {} /\ faults > 0 /\ registry' = registry /\ faults' = faults - 1

ExpiredLive(c) == {b \in Live(c) : PastTtl(b)}

RetainStart(i) ==
  /\ i \in Maintainers /\ pass[i].pc = "idle"
  /\ ExpiredLive(cat[i]) \cup StagedDeletions(cat[i]) # {}
  /\ SetPass(i, [IdlePass EXCEPT
       !.kind = "retain", !.pc = "reap", !.plan = ExpiredLive(cat[i]),
       !.todo = PendingDeletions(cat[i])])
  /\ EmitSoft(StagedDeletions(cat[i]))
  /\ UNCHANGED <<bucketVars, expired, cat, leaseVars, walkVars, losses>>

(* reap_pending and reap_pending_deletions, one block after the other:       *)
(* delete_block_objects (data first, meta.json last), then the row.          *)
ReapData(i) ==
  /\ pass[i].pc = "reap"
  /\ \E b \in pass[i].todo :
       /\ data' = data \ {b}
       /\ SetPass(i, [pass[i] EXCEPT !.pc = "reapmeta", !.cur = b, !.todo = @ \ {b}])
  /\ UNCHANGED <<meta, ever, from, level, expired, cat, events, registry, leaseVars, walkVars, faults, losses>>

ReapMeta(i) ==
  /\ pass[i].pc = "reapmeta"
  /\ meta' = meta \ {pass[i].cur}
  /\ SetPass(i, [pass[i] EXCEPT !.pc = "reaprow"])
  /\ UNCHANGED <<data, ever, from, level, expired, cat, events, registry, leaseVars, walkVars, faults, losses>>

ReapRow(i) ==
  /\ pass[i].pc = "reaprow"
  /\ cat' = [cat EXCEPT ![i] = DeleteBlocks(@, {pass[i].cur})]
  /\ Emit(Ev("deleted", {pass[i].cur}))
  /\ SetPass(i, [pass[i] EXCEPT !.pc = "reap", !.cur = NoBlock])
  /\ UNCHANGED <<bucketVars, expired, registry, leaseVars, walkVars, faults, losses>>

(* The store refuses a delete, or the catalog the row's: the block stays     *)
(* pending and the pass goes on.                                             *)
ReapFails(i) ==
  /\ faults > 0 /\ faults' = faults - 1
  /\ \/ /\ pass[i].pc = "reap"
        /\ \E b \in pass[i].todo : SetPass(i, [pass[i] EXCEPT !.todo = @ \ {b}])
     \/ /\ pass[i].pc \in {"reapmeta", "reaprow"}
        /\ SetPass(i, [pass[i] EXCEPT !.pc = "reap", !.cur = NoBlock])
  /\ UNCHANGED <<bucketVars, expired, cat, events, registry, leaseVars, walkVars, losses>>

ReapDone(i) ==
  /\ pass[i].pc = "reap" /\ pass[i].todo = {}
  /\ IF pass[i].plan = {}
       THEN Finish(i)
       ELSE SetPass(i, [pass[i] EXCEPT !.pc = "acquire"]) /\ UNCHANGED leaseVars
  /\ UNCHANGED <<bucketVars, expired, cat, events, registry, walkVars, faults, losses>>

SameKey(l, p) == l.kind = p.kind /\ l.lvl = p.lvl

Acquire(i) ==
  /\ pass[i].pc = "acquire"
  /\ \A l \in lease : ~SameKey(l, pass[i])
  /\ lease' = lease \cup {MyLease(i)} /\ fence' = fence \cup {i}
  /\ SetPass(i, [pass[i] EXCEPT
       !.pc = IF pass[i].kind = "compact" THEN "list" ELSE "stage"])
  /\ UNCHANGED <<bucketVars, expired, cat, events, registry, walkVars, faults, losses>>

(* The lease is held by a peer, or its backend is unreachable: skip.         *)
AcquireSkips(i) ==
  /\ pass[i].pc = "acquire"
  /\ \/ (\E l \in lease : SameKey(l, pass[i])) /\ faults' = faults
     \/ faults > 0 /\ faults' = faults - 1
  /\ SetPass(i, IdlePass)
  /\ UNCHANGED <<bucketVars, expired, cat, events, registry, leaseVars, walkVars, losses>>

(* reconcile_partition: LIST, then GET and insert each unknown sidecar.      *)
ReconcileList(i) ==
  /\ pass[i].pc = "list"
  /\ SetPass(i, [pass[i] EXCEPT !.pc = "fetch", !.todo = meta \ cat[i].rows])
  /\ UNCHANGED <<bucketVars, expired, cat, events, registry, leaseVars, walkVars, faults, losses>>

(* fetch_and_apply for one listed sidecar. Its GET happened at some time     *)
(* since the LIST: a sidecar deleted by now was read before or is NotFound.  *)
FetchAndApply(i, b) ==
  \/ cat' = [cat EXCEPT ![i] = InsertBlock(@, b, from)]
  \/ b \notin meta /\ cat' = cat

(* The listed b was not inserted, is not past its TTL, and no block that     *)
(* replaces it is in the catalog or still to be fetched.                     *)
Misses(i, b) ==
  /\ cat'[i] # InsertBlock(cat[i], b, from)
  /\ ~PastTtl(b)
  /\ \A y \in Live(cat[i]) \cup (pass[i].todo \ {b}) : b \notin from[y]

ReconcileFetch(i) ==
  /\ pass[i].pc = "fetch"
  /\ \E b \in pass[i].todo :
       /\ FetchAndApply(i, b)
       /\ SetPass(i, [pass[i] EXCEPT !.todo = @ \ {b}])
       /\ missed' = (missed \/ Misses(i, b))
  /\ UNCHANGED <<bucketVars, expired, events, registry, leaseVars, walking, listed, faults, losses>>

(* A failed LIST, or a GET that failed otherwise than NotFound: the pass     *)
(* refuses to compact against an incomplete catalog.                         *)
ReconcileFails(i) ==
  /\ pass[i].pc \in {"list", "fetch"} /\ faults > 0
  /\ faults' = faults - 1
  /\ Finish(i)
  /\ UNCHANGED <<bucketVars, expired, cat, events, registry, walkVars, losses>>

(* The reconcile is complete: stage what it superseded, and revalidate the   *)
(* plan against the catalog as it is now.                                    *)
ReconcileDone(i) ==
  /\ pass[i].pc = "fetch" /\ pass[i].todo = {}
  /\ cat' = [cat EXCEPT ![i] = StageUnstagedSuperseded(@, NewDeadline)]
  /\ IF pass[i].plan \subseteq Live(cat[i])
       THEN SetPass(i, [pass[i] EXCEPT !.pc = "merge"]) /\ UNCHANGED leaseVars
       ELSE Finish(i)
  /\ UNCHANGED <<bucketVars, expired, events, registry, walkVars, faults, losses>>

-----------------------------------------------------------------------------
(* compact_partition and merge_blocks.                                       *)

Ancestry(P) == P \cup UNION {from[b] : b \in P}

(* The fence passes, every input and its sidecar can be read: mint a uuid    *)
(* and upload the merged data objects.                                       *)
MergeRead(i) ==
  /\ pass[i].pc = "merge" /\ i \in fence
  /\ pass[i].plan \subseteq Intact
  /\ Free # {}
  /\ LET o == CHOOSE o \in Output : from[o] = {}
     IN  /\ from' = [from EXCEPT ![o] = Ancestry(pass[i].plan)]
         /\ level' = [level EXCEPT ![o] = pass[i].lvl + 1]
         /\ data' = data \cup {o}
         /\ SetPass(i, [pass[i] EXCEPT !.pc = "commit", !.cur = o])
  /\ UNCHANGED <<meta, ever, expired, cat, events, registry, leaseVars, walkVars, faults, losses>>

(* The fence fails before the merge, an input is gone, or the merge runs out *)
(* of resources (or of the bound on minted uuids): inputs stay as they are.  *)
MergeFails(i) ==
  /\ pass[i].pc = "merge"
  /\ \/ /\ i \notin fence \/ ~(pass[i].plan \subseteq Intact) \/ Free = {}
        /\ faults' = faults
     \/ faults > 0 /\ faults' = faults - 1
  /\ Finish(i)
  /\ UNCHANGED <<bucketVars, expired, cat, events, registry, walkVars, losses>>

(* The commit-point fence failed: remove the uploaded data objects.          *)
CommitAborts(i) ==
  /\ pass[i].pc = "commit" /\ i \notin fence
  /\ data' = data \ {pass[i].cur}
  /\ Finish(i)
  /\ UNCHANGED <<meta, ever, from, level, expired, cat, events, registry, walkVars, faults, losses>>

(* Variant: the commit point does not consult the fence.                     *)
CommitUnfenced(i) ==
  /\ pass[i].pc = "commit"
  /\ SetPass(i, [pass[i] EXCEPT !.pc = "put"])
  /\ UNCHANGED <<bucketVars, expired, cat, events, registry, leaseVars, walkVars, faults, losses>>

(* The commit-point fence passed: start the meta.json PUT.                   *)
CommitSend(i) ==
  /\ pass[i].pc = "commit" /\ i \in fence
  /\ SetPass(i, [pass[i] EXCEPT !.pc = "put"])
  /\ UNCHANGED <<bucketVars, expired, cat, events, registry, leaseVars, walkVars, faults, losses>>

CommitLands(i) ==
  /\ pass[i].pc = "put"
  /\ meta' = meta \cup {pass[i].cur} /\ ever' = ever \cup {pass[i].cur}
  /\ SetPass(i, [pass[i] EXCEPT !.pc = "apply"])
  /\ UNCHANGED <<data, from, level, expired, cat, events, registry, leaseVars, walkVars, faults, losses>>

(* run_fenced dropped the PUT, or the PUT failed: it may have been applied   *)
(* or not, and the data objects are kept either way.                         *)
CommitAmbiguous(i) ==
  /\ pass[i].pc = "put"
  /\ \/ i \notin fence /\ faults' = faults
     \/ i \in fence /\ faults > 0 /\ faults' = faults - 1
  /\ \/ meta' = meta \cup {pass[i].cur} /\ ever' = ever \cup {pass[i].cur}
     \/ meta' = meta /\ ever' = ever
  /\ Finish(i)
  /\ UNCHANGED <<data, from, level, expired, cat, events, registry, walkVars, losses>>

(* A pass that may reap at once does so before it releases the lease.        *)
ReapNowOrFinish(i, todo) ==
  IF GRACEZERO /\ i \in fence
    THEN SetPass(i, [pass[i] EXCEPT !.pc = "reap", !.plan = {}, !.cur = NoBlock,
                                    !.todo = todo])
         /\ UNCHANGED leaseVars
    ELSE Finish(i)

(* Publish the committed merge, whether or not the lease is still held.      *)
Publish(i) ==
  /\ pass[i].pc = "apply"
  /\ LET m == pass[i].cur
         c == ApplyCompaction(cat[i], m, pass[i].plan, NewDeadline, from)
     IN  /\ cat' = [cat EXCEPT ![i] = c]
         /\ Emit(Ev("created", {m}) \cup Ev("superseded", {m}))
         /\ ReapNowOrFinish(i, PendingReaps(c))
  /\ UNCHANGED <<bucketVars, expired, registry, walkVars, faults, losses>>

(* retain_planned: hide the planned blocks if the lease is still held.       *)
RetainStage(i) ==
  /\ pass[i].pc = "stage"
  /\ IF i \in fence
       THEN LET c == MarkDeleted(cat[i], pass[i].plan, NewDeadline)
            IN  /\ cat' = [cat EXCEPT ![i] = c]
                /\ EmitSoft(pass[i].plan)
                /\ ReapNowOrFinish(i, PendingDeletions(c))
       ELSE Finish(i) /\ UNCHANGED <<cat, events, registry, faults>>
  /\ UNCHANGED <<bucketVars, expired, walkVars, losses>>

-----------------------------------------------------------------------------
(* Convergence.                                                              *)

(* apply_event_with_grace.                                                   *)
Consume(i) ==
  /\ i \in Subscribers
  /\ \E e \in events :
    /\ cat' = [cat EXCEPT ![i] =
         CASE e.kind = "created" -> InsertBlock(@, e.block, from)
           [] e.kind = "superseded" ->
                ApplyCompaction(@, e.block, DirectInputs(e.block), NewDeadline, from)
           [] e.kind = "soft" -> AdoptPeerDeletion(@, {e.block}, NewDeadline)
           [] e.kind = "deleted" -> DeleteBlocks(@, {e.block})]
    /\ UNCHANGED <<bucketVars, expired, events, registry, leaseVars, pass, walkVars, faults, losses>>

(* full_walk_with_grace: LIST everything, GET what the catalog lacks, stage. *)
WalkStart(i) ==
  /\ i \in Walkers \ walking
  /\ meta \ cat[i].rows # {} \/ Unstaged(cat[i]) # {}
  /\ walking' = walking \cup {i}
  /\ listed' = [listed EXCEPT ![i] = meta \ cat[i].rows]
  /\ UNCHANGED <<bucketVars, expired, cat, events, registry, leaseVars, pass, missed, faults, losses>>

WalkFetch(i) ==
  /\ i \in walking
  /\ \E b \in listed[i] :
       /\ \/ FetchAndApply(i, b) /\ faults' = faults
          \/ cat' = cat /\ faults > 0 /\ faults' = faults - 1
       /\ listed' = [listed EXCEPT ![i] = @ \ {b}]
  /\ UNCHANGED <<bucketVars, expired, events, registry, leaseVars, pass, walking, missed, losses>>

WalkDone(i) ==
  /\ i \in walking /\ listed[i] = {}
  /\ walking' = walking \ {i}
  /\ cat' = [cat EXCEPT ![i] = StageUnstagedSuperseded(@, NewDeadline)]
  /\ UNCHANGED <<bucketVars, expired, events, registry, leaseVars, pass, listed, missed, faults, losses>>

(* converge_staged_deletions, at boot and after every poll and walk.         *)
ConvergeStaged(i) ==
  /\ cat' = [cat EXCEPT ![i] = AdoptPeerDeletion(@, registry, NewDeadline)]
  /\ cat' # cat
  /\ UNCHANGED <<bucketVars, expired, events, registry, leaseVars, pass, walkVars, faults, losses>>

(* The TTL of an entry, the grace and 300 s, runs out; retention passes      *)
(* renew the entry of a staged row, but may be further apart than that.      *)
RegistryExpires(b) ==
  /\ b \in registry
  /\ registry' = registry \ {b}
  /\ UNCHANGED <<bucketVars, expired, cat, events, leaseVars, pass, walkVars, faults, losses>>

(* The row is to be deleted after a grace.                                   *)
Staged(c, b) == c.reap_at[b] # NoDeadline \/ c.delete_at[b] # NoDeadline

(* A query's read of a block it planned to scan answers NotFound: it lists   *)
(* the partition and inserts the sidecars found there. The listing may be a  *)
(* cached one; a sidecar that is gone since is counted as a fault.           *)
RepairInsert(i) ==
  /\ i \in Queriers
  /\ \E x \in cat[i].rows \ data : ~Staged(cat[i], x)
  /\ \E b \in ever :
       /\ cat' = [cat EXCEPT ![i] = InsertBlock(@, b, from)]
       /\ \/ b \in meta /\ faults' = faults
          \/ b \notin meta /\ faults > 0 /\ faults' = faults - 1
  /\ cat' # cat
  /\ UNCHANGED <<bucketVars, expired, events, registry, leaseVars, pass, walkVars, losses>>

(* With these inserted, the missing row is deleted if its sidecar is gone or *)
(* a listed block replaces it, and its replacement is not ambiguous. A row   *)
(* staged since the plan is met only by a query that outlives the grace:     *)
(* counted as a fault.                                                       *)
EvictOnNotFound(i) ==
  /\ i \in Queriers
  /\ meta \subseteq cat[i].rows
  /\ \E b \in cat[i].rows \ data :
       /\ b \notin meta \/ b \in cat[i].superseded
       /\ \A x, y \in Live(cat[i]) : b \in from[x] \cap from[y] => x = y
       /\ cat' = [cat EXCEPT ![i] = DeleteBlocks(@, {b})]
       /\ \/ ~Staged(cat[i], b) /\ faults' = faults
          \/ Staged(cat[i], b) /\ faults > 0 /\ faults' = faults - 1
  /\ UNCHANGED <<bucketVars, expired, events, registry, leaseVars, pass, walkVars, losses>>

-----------------------------------------------------------------------------
PassRuns(i) ==
  \/ ReapData(i) \/ ReapMeta(i) \/ ReapRow(i) \/ ReapFails(i) \/ ReapDone(i)
  \/ Acquire(i) \/ AcquireSkips(i)
  \/ ReconcileList(i) \/ ReconcileFetch(i) \/ ReconcileFails(i) \/ ReconcileDone(i)
  \/ MergeRead(i) \/ MergeFails(i) \/ CommitAborts(i) \/ CommitSend(i)
  \/ CommitLands(i) \/ CommitAmbiguous(i) \/ Publish(i) \/ RetainStage(i)

WalkRuns(i) == WalkStart(i) \/ WalkFetch(i) \/ WalkDone(i)

QueryRepairs(i) == RepairInsert(i) \/ EvictOnNotFound(i)

Next ==
  \/ \E r \in Initial : Age(r)
  \/ \E i \in Inst : GracePasses(i) \/ LoseFence(i) \/ Crash(i)
  \/ \E l \in lease : ExpireLease(l)
  \/ \E i \in Inst : CompactStart(i) \/ RetainStart(i) \/ PassRuns(i)
  \/ \E i \in Inst : WalkRuns(i) \/ ConvergeStaged(i)
  \/ \E i \in Inst : Consume(i) \/ QueryRepairs(i)
  \/ \E b \in Block : RegistryExpires(b)

Spec == Init /\ [][Next]_vars

(* The clock and the lease server's expiry go on, a pass and a walk that     *)
(* started go on, and every tick of the maintenance loop runs a compaction   *)
(* pass and then a retention pass, so neither starves the other. Nothing is  *)
(* assumed of events, queries and faults.                                    *)
FairSpec ==
  /\ Spec
  /\ \A i \in Maintainers :
       /\ WF_vars(GracePasses(i))
       /\ WF_vars(\E l \in lease : l.who = i /\ ExpireLease(l))
       /\ SF_vars(CompactStart(i)) /\ SF_vars(RetainStart(i)) /\ WF_vars(PassRuns(i))
  /\ \A i \in Walkers : WF_vars(WalkRuns(i)) /\ WF_vars(ConvergeStaged(i))

-----------------------------------------------------------------------------
(* No maintenance step loses data: every record that was committed and is    *)
(* not past its TTL is in a block whose data objects and meta.json are both  *)
(* in the bucket, whatever passes, crashes and lost leases interleave        *)
(* (compact/src/engine.rs: delete inputs only after the merge committed).    *)
NoLoss ==
  \A r \in Initial \ expired : \E b \in Intact : r \in Records(b)

(* A catalog never lists a merged block together with a block it was merged  *)
(* from, in whatever order their sidecars and events are applied             *)
(* (catalog/src/lib.rs, insert_block): no query counts a record twice.       *)
SingleCopy ==
  \A i \in Inst : \A x, y \in Live(cat[i]) : x \notin from[y]

(* A committed block that a merge replaced, or that is past its TTL.         *)
Garbage(x) == x \in ever /\ (PastTtl(x) \/ \E o \in ever : x \in from[o])

(* The leased reconcile, the plan's revalidation and the commit fence keep   *)
(* two instances from merging the same inputs twice                          *)
(* (cluster/src/maintain.rs, run_compaction_pass): no unexpired record is in *)
(* two committed blocks that no merge has replaced, as long as no reconcile  *)
(* missed a replacement. poll.rs 264-268 has no such condition; but the      *)
(* sidecar of a replacement that was listed, itself merged away and reaped   *)
(* before the GET is skipped, and the reconcile counts as complete.          *)
NoFork ==
  \/ missed
  \/ \A x, y \in {b \in ever : ~Garbage(b)} :
       x # y => Records(x) \cap Records(y) \subseteq expired

(* Whatever faults interrupt the passes, every instance comes to see each    *)
(* unexpired record exactly once, in a block that can be read, without help  *)
(* from pub/sub: the walk, the reconcile and the registry suffice            *)
(* (cluster/src/poll.rs).                                                    *)
SeesOnce(i, r) ==
  \E x \in Live(cat[i]) \cap Intact :
    /\ r \in Records(x)
    /\ \A y \in Live(cat[i]) : r \in Records(y) => y = x

Converged == <>[](\A i \in Walkers : \A r \in Initial \ expired : SeesOnce(i, r))

(* The objects of a block that a committed merge replaced, or that is past   *)
(* its TTL, are eventually deleted (catalog/src/lib.rs,                      *)
(* stage_unstaged_superseded: no superseded block leaks).                    *)
Reclaimed == \A x \in Block : Garbage(x) ~> x \notin meta \cup data
=============================================================================
