------------------------------- MODULE Errors -------------------------------
(* Error processing: the lease-holding worker extracts occurrences from log *)
(* blocks, publishes them as immutable projections, folds committed          *)
(* projections into its errors.sqlite, groups them into issues, and uploads  *)
(* the database as a snapshot that peers adopt and readers follow.           *)
(*                                                                           *)
(*   world          the scenario: the log blocks published at the start and  *)
(*                  those to come, the page sizes, the faults and expiries   *)
(*   coming         blocks still to appear: [inputs, output], no inputs for  *)
(*                  one from ingestion                                       *)
(*   live, objects  log blocks the converged catalog lists, blocks whose     *)
(*                  parquet object exists                                    *)
(*   data, markers  source blocks whose projection's parquet, whose commit   *)
(*                  marker exists; contents are a function of the block      *)
(*   lease, guard   the errors lease, and each worker's guard ("lost": its   *)
(*                  fence check fails; module Lease)                         *)
(*   db             errors.sqlite of each instance                           *)
(*   pass           each worker's running pass                               *)
(*   changes        unsnapshotted_changes of each worker                     *)
(*   snapshot, late the snapshot object; an upload its worker gave up on     *)
(*   overtaken      the snapshot landed late, under a holder that had        *)
(*                  already decided whether to adopt it (history)            *)
(*   budget         faults and retention expiries that may still happen      *)
EXTENDS Integers, Sequences, FiniteSetsExt

CONSTANTS Inst, Nobody,
          Block,       \* log blocks, numbered in (date, uuid) order
          Poison,      \* blocks no pass can process: over a limit, undecodable
          RowsOf,      \* the occurrences of each block, in row order
          Issue,       \* issue ids fingerprints map to
          Unreadable,  \* stands for an occurrence that cannot be fingerprinted
          Scenarios    \* what is published, compacted, configured, may fail

Row == [event : Nat, body : Nat, at : Nat, issue : Issue \cup {Unreadable}]

ASSUME ErrorsAssumption ==
  /\ Nobody \notin Inst /\ Unreadable \notin Issue
  /\ Block \subseteq Nat \ {0} /\ IsFiniteSet(Block) /\ Poison \subseteq Block
  /\ RowsOf \in [Block -> Seq(Row)]
  /\ Scenarios \subseteq
       [blocks : SUBSET Block, coming : SUBSET [inputs : SUBSET Block, output : Block],
        max_blocks : Nat \ {0}, page_rows : Nat \ {0}, budget : Nat]

VARIABLES world, coming, live, objects, data, markers, lease, guard, db, pass, changes,
          snapshot, late, overtaken, budget

sources == <<world, coming, live, objects>>
bucket  == <<data, markers>>
leases  == <<lease, guard>>
upload  == <<snapshot, late, overtaken>>
vars == <<world, coming, live, objects, data, markers, lease, guard, db, pass, changes,
          snapshot, late, overtaken, budget>>

(* errors.sqlite.  `commits` stands for projection_commits and for           *)
(* source_coverage, which one transaction writes; `occ` is the occurrences   *)
(* table in fold_seq order, `grouped` the grouping cursor.                   *)
NoIssue == [count |-> 0, first |-> 0, last |-> 0, latest |-> 0]
NoDb == [exists |-> FALSE, commits |-> {}, occ |-> <<>>, collided |-> {},
         grouped |-> 0, failed |-> {}, issues |-> [s \in Issue |-> NoIssue],
         listed |-> 0, source |-> 0]

IdlePass == [pc |-> "idle", page |-> <<>>, last |-> 0, wrap |-> FALSE,
             blocks |-> <<>>, dirty |-> FALSE]

Init ==
  /\ world \in Scenarios
  /\ live = world.blocks /\ objects = live
  /\ coming = world.coming /\ budget = world.budget
  /\ data = {} /\ markers = {}
  /\ lease = Nobody /\ guard = [i \in Inst |-> "none"]
  /\ db = [i \in Inst |-> NoDb]
  /\ pass = [i \in Inst |-> IdlePass]
  /\ changes = [i \in Inst |-> FALSE]
  /\ snapshot = NoDb /\ late = NoDb /\ overtaken = FALSE

-----------------------------------------------------------------------------
(* The database transactions.                                                *)

Events(rows) == {r.event : r \in rows}

Sorted(S) ==
  [n \in 1..Cardinality(S) |-> CHOOSE k \in S : Cardinality({x \in S : x < k}) = n - 1]

(* The rows at the positions S, in row order.                                *)
RowsAt(rows, S) == LET at == Sorted(S) IN [k \in DOMAIN at |-> rows[at[k]]]

(* The rows of a block whose event is not in the table, without the later    *)
(* ones of an event.                                                         *)
Inserted(d, b) ==
  LET rows == RowsOf[b]
  IN {n \in DOMAIN rows : /\ rows[n].event \notin Events(Range(d.occ))
                          /\ \A m \in 1..(n - 1) : rows[m].event # rows[n].event}

(* One transaction: the first row of an event is inserted, an equal one is a *)
(* duplicate, one with another body is recorded as a collision.              *)
FoldCommitted(d, b) ==
  LET occ == d.occ \o RowsAt(RowsOf[b], Inserted(d, b))
  IN [d EXCEPT !.commits = @ \cup {b}, !.occ = occ,
               !.collided = @ \cup (Range(RowsOf[b]) \ Range(occ))]

(* An issue's summary over a set of its occurrences, and the upsert of a     *)
(* page's summary into the stored one: the latest event has the largest time *)
(* and, among equals, the largest id.                                        *)
Summary(rows) ==
  IF rows = {} THEN NoIssue
  ELSE LET last == Max({r.at : r \in rows})
       IN [count |-> Cardinality(rows), first |-> Min({r.at : r \in rows}), last |-> last,
           latest |-> Max(Events({r \in rows : r.at = last}))]

(* Variant: on a tie the event grouped last wins.                            *)
UpsertLast(old, new) ==
  [count |-> old.count + new.count, first |-> Min({old.first, new.first}),
   last  |-> Max({old.last, new.last}),
   latest |-> IF new.last >= old.last THEN new.latest ELSE old.latest]

UpsertIssue(old, new) ==
  [count |-> old.count + new.count, first |-> Min({old.first, new.first}),
   last  |-> Max({old.last, new.last}),
   latest |-> IF \/ new.last > old.last
                 \/ new.last = old.last /\ new.latest > old.latest
              THEN new.latest ELSE old.latest]

PageEnd(d) == Min({d.grouped + world.page_rows, Len(d.occ)})
Drained(d) == d.grouped = Len(d.occ)

(* One page of occurrences after the cursor, in one transaction.             *)
GroupPageOf(d) ==
  LET rows == Range(SubSeq(d.occ, d.grouped + 1, PageEnd(d)))
      Pending(s) == Summary({r \in rows : r.issue = s})
  IN [d EXCEPT
       !.grouped = PageEnd(d),
       !.failed = @ \cup {r \in rows : r.issue = Unreadable},
       !.issues = [s \in Issue |->
         IF Pending(s) = NoIssue THEN d.issues[s]
         ELSE IF d.issues[s] = NoIssue THEN Pending(s)
         ELSE UpsertIssue(d.issues[s], Pending(s))]]

-----------------------------------------------------------------------------
(* Listings.  A projection's marker sorts before its parquet object, and     *)
(* projections sort by their source block.                                   *)

MarkerKey(b) == 2 * b
DataKey(b)   == 2 * b + 1
Keys == {MarkerKey(b) : b \in markers} \cup {DataKey(b) : b \in data}

(* The keys one pass lists: up to max_blocks markers or 2 * max_blocks keys. *)
IsMarker(k) == k % 2 = 0
ListPage(after) ==
  LET rest == {k \in Keys : k > after}
      Until(k) == {x \in rest : x <= k}
      Full(k) == \/ Cardinality({x \in Until(k) : IsMarker(x)}) = world.max_blocks
                 \/ Cardinality(Until(k)) = 2 * world.max_blocks
  IN IF \E k \in rest : Full(k)
     THEN [keys |-> Until(Min({k \in rest : Full(k)})), exhausted |-> FALSE]
     ELSE [keys |-> rest, exhausted |-> TRUE]

FirstOf(s) == SubSeq(s, 1, IF Len(s) < world.max_blocks THEN Len(s) ELSE world.max_blocks)

(* Variant: the page after the cursor, empty at the end of the catalog.      *)
SourcePageNoWrap(after) == FirstOf(Sorted({b \in live : b > after}))

SourcePage(after) ==
  LET rest == {b \in live : b > after}
  IN FirstOf(Sorted(IF rest = {} THEN live ELSE rest))

-----------------------------------------------------------------------------
(* What happens around the workers.                                          *)

(* A block appears in the catalog: one that ingestion published, with a key  *)
(* anywhere in the order, or a compaction's output in place of its inputs.   *)
(* Retention expires blocks.  The objects of a block that left go then, or   *)
(* stay long enough for a pass that picked it.                               *)
Appear ==
  /\ \E m \in coming, gone \in BOOLEAN :
       /\ m.inputs \subseteq live
       /\ live' = (live \ m.inputs) \cup {m.output}
       /\ objects' = (IF gone THEN objects \ m.inputs ELSE objects) \cup {m.output}
       /\ coming' = coming \ {m}
  /\ UNCHANGED <<world, bucket, leases, db, pass, changes, upload, budget>>

Expire ==
  /\ budget > 0 /\ budget' = budget - 1
  /\ \E b \in live : live' = live \ {b} /\ objects' = objects \ {b}
  /\ UNCHANGED <<world, coming, bucket, leases, db, pass, changes, upload>>

LoseLease(i) ==
  /\ budget > 0 /\ budget' = budget - 1
  /\ lease = i /\ guard[i] = "held"
  /\ lease' = Nobody /\ guard' = [guard EXCEPT ![i] = "lost"]
  /\ UNCHANGED <<sources, bucket, db, pass, changes, upload>>

ExpireLease ==
  /\ lease # Nobody /\ guard[lease] = "none"
  /\ lease' = Nobody
  /\ UNCHANGED <<sources, bucket, guard, db, pass, changes, upload, budget>>

(* A crash ends the pass; an upload in flight may still complete.  The disk  *)
(* survives, or is replaced.                                                 *)
Crash(i) ==
  /\ budget > 0 /\ budget' = budget - 1
  /\ guard' = [guard EXCEPT ![i] = "none"]
  /\ \E d \in {db[i], NoDb} : db' = [db EXCEPT ![i] = d]
  /\ late' = IF pass[i].pc = "upload" THEN db[i] ELSE late
  /\ pass' = [pass EXCEPT ![i] = IdlePass]
  /\ changes' = [changes EXCEPT ![i] = FALSE]
  /\ UNCHANGED <<sources, bucket, lease, snapshot, overtaken>>

LateLands ==
  /\ late.exists
  /\ snapshot' = late /\ late' = NoDb
  /\ overtaken' = (lease # Nobody /\ guard[lease] = "held")
  /\ UNCHANGED <<sources, bucket, leases, db, pass, changes, budget>>

-----------------------------------------------------------------------------
(* One pass of the worker (ErrorsWorker::pass, reconcile_once).              *)

Fenced(i) == guard[i] = "held"

To(i, p)  == pass' = [pass EXCEPT ![i] = p]
Put(i, d) == db' = [db EXCEPT ![i] = d]

(* should_adopt, install_snapshot: the snapshot replaces a database that has *)
(* folded fewer commits, cursors included.                                   *)
ShouldAdopt(i) ==
  /\ snapshot.exists
  /\ ~db[i].exists \/ Cardinality(snapshot.commits) > Cardinality(db[i].commits)

Opened(d) == [d EXCEPT !.exists = TRUE]

(* A lost guard is released; with none the lease is taken if it is free, and *)
(* a peer's newer snapshot adopted unless fetching it fails.                 *)
Acquire(i) ==
  /\ pass[i].pc = "idle" /\ guard[i] # "held" /\ lease = Nobody
  /\ lease' = i /\ guard' = [guard EXCEPT ![i] = "held"]
  /\ \E fetched \in BOOLEAN :
       /\ fetched \/ budget > 0
       /\ budget' = IF fetched THEN budget ELSE budget - 1
       /\ LET adopts == fetched /\ ShouldAdopt(i)
          IN /\ Put(i, Opened(IF adopts THEN snapshot ELSE db[i]))
             /\ changes' = [changes EXCEPT ![i] = ~adopts]
  /\ overtaken' = FALSE
  /\ To(i, [IdlePass EXCEPT !.pc = "list"])
  /\ UNCHANGED <<sources, bucket, snapshot, late>>

ReleaseLost(i) ==
  /\ pass[i].pc = "idle" /\ guard[i] = "lost" /\ lease # Nobody
  /\ guard' = [guard EXCEPT ![i] = "none"]
  /\ UNCHANGED <<sources, bucket, lease, db, pass, changes, upload, budget>>

StartPass(i) ==
  /\ pass[i].pc = "idle" /\ Fenced(i)
  /\ To(i, [IdlePass EXCEPT !.pc = "list"])
  /\ UNCHANGED <<sources, bucket, leases, db, changes, upload, budget>>

(* fold_occurrence_page: list after the cursor, keep the markers not folded. *)
ListCommits(i) ==
  /\ pass[i].pc = "list"
  /\ \E l \in {ListPage(db[i].listed)} :
       To(i, [pass[i] EXCEPT !.pc = "fold",
                !.page = Sorted({k \div 2 : k \in {x \in l.keys : IsMarker(x)}} \ db[i].commits),
                !.last = IF l.keys = {} THEN 0 ELSE Max(l.keys),
                !.wrap = l.exhausted /\ db[i].listed # 0])
  /\ UNCHANGED <<sources, bucket, leases, db, changes, upload, budget>>

FoldNext(i) ==
  /\ pass[i].pc = "fold" /\ pass[i].page # <<>> /\ Fenced(i)
  /\ Put(i, FoldCommitted(db[i], Head(pass[i].page)))
  /\ To(i, [pass[i] EXCEPT !.page = Tail(@), !.dirty = TRUE])
  /\ UNCHANGED <<sources, bucket, leases, changes, upload, budget>>

NextListed(d, p) ==
  IF p.wrap THEN 0 ELSE IF p.last # 0 THEN p.last ELSE d.listed

(* The page is done: move the cursor, then pick the source blocks.           *)
SelectSources(i) ==
  /\ pass[i].pc = "fold" /\ pass[i].page = <<>>
  /\ Put(i, [db[i] EXCEPT !.listed = NextListed(db[i], pass[i])])
  /\ \E page \in {SourcePage(db[i].source)} :
        To(i, [pass[i] EXCEPT !.pc = IF page = <<>> THEN "group" ELSE "block",
                              !.blocks = page])
  /\ UNCHANGED <<sources, bucket, leases, changes, upload, budget>>

(* A block is finished, processed or not: the source cursor moves past it.   *)
NextBlock(i, d, folded) ==
  /\ Put(i, [d EXCEPT !.source = Head(pass[i].blocks)])
  /\ To(i, [pass[i] EXCEPT !.pc = IF Len(pass[i].blocks) = 1 THEN "group" ELSE "block",
                           !.blocks = Tail(@), !.dirty = @ \/ folded])

(* A covered block is skipped; one that is too large, unreadable or gone is  *)
(* quarantined until the cursor comes round again.                           *)
NothingToDo(i) ==
  LET b == Head(pass[i].blocks)
  IN b \in db[i].commits \cup Poison \/ b \notin markers \cup objects

PassOver(i) ==
  /\ pass[i].pc = "block" /\ NothingToDo(i)
  /\ NextBlock(i, db[i], FALSE)
  /\ UNCHANGED <<sources, bucket, leases, changes, upload, budget>>

(* Already published, by a pass whose fold was lost or by a peer.            *)
FoldPublished(i) ==
  /\ pass[i].pc = "block" /\ Fenced(i)
  /\ LET b == Head(pass[i].blocks)
     IN /\ b \in markers \ (db[i].commits \cup Poison)
        /\ NextBlock(i, FoldCommitted(db[i], b), TRUE)
  /\ UNCHANGED <<sources, bucket, leases, changes, upload, budget>>

ReadSource(i) ==
  /\ pass[i].pc = "block" /\ Fenced(i)
  /\ Head(pass[i].blocks) \in objects \ (db[i].commits \cup Poison \cup markers)
  /\ To(i, [pass[i] EXCEPT !.pc = "data"])
  /\ UNCHANGED <<sources, bucket, leases, db, changes, upload, budget>>

(* Create-or-verify of each object: an existing one has the same bytes.      *)
PutData(i) ==
  /\ pass[i].pc = "data"
  /\ data' = data \cup {Head(pass[i].blocks)}
  /\ To(i, [pass[i] EXCEPT !.pc = "marker"])
  /\ UNCHANGED <<sources, markers, leases, db, changes, upload, budget>>

(* Variant: the marker does not wait for the data object.                    *)
PutMarkerEarly(i) ==
  /\ pass[i].pc \in {"data", "marker"}
  /\ markers' = markers \cup {Head(pass[i].blocks)}
  /\ To(i, [pass[i] EXCEPT !.pc = "verify"])
  /\ UNCHANGED <<sources, data, leases, db, changes, upload, budget>>

PutMarker(i) ==
  /\ pass[i].pc = "marker"
  /\ markers' = markers \cup {Head(pass[i].blocks)}
  /\ To(i, [pass[i] EXCEPT !.pc = "verify"])
  /\ UNCHANGED <<sources, data, leases, db, changes, upload, budget>>

ReadBackAndFold(i) ==
  /\ pass[i].pc = "verify" /\ Fenced(i)
  /\ NextBlock(i, FoldCommitted(db[i], Head(pass[i].blocks)), TRUE)
  /\ UNCHANGED <<sources, bucket, leases, changes, upload, budget>>

(* group_backlog: page by page until drained or out of budget.               *)
GroupPage(i) ==
  /\ pass[i].pc = "group" /\ Fenced(i)
  /\ \E d \in {GroupPageOf(db[i])} :
        /\ Put(i, d)
        /\ \E pc \in IF Drained(d) THEN {"snap"} ELSE {"group", "snap"} :
             To(i, [pass[i] EXCEPT !.pc = pc,
                                   !.dirty = @ \/ d.grouped > db[i].grouped])
  /\ UNCHANGED <<sources, bucket, leases, changes, upload, budget>>

(* The pass succeeded.  A snapshot is due once its interval has elapsed and  *)
(* there are changes: copy the database, check the fence, start the upload.  *)
Changed(i) == changes[i] \/ pass[i].dirty

EndPass(i) ==
  /\ pass[i].pc = "snap"
  /\ changes' = [changes EXCEPT ![i] = Changed(i)]
  /\ To(i, IdlePass)
  /\ UNCHANGED <<sources, bucket, leases, db, upload, budget>>

SaveSnapshot(i) ==
  /\ pass[i].pc = "snap" /\ Changed(i) /\ Fenced(i)
  /\ changes' = [changes EXCEPT ![i] = TRUE]
  /\ To(i, [IdlePass EXCEPT !.pc = "upload"])
  /\ UNCHANGED <<sources, bucket, leases, db, upload, budget>>

UploadLands(i) ==
  /\ pass[i].pc = "upload"
  /\ snapshot' = db[i] /\ overtaken' = (guard[i] = "lost" /\ lease # Nobody)
  /\ changes' = [changes EXCEPT ![i] = FALSE]
  /\ To(i, IdlePass)
  /\ UNCHANGED <<sources, bucket, leases, db, late, budget>>

UploadFails(i) ==
  /\ budget > 0 /\ budget' = budget - 1
  /\ pass[i].pc = "upload"
  /\ late' = db[i]
  /\ To(i, IdlePass)
  /\ UNCHANGED <<sources, bucket, leases, db, changes, snapshot, overtaken>>

Working == {"list", "fold", "block", "data", "marker", "verify", "group"}

(* An unavailable store or a failing database ends the pass.                 *)
PassFails(i) ==
  /\ budget > 0 /\ budget' = budget - 1
  /\ pass[i].pc \in Working
  /\ To(i, IdlePass)
  /\ UNCHANGED <<sources, bucket, leases, db, changes, upload>>

(* A fenced step whose check fails rolls back and ends the pass.             *)
FenceStops(i) ==
  /\ guard[i] = "lost"
  /\ \/ pass[i].pc \in {"verify", "group"}
     \/ pass[i].pc = "fold" /\ pass[i].page # <<>>
     \/ pass[i].pc = "block" /\ ~NothingToDo(i)
  /\ To(i, IdlePass)
  /\ UNCHANGED <<sources, bucket, leases, db, changes, upload, budget>>

-----------------------------------------------------------------------------

PassRuns(i) ==
  \/ Acquire(i) \/ ReleaseLost(i) \/ StartPass(i)
  \/ ListCommits(i) \/ FoldNext(i) \/ SelectSources(i)
  \/ PassOver(i) \/ FoldPublished(i) \/ ReadSource(i)
  \/ PutData(i) \/ PutMarker(i) \/ ReadBackAndFold(i)
  \/ GroupPage(i) \/ EndPass(i) \/ SaveSnapshot(i) \/ UploadLands(i)
  \/ FenceStops(i)

Next ==
  \/ Appear \/ Expire \/ ExpireLease \/ LateLands
  \/ \E i \in Inst :
       \/ PassRuns(i)
       \/ LoseLease(i) \/ Crash(i) \/ PassFails(i) \/ UploadFails(i)

Spec == Init /\ [][Next]_vars

(* The worker loop calls pass() forever; a dead holder's lease expires; the  *)
(* snapshot interval elapses between uploads, so that a worker with changes  *)
(* cannot end every pass too early for one.                                  *)
FairSpec ==
  /\ Spec
  /\ WF_vars(ExpireLease)
  /\ \A i \in Inst : WF_vars(PassRuns(i)) /\ SF_vars(SaveSnapshot(i))

-----------------------------------------------------------------------------
(* Properties.                                                               *)

Databases == {db[i] : i \in Inst} \cup {snapshot, late}

FoldedRows(d)  == Range(d.occ)
GroupedRows(d) == Range(SubSeq(d.occ, 1, d.grouped))

(* However often blocks are re-extracted, compacted, re-folded after a lost  *)
(* disk or taken over from a peer's snapshot, each database, local or        *)
(* uploaded, holds one occurrence per event and its issues count each of     *)
(* them exactly once; a row that lost to another body is kept as a collision *)
(* and one that cannot be fingerprinted as a failure (fold_committed,        *)
(* fold_row, group_page, upsert_issue).                                      *)
CountedOnce ==
  \A d \in Databases :
    /\ Cardinality(Events(FoldedRows(d))) = Len(d.occ)
    /\ (UNION {Range(RowsOf[b]) : b \in d.commits}) = FoldedRows(d) \cup d.collided
    /\ d.failed = {r \in GroupedRows(d) : r.issue = Unreadable}
    /\ \A s \in Issue : d.issues[s] = Summary({r \in GroupedRows(d) : r.issue = s})

(* A commit marker is visible only over its data, and no database has folded *)
(* a projection the bucket does not hold, so a lost database can always be   *)
(* rebuilt (publish_occurrence_projection, process_block).                   *)
Rebuildable ==
  /\ markers \subseteq data
  /\ \A d \in Databases : d.commits \subseteq markers

(* Every event of a published projection, or of a live log block that can be *)
(* processed, is in the end counted in the snapshot readers serve, or        *)
(* recorded there as a failure, whatever was lost, superseded or adopted on  *)
(* the way and although a block that cannot be processed sits among the      *)
(* others.  A row that lost to another body is not promised: the pass that   *)
(* folds only such rows and then fails forgets that it changed anything.     *)
(* The exception is an upload that lands late under a holder with nothing    *)
(* new to upload.                                                            *)
EventuallyServed ==
  <>[](\/ overtaken
       \/ \A b \in markers \cup (live \ Poison) :
            Events(Range(RowsOf[b])) \subseteq Events(GroupedRows(snapshot)))
=============================================================================
