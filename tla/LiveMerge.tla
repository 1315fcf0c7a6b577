----------------------------- MODULE LiveMerge ------------------------------
(***************************************************************************)
(* The merged history + live logs query over one ingest shard.  The        *)
(* handler pushes an ingested batch, stamped with its WAL segment, to the  *)
(* live ring (live_ring.rs).  Compaction merges the shard's blocks, also   *)
(* with those of other writers, and deletes what it merged; retention      *)
(* deletes blocks that are too old.  A query node learns of all this in    *)
(* any order: it keeps a row per block it was told of and a watermark of   *)
(* the WAL segments those blocks cover (catalog insert_block), which a     *)
(* merged block does not carry.  A query unions the live rows of one       *)
(* catalog snapshot with the ring records above that snapshot's watermark  *)
(* (query_service.rs fetch_live_logs).                                     *)
(***************************************************************************)
EXTENDS IngestPipeline, Sequences

CONSTANT MaxEvents \* bound: crashes, merges and retirements together

ASSUME LiveConstants == MaxEvents \in Nat

VARIABLES
    tag,      \* SegmentId ingest_decoded returned for each frame
    ring,     \* the ingester's live ring, oldest push first
    merged,   \* the committed output blocks of compactions
    retired,  \* ids of blocks staged by retention
    gone,     \* ids of blocks whose objects were deleted
    seen,     \* ids with a row in the query node's catalog
    hid,      \* those of them that are superseded or soft-deleted
    known,    \* history: ids that ever had a row there
    seenHw,   \* the query node's watermark for this (writer, shard)
    query     \* the running merged query

storeVars == <<merged, retired, gone>>
nodeVars  == <<seen, hid, known, seenHw>>
liveVars  == <<tag, ring, storeVars, nodeVars, query>>
allVars   == <<vars, liveVars>>

Idle == [on |-> FALSE]

\* Every block that was ever committed.  One that the ingester wrote is at
\* level 0 and was merged from nothing.
Committed  == bucket \cup merged
AllIds     == {b.id : b \in Committed}
LevelOf(b) == IF b \in merged THEN b.level ELSE 0
FromOf(b)  == IF b \in merged THEN b.from ELSE {}

\* compacted_from lists all ancestors: b is an input of some merge.
Replaced(b) == \E m \in merged : b.id \in m.from

FramesOf(ids) == UNION {b.frames : b \in {c \in Committed : c.id \in ids}}

\* Mutant: the watermark is read as the segment that is open.
IsDurableNext(f, h) == h # NoSeg /\ tag[f] <= h + 1

\* live_record_is_durable: None keeps everything, Some(h) drops seg <= h.
IsDurable(f, h) == h # NoSeg /\ tag[f] <= h

Live == {ring[i] : i \in DOMAIN ring}

MoreEvents == crashes + Cardinality(merged) + Cardinality(retired) < MaxEvents

LiveInit ==
    /\ Init
    /\ tag = [f \in Frame |-> 0] /\ ring = <<>>
    /\ merged = {} /\ retired = {} /\ gone = {}
    /\ seen = {} /\ hid = {} /\ known = {} /\ seenHw = NoSeg
    /\ query = Idle
-----------------------------------------------------------------------------
(* The ingester.                                                           *)

\* ingest_decoded reads current_segment() under the WAL lock before append().
IngestTagged ==
    /\ IngestFrame
    /\ tag' = [tag EXCEPT ![next] = cur]
    /\ UNCHANGED <<ring, storeVars, nodeVars, query>>

\* With the mutex dropped: push_stamped, which evicts from the front by age
\* and by size, then the BatchAck.  Without a push nothing is evicted.
PushAndAck ==
    \E f \in replying :
        /\ Ack(f)
        /\ LET pushed == Append(ring, f)
           IN  \E n \in 0..Len(pushed) : ring' = SubSeq(pushed, n + 1, Len(pushed))
        /\ UNCHANGED <<tag, storeVars, nodeVars, query>>

ProcessDies ==
    /\ Crash /\ MoreEvents
    /\ ring' = <<>>
    /\ UNCHANGED <<tag, storeVars, nodeVars, query>>

OtherStep ==
    /\ \/ Startup \/ OpenFails \/ IngestBoundary \/ AppendFails
       \/ FlushIfAged \/ Flush \/ FlushJoined \/ SpawnUpload \/ SpawnFails
       \/ \E u \in uploads : UploadTask(u) \/ UploadFails(u)
    /\ UNCHANGED liveVars
-----------------------------------------------------------------------------
(* The maintainers (module Maintenance), as the query node may see them.   *)

\* merge_blocks commits an output: blocks of one level of this shard, and of
\* other shards that do not matter here.  wal_seg_max is None.
Compact(S) ==
    /\ MoreEvents
    /\ S # {} /\ \A b \in S : ~Replaced(b) /\ b.id \notin gone
    /\ \A b, c \in S : LevelOf(b) = LevelOf(c)
    /\ LET from == UNION {{b.id} \cup FromOf(b) : b \in S}
       IN  merged' = merged \cup {[id |-> [kind |-> "merged", key |-> from], from |-> from,
                                   frames |-> UNION {b.frames : b \in S}, seg |-> NoSeg,
                                   level |-> 1 + LevelOf(CHOOSE b \in S : TRUE)]}
    /\ UNCHANGED <<vars, tag, ring, retired, gone, nodeVars, query>>

\* retain_planned stages a block whose newest record is past its TTL.
Retire(b) ==
    /\ MoreEvents
    /\ ~Replaced(b) /\ b.id \notin retired
    /\ retired' = retired \cup {b.id}
    /\ UNCHANGED <<vars, tag, ring, merged, gone, nodeVars, query>>

\* reap_pending, reap_pending_deletions: the objects of a replaced or staged
\* block are deleted.  A recovery that PUTs such a block again leaves its id
\* in `gone`: its records are replayed ones, which no ring holds.
Reap(b) ==
    /\ b.id \notin gone
    /\ Replaced(b) \/ b.id \in retired
    /\ gone' = gone \cup {b.id}
    /\ UNCHANGED <<vars, tag, ring, merged, retired, nodeVars, query>>
-----------------------------------------------------------------------------
(* The query node.                                                         *)

\* A row inserted after a live row of one of its descendants is born hidden.
BornHidden(b) ==
    b.id \notin seen /\ \E m \in merged : m.id \in seen \ hid /\ b.id \in m.from

\* Mutant: the watermark is overwritten, and exclusive.
LearnBlockExclusive(b) ==
    /\ seen' = seen \cup {b.id} /\ known' = known \cup {b.id}
    /\ hid' = (hid \cup (FromOf(b) \cap seen)) \cup (IF BornHidden(b) THEN {b.id} ELSE {})
    /\ seenHw' = b.seg - 1
    /\ UNCHANGED <<vars, tag, ring, storeVars, query>>

\* insert_block, in one transaction: the row, the watermark if the block
\* carries one, and the lineage, which hides every ancestor that has a row.
\* A poll, a walk or a repair brings a block that is in the bucket; a Created
\* or Superseded event carries the sidecar, and may arrive again, or when the
\* objects are gone.
LearnBlock(b) ==
    /\ seen' = seen \cup {b.id} /\ known' = known \cup {b.id}
    /\ hid' = (hid \cup (FromOf(b) \cap seen)) \cup (IF BornHidden(b) THEN {b.id} ELSE {})
    /\ seenHw' = IF b.seg > seenHw THEN b.seg ELSE seenHw
    /\ UNCHANGED <<vars, tag, ring, storeVars, query>>

\* adopt_peer_deletion, from a SoftDeleted event or the registry.
HideRow(b) ==
    /\ b.id \in retired \cap seen
    /\ hid' = hid \cup {b.id}
    /\ UNCHANGED <<vars, tag, ring, storeVars, seen, known, seenHw, query>>

\* Mutant: the watermark is recomputed from the rows that are left.
ForgetRowAndMark(b) ==
    /\ b.id \in gone \cap seen
    /\ seen' = seen \ {b.id} /\ hid' = hid \ {b.id}
    /\ LET left == {NoSeg} \cup {c.seg : c \in {d \in Committed : d.id \in seen'}}
       IN  seenHw' = CHOOSE s \in left : \A t \in left : t <= s
    /\ UNCHANGED <<vars, tag, ring, storeVars, known, query>>

\* delete_blocks: a Deleted event, or a query that met the missing objects
\* and repaired its catalog, by inserting what it found in the partition
\* (LearnBlock) and dropping the row.  The watermark stays.
ForgetRow(b) ==
    /\ b.id \in gone \cap seen
    /\ seen' = seen \ {b.id} /\ hid' = hid \ {b.id}
    /\ UNCHANGED <<vars, tag, ring, storeVars, known, seenHw, query>>

\* list_candidates_and_watermarks: both under one catalog lock.
QuerySnapshot ==
    /\ query = Idle
    /\ query' = [on |-> TRUE, ids |-> seen \ hid, known |-> known, hw |-> seenHw]
    /\ UNCHANGED <<vars, tag, ring, storeVars, nodeVars>>

\* The LiveQuery reply: the ring as it is now, filtered by the snapshot.  A
\* query whose scan then meets a missing object starts over.
QueryLive ==
    /\ query.on
    /\ query' = Idle
    /\ UNCHANGED <<vars, tag, ring, storeVars, nodeVars>>

LiveNext ==
    \/ IngestTagged \/ PushAndAck \/ ProcessDies \/ OtherStep
    \/ \E S \in SUBSET Committed : Compact(S)
    \/ \E b \in Committed : Retire(b) \/ Reap(b)
    \/ \E b \in Committed : LearnBlock(b) \/ HideRow(b) \/ ForgetRow(b)
    \/ QuerySnapshot \/ QueryLive

LiveSpec == LiveInit /\ [][LiveNext]_allVars
-----------------------------------------------------------------------------
(* Properties.  The ring is read some time after the snapshot, so they are *)
(* stated of the ring in every state in which a query runs.                *)

\* Type correctness of the ring, the stamps, the blocks and the query node's
\* rows and watermark.
LiveTypeOK ==
    /\ TypeOK
    /\ tag \in [Frame -> Nat] /\ Live \subseteq Frame
    /\ \A m \in merged : m.frames \subseteq Frame /\ m.seg = NoSeg
    /\ retired \subseteq AllIds /\ gone \subseteq AllIds /\ known \subseteq AllIds
    /\ seen \subseteq known /\ hid \subseteq seen
    /\ seenHw \in Nat \cup {NoSeg}

\* A record is returned by both halves of a merged query only if the query
\* node lists it through a merged block and was never told of the block the
\* ingester wrote: once it has inserted that one, no merge, deletion, repeated
\* or late event, crash, or commit between the snapshot and the ring read can
\* bring the record back into the live half (query_service.rs 1104-1107,
\* 3638-3642; the watermark outlives the row, catalog 1768-1785).
NoDoubleOnceKnown ==
    query.on => \A f \in Live \cap FramesOf(query.ids) :
        \/ IsDurable(f, query.hw)
        \/ \A b \in bucket : f \in b.frames => b.id \notin query.known

\* decisions.md 2693: "Coverage is disjoint at the watermark => no gap, no
\* double".  A record acknowledged before the query and still in the ring is
\* returned by one of the halves.
NoGap ==
    query.on => \A f \in Live :
                    f \in FramesOf(query.ids) \/ ~IsDurable(f, query.hw)

\* The ways to such a gap.  The block that carries the snapshot's watermark
\* overtook the record's own block on its way to the query node: it was sealed
\* later, so all its records are newer (pipeline.rs 824-831, catalog
\* 1768-1785).  Or the node was told of the record's own block and of its
\* deletion, and not yet of a merge that replaced it.  Or retention has
\* staged the record.
GapExplained ==
    query.on => \A f \in Live :
        \/ f \in FramesOf(query.ids) \/ ~IsDurable(f, query.hw)
        \/ \E b \in bucket : /\ b.seg = query.hw /\ b.id \in query.known
                             /\ \A g \in b.frames : f < g
        \/ \E b \in bucket, m \in merged : /\ f \in b.frames /\ b.id \in query.known
                                          /\ b.id \in m.from /\ m.id \notin query.known
        \/ f \in FramesOf(retired)
=============================================================================
