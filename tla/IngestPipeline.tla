--------------------------- MODULE IngestPipeline ---------------------------
(***************************************************************************)
(* One shard of one signal's ingest pipeline (crates/server/src/           *)
(* pipeline.rs): the connection handlers append a batch to the WAL and     *)
(* merge it into the open block, a full or aged block is handed to a       *)
(* background upload, a finished upload releases the WAL segments that fed *)
(* it, and a restart replays what the WAL still holds.                     *)
(*                                                                         *)
(* `pc' is where the holder of the pipeline mutex is (or, before the       *)
(* listener starts, where open_with_config_and_shard is).  Upload tasks    *)
(* run beside it and never take that mutex.                                *)
(***************************************************************************)
EXTENDS Wal, Integers

CONSTANTS
    NewSchema,      \* frames decoded to the second content schema
    MaxBlockFrames, \* BlockBuilder::should_close, counted in frames
    MaxInflight,    \* MAX_INFLIGHT_UPLOADS
    MaxCrashes,     \* bound: process deaths
    MaxFaults       \* bound: failing I/O operations

ASSUME PipelineConstants ==
    /\ NewSchema \subseteq Nat
    /\ MaxBlockFrames \in Nat \ {0}
    /\ MaxInflight \in Nat \ {0}
    /\ MaxCrashes \in Nat /\ MaxFaults \in Nat

VARIABLES
    pc,        \* control point of the mutex holder or of the opening process
    builder,   \* frames merged into the open block
    low,       \* Pipeline::block_low_seg
    uploads,   \* running run_upload tasks
    todo,      \* frames ReplayIter has not yielded yet
    hashed,    \* frames folded into recovery_hash so far
    bucket,    \* blocks whose meta.json is in the object store
    rows,      \* block ids in this instance's catalog
    hw,        \* catalog watermark of this WAL, NoSeg when there is none
    replying,  \* frames ingested with Ok whose BatchAck is not sent yet
    acked,     \* frames answered ACK_ACCEPTED
    lost,      \* history: frames a crash cut off the unsealed segment
    crashes, faults

pipeVars == <<pc, builder, low, uploads, todo, hashed, bucket, rows, hw,
              replying, acked, lost, crashes, faults>>
vars == <<walVars, pipeVars>>

NoSeg == -1

Opening  == {"replay", "put", "insert", "release", "serve"}
Waiting  == {"boundary", "close", "age", "flush"}  \* spawn_upload's callers
Serving  == {"free", "append", "join"} \cup Waiting

\* Mutant: a digest that only depends on how much was replayed.
RecoveryIdBySize(prefix) == [kind |-> "recovery", key |-> 1..Cardinality(prefix)]

\* A block's uuid.  A live block has a fresh random one, which the segment
\* it sealed stands for; a recovery block's is a digest of the replayed
\* prefix (recovery_block_uuid).
LiveId(sealed)     == [kind |-> "live", key |-> sealed]
RecoveryId(prefix) == [kind |-> "recovery", key |-> prefix]

Upload == [low : Nat, sealed : Nat, frames : SUBSET Frame,
           step : {"put", "release", "insert"}]

Stored == UNION {b.frames : b \in bucket}

\* A block PUT: paths are unique to the uuid, so the same uuid overwrites.
Put(id, fs, seg) ==
    bucket' = {b \in bucket : b.id # id}
                \cup {[id |-> id, frames |-> fs, seg |-> seg]}

ShouldClose(fs) == Cardinality(fs) >= MaxBlockFrames

\* Mutant: frames of any schema are merged.
NoBoundary(fs, f) == FALSE

\* content_schema_key of a non-empty builder differs from the new frame's.
SchemaBoundary(fs, f) ==
    \E g \in fs : (g \in NewSchema) # (f \in NewSchema)

\* Mutant: the active segment is stamped instead of the sealed one.
AdvanceToActive(seg) == hw' = IF seg + 1 > hw THEN seg + 1 ELSE hw

\* Mutant: the watermark is overwritten, and exclusive.
AdvanceExclusive(seg) == hw' = seg - 1

\* advance_watermark_in: MAX(old, new).
Advance(seg) == hw' = IF seg > hw THEN seg ELSE hw

Fault == faults < MaxFaults /\ faults' = faults + 1
NoFault == UNCHANGED faults

\* Wal::rotate returned Err, leaving current_bytes at b.
RotateErr(b) ==
    \/ RotateRefused(b) /\ NoFault
    \/ RotateFailsEarly(b) /\ Fault
    \/ RotateFailsSync(b) /\ Fault
-----------------------------------------------------------------------------
Init ==
    /\ WalInit
    /\ pc = "down" /\ builder = {} /\ low = 0 /\ uploads = {}
    /\ todo = {} /\ hashed = {}
    /\ bucket = {} /\ rows = {} /\ hw = NoSeg
    /\ replying = {} /\ acked = {} /\ lost = {}
    /\ crashes = 0 /\ faults = 0
-----------------------------------------------------------------------------
(* Startup: Wal::open, then the replay loop of open_with_config_and_shard. *)

Open ==
    /\ pc = "down"
    /\ WalOpen
    /\ todo' = Readable(cur')
    /\ hashed' = {}
    /\ pc' = "replay"
    /\ UNCHANGED <<builder, low, uploads, bucket, rows, hw, replying, acked,
                   lost, crashes, faults>>

\* One frame from ReplayIter.  A schema boundary uploads the block before the
\* frame is merged and hashed; a full block is uploaded after it.
ReplayFrame ==
    /\ pc = "replay"
    /\ \E f \in todo :
        /\ \A g \in todo : f <= g
        /\ IF SchemaBoundary(builder, f)
           THEN /\ pc' = "put"
                /\ UNCHANGED <<builder, todo, hashed>>
           ELSE /\ builder' = builder \cup {f}
                /\ todo' = todo \ {f}
                /\ hashed' = hashed \cup {f}
                /\ pc' = IF ShouldClose(builder') THEN "put" ELSE "replay"
    /\ UNCHANGED <<walVars, low, uploads, bucket, rows, hw, replying, acked,
                   lost, crashes, faults>>

\* Mutant: the block that is open when the loop ends is not uploaded.
ReplayEndDropsRest ==
    /\ pc = "replay" /\ todo = {}
    /\ pc' = IF cur = 0 THEN "serve" ELSE "release"
    /\ builder' = {}
    /\ UNCHANGED <<walVars, low, uploads, todo, hashed, bucket, rows, hw,
                   replying, acked, lost, crashes, faults>>

\* The loop is over: upload the remainder, or go on to the release.  A WAL
\* that was empty has no replay_high and nothing to release.
ReplayEnd ==
    /\ pc = "replay" /\ todo = {}
    /\ pc' = IF builder # {} THEN "put" ELSE IF cur = 0 THEN "serve" ELSE "release"
    /\ UNCHANGED <<walVars, builder, low, uploads, todo, hashed, bucket, rows,
                   hw, replying, acked, lost, crashes, faults>>

\* Only the last block of the replay carries wal_seg_max.
RecoverySeg == IF todo = {} /\ ~ShouldClose(builder) THEN cur - 1 ELSE NoSeg

\* upload_replay_block, up to the commit of meta.json.
RecoveryPut ==
    /\ pc = "put"
    /\ Put(RecoveryId(hashed), builder, RecoverySeg)
    /\ builder' = {}
    /\ pc' = "insert"
    /\ UNCHANGED <<walVars, low, uploads, todo, hashed, rows, hw, replying,
                   acked, lost, crashes, faults>>

\* The rest of upload_replay_block: a catalog error is only logged.
RecoveryInsert ==
    /\ pc = "insert"
    /\ \/ /\ rows' = rows \cup {RecoveryId(hashed)}
          /\ \E b \in bucket : b.id = RecoveryId(hashed) /\ Advance(b.seg)
          /\ NoFault
       \/ Fault /\ UNCHANGED <<rows, hw>>
    /\ pc' = "replay"
    /\ UNCHANGED <<walVars, builder, low, uploads, todo, hashed, bucket,
                   replying, acked, lost, crashes>>

\* A read, PUT or unlink error during startup fails open(): the process
\* exits and leaves the WAL as it is.  The failed PUT may have been applied.
OpenFails ==
    /\ pc \in {"replay", "put", "release"}
    /\ Fault
    /\ \/ UNCHANGED bucket
       \/ pc = "put" /\ Put(RecoveryId(hashed), builder, RecoverySeg)
    /\ pc' = "down" /\ builder' = {} /\ todo' = {} /\ hashed' = {}
    /\ UNCHANGED <<walVars, low, uploads, rows, hw, replying, acked, lost,
                   crashes>>

\* release_segments(0, replay_high), file by file in directory order.
RecoveryRelease ==
    /\ pc = "release"
    /\ \E s \in segs : MayRelease(s) /\ Unlink(s)
    /\ UNCHANGED pipeVars

RecoveryReleased ==
    /\ pc = "release"
    /\ ~\E s \in segs : MayRelease(s)
    /\ \/ Advance(cur - 1) /\ NoFault
       \/ Fault /\ UNCHANGED hw
    /\ pc' = "serve"
    /\ UNCHANGED <<walVars, builder, low, uploads, todo, hashed, bucket, rows,
                   replying, acked, lost, crashes>>

Serve ==
    /\ pc = "serve"
    /\ pc' = "free"
    /\ low' = cur
    /\ UNCHANGED <<walVars, builder, uploads, todo, hashed, bucket, rows, hw,
                   replying, acked, lost, crashes, faults>>
-----------------------------------------------------------------------------
(* Ingest: ingest_decoded, with the pipeline mutex held from pc = "free"   *)
(* back to pc = "free".                                                    *)

\* A different schema: the open block goes out before the frame comes in.
IngestBoundary ==
    /\ pc = "free" /\ next <= MaxFrames
    /\ SchemaBoundary(builder, next)
    /\ pc' = "boundary"
    /\ UNCHANGED <<walVars, builder, low, uploads, todo, hashed, bucket, rows,
                   hw, replying, acked, lost, crashes, faults>>

AtAppend ==
    /\ next <= MaxFrames
    /\ pc = "append" \/ (pc = "free" /\ ~SchemaBoundary(builder, next))

\* append() returns Ok, with its own rotation once the segment is full; the
\* batch is merged and either fills the block or is about to be acked.
IngestFrame ==
    /\ AtAppend
    /\ WriteFrame
    /\ IF bytes + 1 >= MaxSegFrames
       THEN RotateOk
       ELSE bytes' = bytes + 1 /\ UNCHANGED <<segs, cur, wseq, torn>>
    /\ builder' = builder \cup {next}
    /\ IF ShouldClose(builder')
       THEN pc' = "close" /\ UNCHANGED replying
       ELSE pc' = "free" /\ replying' = replying \cup {next}
    /\ UNCHANGED <<low, uploads, todo, hashed, bucket, rows, hw, acked, lost,
                   crashes, faults>>

\* append() returns Err: nothing was written, some of the frame was, or all of
\* it was and the rotation failed.  The batch is not merged and is nacked.
AppendFails ==
    /\ AtAppend
    /\ \/ NoWrite /\ Tear /\ UNCHANGED <<segs, cur, wseq, bytes>> /\ Fault
       \/ WriteFrame /\ Tear /\ UNCHANGED <<segs, cur, wseq, bytes>> /\ Fault
       \/ WriteFrame /\ bytes + 1 >= MaxSegFrames /\ RotateErr(bytes + 1)
    /\ pc' = "free"
    /\ UNCHANGED <<builder, low, uploads, todo, hashed, bucket, rows, hw,
                   replying, acked, lost, crashes>>

\* BatchAck: ACK_ACCEPTED, sent after the mutex was dropped.
Ack(f) ==
    /\ f \in replying
    /\ replying' = replying \ {f}
    /\ acked' = acked \cup {f}
    /\ UNCHANGED <<walVars, pc, builder, low, uploads, todo, hashed, bucket,
                   rows, hw, lost, crashes, faults>>

\* Mutant: a block of a single batch never ages.
FlushIfAgedLarge ==
    /\ pc = "free" /\ Cardinality(builder) > 1
    /\ pc' = "age"
    /\ UNCHANGED <<walVars, builder, low, uploads, todo, hashed, bucket, rows,
                   hw, replying, acked, lost, crashes, faults>>

\* The age flusher and the shutdown flush find a non-empty block.
FlushIfAged ==
    /\ pc = "free" /\ builder # {}
    /\ pc' = "age"
    /\ UNCHANGED <<walVars, builder, low, uploads, todo, hashed, bucket, rows,
                   hw, replying, acked, lost, crashes, faults>>

Flush ==
    /\ pc = "free"
    /\ pc' = IF builder = {} THEN "join" ELSE "flush"
    /\ UNCHANGED <<walVars, builder, low, uploads, todo, hashed, bucket, rows,
                   hw, replying, acked, lost, crashes, faults>>

\* flush() joins every upload task, still holding the mutex.
FlushJoined ==
    /\ pc = "join" /\ uploads = {}
    /\ pc' = "free"
    /\ UNCHANGED <<walVars, builder, low, uploads, todo, hashed, bucket, rows,
                   hw, replying, acked, lost, crashes, faults>>
-----------------------------------------------------------------------------
(* spawn_upload, from the callers that wait in it for an upload permit.    *)

\* Mutant: one permit is never given out.
PermitFreeOffByOne == Cardinality(uploads) + 1 < MaxInflight

PermitFree == Cardinality(uploads) < MaxInflight

\* Where each caller goes on when spawn_upload returned Ok.
AfterSpawn == CASE pc = "boundary" -> "append"
                [] pc = "flush"    -> "join"
                [] OTHER           -> "free"

\* Mutant: the next block starts at the segment that was just sealed.
NextLowSealed == cur

\* block_low_seg of the next block: the segment after the sealed one.
NextLow == cur + 1

\* The WAL rotates and the block that goes out owns exactly [low, sealed].
SpawnUpload ==
    /\ pc \in Waiting /\ PermitFree
    /\ NoWrite /\ RotateOk
    /\ uploads' = uploads \cup {[low |-> low, sealed |-> cur,
                                 frames |-> builder, step |-> "put"]}
    /\ low' = NextLow
    /\ builder' = {}
    /\ pc' = AfterSpawn
    /\ replying' = IF pc = "close" THEN replying \cup {next - 1} ELSE replying
    /\ UNCHANGED <<todo, hashed, bucket, rows, hw, acked, lost, crashes,
                   faults>>

\* rotate() failed: the permit is dropped, the block stays open, and a batch
\* that was already appended and merged is nacked.
SpawnFails ==
    /\ pc \in Waiting /\ PermitFree
    /\ NoWrite /\ RotateErr(bytes)
    /\ pc' = "free"
    /\ UNCHANGED <<builder, low, uploads, todo, hashed, bucket, rows, hw,
                   replying, acked, lost, crashes>>
-----------------------------------------------------------------------------
(* run_upload, one task per block that left the builder.                   *)

Step(u, step) == uploads' = (uploads \ {u}) \cup {[u EXCEPT !.step = step]}

\* finish_and_upload: meta.json is the last PUT and commits the block.
UploadPut(u) ==
    /\ u \in uploads /\ u.step = "put"
    /\ Put(LiveId(u.sealed), u.frames, u.sealed)
    /\ Step(u, IF MayRelease(u.sealed) THEN "release" ELSE "insert")
    /\ UNCHANGED <<walVars, pc, builder, low, todo, hashed, rows, hw, replying,
                   acked, lost, crashes, faults>>

\* The PUTs gave up.  The last one may have been applied all the same; the
\* task ends and the segments stay for the next start.
UploadFails(u) ==
    /\ u \in uploads /\ u.step = "put"
    /\ Fault
    /\ \/ UNCHANGED bucket
       \/ Put(LiveId(u.sealed), u.frames, u.sealed)
    /\ uploads' = uploads \ {u}
    /\ UNCHANGED <<walVars, pc, builder, low, todo, hashed, rows, hw, replying,
                   acked, lost, crashes>>

\* Mutant: a release reaches below the block's own range (mark_uploaded).
OwnSegsCumulative(u) == {s \in segs : s <= u.sealed}

\* Mutant: the sealed segment itself is left out.
OwnSegsExclusive(u) == {s \in segs : u.low <= s /\ s < u.sealed}

\* release_segments(low, sealed): no lock held, file by file.
OwnSegs(u) == {s \in segs : u.low <= s /\ s <= u.sealed}

ReleaseSegment(u, s) ==
    /\ u \in uploads /\ u.step = "release"
    /\ s \in OwnSegs(u)
    /\ Unlink(s)
    /\ UNCHANGED pipeVars

\* All files are gone, or one remove_file failed and ended the scan.
ReleaseEnds(u) ==
    /\ u \in uploads /\ u.step = "release"
    /\ IF OwnSegs(u) = {} THEN NoFault ELSE Fault
    /\ Step(u, "insert")
    /\ UNCHANGED <<walVars, pc, builder, low, todo, hashed, bucket, rows, hw,
                   replying, acked, lost, crashes>>

\* catalog.insert_block in one transaction with the watermark, best effort;
\* then the task ends and its permit is free.
InsertBlock(u) ==
    /\ u \in uploads /\ u.step = "insert"
    /\ \/ /\ rows' = rows \cup {LiveId(u.sealed)}
          /\ Advance(u.sealed)
          /\ NoFault
       \/ Fault /\ UNCHANGED <<rows, hw>>
    /\ uploads' = uploads \ {u}
    /\ UNCHANGED <<walVars, pc, builder, low, todo, hashed, bucket, replying,
                   acked, lost, crashes>>
-----------------------------------------------------------------------------
(* The process dies at any point; its memory is gone.                      *)

Crash ==
    /\ pc # "down" /\ crashes < MaxCrashes
    /\ \E cut \in 1..(MaxFrames + 1), partial \in BOOLEAN :
        /\ Truncate(cut, partial)
        /\ lost' = lost \cup CutAt(cut)
    /\ crashes' = crashes + 1
    /\ pc' = "down" /\ builder' = {} /\ uploads' = {} /\ replying' = {}
    /\ todo' = {} /\ hashed' = {}
    /\ UNCHANGED <<low, bucket, rows, hw, acked, faults>>

Startup ==
    \/ Open \/ ReplayFrame \/ ReplayEnd \/ RecoveryPut \/ RecoveryInsert
    \/ RecoveryRelease \/ RecoveryReleased \/ Serve

UploadTask(u) ==
    \/ UploadPut(u) \/ ReleaseEnds(u) \/ InsertBlock(u)
    \/ \E s \in segs : ReleaseSegment(u, s)

Next ==
    \/ Startup \/ OpenFails
    \/ IngestBoundary \/ IngestFrame \/ AppendFails
    \/ \E f \in replying : Ack(f)
    \/ FlushIfAged \/ Flush \/ FlushJoined
    \/ SpawnUpload \/ SpawnFails
    \/ \E u \in uploads : UploadTask(u) \/ UploadFails(u)
    \/ Crash

Spec == Init /\ [][Next]_vars
-----------------------------------------------------------------------------
(* Properties.                                                             *)

Uuid  == [kind : {"live"}, key : Nat] \cup [kind : {"recovery"}, key : SUBSET Frame]
Block == [id : Uuid, frames : SUBSET Frame, seg : Nat \cup {NoSeg}]

\* Type correctness of the WAL and of the pipeline around it.
TypeOK ==
    /\ WalTypeOK
    /\ pc \in {"down"} \cup Opening \cup Serving
    /\ builder \subseteq Frame /\ low \in Nat /\ uploads \subseteq Upload
    /\ todo \subseteq Frame /\ hashed \subseteq Frame
    /\ bucket \subseteq Block
    /\ rows \subseteq Uuid
    /\ hw \in Nat \cup {NoSeg}
    /\ replying \subseteq Frame /\ acked \subseteq Frame /\ lost \subseteq Frame
    /\ crashes \in Nat /\ faults \in Nat

\* An acknowledged batch is never dropped by rotation, upload, release,
\* failure or recovery: it is in a committed block or a replay would still
\* read it.  The exceptions are what a crash cut off the unsealed segment and
\* frames written behind a torn one (wal/src/lib.rs 6-11, pipeline.rs
\* 1168-1173).
Durable ==
    \A f \in acked :
        \/ f \in Stored
        \/ f \in Readable(wseq + 1)
        \/ f \in lost
        \/ Unreadable(f)

\* Concurrent uploads and the open block own disjoint segment ranges, and the
\* frames of each lie inside its own range: no release can reach another
\* block's segments (pipeline.rs 801-806).
DisjointRanges ==
    /\ \A u \in uploads :
        /\ u.low <= u.sealed /\ u.sealed < low /\ u.sealed < cur
        /\ \A f \in u.frames : u.low <= at[f] /\ at[f] <= u.sealed
        /\ \A v \in uploads : u # v => u.sealed < v.low \/ v.sealed < u.low
    /\ pc \in Serving => \A f \in builder : low <= at[f]

\* A block holds frames of one content schema only, whether it was closed by
\* ingest or by the replay after any crash (pipeline.rs 394-401, 640-649).
OneSchemaPerBlock ==
    \A b \in bucket : b.frames \subseteq NewSchema \/ b.frames \cap NewSchema = {}

\* The records of the open block are above the watermark: what a merged query
\* drops as durable never includes them, also after restarts, failed uploads
\* and catalog errors (live_ring.rs 19-23).
OpenBlockAboveWatermark ==
    pc \in Serving => \A f \in builder : at[f] > hw

\* A committed block is never rewritten with other content: the uuid of a
\* recovery block determines what is in it however often recovery is
\* restarted (pipeline.rs 394-398, 1070-1086; block/src/lib.rs 337-340).
BlocksImmutable ==
    [][\A b \in bucket : \E c \in bucket' : c.id = b.id /\ c.frames = b.frames]_vars

\* wal/src/lib.rs 329-332: "callers must never release an acknowledged segment
\* whose complete contents were not decoded successfully".  An acknowledged
\* frame a replay could not reach is then still on disk.
ReplayFailsClosed == acked \subseteq Stored \cup lost \cup kept

\* wal/src/lib.rs 120: current_seq is the "seq of the currently active (open,
\* writable) segment".
CurrentIsWritable == pc \in Serving => wseq = cur

\* The shard implements IntakePromise.  Safe are the frames a replay would
\* read from sealed segments; fresh are those only the process memory or the
\* unsealed segment has.
InFlight == UNION {u.frames : u \in uploads}
Held == builder \cup InFlight \cup Readable(wseq + 1)
Safe == {f \in Readable(wseq + 1) : at[f] # wseq} \ Stored

Promise == INSTANCE IntakePromise WITH
    taken <- 1..(next - 1), stored <- Stored,
    safe <- Safe, fresh <- Held \ (Safe \cup Stored)

ImplementsPromise == Promise!Spec

\* Fairness: the runtime keeps polling tasks, a dead process is restarted, the
\* age flusher keeps ticking.  Nothing is assumed of clients or of failures.
Fairness ==
    /\ WF_vars(Startup)
    /\ WF_vars(SpawnUpload \/ SpawnFails)
    /\ WF_vars(pc = "append" /\ (IngestFrame \/ AppendFails))
    /\ WF_vars(FlushIfAged)
    /\ WF_vars(FlushJoined)
    /\ WF_vars(\E f \in replying : Ack(f))
    /\ WF_vars(\E u \in uploads : UploadTask(u))

FairSpec == Spec /\ Fairness

\* Every ingested batch reaches the bucket, through the live upload or
\* through the replay after a crash, unless the crash cut it off the WAL.
EventuallyStored ==
    \A f \in Frame : f \in acked ~> f \in Stored \cup lost

\* Whoever holds the pipeline mutex gives it back: a caller waiting for an
\* upload permit, or joining the uploads, is never waited on by an upload
\* (pipeline.rs 764-767).
MutexReleased == pc \in Serving \ {"free"} ~> pc \in {"free", "down"}

\* Once the process serves, the segments of earlier incarnations are gone and
\* every sealed segment is released sooner or later.
WalDrains == []<>(segs = {cur})
=============================================================================
