------------------------ MODULE IngestStartupProofs -------------------------
(***************************************************************************)
(* The inductive invariant of one ingest shard, lemmas about the           *)
(* operations its actions are made of, and the proof that the steps of a   *)
(* startup (Wal::open, the replay, the recovery upload and the release)    *)
(* keep the invariant.                                                     *)
(***************************************************************************)
EXTENDS IngestPipeline, TLAPS

Ids == {b.id : b \in bucket}

\* Frames the pipeline has promised to keep: answered, about to be answered,
\* or merged by the ingest that waits for its permit.
Promised == acked \cup replying \cup (IF pc = "close" THEN {next - 1} ELSE {})

\* Files and frames: every frame on disk is in an existing file, and the file
\* the writer holds is the newest one and is never unlinked.
WalInv ==
    /\ \A f \in kept : f < next /\ at[f] \in segs
    /\ \A t \in torn : t < next
    /\ \A f \in Frame : at[f] <= wseq
    /\ \A s \in segs : s <= wseq
    /\ IF segs = {} THEN cur = 0 /\ wseq = 0 ELSE wseq \in segs
    /\ cur <= wseq /\ wseq <= cur + 1
    /\ pc # "down" => wseq \in segs

\* Memory is empty where the code has none.
ControlInv ==
    /\ pc \notin Serving => uploads = {} /\ replying = {}
    /\ pc \in {"down", "insert", "release", "serve"} => builder = {}
    /\ pc \in Serving => low <= cur
    /\ pc = "close" => next - 1 \in builder
    /\ builder # {} => pc # "down"
    /\ \A f \in Promised \cup builder \cup todo : f < next
    /\ \A u \in uploads : \A f \in u.frames : f < next

\* A task past its PUT has its frames in the bucket.
UploadInv ==
    \A u \in uploads : u.step # "put" => u.frames \subseteq Stored

\* While serving, a promised frame that is still on disk belongs to the block
\* that owns its segment.
CoverInv ==
    pc \in Serving =>
        \A f \in Promised \cap kept :
            /\ low <= at[f] => f \in builder
            /\ \A u \in uploads :
                u.low <= at[f] /\ at[f] <= u.sealed => f \in u.frames

\* A promised frame that is in no block and was not cut off by a crash is on
\* disk, or was written where a replay does not reach.
PromiseInv ==
    \A f \in Promised : f \in Stored \/ f \in kept \/ f \in lost \/ Unreadable(f)

\* Replay: what the WAL holds is still to be read or was read, and what was
\* read is in the recovery builder or in a block of this replay.
ReplayInv ==
    pc \in Opening =>
        /\ \A f \in kept : at[f] < cur
        /\ wseq = cur
        /\ \A f \in kept : Unreadable(f) \/ f \in todo \cup hashed
        /\ builder \subseteq hashed /\ todo \cap hashed = {}
        /\ \A f \in hashed \ builder : \E b \in bucket :
              /\ b.id.kind = "recovery" /\ b.id.key \subseteq hashed \ builder
              /\ f \in b.frames
        /\ pc = "put" => builder # {}
        /\ pc \in {"release", "serve"} => todo = {}
        /\ pc = "insert" => RecoveryId(hashed) \in Ids
        /\ pc = "serve" => \A s \in segs : s >= cur

\* Block uuids: a task that has not committed owns a fresh one.
IdInv ==
    /\ \A b \in bucket :
        /\ b.id.kind = "live" => b.id.key < cur
        /\ b.id.kind = "recovery" => b.frames \subseteq b.id.key
        /\ b.seg < cur
    /\ \A u \in uploads : u.step = "put" => LiveId(u.sealed) \notin Ids

\* The watermark is below everything that is still open.
MarkInv == hw < cur /\ (pc \in Serving => hw < low)

IInv == /\ TypeOK /\ WalInv /\ ControlInv /\ DisjointRanges /\ UploadInv
        /\ CoverInv /\ PromiseInv /\ ReplayInv /\ IdInv /\ MarkInv
-----------------------------------------------------------------------------
(* The building blocks of the actions.                                     *)

\* A PUT replaces only the block with the same uuid (block/src/lib.rs
\* put_block_objects).
LEMMA PutEffect ==
    ASSUME NEW id, NEW fs, NEW seg, Put(id, fs, seg)
    PROVE  /\ fs \subseteq Stored'
           /\ id \in Ids'
           /\ Ids' \subseteq Ids \cup {id}
           /\ \A b \in bucket : b.id # id => b \in bucket'
           /\ \A b \in bucket' : b \in bucket \/ b = [id |-> id, frames |-> fs, seg |-> seg]
<1> DEFINE new == [id |-> id, frames |-> fs, seg |-> seg]
<1>1. new \in bucket' /\ new.frames = fs /\ new.id = id
  BY Zenon DEF Put
<1>2. fs \subseteq Stored'
  BY Zenon, <1>1 DEF Stored
<1>3. id \in Ids'
  BY Zenon, <1>1 DEF Ids
<1>4. Ids' \subseteq Ids \cup {id}
  BY DEF Ids, Put
<1>5. /\ \A b \in bucket : b.id # id => b \in bucket'
      /\ \A b \in bucket' : b \in bucket \/ b = new
  BY Zenon DEF Put
<1> QED  BY Zenon, <1>2, <1>3, <1>4, <1>5

\* A PUT under a fresh uuid loses no stored frame.
LEMMA FreshPut ==
    ASSUME NEW id, NEW fs, NEW seg, Put(id, fs, seg), id \notin Ids
    PROVE  Stored \subseteq Stored' /\ bucket \subseteq bucket'
<1>1. \A b \in bucket : b.id # id
  BY Zenon DEF Ids
<1>2. bucket \subseteq bucket'
  BY Zenon, <1>1, PutEffect
<1> QED  BY Zenon, <1>2 DEF Stored

\* A recovery PUT may overwrite the block an earlier recovery wrote for the
\* same prefix; every frame of that block is stored by this recovery.
LEMMA RecoveryPutStored ==
    ASSUME TypeOK, ReplayInv, IdInv, pc = "put",
           NEW seg, Put(RecoveryId(hashed), builder, seg)
    PROVE  /\ Stored \subseteq Stored'
           /\ \A f \in hashed : \E b \in bucket' :
                 b.id.kind = "recovery" /\ b.id.key \subseteq hashed /\ f \in b.frames
<1>1. builder # {} /\ builder \subseteq hashed
  BY Zenon DEF ReplayInv, Opening
<1> DEFINE new == [id |-> RecoveryId(hashed), frames |-> builder, seg |-> seg]
<1>2. new \in bucket' /\ new.id.kind = "recovery" /\ new.id.key = hashed /\ new.frames = builder
  BY Zenon DEF Put, RecoveryId
<1>3. ASSUME NEW f \in hashed
      PROVE  \E b \in bucket' :
                b.id.kind = "recovery" /\ b.id.key \subseteq hashed /\ f \in b.frames
  <2>1. CASE f \in builder
    BY Zenon, <2>1, <1>2
  <2>2. CASE f \notin builder
    <3>1. PICK b \in bucket : /\ b.id.kind = "recovery"
                              /\ b.id.key \subseteq hashed \ builder /\ f \in b.frames
      BY Zenon, <2>2 DEF ReplayInv, Opening
    <3>2. b.id # RecoveryId(hashed)
      BY <1>1, <3>1 DEF RecoveryId
    <3>3. b \in bucket'
      BY Zenon, <3>2, PutEffect
    <3> QED  BY Zenon, <3>1, <3>3
  <2> QED  BY Zenon, <2>1, <2>2
<1>4. hashed \subseteq Stored'
  BY Zenon, <1>3 DEF Stored
<1>5. ASSUME NEW f \in Stored  PROVE f \in Stored'
  <2>1. PICK b \in bucket : f \in b.frames
    BY Zenon DEF Stored
  <2>2. CASE b.id = RecoveryId(hashed)
    BY <2>1, <2>2, <1>4 DEF IdInv, RecoveryId
  <2>3. CASE b.id # RecoveryId(hashed)
    <3>1. b \in bucket'
      BY Zenon, <2>3, PutEffect
    <3> QED  BY Zenon, <2>1, <3>1 DEF Stored
  <2> QED  BY Zenon, <2>2, <2>3
<1> QED  BY Zenon, <1>3, <1>5

\* A PUT keeps the bucket well typed.
LEMMA PutType ==
    ASSUME TypeOK, NEW id \in Uuid, NEW fs \in SUBSET Frame,
           NEW seg \in Nat \cup {NoSeg}, Put(id, fs, seg)
    PROVE  bucket' \subseteq Block
BY DEF TypeOK, Put, Block

\* append() writes one frame and leaves every other frame where it is.
LEMMA WriteEffect ==
    ASSUME WalTypeOK, next <= MaxFrames, WriteFrame
    PROVE  /\ next \in Frame /\ at' \in [Frame -> Nat] /\ kept' \subseteq Frame
           /\ next' = next + 1 /\ next' \in 1..(MaxFrames + 1)
           /\ at'[next] = wseq
           /\ \A f \in Frame : f # next => at'[f] = at[f]
           /\ kept' = kept \cup {next}
BY WalConstants DEF WalTypeOK, WriteFrame, Frame

\* A failed write damages at most one frame of the writer's segment.
LEMMA TearEffect ==
    ASSUME Tear
    PROVE  torn \subseteq torn' /\ torn' \subseteq torn \cup kept'
BY Zenon DEF Tear

\* A frame stays unreadable when the log grows or is damaged further.
LEMMA UnreadableStable ==
    ASSUME WalTypeOK, WalInv, torn \subseteq torn', NEW f \in Frame, f < next,
           \A g \in Frame : g < next => at'[g] = at[g], Unreadable(f)
    PROVE  Unreadable(f)'
BY Zenon DEF WalTypeOK, WalInv, Unreadable

\* Every block of the bucket, field by field.
LEMMA BlockType ==
    ASSUME TypeOK, NEW b \in bucket
    PROVE  /\ b.seg \in Int /\ b.frames \subseteq Frame
           /\ b.id.kind = "live" => b.id.key \in Nat
BY DEF TypeOK, Block, Uuid, NoSeg

\* As long as the next segment file does not exist, the writer is on the
\* segment current_seq names.
LEMMA WriterIsCurrent ==
    ASSUME WalTypeOK, WalInv, pc # "down", cur + 1 \notin segs
    PROVE  wseq = cur
BY DEF WalTypeOK, WalInv

\* A rotation, completed or not, adds at most the file after current_seq and
\* leaves the writer on the newest file.
LEMMA SegsGrow ==
    ASSUME WalTypeOK, WalInv, pc # "down",
           \/ segs' = segs /\ wseq' = wseq
           \/ segs' = segs \cup {cur + 1} /\ wseq' = cur + 1
    PROVE  /\ segs \subseteq segs' /\ segs' \subseteq Nat
           /\ wseq' \in segs' /\ wseq' \in Nat /\ wseq <= wseq' /\ wseq' <= cur + 1
           /\ \A s \in segs' : s <= wseq'
<1>1. /\ segs \subseteq Nat /\ cur \in Nat /\ wseq \in Nat /\ cur + 1 \in Nat
      /\ wseq \in segs /\ wseq <= cur + 1 /\ \A s \in segs : s <= wseq
  BY DEF WalTypeOK, WalInv
<1>2. CASE segs' = segs /\ wseq' = wseq
  BY Zenon, <1>1, <1>2
<1>3. CASE segs' = segs \cup {cur + 1} /\ wseq' = cur + 1
  <2>1. segs' \subseteq Nat /\ \A s \in segs' : s \in segs \/ s = cur + 1
    BY Zenon, <1>1, <1>3
  <2> QED  BY <1>1, <1>3, <2>1
<1> QED  BY Zenon, <1>2, <1>3

\* A rotate() that completed.
LEMMA RotateOkEffect ==
    ASSUME WalTypeOK, WalInv, pc # "down", RotateOk
    PROVE  /\ wseq = cur /\ segs' = segs \cup {cur + 1}
           /\ cur' = cur + 1 /\ wseq' = cur + 1 /\ bytes' = 0 /\ torn' = torn
BY Zenon, WriterIsCurrent DEF RotateOk

\* A rotate() that returned Err.
LEMMA RotateErrEffect ==
    ASSUME TypeOK, WalInv, NEW b \in Nat, RotateErr(b)
    PROVE  /\ cur' = cur /\ bytes' = b /\ faults' \in Nat
           /\ torn \subseteq torn' /\ torn' \subseteq torn \cup kept'
           /\ \/ segs' = segs /\ wseq' = wseq
              \/ segs' = segs \cup {cur + 1} /\ wseq' = cur + 1
<1>1. CASE RotateRefused(b) /\ NoFault
  BY Zenon, <1>1 DEF RotateRefused, NoFault, TypeOK
<1>2. CASE RotateFailsEarly(b) /\ Fault
  BY <1>2, TearEffect DEF RotateFailsEarly, Fault, TypeOK
<1>3. CASE RotateFailsSync(b) /\ Fault
  BY <1>3 DEF RotateFailsSync, Fault, TypeOK
<1> QED  BY Zenon, <1>1, <1>2, <1>3 DEF RotateErr
-----------------------------------------------------------------------------
(* The startup steps keep the invariant.                                   *)

\* Wal::open at the start of a process.
LEMMA OpenKeeps ==
    ASSUME IInv, Open
    PROVE  IInv'
<1> USE DEF IInv
<1>a. cur <= cur' /\ cur' \in Nat /\ wseq' = cur'
  BY DEF Open, WalOpen, WalInv, TypeOK, WalTypeOK
<1>1. TypeOK'
  <2>1. WalTypeOK'
    <3>1. PICK s \in {0} \cup {x + 1 : x \in segs} :
             /\ segs' = segs \cup {s} /\ cur' = s /\ wseq' = s /\ bytes' = 0
             /\ UNCHANGED <<at, kept, torn, next>>
      BY Zenon DEF Open, WalOpen
    <3>2. s \in Nat
      BY DEF TypeOK, WalTypeOK
    <3> QED  BY Zenon, <3>1, <3>2 DEF TypeOK, WalTypeOK
  <2>2. pc' \in {"down"} \cup Opening \cup Serving
    BY Zenon DEF Open, Opening
  <2>3. /\ builder' \subseteq Frame /\ low' \in Nat
        /\ uploads' \subseteq Upload
        /\ bucket' \subseteq Block
        /\ rows' \subseteq Uuid /\ hw' \in Nat \cup {NoSeg}
        /\ replying' \subseteq Frame /\ acked' \subseteq Frame /\ lost' \subseteq Frame
        /\ crashes' \in Nat /\ faults' \in Nat
    BY Zenon DEF Open, TypeOK
  <2>4. todo' \subseteq Frame /\ hashed' \subseteq Frame
    BY Zenon DEF Open, TypeOK, WalTypeOK, Readable
  <2> QED  BY Zenon, <2>1, <2>2, <2>3, <2>4 DEF TypeOK
<1>2. WalInv'
  BY DEF Open, WalInv, TypeOK, WalTypeOK, WalOpen
<1>3. ControlInv'
  BY Zenon DEF Open, ControlInv, Promised, Serving, Waiting, WalInv, WalOpen, Readable
<1>4. DisjointRanges'
  BY Zenon DEF Open, DisjointRanges, Serving, Waiting, ControlInv
<1>5. UploadInv'
  BY Zenon DEF Open, UploadInv, Stored
<1>6. CoverInv'
  BY Zenon DEF Open, CoverInv, Serving, Waiting
<1>7. PromiseInv'
  BY Zenon DEF Open, PromiseInv, Promised, Stored, Unreadable, WalOpen
<1>8. ReplayInv'
  BY ZenonT(60) DEF Open, ReplayInv, Unreadable, ControlInv, WalInv, WalOpen, Readable
<1>9. IdInv'
  BY <1>a, BlockType DEF Open, WalOpen, IdInv, ControlInv, Ids, LiveId, Serving,
     Waiting, TypeOK, WalTypeOK
<1>10. MarkInv'
  BY <1>a DEF Open, MarkInv, TypeOK, WalTypeOK, NoSeg, Serving, Waiting
<1> QED  BY Zenon, <1>1, <1>2, <1>3, <1>4, <1>5, <1>6, <1>7, <1>8, <1>9, <1>10

\* One frame of the replay loop.
LEMMA ReplayFrameKeeps ==
    ASSUME IInv, ReplayFrame
    PROVE  IInv'
<1> USE DEF IInv
<1>1. TypeOK'
  BY Zenon DEF ReplayFrame, TypeOK, WalTypeOK, Frame, Opening, WalInv, walVars
<1>2. WalInv'
  BY Zenon DEF ReplayFrame, WalInv, walVars
<1>3. ControlInv'
  BY Zenon DEF ReplayFrame, ControlInv, Promised, Serving, Waiting, walVars
<1>4. DisjointRanges'
  BY Zenon DEF ReplayFrame, DisjointRanges, walVars, Serving, Waiting
<1>5. UploadInv'
  BY Zenon DEF ReplayFrame, UploadInv, Stored
<1>6. CoverInv'
  BY Zenon DEF ReplayFrame, CoverInv, Serving, Waiting
<1>7. PromiseInv'
  BY Zenon DEF ReplayFrame, PromiseInv, walVars, Promised, Stored, Unreadable
<1>8. ReplayInv'
  <2>1. PICK f \in todo :
           IF SchemaBoundary(builder, f)
           THEN pc' = "put" /\ UNCHANGED <<builder, todo, hashed>>
           ELSE /\ builder' = builder \cup {f} /\ todo' = todo \ {f}
                /\ hashed' = hashed \cup {f} /\ pc' \in {"put", "replay"}
    BY Zenon DEF ReplayFrame
  <2>2. UNCHANGED <<walVars, bucket>> /\ pc = "replay"
    BY Zenon DEF ReplayFrame
  <2>3. CASE SchemaBoundary(builder, f)
    BY Zenon, <2>1, <2>2, <2>3 DEF ReplayInv, Opening, SchemaBoundary, Unreadable, walVars
  <2>4. CASE ~SchemaBoundary(builder, f)
    <3>1. hashed' \ builder' = hashed \ builder
      BY Zenon, <2>1, <2>2, <2>4 DEF ReplayInv, Opening
    <3> QED  BY Zenon, <2>1, <2>2, <2>4, <3>1 DEF ReplayInv, Opening, Unreadable, walVars
  <2> QED  BY Zenon, <2>3, <2>4
<1>9. IdInv'
  BY Zenon DEF ReplayFrame, IdInv, walVars, Ids
<1>10. MarkInv'
  BY Zenon DEF ReplayFrame, MarkInv, walVars, Serving, Waiting
<1> QED  BY Zenon, <1>1, <1>2, <1>3, <1>4, <1>5, <1>6, <1>7, <1>8, <1>9, <1>10

\* The end of the replay loop.
LEMMA ReplayEndKeeps ==
    ASSUME IInv, ReplayEnd
    PROVE  IInv'
<1> USE DEF IInv
<1>1. TypeOK'
  BY Zenon DEF ReplayEnd, TypeOK, walVars, WalTypeOK, Opening
<1>2. WalInv'
  BY Zenon DEF ReplayEnd, WalInv, walVars
<1>3. ControlInv'
  BY Zenon DEF ReplayEnd, ControlInv, walVars, Promised, Serving, Waiting
<1>4. DisjointRanges'
  BY Zenon DEF ReplayEnd, DisjointRanges, walVars, Serving, Waiting
<1>5. UploadInv'
  BY Zenon DEF ReplayEnd, UploadInv, Stored
<1>6. CoverInv'
  BY Zenon DEF ReplayEnd, CoverInv, Serving, Waiting
<1>7. PromiseInv'
  BY Zenon DEF ReplayEnd, PromiseInv, walVars, Promised, Stored, Unreadable
<1>8. ReplayInv'
  BY DEF ReplayEnd, ReplayInv, walVars, Unreadable, Opening, TypeOK, WalTypeOK
<1>9. IdInv'
  BY Zenon DEF ReplayEnd, IdInv, walVars, Ids
<1>10. MarkInv'
  BY Zenon DEF ReplayEnd, MarkInv, walVars, Serving, Waiting
<1> QED  BY Zenon, <1>1, <1>2, <1>3, <1>4, <1>5, <1>6, <1>7, <1>8, <1>9, <1>10

\* upload_replay_block, the PUT.
LEMMA RecoveryPutKeeps ==
    ASSUME IInv, RecoveryPut
    PROVE  IInv'
<1> USE DEF IInv
<1>a. /\ Stored \subseteq Stored'
      /\ \A f \in hashed : \E b \in bucket' :
            b.id.kind = "recovery" /\ b.id.key \subseteq hashed /\ f \in b.frames
  BY Zenon, RecoveryPutStored DEF RecoveryPut
<1>1. TypeOK'
  <2>1. WalTypeOK'
    BY Zenon DEF RecoveryPut, TypeOK, walVars, WalTypeOK
  <2>2. pc' \in {"down"} \cup Opening \cup Serving
    BY Zenon DEF RecoveryPut, Opening
  <2>3. /\ builder' \subseteq Frame /\ low' \in Nat
        /\ uploads' \subseteq Upload
        /\ todo' \subseteq Frame /\ hashed' \subseteq Frame
        /\ rows' \subseteq Uuid /\ hw' \in Nat \cup {NoSeg}
        /\ replying' \subseteq Frame /\ acked' \subseteq Frame /\ lost' \subseteq Frame
        /\ crashes' \in Nat /\ faults' \in Nat
    BY Zenon DEF RecoveryPut, TypeOK
  <2>4. bucket' \subseteq Block
    <3>1. RecoveryId(hashed) \in Uuid
      BY Zenon DEF TypeOK, Uuid, RecoveryId
    <3>2. RecoverySeg \in Nat \cup {NoSeg}
      BY DEF TypeOK, WalTypeOK, RecoverySeg, NoSeg
    <3> QED  BY Zenon, <3>1, <3>2, PutType DEF RecoveryPut, TypeOK
  <2> QED  BY Zenon, <2>1, <2>2, <2>3, <2>4 DEF TypeOK
<1>2. WalInv'
  BY Zenon DEF RecoveryPut, WalInv, walVars
<1>3. ControlInv'
  BY Zenon DEF RecoveryPut, ControlInv, walVars, Promised, Serving, Waiting
<1>4. DisjointRanges'
  BY Zenon DEF RecoveryPut, DisjointRanges, walVars
<1>5. UploadInv'
  BY Zenon DEF RecoveryPut, UploadInv, ControlInv, Serving, Waiting
<1>6. CoverInv'
  BY Zenon DEF RecoveryPut, CoverInv, Serving, Waiting
<1>7. PromiseInv'
  BY Zenon, <1>a DEF RecoveryPut, PromiseInv, Promised, Unreadable, walVars
<1>8. ReplayInv'
  <2>1. RecoveryId(hashed) \in Ids'
    BY Zenon, PutEffect DEF RecoveryPut
  <2> QED  BY Zenon, <1>a, <2>1 DEF RecoveryPut, ReplayInv, Opening, Unreadable,
     RecoveryId, Ids, walVars
<1>9. IdInv'
  <2>1. RecoverySeg < cur
    BY DEF RecoverySeg, NoSeg, TypeOK, WalTypeOK
  <2>2. \A b \in bucket' : \/ b \in bucket
                            \/ b = [id |-> RecoveryId(hashed), frames |-> builder, seg |-> RecoverySeg]
    BY Zenon, PutEffect DEF RecoveryPut
  <2>3. builder \subseteq hashed
    BY Zenon DEF RecoveryPut, ReplayInv, Opening
  <2> QED  BY <2>1, <2>2, <2>3 DEF RecoveryPut, IdInv, ControlInv, RecoveryId,
     Serving, Waiting, walVars
<1>10. MarkInv'
  BY Zenon DEF RecoveryPut, MarkInv, walVars, Serving, Waiting
<1> QED  BY Zenon, <1>1, <1>2, <1>3, <1>4, <1>5, <1>6, <1>7, <1>8, <1>9, <1>10

\* upload_replay_block, the catalog row.
LEMMA RecoveryInsertKeeps ==
    ASSUME IInv, RecoveryInsert
    PROVE  IInv'
<1> USE DEF IInv
<1>1. TypeOK'
  <2>1. WalTypeOK'
    BY Zenon DEF RecoveryInsert, TypeOK, walVars, WalTypeOK
  <2>2. pc' \in {"down"} \cup Opening \cup Serving
    BY Zenon DEF RecoveryInsert, Opening
  <2>3. /\ builder' \subseteq Frame /\ low' \in Nat
        /\ uploads' \subseteq Upload
        /\ todo' \subseteq Frame /\ hashed' \subseteq Frame
        /\ bucket' \subseteq Block
        /\ replying' \subseteq Frame /\ acked' \subseteq Frame /\ lost' \subseteq Frame
    BY Zenon DEF RecoveryInsert, TypeOK
  <2>4. rows' \subseteq Uuid /\ hw' \in Nat \cup {NoSeg}
    BY Zenon, BlockType DEF RecoveryInsert, Advance, NoFault, Fault, TypeOK, Block,
       Uuid, RecoveryId, NoSeg
  <2>5. crashes' \in Nat /\ faults' \in Nat
    BY SMTT(60) DEF RecoveryInsert, TypeOK, Fault, NoFault
  <2> QED  BY Zenon, <2>1, <2>2, <2>3, <2>4, <2>5 DEF TypeOK
<1>2. WalInv'
  BY Zenon DEF RecoveryInsert, WalInv, walVars
<1>3. ControlInv'
  BY Zenon DEF RecoveryInsert, ControlInv, walVars, Promised, Serving, Waiting
<1>4. DisjointRanges'
  BY Zenon DEF RecoveryInsert, DisjointRanges, walVars, Serving, Waiting
<1>5. UploadInv'
  BY Zenon DEF RecoveryInsert, UploadInv, Stored
<1>6. CoverInv'
  BY Zenon DEF RecoveryInsert, CoverInv, Serving, Waiting
<1>7. PromiseInv'
  BY Zenon DEF RecoveryInsert, PromiseInv, walVars, Promised, Stored, Unreadable
<1>8. ReplayInv'
  BY Zenon DEF RecoveryInsert, ReplayInv, walVars, Unreadable, Opening
<1>9. IdInv'
  BY Zenon DEF RecoveryInsert, IdInv, walVars, Ids
<1>10. MarkInv'
  BY Zenon, BlockType DEF RecoveryInsert, Advance, MarkInv, IdInv, TypeOK, WalTypeOK,
     NoSeg, Serving, Waiting, walVars
<1> QED  BY Zenon, <1>1, <1>2, <1>3, <1>4, <1>5, <1>6, <1>7, <1>8, <1>9, <1>10

\* release_segments after the replay.
LEMMA RecoveryReleaseKeeps ==
    ASSUME IInv, RecoveryRelease
    PROVE  IInv'
<1> USE DEF IInv
<1>1. TypeOK'
  BY Zenon DEF RecoveryRelease, TypeOK, WalTypeOK, Unlink, pipeVars
<1>2. WalInv'
  BY DEF RecoveryRelease, WalInv, Unlink, MayRelease, InSeg, TypeOK, WalTypeOK
<1>3. ControlInv'
  BY Zenon DEF RecoveryRelease, ControlInv, Unlink, pipeVars, Promised
<1>4. DisjointRanges'
  BY Zenon DEF RecoveryRelease, DisjointRanges, Unlink, pipeVars
<1>5. UploadInv'
  BY Zenon DEF RecoveryRelease, UploadInv, pipeVars, Stored
<1>6. CoverInv'
  BY Zenon DEF RecoveryRelease, CoverInv, pipeVars, Serving, Waiting
<1>7. PromiseInv'
  BY SMTT(60) DEF RecoveryRelease, PromiseInv, Promised, Stored, Unreadable, ControlInv,
     ReplayInv, Serving, Waiting, TypeOK, Unlink, pipeVars
<1>8. ReplayInv'
  BY Zenon DEF RecoveryRelease, ReplayInv, Unlink, pipeVars, Unreadable
<1>9. IdInv'
  BY Zenon DEF RecoveryRelease, IdInv, Unlink, pipeVars, Ids
<1>10. MarkInv'
  BY Zenon DEF RecoveryRelease, MarkInv, Unlink, pipeVars
<1> QED  BY Zenon, <1>1, <1>2, <1>3, <1>4, <1>5, <1>6, <1>7, <1>8, <1>9, <1>10

\* The watermark after the release.
LEMMA RecoveryReleasedKeeps ==
    ASSUME IInv, RecoveryReleased
    PROVE  IInv'
<1> USE DEF IInv
<1>1. TypeOK'
  <2>1. WalTypeOK'
    BY Zenon DEF RecoveryReleased, TypeOK, walVars, WalTypeOK
  <2>2. pc' \in {"down"} \cup Opening \cup Serving
    BY Zenon DEF RecoveryReleased, Opening
  <2>3. /\ builder' \subseteq Frame /\ low' \in Nat
        /\ uploads' \subseteq Upload
        /\ todo' \subseteq Frame /\ hashed' \subseteq Frame
        /\ bucket' \subseteq Block
        /\ replying' \subseteq Frame /\ acked' \subseteq Frame /\ lost' \subseteq Frame
    BY Zenon DEF RecoveryReleased, TypeOK
  <2>4. rows' \subseteq Uuid /\ hw' \in Nat \cup {NoSeg}
    BY DEF RecoveryReleased, TypeOK, Advance, WalTypeOK, NoSeg
  <2>5. crashes' \in Nat /\ faults' \in Nat
    BY DEF RecoveryReleased, TypeOK, Fault, NoFault
  <2> QED  BY Zenon, <2>1, <2>2, <2>3, <2>4, <2>5 DEF TypeOK
<1>2. WalInv'
  BY Zenon DEF RecoveryReleased, WalInv, walVars
<1>3. ControlInv'
  BY Zenon DEF RecoveryReleased, ControlInv, walVars, Promised, Serving, Waiting
<1>4. DisjointRanges'
  BY Zenon DEF RecoveryReleased, DisjointRanges, walVars, Serving, Waiting
<1>5. UploadInv'
  BY Zenon DEF RecoveryReleased, UploadInv, Stored
<1>6. CoverInv'
  BY Zenon DEF RecoveryReleased, CoverInv, Serving, Waiting
<1>7. PromiseInv'
  BY Zenon DEF RecoveryReleased, PromiseInv, walVars, Promised, Stored, Unreadable
<1>8. ReplayInv'
  <2>1. \A s \in segs : s >= cur
    BY SMTT(60) DEF RecoveryReleased, MayRelease, TypeOK, WalTypeOK
  <2>2. pc = "release" /\ pc \in Opening /\ pc' = "serve"
    BY Zenon DEF RecoveryReleased, Opening
  <2>3. UNCHANGED <<segs, at, kept, torn, cur, wseq, todo, hashed, builder, bucket>>
    BY Zenon DEF RecoveryReleased, walVars
  <2> QED
    BY Zenon, <2>1, <2>2, <2>3 DEF ReplayInv, Unreadable
<1>9. IdInv'
  BY Zenon DEF RecoveryReleased, IdInv, walVars, Ids
<1>10. MarkInv'
  BY DEF RecoveryReleased, MarkInv, Advance, walVars, Serving, Waiting, TypeOK,
     WalTypeOK
<1> QED  BY Zenon, <1>1, <1>2, <1>3, <1>4, <1>5, <1>6, <1>7, <1>8, <1>9, <1>10

\* The shard starts to serve.
LEMMA ServeKeeps ==
    ASSUME IInv, Serve
    PROVE  IInv'
<1> USE DEF IInv
<1>1. TypeOK'
  BY Zenon DEF Serve, TypeOK, walVars, WalTypeOK, Serving
<1>2. WalInv'
  BY Zenon DEF Serve, WalInv, walVars
<1>3. ControlInv'
  BY DEF Serve, ControlInv, walVars, Promised, Serving, TypeOK, WalTypeOK
<1>4. DisjointRanges'
  BY Zenon DEF Serve, DisjointRanges, Serving, Waiting, ControlInv
<1>5. UploadInv'
  BY Zenon DEF Serve, UploadInv, Stored
<1>6. CoverInv'
  BY SMTT(60) DEF Serve, CoverInv, ControlInv, ReplayInv, Serving, Waiting, TypeOK,
     WalTypeOK, walVars
<1>7. PromiseInv'
  BY Zenon DEF Serve, PromiseInv, walVars, Promised, Stored, Unreadable
<1>8. ReplayInv'
  BY Zenon DEF Serve, ReplayInv, Opening
<1>9. IdInv'
  BY Zenon DEF Serve, IdInv, walVars, Ids
<1>10. MarkInv'
  BY Zenon DEF Serve, MarkInv, walVars
<1> QED  BY Zenon, <1>1, <1>2, <1>3, <1>4, <1>5, <1>6, <1>7, <1>8, <1>9, <1>10

\* A startup that ends in an error.
LEMMA OpenFailsKeeps ==
    ASSUME IInv, OpenFails
    PROVE  IInv'
<1> USE DEF IInv
<1>1. TypeOK'
  <2>1. WalTypeOK'
    BY Zenon DEF OpenFails, TypeOK, walVars, WalTypeOK
  <2>2. /\ pc' \in {"down"} \cup Opening \cup Serving
        /\ todo' \subseteq Frame /\ hashed' \subseteq Frame
    BY Zenon DEF OpenFails
  <2>3. /\ builder' \subseteq Frame /\ low' \in Nat
        /\ uploads' \subseteq Upload
        /\ rows' \subseteq Uuid /\ hw' \in Nat \cup {NoSeg}
        /\ replying' \subseteq Frame /\ acked' \subseteq Frame /\ lost' \subseteq Frame
    BY Zenon DEF OpenFails, TypeOK
  <2>4. bucket' \subseteq Block
    <3>1. RecoveryId(hashed) \in Uuid
      BY Zenon DEF TypeOK, Uuid, RecoveryId
    <3>2. RecoverySeg \in Nat \cup {NoSeg}
      BY DEF TypeOK, WalTypeOK, RecoverySeg, NoSeg
    <3> QED  BY Zenon, <3>1, <3>2, PutType DEF OpenFails, TypeOK
  <2>5. crashes' \in Nat /\ faults' \in Nat
    BY DEF OpenFails, TypeOK, Fault
  <2> QED  BY Zenon, <2>1, <2>2, <2>3, <2>4, <2>5 DEF TypeOK
<1>2. WalInv'
  BY Zenon DEF OpenFails, WalInv, walVars
<1>3. ControlInv'
  BY Zenon DEF OpenFails, ControlInv, walVars, Promised, Serving, Waiting
<1>4. DisjointRanges'
  BY Zenon DEF OpenFails, DisjointRanges, walVars
<1>5. UploadInv'
  BY Zenon DEF OpenFails, UploadInv, ControlInv, Serving, Waiting
<1>6. CoverInv'
  BY Zenon DEF OpenFails, CoverInv, Serving, Waiting
<1>7. PromiseInv'
  <2>1. Stored \subseteq Stored'
    BY Zenon, RecoveryPutStored DEF OpenFails, Stored
  <2> QED  BY Zenon, <2>1 DEF OpenFails, PromiseInv, Promised, Unreadable, walVars
<1>8. ReplayInv'
  BY Zenon DEF OpenFails, ReplayInv, Opening
<1>9. IdInv'
  <2>1. CASE UNCHANGED bucket
    BY Zenon, <2>1 DEF OpenFails, IdInv, ControlInv, Serving, Waiting, walVars
  <2>2. CASE pc = "put" /\ Put(RecoveryId(hashed), builder, RecoverySeg)
    <3>1. RecoverySeg < cur
      BY DEF RecoverySeg, NoSeg, TypeOK, WalTypeOK
    <3>2. \A b \in bucket' : \/ b \in bucket
                              \/ b = [id |-> RecoveryId(hashed), frames |-> builder, seg |-> RecoverySeg]
      BY Zenon, <2>2, PutEffect
    <3>3. builder \subseteq hashed
      BY Zenon, <2>2 DEF ReplayInv, Opening
    <3> QED  BY SMTT(60), <3>1, <3>2, <3>3 DEF OpenFails, IdInv, ControlInv, RecoveryId,
       Serving, Waiting, walVars
  <2> QED  BY Zenon, <2>1, <2>2 DEF OpenFails
<1>10. MarkInv'
  BY Zenon DEF OpenFails, MarkInv, walVars, Serving, Waiting
<1> QED  BY Zenon, <1>1, <1>2, <1>3, <1>4, <1>5, <1>6, <1>7, <1>8, <1>9, <1>10
=============================================================================
