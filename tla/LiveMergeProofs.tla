-------------------------- MODULE LiveMergeProofs ---------------------------
(***************************************************************************)
(* The merged query over one shard: type correctness, no record in both    *)
(* halves of an answer once its own block is known, and what a gap comes   *)
(* from, for every value of the constants.                                 *)
(***************************************************************************)
EXTENDS LiveMerge, IngestPromiseProofs

\* The frames this process has pushed to its ring or is about to push.
Current == Live \cup replying \cup (IF pc = "close" THEN {next - 1} ELSE {})

RingInv == ring \in Seq(Frame)

\* A stamp is at most the segment its block seals.
StampInv ==
    /\ pc \in Serving => \A f \in builder : tag[f] <= cur
    /\ \A u \in uploads : \A f \in u.frames : tag[f] <= u.sealed
    /\ \A b \in bucket : b.id.kind = "live" =>
          b.seg = b.id.key /\ \A f \in b.frames : tag[f] <= b.seg

\* No recovery block holds what the present process ingested.
CurrentInv ==
    /\ pc \notin Serving => Live = {}
    /\ \A f \in Current : f < next
    /\ \A b \in bucket : b.id.kind = "recovery" => b.frames \cap Current = {}

\* A block sealed at or above the stamp of a present frame holds that frame
\* or newer ones only.
OrderInv ==
    /\ pc \in Serving => \A f \in Current : f \in builder \/ \A g \in builder : f < g
    /\ \A f \in Current, u \in uploads :
          tag[f] <= u.sealed => f \in u.frames \/ \A g \in u.frames : f < g
    /\ \A f \in Current, b \in bucket :
          tag[f] <= b.seg => b.id.kind = "live" /\ (f \in b.frames \/ \A g \in b.frames : f < g)

\* Retention or a merge took the block away.
Withdrawn(x) == x \in retired \/ \E m \in merged : x \in m.from

\* A merged block holds all that the blocks it came from held, and of the
\* merges a block went into one is not merged again.
MergeInv ==
    /\ \A m \in merged : m.id.kind = "merged" /\ m.id.key = m.from /\ m.from \subseteq AllIds
    /\ \A m, n \in merged : m.id = n.id => m = n
    /\ \A b, c \in bucket : b.id.kind = "live" /\ b.id = c.id => b.frames = c.frames
    /\ \A m \in merged, b \in bucket :
          b.id.kind = "live" /\ b.id \in m.from => b.frames \subseteq m.frames
    /\ \A m, n \in merged : n.id \in m.from => n.frames \subseteq m.frames
    /\ \A m \in merged : \A x \in m.from : \E t \in merged : x \in t.from /\ ~Replaced(t)

\* A row that was there and is not listed belongs to a withdrawn block.
RowInv ==
    /\ \A x \in gone : Withdrawn(x)
    /\ \A x \in known : x \in seen \ hid \/ Withdrawn(x)

\* The query node's watermark covers the live blocks it was told of, and is
\* the mark of one of them as far as present frames are concerned.
SeenInv ==
    /\ seenHw < cur
    /\ \A b \in bucket : b.id \in known /\ b.id.kind = "live" => b.seg <= seenHw
    /\ \A f \in Current : tag[f] <= seenHw =>
          \E b \in bucket : b.id \in known /\ b.id.kind = "live" /\ b.seg = seenHw

\* A later live block that the query node was told of.
Overtaken(f) ==
    \E b \in bucket : /\ b.id.kind = "live" /\ b.seg = query.hw /\ b.id \in query.known
                      /\ \A g \in b.frames : f < g

\* A merge of the frame's own block that the node was not told of.
Outdated(f) ==
    \E b \in bucket, m \in merged : /\ f \in b.frames /\ b.id \in query.known
                                    /\ b.id \in m.from /\ m.id \notin query.known

Accounted(f) ==
    \/ f \in FramesOf(query.ids) \/ f \in FramesOf(retired)
    \/ Overtaken(f) \/ Outdated(f)

\* The two halves of a running query.
QueryInv ==
    query.on =>
        /\ query.hw \in Int /\ query.hw < cur
        /\ query.known \subseteq AllIds
        /\ \A f \in Current, b \in bucket :
              f \in b.frames /\ b.id \in query.known => IsDurable(f, query.hw)
        /\ \A f \in Current : ~IsDurable(f, query.hw) \/ Accounted(f)

LiveInv ==
    /\ LiveTypeOK /\ RingInv
    /\ StampInv /\ CurrentInv /\ OrderInv
    /\ MergeInv /\ RowInv /\ SeenInv /\ QueryInv

Base == IInv /\ HeldInv

-----------------------------------------------------------------------------
(* What a step of the shard does to what the merged query depends on.      *)

Effect ==
    /\ UNCHANGED liveVars
    /\ cur <= cur' /\ next <= next' /\ Current' \subseteq Current
    /\ pc' \notin Serving => pc \notin Serving
    /\ pc' \in Serving => builder' = {} \/ (pc \in Serving /\ builder' = builder)
    /\ \A u \in uploads' :
          \/ \E v \in uploads : u.frames = v.frames /\ u.sealed = v.sealed
          \/ pc \in Serving /\ u.frames = builder /\ u.sealed = cur
    /\ \A b \in bucket' :
          \/ b \in bucket
          \/ \E v \in uploads : /\ b.frames = v.frames /\ b.seg = v.sealed
                                /\ b.id.kind = "live" /\ b.id.key = v.sealed
                                /\ b.id \notin Ids
          \/ b.id.kind = "recovery" /\ pc \notin Serving
    /\ \A b, c \in bucket' : b \in bucket \/ c \in bucket \/ b = c
    /\ \A b \in bucket : b.id.kind = "live" => b \in bucket'
    /\ Ids \subseteq Ids'

\* A step that leaves the tasks and the bucket alone.
LEMMA QuietEffect ==
    ASSUME UNCHANGED <<liveVars, uploads, bucket>>,
           cur <= cur', next <= next', replying' = replying, pc' # "close",
           pc' \notin Serving => pc \notin Serving,
           pc' \in Serving => builder' = {} \/ (pc \in Serving /\ builder' = builder)
    PROVE  Effect
<1>1. Current' \subseteq Current
  BY Zenon DEF Current, Live, liveVars
<1>2. Ids' = Ids
  BY Zenon DEF Ids
<1> QED  BY Zenon, <1>1, <1>2 DEF Effect

\* A start moves the active segment up and serves with an empty builder.
LEMMA StartupEffect ==
    ASSUME Base, Startup, ~RecoveryPut, UNCHANGED liveVars
    PROVE  Effect
<1> USE DEF Base
<1>1. cur \in Nat /\ next \in Nat
  BY DEF IInv, TypeOK, WalTypeOK
<1>2. CASE Open
  <2>1. cur <= cur'
    BY <1>1, <1>2 DEF Open, WalOpen, IInv, TypeOK, WalTypeOK, WalInv
  <2>2. next' = next /\ UNCHANGED <<uploads, bucket, replying>> /\ pc = "down" /\ pc' = "replay"
    BY Zenon, <1>2 DEF Open, WalOpen
  <2>3. next <= next'
    BY <1>1, <2>2
  <2> QED  BY Zenon, QuietEffect, <2>1, <2>2, <2>3 DEF Serving, Waiting
<1>3. CASE ~Open
  <2>1. cur' = cur /\ next' = next /\ UNCHANGED <<uploads, bucket, replying>>
    BY Zenon, <1>3 DEF Startup, ReplayFrame, ReplayEnd, RecoveryInsert, RecoveryRelease,
       RecoveryReleased, Serve, Unlink, walVars, pipeVars
  <2>2. cur <= cur' /\ next <= next'
    BY <1>1, <2>1
  <2>3. pc \in Opening /\ pc' # "close" /\ (pc' \in Serving => pc = "serve" /\ builder' = builder)
    <3>1. CASE Serve
      BY Zenon, <3>1 DEF Serve, Opening
    <3>2. CASE ~Serve
      BY Zenon, <1>3, <3>2 DEF Startup, ReplayFrame, ReplayEnd, RecoveryInsert, RecoveryRelease,
         RecoveryReleased, pipeVars, Opening, Serving, Waiting
    <3> QED  BY Zenon, <3>1, <3>2
  <2>4. pc \notin Serving
    BY Zenon, <2>3 DEF Opening, Serving, Waiting
  <2>5. pc' \in Serving => builder' = {}
    BY Zenon, <2>3 DEF IInv, ControlInv
  <2> QED  BY Zenon, QuietEffect, <2>1, <2>2, <2>3, <2>4, <2>5
<1> QED  BY Zenon, <1>2, <1>3

\* A recovery PUT, committed or not known to be.
LEMMA RecoveryPutEffect ==
    ASSUME Base, RecoveryPut \/ OpenFails, UNCHANGED liveVars
    PROVE  Effect
<1> USE DEF Base
<1>1. cur \in Nat /\ next \in Nat
  BY DEF IInv, TypeOK, WalTypeOK
<1>2. cur' = cur /\ next' = next /\ UNCHANGED <<uploads, replying>>
  BY Zenon DEF RecoveryPut, OpenFails, walVars
<1>3. cur <= cur' /\ next <= next'
  BY <1>1, <1>2
<1>4. pc \notin Serving /\ pc' \in {"insert", "down"}
  BY Zenon DEF RecoveryPut, OpenFails, Serving, Waiting
<1>5. pc' \notin Serving /\ pc' # "close"
  BY Zenon, <1>4 DEF Serving, Waiting
<1>6. CASE UNCHANGED bucket
  BY Zenon, QuietEffect, <1>2, <1>3, <1>4, <1>5, <1>6
<1>7. CASE Put(RecoveryId(hashed), builder, RecoverySeg)
  <2> DEFINE new == [id |-> RecoveryId(hashed), frames |-> builder, seg |-> RecoverySeg]
  <2>1. new.id.kind = "recovery" /\ RecoveryId(hashed).kind = "recovery"
    BY Zenon DEF RecoveryId
  <2>2. /\ \A b \in bucket : b.id # RecoveryId(hashed) => b \in bucket'
        /\ \A b \in bucket' : b \in bucket \/ b = new
        /\ RecoveryId(hashed) \in Ids'
    BY Zenon, <1>7, PutEffect
  <2> HIDE DEF new
  <2>3. \A b \in bucket : b.id.kind = "live" => b \in bucket'
    BY Zenon, <2>1, <2>2
  <2>4. /\ \A b \in bucket' : b \in bucket \/ b.id.kind = "recovery"
        /\ \A b, c \in bucket' : b \in bucket \/ c \in bucket \/ b = c
    BY Zenon, <2>1, <2>2
  <2>5. Ids \subseteq Ids'
    BY Zenon, <2>2 DEF Ids
  <2>6. Current' \subseteq Current
    BY Zenon, <1>2, <1>5 DEF Current, Live, liveVars
  <2> QED  BY Zenon, <1>2, <1>3, <1>4, <1>5, <2>3, <2>4, <2>5, <2>6 DEF Effect
<1> QED  BY Zenon, <1>6, <1>7 DEF RecoveryPut, OpenFails

\* Steps under the mutex that hand no block over.
LEMMA IngestEffect ==
    ASSUME Base, UNCHANGED liveVars,
           IngestBoundary \/ AppendFails \/ FlushIfAged \/ Flush \/ FlushJoined \/ SpawnFails
    PROVE  Effect
<1>1. cur \in Nat /\ next \in Nat
  BY DEF Base, IInv, TypeOK, WalTypeOK
<1>2. cur' = cur /\ next' \in {next, next + 1}
  BY Zenon DEF IngestBoundary, AppendFails, FlushIfAged, Flush, FlushJoined, SpawnFails,
     walVars, WriteFrame, NoWrite, RotateErr, RotateRefused, RotateFailsEarly, RotateFailsSync
<1>3. cur <= cur' /\ next <= next'
  BY <1>1, <1>2
<1>4. UNCHANGED <<uploads, bucket, replying, builder>> /\ pc' \in Serving /\ pc' # "close"
  BY Zenon DEF IngestBoundary, AppendFails, FlushIfAged, Flush, FlushJoined, SpawnFails,
     Serving, Waiting
<1>5. pc \in Serving
  BY Zenon DEF IngestBoundary, AppendFails, AtAppend, FlushIfAged, Flush, FlushJoined,
     SpawnFails, Serving, Waiting
<1> QED  BY Zenon, QuietEffect, <1>3, <1>4, <1>5

\* The open block becomes a task that owns the sealed segment.
LEMMA SpawnUploadEffect ==
    ASSUME Base, UNCHANGED liveVars, SpawnUpload
    PROVE  Effect
<1>1. cur \in Nat /\ next \in Nat /\ cur' = cur + 1 /\ next' = next
  BY DEF Base, IInv, TypeOK, WalTypeOK, SpawnUpload, RotateOk, NoWrite
<1>2. cur <= cur' /\ next <= next'
  BY <1>1
<1>3. pc \in Serving /\ pc' \in Serving /\ pc' # "close"
  BY Zenon DEF SpawnUpload, AfterSpawn, Waiting, Serving
<1>4. Current' \subseteq Current
  BY Zenon, <1>1, <1>3 DEF SpawnUpload, Current, Live, liveVars
<1> DEFINE new == [low |-> low, sealed |-> cur, frames |-> builder, step |-> "put"]
<1>5. uploads' = uploads \cup {new} /\ builder' = {} /\ bucket' = bucket
  BY Zenon DEF SpawnUpload
<1>6. new.frames = builder /\ new.sealed = cur
  BY Zenon
<1> HIDE DEF new
<1>7. Ids' = Ids
  BY Zenon, <1>5 DEF Ids
<1> QED  BY Zenon, <1>2, <1>3, <1>4, <1>5, <1>6, <1>7 DEF Effect

\* A task that moves on or ends, without its PUT.
LEMMA TaskEffect ==
    ASSUME Base, UNCHANGED liveVars, NEW u \in uploads, UNCHANGED bucket,
           \/ UploadFails(u) \/ ReleaseEnds(u) \/ InsertBlock(u)
           \/ \E s \in segs : ReleaseSegment(u, s)
    PROVE  Effect
<1>1. UNCHANGED <<cur, next, pc, builder, replying>>
  BY Zenon DEF UploadFails, ReleaseEnds, InsertBlock, ReleaseSegment, Unlink, walVars, pipeVars
<1>2. cur <= cur' /\ next <= next'
  BY <1>1 DEF Base, IInv, TypeOK, WalTypeOK
<1>3. Current' \subseteq Current /\ Ids' = Ids
  BY Zenon, <1>1 DEF Current, Live, liveVars, Ids
<1>4. \A v \in uploads' : \E w \in uploads : v.frames = w.frames /\ v.sealed = w.sealed
  <2>1. CASE ReleaseEnds(u)
    <3> DEFINE new == [u EXCEPT !.step = "insert"]
    <3>1. uploads' = (uploads \ {u}) \cup {new}
      BY Zenon, <2>1 DEF ReleaseEnds, Step
    <3>2. new.frames = u.frames /\ new.sealed = u.sealed
      BY DEF Base, IInv, TypeOK, Upload
    <3> HIDE DEF new
    <3> QED  BY Zenon, <3>1, <3>2
  <2>2. CASE UploadFails(u) \/ InsertBlock(u) \/ \E s \in segs : ReleaseSegment(u, s)
    BY Zenon, <2>2 DEF UploadFails, InsertBlock, ReleaseSegment, pipeVars
  <2> QED  BY Zenon, <2>1, <2>2
<1>5. pc \in Serving
  BY Zenon DEF Base, IInv, ControlInv
<1> QED  BY Zenon, <1>1, <1>2, <1>3, <1>4, <1>5 DEF Effect

\* The PUT of a task, committed or not known to be.
LEMMA TaskPutEffect ==
    ASSUME Base, UNCHANGED liveVars, NEW u \in uploads, UploadPut(u) \/ UploadFails(u),
           Put(LiveId(u.sealed), u.frames, u.sealed)
    PROVE  Effect
<1>1. UNCHANGED <<cur, next, pc, builder, replying>>
  BY Zenon DEF UploadFails, UploadPut, walVars
<1>2. cur <= cur' /\ next <= next'
  BY <1>1 DEF Base, IInv, TypeOK, WalTypeOK
<1>3. Current' \subseteq Current
  BY Zenon, <1>1 DEF Current, Live, liveVars
<1>4. \A v \in uploads' : \E w \in uploads : v.frames = w.frames /\ v.sealed = w.sealed
  <2>1. CASE UploadPut(u)
    <3>1. PICK step : uploads' = (uploads \ {u}) \cup {[u EXCEPT !.step = step]}
      BY Zenon, <2>1 DEF UploadPut, Step
    <3> DEFINE new == [u EXCEPT !.step = step]
    <3>2. new.frames = u.frames /\ new.sealed = u.sealed
      BY DEF Base, IInv, TypeOK, Upload
    <3> HIDE DEF new
    <3> QED  BY Zenon, <3>1, <3>2 DEF new
  <2>2. CASE UploadFails(u)
    BY Zenon, <2>2 DEF UploadFails
  <2> QED  BY Zenon, <2>1, <2>2
<1>5. pc \in Serving
  BY Zenon DEF Base, IInv, ControlInv
<1>6. /\ LiveId(u.sealed) \notin Ids /\ LiveId(u.sealed).kind = "live"
      /\ LiveId(u.sealed).key = u.sealed
  BY Zenon DEF UploadPut, UploadFails, Base, IInv, IdInv, LiveId
<1> DEFINE new == [id |-> LiveId(u.sealed), frames |-> u.frames, seg |-> u.sealed]
<1>7. /\ bucket \subseteq bucket'
      /\ \A b \in bucket' : b \in bucket \/ b = new
  <2>1. LiveId(u.sealed) \notin Ids
    BY Zenon, <1>6
  <2> QED  BY Zenon, <2>1, PutEffect, FreshPut
<1>8. /\ new.frames = u.frames /\ new.seg = u.sealed /\ new.id.kind = "live"
      /\ new.id.key = u.sealed /\ new.id \notin Ids
  BY Zenon, <1>6
<1> HIDE DEF new
<1>9. /\ \A b \in bucket' :
            \/ b \in bucket
            \/ /\ b.frames = u.frames /\ b.seg = u.sealed /\ b.id.kind = "live"
               /\ b.id.key = u.sealed /\ b.id \notin Ids
      /\ \A b, c \in bucket' : b \in bucket \/ c \in bucket \/ b = c
  BY Zenon, <1>7, <1>8
<1>10. Ids \subseteq Ids'
  BY Zenon, <1>7 DEF Ids
<1> QED  BY Zenon, <1>1, <1>2, <1>3, <1>4, <1>5, <1>7, <1>9, <1>10 DEF Effect

\* All the steps that leave the ring and the query node alone.
LEMMA OtherStepEffect ==
    ASSUME Base, OtherStep
    PROVE  Effect
<1>1. UNCHANGED liveVars
  BY Zenon DEF OtherStep
<1>2. CASE Startup \/ OpenFails
  BY Zenon, <1>1, <1>2, StartupEffect, RecoveryPutEffect
<1>3. CASE \/ IngestBoundary \/ AppendFails \/ FlushIfAged \/ Flush \/ FlushJoined
           \/ SpawnUpload \/ SpawnFails
  BY Zenon, <1>1, <1>3, IngestEffect, SpawnUploadEffect
<1>4. ASSUME NEW u \in uploads, UploadTask(u) \/ UploadFails(u)  PROVE Effect
  <2>1. CASE UploadPut(u) \/ UploadFails(u)
    BY Zenon, <1>1, <2>1, TaskPutEffect, TaskEffect DEF UploadPut, UploadFails
  <2>2. CASE ~UploadPut(u) /\ ~UploadFails(u)
    <3>1. ReleaseEnds(u) \/ InsertBlock(u) \/ \E s \in segs : ReleaseSegment(u, s)
      BY Zenon, <1>4, <2>2 DEF UploadTask
    <3>2. UNCHANGED bucket
      BY Zenon, <3>1 DEF ReleaseEnds, InsertBlock, ReleaseSegment, pipeVars
    <3> QED  BY Zenon, <1>1, <3>1, <3>2, TaskEffect
  <2> QED  BY Zenon, <2>1, <2>2
<1> QED  BY Zenon, <1>2, <1>3, <1>4 DEF OtherStep

-----------------------------------------------------------------------------
(* The invariant.                                                          *)

\* Outside of serving there is nothing a ring could hold.
LEMMA NoCurrent ==
    ASSUME Base, LiveInv, pc \notin Serving
    PROVE  Current = {}
<1>1. Live = {} /\ replying = {} /\ pc # "close"
  BY Zenon DEF Base, IInv, ControlInv, LiveInv, CurrentInv, Serving, Waiting
<1> QED  BY Zenon, <1>1 DEF Current

\* The types the order facts need.
LEMMA LiveTypes ==
    ASSUME Base, LiveInv
    PROVE  /\ cur \in Nat /\ next \in Nat /\ seenHw \in Int
           /\ tag \in [Frame -> Nat]
           /\ builder \subseteq Frame /\ InFlight \subseteq Frame /\ Stored \subseteq Frame
           /\ Current \subseteq Frame
           /\ \A u \in uploads : u.sealed \in Nat
           /\ \A b \in bucket : /\ b.seg \in Int /\ b.frames \subseteq Frame
                                /\ b.id.kind \in {"live", "recovery"}
<1>1. cur \in Nat /\ next \in Nat /\ builder \subseteq Frame /\ replying \subseteq Frame
  BY DEF Base, IInv, TypeOK, WalTypeOK
<1>2. tag \in [Frame -> Nat] /\ seenHw \in Int
  BY DEF LiveInv, LiveTypeOK, NoSeg
<1>3. /\ \A u \in uploads : u.sealed \in Nat /\ u.frames \subseteq Frame
      /\ \A b \in bucket : /\ b.seg \in Int /\ b.frames \subseteq Frame
                           /\ b.id.kind \in {"live", "recovery"}
  BY DEF Base, IInv, TypeOK, Upload, Block, Uuid, NoSeg
<1>4. InFlight \subseteq Frame /\ Stored \subseteq Frame
  BY Zenon, <1>3 DEF InFlight, Stored
<1>5. Current \subseteq Frame
  <2>1. pc = "close" => next - 1 \in Frame
    BY Zenon, <1>1 DEF Base, IInv, ControlInv
  <2> QED  BY Zenon, <1>1, <2>1 DEF Current, LiveInv, LiveTypeOK
<1> QED  BY Zenon, <1>1, <1>2, <1>3, <1>4, <1>5

\* What accounts for a present frame stays: its block, the merges and the
\* staged blocks do.
LEMMA AccountedStays ==
    ASSUME Base, LiveInv, NEW f \in Current, Accounted(f), UNCHANGED query,
           merged \subseteq merged', retired \subseteq retired',
           \A b \in bucket : b.id.kind = "live" => b \in bucket'
    PROVE  Accounted(f)'
<1>1. \A b \in bucket : f \in b.frames => b \in bucket'
  BY Zenon, LiveTypes DEF LiveInv, CurrentInv
<1>2. \A S : f \in FramesOf(S) => \E b \in Committed : b.id \in S /\ f \in b.frames
  BY Zenon DEF FramesOf
<1>3. \A S : (\E b \in Committed' : b.id \in S /\ f \in b.frames) => f \in FramesOf(S)'
  BY Zenon DEF FramesOf
<1>4. \A b \in Committed : f \in b.frames => b \in Committed'
  BY Zenon, <1>1 DEF Committed
<1>5. f \in FramesOf(query.ids) => f \in FramesOf(query.ids)'
  BY Zenon, <1>2, <1>3, <1>4
<1>6. f \in FramesOf(retired) => f \in FramesOf(retired)'
  <2>1. f \in FramesOf(retired) => \E b \in Committed' : b.id \in retired' /\ f \in b.frames
    BY Zenon, <1>2, <1>4
  <2>2. (\E b \in Committed' : b.id \in retired' /\ f \in b.frames) => f \in FramesOf(retired)'
    BY Zenon DEF FramesOf
  <2> QED  BY Zenon, <2>1, <2>2
<1>7. Overtaken(f) => Overtaken(f)'
  BY Zenon DEF Overtaken
<1>8. Outdated(f) => Outdated(f)'
  BY Zenon, <1>1 DEF Outdated
<1> QED  BY Zenon, <1>5, <1>6, <1>7, <1>8 DEF Accounted

\* Blocks of the ingester are told from merged ones by their ids.
LEMMA IdKinds ==
    ASSUME Base, LiveInv
    PROVE  /\ Ids \subseteq AllIds
           /\ \A x \in AllIds : x.kind # "merged" => x \in Ids
           /\ \A b \in bucket : b.id.kind # "merged"
           /\ bucket \cap merged = {}
<1>1. \A b \in bucket : b.id.kind # "merged"
  BY Zenon, LiveTypes
<1>2. \A m \in merged : m.id.kind = "merged"
  BY Zenon DEF LiveInv, MergeInv
<1> QED  BY Zenon, <1>1, <1>2 DEF Ids, AllIds, Committed

\* The shard's own steps keep it.
LEMMA EffectKeeps ==
    ASSUME Base, LiveInv, Effect, TypeOK'
    PROVE  LiveInv'
<1>1. /\ tag' = tag /\ ring' = ring /\ query' = query /\ Live' = Live
      /\ merged' = merged /\ retired' = retired /\ gone' = gone
      /\ seen' = seen /\ hid' = hid /\ known' = known /\ seenHw' = seenHw
  BY Zenon DEF Effect, liveVars, storeVars, nodeVars, Live
<1>2. Current' \subseteq Current
  BY Zenon DEF Effect
<1>3. /\ \A x \in Int : (x <= cur => x <= cur') /\ (x < cur => x < cur')
      /\ \A x \in Int : x < next => x < next'
  <2>1. cur \in Nat /\ cur' \in Nat /\ next \in Nat /\ next' \in Nat
    BY LiveTypes DEF TypeOK, WalTypeOK
  <2> QED  BY <2>1 DEF Effect
<1>4. \A f \in Frame : f \in Int /\ tag[f] \in Int
  BY LiveTypes DEF Frame
<1>5. AllIds \subseteq AllIds'
  <2>1. AllIds = Ids \cup {m.id : m \in merged} /\ AllIds' = Ids' \cup {m.id : m \in merged'}
    BY Zenon DEF AllIds, Committed, Ids
  <2> QED  BY Zenon, <1>1, <2>1 DEF Effect
<1>6. \A b \in bucket' : b \in bucket \/ b.id.kind = "recovery" \/ b.id \notin AllIds
  BY Zenon, IdKinds DEF Effect
<1>7. LiveTypeOK' /\ RingInv'
  BY Zenon, <1>1, <1>5 DEF LiveInv, LiveTypeOK, RingInv
<1>8. StampInv'
  <2>1. pc' \in Serving => \A f \in builder' : tag'[f] <= cur'
    BY Zenon, <1>1, <1>3, <1>4, LiveTypes DEF Effect, LiveInv, StampInv
  <2>2. \A u \in uploads' : \A f \in u.frames : tag'[f] <= u.sealed
    BY Zenon, <1>1 DEF Effect, LiveInv, StampInv
  <2>3. \A b \in bucket' : b.id.kind = "live" =>
          b.seg = b.id.key /\ \A f \in b.frames : tag'[f] <= b.seg
    BY Zenon, <1>1 DEF Effect, LiveInv, StampInv
  <2> QED  BY Zenon, <2>1, <2>2, <2>3 DEF StampInv
<1>9. CurrentInv'
  <2>1. pc' \notin Serving => Live' = {}
    BY Zenon, <1>1 DEF Effect, LiveInv, CurrentInv
  <2>2. \A f \in Current' : f < next'
    BY Zenon, <1>2, <1>3, <1>4, LiveTypes DEF LiveInv, CurrentInv
  <2>3. ASSUME NEW b \in bucket', b.id.kind = "recovery"  PROVE b.frames \cap Current' = {}
    <3>1. CASE b \in bucket
      BY Zenon, <2>3, <3>1, <1>2 DEF LiveInv, CurrentInv
    <3>2. CASE pc \notin Serving
      BY Zenon, <3>2, <1>2, NoCurrent
    <3> QED  BY Zenon, <2>3, <3>1, <3>2 DEF Effect
  <2> QED  BY Zenon, <2>1, <2>2, <2>3 DEF CurrentInv
<1>10. OrderInv'
  <2>1. pc' \in Serving => \A f \in Current' : f \in builder' \/ \A g \in builder' : f < g
    BY Zenon, <1>2 DEF Effect, LiveInv, OrderInv
  <2>2. ASSUME NEW f \in Current', NEW u \in uploads', tag'[f] <= u.sealed
        PROVE  f \in u.frames \/ \A g \in u.frames : f < g
    BY Zenon, <1>1, <1>2, <2>2 DEF Effect, LiveInv, OrderInv
  <2>3. ASSUME NEW f \in Current', NEW b \in bucket', tag'[f] <= b.seg
        PROVE  b.id.kind = "live" /\ (f \in b.frames \/ \A g \in b.frames : f < g)
    <3>1. CASE b \in bucket
      BY Zenon, <1>1, <1>2, <2>3, <3>1 DEF LiveInv, OrderInv
    <3>2. CASE pc \notin Serving
      BY Zenon, <3>2, <1>2, NoCurrent
    <3>3. ASSUME NEW v \in uploads, b.frames = v.frames, b.seg = v.sealed, b.id.kind = "live"
          PROVE  b.id.kind = "live" /\ (f \in b.frames \/ \A g \in b.frames : f < g)
      <4>1. f \in v.frames \/ \A g \in v.frames : f < g
        BY Zenon, <1>1, <1>2, <2>3, <3>3 DEF LiveInv, OrderInv
      <4> QED  BY Zenon, <4>1, <3>3
    <3> QED  BY Zenon, <3>1, <3>2, <3>3 DEF Effect
  <2> QED  BY Zenon, <2>1, <2>2, <2>3 DEF OrderInv
<1>11. MergeInv'
  <2>1. \A m \in merged' : m.id.kind = "merged" /\ m.id.key = m.from /\ m.from \subseteq AllIds'
    BY Zenon, <1>1, <1>5 DEF LiveInv, MergeInv
  <2>2. \A m, n \in merged' : (m.id = n.id => m = n) /\ (n.id \in m.from => n.frames \subseteq m.frames)
    BY Zenon, <1>1 DEF LiveInv, MergeInv
  <2>3. ASSUME NEW b \in bucket', NEW c \in bucket', b.id.kind = "live", b.id = c.id
        PROVE  b.frames = c.frames
    <3>1. CASE b \in bucket /\ c \in bucket
      BY Zenon, <2>3, <3>1 DEF LiveInv, MergeInv
    <3>2. CASE b \in bucket <=> c \notin bucket
      <4>1. \A d \in bucket : d.id \in AllIds
        BY Zenon DEF AllIds, Committed
      <4> QED  BY Zenon, <2>3, <3>2, <4>1, <1>6
    <3> QED  BY Zenon, <3>1, <3>2 DEF Effect
  <2>4. ASSUME NEW m \in merged', NEW b \in bucket', b.id.kind = "live", b.id \in m.from
        PROVE  b.frames \subseteq m.frames
    <3>1. b \in bucket
      BY Zenon, <2>4, <1>1, <1>6 DEF LiveInv, MergeInv
    <3> QED  BY Zenon, <2>4, <3>1, <1>1 DEF LiveInv, MergeInv
  <2>5. \A m \in merged' : \A x \in m.from : \E t \in merged' : x \in t.from /\ ~Replaced(t)'
    BY Zenon, <1>1 DEF LiveInv, MergeInv, Replaced
  <2> QED  BY Zenon, <2>1, <2>2, <2>3, <2>4, <2>5 DEF MergeInv
<1>12. RowInv'
  BY Zenon, <1>1 DEF LiveInv, RowInv, Withdrawn
<1>13. SeenInv'
  <2>1. seenHw' < cur'
    BY Zenon, <1>1, <1>3, LiveTypes DEF LiveInv, SeenInv
  <2>2. \A b \in bucket' : b.id \in known' /\ b.id.kind = "live" => b.seg <= seenHw'
    <3>1. \A b \in bucket' : b.id \in known /\ b.id.kind = "live" => b \in bucket
      BY Zenon, <1>6 DEF LiveInv, LiveTypeOK
    <3> QED  BY Zenon, <3>1, <1>1 DEF LiveInv, SeenInv
  <2>3. \A f \in Current' : tag'[f] <= seenHw' =>
          \E b \in bucket' : b.id \in known' /\ b.id.kind = "live" /\ b.seg = seenHw'
    BY Zenon, <1>1, <1>2 DEF Effect, LiveInv, SeenInv
  <2> QED  BY Zenon, <2>1, <2>2, <2>3 DEF SeenInv
<1>14. QueryInv'
  <2> SUFFICES ASSUME query.on
               PROVE  /\ query.hw \in Int /\ query.hw < cur' /\ query.known \subseteq AllIds'
                      /\ \A f \in Current', b \in bucket' :
                           f \in b.frames /\ b.id \in query.known => IsDurable(f, query.hw)
                      /\ \A f \in Current' : ~IsDurable(f, query.hw) \/ Accounted(f)'
    BY Zenon, <1>1 DEF QueryInv, IsDurable
  <2>1. query.hw \in Int /\ query.known \subseteq AllIds
    BY Zenon DEF LiveInv, QueryInv
  <2>2. query.hw < cur' /\ query.known \subseteq AllIds'
    BY Zenon, <1>3, <1>5, <2>1 DEF LiveInv, QueryInv
  <2>3. ASSUME NEW f \in Current', NEW b \in bucket', f \in b.frames, b.id \in query.known
        PROVE  IsDurable(f, query.hw)
    <3>1. b.id.kind # "recovery"
      BY Zenon, <2>3, <1>9 DEF CurrentInv
    <3>2. b \in bucket
      BY Zenon, <2>1, <2>3, <3>1, <1>6
    <3> QED  BY Zenon, <2>3, <3>2, <1>2 DEF LiveInv, QueryInv
  <2>4. ASSUME NEW f \in Current', IsDurable(f, query.hw)
        PROVE  Accounted(f)'
    <3>1. f \in Current /\ Accounted(f)
      BY Zenon, <2>4, <1>2 DEF LiveInv, QueryInv
    <3>2. \A b \in bucket : b.id.kind = "live" => b \in bucket'
      BY Zenon DEF Effect
    <3> QED  BY Zenon, <3>1, <3>2, <1>1, AccountedStays
  <2> QED  BY Zenon, <2>1, <2>2, <2>3, <2>4
<1> QED  BY Zenon, <1>7, <1>8, <1>9, <1>10, <1>11, <1>12, <1>13, <1>14 DEF LiveInv

\* The other steps of LiveNext leave blocks, tasks and the builder alone, or
\* forget them.  The stamped frame is newer than everything else.
LEMMA IngestTaggedKeeps ==
    ASSUME Base, LiveInv, IngestTagged, TypeOK'
    PROVE  LiveInv'
<1>1. /\ tag' = [tag EXCEPT ![next] = cur] /\ ring' = ring /\ query' = query /\ Live' = Live
      /\ merged' = merged /\ retired' = retired /\ gone' = gone
      /\ seen' = seen /\ hid' = hid /\ known' = known /\ seenHw' = seenHw
  BY Zenon DEF IngestTagged, Live, storeVars, nodeVars
<1>2. next \in Frame /\ next' = next + 1 /\ pc \in Serving /\ pc' \in Serving
  <2>1. next \in Frame
    BY DEF IngestTagged, IngestFrame, AtAppend, Base, IInv, TypeOK, WalTypeOK, Frame
  <2>2. pc \in Serving /\ pc' \in Serving /\ next' = next + 1
    BY Zenon DEF IngestTagged, IngestFrame, AtAppend, WriteFrame, Serving, Waiting
  <2> QED  BY Zenon, <2>1, <2>2
<1>3. tag'[next] = cur /\ \A f \in Frame : f # next => tag'[f] = tag[f]
  BY Zenon, <1>1, <1>2, LiveTypes
<1>4. cur' \in {cur, cur + 1} /\ UNCHANGED <<uploads, bucket>> /\ builder' = builder \cup {next}
  BY Zenon DEF IngestTagged, IngestFrame, RotateOk
<1>5. Current' \subseteq Current \cup {next}
  <2>1. pc' = "close" => next' - 1 = next
    BY <1>2 DEF Frame
  <2>2. replying' \subseteq replying \cup {next}
    BY Zenon DEF IngestTagged, IngestFrame
  <2> QED  BY Zenon, <1>1, <2>1, <2>2 DEF Current
<1>6. /\ cur \in Nat /\ cur <= cur' /\ next \in Nat /\ next < next'
      /\ \A x \in Int : (x < cur => x < cur') /\ (x <= cur => x <= cur')
      /\ \A x \in Int : x < next => x < next'
      /\ \A f \in Frame : f \in Int /\ tag[f] \in Int
  <2>1. cur \in Nat /\ next \in Nat /\ \A f \in Frame : f \in Int /\ tag[f] \in Int
    BY LiveTypes DEF Frame
  <2> QED  BY <2>1, <1>2, <1>4
<1>7. /\ \A f \in builder \cup InFlight \cup Stored \cup Current : f \in Frame /\ f < next /\ f # next
  <2>1. \A f \in builder \cup InFlight \cup Stored \cup Current : f \in Frame /\ f < next
    <3>1. \A f \in builder \cup InFlight \cup Stored : f < next
      BY Zenon DEF Base, IInv, ControlInv, HeldInv, InFlight
    <3>2. \A f \in Current : f < next
      BY Zenon DEF LiveInv, CurrentInv
    <3> QED  BY Zenon, <3>1, <3>2, LiveTypes
  <2> QED  BY <2>1, <1>6
<1>8. /\ \A u \in uploads : u.frames \subseteq InFlight /\ u.sealed < cur /\ u.sealed \in Int
      /\ \A b \in bucket : b.frames \subseteq Stored /\ b.seg < cur /\ b.seg \in Int
  <2>1. \A u \in uploads : u.frames \subseteq InFlight /\ u.sealed < cur /\ u.sealed \in Nat
    BY Zenon, LiveTypes DEF InFlight, Base, IInv, DisjointRanges
  <2>2. \A b \in bucket : b.frames \subseteq Stored /\ b.seg < cur /\ b.seg \in Int
    BY Zenon, LiveTypes DEF Stored, Base, IInv, IdInv
  <2> QED  BY <2>1, <2>2
<1>9. \A x \in Int : x < cur => ~(tag'[next] <= x)
  BY <1>3, <1>6
<1>10. LiveTypeOK' /\ RingInv'
  <2>1. tag' \in [Frame -> Nat]
    BY <1>1, <1>6, LiveTypes
  <2> QED  BY Zenon, <1>1, <1>4, <2>1 DEF LiveInv, LiveTypeOK, RingInv, AllIds, Committed
<1>11. StampInv'
  <2>1. \A f \in builder' : tag'[f] <= cur'
    <3>1. \A f \in builder : tag'[f] <= cur'
      BY Zenon, <1>2, <1>3, <1>6, <1>7 DEF LiveInv, StampInv
    <3> QED  BY Zenon, <3>1, <1>3, <1>4, <1>6
  <2>2. \A u \in uploads' : \A f \in u.frames : tag'[f] <= u.sealed
    BY Zenon, <1>3, <1>4, <1>7, <1>8 DEF LiveInv, StampInv
  <2>3. \A b \in bucket' : b.id.kind = "live" =>
          b.seg = b.id.key /\ \A f \in b.frames : tag'[f] <= b.seg
    BY Zenon, <1>3, <1>4, <1>7, <1>8 DEF LiveInv, StampInv
  <2> QED  BY Zenon, <2>1, <2>2, <2>3 DEF StampInv
<1>12. CurrentInv'
  <2>1. \A f \in Current' : f < next'
    BY Zenon, <1>5, <1>6, <1>7
  <2>2. \A b \in bucket' : b.id.kind = "recovery" => b.frames \cap Current' = {}
    BY Zenon, <1>4, <1>5, <1>7, <1>8 DEF LiveInv, CurrentInv
  <2> QED  BY Zenon, <1>2, <2>1, <2>2 DEF CurrentInv
<1>13. OrderInv'
  <2>1. \A f \in Current' : f \in builder' \/ \A g \in builder' : f < g
    <3>1. \A f \in Current : f \in builder' \/ \A g \in builder' : f < g
      BY Zenon, <1>2, <1>4, <1>7 DEF LiveInv, OrderInv
    <3> QED  BY Zenon, <3>1, <1>4, <1>5
  <2>2. ASSUME NEW f \in Current', NEW u \in uploads', tag'[f] <= u.sealed
        PROVE  f \in u.frames \/ \A g \in u.frames : f < g
    <3>1. f # next
      BY Zenon, <1>4, <1>8, <1>9, <2>2
    <3>2. f \in Current /\ tag[f] <= u.sealed
      BY Zenon, <3>1, <1>3, <1>5, <1>7, <2>2
    <3> QED  BY Zenon, <3>2, <1>4 DEF LiveInv, OrderInv
  <2>3. ASSUME NEW f \in Current', NEW b \in bucket', tag'[f] <= b.seg
        PROVE  b.id.kind = "live" /\ (f \in b.frames \/ \A g \in b.frames : f < g)
    <3>1. f # next
      BY Zenon, <1>4, <1>8, <1>9, <2>3
    <3>2. f \in Current /\ tag[f] <= b.seg
      BY Zenon, <3>1, <1>3, <1>5, <1>7, <2>3
    <3> QED  BY Zenon, <3>2, <1>4 DEF LiveInv, OrderInv
  <2> QED  BY Zenon, <2>1, <2>2, <2>3 DEF OrderInv
<1>14. MergeInv' /\ RowInv'
  BY Zenon, <1>1, <1>4 DEF LiveInv, MergeInv, RowInv, Withdrawn, Replaced, AllIds, Committed
<1>15. SeenInv'
  <2>1. seenHw \in Int /\ seenHw < cur
    BY Zenon, LiveTypes DEF LiveInv, SeenInv
  <2>2. seenHw' < cur'
    BY Zenon, <1>1, <1>6, <2>1
  <2>3. \A b \in bucket' : b.id \in known' /\ b.id.kind = "live" => b.seg <= seenHw'
    BY Zenon, <1>1, <1>4 DEF LiveInv, SeenInv
  <2>4. ASSUME NEW f \in Current', tag'[f] <= seenHw'
        PROVE  \E b \in bucket' : b.id \in known' /\ b.id.kind = "live" /\ b.seg = seenHw'
    <3>1. f # next
      BY Zenon, <1>1, <1>9, <2>1, <2>4
    <3>2. f \in Current /\ tag[f] <= seenHw
      BY Zenon, <3>1, <1>1, <1>3, <1>5, <1>7, <2>4
    <3> QED  BY Zenon, <3>2, <1>1, <1>4 DEF LiveInv, SeenInv
  <2> QED  BY Zenon, <2>2, <2>3, <2>4 DEF SeenInv
<1>16. QueryInv'
  <2> SUFFICES ASSUME query.on
               PROVE  /\ query.hw \in Int /\ query.hw < cur' /\ query.known \subseteq AllIds'
                      /\ \A f \in Current', b \in bucket' :
                           f \in b.frames /\ b.id \in query.known => IsDurable(f, query.hw)'
                      /\ \A f \in Current' : ~IsDurable(f, query.hw)' \/ Accounted(f)'
    BY Zenon, <1>1 DEF QueryInv, IsDurable
  <2>1. query.hw \in Int /\ query.hw < cur /\ query.known \subseteq AllIds
    BY Zenon DEF LiveInv, QueryInv
  <2>2. query.hw < cur' /\ query.known \subseteq AllIds'
    BY Zenon, <2>1, <1>1, <1>4, <1>6 DEF AllIds, Committed
  <2>3. \A f \in Current : IsDurable(f, query.hw)' <=> IsDurable(f, query.hw)
    BY Zenon, <1>1, <1>3, <1>7 DEF IsDurable
  <2>4. \A f \in Current', b \in bucket' :
           f \in b.frames /\ b.id \in query.known => IsDurable(f, query.hw)'
    BY Zenon, <1>4, <1>5, <1>7, <1>8, <2>3 DEF LiveInv, QueryInv
  <2>5. ~(tag'[next] <= query.hw)
    BY Zenon, <1>9, <2>1
  <2>6. ASSUME NEW f \in Current', IsDurable(f, query.hw)'
        PROVE  Accounted(f)'
    <3>1. f # next
      BY Zenon, <2>5, <2>6, <1>1 DEF IsDurable
    <3>2. f \in Current /\ Accounted(f)
      BY Zenon, <3>1, <1>5, <2>3, <2>6 DEF LiveInv, QueryInv
    <3> QED  BY Zenon, <3>2, <1>1, <1>4, AccountedStays
  <2> QED  BY Zenon, <2>1, <2>2, <2>4, <2>6
<1> QED  BY Zenon, <1>10, <1>11, <1>12, <1>13, <1>14, <1>15, <1>16 DEF LiveInv

\* push_stamped evicts from the front of the ring.
LEMMA PushLive ==
    ASSUME ring \in Seq(Frame), NEW f \in Frame,
           NEW pushed, pushed = Append(ring, f), NEW n \in 0..Len(pushed),
           ring' = SubSeq(pushed, n + 1, Len(pushed))
    PROVE  ring' \in Seq(Frame) /\ Live' \subseteq Live \cup {f}
<1>1. /\ pushed \in Seq(Frame) /\ Len(pushed) = Len(ring) + 1 /\ Len(ring) \in Nat
      /\ \A i \in 1..Len(pushed) : pushed[i] \in Live \cup {f} /\ pushed[i] \in Frame
  BY DEF Live
<1>2. ring' \in Seq(Frame)
  BY <1>1
<1>3. \A i \in DOMAIN ring' : n + i \in 1..Len(pushed) /\ ring'[i] = pushed[n + i]
  BY <1>1
<1>4. Live' \subseteq Live \cup {f}
  <2>1. \A i \in DOMAIN ring' : ring'[i] \in Live \cup {f}
    BY Zenon, <1>1, <1>3
  <2> QED  BY Zenon, <2>1 DEF Live
<1> QED  BY Zenon, <1>2, <1>4

\* A step after which fewer frames are in the ring or on the way to it, and
\* the blocks and the query are as they were.
LEMMA FewerKeeps ==
    ASSUME Base, LiveInv, LiveTypeOK', RingInv', Current' \subseteq Current,
           UNCHANGED <<tag, storeVars, nodeVars, query, bucket, next, cur>>,
           pc' \notin Serving => Live' = {},
           pc' \in Serving => pc \in Serving /\ builder' = builder,
           uploads' \subseteq uploads
    PROVE  LiveInv'
<1>1. StampInv'
  BY Zenon DEF LiveInv, StampInv
<1>2. CurrentInv'
  BY Zenon DEF LiveInv, CurrentInv
<1>3. OrderInv'
  BY Zenon DEF LiveInv, OrderInv
<1>4. MergeInv' /\ RowInv' /\ SeenInv'
  BY Zenon DEF LiveInv, MergeInv, RowInv, SeenInv, Withdrawn, Replaced, AllIds, Committed,
     storeVars, nodeVars
<1>5. QueryInv'
  <2>1. \A f \in Current : Accounted(f) => Accounted(f)'
    BY Zenon, AccountedStays DEF storeVars
  <2>2. AllIds' = AllIds
    BY Zenon DEF AllIds, Committed, storeVars
  <2> QED  BY Zenon, <2>1, <2>2 DEF LiveInv, QueryInv, IsDurable
<1> QED  BY Zenon, <1>1, <1>2, <1>3, <1>4, <1>5 DEF LiveInv

\* The push to the ring and the acknowledgement.
LEMMA PushAndAckKeeps ==
    ASSUME Base, LiveInv, PushAndAck, TypeOK'
    PROVE  LiveInv'
<1>1. PICK f \in replying :
        /\ Ack(f)
        /\ LET pushed == Append(ring, f)
           IN  \E n \in 0..Len(pushed) : ring' = SubSeq(pushed, n + 1, Len(pushed))
        /\ UNCHANGED <<tag, storeVars, nodeVars, query>>
  BY Zenon DEF PushAndAck
<1>2. PICK pushed : /\ pushed = Append(ring, f)
                    /\ \E n \in 0..Len(pushed) : ring' = SubSeq(pushed, n + 1, Len(pushed))
  BY Zenon, <1>1
<1>3. PICK n \in 0..Len(pushed) : ring' = SubSeq(pushed, n + 1, Len(pushed))
  BY Zenon, <1>2
<1>4. f \in Frame /\ ring \in Seq(Frame)
  BY Zenon DEF Base, IInv, TypeOK, LiveInv, RingInv
<1>5. ring' \in Seq(Frame) /\ Live' \subseteq Live \cup {f}
  <2>1. pushed = Append(ring, f)
    BY Zenon, <1>2
  <2> HIDE <1>2
  <2> QED  BY Zenon, <2>1, <1>3, <1>4, PushLive
<1>6. /\ UNCHANGED <<pc, builder, uploads, bucket, next, cur>>
      /\ replying' = replying \ {f}
  BY Zenon, <1>1 DEF Ack, walVars
<1>7. Current' \subseteq Current
  BY Zenon, <1>5, <1>6 DEF Current
<1>8. Live \subseteq Frame
  BY Zenon DEF LiveInv, LiveTypeOK
<1>9. LiveTypeOK' /\ RingInv'
  BY Zenon, <1>1, <1>4, <1>5, <1>6, <1>8 DEF LiveInv, LiveTypeOK, RingInv, AllIds, Committed,
     storeVars, nodeVars
<1>10. pc \in Serving
  BY Zenon DEF Base, IInv, ControlInv
<1> QED  BY Zenon, FewerKeeps, <1>1, <1>6, <1>7, <1>9, <1>10

\* The ring dies with the process.
LEMMA ProcessDiesKeeps ==
    ASSUME Base, LiveInv, ProcessDies, TypeOK'
    PROVE  LiveInv'
<1>1. /\ UNCHANGED <<tag, storeVars, nodeVars, query, bucket, next, cur>>
      /\ pc' = "down" /\ replying' = {} /\ uploads' = {} /\ ring' = <<>>
  BY Zenon DEF ProcessDies, Crash, Truncate
<1>2. Live' = {} /\ ring' \in Seq(Frame)
  BY <1>1 DEF Live
<1>3. LiveTypeOK' /\ RingInv'
  BY Zenon, <1>1, <1>2 DEF LiveInv, LiveTypeOK, RingInv, AllIds, Committed, storeVars, nodeVars
<1>4. pc' \notin Serving /\ pc' # "close"
  BY Zenon, <1>1 DEF Serving, Waiting
<1>5. Current' \subseteq Current
  BY Zenon, <1>1, <1>2, <1>4 DEF Current
<1> QED  BY Zenon, FewerKeeps, <1>1, <1>2, <1>3, <1>4, <1>5

\* A step of the maintainers or of the query node leaves the shard alone.
LEMMA ShardStill ==
    ASSUME Base, LiveInv, UNCHANGED <<vars, tag, ring>>
    PROVE  /\ UNCHANGED <<bucket, cur>> /\ Live' = Live /\ Current' = Current
           /\ TypeOK' /\ RingInv' /\ StampInv' /\ CurrentInv' /\ OrderInv'
<1>1. UNCHANGED <<pc, builder, uploads, bucket, next, cur, replying>>
  BY Zenon DEF vars, walVars, pipeVars
<1>2. Live' = Live /\ Current' = Current
  BY Zenon, <1>1 DEF Live, Current
<1>3. TypeOK'
  BY Zenon DEF vars, walVars, pipeVars, Base, IInv, TypeOK, WalTypeOK
<1>4. RingInv' /\ StampInv' /\ CurrentInv' /\ OrderInv'
  BY Zenon, <1>1, <1>2 DEF LiveInv, RingInv, StampInv, CurrentInv, OrderInv
<1> QED  BY Zenon, <1>1, <1>2, <1>3, <1>4

\* A running query is not disturbed by more merges or more staged blocks.
LEMMA QueryStays ==
    ASSUME Base, LiveInv, UNCHANGED <<vars, tag, ring, query>>,
           merged \subseteq merged', retired \subseteq retired'
    PROVE  QueryInv'
<1>1. UNCHANGED <<bucket, cur>> /\ Current' = Current
  BY Zenon, ShardStill
<1>2. \A f \in Current : Accounted(f) => Accounted(f)'
  BY Zenon, <1>1, AccountedStays
<1>3. AllIds \subseteq AllIds'
  BY Zenon, <1>1 DEF AllIds, Committed
<1> QED  BY Zenon, <1>1, <1>2, <1>3 DEF LiveInv, QueryInv, IsDurable

LEMMA MergesStay ==
    ASSUME Base, LiveInv, UNCHANGED <<vars, tag, ring, merged>>
    PROVE  MergeInv' /\ AllIds' = AllIds
<1>1. UNCHANGED bucket
  BY Zenon, ShardStill
<1>2. AllIds' = AllIds
  BY Zenon, <1>1 DEF AllIds, Committed
<1> QED  BY Zenon, <1>1, <1>2 DEF LiveInv, MergeInv, Replaced

\* A merge is new, holds what its inputs held, and is the top of all of them.
LEMMA CompactKeeps ==
    ASSUME Base, LiveInv, NEW S \in SUBSET Committed, Compact(S)
    PROVE  LiveInv'
<1>0. PICK from, m :
        /\ from = UNION {{b.id} \cup FromOf(b) : b \in S}
        /\ m = [id |-> [kind |-> "merged", key |-> from], from |-> from,
                frames |-> UNION {b.frames : b \in S}, seg |-> NoSeg,
                level |-> 1 + LevelOf(CHOOSE b \in S : TRUE)]
        /\ merged' = merged \cup {m}
  BY Zenon DEF Compact
<1>1. /\ merged' = merged \cup {m} /\ UNCHANGED <<vars, tag, ring, retired, gone, nodeVars, query>>
      /\ S # {} /\ \A b \in S : ~Replaced(b)
  BY Zenon, <1>0 DEF Compact
<1>2. /\ m.id.kind = "merged" /\ m.id.key = from /\ m.from = from
      /\ m.frames = UNION {b.frames : b \in S} /\ m.seg = NoSeg
  BY Zenon, <1>0
<1>3. /\ \A b \in S : b.id \in from /\ FromOf(b) \subseteq from
      /\ \A x \in from : \E b \in S : x = b.id \/ x \in FromOf(b)
  <2>1. from = UNION {{b.id} \cup FromOf(b) : b \in S}
    BY Zenon, <1>0
  <2>2. ASSUME NEW x \in from  PROVE \E b \in S : x = b.id \/ x \in FromOf(b)
    BY Zenon, <2>1
  <2>3. ASSUME NEW b \in S, NEW x \in {b.id} \cup FromOf(b)  PROVE x \in from
    BY Zenon, <2>1
  <2> QED  BY Zenon, <2>2, <2>3
<1> HIDE <1>0
<1>4. \A b \in S : b.frames \subseteq m.frames
  BY Zenon, <1>2
<1>5. /\ UNCHANGED <<bucket, cur>> /\ Live' = Live /\ Current' = Current
      /\ TypeOK' /\ RingInv' /\ StampInv' /\ CurrentInv' /\ OrderInv'
  BY Zenon, <1>1, ShardStill
<1>6. from \subseteq AllIds
  <2>1. \A b \in S : b.id \in AllIds /\ FromOf(b) \subseteq AllIds
    BY Zenon DEF AllIds, FromOf, LiveInv, MergeInv
  <2> QED  BY Zenon, <1>3, <2>1
<1>7. m.id \notin AllIds
  <2>1. \A b \in bucket : b.id # m.id
    BY Zenon, <1>2, IdKinds
  <2>2. ASSUME NEW n \in merged, n.id = m.id  PROVE FALSE
    <3>1. n.from = from
      BY Zenon, <2>2, <1>2 DEF LiveInv, MergeInv
    <3> QED  BY Zenon, <3>1, <1>1, <1>3 DEF Replaced
  <2> QED  BY Zenon, <2>1, <2>2 DEF AllIds, Committed
<1>8. AllIds' = AllIds \cup {m.id}
  BY Zenon, <1>1, <1>5 DEF AllIds, Committed
<1>9. LiveTypeOK'
  <2>1. \A b \in Committed : b.frames \subseteq Frame
    BY Zenon, LiveTypes DEF Committed, LiveInv, LiveTypeOK
  <2>2. m.frames \subseteq Frame
    BY Zenon, <2>1, <1>2
  <2> QED  BY Zenon, <2>2, <1>1, <1>2, <1>5, <1>8 DEF LiveInv, LiveTypeOK, nodeVars
<1>10. MergeInv'
  <2>1. \A n \in merged' : n.id.kind = "merged" /\ n.id.key = n.from /\ n.from \subseteq AllIds'
    BY Zenon, <1>1, <1>2, <1>6, <1>8 DEF LiveInv, MergeInv
  <2>2. \A n \in merged : n.id \in AllIds /\ n.from \subseteq AllIds
    BY Zenon DEF AllIds, Committed, LiveInv, MergeInv
  <2>3. \A n, k \in merged' : n.id = k.id => n = k
    BY Zenon, <1>1, <1>7, <2>2 DEF LiveInv, MergeInv
  <2>4. ASSUME NEW b \in bucket', b.id.kind = "live", NEW n \in merged', b.id \in n.from
        PROVE  b.frames \subseteq n.frames
    <3>1. CASE n \in merged
      BY Zenon, <2>4, <3>1, <1>5 DEF LiveInv, MergeInv
    <3>2. CASE n = m
      <4>1. PICK c \in S : b.id = c.id \/ b.id \in FromOf(c)
        BY Zenon, <2>4, <3>2, <1>2, <1>3
      <4>2. b.frames \subseteq c.frames
        <5>1. CASE c \in merged
          <6>1. b.id # c.id
            BY Zenon, <2>4, <5>1 DEF LiveInv, MergeInv
          <6> QED  BY Zenon, <2>4, <4>1, <5>1, <6>1, <1>5 DEF FromOf, LiveInv, MergeInv
        <5>2. CASE c \in bucket /\ c \notin merged
          <6>1. b.id = c.id /\ b \in bucket
            BY Zenon, <4>1, <5>2, <1>5 DEF FromOf
          <6> QED  BY Zenon, <2>4, <5>2, <6>1 DEF LiveInv, MergeInv
        <5> QED  BY Zenon, <5>1, <5>2 DEF Committed
      <4> QED  BY Zenon, <4>2, <3>2, <1>4
    <3> QED  BY Zenon, <3>1, <3>2, <1>1
  <2>5. ASSUME NEW k \in merged', NEW n \in merged', n.id \in k.from
        PROVE  n.frames \subseteq k.frames
    <3>1. n \in merged
      BY Zenon, <2>2, <2>5, <1>1, <1>2, <1>6, <1>7
    <3>2. CASE k \in merged
      BY Zenon, <2>5, <3>1, <3>2 DEF LiveInv, MergeInv
    <3>3. CASE k = m
      <4>1. PICK c \in S : n.id = c.id \/ n.id \in FromOf(c)
        BY Zenon, <2>5, <3>3, <1>2, <1>3
      <4>2. c \in merged
        BY Zenon, <3>1, <4>1, IdKinds DEF Committed, FromOf, LiveInv, MergeInv
      <4>3. n.frames \subseteq c.frames
        BY Zenon, <3>1, <4>1, <4>2 DEF FromOf, LiveInv, MergeInv
      <4> QED  BY Zenon, <4>3, <3>3, <1>4
    <3> QED  BY Zenon, <3>2, <3>3, <1>1
  <2>6. ~Replaced(m)'
    BY Zenon, <2>2, <1>1, <1>2, <1>6, <1>7 DEF Replaced
  <2>7. ASSUME NEW n \in merged', NEW x \in n.from
        PROVE  \E t \in merged' : x \in t.from /\ ~Replaced(t)'
    <3>1. CASE x \in from
      BY Zenon, <3>1, <2>6, <1>1, <1>2
    <3>2. CASE x \notin from
      <4>1. n \in merged
        BY Zenon, <3>2, <1>1, <1>2
      <4>2. PICK t \in merged : x \in t.from /\ ~Replaced(t)
        BY Zenon, <4>1 DEF LiveInv, MergeInv
      <4>3. t.id \notin from
        <5>1. ASSUME NEW c \in S, t.id = c.id \/ t.id \in FromOf(c)  PROVE FALSE
          <6>1. c \in merged
            BY Zenon, <5>1, IdKinds DEF Committed, FromOf, LiveInv, MergeInv
          <6>2. t.id = c.id
            BY Zenon, <5>1, <6>1, <4>2 DEF FromOf, Replaced
          <6>3. t = c
            BY Zenon, <6>1, <6>2 DEF LiveInv, MergeInv
          <6> QED  BY Zenon, <6>1, <6>3, <4>2, <3>2, <1>3 DEF FromOf
        <5> QED  BY Zenon, <5>1, <1>3
      <4>4. ~Replaced(t)'
        BY Zenon, <4>2, <4>3, <1>1, <1>2 DEF Replaced
      <4> QED  BY Zenon, <4>2, <4>4, <1>1
    <3> QED  BY Zenon, <3>1, <3>2
  <2>8. \A b, c \in bucket' : b.id.kind = "live" /\ b.id = c.id => b.frames = c.frames
    BY Zenon, <1>5 DEF LiveInv, MergeInv
  <2> QED  BY Zenon, <2>1, <2>3, <2>4, <2>5, <2>7, <2>8 DEF MergeInv
<1>11. RowInv' /\ SeenInv'
  BY Zenon, <1>1, <1>5 DEF LiveInv, RowInv, SeenInv, Withdrawn, nodeVars
<1>12. QueryInv'
  BY Zenon, <1>1, QueryStays
<1> QED  BY Zenon, <1>5, <1>9, <1>10, <1>11, <1>12 DEF LiveInv

\* Staging, and the deletion of objects.
LEMMA RetireReapKeeps ==
    ASSUME Base, LiveInv, NEW b \in Committed, Retire(b) \/ Reap(b)
    PROVE  LiveInv'
<1>1. /\ UNCHANGED <<vars, tag, ring, merged, nodeVars, query>>
      /\ retired \subseteq retired' /\ retired' \subseteq retired \cup {b.id}
      /\ gone' \subseteq gone \cup {b.id}
      /\ gone' # gone => Replaced(b) \/ b.id \in retired
  BY Zenon DEF Retire, Reap
<1>2. /\ UNCHANGED <<bucket, cur>> /\ Live' = Live /\ Current' = Current
      /\ TypeOK' /\ RingInv' /\ StampInv' /\ CurrentInv' /\ OrderInv'
  BY Zenon, <1>1, ShardStill
<1>3. MergeInv' /\ AllIds' = AllIds /\ QueryInv'
  BY Zenon, <1>1, MergesStay, QueryStays
<1>4. b.id \in AllIds
  BY Zenon DEF AllIds
<1>5. LiveTypeOK'
  BY Zenon, <1>1, <1>2, <1>3, <1>4 DEF LiveInv, LiveTypeOK, nodeVars
<1>6. RowInv'
  BY Zenon, <1>1 DEF LiveInv, RowInv, Withdrawn, Replaced, nodeVars
<1>7. SeenInv'
  BY Zenon, <1>1, <1>2 DEF LiveInv, SeenInv, nodeVars
<1> QED  BY Zenon, <1>2, <1>3, <1>5, <1>6, <1>7 DEF LiveInv

\* A block reaches the query node, for the first time or again.
LEMMA LearnBlockKeeps ==
    ASSUME Base, LiveInv, NEW b \in Committed, LearnBlock(b)
    PROVE  LiveInv'
<1>1. /\ UNCHANGED <<vars, tag, ring, query>> /\ UNCHANGED <<merged, retired, gone>>
      /\ seen' = seen \cup {b.id} /\ known' = known \cup {b.id}
      /\ hid' = (hid \cup (FromOf(b) \cap seen)) \cup (IF BornHidden(b) THEN {b.id} ELSE {})
      /\ seenHw' = IF b.seg > seenHw THEN b.seg ELSE seenHw
  BY Zenon DEF LearnBlock, storeVars
<1>2. /\ UNCHANGED <<bucket, cur>> /\ Live' = Live /\ Current' = Current
      /\ TypeOK' /\ RingInv' /\ StampInv' /\ CurrentInv' /\ OrderInv'
  BY Zenon, <1>1, ShardStill
<1>3. MergeInv' /\ AllIds' = AllIds /\ QueryInv'
  BY Zenon, <1>1, MergesStay, QueryStays
<1>4. b.seg \in Nat \cup {NoSeg} /\ b.seg < cur /\ seenHw \in Nat \cup {NoSeg} /\ seenHw < cur
  <2>1. seenHw \in Nat \cup {NoSeg} /\ seenHw < cur /\ cur \in Nat
    BY Zenon, LiveTypes DEF LiveInv, LiveTypeOK, SeenInv
  <2>2. CASE b \in bucket
    BY <2>1, <2>2 DEF Base, IInv, TypeOK, IdInv, Block
  <2>3. CASE b \in merged
    <3>1. b.seg = NoSeg
      BY Zenon, <2>3 DEF LiveInv, LiveTypeOK
    <3> QED  BY <2>1, <3>1 DEF NoSeg
  <2> QED  BY Zenon, <2>2, <2>3 DEF Committed
<1>5. /\ seenHw' \in Nat \cup {NoSeg} /\ seenHw' < cur /\ seenHw <= seenHw' /\ b.seg <= seenHw'
      /\ seenHw' = seenHw \/ (seenHw' = b.seg /\ seenHw' # NoSeg)
  BY <1>1, <1>4 DEF NoSeg
<1>6. LiveTypeOK'
  <2>1. b.id \in AllIds
    BY Zenon DEF AllIds
  <2>2. hid' \subseteq seen'
    BY Zenon, <1>1 DEF LiveInv, LiveTypeOK
  <2>3. seen' \subseteq known' /\ known' \subseteq AllIds
    BY Zenon, <1>1, <2>1 DEF LiveInv, LiveTypeOK
  <2> QED  BY Zenon, <2>2, <2>3, <1>1, <1>2, <1>3, <1>5 DEF LiveInv, LiveTypeOK
<1>7. RowInv'
  <2>1. \A x : Withdrawn(x)' <=> Withdrawn(x)
    BY Zenon, <1>1 DEF Withdrawn
  <2>2. \A x \in FromOf(b) : Withdrawn(x)
    BY Zenon DEF FromOf, Withdrawn
  <2>3. BornHidden(b) => Withdrawn(b.id)
    BY Zenon DEF BornHidden, Withdrawn
  <2>4. ASSUME NEW x \in known', x \notin seen' \ hid'  PROVE Withdrawn(x)
    <3>1. CASE x \in FromOf(b)
      BY Zenon, <2>2, <3>1
    <3>2. CASE x = b.id
      <4>1. x \in hid'
        BY Zenon, <2>4, <3>2, <1>1
      <4>2. x \in hid \/ x \in FromOf(b) \/ BornHidden(b)
        BY Zenon, <4>1, <1>1
      <4>3. x \in hid => Withdrawn(x)
        BY Zenon DEF LiveInv, LiveTypeOK, RowInv
      <4> QED  BY Zenon, <4>2, <4>3, <2>2, <2>3, <3>2
    <3>3. CASE x # b.id /\ x \notin FromOf(b)
      <4>1. x \in known /\ x \notin seen \ hid
        BY Zenon, <2>4, <3>3, <1>1
      <4> QED  BY Zenon, <4>1 DEF LiveInv, RowInv
    <3> QED  BY Zenon, <3>1, <3>2, <3>3
  <2>5. \A x \in gone' : Withdrawn(x)
    BY Zenon, <1>1 DEF LiveInv, RowInv
  <2> QED  BY Zenon, <2>1, <2>4, <2>5 DEF RowInv
<1>8. SeenInv'
  <2>1. ASSUME NEW c \in bucket, c.id \in known', c.id.kind = "live"
        PROVE  c.seg <= seenHw'
    <3>1. CASE c.id \in known
      <4>1. c.seg <= seenHw /\ c.seg \in Int
        BY Zenon, <2>1, <3>1, LiveTypes DEF LiveInv, SeenInv
      <4> QED  BY <4>1, <1>4, <1>5 DEF NoSeg
    <3>2. CASE c.id = b.id
      <4>1. b \in bucket
        BY Zenon, <3>2, IdKinds DEF Committed, LiveInv, MergeInv
      <4>2. c.seg = c.id.key /\ b.seg = b.id.key
        BY Zenon, <2>1, <3>2, <4>1 DEF LiveInv, StampInv
      <4> QED  BY Zenon, <3>2, <4>2, <1>5
    <3> QED  BY Zenon, <2>1, <3>1, <3>2, <1>1
  <2>2. ASSUME NEW f \in Current, tag[f] <= seenHw'
        PROVE  \E c \in bucket : c.id \in known' /\ c.id.kind = "live" /\ c.seg = seenHw'
    <3>1. CASE seenHw' = seenHw
      BY Zenon, <2>2, <3>1, <1>1 DEF LiveInv, SeenInv
    <3>2. CASE seenHw' = b.seg /\ seenHw' # NoSeg
      <4>1. b \in bucket
        BY Zenon, <3>2 DEF Committed, LiveInv, LiveTypeOK
      <4> QED  BY Zenon, <2>2, <3>2, <4>1, <1>1 DEF LiveInv, OrderInv
    <3> QED  BY Zenon, <3>1, <3>2, <1>5
  <2> QED  BY Zenon, <1>1, <1>2, <1>5, <2>1, <2>2 DEF SeenInv
<1> QED  BY Zenon, <1>2, <1>3, <1>6, <1>7, <1>8 DEF LiveInv

\* A row is hidden or dropped; the watermark stays.
LEMMA HideForgetKeeps ==
    ASSUME Base, LiveInv, NEW b \in Committed, HideRow(b) \/ ForgetRow(b)
    PROVE  LiveInv'
<1>1. /\ UNCHANGED <<vars, tag, ring, query>> /\ UNCHANGED <<merged, retired, gone, known, seenHw>>
      /\ seen' \subseteq seen /\ hid' \subseteq seen'
      /\ \A x \in seen \ hid : x # b.id => x \in seen' \ hid'
      /\ b.id \in retired \/ b.id \in gone
  BY Zenon DEF HideRow, ForgetRow, storeVars, LiveInv, LiveTypeOK
<1>2. /\ UNCHANGED <<bucket, cur>> /\ Live' = Live /\ Current' = Current
      /\ TypeOK' /\ RingInv' /\ StampInv' /\ CurrentInv' /\ OrderInv'
  BY Zenon, <1>1, ShardStill
<1>3. MergeInv' /\ AllIds' = AllIds /\ QueryInv'
  BY Zenon, <1>1, MergesStay, QueryStays
<1>4. LiveTypeOK'
  BY Zenon, <1>1, <1>2, <1>3 DEF LiveInv, LiveTypeOK
<1>5. RowInv'
  <2>1. Withdrawn(b.id)
    BY Zenon, <1>1 DEF LiveInv, RowInv, Withdrawn
  <2>2. \A x : Withdrawn(x)' <=> Withdrawn(x)
    BY Zenon, <1>1 DEF Withdrawn
  <2> QED  BY Zenon, <2>1, <2>2, <1>1 DEF LiveInv, RowInv
<1>6. SeenInv'
  BY Zenon, <1>1, <1>2 DEF LiveInv, SeenInv
<1> QED  BY Zenon, <1>2, <1>3, <1>4, <1>5, <1>6 DEF LiveInv

\* A present frame at or below the watermark is listed, or its own block or a
\* merge of it is missing for a reason, or a later block carries the mark.
LEMMA BelowWatermark ==
    ASSUME Base, LiveInv, NEW f \in Current, tag[f] <= seenHw
    PROVE  \/ f \in FramesOf(seen \ hid) \/ f \in FramesOf(retired)
           \/ \E b \in bucket : /\ b.id.kind = "live" /\ b.seg = seenHw /\ b.id \in known
                                 /\ \A g \in b.frames : f < g
           \/ \E b \in bucket, m \in merged : /\ f \in b.frames /\ b.id \in known
                                               /\ b.id \in m.from /\ m.id \notin known
<1>1. PICK b \in bucket : b.id \in known /\ b.id.kind = "live" /\ b.seg = seenHw
  BY Zenon DEF LiveInv, SeenInv
<1>2. CASE \A g \in b.frames : f < g
  BY Zenon, <1>1, <1>2
<1>3. CASE f \in b.frames
  <2>1. \A T : \A c \in Committed : c.id \in T /\ f \in c.frames => f \in FramesOf(T)
    BY Zenon DEF FramesOf
  <2>2. CASE b.id \in seen \ hid \/ b.id \in retired
    BY Zenon, <1>3, <2>1, <2>2 DEF Committed
  <2>3. CASE \E m \in merged : b.id \in m.from
    <3>1. PICK t \in merged : b.id \in t.from /\ ~Replaced(t)
      BY Zenon, <2>3 DEF LiveInv, MergeInv
    <3>2. f \in t.frames
      BY Zenon, <1>1, <1>3, <3>1 DEF LiveInv, MergeInv
    <3>3. CASE t.id \notin known
      BY Zenon, <1>1, <1>3, <3>1, <3>3
    <3>4. CASE t.id \in known
      <4>1. t.id \in seen \ hid \/ t.id \in retired
        BY Zenon, <3>1, <3>4 DEF LiveInv, RowInv, Withdrawn, Replaced
      <4> QED  BY Zenon, <4>1, <3>2, <2>1 DEF Committed
    <3> QED  BY Zenon, <3>3, <3>4
  <2> QED  BY Zenon, <1>1, <2>2, <2>3 DEF LiveInv, RowInv, Withdrawn
<1> QED  BY Zenon, <1>1, <1>2, <1>3 DEF LiveInv, OrderInv

\* The catalog snapshot a query starts from.
LEMMA QuerySnapshotKeeps ==
    ASSUME Base, LiveInv, QuerySnapshot
    PROVE  LiveInv'
<1>1. UNCHANGED <<vars, tag, ring>> /\ UNCHANGED <<merged, retired, gone, seen, hid, known, seenHw>>
  BY Zenon DEF QuerySnapshot, storeVars, nodeVars
<1>2. /\ UNCHANGED <<bucket, cur>> /\ Live' = Live /\ Current' = Current
      /\ TypeOK' /\ RingInv' /\ StampInv' /\ CurrentInv' /\ OrderInv'
  BY Zenon, <1>1, ShardStill
<1>3. MergeInv' /\ AllIds' = AllIds
  BY Zenon, <1>1, MergesStay
<1>4. LiveTypeOK' /\ RowInv' /\ SeenInv'
  BY Zenon, <1>1, <1>2, <1>3 DEF LiveInv, LiveTypeOK, RowInv, SeenInv, Withdrawn
<1>5. query'.hw = seenHw /\ query'.known = known /\ query'.ids = seen \ hid
  BY DEF QuerySnapshot
<1>6. ASSUME NEW f \in Current, NEW b \in bucket, f \in b.frames, b.id \in known
      PROVE  IsDurable(f, seenHw)
  <2>1. b.id.kind = "live"
    BY Zenon, <1>6, LiveTypes DEF LiveInv, CurrentInv
  <2>2. tag[f] <= b.seg /\ b.seg <= seenHw
    BY Zenon, <1>6, <2>1 DEF LiveInv, StampInv, SeenInv
  <2>3. tag[f] \in Nat /\ b.seg \in Int /\ seenHw \in Int
    BY LiveTypes
  <2> QED  BY <2>2, <2>3 DEF IsDurable, NoSeg
<1>7. ASSUME NEW f \in Current, IsDurable(f, seenHw)
      PROVE  Accounted(f)'
  <2>1. tag[f] <= seenHw
    BY Zenon, <1>7 DEF IsDurable
  <2>2. FramesOf(query.ids)' = FramesOf(seen \ hid) /\ FramesOf(retired)' = FramesOf(retired)
    BY Zenon, <1>1, <1>2, <1>5 DEF FramesOf, Committed
  <2> QED  BY Zenon, <2>1, <2>2, <1>1, <1>2, <1>5, BelowWatermark
           DEF Accounted, Overtaken, Outdated
<1>8. QueryInv'
  <2>1. seenHw \in Int /\ seenHw < cur /\ known \subseteq AllIds
    BY Zenon, LiveTypes DEF LiveInv, LiveTypeOK, SeenInv
  <2>2. query'.hw \in Int /\ query'.hw < cur' /\ query'.known \subseteq AllIds'
    BY Zenon, <1>2, <1>3, <1>5, <2>1
  <2>3. \A f \in Current', b \in bucket' :
           f \in b.frames /\ b.id \in query'.known => IsDurable(f, query.hw)'
    BY Zenon, <1>1, <1>2, <1>5, <1>6 DEF IsDurable
  <2>4. \A f \in Current' : ~IsDurable(f, query.hw)' \/ Accounted(f)'
    BY Zenon, <1>1, <1>2, <1>5, <1>7 DEF IsDurable
  <2> QED  BY Zenon, <2>2, <2>3, <2>4 DEF QueryInv
<1> QED  BY Zenon, <1>2, <1>3, <1>4, <1>8 DEF LiveInv

\* The query ends, or nothing happens.
LEMMA QueryLiveKeeps ==
    ASSUME Base, LiveInv, QueryLive \/ UNCHANGED allVars
    PROVE  LiveInv'
<1>1. UNCHANGED <<vars, tag, ring>> /\ UNCHANGED <<merged, retired, gone, seen, hid, known, seenHw>>
  BY Zenon DEF QueryLive, allVars, liveVars, storeVars, nodeVars
<1>2. /\ UNCHANGED <<bucket, cur>> /\ Live' = Live /\ Current' = Current
      /\ TypeOK' /\ RingInv' /\ StampInv' /\ CurrentInv' /\ OrderInv'
  BY Zenon, <1>1, ShardStill
<1>3. MergeInv' /\ AllIds' = AllIds
  BY Zenon, <1>1, MergesStay
<1>4. LiveTypeOK' /\ RowInv' /\ SeenInv'
  BY Zenon, <1>1, <1>2, <1>3 DEF LiveInv, LiveTypeOK, RowInv, SeenInv, Withdrawn
<1>5. QueryInv'
  <2>1. CASE QueryLive
    <3>1. query'.on = FALSE
      BY <2>1 DEF QueryLive, Idle
    <3> QED  BY Zenon, <3>1 DEF QueryInv
  <2>2. CASE UNCHANGED allVars
    BY Zenon, <2>2, <1>1, QueryStays DEF allVars, liveVars
  <2> QED  BY Zenon, <2>1, <2>2
<1> QED  BY Zenon, <1>2, <1>3, <1>4, <1>5 DEF LiveInv

-----------------------------------------------------------------------------
(* The theorems.                                                           *)

\* The shard under a merged query is the shard.
LEMMA LiveStepIsStep == [LiveNext]_allVars => [Next]_vars
<1> SUFFICES ASSUME [LiveNext]_allVars PROVE [Next]_vars
  OBVIOUS
<1>1. CASE IngestTagged \/ PushAndAck \/ ProcessDies \/ OtherStep
  BY Zenon, <1>1 DEF IngestTagged, PushAndAck, ProcessDies, OtherStep, Next
<1>2. CASE (\E S \in SUBSET Committed : Compact(S)) \/ QuerySnapshot \/ QueryLive \/ UNCHANGED allVars
  BY Zenon, <1>2 DEF Compact, QuerySnapshot, QueryLive, allVars
<1>3. CASE \E b \in Committed : Retire(b) \/ Reap(b) \/ LearnBlock(b) \/ HideRow(b) \/ ForgetRow(b)
  BY Zenon, <1>3 DEF Retire, Reap, LearnBlock, HideRow, ForgetRow
<1> QED  BY Zenon, <1>1, <1>2, <1>3 DEF LiveNext

\* So what holds of the shard holds here.
LEMMA BaseInvariance == LiveSpec => []Base
<1>1. LiveSpec => Spec
  BY LiveStepIsStep, PTL DEF LiveSpec, LiveInit, Spec
<1>2. Spec => []Base
  BY HeldInvariance, PTL DEF Base
<1> QED  BY <1>1, <1>2, PTL

\* The initial states.
LEMMA LiveInitHolds == LiveInit => LiveInv
<1> SUFFICES ASSUME LiveInit PROVE LiveInv
  OBVIOUS
<1>1. IInv
  BY Zenon, InitHolds DEF LiveInit
<1>2. Live = {} /\ ring \in Seq(Frame)
  BY DEF LiveInit, Live
<1>3. /\ pc = "down" /\ builder = {} /\ uploads = {} /\ bucket = {} /\ replying = {}
      /\ merged = {} /\ retired = {} /\ gone = {}
      /\ cur = 0 /\ seen = {} /\ hid = {} /\ known = {} /\ seenHw = NoSeg
  BY Zenon DEF LiveInit, Init, WalInit
<1>4. Current = {}
  BY Zenon, <1>2, <1>3 DEF Current
<1>5. tag \in [Frame -> Nat] /\ NoSeg < 0
  BY DEF LiveInit, NoSeg
<1>6. LiveTypeOK /\ RingInv
  BY Zenon, <1>1, <1>2, <1>3, <1>5 DEF LiveTypeOK, RingInv, IInv
<1>7. pc \notin Serving
  BY Zenon, <1>3 DEF Serving, Waiting
<1>8. StampInv /\ CurrentInv /\ OrderInv
  BY Zenon, <1>2, <1>3, <1>4, <1>7 DEF StampInv, CurrentInv, OrderInv
<1>9. MergeInv /\ RowInv /\ SeenInv
  BY Zenon, <1>3, <1>4, <1>5 DEF MergeInv, RowInv, SeenInv
<1>10. query.on = FALSE
  BY DEF LiveInit, Idle
<1> QED  BY Zenon, <1>6, <1>8, <1>9, <1>10 DEF LiveInv, QueryInv

\* Every step keeps the invariant.
LEMMA LiveNextKeeps ==
    ASSUME Base, Base', LiveInv, [LiveNext]_allVars
    PROVE  LiveInv'
<1>1. TypeOK'
  BY Zenon DEF Base, IInv
<1> QED  BY Zenon, <1>1, IngestTaggedKeeps, PushAndAckKeeps, ProcessDiesKeeps,
            OtherStepEffect, EffectKeeps, CompactKeeps, RetireReapKeeps, LearnBlockKeeps,
            HideForgetKeeps, QuerySnapshotKeeps, QueryLiveKeeps DEF LiveNext

\* LiveInv is an invariant of a shard, its ring, the compaction and deletion of
\* its blocks, and a query node.
THEOREM LiveInvariance == LiveSpec => []LiveInv
<1>1. Base /\ Base' /\ LiveInv /\ [LiveNext]_allVars => LiveInv'
  BY Zenon, LiveNextKeeps
<1> QED  BY BaseInvariance, LiveInitHolds, <1>1, PTL DEF LiveSpec

\* The ring holds frames, the stamps and watermarks are segment numbers, and
\* rows are of committed blocks (live_ring.rs push_stamped, catalog
\* insert_block).
THEOREM LiveTypeCorrect == LiveSpec => []LiveTypeOK
<1>1. LiveInv => LiveTypeOK
  BY Zenon DEF LiveInv
<1> QED  BY LiveInvariance, <1>1, PTL

\* A record that the snapshot lists is not also taken from the ring once the
\* query node was told of the record's own block, whatever was merged, hidden
\* or deleted since (query_service.rs fetch_live_logs, live_record_is_durable).
THEOREM NeverDouble == LiveSpec => []NoDoubleOnceKnown
<1>1. LiveInv => NoDoubleOnceKnown
  BY Zenon DEF LiveInv, QueryInv, NoDoubleOnceKnown, Current
<1> QED  BY LiveInvariance, <1>1, PTL

\* A record the query misses sits behind a block that was sealed later and
\* reached the query node earlier, or its own block was deleted before the
\* node was told of its merge, or retention staged it (pipeline.rs 824-831,
\* catalog delete_blocks).
THEOREM GapsExplained == LiveSpec => []GapExplained
<1>1. LiveInv => GapExplained
  BY Zenon DEF LiveInv, QueryInv, GapExplained, Current, Accounted, Overtaken, Outdated
<1> QED  BY LiveInvariance, <1>1, PTL
=============================================================================
