------------------------ MODULE IngestPipelineProofs ------------------------
(***************************************************************************)
(* The steps under the pipeline mutex, the upload tasks and a crash keep   *)
(* the invariant, and the theorems: type correctness, disjoint segment     *)
(* ranges, no loss of acknowledged batches, the watermark below the open   *)
(* block, one schema per block, and blocks that never change, for every    *)
(* value of the constants.                                                 *)
(***************************************************************************)
EXTENDS IngestStartupProofs, WellFoundedInduction

-----------------------------------------------------------------------------
(* Ingest, acknowledgement, flush and the hand-over of a block to a task.  *)

\* A batch of another schema.
LEMMA IngestBoundaryKeeps ==
    ASSUME IInv, IngestBoundary
    PROVE  IInv'
<1> USE DEF IInv
<1>1. TypeOK'
  BY Zenon DEF IngestBoundary, TypeOK, walVars, WalTypeOK, Serving, Waiting
<1>2. WalInv'
  BY Zenon DEF IngestBoundary, WalInv, walVars
<1>3. ControlInv'
  BY Zenon DEF IngestBoundary, ControlInv, walVars, Promised, Serving, Waiting
<1>4. DisjointRanges'
  BY Zenon DEF IngestBoundary, DisjointRanges, walVars, Serving
<1>5. UploadInv'
  BY Zenon DEF IngestBoundary, UploadInv, Stored
<1>6. CoverInv'
  BY Zenon DEF IngestBoundary, CoverInv, walVars, Promised, Serving
<1>7. PromiseInv'
  BY Zenon DEF IngestBoundary, PromiseInv, walVars, Promised, Stored, Unreadable
<1>8. ReplayInv'
  BY Zenon DEF IngestBoundary, ReplayInv, Opening
<1>9. IdInv'
  BY Zenon DEF IngestBoundary, IdInv, walVars, Ids
<1>10. MarkInv'
  BY Zenon DEF IngestBoundary, MarkInv, walVars, Serving
<1> QED  BY Zenon, <1>1, <1>2, <1>3, <1>4, <1>5, <1>6, <1>7, <1>8, <1>9, <1>10

\* A batch is appended and merged.
LEMMA IngestFrameKeeps ==
    ASSUME IInv, IngestFrame
    PROVE  IInv'
<1> USE DEF IInv
<1>a. /\ next \in Frame /\ at' \in [Frame -> Nat] /\ next' = next + 1
      /\ next' \in 1..(MaxFrames + 1) /\ at'[next] = wseq
      /\ \A f \in Frame : f # next => at'[f] = at[f]
      /\ kept' = kept \cup {next}
  BY Zenon, WriteEffect DEF IngestFrame, AtAppend, TypeOK
<1>b. /\ torn' = torn /\ bytes' \in Nat
      /\ \/ UNCHANGED <<segs, cur, wseq>>
         \/ /\ segs' = segs \cup {cur + 1} /\ cur' = cur + 1 /\ wseq' = cur + 1
            /\ wseq = cur
  <2>1. CASE bytes + 1 >= MaxSegFrames
    BY <2>1, RotateOkEffect DEF IngestFrame, AtAppend, TypeOK
  <2>2. CASE ~(bytes + 1 >= MaxSegFrames)
    BY <2>2 DEF IngestFrame, TypeOK, WalTypeOK
  <2> QED  BY Zenon, <2>1, <2>2
<1>c. /\ segs \subseteq segs' /\ segs' \subseteq Nat
      /\ wseq' \in segs' /\ wseq' \in Nat /\ wseq <= wseq' /\ wseq' <= cur + 1
      /\ \A s \in segs' : s <= wseq'
  BY Zenon, <1>b, SegsGrow DEF IngestFrame, AtAppend, TypeOK
<1>1. TypeOK'
  <2>1. WalTypeOK'
    BY Zenon, <1>a, <1>b, <1>c DEF TypeOK, WalTypeOK
  <2>2. pc' \in {"down"} \cup Opening \cup Serving
    BY Zenon DEF IngestFrame, Serving, Waiting
  <2>3. builder' \subseteq Frame /\ low' \in Nat
    BY Zenon, <1>a DEF IngestFrame, TypeOK
  <2>4. /\ uploads' \subseteq Upload
        /\ todo' \subseteq Frame /\ hashed' \subseteq Frame
        /\ bucket' \subseteq Block
        /\ rows' \subseteq Uuid /\ hw' \in Nat \cup {NoSeg}
        /\ crashes' \in Nat /\ faults' \in Nat
    BY Zenon DEF IngestFrame, TypeOK
  <2>5. replying' \subseteq Frame /\ acked' \subseteq Frame /\ lost' \subseteq Frame
    BY Zenon, <1>a DEF IngestFrame, TypeOK
  <2> QED  BY Zenon, <2>1, <2>2, <2>3, <2>4, <2>5 DEF TypeOK
<1>2. WalInv'
  <2>1. pc # "down"
    BY Zenon DEF IngestFrame, AtAppend
  <2>2. \A f \in kept' : f < next' /\ at'[f] \in segs'
    BY <2>1, <1>a, <1>c DEF WalInv, TypeOK, WalTypeOK, Frame
  <2>3. \A f \in Frame : at'[f] <= wseq'
    BY <1>a, <1>c DEF WalInv, TypeOK, WalTypeOK
  <2>4. \A t \in torn' : t < next'
    BY <1>a, <1>b DEF WalInv, TypeOK, WalTypeOK, Frame
  <2>5. cur' <= wseq' /\ wseq' <= cur' + 1
    BY <1>b DEF WalInv, TypeOK, WalTypeOK
  <2> QED  BY Zenon, <2>2, <2>3, <2>4, <2>5, <1>c DEF WalInv
<1>3. ControlInv'
  BY DEF IngestFrame, ControlInv, Promised, Serving, Waiting, TypeOK, WalTypeOK,
     Frame, Upload, AtAppend, WriteFrame, RotateOk
<1>4. DisjointRanges'
  <2>1. \A u \in uploads : \A f \in u.frames : at'[f] = at[f]
    BY <1>a DEF ControlInv, TypeOK, Upload, Frame
  <2>2. \A f \in builder : at'[f] = at[f]
    BY <1>a DEF ControlInv, TypeOK, Frame
  <2>3. pc \in Serving /\ low <= wseq
    BY DEF IngestFrame, AtAppend, Serving, ControlInv, WalInv, TypeOK, WalTypeOK
  <2>4. uploads' = uploads /\ low' = low /\ builder' = builder \cup {next}
    BY Zenon DEF IngestFrame
  <2>5. \A u \in uploads : u.low \in Nat /\ u.sealed \in Nat
    BY Zenon DEF TypeOK, Upload
  <2> QED  BY <2>1, <2>2, <2>3, <2>4, <2>5, <1>a, <1>b DEF DisjointRanges,
     TypeOK, WalTypeOK
<1>5. UploadInv'
  BY Zenon DEF IngestFrame, UploadInv, Stored
<1>6. CoverInv'
  <2>1. Promised' = Promised \cup {next}
    BY <1>a DEF IngestFrame, AtAppend, Promised, TypeOK, WalTypeOK, Frame
  <2>2. \A f \in Promised : f # next /\ f \in Frame
    BY <1>a DEF ControlInv, Promised, IngestFrame, AtAppend, TypeOK, Frame
  <2>3. pc \in Serving /\ uploads' = uploads /\ low' = low /\ builder' = builder \cup {next}
    BY Zenon DEF IngestFrame, AtAppend, Serving
  <2>4. \A u \in uploads : u.sealed < wseq /\ u.sealed \in Nat
    BY DEF DisjointRanges, WalInv, TypeOK, WalTypeOK, Upload
  <2> QED  BY <2>1, <2>2, <2>3, <2>4, <1>a DEF CoverInv, TypeOK, WalTypeOK
<1>7. PromiseInv'
  <2>1. Promised' = Promised \cup {next}
    BY <1>a DEF IngestFrame, AtAppend, Promised, TypeOK, WalTypeOK, Frame
  <2>2. ASSUME NEW f \in Promised, Unreadable(f)  PROVE Unreadable(f)'
    <3>1. f \in Frame /\ f < next
      BY Zenon DEF ControlInv, Promised, IngestFrame, AtAppend, TypeOK
    <3>2. \A g \in Frame : g < next => at'[g] = at[g]
      BY <1>a DEF Frame
    <3> QED  BY Zenon, <3>1, <3>2, <2>2, <1>b, UnreadableStable DEF TypeOK
  <2>3. Stored' = Stored /\ lost' = lost
    BY Zenon DEF IngestFrame, Stored
  <2> QED  BY Zenon, <2>1, <2>2, <2>3, <1>a DEF PromiseInv
<1>8. ReplayInv'
  BY Zenon DEF IngestFrame, ReplayInv, Opening
<1>9. IdInv'
  <2>1. cur \in Nat /\ cur' \in Nat /\ cur <= cur'
    BY <1>b DEF TypeOK, WalTypeOK
  <2> QED  BY <2>1, BlockType DEF IngestFrame, IdInv, Ids
<1>10. MarkInv'
  BY <1>b DEF IngestFrame, MarkInv, AtAppend, Serving, Waiting, TypeOK,
     WalTypeOK, NoSeg
<1> QED  BY Zenon, <1>1, <1>2, <1>3, <1>4, <1>5, <1>6, <1>7, <1>8, <1>9, <1>10

\* An append that returned Err.
LEMMA AppendFailsKeeps ==
    ASSUME IInv, AppendFails
    PROVE  IInv'
<1> USE DEF IInv
<1>a. /\ at' \in [Frame -> Nat] /\ next <= next' /\ next' \in 1..(MaxFrames + 1)
      /\ \A f \in Frame : f < next => at'[f] = at[f]
      /\ kept \subseteq kept'
      /\ \/ kept' = kept /\ at' = at
         \/ /\ kept' = kept \cup {next} /\ next' = next + 1 /\ next \in Frame
            /\ at'[next] = wseq /\ \A f \in Frame : f # next => at'[f] = at[f]
  <2>1. CASE NoWrite
    BY <2>1 DEF NoWrite, TypeOK, WalTypeOK
  <2>2. CASE WriteFrame
    <3>1. next <= MaxFrames
      BY Zenon DEF AppendFails, AtAppend
    <3> QED  BY <2>2, <3>1, WriteEffect DEF TypeOK, WalTypeOK, Frame
  <2> QED  BY Zenon, <2>1, <2>2 DEF AppendFails
<1>b. /\ cur' = cur /\ bytes' \in Nat /\ faults' \in Nat
      /\ torn \subseteq torn' /\ torn' \subseteq torn \cup kept'
      /\ \/ segs' = segs /\ wseq' = wseq
         \/ segs' = segs \cup {cur + 1} /\ wseq' = cur + 1
  <2>1. CASE Tear /\ UNCHANGED <<segs, cur, wseq, bytes>> /\ Fault
    BY <2>1, TearEffect DEF Fault, TypeOK, WalTypeOK
  <2>2. CASE RotateErr(bytes + 1)
    BY <2>2, RotateErrEffect DEF TypeOK, WalTypeOK
  <2> QED  BY Zenon, <2>1, <2>2 DEF AppendFails
<1>c. pc \in {"append", "free"} /\ pc' = "free" /\ pc # "down"
  BY Zenon DEF AppendFails, AtAppend
<1>d. /\ segs \subseteq segs' /\ segs' \subseteq Nat
      /\ wseq' \in segs' /\ wseq' \in Nat /\ wseq <= wseq' /\ wseq' <= cur + 1
      /\ \A s \in segs' : s <= wseq'
  BY Zenon, <1>b, <1>c, SegsGrow DEF TypeOK
<1>1. TypeOK'
  <2>1. WalTypeOK'
    BY Zenon, <1>a, <1>b, <1>d DEF TypeOK, WalTypeOK
  <2>2. pc' \in {"down"} \cup Opening \cup Serving
    BY Zenon DEF AppendFails, Serving
  <2>3. /\ builder' \subseteq Frame /\ low' \in Nat
        /\ uploads' \subseteq Upload
        /\ todo' \subseteq Frame /\ hashed' \subseteq Frame
        /\ bucket' \subseteq Block
        /\ rows' \subseteq Uuid /\ hw' \in Nat \cup {NoSeg}
        /\ replying' \subseteq Frame /\ acked' \subseteq Frame /\ lost' \subseteq Frame
    BY Zenon DEF AppendFails, TypeOK
  <2>4. crashes' \in Nat /\ faults' \in Nat
    BY Zenon, <1>b DEF AppendFails, TypeOK
  <2> QED  BY Zenon, <2>1, <2>2, <2>3, <2>4 DEF TypeOK
<1>2. WalInv'
  <2>1. wseq \in segs /\ wseq \in Nat /\ next \in Nat /\ next' \in Nat
    BY <1>a, <1>c DEF WalInv, TypeOK, WalTypeOK
  <2>2. \A f \in kept' : f < next' /\ at'[f] \in segs'
    BY <2>1, <1>a, <1>d DEF WalInv, TypeOK, WalTypeOK, Frame
  <2>3. \A f \in Frame : at'[f] <= wseq'
    BY <1>a, <1>d DEF WalInv, TypeOK, WalTypeOK
  <2>4. \A t \in torn' : t < next'
    BY <2>1, <2>2, <1>a, <1>b DEF WalInv, TypeOK, WalTypeOK, Frame
  <2>5. cur' <= wseq' /\ wseq' <= cur' + 1
    BY <1>b, <1>d DEF WalInv, TypeOK, WalTypeOK
  <2> QED  BY Zenon, <2>2, <2>3, <2>4, <2>5, <1>d DEF WalInv
<1>3. ControlInv'
  <2>1. Promised' = Promised
    BY Zenon, <1>c DEF AppendFails, Promised
  <2>2. next \in Nat /\ next' \in Nat /\ next <= next'
    BY <1>a DEF TypeOK, WalTypeOK
  <2>3. UNCHANGED <<builder, low, uploads, todo, replying>>
    BY Zenon DEF AppendFails
  <2>4. Promised \cup builder \cup todo \subseteq Nat
    <3>1. Promised = acked \cup replying
      BY Zenon, <1>c DEF Promised
    <3>2. Frame \subseteq Nat
      BY WalConstants DEF Frame
    <3> QED  BY Zenon, <3>1, <3>2 DEF TypeOK
  <2>5. \A u \in uploads : u.frames \subseteq Nat
    BY DEF TypeOK, Frame, Upload
  <2> QED  BY <2>1, <2>2, <2>3, <2>4, <2>5, <1>b, <1>c DEF ControlInv, Serving
<1>4. DisjointRanges'
  <2>1. \A u \in uploads : \A f \in u.frames : at'[f] = at[f]
    BY Zenon, <1>a DEF ControlInv, TypeOK, Upload, Frame
  <2>2. \A f \in builder : at'[f] = at[f]
    BY Zenon, <1>a DEF ControlInv, TypeOK, Frame
  <2>3. pc \in Serving /\ uploads' = uploads /\ low' = low /\ builder' = builder
    BY Zenon, <1>c DEF AppendFails, Serving
  <2> QED  BY Zenon, <2>1, <2>2, <2>3, <1>b DEF DisjointRanges
<1>5. UploadInv'
  BY Zenon DEF AppendFails, UploadInv, Stored
<1>6. CoverInv'
  <2>1. Promised' = Promised
    BY Zenon, <1>c DEF AppendFails, Promised
  <2>2. \A f \in Promised : f \in Frame /\ f < next
    BY Zenon, <1>c DEF ControlInv, Promised, TypeOK
  <2>3. \A f \in Promised : at'[f] = at[f] /\ (f \in kept' => f \in kept)
    BY <2>2, <1>a DEF TypeOK, WalTypeOK, Frame
  <2>4. pc \in Serving /\ uploads' = uploads /\ low' = low /\ builder' = builder
    BY Zenon, <1>c DEF AppendFails, Serving
  <2> QED  BY Zenon, <2>1, <2>3, <2>4 DEF CoverInv
<1>7. PromiseInv'
  <2>1. Promised' = Promised
    BY Zenon, <1>c DEF AppendFails, Promised
  <2>2. \A f \in Promised : f \in Frame /\ f < next
    BY Zenon, <1>c DEF ControlInv, Promised, TypeOK
  <2>3. ASSUME NEW f \in Promised, Unreadable(f)  PROVE Unreadable(f)'
    BY Zenon, <2>2, <2>3, <1>a, <1>b, UnreadableStable DEF TypeOK
  <2>4. Stored' = Stored /\ lost' = lost
    BY Zenon DEF AppendFails, Stored
  <2> QED  BY Zenon, <2>1, <2>3, <2>4, <1>a DEF PromiseInv
<1>8. ReplayInv'
  BY Zenon, <1>c DEF ReplayInv, Opening
<1>9. IdInv'
  BY Zenon, <1>b DEF AppendFails, IdInv, Ids
<1>10. MarkInv'
  BY Zenon, <1>b, <1>c DEF AppendFails, MarkInv, Serving
<1> QED  BY Zenon, <1>1, <1>2, <1>3, <1>4, <1>5, <1>6, <1>7, <1>8, <1>9, <1>10

\* The acknowledgement of a batch.
LEMMA AckKeeps ==
    ASSUME IInv, NEW f, Ack(f)
    PROVE  IInv'
<1> USE DEF IInv
<1>1. TypeOK'
  BY Zenon DEF Ack, TypeOK, walVars, WalTypeOK
<1>2. WalInv'
  BY Zenon DEF Ack, WalInv, walVars
<1>3. ControlInv'
  BY Zenon DEF Ack, ControlInv, walVars, Promised
<1>4. DisjointRanges'
  BY Zenon DEF Ack, DisjointRanges, walVars
<1>5. UploadInv'
  BY Zenon DEF Ack, UploadInv, Stored
<1>6. CoverInv'
  BY Zenon DEF Ack, CoverInv, walVars, Promised
<1>7. PromiseInv'
  BY ZenonT(60) DEF Ack, PromiseInv, walVars, Promised, Stored, Unreadable
<1>8. ReplayInv'
  BY Zenon DEF Ack, ReplayInv, walVars, Unreadable, Ids
<1>9. IdInv'
  BY Zenon DEF Ack, IdInv, walVars, Ids
<1>10. MarkInv'
  BY Zenon DEF Ack, MarkInv, walVars
<1> QED  BY Zenon, <1>1, <1>2, <1>3, <1>4, <1>5, <1>6, <1>7, <1>8, <1>9, <1>10

\* The age flusher.
LEMMA FlushIfAgedKeeps ==
    ASSUME IInv, FlushIfAged
    PROVE  IInv'
<1> USE DEF IInv
<1>1. TypeOK'
  BY Zenon DEF FlushIfAged, TypeOK, walVars, WalTypeOK, Serving, Waiting
<1>2. WalInv'
  BY Zenon DEF FlushIfAged, WalInv, walVars
<1>3. ControlInv'
  BY Zenon DEF FlushIfAged, ControlInv, walVars, Promised, Serving, Waiting
<1>4. DisjointRanges'
  BY Zenon DEF FlushIfAged, DisjointRanges, walVars, Serving
<1>5. UploadInv'
  BY Zenon DEF FlushIfAged, UploadInv, Stored
<1>6. CoverInv'
  BY Zenon DEF FlushIfAged, CoverInv, walVars, Promised, Serving
<1>7. PromiseInv'
  BY Zenon DEF FlushIfAged, PromiseInv, walVars, Promised, Stored, Unreadable
<1>8. ReplayInv'
  BY Zenon DEF FlushIfAged, ReplayInv, Opening
<1>9. IdInv'
  BY Zenon DEF FlushIfAged, IdInv, walVars, Ids
<1>10. MarkInv'
  BY Zenon DEF FlushIfAged, MarkInv, walVars, Serving
<1> QED  BY Zenon, <1>1, <1>2, <1>3, <1>4, <1>5, <1>6, <1>7, <1>8, <1>9, <1>10

\* An explicit flush.
LEMMA FlushKeeps ==
    ASSUME IInv, Flush
    PROVE  IInv'
<1> USE DEF IInv
<1>1. TypeOK'
  BY Zenon DEF Flush, TypeOK, walVars, WalTypeOK, Serving, Waiting
<1>2. WalInv'
  BY Zenon DEF Flush, WalInv, walVars
<1>3. ControlInv'
  BY Zenon DEF Flush, ControlInv, walVars, Promised, Serving, Waiting
<1>4. DisjointRanges'
  BY Zenon DEF Flush, DisjointRanges, walVars, Serving
<1>5. UploadInv'
  BY Zenon DEF Flush, UploadInv, Stored
<1>6. CoverInv'
  BY Zenon DEF Flush, CoverInv, walVars, Promised, Serving
<1>7. PromiseInv'
  BY Zenon DEF Flush, PromiseInv, walVars, Promised, Stored, Unreadable
<1>8. ReplayInv'
  BY Zenon DEF Flush, ReplayInv, Opening
<1>9. IdInv'
  BY Zenon DEF Flush, IdInv, walVars, Ids
<1>10. MarkInv'
  BY Zenon DEF Flush, MarkInv, walVars, Serving
<1> QED  BY Zenon, <1>1, <1>2, <1>3, <1>4, <1>5, <1>6, <1>7, <1>8, <1>9, <1>10

\* A flush whose uploads have ended.
LEMMA FlushJoinedKeeps ==
    ASSUME IInv, FlushJoined
    PROVE  IInv'
<1> USE DEF IInv
<1>1. TypeOK'
  BY Zenon DEF FlushJoined, TypeOK, walVars, WalTypeOK, Serving
<1>2. WalInv'
  BY Zenon DEF FlushJoined, WalInv, walVars
<1>3. ControlInv'
  BY Zenon DEF FlushJoined, ControlInv, walVars, Promised, Serving
<1>4. DisjointRanges'
  BY Zenon DEF FlushJoined, DisjointRanges, walVars, Serving
<1>5. UploadInv'
  BY Zenon DEF FlushJoined, UploadInv
<1>6. CoverInv'
  BY Zenon DEF FlushJoined, CoverInv, walVars, Promised, Serving
<1>7. PromiseInv'
  BY Zenon DEF FlushJoined, PromiseInv, walVars, Promised, Stored, Unreadable
<1>8. ReplayInv'
  BY Zenon DEF FlushJoined, ReplayInv, Opening
<1>9. IdInv'
  BY Zenon DEF FlushJoined, IdInv, walVars
<1>10. MarkInv'
  BY Zenon DEF FlushJoined, MarkInv, walVars, Serving
<1> QED  BY Zenon, <1>1, <1>2, <1>3, <1>4, <1>5, <1>6, <1>7, <1>8, <1>9, <1>10

\* spawn_upload hands the open block to a task.
LEMMA SpawnUploadKeeps ==
    ASSUME IInv, SpawnUpload
    PROVE  IInv'
<1> USE DEF IInv
<1>a. pc \in Serving /\ pc # "down" /\ wseq = cur
  BY Zenon, WriterIsCurrent DEF SpawnUpload, RotateOk, Waiting, Serving, TypeOK
<1>b. /\ segs' = segs \cup {cur + 1} /\ cur' = cur + 1 /\ wseq' = cur + 1
      /\ bytes' = 0 /\ UNCHANGED <<at, kept, next, torn>>
  BY Zenon DEF SpawnUpload, RotateOk, NoWrite
<1> DEFINE new == [low |-> low, sealed |-> cur, frames |-> builder, step |-> "put"]
<1>c. /\ uploads' = uploads \cup {new} /\ low' = cur + 1 /\ builder' = {}
      /\ UNCHANGED <<todo, hashed, bucket, rows, hw, acked, lost, crashes, faults>>
  BY Zenon DEF SpawnUpload, NextLow
<1>d. pc' \in {"append", "join", "free"}
  BY Zenon DEF SpawnUpload, AfterSpawn
<1>e. Promised' = Promised
  BY Zenon, <1>b, <1>c, <1>d DEF SpawnUpload, Promised
<1>1. TypeOK'
  <2>1. WalTypeOK'
    BY <1>b DEF TypeOK, WalTypeOK
  <2>2. uploads' \subseteq Upload
    BY <1>c DEF TypeOK, WalTypeOK, Upload
  <2>3. low' \in Nat /\ builder' \subseteq Frame
    BY <1>c DEF TypeOK, WalTypeOK
  <2>4. pc' \in {"down"} \cup Opening \cup Serving
    BY Zenon, <1>d DEF Serving
  <2>5. replying' \subseteq Frame
    BY Zenon DEF SpawnUpload, ControlInv, TypeOK
  <2> QED  BY Zenon, <2>1, <2>2, <2>3, <2>4, <2>5, <1>c DEF TypeOK
<1>2. WalInv'
  BY <1>a, <1>b DEF WalInv, TypeOK, WalTypeOK
<1>3. ControlInv'
  BY SMTT(60), <1>a, <1>b, <1>c, <1>d, <1>e DEF ControlInv, Serving, TypeOK, WalTypeOK
<1>4. DisjointRanges'
  <2>1. \A u \in uploads : u.low \in Nat /\ u.sealed \in Nat
    BY Zenon DEF TypeOK, Upload
  <2>2. \A f \in builder : low <= at[f] /\ at[f] <= cur
    BY Zenon, <1>a DEF DisjointRanges, WalInv, TypeOK
  <2>3. low <= cur /\ low \in Nat /\ cur \in Nat
    BY Zenon, <1>a DEF ControlInv, TypeOK, WalTypeOK
  <2>4. new.low = low /\ new.sealed = cur /\ new.frames = builder
    OBVIOUS
  <2> QED  BY <2>1, <2>2, <2>3, <2>4, <1>b, <1>c DEF DisjointRanges
<1>5. UploadInv'
  BY <1>c DEF UploadInv, Stored
<1>6. CoverInv'
  <2>1. \A f \in kept : at[f] <= cur /\ at[f] \in Nat
    BY Zenon, <1>a DEF WalInv, TypeOK, WalTypeOK
  <2> QED  BY SMTT(60), <2>1, <1>a, <1>b, <1>c, <1>e DEF CoverInv, TypeOK, WalTypeOK
<1>7. PromiseInv'
  BY Zenon, <1>b, <1>c, <1>e DEF PromiseInv, Stored, Unreadable
<1>8. ReplayInv'
  BY Zenon, <1>d DEF ReplayInv, Opening
<1>9. IdInv'
  <2>1. LiveId(cur) \notin Ids
    <3> SUFFICES ASSUME NEW b \in bucket, b.id = LiveId(cur)  PROVE FALSE
      BY Zenon DEF Ids
    <3>1. cur < cur
      BY DEF LiveId, IdInv
    <3> QED  BY <3>1 DEF TypeOK, WalTypeOK
  <2>2. cur \in Nat
    BY Zenon DEF TypeOK, WalTypeOK
  <2>3. new.sealed = cur
    OBVIOUS
  <2>4. Ids' = Ids
    BY Zenon, <1>c DEF Ids
  <2>5. \A b \in bucket' :
          /\ b.id.kind = "live" => b.id.key < cur'
          /\ b.id.kind = "recovery" => b.frames \subseteq b.id.key
          /\ b.seg < cur'
    BY SMTT(60), <2>2, <1>b, <1>c, BlockType DEF IdInv
  <2>6. \A v \in uploads' : v.step = "put" => LiveId(v.sealed) \notin Ids'
    BY Zenon, <2>1, <2>3, <2>4, <1>c DEF IdInv
  <2> QED  BY Zenon, <2>5, <2>6 DEF IdInv
<1>10. MarkInv'
  BY SMTT(60), <1>b, <1>c DEF MarkInv, TypeOK, WalTypeOK, NoSeg
<1> QED  BY Zenon, <1>1, <1>2, <1>3, <1>4, <1>5, <1>6, <1>7, <1>8, <1>9, <1>10

\* spawn_upload whose rotate() failed.
LEMMA SpawnFailsKeeps ==
    ASSUME IInv, SpawnFails
    PROVE  IInv'
<1> USE DEF IInv
<1>a. /\ cur' = cur /\ bytes' = bytes /\ faults' \in Nat
      /\ torn \subseteq torn' /\ torn' \subseteq torn \cup kept'
      /\ \/ segs' = segs /\ wseq' = wseq
         \/ segs' = segs \cup {cur + 1} /\ wseq' = cur + 1
  BY Zenon, RotateErrEffect DEF SpawnFails, TypeOK, WalTypeOK
<1>b. /\ pc \in Serving /\ pc # "down" /\ pc' = "free"
      /\ UNCHANGED <<at, kept, next, builder, low, uploads, todo, hashed, bucket,
                      rows, hw, replying, acked, lost, crashes>>
  BY Zenon DEF SpawnFails, NoWrite, Waiting, Serving
<1>c. Promised' \subseteq Promised
  BY Zenon, <1>b DEF Promised
<1>d. /\ segs \subseteq segs' /\ segs' \subseteq Nat
      /\ wseq' \in segs' /\ wseq' \in Nat /\ wseq <= wseq' /\ wseq' <= cur + 1
      /\ \A s \in segs' : s <= wseq'
  BY Zenon, <1>a, <1>b, SegsGrow DEF TypeOK
<1>1. TypeOK'
  <2>1. WalTypeOK'
    BY Zenon, <1>a, <1>b, <1>d DEF TypeOK, WalTypeOK
  <2> QED  BY Zenon, <2>1, <1>a, <1>b DEF TypeOK, Serving
<1>2. WalInv'
  BY <1>a, <1>b, <1>d DEF WalInv, TypeOK, WalTypeOK
<1>3. ControlInv'
  BY Zenon, <1>a, <1>b, <1>c DEF ControlInv, Serving
<1>4. DisjointRanges'
  BY Zenon, <1>a, <1>b DEF DisjointRanges
<1>5. UploadInv'
  BY Zenon, <1>b DEF UploadInv, Stored
<1>6. CoverInv'
  BY Zenon, <1>b, <1>c DEF CoverInv
<1>7. PromiseInv'
  BY Zenon, <1>a, <1>b, <1>c DEF PromiseInv, Stored, Unreadable
<1>8. ReplayInv'
  BY Zenon, <1>b DEF ReplayInv, Opening
<1>9. IdInv'
  BY Zenon, <1>a, <1>b DEF IdInv, Ids
<1>10. MarkInv'
  BY Zenon, <1>a, <1>b DEF MarkInv
<1> QED  BY Zenon, <1>1, <1>2, <1>3, <1>4, <1>5, <1>6, <1>7, <1>8, <1>9, <1>10
-----------------------------------------------------------------------------
(* The upload tasks and a crash.                                           *)

\* run_upload commits its block.
LEMMA UploadPutKeeps ==
    ASSUME IInv, NEW u, UploadPut(u)
    PROVE  IInv'
<1> USE DEF IInv
<1>a. LiveId(u.sealed) \notin Ids
  BY Zenon DEF UploadPut, IdInv
<1>b. Stored \subseteq Stored' /\ u.frames \subseteq Stored'
  BY Zenon, <1>a, FreshPut, PutEffect DEF UploadPut
<1> DEFINE new == [id |-> LiveId(u.sealed), frames |-> u.frames, seg |-> u.sealed]
<1>c. /\ \A b \in bucket' : b \in bucket \/ b = new
      /\ Ids' \subseteq Ids \cup {LiveId(u.sealed)}
  BY PutEffect DEF UploadPut
<1>d. \A v \in uploads : v # u => LiveId(v.sealed) # LiveId(u.sealed)
  BY DEF UploadPut, LiveId, DisjointRanges, TypeOK, Upload
<1>e. u.sealed \in Nat /\ u.frames \subseteq Frame /\ u.sealed < cur
  BY Zenon DEF UploadPut, TypeOK, Upload, DisjointRanges
<1>1. TypeOK'
  <2>1. WalTypeOK'
    BY Zenon DEF UploadPut, TypeOK, walVars, WalTypeOK
  <2>2. /\ pc' \in {"down"} \cup Opening \cup Serving
        /\ builder' \subseteq Frame /\ low' \in Nat
        /\ todo' \subseteq Frame /\ hashed' \subseteq Frame
        /\ rows' \subseteq Uuid /\ hw' \in Nat \cup {NoSeg}
        /\ replying' \subseteq Frame /\ acked' \subseteq Frame /\ lost' \subseteq Frame
        /\ crashes' \in Nat /\ faults' \in Nat
    BY Zenon DEF UploadPut, TypeOK
  <2>3. uploads' \subseteq Upload
    BY Zenon DEF UploadPut, TypeOK, Step, Upload
  <2>4. bucket' \subseteq Block
    <3>1. LiveId(u.sealed) \in Uuid
      BY Zenon, <1>e DEF Uuid, LiveId
    <3> QED  BY Zenon, <3>1, <1>e, PutType DEF UploadPut
  <2> QED  BY Zenon, <2>1, <2>2, <2>3, <2>4 DEF TypeOK
<1>2. WalInv'
  BY Zenon DEF UploadPut, WalInv, walVars
<1>3. ControlInv'
  BY Zenon DEF UploadPut, ControlInv, Promised, TypeOK, Upload, Step, walVars
<1>4. DisjointRanges'
  BY Zenon DEF UploadPut, DisjointRanges, TypeOK, Upload, Step, walVars
<1>5. UploadInv'
  BY Zenon, <1>b DEF UploadPut, Step, UploadInv, TypeOK, Upload
<1>6. CoverInv'
  BY Zenon DEF UploadPut, CoverInv, Promised, TypeOK, Upload, Step, walVars
<1>7. PromiseInv'
  BY Zenon, <1>b DEF UploadPut, PromiseInv, Promised, Unreadable, walVars
<1>8. ReplayInv'
  BY Zenon DEF UploadPut, ReplayInv, Opening, ControlInv, Serving, Waiting
<1>9. IdInv'
  <2>1. \A v \in uploads' : v.step = "put" => v \in uploads /\ v # u
    BY Zenon DEF UploadPut, Step, TypeOK, Upload
  <2>2. new.id.kind = "live" /\ new.id.key = u.sealed /\ new.seg = u.sealed
    BY Zenon DEF LiveId
  <2>3. \A v \in uploads' : v.step = "put" => LiveId(v.sealed) \notin Ids'
    BY Zenon, <2>1, <1>c, <1>d DEF IdInv
  <2> QED  BY Zenon, <2>2, <2>3, <1>c, <1>e DEF UploadPut, IdInv, walVars
<1>10. MarkInv'
  BY Zenon DEF UploadPut, MarkInv, walVars
<1> QED  BY Zenon, <1>1, <1>2, <1>3, <1>4, <1>5, <1>6, <1>7, <1>8, <1>9, <1>10

\* run_upload gives up.
LEMMA UploadFailsKeeps ==
    ASSUME IInv, NEW u, UploadFails(u)
    PROVE  IInv'
<1> USE DEF IInv
<1>a. LiveId(u.sealed) \notin Ids
  BY Zenon DEF UploadFails, IdInv
<1>b. Stored \subseteq Stored'
  BY Zenon, <1>a, FreshPut DEF UploadFails, Stored
<1> DEFINE new == [id |-> LiveId(u.sealed), frames |-> u.frames, seg |-> u.sealed]
<1>c. /\ \A b \in bucket' : b \in bucket \/ b = new
      /\ Ids' \subseteq Ids \cup {LiveId(u.sealed)}
  BY PutEffect DEF UploadFails, Ids
<1>d. \A v \in uploads : v # u => LiveId(v.sealed) # LiveId(u.sealed)
  BY DEF UploadFails, LiveId, DisjointRanges, TypeOK, Upload
<1>e. u.sealed \in Nat /\ u.frames \subseteq Frame /\ u.sealed < cur
  BY Zenon DEF UploadFails, TypeOK, Upload, DisjointRanges
<1>1. TypeOK'
  <2>1. WalTypeOK'
    BY Zenon DEF UploadFails, TypeOK, walVars, WalTypeOK
  <2>2. /\ pc' \in {"down"} \cup Opening \cup Serving
        /\ builder' \subseteq Frame /\ low' \in Nat
        /\ uploads' \subseteq Upload
        /\ todo' \subseteq Frame /\ hashed' \subseteq Frame
        /\ rows' \subseteq Uuid /\ hw' \in Nat \cup {NoSeg}
        /\ replying' \subseteq Frame /\ acked' \subseteq Frame /\ lost' \subseteq Frame
    BY Zenon DEF UploadFails, TypeOK
  <2>3. bucket' \subseteq Block
    <3>1. LiveId(u.sealed) \in Uuid
      BY Zenon, <1>e DEF Uuid, LiveId
    <3> QED  BY Zenon, <3>1, <1>e, PutType DEF UploadFails, TypeOK
  <2>4. crashes' \in Nat /\ faults' \in Nat
    BY DEF UploadFails, TypeOK, Fault
  <2> QED  BY Zenon, <2>1, <2>2, <2>3, <2>4 DEF TypeOK
<1>2. WalInv'
  BY Zenon DEF UploadFails, WalInv, walVars
<1>3. ControlInv'
  BY Zenon DEF UploadFails, ControlInv, walVars, Promised
<1>4. DisjointRanges'
  BY Zenon DEF UploadFails, DisjointRanges, walVars
<1>5. UploadInv'
  BY Zenon, <1>b DEF UploadFails, UploadInv
<1>6. CoverInv'
  BY Zenon DEF UploadFails, CoverInv, walVars, Promised
<1>7. PromiseInv'
  BY Zenon, <1>b DEF UploadFails, PromiseInv, Promised, Unreadable, walVars
<1>8. ReplayInv'
  BY Zenon DEF UploadFails, ReplayInv, Opening, ControlInv, Serving, Waiting
<1>9. IdInv'
  <2>1. \A v \in uploads' : v.step = "put" => v \in uploads /\ v # u
    BY Zenon DEF UploadFails
  <2>2. new.id.kind = "live" /\ new.id.key = u.sealed /\ new.seg = u.sealed
    BY Zenon DEF LiveId
  <2>3. \A v \in uploads' : v.step = "put" => LiveId(v.sealed) \notin Ids'
    BY Zenon, <2>1, <1>c, <1>d DEF IdInv
  <2> QED  BY Zenon, <2>2, <2>3, <1>c, <1>e DEF UploadFails, IdInv, walVars
<1>10. MarkInv'
  BY Zenon DEF UploadFails, MarkInv, walVars
<1> QED  BY Zenon, <1>1, <1>2, <1>3, <1>4, <1>5, <1>6, <1>7, <1>8, <1>9, <1>10

\* run_upload removes one of its segments.
LEMMA ReleaseSegmentKeeps ==
    ASSUME IInv, NEW u, NEW s, ReleaseSegment(u, s)
    PROVE  IInv'
<1> USE DEF IInv
<1>1. TypeOK'
  BY Zenon DEF ReleaseSegment, TypeOK, WalTypeOK, Unlink, pipeVars
<1>2. WalInv'
  <2>1. s < wseq /\ s \in Nat
    BY DEF ReleaseSegment, OwnSegs, DisjointRanges, WalInv, TypeOK, WalTypeOK,
       Upload
  <2>2. segs' = segs \ {s} /\ kept' = kept \ InSeg(s) /\ UNCHANGED <<at, torn, next, cur, wseq, pc>>
    BY Zenon DEF ReleaseSegment, Unlink, pipeVars
  <2>3. wseq \in segs
    BY Zenon DEF ReleaseSegment, ControlInv, WalInv, Serving, Waiting
  <2> QED  BY <2>1, <2>2, <2>3 DEF WalInv, InSeg, TypeOK, WalTypeOK
<1>3. ControlInv'
  BY Zenon DEF ReleaseSegment, ControlInv, Unlink, pipeVars, Promised
<1>4. DisjointRanges'
  BY Zenon DEF ReleaseSegment, DisjointRanges, Unlink, pipeVars
<1>5. UploadInv'
  BY Zenon DEF ReleaseSegment, UploadInv, pipeVars, Stored
<1>6. CoverInv'
  BY Zenon DEF ReleaseSegment, CoverInv, Unlink, pipeVars, Promised
<1>7. PromiseInv'
  <2>1. Promised' = Promised /\ Stored' = Stored /\ UNCHANGED <<lost, torn, at>>
    BY Zenon DEF ReleaseSegment, Unlink, pipeVars, Promised, Stored
  <2>2. u.frames \subseteq Stored /\ pc \in Serving
    BY Zenon DEF ReleaseSegment, UploadInv, ControlInv
  <2>3. \A f \in Promised \cap kept : f \in kept' \/ f \in Stored
    BY Zenon, <2>2 DEF ReleaseSegment, Unlink, InSeg, OwnSegs, CoverInv
  <2> QED  BY Zenon, <2>1, <2>3 DEF PromiseInv, Unreadable
<1>8. ReplayInv'
  BY Zenon DEF ReleaseSegment, ReplayInv, Unlink, pipeVars, Unreadable, Ids
<1>9. IdInv'
  BY Zenon DEF ReleaseSegment, IdInv, Unlink, pipeVars, Ids
<1>10. MarkInv'
  BY Zenon DEF ReleaseSegment, MarkInv, Unlink, pipeVars
<1> QED  BY Zenon, <1>1, <1>2, <1>3, <1>4, <1>5, <1>6, <1>7, <1>8, <1>9, <1>10

\* The end of that release.
LEMMA ReleaseEndsKeeps ==
    ASSUME IInv, NEW u, ReleaseEnds(u)
    PROVE  IInv'
<1> USE DEF IInv
<1>1. TypeOK'
  <2>1. WalTypeOK'
    BY Zenon DEF ReleaseEnds, TypeOK, walVars, WalTypeOK
  <2>2. /\ pc' \in {"down"} \cup Opening \cup Serving
        /\ builder' \subseteq Frame /\ low' \in Nat
        /\ todo' \subseteq Frame /\ hashed' \subseteq Frame
        /\ bucket' \subseteq Block
        /\ rows' \subseteq Uuid /\ hw' \in Nat \cup {NoSeg}
        /\ replying' \subseteq Frame /\ acked' \subseteq Frame /\ lost' \subseteq Frame
    BY Zenon DEF ReleaseEnds, TypeOK
  <2>3. uploads' \subseteq Upload
    BY Zenon DEF ReleaseEnds, Step, TypeOK, Upload
  <2>4. crashes' \in Nat /\ faults' \in Nat
    BY DEF ReleaseEnds, Fault, NoFault, TypeOK
  <2> QED  BY Zenon, <2>1, <2>2, <2>3, <2>4 DEF TypeOK
<1>2. WalInv'
  BY Zenon DEF ReleaseEnds, WalInv, walVars
<1>3. ControlInv'
  BY Zenon DEF ReleaseEnds, ControlInv, Promised, TypeOK, Upload, Step, walVars
<1>4. DisjointRanges'
  BY Zenon DEF ReleaseEnds, DisjointRanges, TypeOK, Upload, Step, walVars
<1>5. UploadInv'
  BY Zenon DEF ReleaseEnds, UploadInv, Stored, TypeOK, Upload, Step
<1>6. CoverInv'
  BY Zenon DEF ReleaseEnds, CoverInv, Promised, TypeOK, Upload, Step, walVars
<1>7. PromiseInv'
  BY Zenon DEF ReleaseEnds, PromiseInv, walVars, Promised, Stored, Unreadable
<1>8. ReplayInv'
  BY Zenon DEF ReleaseEnds, ReplayInv, walVars, Unreadable, Ids
<1>9. IdInv'
  BY Zenon DEF ReleaseEnds, IdInv, Ids, TypeOK, Upload, Step, walVars
<1>10. MarkInv'
  BY Zenon DEF ReleaseEnds, MarkInv, walVars
<1> QED  BY Zenon, <1>1, <1>2, <1>3, <1>4, <1>5, <1>6, <1>7, <1>8, <1>9, <1>10

\* run_upload inserts its block in the catalog.
LEMMA InsertBlockKeeps ==
    ASSUME IInv, NEW u, InsertBlock(u)
    PROVE  IInv'
<1> USE DEF IInv
<1>1. TypeOK'
  <2>1. WalTypeOK'
    BY Zenon DEF InsertBlock, TypeOK, walVars, WalTypeOK
  <2>2. /\ pc' \in {"down"} \cup Opening \cup Serving
        /\ builder' \subseteq Frame /\ low' \in Nat
        /\ uploads' \subseteq Upload
        /\ todo' \subseteq Frame /\ hashed' \subseteq Frame
        /\ bucket' \subseteq Block
        /\ replying' \subseteq Frame /\ acked' \subseteq Frame /\ lost' \subseteq Frame
    BY Zenon DEF InsertBlock, TypeOK
  <2>3. rows' \subseteq Uuid /\ hw' \in Nat \cup {NoSeg}
    BY SMTT(60) DEF InsertBlock, TypeOK, Advance, Uuid, Upload, LiveId
  <2>4. crashes' \in Nat /\ faults' \in Nat
    BY DEF InsertBlock, Fault, NoFault, TypeOK
  <2> QED  BY Zenon, <2>1, <2>2, <2>3, <2>4 DEF TypeOK
<1>2. WalInv'
  BY Zenon DEF InsertBlock, WalInv, walVars
<1>3. ControlInv'
  BY Zenon DEF InsertBlock, ControlInv, walVars, Promised
<1>4. DisjointRanges'
  BY Zenon DEF InsertBlock, DisjointRanges, walVars
<1>5. UploadInv'
  BY Zenon DEF InsertBlock, UploadInv, Stored
<1>6. CoverInv'
  BY Zenon DEF InsertBlock, CoverInv, walVars, Promised
<1>7. PromiseInv'
  BY Zenon DEF InsertBlock, PromiseInv, walVars, Promised, Stored, Unreadable
<1>8. ReplayInv'
  BY Zenon DEF InsertBlock, ReplayInv, walVars, Unreadable, Ids
<1>9. IdInv'
  BY Zenon DEF InsertBlock, IdInv, walVars, Ids
<1>10. MarkInv'
  <2>1. u.sealed < cur /\ u.sealed < low /\ u.sealed \in Nat
    BY Zenon DEF InsertBlock, DisjointRanges, TypeOK, Upload
  <2> QED  BY Zenon, <2>1 DEF InsertBlock, Advance, MarkInv, TypeOK, WalTypeOK, NoSeg,
     walVars
<1> QED  BY Zenon, <1>1, <1>2, <1>3, <1>4, <1>5, <1>6, <1>7, <1>8, <1>9, <1>10

\* The process dies.
LEMMA CrashKeeps ==
    ASSUME IInv, Crash
    PROVE  IInv'
<1> USE DEF IInv
<1>a. PICK cut \in 1..(MaxFrames + 1), partial \in BOOLEAN :
         Truncate(cut, partial) /\ lost' = lost \cup CutAt(cut)
  BY Zenon DEF Crash
<1>b. CutAt(cut) \subseteq kept
  BY Zenon DEF CutAt, InSeg
<1>c. kept' \subseteq kept /\ kept \subseteq kept' \cup CutAt(cut)
  BY Zenon, <1>a DEF Truncate, CutAt, InSeg
<1>d. torn \subseteq torn' /\ torn' \subseteq torn \cup kept
  BY Zenon, <1>a DEF Truncate, InSeg
<1>e. UNCHANGED <<segs, at, next, cur, wseq, bytes>>
  BY Zenon, <1>a DEF Truncate
<1>1. TypeOK'
  <2>1. WalTypeOK'
    BY Zenon, <1>c, <1>d, <1>e DEF TypeOK, WalTypeOK
  <2>2. /\ pc' \in {"down"} \cup Opening \cup Serving
        /\ uploads' \subseteq Upload
        /\ todo' \subseteq Frame /\ hashed' \subseteq Frame
    BY Zenon DEF Crash
  <2>3. /\ builder' \subseteq Frame /\ low' \in Nat
        /\ bucket' \subseteq Block
        /\ rows' \subseteq Uuid /\ hw' \in Nat \cup {NoSeg}
        /\ crashes' \in Nat /\ faults' \in Nat
    BY DEF Crash, TypeOK
  <2>4. replying' \subseteq Frame /\ acked' \subseteq Frame /\ lost' \subseteq Frame
    BY Zenon, <1>a, <1>b DEF Crash, TypeOK, WalTypeOK
  <2> QED  BY Zenon, <2>1, <2>2, <2>3, <2>4 DEF TypeOK
<1>2. WalInv'
  <2>1. wseq \in segs /\ pc' = "down"
    BY Zenon DEF Crash, WalInv
  <2> QED  BY Zenon, <2>1, <1>c, <1>d, <1>e DEF WalInv
<1>3. ControlInv'
  BY Zenon DEF Crash, ControlInv, Truncate, Promised, Serving, Waiting
<1>4. DisjointRanges'
  BY Zenon DEF Crash, DisjointRanges
<1>5. UploadInv'
  BY Zenon DEF Crash, UploadInv
<1>6. CoverInv'
  BY Zenon DEF Crash, CoverInv, Serving, Waiting
<1>7. PromiseInv'
  <2>1. Promised' \subseteq Promised /\ Stored' = Stored
    BY Zenon DEF Crash, Promised, Stored
  <2> QED  BY Zenon, <2>1, <1>a, <1>c, <1>d, <1>e DEF PromiseInv, Unreadable
<1>8. ReplayInv'
  BY Zenon DEF Crash, ReplayInv, Opening
<1>9. IdInv'
  BY Zenon DEF Crash, IdInv, Truncate
<1>10. MarkInv'
  BY Zenon DEF Crash, MarkInv, Truncate, Serving, Waiting
<1> QED  BY Zenon, <1>1, <1>2, <1>3, <1>4, <1>5, <1>6, <1>7, <1>8, <1>9, <1>10
-----------------------------------------------------------------------------
(* The theorems.                                                           *)

\* The empty shard, before its first start, satisfies the invariant.
LEMMA InitHolds == Init => IInv
<1> SUFFICES ASSUME Init  PROVE IInv
  OBVIOUS
<1> USE DEF Init, WalInit
<1>1. TypeOK
  BY WalConstants DEF TypeOK, WalTypeOK, Frame, NoSeg
<1>2. WalInv
  BY DEF WalInv
<1>3. ControlInv /\ DisjointRanges /\ UploadInv /\ CoverInv
  BY Zenon DEF ControlInv, DisjointRanges, UploadInv, CoverInv, Promised, Serving, Waiting
<1>4. PromiseInv /\ ReplayInv /\ IdInv
  BY Zenon DEF PromiseInv, ReplayInv, IdInv, Promised, Opening
<1>5. MarkInv
  BY DEF MarkInv, NoSeg, Serving, Waiting
<1> QED  BY Zenon, <1>1, <1>2, <1>3, <1>4, <1>5 DEF IInv

\* A stuttering step keeps it.
LEMMA StutterKeeps ==
    ASSUME IInv, UNCHANGED vars
    PROVE  IInv'
BY SMTT(60) DEF IInv, vars, walVars, pipeVars, TypeOK, WalTypeOK, WalInv, ControlInv, Promised,
   DisjointRanges, UploadInv, Stored, CoverInv, PromiseInv, Unreadable, ReplayInv,
   Ids, IdInv, MarkInv

\* Every step of the shard keeps it.
LEMMA NextKeeps == IInv /\ [Next]_vars => IInv'
<1> SUFFICES ASSUME IInv, [Next]_vars  PROVE IInv'
  OBVIOUS
<1>1. CASE Startup
  BY Zenon, <1>1, OpenKeeps, ReplayFrameKeeps, ReplayEndKeeps, RecoveryPutKeeps,
     RecoveryInsertKeeps, RecoveryReleaseKeeps, RecoveryReleasedKeeps, ServeKeeps
     DEF Startup
<1>2. CASE OpenFails
  BY Zenon, <1>2, OpenFailsKeeps
<1>3. CASE IngestBoundary \/ IngestFrame \/ AppendFails
  BY Zenon, <1>3, IngestBoundaryKeeps, IngestFrameKeeps, AppendFailsKeeps
<1>4. ASSUME NEW f \in replying, Ack(f)  PROVE IInv'
  BY Zenon, <1>4, AckKeeps
<1>5. CASE FlushIfAged \/ Flush \/ FlushJoined
  BY Zenon, <1>5, FlushIfAgedKeeps, FlushKeeps, FlushJoinedKeeps
<1>6. CASE SpawnUpload \/ SpawnFails
  BY Zenon, <1>6, SpawnUploadKeeps, SpawnFailsKeeps
<1>7. ASSUME NEW u \in uploads, UploadTask(u) \/ UploadFails(u)  PROVE IInv'
  BY Zenon, <1>7, UploadPutKeeps, ReleaseEndsKeeps, InsertBlockKeeps, ReleaseSegmentKeeps,
     UploadFailsKeeps DEF UploadTask
<1>8. CASE Crash
  BY Zenon, <1>8, CrashKeeps
<1>9. CASE UNCHANGED vars
  BY Zenon, <1>9, StutterKeeps
<1> QED  BY Zenon, <1>1, <1>2, <1>3, <1>4, <1>5, <1>6, <1>7, <1>8, <1>9 DEF Next

\* IInv is an invariant of the shard.
THEOREM Invariance == Spec => []IInv
<1> QED  BY InitHolds, NextKeeps, PTL DEF Spec

\* The variables of the WAL and of the pipeline keep their types.
THEOREM TypeCorrect == Spec => []TypeOK
<1>1. IInv => TypeOK
  BY Zenon DEF IInv
<1> QED  BY <1>1, Invariance, PTL

\* The segment ranges of concurrent uploads and of the open block are disjoint
\* and contain their frames, so a release reaches no other block's segments
\* (spawn_upload, release_segments).
THEOREM RangesDisjoint == Spec => []DisjointRanges
<1>1. IInv => DisjointRanges
  BY Zenon DEF IInv
<1> QED  BY <1>1, Invariance, PTL

\* An acknowledged batch is in a committed block or would be replayed, unless a
\* crash cut it off the unsealed segment or a failed write damaged the segment
\* in front of it (run_upload, open_with_config_and_shard).
THEOREM Durability == Spec => []Durable
<1>1. IInv => Durable
  <2> SUFFICES ASSUME IInv, NEW f \in acked
               PROVE  f \in Stored \/ f \in Readable(wseq + 1) \/ f \in lost \/ Unreadable(f)
    BY Zenon DEF Durable
  <2>1. f \in Stored \/ f \in kept \/ f \in lost \/ Unreadable(f)
    BY Zenon DEF IInv, PromiseInv, Promised
  <2>2. f \in kept => at[f] < wseq + 1
    BY DEF IInv, WalInv, TypeOK, WalTypeOK
  <2> QED  BY Zenon, <2>1, <2>2 DEF Readable
<1> QED  BY <1>1, Invariance, PTL

\* The records of the open block are above the catalog watermark of the shard
\* (run_upload's stamp, advance_watermark).
THEOREM WatermarkBelowOpenBlock == Spec => []OpenBlockAboveWatermark
<1>1. IInv => OpenBlockAboveWatermark
  <2> SUFFICES ASSUME IInv, pc \in Serving, NEW f \in builder  PROVE at[f] > hw
    BY Zenon DEF OpenBlockAboveWatermark
  <2>1. hw < low /\ low <= at[f]
    BY Zenon DEF IInv, MarkInv, DisjointRanges
  <2> QED  BY <2>1 DEF IInv, TypeOK, WalTypeOK, NoSeg
<1> QED  BY <1>1, Invariance, PTL

-----------------------------------------------------------------------------
(* What is in a block: frames of one schema, and the same frames whenever  *)
(* a recovery arrives at the same uuid.                                    *)

Pure(fs) == fs \subseteq NewSchema \/ fs \cap NewSchema = {}

\* Only frames of one schema meet in a builder; the ingest that saw a boundary
\* appends to an empty one.
SchemaInv ==
    /\ Pure(builder) /\ (pc = "append" => builder = {})
    /\ \A u \in uploads : Pure(u.frames)
    /\ \A b \in bucket : Pure(b.frames)

\* The replay loop as a function c of the frames H it has read: c[f] is the
\* builder after frame f was merged.
Newest(m, H) == m \in H /\ \A g \in H : g <= m
CutAfter(fs, f) == ShouldClose(fs) \/ SchemaBoundary(fs, f)

Chunks(H, c) ==
    /\ c \in [H -> SUBSET H]
    /\ \A f \in H :
        /\ (\A g \in H : f <= g) => c[f] = {f}
        /\ \A g \in H : Newest(g, {h \in H : h < f}) =>
                c[f] = IF CutAfter(c[g], f) THEN {f} ELSE c[g] \cup {f}

IsChunk(H, fs) ==
    \E c \in [H -> SUBSET H] : Chunks(H, c) /\ \E m \in H : Newest(m, H) /\ fs = c[m]

Cuts(fs) == \A f \in todo : (\A g \in todo : f <= g) => CutAfter(fs, f)

\* A recovery block is what the replay of the prefix its uuid digests leaves in
\* the builder, and the running replay is on the way to such blocks.
Replaying ==
    pc \in Opening =>
        /\ \A f \in hashed, g \in todo : f < g
        /\ builder # {} => IsChunk(hashed, builder)
        /\ builder = {} /\ hashed # {} =>
              \E fs \in SUBSET hashed : IsChunk(hashed, fs) /\ Cuts(fs)
        /\ pc = "put" => Cuts(builder)
        /\ pc = "replay" /\ builder # {} => ~ShouldClose(builder)

BlockInv ==
    /\ SchemaInv /\ Replaying
    /\ \A b \in bucket : b.id.kind = "recovery" => IsChunk(b.id.key, b.frames)
-----------------------------------------------------------------------------
\* A batch that is no boundary keeps the builder to one schema.
LEMMA PureAdd ==
    ASSUME NEW fs, NEW f, Pure(fs), ~SchemaBoundary(fs, f)
    PROVE  Pure(fs \cup {f})
<1>1. \A g \in fs : g \in NewSchema <=> f \in NewSchema
  BY DEF SchemaBoundary
<1>2. CASE f \in NewSchema
  BY Zenon, <1>1, <1>2 DEF Pure
<1>3. CASE f \notin NewSchema
  BY Zenon, <1>1, <1>3 DEF Pure
<1> QED  BY Zenon, <1>2, <1>3

\* A PUT of frames of one schema.
LEMMA PurePut ==
    ASSUME NEW id, NEW fs, NEW seg, Put(id, fs, seg), Pure(fs),
           \A b \in bucket : Pure(b.frames)
    PROVE  \A b \in bucket' : Pure(b.frames)
<1>1. \A b \in bucket' : b \in bucket \/ b = [id |-> id, frames |-> fs, seg |-> seg]
  BY Zenon, PutEffect
<1>2. [id |-> id, frames |-> fs, seg |-> seg].frames = fs
  BY Zenon
<1> QED  BY Zenon, <1>1, <1>2

\* A set of naturals has a least element, and a bounded one a greatest.
LEMMA LeastNat ==
    ASSUME NEW T, T \subseteq Nat, T # {}
    PROVE  \E m \in T : \A k \in T : m <= k
<1> DEFINE R == OpToRel(<, Nat)
<1>1. IsWellFoundedOn(R, Nat)
  BY Zenon, NatLessThanWellFounded
<1>2. \A x, y \in Nat : x < y => <<x, y>> \in R
  BY Zenon DEF OpToRel
<1> HIDE DEF R
<1>3. PICK m \in T : \A k \in T : ~(<<k, m>> \in R)
  BY Zenon, <1>1, WFMin
<1>4. \A k \in T : ~(k < m)
  BY Zenon, <1>2, <1>3
<1> QED  BY <1>4

\* A bounded nonempty set of naturals has a greatest element.
LEMMA GreatestNat ==
    ASSUME NEW T, T \subseteq Nat, T # {}, NEW n \in Nat, \A k \in T : k <= n
    PROVE  \E m \in T : Newest(m, T)
<1> DEFINE U == {n - k : k \in T}
<1>1. U \subseteq Nat /\ U # {}
  <2>1. \A k \in T : n - k \in Nat
    OBVIOUS
  <2> QED  BY Zenon, <2>1
<1>2. PICK d \in U : \A e \in U : d <= e
  BY Zenon, <1>1, LeastNat
<1>3. PICK m \in T : d = n - m
  OBVIOUS
<1>4. \A k \in T : n - m <= n - k
  BY <1>2, <1>3
<1> QED  BY <1>4 DEF Newest

\* The replayed prefix determines the block.
LEMMA ChunkUnique ==
    ASSUME NEW H, H \subseteq Nat, NEW fs, NEW gs, IsChunk(H, fs), IsChunk(H, gs)
    PROVE  fs = gs
<1>1. PICK c \in [H -> SUBSET H] : Chunks(H, c) /\ \E m \in H : Newest(m, H) /\ fs = c[m]
  BY Zenon DEF IsChunk
<1>2. PICK d \in [H -> SUBSET H] : Chunks(H, d) /\ \E m \in H : Newest(m, H) /\ gs = d[m]
  BY Zenon DEF IsChunk
<1>3. PICK m \in H : Newest(m, H) /\ fs = c[m]
  BY Zenon, <1>1
<1>4. PICK n \in H : Newest(n, H) /\ gs = d[n]
  BY Zenon, <1>2
<1>5. m = n
  BY <1>3, <1>4 DEF Newest
<1> DEFINE T == {f \in H : c[f] # d[f]}
<1>6. ASSUME T # {}  PROVE FALSE
  <2>1. PICK f \in T : \A k \in T : f <= k
    <3>1. T \subseteq Nat
      BY Zenon
    <3> QED  BY Zenon, <1>6, <3>1, LeastNat
  <2>2. CASE \A g \in H : f <= g
    BY Zenon, <1>1, <1>2, <2>2 DEF Chunks
  <2>3. CASE ~\A g \in H : f <= g
    <3> DEFINE L == {h \in H : h < f}
    <3>1. L \subseteq Nat /\ f \in Nat /\ f \in H
      BY Zenon
    <3>2. \A k \in L : k <= f
      BY <3>1
    <3>0. L # {}
      <4>1. PICK g \in H : ~(f <= g)
        BY Zenon, <2>3
      <4>2. g < f
        BY <3>1, <4>1
      <4> QED  BY Zenon, <4>2
    <3>3. PICK g \in L : Newest(g, L)
      BY Zenon, <3>0, <3>1, <3>2, GreatestNat
    <3>4. g \in H /\ c[g] = d[g]
      BY <2>1
    <3>5. c[f] = IF CutAfter(c[g], f) THEN {f} ELSE c[g] \cup {f}
      BY Zenon, <1>1, <3>1, <3>3, <3>4 DEF Chunks
    <3>6. d[f] = IF CutAfter(d[g], f) THEN {f} ELSE d[g] \cup {f}
      BY Zenon, <1>2, <3>1, <3>3, <3>4 DEF Chunks
    <3> QED  BY Zenon, <3>4, <3>5, <3>6
  <2> QED  BY Zenon, <2>2, <2>3
<1> QED  BY Zenon, <1>3, <1>4, <1>5, <1>6

\* The first frame of a replay.
LEMMA FirstChunk ==
    ASSUME NEW f \in Nat
    PROVE  IsChunk({f}, {f})
<1> DEFINE c == [x \in {f} |-> {f}]
<1>1. c \in [{f} -> SUBSET {f}] /\ c[f] = {f}
  BY Zenon
<1>2. Newest(f, {f}) /\ {h \in {f} : h < f} = {}
  BY DEF Newest
<1>3. Chunks({f}, c)
  BY <1>1, <1>2 DEF Chunks, Newest
<1> QED  BY Zenon, <1>1, <1>2, <1>3 DEF IsChunk

\* One more frame.
LEMMA NextChunk ==
    ASSUME NEW H, H \subseteq Nat, NEW f \in Nat, \A h \in H : h < f,
           NEW fs, IsChunk(H, fs)
    PROVE  IsChunk(H \cup {f}, IF CutAfter(fs, f) THEN {f} ELSE fs \cup {f})
<1>1. PICK c \in [H -> SUBSET H] : Chunks(H, c) /\ \E m \in H : Newest(m, H) /\ fs = c[m]
  BY Zenon DEF IsChunk
<1>2. PICK m \in H : Newest(m, H) /\ fs = c[m]
  BY Zenon, <1>1
<1> DEFINE G == H \cup {f}
           q == IF CutAfter(fs, f) THEN {f} ELSE fs \cup {f}
           d == [x \in G |-> IF x = f THEN q ELSE c[x]]
<1>3. f \notin H /\ q \subseteq G
  BY <1>2
<1>4. d \in [G -> SUBSET G] /\ d[f] = q /\ \A x \in H : d[x] = c[x]
  BY <1>3
<1> HIDE DEF d, q
<1>5. Newest(f, G) /\ {h \in G : h < f} = H
  <2>1. \A h \in G : h <= f /\ (h < f <=> h \in H)
    OBVIOUS
  <2> QED  BY Zenon, <2>1 DEF Newest
<1>6. \A x \in H : {h \in G : h < x} = {h \in H : h < x}
  OBVIOUS
<1>7. ASSUME NEW x \in G
      PROVE  /\ (\A g \in G : x <= g) => d[x] = {x}
             /\ \A g \in G : Newest(g, {h \in G : h < x}) =>
                    d[x] = IF CutAfter(d[g], x) THEN {x} ELSE d[g] \cup {x}
  <2>1. CASE x = f
    <3>1. ~\A g \in G : x <= g
      BY <1>2, <2>1
    <3>2. \A g \in G : Newest(g, H) => g = m /\ d[g] = fs
      BY <1>2, <1>4 DEF Newest
    <3> QED  BY Zenon, <1>4, <1>5, <2>1, <3>1, <3>2 DEF q
  <2>2. CASE x \in H
    <3>1. (\A g \in G : x <= g) => \A g \in H : x <= g
      BY Zenon
    <3>2. \A g \in G : Newest(g, {h \in H : h < x}) => g \in H
      BY Zenon DEF Newest
    <3> QED  BY Zenon, <1>1, <1>4, <1>6, <2>2, <3>1, <3>2 DEF Chunks
  <2> QED  BY Zenon, <2>1, <2>2
<1>8. Chunks(G, d)
  BY Zenon, <1>4, <1>7 DEF Chunks
<1> QED  BY Zenon, <1>4, <1>5, <1>8 DEF IsChunk, q
-----------------------------------------------------------------------------
(* Every step keeps BlockInv.                                              *)

\* A step that leaves the replay alone.
LEMMA ReplayUntouched ==
    ASSUME Replaying, UNCHANGED <<builder, hashed, todo>>,
           \/ pc' = pc
           \/ pc' \notin Opening
           \/ pc \in Opening /\ pc' \in Opening \ {"put"} /\ (pc' = "replay" => builder = {})
    PROVE  Replaying'
<1>1. CASE pc' \notin Opening
  BY Zenon, <1>1 DEF Replaying
<1>2. CASE pc' \in Opening
  <2>1. /\ pc \in Opening /\ (pc' = "put" => pc = "put")
        /\ pc' = "replay" => pc = "replay" \/ builder = {}
    BY Zenon, <1>2
  <2>2. \A fs : Cuts(fs) <=> Cuts(fs)'
    BY Zenon DEF Cuts, CutAfter, ShouldClose, SchemaBoundary
  <2>3. \A H, fs : IsChunk(H, fs) <=> IsChunk(H, fs)'
    BY Zenon DEF IsChunk, Chunks, Newest, CutAfter, ShouldClose, SchemaBoundary
  <2> QED  BY Zenon, <2>1, <2>2, <2>3 DEF Replaying
<1> QED  BY Zenon, <1>1, <1>2

\* Steps that neither merge nor PUT, and start no replay.
LEMMA BlocksUntouched ==
    ASSUME BlockInv, UNCHANGED <<builder, bucket, hashed, todo>>,
           \A u \in uploads' : \E v \in uploads : u.frames = v.frames,
           \/ pc' = pc
           \/ pc' \notin Opening \cup {"append"}
           \/ pc \in Opening /\ pc' \in Opening \ {"put"} /\ (pc' = "replay" => builder = {})
    PROVE  BlockInv'
<1>1. pc' = "append" => pc = "append"
  BY Zenon DEF Opening
<1>2. SchemaInv'
  BY Zenon, <1>1 DEF BlockInv, SchemaInv, Pure
<1>3. Replaying'
  BY Zenon, ReplayUntouched DEF BlockInv
<1> QED  BY Zenon, <1>2, <1>3 DEF BlockInv

\* Ingest merges a frame of the builder's schema.
LEMMA IngestFrameBlocks ==
    ASSUME BlockInv, IngestFrame
    PROVE  BlockInv'
<1>1. builder' = builder \cup {next} /\ UNCHANGED <<uploads, bucket>> /\ pc' \in {"close", "free"}
  BY Zenon DEF IngestFrame
<1>2. Pure(builder) /\ ~SchemaBoundary(builder, next)
  BY Zenon DEF IngestFrame, AtAppend, BlockInv, SchemaInv, SchemaBoundary
<1>3. Pure(builder')
  BY Zenon, <1>1, <1>2, PureAdd
<1> QED  BY Zenon, <1>1, <1>3 DEF BlockInv, SchemaInv, Replaying, Opening, Pure

\* The builder goes to a task.
LEMMA SpawnUploadBlocks ==
    ASSUME BlockInv, SpawnUpload
    PROVE  BlockInv'
<1>1. builder' = {} /\ UNCHANGED bucket /\ pc' \in {"append", "join", "free"}
  BY Zenon DEF SpawnUpload, AfterSpawn
<1>2. \A u \in uploads' : u \in uploads \/ u.frames = builder
  <2>1. uploads' = uploads \cup {[low |-> low, sealed |-> cur, frames |-> builder, step |-> "put"]}
    BY Zenon DEF SpawnUpload
  <2> QED  BY <2>1
<1>3. Pure({})
  BY Zenon DEF Pure
<1> QED  BY Zenon, <1>1, <1>2, <1>3 DEF BlockInv, SchemaInv, Replaying, Opening, Pure

\* A live PUT, whether the task hears of it or not.
LEMMA LivePutBlocks ==
    ASSUME BlockInv, pc' = pc, UNCHANGED <<builder, hashed, todo>>, NEW u \in uploads,
           Put(LiveId(u.sealed), u.frames, u.sealed) \/ UNCHANGED bucket,
           \A v \in uploads' : \E w \in uploads : v.frames = w.frames
    PROVE  BlockInv'
<1>1. CASE UNCHANGED bucket
  BY Zenon, <1>1, BlocksUntouched
<1>2. CASE Put(LiveId(u.sealed), u.frames, u.sealed)
  <2>1. \A b \in bucket' : b \in bucket \/ b.id.kind = "live"
    <3>1. LiveId(u.sealed).kind = "live"
      BY Zenon DEF LiveId
    <3>2. \A b \in bucket' : b \in bucket \/ b = [id |-> LiveId(u.sealed), frames |-> u.frames,
                                                seg |-> u.sealed]
      BY Zenon, <1>2, PutEffect
    <3> QED  BY <3>1, <3>2
  <2>2. SchemaInv'
    <3>1. Pure(u.frames) /\ \A b \in bucket : Pure(b.frames)
      BY Zenon DEF BlockInv, SchemaInv
    <3>2. \A b \in bucket' : Pure(b.frames)
      BY Zenon, <1>2, <3>1, PurePut
    <3> QED  BY Zenon, <3>2 DEF BlockInv, SchemaInv, Pure
  <2>3. Replaying'
    BY Zenon, ReplayUntouched DEF BlockInv
  <2> QED  BY Zenon, <2>1, <2>2, <2>3 DEF BlockInv
<1> QED  BY Zenon, <1>1, <1>2

\* A process that dies or fails to open leaves the bucket, or has just PUT.
LEMMA DownBlocks ==
    ASSUME BlockInv, pc' = "down", builder' = {}, uploads' \subseteq uploads,
           \A b \in bucket' : b \in bucket \/ (Pure(b.frames) /\ IsChunk(b.id.key, b.frames))
    PROVE  BlockInv'
BY Zenon DEF BlockInv, SchemaInv, Replaying, Opening, Pure

\* Wal::open: nothing is read yet.
LEMMA OpenBlocks ==
    ASSUME IInv, BlockInv, Open
    PROVE  BlockInv'
<1>1. /\ UNCHANGED <<builder, uploads, bucket>> /\ hashed' = {} /\ pc' = "replay"
      /\ builder = {}
  BY Zenon DEF Open, IInv, ControlInv
<1> QED  BY Zenon, <1>1 DEF BlockInv, SchemaInv, Replaying, Pure
\* One frame of the replay.
LEMMA ReplayFrameBlocks ==
    ASSUME IInv, BlockInv, ReplayFrame
    PROVE  BlockInv'
<1>0. /\ pc = "replay" /\ pc' \in {"put", "replay"} /\ UNCHANGED <<uploads, bucket>>
      /\ Replaying /\ pc \in Opening /\ todo \subseteq Nat /\ hashed \subseteq Nat
  BY DEF ReplayFrame, BlockInv, Opening, IInv, TypeOK, Frame
<1>1. PICK f \in todo :
        /\ \A g \in todo : f <= g
        /\ IF SchemaBoundary(builder, f)
           THEN pc' = "put" /\ UNCHANGED <<builder, todo, hashed>>
           ELSE /\ builder' = builder \cup {f}
                /\ todo' = todo \ {f}
                /\ hashed' = hashed \cup {f}
                /\ pc' = IF ShouldClose(builder') THEN "put" ELSE "replay"
  BY Zenon DEF ReplayFrame
<1>2. \A h \in hashed : h < f
  BY Zenon, <1>0 DEF Replaying
<1>3. CASE SchemaBoundary(builder, f)
  <2>1. pc' = "put" /\ UNCHANGED <<builder, todo, hashed>> /\ builder # {}
    BY Zenon, <1>1, <1>3 DEF SchemaBoundary
  <2>2. \A g \in todo : (\A h \in todo : g <= h) => g = f
    BY <1>0, <1>1
  <2>3. Cuts(builder)
    BY Zenon, <1>3, <2>2 DEF Cuts, CutAfter
  <2>4. Replaying'
    BY Zenon, <1>0, <2>1, <2>3 DEF Replaying, Cuts
  <2> QED  BY Zenon, <1>0, <2>1, <2>4 DEF BlockInv, SchemaInv, Pure
<1>4. CASE ~SchemaBoundary(builder, f)
  <2>1. /\ builder' = builder \cup {f} /\ todo' = todo \ {f} /\ hashed' = hashed \cup {f}
        /\ pc' = IF ShouldClose(builder') THEN "put" ELSE "replay"
    BY Zenon, <1>1, <1>4
  <2>2. Pure(builder')
    BY Zenon, <1>4, <2>1, PureAdd DEF BlockInv, SchemaInv
  <2>3. \A h \in hashed', g \in todo' : h < g
    <3>1. \A g \in todo' : f < g
      BY <1>0, <1>1, <2>1
    <3> QED  BY Zenon, <1>0, <2>1, <3>1 DEF Replaying
  <2>4. IsChunk(hashed', builder')
    <3>1. CASE hashed = {}
      <4>1. builder = {}
        BY Zenon, <1>0, <3>1 DEF IInv, ReplayInv
      <4> QED  BY Zenon, <1>0, <2>1, <3>1, <4>1, FirstChunk
    <3>2. CASE hashed # {}
      <4>1. CASE builder # {}
        <5>1. IsChunk(hashed, builder)
          BY Zenon, <1>0, <4>1 DEF Replaying
        <5>2. ~ShouldClose(builder)
          BY Zenon, <1>0, <4>1 DEF Replaying
        <5>3. ~CutAfter(builder, f)
          BY Zenon, <1>4, <5>2 DEF CutAfter
        <5> QED  BY Zenon, <1>0, <1>2, <2>1, <5>1, <5>3, NextChunk
      <4>2. CASE builder = {}
        <5>1. PICK fs \in SUBSET hashed : IsChunk(hashed, fs) /\ Cuts(fs)
          BY Zenon, <1>0, <3>2, <4>2 DEF Replaying
        <5>2. CutAfter(fs, f)
          BY Zenon, <1>1, <5>1 DEF Cuts
        <5> QED  BY Zenon, <1>0, <1>2, <2>1, <4>2, <5>1, <5>2, NextChunk
      <4> QED  BY Zenon, <4>1, <4>2
    <3> QED  BY Zenon, <3>1, <3>2
  <2>5. pc' = "put" => Cuts(builder)'
    BY Zenon, <2>1 DEF Cuts, CutAfter
  <2>6. pc' = "replay" => ~ShouldClose(builder')
    BY Zenon, <2>1
  <2>7. Replaying'
    BY Zenon, <1>0, <2>1, <2>3, <2>4, <2>5, <2>6 DEF Replaying, IsChunk, Chunks
  <2> QED  BY Zenon, <1>0, <2>1, <2>2, <2>7 DEF BlockInv, SchemaInv, Pure
<1> QED  BY Zenon, <1>3, <1>4
\* The replay loop ends.
LEMMA ReplayEndBlocks ==
    ASSUME BlockInv, ReplayEnd
    PROVE  BlockInv'
<1>1. /\ UNCHANGED <<builder, uploads, bucket, hashed, todo>> /\ todo = {}
      /\ pc = "replay" /\ pc' \in {"put", "serve", "release"}
  BY Zenon DEF ReplayEnd
<1>2. CASE pc' # "put"
  BY Zenon, <1>1, <1>2, BlocksUntouched DEF Opening
<1>3. CASE pc' = "put"
  <2>1. Cuts(builder)'
    BY Zenon, <1>1 DEF Cuts
  <2>2. Replaying /\ pc \in Opening
    BY Zenon, <1>1 DEF BlockInv, Opening
  <2>3. Replaying'
    BY Zenon, <1>1, <1>3, <2>1, <2>2 DEF Replaying, Cuts
  <2> QED  BY Zenon, <1>1, <1>3, <2>3 DEF BlockInv, SchemaInv, Pure
<1> QED  BY Zenon, <1>2, <1>3

\* The PUT of a recovery block writes what the prefix determines.
LEMMA RecoveryPutContent ==
    ASSUME IInv, BlockInv, pc = "put", NEW seg, Put(RecoveryId(hashed), builder, seg)
    PROVE  /\ Pure(builder) /\ IsChunk(hashed, builder)
           /\ \A b \in bucket' : b \in bucket \/ (b.frames = builder /\ b.id = RecoveryId(hashed))
           /\ \A b \in bucket : b.id = RecoveryId(hashed) => b.frames = builder
<1>1. builder # {} /\ pc \in Opening /\ hashed \subseteq Nat
  BY DEF IInv, ReplayInv, TypeOK, Frame, Opening
<1>2. Pure(builder) /\ IsChunk(hashed, builder)
  BY Zenon, <1>1 DEF BlockInv, SchemaInv, Replaying
<1>3. \A b \in bucket' : b \in bucket \/ b = [id |-> RecoveryId(hashed), frames |-> builder,
                                              seg |-> seg]
  BY Zenon, PutEffect
<1>4. ASSUME NEW b \in bucket, b.id = RecoveryId(hashed)
      PROVE  b.frames = builder
  <2>1. b.id.kind = "recovery" /\ b.id.key = hashed
    BY <1>4 DEF RecoveryId
  <2>2. IsChunk(hashed, b.frames)
    BY Zenon, <2>1 DEF BlockInv
  <2> QED  BY Zenon, <1>1, <1>2, <2>2, ChunkUnique
<1>5. \A b \in bucket' : b \in bucket \/ (b.frames = builder /\ b.id = RecoveryId(hashed))
  <2> DEFINE new == [id |-> RecoveryId(hashed), frames |-> builder, seg |-> seg]
  <2>1. new.frames = builder /\ new.id = RecoveryId(hashed)
    BY Zenon
  <2> QED  BY Zenon, <1>3, <2>1
<1> QED  BY Zenon, <1>2, <1>4, <1>5

\* upload_replay_block.
LEMMA RecoveryPutBlocks ==
    ASSUME IInv, BlockInv, RecoveryPut
    PROVE  BlockInv'
<1>1. /\ pc = "put" /\ Put(RecoveryId(hashed), builder, RecoverySeg)
      /\ builder' = {} /\ pc' = "insert" /\ UNCHANGED <<uploads, todo, hashed>>
      /\ builder # {} /\ pc \in Opening
  BY Zenon DEF RecoveryPut, IInv, ReplayInv, Opening
<1>2. /\ Pure(builder) /\ IsChunk(hashed, builder)
      /\ \A b \in bucket' : b \in bucket \/ (b.frames = builder /\ b.id = RecoveryId(hashed))
  BY Zenon, <1>1, RecoveryPutContent
<1>3. builder \in SUBSET hashed /\ Cuts(builder)
  BY Zenon, <1>1 DEF IInv, ReplayInv, BlockInv, Replaying
<1>4. Replaying'
  BY Zenon, <1>1, <1>2, <1>3 DEF BlockInv, Replaying, Cuts
<1>5. SchemaInv'
  BY Zenon, <1>1, <1>2 DEF BlockInv, SchemaInv, Pure
<1>6. RecoveryId(hashed).key = hashed
  BY Zenon DEF RecoveryId
<1> QED  BY Zenon, <1>2, <1>4, <1>5, <1>6 DEF BlockInv

\* open() fails.
LEMMA OpenFailsBlocks ==
    ASSUME IInv, BlockInv, OpenFails
    PROVE  BlockInv'
<1>1. /\ pc' = "down" /\ builder' = {} /\ UNCHANGED uploads
      /\ \/ bucket' = bucket
         \/ pc = "put" /\ Put(RecoveryId(hashed), builder, RecoverySeg)
  BY Zenon DEF OpenFails
<1>2. RecoveryId(hashed).key = hashed
  BY Zenon DEF RecoveryId
<1>3. \A b \in bucket' : b \in bucket \/ (Pure(b.frames) /\ IsChunk(b.id.key, b.frames))
  <2>1. CASE bucket' = bucket
    BY Zenon, <2>1
  <2>2. CASE pc = "put" /\ Put(RecoveryId(hashed), builder, RecoverySeg)
    BY Zenon, <1>2, <2>2, RecoveryPutContent
  <2> QED  BY Zenon, <1>1, <2>1, <2>2
<1> QED  BY Zenon, <1>1, <1>3, DownBlocks
\* Every step.
LEMMA NextBlocks ==
    ASSUME IInv, BlockInv, [Next]_vars
    PROVE  BlockInv'
<1>1. CASE Startup
  <2>1. CASE RecoveryInsert
    <3>1. builder = {}
      BY Zenon, <2>1 DEF RecoveryInsert, IInv, ControlInv
    <3> QED  BY Zenon, <2>1, <3>1, BlocksUntouched DEF RecoveryInsert, Opening
  <2>2. CASE RecoveryRelease \/ RecoveryReleased \/ Serve
    BY Zenon, <2>2, BlocksUntouched DEF RecoveryRelease, RecoveryReleased, Serve, pipeVars, Opening
  <2> QED  BY Zenon, <1>1, <2>1, <2>2, OpenBlocks, ReplayFrameBlocks, ReplayEndBlocks,
              RecoveryPutBlocks DEF Startup
<1>2. CASE IngestBoundary \/ AppendFails \/ FlushIfAged \/ Flush \/ FlushJoined \/ SpawnFails
  <2>1. UNCHANGED <<builder, uploads, bucket, hashed, todo>>
    BY Zenon, <1>2 DEF IngestBoundary, AppendFails, FlushIfAged, Flush, FlushJoined, SpawnFails
  <2>2. pc' \in {"boundary", "free", "age", "join", "flush"}
    BY Zenon, <1>2 DEF IngestBoundary, AppendFails, FlushIfAged, Flush, FlushJoined, SpawnFails
  <2> QED  BY Zenon, <2>1, <2>2, BlocksUntouched DEF Opening
<1>3. CASE \E f \in replying : Ack(f)
  BY Zenon, <1>3, BlocksUntouched DEF Ack
<1>4. ASSUME NEW u \in uploads, UploadTask(u) \/ UploadFails(u)
      PROVE  BlockInv'
  <2>0. ASSUME NEW step, Step(u, step)
        PROVE  \A v \in uploads' : \E w \in uploads : v.frames = w.frames
    <3>1. [u EXCEPT !.step = step].frames = u.frames
      OBVIOUS
    <3> QED  BY Zenon, <2>0, <3>1 DEF Step
  <2>1. CASE UploadPut(u)
    BY Zenon, <2>0, <2>1, LivePutBlocks DEF UploadPut
  <2>2. CASE UploadFails(u)
    BY Zenon, <2>2, LivePutBlocks DEF UploadFails
  <2>3. CASE ReleaseEnds(u)
    BY Zenon, <2>0, <2>3, BlocksUntouched DEF ReleaseEnds
  <2>4. CASE InsertBlock(u) \/ \E s \in segs : ReleaseSegment(u, s)
    BY Zenon, <2>4, BlocksUntouched DEF InsertBlock, ReleaseSegment, pipeVars
  <2> QED  BY Zenon, <1>4, <2>1, <2>2, <2>3, <2>4 DEF UploadTask
<1>5. CASE Crash
  BY Zenon, <1>5, DownBlocks DEF Crash
<1>6. CASE UNCHANGED vars
  BY Zenon, <1>6, BlocksUntouched DEF vars, pipeVars
<1> QED  BY Zenon, <1>1, <1>2, <1>3, <1>4, <1>5, <1>6, OpenFailsBlocks, IngestFrameBlocks,
            SpawnUploadBlocks DEF Next

\* BlockInv is an invariant of the shard.
THEOREM BlockInvariance == Spec => []BlockInv
<1>1. Init => BlockInv
  BY Zenon DEF Init, BlockInv, SchemaInv, Replaying, Pure, Opening
<1> QED  BY <1>1, NextBlocks, Invariance, PTL DEF Spec

\* A block never mixes content schemas, however often a recovery is restarted
\* (content_schema_key in ingest_decoded and in the replay loop).
THEOREM SchemasApart == Spec => []OneSchemaPerBlock
<1>1. BlockInv => OneSchemaPerBlock
  BY Zenon DEF BlockInv, SchemaInv, OneSchemaPerBlock, Pure
<1> QED  BY <1>1, BlockInvariance, PTL

\* A committed block is never replaced by one with other frames: a live uuid is
\* used once, and a recovery uuid determines the frames (recovery_block_uuid,
\* put_block_objects).
THEOREM BlocksNeverChange == Spec => BlocksImmutable
<1> DEFINE Same == \A b \in bucket : \E c \in bucket' : c.id = b.id /\ c.frames = b.frames
<1>1. ASSUME IInv, BlockInv, [Next]_vars  PROVE Same
  <2>0. CASE bucket' = bucket
    BY Zenon, <2>0
  <2>1. ASSUME NEW u \in uploads, u.step = "put", Put(LiveId(u.sealed), u.frames, u.sealed)
        PROVE  Same
    <3>1. LiveId(u.sealed) \notin Ids
      BY Zenon, <1>1, <2>1 DEF IInv, IdInv
    <3>2. bucket \subseteq bucket'
      BY Zenon, <2>1, <3>1, FreshPut
    <3> QED  BY Zenon, <3>2
  <2>2. ASSUME pc = "put", Put(RecoveryId(hashed), builder, RecoverySeg)
        PROVE  Same
    <3>1. [id |-> RecoveryId(hashed), frames |-> builder, seg |-> RecoverySeg] \in bucket'
      BY Zenon, <2>2 DEF Put
    <3>2. \E c \in bucket' : c.id = RecoveryId(hashed) /\ c.frames = builder
      BY Zenon, <3>1
    <3>3. \A b \in bucket : b.id = RecoveryId(hashed) => b.frames = builder
      BY Zenon, <1>1, <2>2, RecoveryPutContent
    <3>4. \A b \in bucket : b.id # RecoveryId(hashed) => b \in bucket'
      BY Zenon, <2>2, PutEffect
    <3> QED  BY Zenon, <3>2, <3>3, <3>4
  <2>3. \/ bucket' = bucket
        \/ \E u \in uploads : u.step = "put" /\ Put(LiveId(u.sealed), u.frames, u.sealed)
        \/ pc = "put" /\ Put(RecoveryId(hashed), builder, RecoverySeg)
    BY Zenon, <1>1 DEF Next, Startup, Open, ReplayFrame, ReplayEnd, RecoveryPut, RecoveryInsert,
       RecoveryRelease, RecoveryReleased, Serve, OpenFails, IngestBoundary, IngestFrame,
       AppendFails, Ack, FlushIfAged, Flush, FlushJoined, SpawnUpload, SpawnFails, UploadTask,
       UploadPut, UploadFails, ReleaseSegment, ReleaseEnds, InsertBlock, Crash, vars, pipeVars
  <2> QED  BY Zenon, <2>0, <2>1, <2>2, <2>3
<1>2. ASSUME IInv, BlockInv, [Next]_vars  PROVE [Same]_vars
  BY Zenon, <1>1, <1>2
<1> QED  BY <1>2, Invariance, BlockInvariance, PTL DEF Spec, BlocksImmutable

=============================================================================
