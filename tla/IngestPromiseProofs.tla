------------------------ MODULE IngestPromiseProofs -------------------------
(***************************************************************************)
(* The shard implements IntakePromise: under the refinement mapping of     *)
(* IngestPipeline, every step of the WAL, the pipeline, an upload task, a  *)
(* failure or a crash is a step of the promise or none, for every value of *)
(* the constants.                                                          *)
(***************************************************************************)
EXTENDS IngestPipelineProofs

\* The frames on disk that a replay reads.
Sound == {f \in kept : ~Unreadable(f)}

\* While a start replays, what it has read and not yet uploaded is still on
\* disk; a block holds only frames that were appended.
HeldInv ==
    /\ pc \in Opening => todo \cup builder \subseteq Sound
    /\ \A f \in Stored : f < next

\* Frames the shard holds and no block has.
Pending == Held \ Stored

\* Held and Safe, without the bound of the replay.
HeldFacts ==
    /\ Held = builder \cup InFlight \cup Sound
    /\ Safe = {f \in Sound : at[f] # wseq} \ Stored
    /\ Safe \subseteq Pending

\* Every frame on disk is in the writer's segment or below it.
LEMMA ReadableSound == IInv => HeldFacts
<1> SUFFICES ASSUME IInv PROVE HeldFacts
  OBVIOUS
<1>1. \A f \in kept : at[f] \in Nat /\ at[f] <= wseq /\ wseq \in Nat
  BY Zenon DEF IInv, TypeOK, WalTypeOK, WalInv
<1>2. \A f \in kept : at[f] < wseq + 1
  BY <1>1
<1>3. Readable(wseq + 1) = Sound
  BY Zenon, <1>2 DEF Readable, Sound
<1>4. Held = builder \cup InFlight \cup Sound
  BY Zenon, <1>3 DEF Held
<1>5. Safe = {f \in Sound : at[f] # wseq} \ Stored
  BY Zenon, <1>3 DEF Safe
<1>6. Safe \subseteq Pending
  <2>1. \A f \in Safe : f \in Sound /\ f \notin Stored
    BY Zenon, <1>5
  <2>2. Sound \subseteq Held
    BY <1>3 DEF Held
  <2> QED  BY Zenon, <2>1, <2>2 DEF Pending
<1> QED  BY Zenon, <1>4, <1>5, <1>6 DEF HeldFacts

\* The same after a step.
LEMMA ReadableSoundAfter == IInv' => HeldFacts'
  BY ReadableSound, PTL

\* The steps of IntakePromise, in terms of Pending and Safe.
LEMMA SealStep ==
    ASSUME Safe \subseteq Pending, (Safe \subseteq Pending)',
           Stored' = Stored, acked' = acked, next' = next,
           Pending' = Pending, Safe \subseteq Safe'
    PROVE  Promise!Seal
  BY Zenon DEF Promise!Seal, Promise!Settle, Pending

\* A failure: what is safe and acknowledged stays.
LEMMA LoseStep ==
    ASSUME Safe \subseteq Pending, (Safe \subseteq Pending)',
           Stored' = Stored, acked' = acked,
           Pending' \subseteq Pending, Safe' \subseteq Safe,
           Safe \cap acked \subseteq Safe', \A f \in Safe \ Safe' : f \notin Pending'
    PROVE  Promise!Lose
  BY Zenon DEF Promise!Lose, Pending

\* A commit takes held frames out of memory and WAL alike.
LEMMA StoreStep ==
    ASSUME Safe \subseteq Pending, (Safe \subseteq Pending)',
           acked' = acked, next' = next, Stored \subseteq Stored',
           Stored' \subseteq Stored \cup Pending,
           Pending' = Pending \ Stored', Safe' = Safe \ Stored'
    PROVE  Promise!Store
  BY Zenon DEF Promise!Store, Pending

\* A batch that comes in, kept or not.
LEMMA TakeStep ==
    ASSUME Safe \subseteq Pending, (Safe \subseteq Pending)', next \in Nat \ {0},
           Stored' = Stored, acked' = acked, next' = next + 1,
           Pending' \in {Pending \cup {next}, Pending}, Safe \subseteq Safe'
    PROVE  Promise!Take(next)
<1>1. next \notin 1..(next - 1) /\ 1..(next' - 1) = 1..(next - 1) \cup {next}
  OBVIOUS
<1> QED  BY Zenon, <1>1 DEF Promise!Take, Promise!Settle, Pending

-----------------------------------------------------------------------------
(* What the operations of the WAL do to the frames a replay reads.         *)

\* Nothing on disk, in memory or in the bucket changes.
LEMMA PromiseStutter ==
    ASSUME UNCHANGED <<walVars, builder, uploads, bucket, acked>>
    PROVE  UNCHANGED Promise!vars
<1>1. UNCHANGED <<kept, at, torn, next, wseq>>
  BY Zenon DEF walVars
<1>2. Stored' = Stored
  BY Zenon DEF Stored
<1>3. Held' = Held /\ Safe' = Safe
  BY Zenon, <1>1, <1>2 DEF Held, InFlight, Safe, Readable, Unreadable
<1> QED  BY Zenon, <1>1, <1>2, <1>3 DEF Promise!vars

\* A failed write damages frames of the writer's segment only.
LEMMA TearSound ==
    ASSUME IInv, UNCHANGED <<at, kept>>, Tear
    PROVE  /\ Sound' \subseteq Sound
           /\ \A f \in Sound : at[f] # wseq => f \in Sound'
<1>1. torn \subseteq torn' /\ \A t \in torn' : t \in torn \/ at[t] = wseq
  BY Zenon DEF Tear
<1> QED  BY Zenon, <1>1 DEF Sound, Unreadable

\* An appended frame goes to the writer's segment and no other frame changes.
LEMMA WriteSound ==
    ASSUME IInv, next \in Frame, WriteFrame
    PROVE  /\ at'[next] = wseq /\ next \notin kept /\ next \notin torn
           /\ \A f \in Frame : f # next => at'[f] = at[f]
           /\ torn' = torn => Sound' \in {Sound, Sound \cup {next}}
<1>1. at'[next] = wseq /\ \A f \in Frame : f # next => at'[f] = at[f]
  BY Zenon DEF WriteFrame, IInv, TypeOK, WalTypeOK
<1>2. next \in Nat /\ \A f \in kept \cup torn : f \in Nat /\ f < next
  BY DEF IInv, TypeOK, WalTypeOK, WalInv, Frame
<1>3. next \notin kept /\ next \notin torn
  BY <1>2
<1>4. kept \subseteq Frame /\ torn \subseteq Frame
  BY Zenon DEF IInv, TypeOK, WalTypeOK
<1>5. ASSUME torn' = torn
      PROVE  Sound' \in {Sound, Sound \cup {next}}
  <2>1. \A f \in kept : Unreadable(f)' <=> Unreadable(f)
    BY Zenon, <1>1, <1>3, <1>4, <1>5 DEF Unreadable
  <2>2. kept' = kept \cup {next}
    BY Zenon DEF WriteFrame
  <2> DEFINE bad == \E t \in torn' : t <= next /\ at'[t] = at'[next]
  <2>3. CASE bad
    <3>1. Sound' = Sound
      BY Zenon, <2>1, <2>2, <2>3 DEF Sound, Unreadable
    <3> QED  BY Zenon, <3>1
  <2>4. CASE ~bad
    <3>1. Sound' = Sound \cup {next}
      BY Zenon, <2>1, <2>2, <2>4 DEF Sound, Unreadable
    <3> QED  BY Zenon, <3>1
  <2> QED  BY Zenon, <2>3, <2>4
<1> QED  BY Zenon, <1>1, <1>3, <1>5

\* A frame written and lost to the same failure leaves the others as TearSound.
LEMMA WriteTearSound ==
    ASSUME IInv, next \in Frame, WriteFrame, Tear, torn' # torn
    PROVE  /\ Sound' \subseteq Sound
           /\ \A f \in Sound : at[f] # wseq => f \in Sound'
<1>1. PICK t \in kept' : at'[t] = wseq /\ torn' = torn \cup {t}
  BY Zenon DEF Tear
<1>2. kept' = kept \cup {next}
  BY Zenon DEF WriteFrame
<1>3. /\ at'[next] = wseq /\ next \notin kept /\ next \notin torn
      /\ \A f \in Frame : f # next => at'[f] = at[f]
  BY Zenon, WriteSound
<1>4. kept \subseteq Frame /\ torn \subseteq Frame
  BY Zenon DEF IInv, TypeOK, WalTypeOK
<1>5. t <= next
  BY <1>1, <1>2 DEF IInv, TypeOK, WalTypeOK, WalInv, Frame
<1>6. \E x \in torn' : x <= next /\ at'[x] = at'[next]
  BY Zenon, <1>1, <1>3, <1>5
<1>7. ASSUME NEW f \in Sound'
      PROVE  f \in Sound
  <2>1. f \in kept /\ f # next
    BY Zenon, <1>2, <1>6, <1>7 DEF Sound, Unreadable
  <2>2. \A x \in torn : x \in torn' /\ at'[x] = at[x] /\ at'[f] = at[f]
    BY Zenon, <2>1, <1>1, <1>3, <1>4
  <2> QED  BY Zenon, <2>1, <2>2, <1>7 DEF Sound, Unreadable
<1>8. ASSUME NEW f \in Sound, at[f] # wseq
      PROVE  f \in Sound'
  <2>1. f \in kept' /\ f # next /\ at'[f] = at[f]
    BY Zenon, <1>2, <1>3, <1>4 DEF Sound
  <2>2. \A x \in torn' : at'[x] = at'[f] => x \in torn /\ at[x] = at[f]
    BY Zenon, <2>1, <1>1, <1>3, <1>4, <1>8
  <2> QED  BY Zenon, <2>1, <2>2 DEF Sound, Unreadable
<1> QED  BY Zenon, <1>7, <1>8

\* A rotation opens a segment no frame is in.
LEMMA NewSegment ==
    ASSUME IInv, cur + 1 \notin segs, wseq' = cur + 1, pc # "down"
    PROVE  /\ wseq' # wseq
           /\ \A f \in Sound : at[f] # wseq'
<1>1. wseq \in segs /\ \A f \in kept : at[f] \in segs
  BY Zenon DEF IInv, WalInv
<1> QED  BY Zenon, <1>1 DEF Sound

-----------------------------------------------------------------------------
(* One step of the shard is one step of the promise, or none.              *)

PromiseStep == [Promise!Next]_(Promise!vars)

\* Wal::open makes every frame it finds safe.
LEMMA OpenPromise ==
    ASSUME IInv, IInv', Open
    PROVE  PromiseStep
<1>1. HeldFacts /\ HeldFacts'
  BY Zenon, ReadableSound, ReadableSoundAfter
<1>2. UNCHANGED <<at, kept, torn, next, builder, uploads, bucket, acked>>
  BY Zenon DEF Open, WalOpen
<1>3. Sound' = Sound /\ Stored' = Stored /\ InFlight' = InFlight
  BY Zenon, <1>2 DEF Sound, Unreadable, Stored, InFlight
<1>4. Pending' = Pending
  BY Zenon, <1>1, <1>2, <1>3 DEF HeldFacts, Pending
<1>5. \A f \in Sound : at'[f] # wseq'
  <2>1. PICK s : wseq' = s /\ s \in Nat /\ \A x \in segs : x \in Nat /\ x < s
    BY DEF Open, WalOpen, IInv, TypeOK, WalTypeOK
  <2>2. \A f \in Sound : at'[f] \in segs
    BY Zenon, <1>2 DEF Sound, IInv, WalInv
  <2> QED  BY <2>1, <2>2
<1>6. Safe \subseteq Safe'
  BY Zenon, <1>1, <1>3, <1>5 DEF HeldFacts
<1>7. Promise!Seal
  BY Zenon, SealStep, <1>1, <1>2, <1>3, <1>4, <1>6 DEF HeldFacts
<1> QED  BY Zenon, <1>7 DEF PromiseStep, Promise!Next

\* The replay moves a frame from the WAL to the builder, which it both holds.
LEMMA ReplayFramePromise ==
    ASSUME IInv, IInv', HeldInv, ReplayFrame
    PROVE  PromiseStep
<1>1. HeldFacts /\ HeldFacts'
  BY Zenon, ReadableSound, ReadableSoundAfter
<1>2. UNCHANGED <<at, kept, torn, next, wseq, uploads, bucket, acked>>
  BY Zenon DEF ReplayFrame, walVars
<1>3. Sound' = Sound /\ Stored' = Stored /\ InFlight' = InFlight
  BY Zenon, <1>2 DEF Sound, Unreadable, Stored, InFlight
<1>4. builder \subseteq Sound /\ builder' \subseteq Sound
  BY Zenon DEF ReplayFrame, HeldInv, Opening
<1>5. Held' = Held
  BY Zenon, <1>1, <1>3, <1>4 DEF HeldFacts
<1>6. Safe' = Safe
  BY Zenon, <1>1, <1>2, <1>3 DEF HeldFacts
<1> QED  BY Zenon, <1>2, <1>3, <1>5, <1>6 DEF PromiseStep, Promise!vars

\* A commit of frames the shard holds, whatever else leaves memory with it.
LEMMA PutPromise ==
    ASSUME IInv, IInv', NEW fs, fs \subseteq Held,
           UNCHANGED <<walVars, acked>>, Stored' = Stored \cup fs,
           Held' \subseteq Held, Held \ fs \subseteq Held'
    PROVE  PromiseStep
<1>1. HeldFacts /\ HeldFacts'
  BY Zenon, ReadableSound, ReadableSoundAfter
<1>2. UNCHANGED <<at, kept, torn, next, wseq>>
  BY Zenon DEF walVars
<1>3. Sound' = Sound
  BY Zenon, <1>2 DEF Sound, Unreadable
<1>4. Safe' = Safe \ Stored'
  BY Zenon, <1>1, <1>2, <1>3 DEF HeldFacts
<1>5. Pending' = Pending \ Stored' /\ Stored' \subseteq Stored \cup Pending
  BY Zenon DEF Pending
<1>6. Promise!Store
  BY Zenon, StoreStep, <1>1, <1>2, <1>4, <1>5 DEF HeldFacts
<1> QED  BY Zenon, <1>6 DEF PromiseStep, Promise!Next

\* What a PUT under an unused uuid, or a recovery PUT, adds to the bucket.
LEMMA PutStored ==
    ASSUME NEW id, NEW fs, NEW seg, Put(id, fs, seg), Stored \subseteq Stored'
    PROVE  Stored' = Stored \cup fs
<1> DEFINE new == [id |-> id, frames |-> fs, seg |-> seg]
<1>1. fs \subseteq Stored' /\ \A b \in bucket' : b \in bucket \/ b = new
  BY Zenon, PutEffect
<1>2. new.frames = fs
  BY Zenon
<1>3. \A b \in bucket' : b \in bucket \/ b.frames = fs
  BY Zenon, <1>1, <1>2
<1>4. Stored' \subseteq Stored \cup fs
  BY Zenon, <1>3 DEF Stored
<1> QED  BY Zenon, <1>1, <1>4

\* upload_replay_block commits the recovery builder.
LEMMA RecoveryPutPromise ==
    ASSUME IInv, IInv', HeldInv, RecoveryPut
    PROVE  PromiseStep
<1>1. HeldFacts /\ HeldFacts'
  BY Zenon, ReadableSound, ReadableSoundAfter
<1>2. UNCHANGED <<walVars, acked, uploads>> /\ builder' = {}
  BY Zenon DEF RecoveryPut
<1>3. Stored' = Stored \cup builder
  BY Zenon, RecoveryPutStored, PutStored DEF RecoveryPut, IInv
<1>4. builder \subseteq Sound
  BY Zenon DEF RecoveryPut, HeldInv, Opening
<1>5. Sound' = Sound /\ InFlight' = InFlight
  BY Zenon, <1>2 DEF Sound, Unreadable, InFlight, walVars
<1>6. Held' = Held /\ builder \subseteq Held
  BY Zenon, <1>1, <1>2, <1>4, <1>5 DEF HeldFacts
<1> QED  BY Zenon, PutPromise, <1>2, <1>3, <1>6

\* A start that fails leaves the WAL as it is, and its last PUT may be applied.
LEMMA OpenFailsPromise ==
    ASSUME IInv, IInv', HeldInv, OpenFails
    PROVE  PromiseStep
<1>1. HeldFacts /\ HeldFacts'
  BY Zenon, ReadableSound, ReadableSoundAfter
<1>2. UNCHANGED <<walVars, acked, uploads>> /\ builder' = {}
  BY Zenon DEF OpenFails
<1>4. builder \subseteq Sound
  BY Zenon DEF OpenFails, HeldInv, Opening
<1>5. Sound' = Sound /\ InFlight' = InFlight
  BY Zenon, <1>2 DEF Sound, Unreadable, InFlight, walVars
<1>6. Held' = Held /\ builder \subseteq Held
  BY Zenon, <1>1, <1>2, <1>4, <1>5 DEF HeldFacts
<1>7. \E fs \in SUBSET builder : Stored' = Stored \cup fs
  <2>1. CASE UNCHANGED bucket
    <3>1. Stored' = Stored \cup {}
      BY Zenon, <2>1 DEF Stored
    <3> QED  BY Zenon, <3>1
  <2>2. CASE pc = "put" /\ Put(RecoveryId(hashed), builder, RecoverySeg)
    <3>1. Stored' = Stored \cup builder
      BY Zenon, <2>2, RecoveryPutStored, PutStored DEF IInv
    <3> QED  BY Zenon, <3>1
  <2> QED  BY Zenon, <2>1, <2>2 DEF OpenFails
<1>8. PICK fs \in SUBSET builder : Stored' = Stored \cup fs
  BY Zenon, <1>7
<1> QED  BY Zenon, PutPromise, <1>2, <1>6, <1>8

\* release_segments after the replay: what the file held is in blocks.
LEMMA RecoveryReleasePromise ==
    ASSUME IInv, IInv', RecoveryRelease
    PROVE  PromiseStep
<1>1. HeldFacts /\ HeldFacts'
  BY Zenon, ReadableSound, ReadableSoundAfter
<1>2. UNCHANGED <<at, torn, next, wseq, builder, uploads, bucket, acked>> /\ kept' \subseteq kept
  BY Zenon DEF RecoveryRelease, Unlink, pipeVars
<1>3. Stored' = Stored /\ InFlight' = InFlight
  BY Zenon, <1>2 DEF Stored, InFlight
<1>4. Sound \subseteq Stored
  <2>1. \A f \in Sound : f \in hashed \ builder
    BY Zenon DEF RecoveryRelease, Sound, IInv, ReplayInv, ControlInv, Opening
  <2>2. \A f \in hashed \ builder : \E b \in bucket : f \in b.frames
    BY Zenon DEF RecoveryRelease, IInv, ReplayInv, Opening
  <2> QED  BY Zenon, <2>1, <2>2 DEF Stored
<1>5. Sound' \subseteq Sound
  BY Zenon, <1>2 DEF Sound, Unreadable
<1>6. Safe = {} /\ Safe' = {}
  BY Zenon, <1>1, <1>3, <1>4, <1>5 DEF HeldFacts
<1>7. Pending' = Pending
  BY Zenon, <1>1, <1>2, <1>3, <1>4, <1>5 DEF HeldFacts, Pending
<1>8. Promise!Seal
  BY Zenon, SealStep, <1>1, <1>2, <1>3, <1>6, <1>7 DEF HeldFacts
<1> QED  BY Zenon, <1>8 DEF PromiseStep, Promise!Next

\* Steps that touch neither the WAL, the blocks nor the frames in memory.
LEMMA QuietPromise ==
    ASSUME \/ ReplayEnd \/ RecoveryInsert \/ RecoveryReleased \/ Serve \/ IngestBoundary
           \/ FlushIfAged \/ Flush \/ FlushJoined
    PROVE  PromiseStep
<1>1. UNCHANGED <<walVars, builder, uploads, bucket, acked>>
  BY Zenon DEF ReplayEnd, RecoveryInsert, RecoveryReleased, Serve, IngestBoundary,
     FlushIfAged, Flush, FlushJoined
<1> QED  BY Zenon, <1>1, PromiseStutter DEF PromiseStep

\* A batch that was written whole is held from then on, unless the segment was
\* damaged before and the batch is not merged.
LEMMA WritePromise ==
    ASSUME IInv, IInv', HeldInv, next \in Frame, WriteFrame, torn' = torn,
           UNCHANGED <<uploads, bucket, acked>>,
           builder' \in {builder, builder \cup {next}},
           \A f \in Sound : at[f] # wseq => at[f] # wseq'
    PROVE  PromiseStep
<1>1. HeldFacts /\ HeldFacts'
  BY Zenon, ReadableSound, ReadableSoundAfter
<1>2. next \in Nat \ {0} /\ next' = next + 1
  BY DEF WriteFrame, Frame
<1>3. Stored' = Stored /\ InFlight' = InFlight
  BY Zenon DEF Stored, InFlight
<1>4. Sound' \in {Sound, Sound \cup {next}}
  BY Zenon, WriteSound
<1>5. next \notin Stored
  <2>1. \A f \in Stored : f < next
    BY Zenon DEF HeldInv
  <2> QED  BY <2>1, <1>2
<1>6. Held' \in {Held, Held \cup {next}}
  BY Zenon, <1>1, <1>3, <1>4 DEF HeldFacts
<1>7. Pending' \in {Pending \cup {next}, Pending}
  BY Zenon, <1>3, <1>5, <1>6 DEF Pending
<1>8. \A f \in Sound : at'[f] = at[f]
  BY Zenon, WriteSound DEF Sound, IInv, TypeOK, WalTypeOK
<1>9. Safe \subseteq Safe'
  BY Zenon, <1>1, <1>3, <1>4, <1>8 DEF HeldFacts
<1>10. Promise!Take(next)
  BY Zenon, TakeStep, <1>1, <1>2, <1>3, <1>7, <1>9 DEF HeldFacts
<1> QED  BY Zenon, <1>10 DEF PromiseStep, Promise!Next

\* An append that succeeds, with the rotation it may end in.
LEMMA IngestFramePromise ==
    ASSUME IInv, IInv', HeldInv, IngestFrame
    PROVE  PromiseStep
<1>1. next \in Frame
  BY DEF IngestFrame, AtAppend, IInv, TypeOK, WalTypeOK, Frame
<1>2. WriteFrame /\ torn' = torn /\ UNCHANGED <<uploads, bucket, acked>>
  BY Zenon DEF IngestFrame, RotateOk
<1>3. builder' = builder \cup {next}
  BY Zenon DEF IngestFrame
<1>4. \A f \in Sound : at[f] # wseq => at[f] # wseq'
  <2>1. CASE bytes + 1 >= MaxSegFrames
    BY Zenon, <2>1, NewSegment DEF IngestFrame, AtAppend, RotateOk
  <2>2. CASE ~(bytes + 1 >= MaxSegFrames)
    BY Zenon, <2>2 DEF IngestFrame
  <2> QED  BY Zenon, <2>1, <2>2
<1> QED  BY Zenon, WritePromise, <1>1, <1>2, <1>3, <1>4

\* A batch the shard holds nothing of, and what its failure took with it.
LEMMA RefuseStep ==
    ASSUME next \in Nat \ {0}, next' = next + 1, Promise!Lose
    PROVE  Promise!Take(next)
<1>1. next \notin 1..(next - 1) /\ 1..(next' - 1) = 1..(next - 1) \cup {next}
  OBVIOUS
<1> QED  BY Zenon, <1>1 DEF Promise!Take

\* Damage to the writer's segment loses frames that are not safe yet.
LEMMA DamagePromise ==
    ASSUME IInv, IInv', UNCHANGED <<builder, uploads, bucket, acked, wseq>>,
           Sound' \subseteq Sound, \A f \in Sound : at[f] # wseq => f \in Sound',
           \A f \in Sound : at'[f] = at[f]
    PROVE  Promise!Lose
<1>1. HeldFacts /\ HeldFacts'
  BY Zenon, ReadableSound, ReadableSoundAfter
<1>2. Stored' = Stored /\ InFlight' = InFlight
  BY Zenon DEF Stored, InFlight
<1>3. Pending' \subseteq Pending
  BY Zenon, <1>1, <1>2 DEF HeldFacts, Pending
<1>4. Safe' = Safe
  BY Zenon, <1>1, <1>2 DEF HeldFacts
<1> QED  BY Zenon, LoseStep, <1>1, <1>2, <1>3, <1>4 DEF HeldFacts

\* An append that fails after the frame was written, and may damage the segment.
LEMMA WriteTearPromise ==
    ASSUME IInv, IInv', HeldInv, next \in Frame, WriteFrame, Tear,
           UNCHANGED <<builder, uploads, bucket, acked, wseq>>
    PROVE  PromiseStep
<1>1. CASE torn' = torn
  BY Zenon, <1>1, WritePromise
<1>2. CASE torn' # torn
  <2>1. \A f \in Sound : at'[f] = at[f]
    BY Zenon, WriteSound DEF Sound, IInv, TypeOK, WalTypeOK
  <2>2. Promise!Lose
    BY Zenon, <1>2, <2>1, WriteTearSound, DamagePromise
  <2>3. next \in Nat \ {0} /\ next' = next + 1
    BY DEF WriteFrame, Frame
  <2>4. Promise!Take(next)
    BY Zenon, <2>2, <2>3, RefuseStep
  <2> QED  BY Zenon, <2>4 DEF PromiseStep, Promise!Next
<1> QED  BY Zenon, <1>1, <1>2

\* A write that fails before the frame, or a rotation that fails in its flush.
LEMMA TearPromise ==
    ASSUME IInv, IInv', NoWrite, Tear,
           UNCHANGED <<builder, uploads, bucket, acked, wseq>>
    PROVE  PromiseStep
<1>1. UNCHANGED <<at, kept, next>>
  BY Zenon DEF NoWrite
<1>2. Promise!Lose
  BY Zenon, <1>1, TearSound, DamagePromise
<1>3. Promise!Abandon
  BY Zenon, <1>1, <1>2 DEF Promise!Abandon
<1> QED  BY Zenon, <1>3 DEF PromiseStep, Promise!Next

\* append() returned Err at any of its points.
LEMMA AppendFailsPromise ==
    ASSUME IInv, IInv', HeldInv, AppendFails
    PROVE  PromiseStep
<1>1. next \in Frame
  BY DEF AppendFails, AtAppend, IInv, TypeOK, WalTypeOK, Frame
<1>2. UNCHANGED <<builder, uploads, bucket, acked>> /\ pc # "down"
  BY Zenon DEF AppendFails, AtAppend
<1>3. CASE NoWrite /\ Tear /\ UNCHANGED <<segs, cur, wseq, bytes>>
  BY Zenon, <1>2, <1>3, TearPromise
<1>4. CASE WriteFrame /\ Tear /\ UNCHANGED <<segs, cur, wseq, bytes>>
  BY Zenon, <1>1, <1>2, <1>4, WriteTearPromise
<1>5. CASE WriteFrame /\ RotateErr(bytes + 1)
  <2>1. CASE RotateRefused(bytes + 1)
    BY Zenon, <1>1, <1>2, <1>5, <2>1, WritePromise DEF RotateRefused
  <2>2. CASE RotateFailsEarly(bytes + 1)
    BY Zenon, <1>1, <1>2, <1>5, <2>2, WriteTearPromise DEF RotateFailsEarly
  <2>3. CASE RotateFailsSync(bytes + 1)
    BY Zenon, <1>1, <1>2, <1>5, <2>3, WritePromise, NewSegment DEF RotateFailsSync
  <2> QED  BY Zenon, <1>5, <2>1, <2>2, <2>3 DEF RotateErr
<1> QED  BY Zenon, <1>3, <1>4, <1>5 DEF AppendFails

\* A rotation seals the writer's segment; the builder may move to a task.
LEMMA RotatePromise ==
    ASSUME IInv, IInv', NoWrite, torn' = torn, UNCHANGED <<bucket, acked>>,
           builder' \cup InFlight' = builder \cup InFlight,
           \A f \in Sound : at[f] # wseq => at[f] # wseq'
    PROVE  PromiseStep
<1>1. HeldFacts /\ HeldFacts'
  BY Zenon, ReadableSound, ReadableSoundAfter
<1>2. UNCHANGED <<at, kept, next>>
  BY Zenon DEF NoWrite
<1>3. Sound' = Sound /\ Stored' = Stored
  BY Zenon, <1>2 DEF Sound, Unreadable, Stored
<1>4. Pending' = Pending
  BY Zenon, <1>1, <1>3 DEF HeldFacts, Pending
<1>5. Safe \subseteq Safe'
  BY Zenon, <1>1, <1>2, <1>3 DEF HeldFacts
<1>6. Promise!Seal
  BY Zenon, SealStep, <1>1, <1>2, <1>3, <1>4, <1>5 DEF HeldFacts
<1> QED  BY Zenon, <1>6 DEF PromiseStep, Promise!Next

\* spawn_upload hands the open block to a task and seals its segments.
LEMMA SpawnUploadPromise ==
    ASSUME IInv, IInv', SpawnUpload
    PROVE  PromiseStep
<1> DEFINE new == [low |-> low, sealed |-> cur, frames |-> builder, step |-> "put"]
<1>1. /\ NoWrite /\ torn' = torn /\ UNCHANGED <<bucket, acked>>
      /\ uploads' = uploads \cup {new} /\ builder' = {}
  BY Zenon DEF SpawnUpload, RotateOk
<1>2. new.frames = builder
  BY Zenon
<1>3. InFlight' = InFlight \cup builder
  <2> HIDE DEF new
  <2> QED  BY Zenon, <1>1, <1>2 DEF InFlight
<1>4. \A f \in Sound : at[f] # wseq'
  BY Zenon, NewSegment DEF SpawnUpload, RotateOk, Waiting
<1>5. builder' \cup InFlight' = builder \cup InFlight
  BY Zenon, <1>1, <1>3
<1> QED  BY Zenon, RotatePromise, <1>1, <1>4, <1>5

\* spawn_upload met a rotate() that failed.
LEMMA SpawnFailsPromise ==
    ASSUME IInv, IInv', SpawnFails
    PROVE  PromiseStep
<1>1. UNCHANGED <<builder, uploads, bucket, acked>> /\ pc # "down" /\ NoWrite
  BY Zenon DEF SpawnFails, Waiting
<1>2. InFlight' = InFlight
  BY Zenon, <1>1 DEF InFlight
<1>3. CASE RotateRefused(bytes)
  BY Zenon, <1>1, <1>2, <1>3, RotatePromise DEF RotateRefused
<1>4. CASE RotateFailsEarly(bytes)
  BY Zenon, <1>1, <1>4, TearPromise DEF RotateFailsEarly
<1>5. CASE RotateFailsSync(bytes)
  BY Zenon, <1>1, <1>2, <1>5, RotatePromise, NewSegment DEF RotateFailsSync
<1> QED  BY Zenon, <1>3, <1>4, <1>5 DEF SpawnFails, RotateErr

\* A task that moves on keeps its frames.
LEMMA StepInFlight ==
    ASSUME NEW u \in uploads, NEW step, Step(u, step), uploads \subseteq Upload
    PROVE  InFlight' = InFlight
<1> DEFINE v == [u EXCEPT !.step = step]
<1>1. uploads' = (uploads \ {u}) \cup {v}
  BY Zenon DEF Step
<1>2. v.frames = u.frames
  BY DEF Upload
<1> HIDE DEF v
<1> QED  BY Zenon, <1>1, <1>2 DEF InFlight

\* A task that ends takes only its own frames along.
LEMMA EndInFlight ==
    ASSUME NEW u \in uploads, uploads' = uploads \ {u}
    PROVE  InFlight' \subseteq InFlight /\ InFlight \ u.frames \subseteq InFlight'
  BY Zenon DEF InFlight

\* run_upload commits its block.
LEMMA UploadPutPromise ==
    ASSUME IInv, IInv', NEW u, UploadPut(u)
    PROVE  PromiseStep
<1>1. HeldFacts /\ HeldFacts'
  BY Zenon, ReadableSound, ReadableSoundAfter
<1>2. u \in uploads /\ UNCHANGED <<walVars, acked, builder>>
  BY Zenon DEF UploadPut
<1>3. Stored \subseteq Stored'
  BY Zenon, FreshPut DEF UploadPut, IInv, IdInv
<1>4. Stored' = Stored \cup u.frames
  BY Zenon, <1>3, PutStored DEF UploadPut
<1>5. InFlight' = InFlight
  BY Zenon, StepInFlight DEF UploadPut, IInv, TypeOK
<1>6. Sound' = Sound
  BY Zenon, <1>2 DEF Sound, Unreadable, walVars
<1>7. u.frames \subseteq InFlight
  BY Zenon, <1>2 DEF InFlight
<1>8. Held' = Held /\ u.frames \subseteq Held
  BY Zenon, <1>1, <1>2, <1>5, <1>6, <1>7 DEF HeldFacts
<1> QED  BY Zenon, PutPromise, <1>2, <1>4, <1>8

\* run_upload gives up: its block is committed all the same, or what only the
\* builder had is lost.
LEMMA UploadFailsPromise ==
    ASSUME IInv, IInv', NEW u, UploadFails(u)
    PROVE  PromiseStep
<1>1. HeldFacts /\ HeldFacts'
  BY Zenon, ReadableSound, ReadableSoundAfter
<1>2. u \in uploads /\ UNCHANGED <<walVars, acked, builder>> /\ uploads' = uploads \ {u}
  BY Zenon DEF UploadFails
<1>3. InFlight' \subseteq InFlight /\ InFlight \ u.frames \subseteq InFlight'
  BY Zenon, <1>2, EndInFlight
<1>4. Sound' = Sound /\ UNCHANGED <<at, wseq, next>>
  BY Zenon, <1>2 DEF Sound, Unreadable, walVars
<1>5. u.frames \subseteq InFlight
  BY Zenon, <1>2 DEF InFlight
<1>6. Held' \subseteq Held /\ Held \ u.frames \subseteq Held' /\ u.frames \subseteq Held
  BY Zenon, <1>1, <1>2, <1>3, <1>4, <1>5 DEF HeldFacts
<1>7. CASE UNCHANGED bucket
  <2>1. Stored' = Stored
    BY Zenon, <1>7 DEF Stored
  <2>2. Safe' = Safe /\ Pending' \subseteq Pending
    BY Zenon, <1>1, <1>4, <1>6, <2>1 DEF HeldFacts, Pending
  <2>3. Promise!Lose
    BY Zenon, LoseStep, <1>1, <1>2, <2>1, <2>2 DEF HeldFacts
  <2>4. Promise!Abandon
    BY Zenon, <2>3, <1>4 DEF Promise!Abandon
  <2> QED  BY Zenon, <2>4 DEF PromiseStep, Promise!Next
<1>8. CASE Put(LiveId(u.sealed), u.frames, u.sealed)
  <2>1. Stored \subseteq Stored'
    BY Zenon, <1>8, FreshPut DEF UploadFails, IInv, IdInv
  <2>2. Stored' = Stored \cup u.frames
    BY Zenon, <1>8, <2>1, PutStored
  <2> QED  BY Zenon, PutPromise, <1>2, <1>6, <2>2
<1> QED  BY Zenon, <1>7, <1>8 DEF UploadFails

\* release_segments of a committed block reaches no other block's frames, and
\* of its own range only frames that were refused are in no block.
LEMMA ReleaseSegmentPromise ==
    ASSUME IInv, IInv', NEW u, NEW s, ReleaseSegment(u, s)
    PROVE  PromiseStep
<1>1. HeldFacts /\ HeldFacts'
  BY Zenon, ReadableSound, ReadableSoundAfter
<1>2. /\ UNCHANGED <<at, torn, next, wseq, builder, uploads, bucket, acked>>
      /\ kept' = kept \ InSeg(s) /\ u \in uploads
  BY Zenon DEF ReleaseSegment, Unlink, pipeVars
<1>3. Stored' = Stored /\ InFlight' = InFlight /\ Sound' = Sound \ InSeg(s)
  BY Zenon, <1>2 DEF Stored, InFlight, Sound, Unreadable
<1>4. u.frames \subseteq Stored
  BY Zenon DEF ReleaseSegment, IInv, UploadInv
<1>5. pc \in Serving
  BY Zenon, <1>2 DEF IInv, ControlInv
<1>6. Pending' \subseteq Pending
  BY Zenon, <1>1, <1>2, <1>3 DEF HeldFacts, Pending
<1>7. Safe' = Safe \ InSeg(s)
  BY Zenon, <1>1, <1>2, <1>3 DEF HeldFacts
<1>8. u.low <= s /\ s <= u.sealed
  BY Zenon DEF ReleaseSegment, OwnSegs
<1>9. ASSUME NEW f \in Safe, f \in InSeg(s)
      PROVE  f \notin acked /\ f \notin Pending'
  <2>1. f \in kept /\ at[f] = s /\ f \notin Stored /\ f \notin Sound'
    BY Zenon, <1>1, <1>3, <1>9 DEF HeldFacts, InSeg
  <2>2. f \notin acked
    BY Zenon, <1>2, <1>4, <1>5, <1>8, <2>1 DEF IInv, CoverInv, Promised
  <2>3. f \notin builder
    <3>1. at[f] \in Nat /\ low \in Nat /\ u.sealed \in Nat /\ u.sealed < low
      BY Zenon, <1>2, <2>1 DEF IInv, TypeOK, WalTypeOK, DisjointRanges, Upload
    <3>2. ~(low <= at[f])
      BY <3>1, <1>8, <2>1
    <3> QED  BY Zenon, <3>2, <1>5 DEF IInv, DisjointRanges
  <2>4. ASSUME NEW v \in uploads, f \in v.frames  PROVE FALSE
    <3>1. v # u
      BY Zenon, <2>1, <2>4, <1>4
    <3>2. /\ u.sealed < v.low \/ v.sealed < u.low
          /\ v.low <= at[f] /\ at[f] <= v.sealed
      BY Zenon, <3>1, <2>4, <1>2 DEF IInv, DisjointRanges
    <3>3. /\ u.low \in Nat /\ u.sealed \in Nat /\ v.low \in Nat /\ v.sealed \in Nat
          /\ s \in Nat
      BY <1>2, <2>1 DEF IInv, TypeOK, WalTypeOK, Upload
    <3> QED  BY <3>2, <3>3, <2>1, <1>8
  <2>5. f \notin InFlight
    BY Zenon, <2>4 DEF InFlight
  <2> QED  BY Zenon, <2>1, <2>2, <2>3, <2>5, <1>1, <1>2, <1>3 DEF HeldFacts, Pending
<1>10. Promise!Lose
  BY Zenon, LoseStep, <1>1, <1>2, <1>3, <1>6, <1>7, <1>9 DEF HeldFacts
<1>11. Promise!Abandon
  BY Zenon, <1>10, <1>2 DEF Promise!Abandon
<1> QED  BY Zenon, <1>11 DEF PromiseStep, Promise!Next

\* The release of a block's segments is over, or was given up.
LEMMA ReleaseEndsPromise ==
    ASSUME IInv, IInv', NEW u, ReleaseEnds(u)
    PROVE  PromiseStep
<1>1. UNCHANGED <<at, kept, torn, next, wseq, builder, bucket, acked>>
  BY Zenon DEF ReleaseEnds, walVars
<1>2. InFlight' = InFlight
  BY Zenon, StepInFlight DEF ReleaseEnds, IInv, TypeOK
<1> QED  BY Zenon, RotatePromise, <1>1, <1>2 DEF NoWrite

\* A task that ends has its frames in a block.
LEMMA InsertBlockPromise ==
    ASSUME IInv, IInv', NEW u, InsertBlock(u)
    PROVE  PromiseStep
<1>1. HeldFacts /\ HeldFacts'
  BY Zenon, ReadableSound, ReadableSoundAfter
<1>2. /\ u \in uploads /\ UNCHANGED <<walVars, acked, builder, bucket>>
      /\ uploads' = uploads \ {u}
  BY Zenon DEF InsertBlock
<1>3. InFlight' \subseteq InFlight /\ InFlight \ u.frames \subseteq InFlight'
  BY Zenon, <1>2, EndInFlight
<1>4. Sound' = Sound /\ Stored' = Stored
  BY Zenon, <1>2 DEF Sound, Unreadable, walVars, Stored
<1>5. u.frames \subseteq InFlight /\ u.frames \subseteq Stored
  BY Zenon, <1>2 DEF InFlight, InsertBlock, IInv, UploadInv
<1>6. Held' \subseteq Held /\ Held \ u.frames \subseteq Held' /\ u.frames \subseteq Held
  BY Zenon, <1>1, <1>2, <1>3, <1>4, <1>5 DEF HeldFacts
<1>7. Stored' = Stored \cup u.frames
  BY Zenon, <1>4, <1>5
<1> QED  BY Zenon, PutPromise, <1>2, <1>6, <1>7

\* A crash costs memory and the end of the writer's segment, nothing sealed.
LEMMA CrashPromise ==
    ASSUME IInv, IInv', Crash
    PROVE  PromiseStep
<1>1. HeldFacts /\ HeldFacts'
  BY Zenon, ReadableSound, ReadableSoundAfter
<1>2. /\ UNCHANGED <<at, next, wseq, bucket, acked>>
      /\ builder' = {} /\ uploads' = {}
  BY Zenon DEF Crash, Truncate
<1>3. Stored' = Stored /\ InFlight' = {}
  BY Zenon, <1>2 DEF Stored, InFlight
<1>4. PICK cut, partial : Truncate(cut, partial)
  BY Zenon DEF Crash
<1>5. Sound' \subseteq Sound /\ \A f \in Sound : at[f] # wseq => f \in Sound'
  <2>1. CASE partial
    <3>1. cut \in kept /\ at[cut] = wseq /\ kept' \subseteq kept /\ torn' = torn \cup {cut}
      BY Zenon, <1>4, <2>1 DEF Truncate, InSeg
    <3>2. \A f \in kept : at[f] # wseq => f \in kept'
      BY Zenon, <1>4, <2>1 DEF Truncate, CutAt, InSeg
    <3> QED  BY Zenon, <3>1, <3>2, <1>2 DEF Sound, Unreadable
  <2>2. CASE ~partial
    <3>1. kept' \subseteq kept /\ torn' = torn
      BY Zenon, <1>4, <2>2 DEF Truncate
    <3>2. \A f \in kept : at[f] # wseq => f \in kept'
      BY Zenon, <1>4, <2>2 DEF Truncate, CutAt, InSeg
    <3> QED  BY Zenon, <3>1, <3>2, <1>2 DEF Sound, Unreadable
  <2> QED  BY Zenon, <2>1, <2>2
<1>6. Safe' = Safe /\ Pending' \subseteq Pending
  BY Zenon, <1>1, <1>2, <1>3, <1>5 DEF HeldFacts, Pending
<1>7. Promise!Lose
  BY Zenon, LoseStep, <1>1, <1>2, <1>3, <1>6 DEF HeldFacts
<1>8. Promise!Abandon
  BY Zenon, <1>7, <1>2 DEF Promise!Abandon
<1> QED  BY Zenon, <1>8 DEF PromiseStep, Promise!Next

\* BatchAck.
LEMMA AckPromise ==
    ASSUME IInv, NEW f, Ack(f)
    PROVE  PromiseStep
<1>1. UNCHANGED <<at, kept, torn, next, wseq, builder, uploads, bucket>>
  BY Zenon DEF Ack, walVars
<1>2. Stored' = Stored /\ Held' = Held /\ Safe' = Safe
  BY Zenon, <1>1 DEF Stored, Held, InFlight, Safe, Readable, Unreadable
<1>3. f \in Frame /\ f < next
  BY Zenon DEF Ack, IInv, TypeOK, ControlInv, Promised
<1>4. f \in 1..(next - 1)
  BY <1>3 DEF IInv, TypeOK, WalTypeOK, Frame
<1>5. Promise!Acknowledge(f)
  BY Zenon, <1>1, <1>2, <1>4 DEF Promise!Acknowledge, Ack
<1> QED  BY Zenon, <1>3, <1>5 DEF PromiseStep, Promise!Next

\* Blocks are made of frames that were appended.
LEMMA StoredAppended ==
    ASSUME IInv, HeldInv, [Next]_vars
    PROVE  \A f \in Stored' : f < next'
<1>1. next \in Nat /\ next' \in {next, next + 1}
  <2>1. next \in Nat
    BY DEF IInv, TypeOK, WalTypeOK
  <2>2. next' \in {next, next + 1}
    BY Zenon DEF Next, Startup, Open, WalOpen, ReplayFrame, ReplayEnd, RecoveryPut,
       RecoveryInsert, RecoveryRelease, RecoveryReleased, Serve, OpenFails,
       IngestBoundary, IngestFrame, AppendFails, WriteFrame, NoWrite, Ack, FlushIfAged,
       Flush, FlushJoined, SpawnUpload, SpawnFails, UploadTask, UploadPut, UploadFails,
       ReleaseSegment, ReleaseEnds, InsertBlock, Crash, Truncate, Unlink, vars, walVars
  <2> QED  BY Zenon, <2>1, <2>2
<1>2. \A f \in Stored \cup builder \cup InFlight : f < next /\ f \in Nat
  <2>1. \A f \in Stored \cup builder \cup InFlight : f < next
    BY Zenon DEF HeldInv, IInv, ControlInv, InFlight
  <2>2. \A f \in Stored \cup builder \cup InFlight : f \in Frame
    BY Zenon DEF IInv, TypeOK, Stored, InFlight, Block, Upload
  <2> QED  BY <2>1, <2>2 DEF Frame
<1>3. UNCHANGED bucket \/ \E id, fs, seg : Put(id, fs, seg) /\ fs \subseteq builder \cup InFlight
  <2>1. CASE RecoveryPut \/ OpenFails
    BY Zenon, <2>1 DEF RecoveryPut, OpenFails
  <2>2. ASSUME NEW u \in uploads, UploadPut(u) \/ UploadFails(u)
        PROVE  \/ UNCHANGED bucket
               \/ \E id, fs, seg : Put(id, fs, seg) /\ fs \subseteq builder \cup InFlight
    <3>1. u.frames \subseteq builder \cup InFlight
      BY Zenon DEF InFlight
    <3> QED  BY Zenon, <2>2, <3>1 DEF UploadPut, UploadFails
  <2>3. CASE ~(RecoveryPut \/ OpenFails) /\ ~\E u \in uploads : UploadPut(u) \/ UploadFails(u)
    BY Zenon, <2>3 DEF Next, Startup, Open, ReplayFrame, ReplayEnd,
       RecoveryInsert, RecoveryRelease, RecoveryReleased, Serve,
       IngestBoundary, IngestFrame, AppendFails, Ack, FlushIfAged,
       Flush, FlushJoined, SpawnUpload, SpawnFails, UploadTask,
       ReleaseSegment, ReleaseEnds, InsertBlock, Crash, vars, pipeVars
  <2> QED  BY Zenon, <2>1, <2>2, <2>3
<1>4. Stored' \subseteq Stored \cup builder \cup InFlight
  <2>1. CASE UNCHANGED bucket
    BY Zenon, <2>1 DEF Stored
  <2>2. ASSUME NEW id, NEW fs, NEW seg, Put(id, fs, seg), fs \subseteq builder \cup InFlight
        PROVE  Stored' \subseteq Stored \cup builder \cup InFlight
    <3> DEFINE new == [id |-> id, frames |-> fs, seg |-> seg]
    <3>1. \A b \in bucket' : b \in bucket \/ b = new
      BY Zenon, <2>2, PutEffect
    <3>2. new.frames = fs
      BY Zenon
    <3>3. \A b \in bucket' : b \in bucket \/ b.frames = fs
      BY Zenon, <3>1, <3>2
    <3> QED  BY Zenon, <2>2, <3>3 DEF Stored
  <2> QED  BY Zenon, <1>3, <2>1, <2>2
<1> QED  BY <1>1, <1>2, <1>4

\* What a start has read is on disk until it is released.
LEMMA ReplayHeld ==
    ASSUME IInv, HeldInv, [Next]_vars, pc' \in Opening
    PROVE  (todo \cup builder \subseteq Sound)'
<1>1. CASE Open
  <2>1. builder' = {} /\ UNCHANGED <<at, kept, torn>>
    BY Zenon, <1>1 DEF Open, WalOpen, IInv, ControlInv
  <2>2. Sound' = Sound
    BY Zenon, <2>1 DEF Sound, Unreadable
  <2>3. todo' \subseteq Sound
    BY Zenon, <1>1 DEF Open, Readable, Sound
  <2> QED  BY Zenon, <2>1, <2>2, <2>3
<1>2. CASE \/ ReplayFrame \/ ReplayEnd \/ RecoveryPut \/ RecoveryInsert \/ RecoveryReleased
  <2>1. todo' \cup builder' \subseteq todo \cup builder /\ pc \in Opening
    BY Zenon, <1>2 DEF ReplayFrame, ReplayEnd, RecoveryPut, RecoveryInsert, RecoveryReleased,
       Opening
  <2>2. Sound' = Sound
    BY Zenon, <1>2 DEF ReplayFrame, ReplayEnd, RecoveryPut, RecoveryInsert, RecoveryReleased,
       Sound, Unreadable, walVars
  <2> QED  BY Zenon, <2>1, <2>2 DEF HeldInv
<1>3. CASE RecoveryRelease
  BY Zenon, <1>3 DEF RecoveryRelease, pipeVars, IInv, ControlInv, ReplayInv, Opening
<1>4. CASE UNCHANGED vars
  BY Zenon, <1>4 DEF vars, walVars, pipeVars, HeldInv, Sound, Unreadable
<1>5. ASSUME pc' # "serve", pc' # "replay", pc' # "put", pc' # "insert", pc' # "release"
      PROVE  FALSE
  BY Zenon, <1>5 DEF Opening
<1>6. CASE \/ Serve \/ OpenFails \/ IngestBoundary \/ IngestFrame \/ AppendFails
           \/ FlushIfAged \/ Flush \/ FlushJoined \/ SpawnUpload \/ SpawnFails \/ Crash
  <2>1. pc' \in {"free", "down", "boundary", "close", "age", "join", "flush", "append"}
    BY Zenon, <1>6 DEF Serve, OpenFails, IngestBoundary, IngestFrame, AppendFails,
       FlushIfAged, Flush, FlushJoined, SpawnUpload, SpawnFails, Crash, AfterSpawn
  <2> QED  BY Zenon, <2>1, <1>5
<1>7. CASE \/ \E f \in replying : Ack(f)
           \/ \E u \in uploads : UploadTask(u) \/ UploadFails(u)
  <2>1. pc' = pc /\ pc \in Serving
    BY Zenon, <1>7 DEF Ack, UploadTask, UploadPut, UploadFails, ReleaseSegment, ReleaseEnds,
       InsertBlock, pipeVars, IInv, ControlInv
  <2> QED  BY Zenon, <2>1, <1>5 DEF Serving, Waiting
<1> QED  BY Zenon, <1>1, <1>2, <1>3, <1>4, <1>6, <1>7 DEF Next, Startup

\* Both invariants hold throughout.
LEMMA HeldInvariance == Spec => [](IInv /\ HeldInv)
<1>1. Init => HeldInv
  <2> SUFFICES ASSUME Init PROVE HeldInv
    OBVIOUS
  <2>1. Stored = {}
    BY Zenon DEF Init, Stored
  <2> QED  BY Zenon, <2>1 DEF Init, HeldInv, Opening
<1>2. IInv /\ HeldInv /\ [Next]_vars => HeldInv'
  BY Zenon, StoredAppended, ReplayHeld DEF HeldInv
<1> QED  BY InitHolds, NextKeeps, <1>1, <1>2, PTL DEF Spec

\* Every step of the shard is allowed by the promise.
LEMMA NextPromise ==
    ASSUME IInv, IInv', HeldInv, [Next]_vars
    PROVE  PromiseStep
<1>1. CASE Startup
  BY Zenon, <1>1, OpenPromise, ReplayFramePromise, RecoveryPutPromise,
     RecoveryReleasePromise, QuietPromise DEF Startup
<1>2. CASE OpenFails
  BY Zenon, <1>2, OpenFailsPromise
<1>3. CASE IngestBoundary \/ IngestFrame \/ AppendFails
  BY Zenon, <1>3, QuietPromise, IngestFramePromise, AppendFailsPromise
<1>4. ASSUME NEW f \in replying, Ack(f)  PROVE PromiseStep
  BY Zenon, <1>4, AckPromise
<1>5. CASE FlushIfAged \/ Flush \/ FlushJoined
  BY Zenon, <1>5, QuietPromise
<1>6. CASE SpawnUpload \/ SpawnFails
  BY Zenon, <1>6, SpawnUploadPromise, SpawnFailsPromise
<1>7. ASSUME NEW u \in uploads, UploadTask(u) \/ UploadFails(u)  PROVE PromiseStep
  BY Zenon, <1>7, UploadPutPromise, ReleaseEndsPromise, InsertBlockPromise,
     ReleaseSegmentPromise, UploadFailsPromise DEF UploadTask
<1>8. CASE Crash
  BY Zenon, <1>8, CrashPromise
<1>9. CASE UNCHANGED vars
  <2>1. UNCHANGED <<walVars, builder, uploads, bucket, acked>>
    BY Zenon, <1>9 DEF vars, pipeVars
  <2> QED  BY Zenon, <2>1, PromiseStutter DEF PromiseStep
<1> QED  BY Zenon, <1>1, <1>2, <1>3, <1>4, <1>5, <1>6, <1>7, <1>8, <1>9 DEF Next

\* A shard keeps the promise whatever fails and however often it dies: an
\* acknowledged batch in a sealed segment leaves it only for a committed block
\* (pipeline.rs 764-806, 1070-1086, wal/src/lib.rs release_segments).
THEOREM PromiseKept == Spec => ImplementsPromise
<1>1. Init => Promise!Init
  <2> SUFFICES ASSUME Init PROVE Promise!Init
    OBVIOUS
  <2>1. Stored = {} /\ InFlight = {} /\ Readable(wseq + 1) = {}
    BY Zenon DEF Init, WalInit, Stored, InFlight, Readable
  <2>2. Held = {} /\ Safe = {}
    BY Zenon, <2>1 DEF Init, Held, Safe
  <2>3. 1..(next - 1) = {}
    BY DEF Init, WalInit
  <2> QED  BY Zenon, <2>1, <2>2, <2>3 DEF Init, Promise!Init
<1>2. IInv /\ IInv' /\ HeldInv /\ [Next]_vars => [Promise!Next]_(Promise!vars)
  BY Zenon, NextPromise DEF PromiseStep
<1> QED  BY <1>1, <1>2, HeldInvariance, PTL DEF Spec, ImplementsPromise, Promise!Spec
=============================================================================
