-------------------------------- MODULE Wal --------------------------------
(***************************************************************************)
(* The write-ahead log of one ingest shard (crates/wal/src/lib.rs).        *)
(*                                                                         *)
(* A segment is a file named by its sequence number, a frame is one        *)
(* payload appended to it.  Frames are numbered in the order append() is   *)
(* called, so a segment is the set of the frames written to it and the     *)
(* order inside a segment, and of a replay, is the order of the numbers.   *)
(*                                                                         *)
(* The 64 KiB BufWriter and the page cache are not modelled as buffers: a  *)
(* crash keeps an arbitrary prefix of the segment the writer holds, which  *)
(* is every outcome of a partly flushed buffer.  A segment that rotate()   *)
(* has flushed survives whole.                                             *)
(*                                                                         *)
(* The operators below are the WAL's operations.  They only constrain the  *)
(* WAL's variables; the module that owns the WAL conjoins them with what   *)
(* its own code does around the call.                                      *)
(***************************************************************************)
EXTENDS Naturals, FiniteSets

CONSTANTS
    MaxFrames,     \* bound: append() calls in a behaviour
    MaxSegFrames   \* max_segment_bytes, counted in frames

ASSUME WalConstants == MaxFrames \in Nat \ {0} /\ MaxSegFrames \in Nat \ {0}

VARIABLES
    segs,    \* sequence numbers of the segment files on disk
    at,      \* the segment each frame was written to
    kept,    \* frames whose bytes, whole or partial, are in a file
    torn,    \* frames of which only a part was written
    next,    \* number of the next frame
    cur,     \* Wal::current_seq
    wseq,    \* the segment the writer Wal::current has open
    bytes    \* Wal::current_bytes, counted in frames

walVars == <<segs, at, kept, torn, next, cur, wseq, bytes>>

Frame == 1..MaxFrames

InSeg(s) == {f \in kept : at[f] = s}

\* ReplayIter drops the rest of a segment at the first frame that is short or
\* fails its CRC.
Unreadable(f) == \E t \in torn : t <= f /\ at[t] = at[f]

\* What ReplayIter yields from the segments below `bound'.
Readable(bound) == {f \in kept : at[f] < bound /\ ~Unreadable(f)}

WalTypeOK ==
    /\ segs \subseteq Nat /\ at \in [Frame -> Nat]
    /\ kept \subseteq Frame /\ torn \subseteq Frame
    /\ next \in 1..(MaxFrames + 1)
    /\ cur \in Nat /\ wseq \in Nat /\ bytes \in Nat

WalInit ==
    /\ segs = {} /\ kept = {} /\ torn = {}
    /\ at = [f \in Frame |-> 0]
    /\ next = 1 /\ cur = 0 /\ wseq = 0 /\ bytes = 0

\* Wal::open.  create_new of the segment above every one on disk.
WalOpen ==
    \E s \in {0} \cup {x + 1 : x \in segs} :
        /\ \A x \in segs : x < s
        /\ segs' = segs \cup {s} /\ cur' = s /\ wseq' = s /\ bytes' = 0
        /\ UNCHANGED <<at, kept, torn, next>>

\* The frame is written whole to the segment the writer has open.
WriteFrame ==
    /\ at' = [at EXCEPT ![next] = wseq]
    /\ kept' = kept \cup {next}
    /\ next' = next + 1

NoWrite == UNCHANGED <<at, kept, next>>

\* A failed write.  Bytes that were buffered stay in front of the next append,
\* and tokio's File reports an error at the call after the one that failed,
\* when the bytes have left the BufWriter: any frame of the unsealed segment
\* may be incomplete from then on.
Tear ==
    torn' \in {torn} \cup {torn \cup {t} : t \in {f \in kept' : at'[f] = wseq}}

\* rotate(), completed.
RotateOk ==
    /\ cur + 1 \notin segs
    /\ segs' = segs \cup {cur + 1}
    /\ cur' = cur + 1 /\ wseq' = cur + 1 /\ bytes' = 0
    /\ UNCHANGED torn

\* rotate() fails in flush or in create_new, before the writer is swapped.
RotateFailsEarly(b) == Tear /\ UNCHANGED <<segs, cur, wseq>> /\ bytes' = b

\* rotate() fails in sync_all: the writer was already swapped to the new
\* file, current_seq and current_bytes were not updated.
RotateFailsSync(b) ==
    /\ cur + 1 \notin segs
    /\ segs' = segs \cup {cur + 1}
    /\ wseq' = cur + 1 /\ bytes' = b
    /\ UNCHANGED <<cur, torn>>

\* create_new refuses a file that exists: every rotate() after a failed
\* sync_all ends here.
RotateRefused(b) ==
    /\ cur + 1 \in segs
    /\ bytes' = b
    /\ UNCHANGED <<segs, cur, wseq, torn>>

\* prepare_release: refuse the active segment.
MayRelease(hi) == hi < cur

\* One remove_file of release_segments.
Unlink(s) ==
    /\ s \in segs
    /\ segs' = segs \ {s}
    /\ kept' = kept \ InSeg(s)
    /\ UNCHANGED <<at, torn, next, cur, wseq, bytes>>

\* The process dies: the writer's segment keeps the frames before `cut' and,
\* when `partial', a part of the frame `cut'.
CutAt(cut) == {f \in InSeg(wseq) : f >= cut}

Truncate(cut, partial) ==
    /\ IF partial
       THEN /\ cut \in InSeg(wseq)
            /\ kept' = (kept \ CutAt(cut)) \cup {cut}
            /\ torn' = torn \cup {cut}
       ELSE kept' = kept \ CutAt(cut) /\ UNCHANGED torn
    /\ UNCHANGED <<segs, at, next, cur, wseq, bytes>>
=============================================================================
