--------------------------- MODULE IntakePromise ----------------------------
(***************************************************************************)
(* What one ingest shard promises of the batches it takes, without the WAL,*)
(* the blocks or the uploads: at-least-once intake in two grades.  A batch *)
(* is taken once; it is first `fresh' (a failure may lose it), then `safe' *)
(* (no failure loses it), then `stored'.  An acknowledged batch leaves     *)
(* `safe' only by being stored, and only a batch that was taken is         *)
(* acknowledged, if need be after a failure has lost it.                   *)
(***************************************************************************)
CONSTANT Frame

VARIABLES
    taken,   \* handed to the shard so far
    fresh,   \* held, a failure may still lose it
    safe,    \* held where a restart finds it
    stored,  \* in a committed block
    acked    \* promised to the sender

vars == <<taken, fresh, safe, stored, acked>>

Init == taken = {} /\ fresh = {} /\ safe = {} /\ stored = {} /\ acked = {}

\* Any part of what is held becomes safe.
Settle(held) ==
    /\ safe \subseteq safe' /\ safe' \subseteq held
    /\ fresh' = held \ safe'
    /\ UNCHANGED <<stored, acked>>

\* A failure, or the end of interest in a batch that was refused.
Lose ==
    /\ fresh' \subseteq fresh
    /\ safe \cap acked \subseteq safe' /\ safe' \subseteq safe
    /\ UNCHANGED <<stored, acked>>

Seal    == Settle(fresh \cup safe) /\ UNCHANGED taken
Abandon == Lose /\ UNCHANGED taken

\* A batch comes in and is kept, or fails.
Take(f) ==
    /\ f \notin taken /\ taken' = taken \cup {f}
    /\ Settle(fresh \cup safe \cup {f}) \/ Settle(fresh \cup safe) \/ Lose

Store ==
    /\ stored \subseteq stored' /\ stored' \subseteq stored \cup fresh \cup safe
    /\ fresh' = fresh \ stored' /\ safe' = safe \ stored'
    /\ UNCHANGED <<taken, acked>>

Acknowledge(f) ==
    /\ f \in taken
    /\ acked' = acked \cup {f}
    /\ UNCHANGED <<taken, fresh, safe, stored>>

Next ==
    \/ Seal \/ Store \/ Abandon
    \/ \E f \in Frame : Take(f) \/ Acknowledge(f)

Spec == Init /\ [][Next]_vars
=============================================================================
