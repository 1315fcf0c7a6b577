----------------------------- MODULE AlertState -----------------------------
(* The alert-instance state machine: one observation of one slot folded into *)
(* the prior durable state.  Times are slot ends.  A state keeps what the    *)
(* machine reads back: last_value, last_error_class and stale are display.   *)
EXTENDS Integers

Outcome == {"breach", "clear", "no_data", "error"}
Active  == {"firing", "recovering"}
Outage  == {"no_data", "error"}
Status  == {"inactive", "pending", "disabled"} \cup Active \cup Outage
Hold    == {"pending", "recovering"}

(* A rule: interval, holds, and what an outage means.                        *)
Rule == [every_seconds : Nat \ {0}, for_seconds : Nat,
         recover_for_seconds : Nat, enabled : BOOLEAN,
         no_data : {"no_data", "firing"},
         execution_error : {"error", "keep_last", "firing"}]

NotInterrupted == [status |-> "none", since |-> 0]
Interrupted == [status : Active \cup {"none"}, since : Nat]
AlertStates == [revision : Nat, status : Status \cup {"none"}, since : Nat,
                slot : Nat, sequence : Nat, interrupted : Interrupted]

(* No state head: revision 0, below every rule revision.                     *)
NoState == [revision |-> 0, status |-> "none", since |-> 0, slot |-> 0,
            sequence |-> 0, interrupted |-> NotInterrupted]

ActiveStatus(s) ==
  IF s.status \in Active THEN [status |-> s.status, since |-> s.since]
  ELSE IF s.status \in Outage THEN s.interrupted
  ELSE NotInterrupted
IsActive(s) == ActiveStatus(s).status # "none"

(* Staleness is lexicographic in (revision, slot).                           *)
Covers(s, revision, slot) ==
  s.revision > revision \/ (s.revision = revision /\ s.slot >= slot)

HeldFor(since, now, seconds) == now >= since + seconds \/ seconds = 0

BreachingStatus(rule, p, same, now) ==
  LET since == IF same /\ p.status = "pending" THEN p.since ELSE now IN
  IF IsActive(p) \/ rule.for_seconds = 0 \/ HeldFor(since, now, rule.for_seconds)
  THEN "firing" ELSE "pending"

(* Variant: an outage that ends clear resolves the alert at once.            *)
ClearForgets(rule, p, same, now) ==
  LET since == IF same /\ p.status = "recovering" THEN p.since ELSE now IN
  IF p.status \notin Active \/ HeldFor(since, now, rule.recover_for_seconds)
  THEN "inactive" ELSE "recovering"

ClearStatus(rule, p, same, now) ==
  LET a     == ActiveStatus(p)
      since == IF same /\ a.status = "recovering" THEN a.since ELSE now IN
  IF \/ ~IsActive(p)
     \/ rule.recover_for_seconds = 0
     \/ HeldFor(since, now, rule.recover_for_seconds)
  THEN "inactive" ELSE "recovering"

NextStatus(rule, p, same, outcome, now) ==
  IF ~rule.enabled THEN "disabled" ELSE
  CASE outcome = "breach"  -> BreachingStatus(rule, p, same, now)
    [] outcome = "clear"   -> ClearStatus(rule, p, same, now)
    [] outcome = "no_data" -> IF rule.no_data = "no_data" THEN "no_data"
                              ELSE BreachingStatus(rule, p, same, now)
    [] outcome = "error"   ->
         CASE rule.execution_error = "keep_last" ->
                IF p.status \in {"none", "disabled"} THEN "error" ELSE p.status
           [] rule.execution_error = "error"  -> "error"
           [] rule.execution_error = "firing" -> BreachingStatus(rule, p, same, now)

(* since survives a resumed active status and an unchanged status; a hold    *)
(* timer only under the same revision.                                       *)
Since(p, same, status, now) ==
  LET carries   == same \/ status \notin Hold
      suspended == IF p.status \in Outage THEN p.interrupted ELSE NotInterrupted IN
  IF suspended.status = status /\ carries THEN suspended.since
  ELSE IF p.status = status /\ carries THEN p.since
  ELSE now

Evaluate(rule, revision, p, outcome, slot, now) ==
  LET same   == p.revision = revision
      status == NextStatus(rule, p, same, outcome, now) IN
  IF Covers(p, revision, slot) THEN p ELSE
  [revision |-> revision, status |-> status, since |-> Since(p, same, status, now),
   slot |-> slot,
   sequence |-> p.sequence + (IF p.status = status THEN 0 ELSE 1),
   interrupted |-> IF status \in Outage THEN ActiveStatus(p) ELSE NotInterrupted]

(* Slot ids are wall-clock multiples of the interval.  The evaluation delay  *)
(* shifts the clock, and a slot still inside its jitter leaves the one       *)
(* before it due, as a dispatch before the clock's step does.                *)
SlotEnd(rule, slot) == (slot + 1) * rule.every_seconds

(* Variant: nothing due yet counts as slot -1.                               *)
DueUnchecked(rule, now) == {(now \div rule.every_seconds) - 1}

(* Variant: a slot is due one interval late.                                 *)
DueLate(rule, now) ==
  LET n == (now \div rule.every_seconds) - 2 IN IF n >= 0 THEN {n} ELSE {}

(* latest_due_slot: the newest ended slot; older missed ones are skipped.    *)
DueSlots(rule, now) ==
  LET n == (now \div rule.every_seconds) - 1 IN IF n >= 0 THEN {n} ELSE {}
=============================================================================
