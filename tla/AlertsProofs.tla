---------------------------- MODULE AlertsProofs ----------------------------
(* The safety properties of one monitor, for any number of instances,        *)
(* commands, rules, slots and faults.                                        *)
EXTENDS Alerts, TLAPS, SequenceTheorems

-----------------------------------------------------------------------------
(* What one evaluation does to a monitor's state, for every rule, prior      *)
(* state, outcome and slot, and to the history the properties are stated     *)
(* with.                                                                     *)

(* next_status() answers a real status, whatever the prior one was.          *)
LEMMA NextStatusType ==
  ASSUME NEW rule \in Rule, NEW p \in AlertStates, NEW same \in BOOLEAN,
         NEW o \in Outcome, NEW at \in Nat
  PROVE  NextStatus(rule, p, same, o, at) \in Status
<1>1. BreachingStatus(rule, p, same, at) \in {"firing", "pending"}
  BY Zenon DEF BreachingStatus
<1>2. ClearStatus(rule, p, same, at) \in {"inactive", "recovering"}
  BY Zenon DEF ClearStatus
<1>3. p.status \in Status \cup {"none"}
  BY Zenon DEF AlertStates
<1>4. rule.execution_error \in {"error", "keep_last", "firing"} /\ rule.enabled \in BOOLEAN
  BY Zenon DEF Rule
<1>5. CASE ~rule.enabled
  BY Zenon, <1>5 DEF NextStatus, Status
<1>6. CASE rule.enabled /\ o = "breach"
  BY Zenon, <1>6, <1>1 DEF NextStatus, Status, Active
<1>7. CASE rule.enabled /\ o = "clear"
  BY Zenon, <1>7, <1>2 DEF NextStatus, Status, Active
<1>8. CASE rule.enabled /\ o = "no_data"
  BY Zenon, <1>8, <1>1 DEF NextStatus, Status, Active, Outage
<1>9. CASE rule.enabled /\ o = "error"
  BY Zenon, <1>9, <1>1, <1>3, <1>4 DEF NextStatus, Status, Active, Outage
<1> QED
  BY Zenon, <1>4, <1>5, <1>6, <1>7, <1>8, <1>9 DEF Outcome

(* The status suspended by an outage, or the active one, with its start.     *)
LEMMA ActiveStatusType ==
  ASSUME NEW p \in AlertStates
  PROVE  ActiveStatus(p) \in Interrupted
BY Zenon DEF ActiveStatus, AlertStates, Interrupted, NotInterrupted, Active

(* What evaluate() returns for a slot the prior state does not cover: a      *)
(* state of that revision and slot, one transition further exactly when the  *)
(* status changed.                                                           *)
LEMMA EvaluateFacts ==
  ASSUME NEW rule \in Rule, NEW rev \in Nat, NEW p \in AlertStates,
         NEW o \in Outcome, NEW slot \in Nat, NEW at \in Nat,
         NEW n, n = Evaluate(rule, rev, p, o, slot, at), ~Covers(p, rev, slot)
  PROVE  /\ n \in AlertStates
         /\ n.revision = rev /\ n.slot = slot
         /\ n.status = NextStatus(rule, p, p.revision = rev, o, at)
         /\ n.status \in Status
         /\ n.sequence = p.sequence + (IF p.status = n.status THEN 0 ELSE 1)
         /\ n.since = Since(p, p.revision = rev, n.status, at)
         /\ n.interrupted = IF n.status \in Outage THEN ActiveStatus(p) ELSE NotInterrupted
<1> DEFINE same == p.revision = rev
           st   == NextStatus(rule, p, same, o, at)
<1>1. st \in Status
  BY Zenon, NextStatusType
<1>2. Since(p, same, st, at) \in Nat
  BY Zenon DEF Since, AlertStates, Interrupted, NotInterrupted
<1>3. ActiveStatus(p) \in Interrupted /\ NotInterrupted \in Interrupted
  BY Zenon, ActiveStatusType DEF NotInterrupted, Interrupted
<1>4. n = [revision |-> rev, status |-> st, since |-> Since(p, same, st, at), slot |-> slot,
           sequence |-> p.sequence + (IF p.status = st THEN 0 ELSE 1),
           interrupted |-> IF st \in Outage THEN ActiveStatus(p) ELSE NotInterrupted]
  BY Zenon DEF Evaluate
<1>5. p.sequence \in Nat
  BY Zenon DEF AlertStates
<1> HIDE DEF same, st
<1>6. n \in AlertStates
  BY <1>1, <1>2, <1>3, <1>4, <1>5 DEF AlertStates
<1>7. /\ n.revision = rev /\ n.slot = slot /\ n.status = st
      /\ n.sequence = p.sequence + (IF p.status = n.status THEN 0 ELSE 1)
      /\ n.since = Since(p, same, n.status, at)
      /\ n.interrupted = IF n.status \in Outage THEN ActiveStatus(p) ELSE NotInterrupted
  BY <1>4
<1> QED
  BY Zenon, <1>1, <1>6, <1>7 DEF same, st

(* Those of them the order of states and the chain are about.                *)
LEMMA EvaluateStep ==
  ASSUME NEW rule \in Rule, NEW rev \in Nat, NEW p \in AlertStates,
         NEW o \in Outcome, NEW slot \in Nat, NEW at \in Nat,
         NEW n, n = Evaluate(rule, rev, p, o, slot, at), ~Covers(p, rev, slot)
  PROVE  /\ n.revision = rev /\ n.slot = slot /\ n.status \in Status
         /\ n.sequence = p.sequence + (IF p.status = n.status THEN 0 ELSE 1)
<1> DEFINE st == NextStatus(rule, p, p.revision = rev, o, at)
           sc == Since(p, p.revision = rev, st, at)
           iv == IF st \in Outage THEN ActiveStatus(p) ELSE NotInterrupted
<1>1. st \in Status
  BY Zenon, NextStatusType
<1>2. n = [revision |-> rev, status |-> st, since |-> sc, slot |-> slot,
           sequence |-> p.sequence + (IF p.status = st THEN 0 ELSE 1), interrupted |-> iv]
  BY Zenon DEF Evaluate
<1> HIDE DEF st, sc, iv
<1> QED
  BY <1>1, <1>2

(* Slots end in their order.                                                 *)
LEMMA SlotEndMonotone ==
  ASSUME NEW rule \in Rule, NEW a \in Nat, NEW b \in Nat, a <= b
  PROVE  SlotEnd(rule, a) \in Nat /\ SlotEnd(rule, b) \in Nat
         /\ SlotEnd(rule, a) <= SlotEnd(rule, b)
<1> DEFINE e == rule.every_seconds
<1>1. e \in Nat
  BY Zenon DEF Rule
<1> HIDE DEF e
<1>2. \A x \in Nat : (x + 1) * e \in Nat
  BY <1>1
<1>3. (a + 1) * e <= (b + 1) * e
  BY <1>1
<1> QED
  BY Zenon, <1>2, <1>3 DEF SlotEnd, e

(* Staleness is a total order: what a state does not cover covers it.        *)
LEMMA CoversOrder ==
  ASSUME NEW s \in AlertStates, NEW n \in AlertStates, NEW r \in Nat, NEW k \in Nat,
         ~Covers(s, n.revision, n.slot), Covers(s, r, k)
  PROVE  Covers(n, r, k)
BY DEF Covers, AlertStates

-----------------------------------------------------------------------------
(* The hold timers against the history: a pending status has held at least   *)
(* since its start, a recovering one, suspended or not, has been clear.      *)
Timers(s, l) ==
  /\ s.status = "pending" => l.held # NoTime /\ l.held <= s.since
  /\ ActiveStatus(s).status = "recovering" =>
       l.calm # NoTime /\ l.calm <= ActiveStatus(s).since

(* StatusEarned, of a state and the history it was computed from.            *)
Earned(s, l) ==
  LET rule == RuleOf[l.cmd] IN
  /\ s.status = "firing" /\ ~l.active =>
       l.held # NoTime /\ l.at >= l.held + rule.for_seconds
  /\ s.status \in {"inactive", "pending"} /\ l.active =>
       l.outcome = "clear" /\ l.at >= l.calm + rule.recover_for_seconds

(* The statuses by outcome: which branch of next_status() was taken.         *)
LEMMA NextStatusCases ==
  ASSUME NEW rule \in Rule, NEW p \in AlertStates, NEW rev \in Nat,
         NEW o \in Outcome, NEW at \in Nat,
         NEW st, st = NextStatus(rule, p, p.revision = rev, o, at)
  PROVE  \/ ~rule.enabled /\ st = "disabled"
         \/ rule.enabled /\ Breaches(rule, o) /\ st = BreachingStatus(rule, p, p.revision = rev, at)
         \/ rule.enabled /\ ~Breaches(rule, o) /\ o = "clear" /\ st = ClearStatus(rule, p, p.revision = rev, at)
         \/ rule.enabled /\ ~Breaches(rule, o) /\ o # "clear" /\ ~Kept(rule, o) /\ st \in Outage
         \/ /\ rule.enabled /\ ~Breaches(rule, o) /\ o # "clear" /\ Kept(rule, o)
            /\ st = IF p.status \in {"none", "disabled"} THEN "error" ELSE p.status
<1>1. /\ rule.execution_error \in {"error", "keep_last", "firing"}
      /\ rule.no_data \in {"no_data", "firing"} /\ rule.enabled \in BOOLEAN
  BY Zenon DEF Rule
<1>2. CASE ~rule.enabled
  BY Zenon, <1>2 DEF NextStatus
<1>3. CASE rule.enabled /\ o = "breach"
  BY Zenon, <1>3 DEF NextStatus, Breaches
<1>4. CASE rule.enabled /\ o = "clear"
  BY Zenon, <1>4 DEF NextStatus, Breaches
<1>5. CASE rule.enabled /\ o = "no_data"
  BY Zenon, <1>1, <1>5 DEF NextStatus, Breaches, Kept, Outage
<1>6. CASE rule.enabled /\ o = "error"
  BY Zenon, <1>1, <1>6 DEF NextStatus, Breaches, Kept, Outage
<1> QED
  BY Zenon, <1>1, <1>2, <1>3, <1>4, <1>5, <1>6 DEF Outcome

(* The evaluation of a slot by job j keeps the timers honest and its status  *)
(* is earned, if the timers of the state it started from were honest.        *)
LEMMA EarnedStep ==
  ASSUME NEW j, j.rule.cmd \in Puts, j.rule.rev \in Nat, j.slot \in Nat,
         j.outcome \in Outcome, j.prior.state \in AlertStates, last \in Last,
         NEW rule \in Rule, rule = RuleOf[j.rule.cmd],
         NEW at \in Nat, at = SlotEnd(rule, j.slot),
         ~Covers(j.prior.state, j.rule.rev, j.slot),
         j.next = Evaluate(rule, j.rule.rev, j.prior.state, j.outcome, j.slot, at),
         Timers(j.prior.state, last),
         j.prior.state.revision = j.rule.rev /\ last.held # NoTime => last.held <= at
  PROVE  /\ NewLast(j) \in Last
         /\ NewLast(j).cmd = j.rule.cmd /\ NewLast(j).at = at
         /\ NewLast(j).held # NoTime => NewLast(j).held <= at
         /\ Timers(j.next, NewLast(j))
         /\ Earned(j.next, NewLast(j))
<1> DEFINE p    == j.prior.state
           o    == j.outcome
           n    == j.next
           same == p.revision = j.rule.rev
           goes == same /\ last.held # NoTime
           held == NewLast(j).held
           calm == NewLast(j).calm
           a    == ActiveStatus(p)
<1>1. /\ n.status = NextStatus(rule, p, same, o, at)
      /\ n.since = Since(p, same, n.status, at)
      /\ n.interrupted = IF n.status \in Outage THEN a ELSE NotInterrupted
  BY EvaluateFacts
<1>2. NewLast(j) = [active |-> IsActive(p), outcome |-> o, cmd |-> j.rule.cmd, at |-> at,
                    held |-> held, calm |-> calm]
  BY Zenon DEF NewLast
<1>3. held = IF ~rule.enabled THEN NoTime
             ELSE IF Breaches(rule, o) THEN IF goes THEN last.held ELSE at
             ELSE IF ~Kept(rule, o) THEN NoTime
             ELSE IF goes THEN last.held
             ELSE IF p.status = "pending" THEN at ELSE NoTime
  BY Zenon DEF NewLast
<1>4. calm = IF ~rule.enabled \/ Breaches(rule, o) THEN NoTime
             ELSE IF last.calm = NoTime
             THEN IF o = "clear" THEN at ELSE NoTime
             ELSE IF at < last.calm THEN at ELSE last.calm
  BY Zenon DEF NewLast
<1>5. last.held \in Nat \cup {NoTime} /\ last.calm \in Nat \cup {NoTime}
  BY Zenon DEF Last
<1>6. a \in Interrupted /\ p.since \in Nat /\ p.status \in Status \cup {"none"}
      /\ p.interrupted \in Interrupted
  BY Zenon, ActiveStatusType DEF AlertStates
<1>7. /\ p.status = "pending" => last.held # NoTime /\ last.held <= p.since
      /\ a.status = "recovering" => last.calm # NoTime /\ last.calm <= a.since
      /\ goes => last.held <= at
  BY Zenon DEF Timers
<1>8. rule.for_seconds \in Nat /\ rule.recover_for_seconds \in Nat
  BY Zenon DEF Rule
<1>9. /\ NewLast(j).active = IsActive(p) /\ NewLast(j).outcome = o
      /\ NewLast(j).cmd = j.rule.cmd /\ NewLast(j).at = at
  BY <1>2
<1>10. IsActive(p) \in BOOLEAN
  BY Zenon DEF IsActive
<1>11. (IsActive(p) <=> a.status # "none")
       /\ (p.status \in Active => a = [status |-> p.status, since |-> p.since])
       /\ (p.status \in Outage => a = p.interrupted)
       /\ (p.status \notin Active \cup Outage => a = NotInterrupted)
  BY Zenon DEF IsActive, ActiveStatus, Active, Outage
<1>12. same \in BOOLEAN /\ goes \in BOOLEAN
  OBVIOUS
<1> HIDE DEF held, calm, a, goes
<1>20. held \in Nat \cup {NoTime} /\ (held # NoTime => held <= at)
  BY <1>3, <1>5, <1>7
<1>21. calm \in Nat \cup {NoTime} /\ (last.calm # NoTime /\ calm # NoTime => calm <= last.calm)
       /\ (calm # NoTime /\ o = "clear" => calm <= at)
  BY <1>4, <1>5 DEF NoTime
<1>22. NewLast(j) \in Last
  BY <1>2, <1>10, <1>20, <1>21 DEF Last, Cmd
<1>23. n.status = "pending" =>
         n.since = IF same /\ p.status = "pending" THEN p.since ELSE at
  BY Zenon, <1>1, <1>6 DEF Since, Interrupted, Active, Outage, Hold, NotInterrupted
<1>24. n.status = "recovering" =>
         n.since = IF same /\ a.status = "recovering" THEN a.since ELSE at
  BY <1>1, <1>6, <1>11 DEF Since, Interrupted, Active, Outage, Hold, NotInterrupted
<1>25. /\ n.status \in Active => ActiveStatus(n) = [status |-> n.status, since |-> n.since]
       /\ n.status \in Outage => ActiveStatus(n) = a
       /\ n.status \notin Active \cup Outage => ActiveStatus(n) = NotInterrupted
  BY Zenon, <1>1 DEF ActiveStatus, Active, Outage
<1> DEFINE
  T1 == n.status = "pending" => held # NoTime /\ held <= n.since
  T2 == ActiveStatus(n).status = "recovering" =>
          calm # NoTime /\ calm <= ActiveStatus(n).since
  E1 == n.status = "firing" /\ ~IsActive(p) => held # NoTime /\ at >= held + rule.for_seconds
  E2 == n.status \in {"inactive", "pending"} /\ IsActive(p) =>
          o = "clear" /\ at >= calm + rule.recover_for_seconds
<1>26. T1 /\ T2 /\ E1 /\ E2
  <2>1. CASE ~rule.enabled /\ n.status = "disabled"
    <3>1. T1 /\ T2 /\ E1 /\ E2
      BY <2>1, <1>25 DEF Active, Outage, NotInterrupted
    <3> QED
      BY Zenon, <3>1
  <2>2. CASE rule.enabled /\ Breaches(rule, o) /\ n.status = BreachingStatus(rule, p, same, at)
    <3> DEFINE since == IF same /\ p.status = "pending" THEN p.since ELSE at
    <3>1. n.status \in {"firing", "pending"} /\ (n.status = "pending" => ~IsActive(p))
          /\ (n.status = "firing" /\ ~IsActive(p) =>
                rule.for_seconds = 0 \/ at >= since + rule.for_seconds)
      BY Zenon, <2>2 DEF BreachingStatus, HeldFor
    <3>2. held \in Nat /\ held <= at /\ held <= since
      BY <2>2, <1>3, <1>5, <1>6, <1>7 DEF NoTime, goes
    <3>3. since \in Nat
      BY Zenon, <1>6
    <3> HIDE DEF since
    <3>4. T1
      BY <3>2, <1>23 DEF NoTime, since
    <3>5. T2
      BY <3>1, <1>25 DEF Active, Outage, NotInterrupted
    <3>6. E1
      BY <3>1, <3>2, <3>3, <1>8 DEF NoTime
    <3>7. E2
      BY Zenon, <3>1
    <3> QED
      BY Zenon, <3>4, <3>5, <3>6, <3>7
  <2>3. CASE /\ rule.enabled /\ ~Breaches(rule, o) /\ o = "clear"
              /\ n.status = ClearStatus(rule, p, same, at)
    <3> DEFINE since == IF same /\ a.status = "recovering" THEN a.since ELSE at
    <3>1. /\ n.status \in {"inactive", "recovering"}
          /\ n.status = "inactive" /\ IsActive(p) =>
                rule.recover_for_seconds = 0 \/ at >= since + rule.recover_for_seconds
      BY Zenon, <2>3 DEF ClearStatus, HeldFor, a
    <3>2. calm \in Nat /\ calm <= at /\ calm <= since
      BY <2>3, <1>4, <1>5, <1>6, <1>7 DEF NoTime, Interrupted
    <3>3. since \in Nat
      BY Zenon, <1>6 DEF Interrupted
    <3> HIDE DEF since
    <3>4. T2
      BY <3>1, <3>2, <1>24, <1>25 DEF NoTime, since, Active, Outage, NotInterrupted
    <3>5. E2
      BY <3>1, <3>2, <3>3, <1>8, <2>3
    <3> QED
      BY Zenon, <3>1, <3>4, <3>5
  <2>4. CASE /\ rule.enabled /\ ~Breaches(rule, o) /\ o # "clear" /\ ~Kept(rule, o)
              /\ n.status \in Outage
    <3>1. T2
      BY <2>4, <1>4, <1>5, <1>6, <1>7, <1>25 DEF NoTime, Interrupted
    <3> QED
      BY Zenon, <2>4, <3>1 DEF Outage
  <2>5. CASE /\ rule.enabled /\ ~Breaches(rule, o) /\ o # "clear" /\ Kept(rule, o)
              /\ n.status = IF p.status \in {"none", "disabled"} THEN "error" ELSE p.status
    <3>1. T1
      BY <2>5, <1>3, <1>5, <1>6, <1>7, <1>23 DEF NoTime, goes
    <3>2. CASE n.status \in Outage
      <4>1. T2
        BY <3>2, <2>5, <1>4, <1>5, <1>6, <1>7, <1>25 DEF NoTime, Interrupted
      <4> QED
        BY Zenon, <3>1, <3>2, <4>1 DEF Outage
    <3>3. CASE n.status \notin Outage
      <4>1. n.status = p.status
        BY Zenon, <3>3, <2>5 DEF Outage
      <4>2. T2
        BY <3>3, <4>1, <2>5, <1>4, <1>5, <1>6, <1>7, <1>11, <1>24, <1>25
        DEF NoTime, Interrupted, Active, Outage, NotInterrupted
      <4>3. n.status \in {"inactive", "pending"} => ~IsActive(p)
        BY <4>1, <1>11 DEF Active, Outage, NotInterrupted
      <4>4. n.status = "firing" => IsActive(p)
        BY <4>1, <1>11 DEF Active
      <4> QED
        BY Zenon, <3>1, <4>2, <4>3, <4>4
    <3> QED
      BY Zenon, <3>2, <3>3
  <2> HIDE DEF T1, T2, E1, E2
  <2> QED
    BY <1>1, <1>12, <2>1, <2>2, <2>3, <2>4, <2>5, NextStatusCases
<1>27. Timers(n, NewLast(j))
  BY Zenon, <1>26 DEF Timers, held, calm
<1>28. Earned(n, NewLast(j))
  BY Zenon, <1>26, <1>9 DEF Earned, held, calm
<1> QED
  BY Zenon, <1>9, <1>20, <1>22, <1>27, <1>28 DEF held

-----------------------------------------------------------------------------
(* The types, and the invariant of the monitor's durable and local state.    *)

ProjType == [row : RuleHead, fresh : BOOLEAN, state : AlertStates]
JobType  == [pc : {"idle", "queued", "state", "recheck", "trans", "head", "fold"},
             rule : RuleHead, slot : Nat, prior : StateHead,
             outcome : Outcome \cup {"none"}, next : AlertStates]
RecType  == [pc : {"idle", "state", "fold"}, loaded : {"absent", "live", "deleted"},
             row : RuleHead, state : AlertStates]
ReqType  == [pc : {"idle", "publish", "stage", "cas", "receipt", "fold"},
             at : Inst \cup {Nobody}, seen : RuleHead]

BucketTypes ==
  /\ head \in RuleHead /\ shead \in StateHead /\ trans \subseteq Record
  /\ receipts \subseteq Puts /\ staged \subseteq Deletes
  /\ log \in Seq(Cmd) /\ last \in Last
MemTypes ==
  /\ proj \in [Inst -> ProjType] /\ job \in [Inst -> JobType]
  /\ rec \in [Inst -> RecType] /\ req \in [Cmd -> ReqType]
  /\ acked \in [Cmd -> Inst \cup {Nobody}]
EnvTypes ==
  /\ now \in Nat /\ world \in Scenarios /\ lease \in Inst \cup {Nobody}
  /\ tries \in [Cmd -> Nat] /\ faults \in Nat

(* The rule head lg ends with; a head that was in the bucket; a row that is  *)
(* not ahead of the head hd; a state that the head's state sh covers; a      *)
(* state head whose record is in tr.                                         *)
In(lg, c) == \E k \in 1..Len(lg) : lg[k] = c
HeadOK(h, lg) ==
  /\ h \in RuleHead
  /\ h.rev = 0 => h = NoHead
  /\ h.rev > 0 /\ ~h.deleted => h.cmd \in Puts /\ RevOf[h.cmd] = h.rev /\ In(lg, h.cmd)
RowOK(h, lg, hd) ==
  /\ HeadOK(h, lg)
  /\ h.rev <= hd.rev
  /\ h.deleted => hd.deleted /\ h.rev = hd.rev
StateOK(s, sh) == s \in AlertStates /\ (s # NoState => Covers(sh, s.revision, s.slot))
Chained(h, tr) ==
  h # NoStateHead => /\ h.latest \in tr
                     /\ h.latest.state.sequence = h.state.sequence
                     /\ h.latest.state.status = h.state.status

(* One command per revision, none after a delete; receipts and answers only  *)
(* for commands the head took.                                               *)
RuleInv ==
  /\ IF log = <<>> THEN head = NoHead ELSE head = HeadOf(log[Len(log)])
  /\ \A k \in 1..Len(log) :
       IF log[k] \in Puts THEN RevOf[log[k]] = k
       ELSE k = Len(log) /\ RevOf[log[k]] + 1 = k
  /\ \A c \in receipts : In(log, c)
Answered == \A c \in Cmd : acked[c] # Nobody => In(log, c)

(* A handler between its read of the head and its compare-and-swap.          *)
ReqOK(c, q, lg) ==
  /\ q.pc # "idle" => q.at \in Inst
  /\ q.pc \in {"publish", "receipt"} => c \in Puts
  /\ q.pc = "stage" => c \in Deletes
  /\ q.pc \in {"stage", "cas"} /\ c \in Puts =>
       IF q.seen.rev = 0 THEN RevOf[c] = 1
       ELSE ~q.seen.deleted /\ q.seen.rev + 1 = RevOf[c]
  /\ q.pc \in {"stage", "cas"} /\ c \in Deletes =>
       ~q.seen.deleted /\ q.seen.rev = RevOf[c]
  /\ q.pc \in {"receipt", "fold"} => In(lg, c)
Requests == \A c \in Cmd : ReqOK(c, req[c], log)

Projections ==
  \A i \in Inst : RowOK(proj[i].row, log, head) /\ StateOK(proj[i].state, shead.state)

(* A reconciliation that found no head meets only rows folded since.         *)
Unseen(r, p) == r.pc = "fold" /\ r.loaded = "absent" => p.row.rev = 0 \/ p.fresh
RecOK(r, lg, hd, sh) ==
  /\ r.pc = "state" => r.loaded = "live"
  /\ r.loaded = "live" => RowOK(r.row, lg, hd) /\ ~r.row.deleted
  /\ r.loaded = "deleted" => hd.deleted /\ r.row.rev = hd.rev
  /\ StateOK(r.state, sh)
Reconciles ==
  \A i \in Inst : RecOK(rec[i], log, head, shead.state) /\ Unseen(rec[i], proj[i])

(* An answer is never undone on the instance that gave it.                   *)
Kept1(c, p) == p.row.rev >= RevOf[c] /\ (c \in Deletes => p.row.deleted)
Acks == \A c \in Cmd : acked[c] # Nobody => Kept1(c, proj[acked[c]])

(* An evaluation past its query has evaluated the state head it read.        *)
Evaluated == {"recheck", "trans", "head", "fold"}
JobOK(j, lg, sh, tr) ==
  /\ j.pc # "idle" => j.rule.rev > 0 /\ ~j.rule.deleted /\ HeadOK(j.rule, lg)
  /\ j.pc \in Evaluated =>
       /\ j.outcome \in Outcome
       /\ ~Covers(j.prior.state, j.rule.rev, j.slot)
       /\ j.next = Evaluate(RuleOf[j.rule.cmd], j.rule.rev, j.prior.state, j.outcome,
                            j.slot, SlotEnd(RuleOf[j.rule.cmd], j.slot))
       /\ Chained(j.prior, tr)
  /\ j.pc = "trans" => j.next.status # j.prior.state.status
  /\ j.pc = "head" /\ j.next.status # j.prior.state.status => NewRecord(j) \in tr
  /\ j.pc = "fold" => Covers(sh, j.next.revision, j.next.slot)
Jobs == \A i \in Inst : JobOK(job[i], log, shead.state, trans)

(* The history belongs to the state head: its rule, its slot, its timers.    *)
HistoryOK(sh, l, lg) ==
  IF sh = NoStateHead THEN l = NoLast
  ELSE /\ l.cmd \in Puts /\ In(lg, l.cmd) /\ RevOf[l.cmd] = sh.state.revision
       /\ l.at = SlotEnd(RuleOf[l.cmd], sh.state.slot)
       /\ l.held # NoTime => l.held <= l.at
       /\ Timers(sh.state, l) /\ Earned(sh.state, l)
History == HistoryOK(shead, last, log)

Bucket == BucketTypes /\ RuleInv /\ ChainWhole /\ History
Memory == MemTypes /\ Requests /\ Projections /\ Reconciles /\ Jobs /\ Acks /\ Answered
Inv == EnvTypes /\ Bucket /\ Memory

-----------------------------------------------------------------------------
(* The projection's transactions.                                            *)

ProjOK(p, lg, hd, sh) == p \in ProjType /\ RowOK(p.row, lg, hd) /\ StateOK(p.state, sh)

(* What a fold may do to a row: move it up, mark it as seen since the epoch. *)
ProjStep(p, q, lg, hd, sh) ==
  /\ ProjOK(q, lg, hd, sh)
  /\ q.row.rev >= p.row.rev /\ (p.row.deleted => q.row.deleted)
  /\ q.fresh \/ (q.row = p.row /\ q.fresh = p.fresh)

(* The constants that stand for absence have their types.                    *)
LEMMA NothingTypes ==
  /\ NoState \in AlertStates /\ NoHead \in RuleHead /\ NoProj \in ProjType
  /\ NoRecord \in Record /\ NoStateHead \in StateHead
  /\ IdleJob \in JobType /\ IdleRec \in RecType /\ IdleReq \in ReqType
  /\ NoLast \in Last
<1>1. NoState \in AlertStates
  BY Zenon DEF NoState, AlertStates, NotInterrupted, Interrupted
<1>2. NoHead \in RuleHead
  BY Zenon DEF NoHead, RuleHead
<1>3. NoRecord \in Record
  BY Zenon, <1>1 DEF NoRecord, Record
<1>4. NoStateHead \in StateHead
  BY Zenon, <1>1, <1>3 DEF NoStateHead, StateHead
<1>5. NoProj \in ProjType
  BY Zenon, <1>1, <1>2 DEF NoProj, ProjType
<1>6. IdleJob \in JobType
  BY Zenon, <1>1, <1>2, <1>4 DEF IdleJob, JobType
<1>7. IdleRec \in RecType
  BY Zenon, <1>1, <1>2 DEF IdleRec, RecType
<1>8. IdleReq \in ReqType
  BY Zenon, <1>2 DEF IdleReq, ReqType
<1>9. NoLast \in Last
  BY Zenon DEF NoLast, Last
<1> QED
  BY Zenon, <1>1, <1>2, <1>3, <1>4, <1>5, <1>6, <1>7, <1>8, <1>9

(* fold_rule() with a head that was in the bucket.                           *)
LEMMA FoldRuleStep ==
  ASSUME NEW p, NEW lg, NEW hd \in RuleHead, NEW sh, ProjOK(p, lg, hd, sh),
         NEW h, RowOK(h, lg, hd), ~h.deleted
  PROVE  /\ ProjStep(p, FoldRule(p, h), lg, hd, sh)
         /\ ~FoldRule(p, h).row.deleted => FoldRule(p, h).row.rev >= h.rev
<1>1. /\ p \in ProjType /\ h \in RuleHead /\ p.row \in RuleHead
      /\ RowOK(p.row, lg, hd) /\ StateOK(p.state, sh)
      /\ p.row.rev = 0 => p.row = NoHead
      /\ h.rev \in Nat /\ p.row.rev \in Nat
  BY Zenon DEF ProjOK, RowOK, HeadOK, ProjType, RuleHead
<1>2. CASE p.row.rev = 0 \/ (~p.row.deleted /\ h.rev > p.row.rev)
  <2> DEFINE q == FoldRule(p, h)
  <2>1. q = [p EXCEPT !.row = h, !.fresh = TRUE]
    BY Zenon, <1>2 DEF FoldRule
  <2>2. q \in ProjType /\ q.row = h /\ q.fresh = TRUE /\ q.state = p.state
    BY Zenon, <1>1, <2>1 DEF ProjType
  <2>3. p.row.deleted => h.deleted
    BY <1>1, <1>2 DEF NoHead
  <2> HIDE DEF q
  <2>4. ProjOK(q, lg, hd, sh)
    BY Zenon, <1>1, <2>2 DEF ProjOK
  <2>5. ProjStep(p, q, lg, hd, sh) /\ q.row.rev >= h.rev
    BY <1>1, <1>2, <2>2, <2>3, <2>4 DEF ProjStep
  <2> QED
    BY Zenon, <2>5 DEF q
<1>3. CASE ~(p.row.rev = 0 \/ (~p.row.deleted /\ h.rev > p.row.rev))
  <2>1. FoldRule(p, h) = p
    BY Zenon, <1>3 DEF FoldRule
  <2> QED
    BY <1>1, <1>3, <2>1 DEF ProjStep
<1> QED
  BY Zenon, <1>2, <1>3

(* tombstone_monitor() at the revision of a deleted head.                    *)
LEMMA TombstoneStep ==
  ASSUME NEW p, NEW lg, NEW hd \in RuleHead, NEW sh, ProjOK(p, lg, hd, sh),
         hd.deleted, hd.rev > 0, NEW rev, rev = hd.rev
  PROVE  /\ ProjStep(p, TombstoneMonitor(p, rev), lg, hd, sh)
         /\ TombstoneMonitor(p, rev).row.deleted
         /\ TombstoneMonitor(p, rev).row.rev = rev
<1> DEFINE q == TombstoneMonitor(p, rev)
<1>1. /\ p \in ProjType /\ p.row \in RuleHead /\ p.row.rev \in Nat /\ hd.rev \in Nat
      /\ RowOK(p.row, lg, hd) /\ p.row.rev <= hd.rev
      /\ p.row.deleted => p.row.rev = hd.rev
  BY Zenon DEF ProjOK, RowOK, HeadOK, ProjType, RuleHead
<1>2. NoState \in AlertStates /\ StateOK(NoState, sh)
  BY Zenon, NothingTypes DEF StateOK
<1>3. CASE p.row.deleted
  <2>1. q = [p EXCEPT !.state = NoState]
    BY Zenon, <1>3 DEF TombstoneMonitor
  <2>2. q \in ProjType /\ q.row = p.row /\ q.fresh = p.fresh /\ q.state = NoState
    BY Zenon, <1>1, <1>2, <2>1 DEF ProjType
  <2> HIDE DEF q
  <2>3. ProjStep(p, q, lg, hd, sh) /\ q.row.deleted /\ q.row.rev = rev
    BY Zenon, <1>1, <1>2, <1>3, <2>2 DEF ProjStep, ProjOK
  <2> QED
    BY Zenon, <2>3 DEF q
<1>4. CASE ~p.row.deleted
  <2> DEFINE h == [rev |-> rev, cmd |-> NoCmd, deleted |-> TRUE]
  <2>0. (IF rev > p.row.rev THEN rev ELSE p.row.rev) = rev
    BY <1>1
  <2>1. q = [row |-> h, fresh |-> TRUE, state |-> NoState]
    BY Zenon, <1>4, <2>0 DEF TombstoneMonitor
  <2>2. h \in RuleHead /\ h.rev = rev /\ h.deleted = TRUE
    BY Zenon, <1>1 DEF RuleHead
  <2> HIDE DEF h
  <2>3. RowOK(h, lg, hd)
    BY <1>1, <2>2 DEF RowOK, HeadOK
  <2>4. q \in ProjType /\ q.row = h /\ q.fresh = TRUE /\ q.state = NoState
    BY <1>2, <2>1, <2>2 DEF ProjType
  <2> HIDE DEF q
  <2>5. ProjStep(p, q, lg, hd, sh) /\ q.row.deleted /\ q.row.rev = rev
    BY Zenon, <1>1, <1>2, <2>2, <2>3, <2>4 DEF ProjStep, ProjOK
  <2> QED
    BY Zenon, <2>5 DEF q
<1> QED
  BY Zenon, <1>3, <1>4

(* fold_state() with a state the head covers.                                *)
LEMMA FoldStateStep ==
  ASSUME NEW p, NEW lg, NEW hd \in RuleHead, NEW sh, ProjOK(p, lg, hd, sh),
         NEW s, StateOK(s, sh)
  PROVE  ProjStep(p, FoldState(p, s), lg, hd, sh)
<1> DEFINE q == FoldState(p, s)
<1>1. p \in ProjType /\ RowOK(p.row, lg, hd) /\ p.row.rev \in Nat /\ s \in AlertStates
  BY Zenon DEF ProjOK, ProjType, RuleHead, StateOK
<1>2. q = p \/ q = [p EXCEPT !.state = s]
  BY Zenon DEF FoldState
<1>3. /\ q \in ProjType /\ q.row = p.row /\ q.fresh = p.fresh
      /\ q.state = p.state \/ q.state = s
  BY Zenon, <1>1, <1>2 DEF ProjType
<1> HIDE DEF q
<1>4. ProjStep(p, q, lg, hd, sh)
  BY <1>1, <1>3 DEF ProjStep, ProjOK
<1> QED
  BY Zenon, <1>4 DEF q

(* prune_monitors() of a row that is absent or was folded after the epoch.   *)
LEMMA PruneStep ==
  ASSUME NEW p, NEW lg, NEW hd \in RuleHead, NEW sh, ProjOK(p, lg, hd, sh),
         p.row.rev = 0 \/ p.fresh
  PROVE  ProjStep(p, PruneMonitors(p), lg, hd, sh)
<1>1. p \in ProjType /\ RowOK(p.row, lg, hd) /\ p.row.rev \in Nat /\ p.fresh \in BOOLEAN
  BY Zenon DEF ProjOK, ProjType, RuleHead
<1>2. CASE p.fresh
  <2>1. PruneMonitors(p) = p
    BY Zenon, <1>2 DEF PruneMonitors
  <2>2. ProjStep(p, p, lg, hd, sh)
    BY <1>1, <1>2 DEF ProjStep
  <2> QED
    BY Zenon, <2>1, <2>2
<1>3. CASE ~p.fresh
  <2>1. p.row = NoHead
    BY Zenon, <1>1, <1>3 DEF RowOK, HeadOK
  <2>2. NoProj.row = NoHead /\ NoProj.fresh = FALSE /\ NoProj.state = NoState
    BY Zenon DEF NoProj
  <2>3. ProjOK(NoProj, lg, hd, sh)
    BY Zenon, <1>1, <2>1, <2>2, NothingTypes DEF ProjOK, StateOK
  <2>4. p.fresh = NoProj.fresh
    BY Zenon, <1>1, <1>3, <2>2
  <2>5. NoProj.row.rev >= p.row.rev /\ (p.row.deleted => NoProj.row.deleted)
    BY <1>1, <2>1, <2>2
  <2>6. ProjStep(p, NoProj, lg, hd, sh)
    BY Zenon, <2>1, <2>2, <2>3, <2>4, <2>5 DEF ProjStep
  <2> QED
    BY Zenon, <1>3, <2>6 DEF PruneMonitors
<1> QED
  BY Zenon, <1>1, <1>2, <1>3

(* Two folds in one transaction.                                             *)
LEMMA TwoSteps ==
  ASSUME NEW p \in ProjType, NEW q \in ProjType, NEW r \in ProjType, NEW lg, NEW hd, NEW sh,
         ProjStep(p, q, lg, hd, sh), ProjStep(q, r, lg, hd, sh)
  PROVE  ProjStep(p, r, lg, hd, sh)
<1>1. p.row.rev \in Nat /\ q.row.rev \in Nat /\ r.row.rev \in Nat
  BY Zenon DEF ProjType, RuleHead
<1> QED
  BY <1>1 DEF ProjStep

-----------------------------------------------------------------------------
(* The rule head and the commands it took.                                   *)

(* The head a command writes.                                                *)
LEMMA HeadOfFacts ==
  ASSUME NEW c \in Cmd
  PROVE  /\ HeadOf(c) \in RuleHead /\ HeadOf(c).rev = RevOf[c] /\ HeadOf(c).cmd = c
         /\ HeadOf(c).deleted <=> c \in Deletes
         /\ RevOf[c] \in Nat /\ RevOf[c] > 0
         /\ c \in Puts <=> c \notin Deletes
<1>1. RevOf[c] \in Nat /\ RevOf[c] > 0
  BY AlertsAssumption
<1>2. HeadOf(c) = [rev |-> RevOf[c], cmd |-> c, deleted |-> c \in Deletes]
  BY Zenon DEF HeadOf
<1>3. (c \in Deletes) \in BOOLEAN
  OBVIOUS
<1>4. HeadOf(c) \in RuleHead
  BY <1>1, <1>2, <1>3 DEF RuleHead
<1>5. HeadOf(c).rev = RevOf[c] /\ HeadOf(c).cmd = c
  BY <1>2
<1>6. HeadOf(c).deleted <=> c \in Deletes
  <2>1. CASE c \in Deletes
    <3>1. HeadOf(c) = [rev |-> RevOf[c], cmd |-> c, deleted |-> TRUE]
      BY Zenon, <2>1 DEF HeadOf
    <3> QED
      BY <2>1, <3>1
  <2>2. CASE c \notin Deletes
    <3>1. (c \in Deletes) = FALSE
      BY <2>2
    <3>2. HeadOf(c) = [rev |-> RevOf[c], cmd |-> c, deleted |-> FALSE]
      BY Zenon, <1>2, <3>1, Zenon
    <3> QED
      BY <2>2, <3>2
  <2> QED
    BY Zenon, <2>1, <2>2
<1>7. c \in Puts <=> c \notin Deletes
  BY Zenon, AlertsAssumption DEF Cmd
<1> QED
  BY Zenon, <1>1, <1>4, <1>5, <1>6, <1>7

(* The head is the last command's; commands it took are told apart by their  *)
(* revisions.                                                                *)
LEMMA LogFacts ==
  ASSUME BucketTypes, RuleInv
  PROVE  /\ HeadOK(head, log) /\ head.rev \in Nat
         /\ \A c \in Puts : In(log, c) => RevOf[c] <= head.rev
         /\ \A c \in Deletes : In(log, c) => head = HeadOf(c)
         /\ \A c, d \in Puts : In(log, c) /\ In(log, d) /\ RevOf[c] = RevOf[d] => c = d
         /\ ~head.deleted => head.rev = Len(log) /\ \A k \in 1..Len(log) : log[k] \in Puts
         /\ head.deleted => head.rev > 0
<1>1. log \in Seq(Cmd) /\ Len(log) \in Nat /\ \A k \in 1..Len(log) : log[k] \in Cmd
  BY DEF BucketTypes
<1>2. \A k \in 1..Len(log) : /\ log[k] \in Puts => RevOf[log[k]] = k
                             /\ log[k] \notin Puts => k = Len(log) /\ RevOf[log[k]] + 1 = k
  BY Zenon DEF RuleInv
<1>3. \A c \in Cmd : /\ RevOf[c] \in Nat /\ RevOf[c] > 0
                     /\ c \in Puts <=> c \notin Deletes
  BY Zenon, HeadOfFacts
<1>4. \A c, d \in Puts : In(log, c) /\ In(log, d) /\ RevOf[c] = RevOf[d] => c = d
  BY Zenon, <1>2 DEF In
<1>5. CASE log = <<>>
  <2>1. head = NoHead /\ Len(log) = 0
    BY Zenon, <1>5 DEF RuleInv
  <2>2. \A c : ~In(log, c)
    BY <2>1 DEF In
  <2>3. head.rev = 0 /\ head.deleted = FALSE
    BY Zenon, <2>1 DEF NoHead
  <2>4. HeadOK(head, log)
    BY <2>1, <2>3, NothingTypes DEF HeadOK
  <2> QED
    BY <1>4, <2>1, <2>2, <2>3, <2>4
<1>6. CASE log # <<>>
  <2> DEFINE n == Len(log)
             e == log[n]
  <2>1. n \in 1..Len(log) /\ e \in Cmd
    BY <1>1, <1>6
  <2>2. head = HeadOf(e)
    BY Zenon, <1>6 DEF RuleInv
  <2>3. head \in RuleHead /\ head.rev = RevOf[e] /\ head.cmd = e /\ (head.deleted <=> e \in Deletes)
    BY Zenon, <2>1, <2>2, HeadOfFacts
  <2>4. In(log, e)
    BY Zenon, <2>1 DEF In
  <2>5. head.rev > 0 /\ head.rev \in Nat
    BY Zenon, <1>3, <2>1, <2>3
  <2>6. HeadOK(head, log)
    BY <1>3, <2>1, <2>3, <2>4, <2>5 DEF HeadOK
  <2>7. \A c \in Puts : In(log, c) => RevOf[c] <= head.rev
    <3>1. SUFFICES ASSUME NEW c \in Puts, NEW k \in 1..Len(log), log[k] = c
                   PROVE  RevOf[c] <= head.rev
      BY Zenon DEF In
    <3>2. RevOf[c] = k
      BY Zenon, <1>2, <3>1
    <3>3. CASE e \in Puts
      BY <1>2, <2>1, <2>3, <3>2, <3>3
    <3>4. CASE e \notin Puts
      <4>1. k # n
        BY Zenon, <3>1, <3>4
      <4>2. RevOf[e] + 1 = n
        BY Zenon, <1>2, <2>1, <3>4
      <4> QED
        BY <1>1, <1>3, <2>1, <2>3, <3>2, <4>1, <4>2
    <3> QED
      BY Zenon, <3>3, <3>4
  <2>8. \A c \in Deletes : In(log, c) => head = HeadOf(c)
    BY Zenon, <1>1, <1>2, <1>3, <2>2 DEF In, Cmd
  <2>9. ~head.deleted => head.rev = Len(log) /\ \A k \in 1..Len(log) : log[k] \in Puts
    BY Zenon, <1>1, <1>2, <1>3, <2>1, <2>3
  <2> QED
    BY Zenon, <1>4, <2>5, <2>6, <2>7, <2>8, <2>9
<1> QED
  BY Zenon, <1>5, <1>6

(* A command's head, once the rule head took it, is a row that may be folded.*)
LEMMA TakenRow ==
  ASSUME BucketTypes, RuleInv, NEW c \in Puts, In(log, c)
  PROVE  RowOK(HeadOf(c), log, head) /\ ~HeadOf(c).deleted
<1>1. c \in Cmd
  BY Zenon DEF Cmd
<1>2. /\ HeadOf(c) \in RuleHead /\ HeadOf(c).rev = RevOf[c] /\ HeadOf(c).cmd = c
      /\ ~HeadOf(c).deleted /\ RevOf[c] > 0 /\ RevOf[c] \in Nat
  BY Zenon, <1>1, HeadOfFacts
<1>3. RevOf[c] <= head.rev
  BY Zenon, LogFacts
<1> QED
  BY <1>2, <1>3 DEF RowOK, HeadOK

(* So is the head itself.                                                    *)
LEMMA HeadRow ==
  ASSUME BucketTypes, RuleInv
  PROVE  RowOK(head, log, head)
BY LogFacts DEF RowOK

-----------------------------------------------------------------------------
(* The bucket only grows: commands are added, the heads move up, transition  *)
(* records stay.  What an instance has read stays true of it.                *)

LogGrows(lg, lg2) == \A c : In(lg, c) => In(lg2, c)
HeadGrows(hd, hd2) ==
  hd \in RuleHead /\ hd2 \in RuleHead /\ hd.rev <= hd2.rev /\ (hd.deleted => hd2 = hd)
StateGrows(sh, sh2) ==
  /\ sh \in AlertStates /\ sh2 \in AlertStates
  /\ sh2 = sh \/ ~Covers(sh, sh2.revision, sh2.slot)
Grows ==
  /\ LogGrows(log, log') /\ HeadGrows(head, head')
  /\ StateGrows(shead.state, shead'.state) /\ trans \subseteq trans'

(* A row that was not ahead of the rule head never is.                       *)
LEMMA RowKept ==
  ASSUME NEW lg, NEW lg2, NEW hd, NEW hd2, LogGrows(lg, lg2), HeadGrows(hd, hd2),
         NEW h, RowOK(h, lg, hd)
  PROVE  RowOK(h, lg2, hd2)
<1>1. h.rev \in Nat /\ hd.rev \in Nat /\ hd2.rev \in Nat
  BY Zenon DEF RowOK, HeadOK, HeadGrows, RuleHead
<1> QED
  BY <1>1 DEF RowOK, HeadOK, HeadGrows, LogGrows

(* A state that the state head covers stays covered.                         *)
LEMMA StateKept ==
  ASSUME NEW sh, NEW sh2, StateGrows(sh, sh2), NEW s, StateOK(s, sh)
  PROVE  StateOK(s, sh2)
<1>1. s \in AlertStates /\ s.revision \in Nat /\ s.slot \in Nat
  BY Zenon DEF StateOK, AlertStates
<1> QED
  BY Zenon, <1>1, CoversOrder DEF StateOK, StateGrows

(* An instance's projection stays one of the bucket as the bucket grows.     *)
LEMMA ProjKept ==
  ASSUME NEW lg, NEW lg2, NEW hd, NEW hd2, NEW sh, NEW sh2,
         LogGrows(lg, lg2), HeadGrows(hd, hd2), StateGrows(sh, sh2),
         NEW p, ProjOK(p, lg, hd, sh)
  PROVE  ProjOK(p, lg2, hd2, sh2)
BY Zenon, RowKept, StateKept DEF ProjOK

(* What a reconcile has loaded stays good as the bucket grows.               *)
LEMMA RecKept ==
  ASSUME NEW lg, NEW lg2, NEW hd, NEW hd2, NEW sh, NEW sh2,
         LogGrows(lg, lg2), HeadGrows(hd, hd2), StateGrows(sh, sh2),
         NEW r, RecOK(r, lg, hd, sh)
  PROVE  RecOK(r, lg2, hd2, sh2)
<1>1. StateOK(r.state, sh2)
  BY Zenon, StateKept DEF RecOK
<1>2. r.loaded = "live" => RowOK(r.row, lg2, hd2)
  BY Zenon, RowKept DEF RecOK
<1> QED
  BY Zenon, <1>1, <1>2 DEF RecOK, HeadGrows

(* An evaluation's reads stay good as the bucket grows.                      *)
LEMMA JobKept ==
  ASSUME NEW lg, NEW lg2, NEW sh, NEW sh2, NEW tr, NEW tr2,
         LogGrows(lg, lg2), StateGrows(sh, sh2), tr \subseteq tr2,
         NEW j \in JobType, JobOK(j, lg, sh, tr)
  PROVE  JobOK(j, lg2, sh2, tr2)
<1>1. HeadOK(j.rule, lg) => HeadOK(j.rule, lg2)
  BY Zenon DEF HeadOK, LogGrows
<1>2. Chained(j.prior, tr) => Chained(j.prior, tr2)
  BY Zenon DEF Chained
<1>3. j.next \in AlertStates /\ j.next.revision \in Nat /\ j.next.slot \in Nat
  BY Zenon DEF JobType, AlertStates
<1>4. Covers(sh, j.next.revision, j.next.slot) => Covers(sh2, j.next.revision, j.next.slot)
  BY Zenon, <1>3, CoversOrder DEF StateGrows
<1> QED
  BY Zenon, <1>1, <1>2, <1>4 DEF JobOK

(* A command in progress stays good as the history grows.                    *)
LEMMA ReqKept ==
  ASSUME NEW lg, NEW lg2, LogGrows(lg, lg2), NEW c, NEW q, ReqOK(c, q, lg)
  PROVE  ReqOK(c, q, lg2)
BY Zenon DEF ReqOK, LogGrows

(* What the instances keep in memory and in alerts.sqlite stays right.       *)
LEMMA MemoryKept ==
  ASSUME Memory, Grows
  PROVE  /\ \A i \in Inst : /\ ProjOK(proj[i], log', head', shead'.state)
                            /\ RecOK(rec[i], log', head', shead'.state)
                            /\ JobOK(job[i], log', shead'.state, trans')
         /\ \A c \in Cmd : ReqOK(c, req[c], log') /\ (acked[c] # Nobody => In(log', c))
<1>1. /\ LogGrows(log, log') /\ HeadGrows(head, head')
      /\ StateGrows(shead.state, shead'.state) /\ trans \subseteq trans'
  BY Zenon DEF Grows
<1>2. \A i \in Inst : ProjOK(proj[i], log, head, shead.state)
  BY Zenon DEF Memory, MemTypes, Projections, ProjOK
<1>3. \A i \in Inst : ProjOK(proj[i], log', head', shead'.state)
  BY Zenon, <1>1, <1>2, ProjKept
<1>4. \A i \in Inst : RecOK(rec[i], log, head, shead.state)
  BY Zenon DEF Memory, Reconciles
<1>5. \A i \in Inst : RecOK(rec[i], log', head', shead'.state)
  BY Zenon, <1>1, <1>4, RecKept
<1>6. \A i \in Inst : job[i] \in JobType /\ JobOK(job[i], log, shead.state, trans)
  BY Zenon DEF Memory, MemTypes, Jobs
<1>7. \A i \in Inst : JobOK(job[i], log', shead'.state, trans')
  BY Zenon, <1>1, <1>6, JobKept
<1>8. \A c \in Cmd : ReqOK(c, req[c], log')
  BY Zenon, <1>1, ReqKept DEF Memory, Requests
<1>9. \A c \in Cmd : acked[c] # Nobody => In(log', c)
  BY Zenon, <1>1 DEF Memory, Answered, LogGrows
<1> QED
  BY Zenon, <1>3, <1>5, <1>7, <1>8, <1>9

(* An instance's projection moves up, its tasks go on as they may.           *)
LEMMA MemoryMove ==
  ASSUME Memory, Grows, NEW i \in Inst, NEW p, NEW j \in JobType, NEW r \in RecType,
         proj' = [proj EXCEPT ![i] = p], job' = [job EXCEPT ![i] = j],
         rec' = [rec EXCEPT ![i] = r], req' = req, acked' = acked,
         ProjOK(p, log', head', shead'.state), p.row.rev >= proj[i].row.rev,
         proj[i].row.deleted => p.row.deleted,
         JobOK(j, log', shead'.state, trans'),
         RecOK(r, log', head', shead'.state), Unseen(r, p)
  PROVE  Memory'
<1>1. MemTypes
  BY Zenon DEF Memory
<1>2. p \in ProjType
  BY Zenon DEF ProjOK
<1>3. MemTypes'
  BY Zenon, <1>1, <1>2 DEF MemTypes
<1>4. \A k \in Inst : /\ proj'[k] = IF k = i THEN p ELSE proj[k]
                      /\ job'[k] = IF k = i THEN j ELSE job[k]
                      /\ rec'[k] = IF k = i THEN r ELSE rec[k]
  BY Zenon, <1>1 DEF MemTypes
<1>5. Requests' /\ Answered'
  BY Zenon, MemoryKept DEF Requests, Answered
<1>6. \A k \in Inst : ProjOK(proj'[k], log', head', shead'.state)
  BY Zenon, <1>4, MemoryKept
<1>7. Projections'
  BY Zenon, <1>6 DEF Projections, ProjOK
<1>8. \A k \in Inst : RecOK(rec'[k], log', head', shead'.state)
  BY Zenon, <1>4, MemoryKept
<1>9. \A k \in Inst : Unseen(rec[k], proj[k])
  BY Zenon DEF Memory, Reconciles
<1>10. \A k \in Inst : Unseen(rec'[k], proj'[k])
  BY <1>4, <1>9
<1>11. Reconciles'
  BY Zenon, <1>8, <1>10 DEF Reconciles
<1>12. \A k \in Inst : JobOK(job'[k], log', shead'.state, trans')
  BY Zenon, <1>4, MemoryKept
<1>13. Jobs'
  BY Zenon, <1>12 DEF Jobs
<1>14. Acks'
  <2>1. SUFFICES ASSUME NEW c \in Cmd, acked[c] # Nobody
                 PROVE  Kept1(c, proj'[acked[c]])
    BY Zenon DEF Acks
  <2>2. acked[c] \in Inst /\ Kept1(c, proj[acked[c]])
    BY Zenon, <1>1, <2>1 DEF Memory, Acks, MemTypes
  <2>3. CASE acked[c] = i
    <3>1. proj'[acked[c]] = p /\ Kept1(c, proj[i])
      BY Zenon, <1>4, <2>2, <2>3
    <3>2. p.row.rev \in Nat /\ proj[i].row.rev \in Nat /\ RevOf[c] \in Nat
      BY Zenon, <1>1, <1>2, AlertsAssumption DEF MemTypes, ProjType, RuleHead
    <3> QED
      BY <3>1, <3>2 DEF Kept1
  <2>4. CASE acked[c] # i
    BY <1>4, <2>2, <2>4
  <2> QED
    BY Zenon, <2>3, <2>4
<1> QED
  BY Zenon, <1>3, <1>5, <1>7, <1>11, <1>13, <1>14 DEF Memory

(* An evaluation folds what it learned: a running reconciliation keeps the   *)
(* row.                                                                      *)
LEMMA FoldMove ==
  ASSUME Memory, Grows, NEW i \in Inst, NEW p, NEW j \in JobType,
         proj' = [proj EXCEPT ![i] = p], job' = [job EXCEPT ![i] = j],
         rec' = rec, req' = req, acked' = acked,
         ProjStep(proj[i], p, log', head', shead'.state),
         JobOK(j, log', shead'.state, trans')
  PROVE  Memory'
<1>1. rec' = [rec EXCEPT ![i] = rec[i]] /\ rec[i] \in RecType
  BY Zenon DEF Memory, MemTypes
<1>2. RecOK(rec[i], log', head', shead'.state)
  BY Zenon, MemoryKept
<1>3. Unseen(rec[i], proj[i])
  BY Zenon DEF Memory, Reconciles
<1>4. Unseen(rec[i], p)
  BY Zenon, <1>3 DEF Unseen, ProjStep
<1>5. /\ ProjOK(p, log', head', shead'.state) /\ p.row.rev >= proj[i].row.rev
      /\ proj[i].row.deleted => p.row.deleted
  BY Zenon DEF ProjStep
<1> QED
  BY Zenon, <1>1, <1>2, <1>4, <1>5, MemoryMove

(* A job goes on without touching the projection.                            *)
LEMMA JobMove ==
  ASSUME Memory, Grows, NEW i \in Inst, NEW j \in JobType,
         job' = [job EXCEPT ![i] = j],
         proj' = proj, rec' = rec, req' = req, acked' = acked,
         JobOK(j, log', shead'.state, trans')
  PROVE  Memory'
<1>1. proj' = [proj EXCEPT ![i] = proj[i]] /\ proj[i] \in ProjType
  BY Zenon DEF Memory, MemTypes
<1>2. ProjOK(proj[i], log', head', shead'.state)
  BY Zenon, MemoryKept
<1>3. proj[i].row.rev \in Nat
  BY Zenon, <1>1 DEF ProjType, RuleHead
<1>4. ProjStep(proj[i], proj[i], log', head', shead'.state)
  BY <1>2, <1>3 DEF ProjStep
<1> QED
  BY Zenon, <1>1, <1>4, FoldMove

(* A job that is idle promises nothing.                                      *)
LEMMA IdleJobOK ==
  ASSUME NEW lg, NEW sh, NEW tr
  PROVE  JobOK(IdleJob, lg, sh, tr) /\ IdleJob \in JobType
BY Zenon, NothingTypes DEF JobOK, IdleJob, Evaluated

(* Neither does an idle reconciliation.                                      *)
LEMMA IdleRecOK ==
  ASSUME NEW lg, NEW hd, NEW sh, NEW p
  PROVE  RecOK(IdleRec, lg, hd, sh) /\ Unseen(IdleRec, p) /\ IdleRec \in RecType
BY Zenon, NothingTypes DEF RecOK, IdleRec, Unseen, StateOK

(* A handler goes on; it may fold the rule head and answer.                  *)
LEMMA AnswerMove ==
  ASSUME Memory, Grows, NEW c \in Cmd, NEW i \in Inst, NEW p, NEW q \in ReqType,
         proj' = [proj EXCEPT ![i] = p], req' = [req EXCEPT ![c] = q],
         job' = job, rec' = rec,
         ProjStep(proj[i], p, log', head', shead'.state), ReqOK(c, q, log'),
         \/ acked' = acked
         \/ acked' = [acked EXCEPT ![c] = i] /\ Kept1(c, p) /\ In(log', c)
  PROVE  Memory'
<1>1. MemTypes
  BY Zenon DEF Memory
<1>2. p \in ProjType
  BY Zenon DEF ProjStep, ProjOK
<1>3. MemTypes'
  BY Zenon, <1>1, <1>2 DEF MemTypes
<1>4. /\ \A k \in Inst : proj'[k] = IF k = i THEN p ELSE proj[k]
      /\ \A d \in Cmd : req'[d] = IF d = c THEN q ELSE req[d]
  BY Zenon, <1>1 DEF MemTypes
<1>5. Requests'
  BY Zenon, <1>4, MemoryKept DEF Requests
<1>6. \A k \in Inst : ProjOK(proj'[k], log', head', shead'.state)
  BY ZenonT(60), <1>4, MemoryKept DEF ProjStep
<1>7. Projections'
  BY Zenon, <1>6 DEF Projections, ProjOK
<1>8. \A k \in Inst : Unseen(rec[k], proj[k])
  BY Zenon DEF Memory, Reconciles
<1>9. Unseen(rec[i], p)
  BY Zenon, <1>8 DEF Unseen, ProjStep
<1>10. \A k \in Inst : Unseen(rec[k], proj'[k])
  BY Zenon, <1>4, <1>8, <1>9
<1>11. Reconciles'
  BY Zenon, <1>10, MemoryKept DEF Reconciles
<1>12. Jobs'
  BY Zenon, MemoryKept DEF Jobs
<1>13. \A d \in Cmd : \/ acked'[d] = acked[d]
                      \/ d = c /\ acked'[d] = i /\ Kept1(c, p) /\ In(log', c)
  BY Zenon, <1>1 DEF MemTypes
<1>14. Answered'
  BY Zenon, <1>13, MemoryKept DEF Answered
<1>15. Acks'
  <2>1. SUFFICES ASSUME NEW d \in Cmd, acked'[d] # Nobody
                 PROVE  Kept1(d, proj'[acked'[d]])
    BY Zenon DEF Acks
  <2>2. CASE acked'[d] # acked[d]
    BY Zenon, <1>4, <1>13, <2>2
  <2>3. CASE acked'[d] = acked[d] /\ acked[d] = i
    <3>1. proj'[acked'[d]] = p /\ Kept1(d, proj[i])
      BY Zenon, <1>1, <1>4, <2>1, <2>3 DEF Memory, Acks
    <3>2. p.row.rev \in Nat /\ proj[i].row.rev \in Nat /\ RevOf[d] \in Nat
      BY Zenon, <1>1, <1>2, AlertsAssumption DEF MemTypes, ProjType, RuleHead
    <3> QED
      BY <3>1, <3>2 DEF Kept1, ProjStep
  <2>4. CASE acked'[d] = acked[d] /\ acked[d] # i
    <3>1. acked[d] \in Inst /\ Kept1(d, proj[acked[d]])
      BY Zenon, <1>1, <2>1, <2>4 DEF Memory, Acks, MemTypes
    <3> QED
      BY <1>4, <2>4, <3>1
  <2> QED
    BY Zenon, <2>2, <2>3, <2>4
<1> QED
  BY Zenon, <1>3, <1>5, <1>7, <1>11, <1>12, <1>14, <1>15 DEF Memory

(* A row that is left alone.                                                 *)
LEMMA ProjStays ==
  ASSUME Memory, Grows, NEW i \in Inst
  PROVE  /\ ProjStep(proj[i], proj[i], log', head', shead'.state)
         /\ proj = [proj EXCEPT ![i] = proj[i]]
<1>1. proj = [proj EXCEPT ![i] = proj[i]] /\ proj[i] \in ProjType
  BY Zenon DEF Memory, MemTypes
<1>2. ProjOK(proj[i], log', head', shead'.state)
  BY Zenon, MemoryKept
<1>3. proj[i].row.rev \in Nat
  BY Zenon, <1>1 DEF ProjType, RuleHead
<1> QED
  BY <1>1, <1>2, <1>3 DEF ProjStep

(* A handler goes on without touching a projection.                          *)
LEMMA RequestMove ==
  ASSUME Memory, Grows, NEW c \in Cmd, NEW q \in ReqType,
         req' = [req EXCEPT ![c] = q], ReqOK(c, q, log'),
         proj' = proj, job' = job, rec' = rec, acked' = acked
  PROVE  Memory'
<1>1. MemTypes
  BY Zenon DEF Memory
<1>2. MemTypes'
  BY Zenon, <1>1 DEF MemTypes
<1>3. \A d \in Cmd : req'[d] = IF d = c THEN q ELSE req[d]
  BY Zenon, <1>1 DEF MemTypes
<1>4. Requests'
  BY Zenon, <1>3, MemoryKept DEF Requests
<1>5. Projections' /\ Reconciles' /\ Jobs' /\ Answered'
  BY Zenon, MemoryKept DEF Memory, Projections, ProjOK, Reconciles, Jobs, Answered
<1>6. Acks'
  BY Zenon DEF Memory, Acks
<1> QED
  BY Zenon, <1>2, <1>4, <1>5, <1>6 DEF Memory

(* An idle handler promises nothing.                                         *)
LEMMA IdleReqOK ==
  ASSUME NEW c, NEW lg
  PROVE  ReqOK(c, IdleReq, lg) /\ IdleReq \in ReqType
BY Zenon, NothingTypes DEF ReqOK, IdleReq

-----------------------------------------------------------------------------
(* What an action that leaves the bucket alone needs not show.               *)

(* Growth is reflexive.                                                      *)
LEMMA NothingGrows ==
  ASSUME BucketTypes
  PROVE  /\ HeadGrows(head, head) /\ StateGrows(shead.state, shead.state)
         /\ LogGrows(log, log)
BY DEF BucketTypes, HeadGrows, StateGrows, LogGrows, RuleHead, StateHead

(* A step that writes no rule and no state object.                           *)
LEMMA SameBucket ==
  ASSUME Bucket, UNCHANGED <<ruleVars, stateVars>>
  PROVE  Bucket' /\ Grows
<1>1. BucketTypes
  BY Zenon DEF Bucket
<1>2. /\ head' = head /\ receipts' = receipts /\ staged' = staged /\ log' = log
      /\ shead' = shead /\ trans' = trans /\ last' = last
  BY Zenon DEF ruleVars, stateVars
<1>3. Grows
  BY Zenon, <1>1, <1>2, NothingGrows DEF Grows
<1>4. BucketTypes' /\ RuleInv' /\ ChainWhole' /\ History'
  BY Zenon, <1>2 DEF Bucket, BucketTypes, RuleInv, ChainWhole, History
<1> QED
  BY Zenon, <1>3, <1>4 DEF Bucket

(* The state head's side of the bucket under a rule mutation.                *)
LEMMA StateSide ==
  ASSUME Bucket, UNCHANGED stateVars, LogGrows(log, log')
  PROVE  ChainWhole' /\ History'
<1>1. shead' = shead /\ trans' = trans /\ last' = last
  BY Zenon DEF stateVars
<1>2. ChainWhole'
  BY Zenon, <1>1 DEF Bucket, ChainWhole
<1>3. HistoryOK(shead, last, log)
  BY Zenon DEF Bucket, History
<1>4. HistoryOK(shead, last, log')
  BY Zenon, <1>3 DEF HistoryOK, LogGrows
<1>5. History'
  BY Zenon, <1>1, <1>4 DEF History
<1> QED
  BY Zenon, <1>2, <1>5

(* A step that leaves the bucket, projections and tasks alone.               *)
LEMMA SameMemory ==
  ASSUME Memory, UNCHANGED <<head, shead, trans, log, proj, job, rec, req, acked>>
  PROVE  Memory'
<1>1. MemTypes' /\ Requests' /\ Projections'
  BY Zenon DEF Memory, MemTypes, Requests, Projections
<1>2. Reconciles' /\ Jobs' /\ Acks' /\ Answered'
  BY Zenon DEF Memory, Reconciles, Jobs, Acks, Answered
<1> QED
  BY Zenon, <1>1, <1>2 DEF Memory

(* One fault less.                                                           *)
LEMMA FewerFaults ==
  ASSUME faults \in Nat, faults > 0, faults' = faults - 1
  PROVE  faults' \in Nat
OBVIOUS

-----------------------------------------------------------------------------
(* Time, leases and crashes.                                                 *)

(* Time passes.                                                              *)
LEMMA TickInv ==
  ASSUME Inv, Tick
  PROVE  Inv'
<1>1. /\ UNCHANGED <<ruleVars, stateVars>>
      /\ UNCHANGED <<head, shead, trans, log, proj, job, rec, req, acked>>
  BY Zenon DEF Tick, ruleVars, stateVars, ctlVars
<1>2. Bucket' /\ Memory'
  BY Zenon, <1>1, SameBucket, SameMemory DEF Inv
<1>3. EnvTypes'
  BY DEF Inv, EnvTypes, Tick, ctlVars
<1> QED
  BY Zenon, <1>2, <1>3 DEF Inv

(* A lease expires, or its guard is lost.                                    *)
LEMMA LeaseEndsInv ==
  ASSUME Inv, ExpireLease \/ LoseLease
  PROVE  Inv'
<1>1. /\ UNCHANGED <<ruleVars, stateVars>>
      /\ UNCHANGED <<head, shead, trans, log, proj, job, rec, req, acked>>
  BY Zenon DEF ExpireLease, LoseLease, ruleVars, stateVars, ctlVars
<1>2. Bucket' /\ Memory'
  BY Zenon, <1>1, SameBucket, SameMemory DEF Inv
<1>3. EnvTypes'
  BY Zenon, FewerFaults DEF Inv, EnvTypes, ExpireLease, LoseLease, clock, ctlVars
<1> QED
  BY Zenon, <1>2, <1>3 DEF Inv

(* A crash forgets tasks and handlers; the projection file stays.            *)
LEMMA CrashInv ==
  ASSUME Inv, NEW i \in Inst, Crash(i)
  PROVE  Inv'
<1>1. /\ UNCHANGED <<ruleVars, stateVars>> /\ proj' = proj /\ acked' = acked
      /\ head' = head /\ shead' = shead /\ trans' = trans /\ log' = log
      /\ job' = [job EXCEPT ![i] = IdleJob] /\ rec' = [rec EXCEPT ![i] = IdleRec]
      /\ req' = [c \in Cmd |-> IF req[c].at = i THEN IdleReq ELSE req[c]]
  BY Zenon DEF Crash, ruleVars, stateVars
<1>2. Bucket' /\ Memory /\ MemTypes
  BY Zenon, <1>1, SameBucket DEF Inv, Memory
<1>3. MemTypes'
  BY Zenon, <1>1, <1>2, NothingTypes DEF MemTypes
<1>4. \A k \in Inst : /\ job'[k] = IF k = i THEN IdleJob ELSE job[k]
                      /\ rec'[k] = IF k = i THEN IdleRec ELSE rec[k]
  BY Zenon, <1>1, <1>2 DEF MemTypes
<1>5. \A c \in Cmd : req'[c] = IdleReq \/ req'[c] = req[c]
  BY Zenon, <1>1
<1>6. Requests'
  BY Zenon, <1>1, <1>2, <1>5, IdleReqOK DEF Memory, Requests
<1>7. Projections' /\ Acks' /\ Answered'
  BY Zenon, <1>1, <1>2 DEF Memory, Projections, Acks, Answered
<1>8. Reconciles'
  BY <1>1, <1>2, <1>4, IdleRecOK DEF Memory, Reconciles
<1>9. Jobs'
  BY <1>1, <1>2, <1>4, IdleJobOK DEF Memory, Jobs
<1>10. EnvTypes'
  BY Zenon, FewerFaults DEF Inv, EnvTypes, Crash, clock
<1> QED
  BY Zenon, <1>2, <1>3, <1>6, <1>7, <1>8, <1>9, <1>10 DEF Inv, Memory

-----------------------------------------------------------------------------
(* Evaluation.                                                               *)

(* The due slot of a rule is a slot.                                         *)
LEMMA DueSlotsType ==
  ASSUME NEW rule \in Rule, NEW t \in Nat
  PROVE  DueSlots(rule, t) \subseteq Nat
<1>1. rule.every_seconds \in Nat /\ rule.every_seconds > 0
  BY DEF Rule
<1>2. (t \div rule.every_seconds) \in Int
  BY <1>1
<1> QED
  BY <1>2 DEF DueSlots

(* What the job's rule is.                                                   *)
LEMMA JobRule ==
  ASSUME NEW j, NEW lg, NEW sh, NEW tr, JobOK(j, lg, sh, tr), j.pc # "idle"
  PROVE  /\ j.rule.cmd \in Puts /\ In(lg, j.rule.cmd) /\ RevOf[j.rule.cmd] = j.rule.rev
         /\ RuleOf[j.rule.cmd] \in Rule
BY Zenon, AlertsAssumption DEF JobOK, HeadOK

(* The scheduler queues the due slot of an enabled rule.                     *)
LEMMA DispatchInv ==
  ASSUME Inv, NEW i \in Inst, Dispatch(i)
  PROVE  Inv'
<1>1. /\ UNCHANGED <<ruleVars, stateVars>> /\ proj' = proj /\ acked' = acked
      /\ rec' = rec /\ req' = req
  BY Zenon DEF Dispatch, ctlVars
<1>2. Bucket' /\ Memory /\ MemTypes /\ Grows
  BY Zenon, <1>1, SameBucket DEF Inv, Memory
<1>3. proj[i] \in ProjType /\ RowOK(proj[i].row, log, head)
  BY Zenon, <1>2 DEF Memory, MemTypes, Projections
<1>4. /\ proj[i].row \in RuleHead /\ HeadOK(proj[i].row, log) /\ proj[i].row.rev > 0
      /\ ~proj[i].row.deleted
  BY Zenon, <1>3 DEF ProjType, RowOK, Dispatch
<1>5. RuleOf[proj[i].row.cmd] \in Rule
  BY Zenon, <1>4, AlertsAssumption DEF HeadOK
<1>6. PICK n \in DueSlots(RuleOf[proj[i].row.cmd], now) :
        job' = [job EXCEPT ![i] = [IdleJob EXCEPT !.pc = "queued",
                                     !.rule = proj[i].row, !.slot = n]]
  BY Zenon DEF Dispatch
<1>7. n \in Nat
  BY Zenon, <1>5, <1>6, DueSlotsType DEF Inv, EnvTypes
<1> DEFINE j == [IdleJob EXCEPT !.pc = "queued", !.rule = proj[i].row, !.slot = n]
<1>8. j \in JobType /\ j.pc = "queued" /\ j.rule = proj[i].row
  BY Zenon, <1>4, <1>7, NothingTypes DEF JobType, IdleJob
<1>9. log' = log
  BY Zenon, <1>1 DEF ruleVars
<1>10. job' = [job EXCEPT ![i] = j]
  BY Zenon, <1>6
<1> HIDE DEF j
<1>11. JobOK(j, log', shead'.state, trans')
  BY Zenon, <1>4, <1>8, <1>9 DEF JobOK, Evaluated
<1>12. Memory'
  BY Zenon, <1>1, <1>2, <1>8, <1>10, <1>11, JobMove
<1>13. EnvTypes'
  BY Zenon DEF Inv, EnvTypes, Dispatch, clock, ctlVars
<1> QED
  BY Zenon, <1>2, <1>12, <1>13 DEF Inv

(* The state head covers itself.                                             *)
LEMMA StateHeadOK ==
  ASSUME BucketTypes
  PROVE  shead.state \in AlertStates /\ StateOK(shead.state, shead.state)
BY DEF BucketTypes, StateHead, StateOK, Covers, AlertStates

(* An evaluation ends with the durable head folded.                          *)
LEMMA EndFold ==
  ASSUME Bucket, Memory, NEW i \in Inst, NEW p,
         UNCHANGED <<ruleVars, stateVars>>, rec' = rec, req' = req, acked' = acked,
         job' = [job EXCEPT ![i] = IdleJob], proj' = [proj EXCEPT ![i] = p],
         ProjStep(proj[i], p, log, head, shead.state)
  PROVE  Memory'
<1>1. Grows /\ log' = log /\ head' = head /\ shead' = shead
  BY Zenon, SameBucket DEF ruleVars, stateVars
<1> QED
  BY Zenon, <1>1, IdleJobOK, FoldMove

(* Or with the projection as it was.                                         *)
LEMMA EndPlain ==
  ASSUME Memory, Grows, NEW i \in Inst, rec' = rec, req' = req, acked' = acked,
         job' = [job EXCEPT ![i] = IdleJob], proj' = proj
  PROVE  Memory'
BY Zenon, IdleJobOK, JobMove

(* rule_is_current: the job goes on, or a newer or deleted rule is folded.   *)
LEMMA CurrentMove ==
  ASSUME Bucket, Memory, NEW i \in Inst, NEW pc, RuleIsCurrent(i, pc),
         UNCHANGED <<ruleVars, stateVars>>, rec' = rec, req' = req, acked' = acked,
         NEW j \in JobType, j = [job[i] EXCEPT !.pc = pc],
         JobOK(j, log, shead.state, trans)
  PROVE  Memory' /\ lease' \in Inst \cup {Nobody}
<1>1. BucketTypes /\ RuleInv /\ MemTypes /\ head \in RuleHead
  BY Zenon DEF Bucket, BucketTypes, Memory
<1>2. Grows /\ log' = log /\ head' = head /\ shead' = shead /\ trans' = trans
  BY Zenon, SameBucket DEF ruleVars, stateVars
<1>3. ProjOK(proj[i], log, head, shead.state)
  BY Zenon, <1>2, MemoryKept
<1>4. CASE head.deleted /\ job' = [job EXCEPT ![i] = IdleJob] /\ lease' = Nobody
           /\ proj' = [proj EXCEPT ![i] = TombstoneMonitor(@, head.rev)]
  <2>1. head.rev > 0
    BY Zenon, <1>1, <1>4, LogFacts
  <2>2. ProjStep(proj[i], TombstoneMonitor(proj[i], head.rev), log, head, shead.state)
    BY Zenon, <1>1, <1>3, <1>4, <2>1, TombstoneStep
  <2>3. proj' = [proj EXCEPT ![i] = TombstoneMonitor(proj[i], head.rev)]
    BY Zenon, <1>4
  <2> QED
    BY Zenon, <1>4, <2>2, <2>3, EndFold
<1>5. CASE job' = [job EXCEPT ![i].pc = pc] /\ lease' = i /\ proj' = proj
  <2>1. job' = [job EXCEPT ![i] = j]
    BY Zenon, <1>1, <1>5 DEF MemTypes
  <2> QED
    BY Zenon, <1>2, <1>5, <2>1, JobMove
<1>6. CASE ~head.deleted /\ job' = [job EXCEPT ![i] = IdleJob] /\ lease' = Nobody
           /\ proj' = [proj EXCEPT ![i] = FoldRule(@, head)]
  <2>1. RowOK(head, log, head)
    BY Zenon, <1>1, HeadRow
  <2>2. ProjStep(proj[i], FoldRule(proj[i], head), log, head, shead.state)
    BY Zenon, <1>1, <1>3, <1>6, <2>1, FoldRuleStep
  <2>3. proj' = [proj EXCEPT ![i] = FoldRule(proj[i], head)]
    BY Zenon, <1>6
  <2> QED
    BY Zenon, <1>6, <2>2, <2>3, EndFold
<1> QED
  BY Zenon, <1>4, <1>5, <1>6 DEF RuleIsCurrent

(* A queued evaluation takes the monitor's lease.                            *)
LEMMA AcquireInv ==
  ASSUME Inv, NEW i \in Inst, Acquire(i)
  PROVE  Inv'
<1>1. /\ UNCHANGED <<ruleVars, stateVars>> /\ rec' = rec /\ req' = req /\ acked' = acked
      /\ job[i].pc = "queued"
  BY Zenon DEF Acquire, ctlVars
<1>2. Bucket /\ Memory /\ Bucket' /\ Grows /\ MemTypes
  BY Zenon, <1>1, SameBucket DEF Inv, Memory
<1>3. job[i] \in JobType /\ JobOK(job[i], log, shead.state, trans)
  BY Zenon, <1>2 DEF Memory, MemTypes, Jobs
<1>4. faults' \in Nat /\ now' = now /\ world' = world /\ tries' = tries
  BY Zenon, FewerFaults DEF Inv, EnvTypes, Acquire, clock, ctlVars
<1>5. CASE RuleIsCurrent(i, "state")
  <2> DEFINE j == [job[i] EXCEPT !.pc = "state"]
  <2>1. j \in JobType /\ j.pc = "state" /\ j.rule = job[i].rule
    BY Zenon, <1>3 DEF JobType
  <2> HIDE DEF j
  <2>2. JobOK(j, log, shead.state, trans)
    BY Zenon, <1>1, <1>3, <2>1 DEF JobOK, Evaluated
  <2>3. Memory' /\ lease' \in Inst \cup {Nobody}
    BY Zenon, <1>1, <1>2, <1>5, <2>1, <2>2, CurrentMove DEF j
  <2> QED
    BY Zenon, <1>2, <1>4, <2>3 DEF Inv, EnvTypes
<1>6. CASE job' = [job EXCEPT ![i] = IdleJob] /\ lease' = lease /\ proj' = proj
  <2>1. Memory'
    BY Zenon, <1>1, <1>2, <1>6, EndPlain
  <2> QED
    BY Zenon, <1>2, <1>4, <1>6, <2>1 DEF Inv, EnvTypes
<1> QED
  BY Zenon, <1>5, <1>6 DEF Acquire

(* A job that ends gives its lease back.                                     *)
LEMMA EndLease ==
  ASSUME EnvTypes, NEW i \in Inst, End(i)
  PROVE  lease' \in Inst \cup {Nobody} /\ job' = [job EXCEPT ![i] = IdleJob]
BY Zenon DEF End, EnvTypes

(* The evaluation reads the state head and queries.                          *)
LEMMA ReadStateAndQueryInv ==
  ASSUME Inv, NEW i \in Inst, ReadStateAndQuery(i)
  PROVE  Inv'
<1>1. /\ UNCHANGED <<ruleVars, stateVars>> /\ rec' = rec /\ req' = req /\ acked' = acked
      /\ job[i].pc = "state" /\ now' = now /\ world' = world /\ tries' = tries
      /\ faults' = faults
  BY Zenon DEF ReadStateAndQuery, ctlVars, clock
<1>2. Bucket /\ Memory /\ Bucket' /\ Grows /\ MemTypes /\ BucketTypes /\ EnvTypes
  BY Zenon, <1>1, SameBucket DEF Inv, Memory, Bucket
<1>3. job[i] \in JobType /\ JobOK(job[i], log, shead.state, trans)
  BY Zenon, <1>2 DEF Memory, MemTypes, Jobs
<1>4. log' = log /\ head' = head /\ shead' = shead /\ trans' = trans
  BY Zenon, <1>1 DEF ruleVars, stateVars
<1> DEFINE j == job[i]
           rule == RuleOf[j.rule.cmd]
<1>5. CASE /\ proj' = [proj EXCEPT ![i] = FoldState(@, shead.state)]
           /\ End(i)
  <2>1. ProjOK(proj[i], log, head, shead.state)
    BY Zenon, <1>2, <1>4, MemoryKept
  <2>2. ProjStep(proj[i], FoldState(proj[i], shead.state), log, head, shead.state)
    BY Zenon, <1>2, <2>1, FoldStateStep, StateHeadOK DEF BucketTypes
  <2>3. proj' = [proj EXCEPT ![i] = FoldState(proj[i], shead.state)]
    BY Zenon, <1>5
  <2>4. lease' \in Inst \cup {Nobody} /\ job' = [job EXCEPT ![i] = IdleJob]
    BY Zenon, <1>2, <1>5, EndLease
  <2>5. Memory'
    BY Zenon, <1>1, <1>2, <2>2, <2>3, <2>4, EndFold
  <2> QED
    BY Zenon, <1>1, <1>2, <2>4, <2>5 DEF Inv, EnvTypes
<1>6. ASSUME ~Covers(shead.state, j.rule.rev, j.slot), lease' = lease, proj' = proj,
             NEW o \in IF rule.enabled THEN world.outcomes ELSE {"no_data"},
             job' = [job EXCEPT ![i].pc = "recheck", ![i].prior = shead, ![i].outcome = o,
                       ![i].next = Evaluate(rule, j.rule.rev, shead.state, o, j.slot,
                                            SlotEnd(rule, j.slot))]
      PROVE  Inv'
  <2> DEFINE nx == Evaluate(rule, j.rule.rev, shead.state, o, j.slot, SlotEnd(rule, j.slot))
             k  == [j EXCEPT !.pc = "recheck", !.prior = shead, !.outcome = o, !.next = nx]
  <2>1. o \in Outcome
    BY Zenon, <1>2, <1>6, AlertsAssumption DEF EnvTypes, Outcome
  <2>2. /\ rule \in Rule /\ j.rule.rev \in Nat /\ j.slot \in Nat
        /\ shead.state \in AlertStates /\ shead \in StateHead
    BY Zenon, <1>1, <1>2, <1>3, JobRule, StateHeadOK DEF JobType, RuleHead, BucketTypes
  <2>3. SlotEnd(rule, j.slot) \in Nat
    BY <2>2, SlotEndMonotone
  <2>4. nx \in AlertStates
    BY <1>6, <2>1, <2>2, <2>3, EvaluateFacts
  <2> HIDE DEF nx
  <2>5. /\ k \in JobType /\ k.pc = "recheck" /\ k.prior = shead /\ k.outcome = o
        /\ k.next = nx /\ k.rule = j.rule /\ k.slot = j.slot
    BY Zenon, <1>3, <2>1, <2>2, <2>4 DEF JobType
  <2>6. job' = [job EXCEPT ![i] = k]
    BY Zenon, <1>2, <1>6 DEF MemTypes, nx
  <2>7. Chained(shead, trans)
    BY Zenon, <1>2 DEF Bucket, ChainWhole, Chained
  <2> HIDE DEF k
  <2>8. k.next = Evaluate(RuleOf[k.rule.cmd], k.rule.rev, k.prior.state, k.outcome, k.slot,
                          SlotEnd(RuleOf[k.rule.cmd], k.slot))
    BY Zenon, <2>5 DEF nx
  <2>9. JobOK(k, log', shead'.state, trans')
    BY Zenon, <1>1, <1>3, <1>4, <1>6, <2>1, <2>5, <2>7, <2>8 DEF JobOK, Evaluated
  <2>10. Memory'
    BY Zenon, <1>1, <1>2, <1>6, <2>5, <2>6, <2>9, JobMove
  <2> QED
    BY Zenon, <1>1, <1>2, <1>6, <2>10 DEF Inv, EnvTypes
<1> QED
  BY Zenon, <1>5, <1>6 DEF ReadStateAndQuery

(* An evaluated job: what its next state is.                                 *)
LEMMA NextFacts ==
  ASSUME NEW j \in JobType, NEW lg, NEW sh, NEW tr, JobOK(j, lg, sh, tr), j.pc \in Evaluated
  PROVE  /\ j.next \in AlertStates /\ j.next.revision = j.rule.rev /\ j.next.slot = j.slot
         /\ j.next.status \in Status /\ j.next.sequence \in Nat
         /\ j.prior.state.sequence \in Nat
         /\ j.next.sequence = j.prior.state.sequence
                              + (IF j.prior.state.status = j.next.status THEN 0 ELSE 1)
         /\ ~Covers(j.prior.state, j.next.revision, j.next.slot)
<1>1. j.pc # "idle"
  BY Zenon DEF Evaluated
<1>2. RuleOf[j.rule.cmd] \in Rule
  BY Zenon, <1>1, JobRule
<1>3. /\ j.rule.rev \in Nat /\ j.slot \in Nat /\ j.prior.state \in AlertStates
      /\ j.next \in AlertStates
  BY Zenon DEF JobType, RuleHead, StateHead
<1>4. SlotEnd(RuleOf[j.rule.cmd], j.slot) \in Nat
  BY <1>2, <1>3, SlotEndMonotone
<1>5. /\ j.outcome \in Outcome /\ ~Covers(j.prior.state, j.rule.rev, j.slot)
      /\ j.next = Evaluate(RuleOf[j.rule.cmd], j.rule.rev, j.prior.state, j.outcome,
                           j.slot, SlotEnd(RuleOf[j.rule.cmd], j.slot))
  BY Zenon DEF JobOK
<1>6. /\ j.next.revision = j.rule.rev /\ j.next.slot = j.slot /\ j.next.status \in Status
      /\ j.next.sequence = j.prior.state.sequence
                           + (IF j.prior.state.status = j.next.status THEN 0 ELSE 1)
  BY SMTT(30), <1>2, <1>3, <1>4, <1>5, EvaluateStep
<1>7. j.next.sequence \in Nat /\ j.prior.state.sequence \in Nat
  BY Zenon, <1>3 DEF AlertStates
<1> QED
  BY Zenon, <1>3, <1>5, <1>6, <1>7

(* The rule is read again before anything is written.                        *)
LEMMA RecheckInv ==
  ASSUME Inv, NEW i \in Inst, Recheck(i)
  PROVE  Inv'
<1>1. /\ UNCHANGED <<ruleVars, stateVars>> /\ rec' = rec /\ req' = req /\ acked' = acked
      /\ job[i].pc = "recheck" /\ now' = now /\ world' = world /\ tries' = tries
      /\ faults' = faults
  BY Zenon DEF Recheck, ctlVars, clock
<1>2. Bucket /\ Memory /\ Bucket' /\ Grows /\ MemTypes /\ EnvTypes
  BY Zenon, <1>1, SameBucket DEF Inv, Memory
<1>3. job[i] \in JobType /\ JobOK(job[i], log, shead.state, trans)
  BY Zenon, <1>2 DEF Memory, MemTypes, Jobs
<1> DEFINE pc == IF job[i].next.status = job[i].prior.state.status THEN "head" ELSE "trans"
<1>4. CASE End(i) /\ proj' = proj
  <2>1. lease' \in Inst \cup {Nobody} /\ job' = [job EXCEPT ![i] = IdleJob]
    BY Zenon, <1>2, <1>4, EndLease
  <2>2. Memory'
    BY Zenon, <1>1, <1>2, <1>4, <2>1, EndPlain
  <2> QED
    BY Zenon, <1>1, <1>2, <2>1, <2>2 DEF Inv, EnvTypes
<1>5. CASE RuleIsCurrent(i, pc)
  <2> DEFINE j == [job[i] EXCEPT !.pc = pc]
  <2>1. pc \in {"head", "trans"}
    OBVIOUS
  <2>2. /\ j \in JobType /\ j.pc = pc /\ j.rule = job[i].rule /\ j.slot = job[i].slot
        /\ j.prior = job[i].prior /\ j.outcome = job[i].outcome /\ j.next = job[i].next
    BY Zenon, <1>3, <2>1 DEF JobType
  <2>3. /\ j.pc = "head" => j.next.status = j.prior.state.status
        /\ j.pc = "trans" => j.next.status # j.prior.state.status
        /\ j.pc \in {"head", "trans"}
    BY <2>2
  <2> HIDE DEF j, pc
  <2>4. JobOK(j, log, shead.state, trans)
    BY Zenon, <1>1, <1>3, <2>2, <2>3 DEF JobOK, Evaluated
  <2>5. Memory' /\ lease' \in Inst \cup {Nobody}
    BY Zenon, <1>1, <1>2, <1>5, <2>2, <2>4, CurrentMove DEF j
  <2> QED
    BY Zenon, <1>1, <1>2, <2>5 DEF Inv, EnvTypes
<1> QED
  BY Zenon, <1>4, <1>5 DEF Recheck

(* The first PUT of commit_state: the record's predecessor is in the bucket. *)
LEMMA RecordPut ==
  ASSUME Bucket, NEW j \in JobType, JobOK(j, log, shead.state, trans), j.pc = "trans",
         NEW r, r = NewRecord(j), (\A q \in trans : Key(q) # Key(r)) \/ r \in trans,
         trans' = trans \cup {r}, UNCHANGED <<ruleVars, shead, last>>
  PROVE  Bucket' /\ Grows
<1>1. BucketTypes /\ RuleInv /\ ChainWhole /\ History
  BY Zenon DEF Bucket
<1>2. /\ head' = head /\ receipts' = receipts /\ staged' = staged /\ log' = log
      /\ shead' = shead /\ last' = last
  BY Zenon DEF ruleVars
<1>3. Grows
  BY Zenon, <1>1, <1>2, NothingGrows DEF Grows
<1>4. /\ j.next \in AlertStates /\ j.next.sequence = j.prior.state.sequence + 1
      /\ j.prior.state.sequence \in Nat
  BY Zenon, NextFacts DEF Evaluated, JobOK
<1>5. /\ j.prior \in StateHead /\ j.outcome \in Outcome /\ j.prior.latest \in Record
      /\ j.prior.state \in AlertStates /\ Chained(j.prior, trans)
  BY Zenon DEF JobOK, JobType, StateHead, Evaluated
<1>6. /\ r.state = j.next /\ r.previous = j.prior.state.status
      /\ r.previous_key = Key(j.prior.latest)
  BY Zenon DEF NewRecord
<1>7. Key(j.prior.latest) \in Nat \X Nat \X Nat \X (Status \cup {"none"})
  BY Zenon, <1>5 DEF Key, Record, AlertStates
<1>8. r \in Record
  BY Zenon, <1>4, <1>5, <1>7 DEF NewRecord, Record, AlertStates
<1>9. BucketTypes' /\ RuleInv' /\ History'
  BY Zenon, <1>1, <1>2, <1>8 DEF BucketTypes, RuleInv, History
<1>10. \/ r.state.sequence = 1 /\ r.previous_key = Key(NoRecord)
       \/ \E q \in trans : /\ Key(q) = r.previous_key
                           /\ q.state.sequence + 1 = r.state.sequence
                           /\ q.state.status = r.previous
  <2>1. CASE j.prior = NoStateHead
    BY <1>4, <1>6, <2>1 DEF NoStateHead, NoState
  <2>2. CASE j.prior # NoStateHead
    BY Zenon, <1>4, <1>5, <1>6, <2>2 DEF Chained
  <2> QED
    BY Zenon, <2>1, <2>2
<1>11. \A q, s \in trans' : Key(q) = Key(s) => q = s
  BY <1>1 DEF ChainWhole
<1>12. \A s \in trans' :
         \/ s.state.sequence = 1 /\ s.previous_key = Key(NoRecord)
         \/ \E q \in trans' : /\ Key(q) = s.previous_key
                              /\ q.state.sequence + 1 = s.state.sequence
                              /\ q.state.status = s.previous
  BY ZenonT(60), <1>1, <1>10 DEF ChainWhole
<1>13. shead' # NoStateHead =>
         /\ shead'.latest \in trans'
         /\ shead'.latest.state.sequence = shead'.state.sequence
         /\ shead'.latest.state.status = shead'.state.status
  BY Zenon, <1>1, <1>2 DEF ChainWhole
<1>14. ChainWhole'
  BY Zenon, <1>11, <1>12, <1>13 DEF ChainWhole, Key, NoRecord
<1> QED
  BY Zenon, <1>3, <1>9, <1>14 DEF Bucket

(* The transition object is created, or found to exist.                      *)
LEMMA PutTransitionInv ==
  ASSUME Inv, NEW i \in Inst, PutTransition(i)
  PROVE  Inv'
<1> DEFINE j == job[i]
           r == NewRecord(j)
<1>1. /\ UNCHANGED <<ruleVars, shead, last>> /\ rec' = rec /\ req' = req /\ acked' = acked
      /\ proj' = proj /\ j.pc = "trans" /\ now' = now /\ world' = world /\ tries' = tries
  BY Zenon DEF PutTransition, ctlVars, clock
<1>2. Bucket /\ Memory /\ MemTypes /\ EnvTypes
  BY Zenon DEF Inv, Memory
<1>3. j \in JobType /\ JobOK(j, log, shead.state, trans)
  BY Zenon, <1>2 DEF Memory, MemTypes, Jobs
<1>4. faults' \in Nat
  BY Zenon, <1>2, FewerFaults DEF EnvTypes, PutTransition
<1>5. CASE /\ (\A q \in trans : Key(q) # Key(r)) \/ r \in trans
           /\ trans' = trans \cup {r} /\ job' = [job EXCEPT ![i].pc = "head"]
           /\ lease' = lease
  <2> DEFINE k == [j EXCEPT !.pc = "head"]
  <2>1. Bucket' /\ Grows
    BY Zenon, <1>1, <1>2, <1>3, <1>5, RecordPut
  <2>2. /\ k \in JobType /\ k.pc = "head" /\ k.rule = j.rule /\ k.slot = j.slot
        /\ k.prior = j.prior /\ k.outcome = j.outcome /\ k.next = j.next
    BY Zenon, <1>3 DEF JobType
  <2>3. job' = [job EXCEPT ![i] = k]
    BY Zenon, <1>2, <1>5 DEF MemTypes
  <2>4. NewRecord(k) \in trans'
    BY <1>5, <2>2 DEF NewRecord
  <2>5. JobOK(j, log', shead'.state, trans')
    BY Zenon, <1>2, <2>1, MemoryKept
  <2> HIDE DEF k, r
  <2>6. JobOK(k, log', shead'.state, trans')
    BY Zenon, <1>1, <2>2, <2>4, <2>5 DEF JobOK, Evaluated
  <2>7. Memory'
    BY Zenon, <1>1, <1>2, <2>1, <2>2, <2>3, <2>6, JobMove
  <2> QED
    BY Zenon, <1>1, <1>2, <1>4, <1>5, <2>1, <2>7 DEF Inv, EnvTypes
<1>6. ASSUME End(i), Bucket', Grows
      PROVE  Inv'
  <2>1. lease' \in Inst \cup {Nobody} /\ job' = [job EXCEPT ![i] = IdleJob]
    BY Zenon, <1>2, <1>6, EndLease
  <2>2. Memory'
    BY Zenon, <1>1, <1>2, <1>6, <2>1, EndPlain
  <2> QED
    BY Zenon, <1>1, <1>2, <1>4, <1>6, <2>1, <2>2 DEF Inv, EnvTypes
<1>7. CASE End(i) /\ trans' = trans
  <2>1. UNCHANGED <<ruleVars, stateVars>>
    BY Zenon, <1>1, <1>7 DEF stateVars
  <2>2. Bucket' /\ Grows
    BY Zenon, <1>2, <2>1, SameBucket
  <2> QED
    BY Zenon, <1>6, <1>7, <2>2
<1>8. CASE End(i) /\ trans' = trans \cup {r} /\ (\A q \in trans : Key(q) # Key(r))
  <2>1. Bucket' /\ Grows
    BY Zenon, <1>1, <1>2, <1>3, <1>8, RecordPut
  <2> QED
    BY Zenon, <1>6, <1>8, <2>1
<1> QED
  BY Zenon, <1>5, <1>7, <1>8 DEF PutTransition

(* The second PUT: the head moves up from the state it was computed from.    *)
LEMMA CommitBucket ==
  ASSUME Bucket, NEW j \in JobType, JobOK(j, log, shead.state, trans), j.pc = "head",
         shead = j.prior, Commit(j), UNCHANGED <<ruleVars, trans>>
  PROVE  /\ Bucket' /\ Grows
         /\ shead'.state = j.next /\ j.next \in AlertStates
         /\ ~Covers(shead.state, j.next.revision, j.next.slot)
         /\ shead'.latest = IF j.next.status = shead.state.status
                            THEN shead.latest ELSE NewRecord(j)
<1>1. BucketTypes /\ RuleInv /\ ChainWhole /\ HistoryOK(shead, last, log)
  BY Zenon DEF Bucket, History
<1>2. /\ head' = head /\ receipts' = receipts /\ staged' = staged /\ log' = log
      /\ trans' = trans
  BY Zenon DEF ruleVars
<1>3. /\ shead'.state = j.next /\ last' = NewLast(j)
      /\ shead'.latest = IF j.next.status = shead.state.status
                         THEN shead.latest ELSE NewRecord(j)
      /\ shead' = [state |-> shead'.state, latest |-> shead'.latest]
  BY Zenon DEF Commit
<1>4. /\ j.next \in AlertStates /\ j.next.revision = j.rule.rev /\ j.next.slot = j.slot
      /\ j.next.status \in Status /\ j.next.sequence \in Nat
      /\ shead.state.sequence \in Nat
      /\ j.next.sequence = shead.state.sequence
                           + (IF shead.state.status = j.next.status THEN 0 ELSE 1)
      /\ ~Covers(shead.state, j.next.revision, j.next.slot)
  BY Zenon, NextFacts DEF Evaluated
<1>5. /\ j.next.status # shead.state.status => NewRecord(j) \in trans
      /\ Chained(shead, trans) /\ j.outcome \in Outcome
      /\ j.next = Evaluate(RuleOf[j.rule.cmd], j.rule.rev, j.prior.state, j.outcome,
                           j.slot, SlotEnd(RuleOf[j.rule.cmd], j.slot))
      /\ ~Covers(j.prior.state, j.rule.rev, j.slot)
  BY Zenon DEF JobOK, Evaluated
<1>6. NewRecord(j).state = j.next
  BY Zenon DEF NewRecord
<1>7. shead' \in StateHead
  BY Zenon, <1>1, <1>3, <1>4, <1>5 DEF BucketTypes, StateHead
<1>8. "none" \notin Status
  BY Zenon DEF Status, Active, Outage
<1>9. shead.state.status = j.next.status => shead # NoStateHead
  BY <1>4, <1>8 DEF NoStateHead, NoState
<1>10. /\ shead'.latest \in trans
       /\ shead'.latest.state.sequence = shead'.state.sequence
       /\ shead'.latest.state.status = shead'.state.status
  <2>1. CASE shead.state.status = j.next.status
    <3>1. /\ shead.latest \in trans /\ shead.latest.state.sequence = shead.state.sequence
          /\ shead.latest.state.status = shead.state.status
      BY Zenon, <1>5, <1>9, <2>1 DEF Chained
    <3>2. j.next.sequence = shead.state.sequence
      BY <1>4, <2>1
    <3> QED
      BY Zenon, <1>3, <2>1, <3>1, <3>2
  <2>2. CASE shead.state.status # j.next.status
    BY Zenon, <1>3, <1>5, <1>6, <2>2
  <2> QED
    BY Zenon, <2>1, <2>2
<1>11. ChainWhole'
  BY Zenon, <1>1, <1>2, <1>10 DEF ChainWhole
<1>12. Grows
  <2>1. shead.state \in AlertStates
    BY Zenon, <1>1, StateHeadOK
  <2>2. StateGrows(shead.state, shead'.state)
    BY Zenon, <1>3, <1>4, <2>1 DEF StateGrows
  <2> QED
    BY Zenon, <1>1, <1>2, <2>2, NothingGrows DEF Grows
<1> DEFINE rule == RuleOf[j.rule.cmd]
           at   == SlotEnd(rule, j.slot)
<1>13. /\ j.rule.cmd \in Puts /\ In(log, j.rule.cmd) /\ RevOf[j.rule.cmd] = j.rule.rev
       /\ rule \in Rule
  BY Zenon, JobRule
<1>14. /\ j.rule.rev \in Nat /\ j.slot \in Nat /\ j.prior.state \in AlertStates
       /\ last \in Last
  BY Zenon, <1>1 DEF JobType, RuleHead, StateHead, BucketTypes
<1>15. at \in Nat
  BY <1>13, <1>14, SlotEndMonotone
<1>16. Timers(j.prior.state, last)
  <2>1. CASE shead = NoStateHead
    BY <2>1 DEF Timers, NoStateHead, NoState, ActiveStatus, NotInterrupted, Active, Outage
  <2>2. CASE shead # NoStateHead
    BY Zenon, <1>1, <2>2 DEF HistoryOK
  <2> QED
    BY Zenon, <2>1, <2>2
<1>17. j.prior.state.revision = j.rule.rev /\ last.held # NoTime => last.held <= at
  <2>1. SUFFICES ASSUME shead.state.revision = j.rule.rev, last.held # NoTime
                 PROVE  last.held <= at
    OBVIOUS
  <2>2. shead # NoStateHead
    BY <1>1, <2>1 DEF HistoryOK, NoLast
  <2>3. /\ last.cmd \in Puts /\ In(log, last.cmd) /\ RevOf[last.cmd] = j.rule.rev
        /\ last.at = SlotEnd(RuleOf[last.cmd], shead.state.slot) /\ last.held <= last.at
    BY Zenon, <1>1, <2>1, <2>2 DEF HistoryOK
  <2>4. last.cmd = j.rule.cmd
    BY Zenon, <1>1, <1>13, <2>3, LogFacts
  <2>5. shead.state.slot \in Nat /\ shead.state.slot <= j.slot
    BY <1>5, <1>14, <2>1 DEF Covers, AlertStates
  <2>6. last.at \in Nat /\ last.at <= at
    BY Zenon, <1>13, <1>14, <2>3, <2>4, <2>5, SlotEndMonotone
  <2>7. last.held \in Nat
    BY Zenon, <1>14, <2>1 DEF Last
  <2> QED
    BY <1>15, <2>3, <2>6, <2>7
<1> HIDE DEF rule, at
<1>18. /\ NewLast(j) \in Last
       /\ NewLast(j).cmd = j.rule.cmd /\ NewLast(j).at = at
       /\ NewLast(j).held # NoTime => NewLast(j).held <= at
       /\ Timers(j.next, NewLast(j))
       /\ Earned(j.next, NewLast(j))
  BY Zenon, <1>5, <1>13, <1>14, <1>15, <1>16, <1>17, EarnedStep DEF rule, at
<1>19. shead' # NoStateHead
  BY <1>3, <1>4, <1>8 DEF NoStateHead, NoState
<1>20. HistoryOK(shead', last', log')
  BY Zenon, <1>2, <1>3, <1>4, <1>13, <1>18, <1>19 DEF HistoryOK, rule, at
<1>21. History'
  BY Zenon, <1>20 DEF History
<1>22. BucketTypes' /\ RuleInv'
  BY Zenon, <1>1, <1>2, <1>3, <1>7, <1>18 DEF BucketTypes, RuleInv
<1> QED
  BY Zenon, <1>3, <1>4, <1>11, <1>12, <1>21, <1>22 DEF Bucket

(* The state head is replaced if it is still the one read.                   *)
LEMMA PutHeadInv ==
  ASSUME Inv, NEW i \in Inst, PutHead(i)
  PROVE  Inv'
<1> DEFINE j == job[i]
<1>1. /\ UNCHANGED <<ruleVars, trans>> /\ rec' = rec /\ req' = req /\ acked' = acked
      /\ j.pc = "head" /\ now' = now /\ world' = world /\ tries' = tries
  BY Zenon DEF PutHead, ctlVars, clock
<1>2. Bucket /\ Memory /\ MemTypes /\ EnvTypes
  BY Zenon DEF Inv, Memory
<1>3. j \in JobType /\ JobOK(j, log, shead.state, trans)
  BY Zenon, <1>2 DEF Memory, MemTypes, Jobs
<1>4. faults' \in Nat
  BY Zenon, <1>2, FewerFaults DEF EnvTypes, PutHead
<1>5. CASE /\ shead = j.prior /\ Commit(j) /\ job' = [job EXCEPT ![i].pc = "fold"]
           /\ lease' = lease /\ proj' = proj
  <2> DEFINE k == [j EXCEPT !.pc = "fold"]
  <2>1. Bucket' /\ Grows /\ shead'.state = j.next /\ j.next \in AlertStates
    BY Zenon, <1>1, <1>2, <1>3, <1>5, CommitBucket
  <2>2. /\ k \in JobType /\ k.pc = "fold" /\ k.rule = j.rule /\ k.slot = j.slot
        /\ k.prior = j.prior /\ k.outcome = j.outcome /\ k.next = j.next
    BY Zenon, <1>3 DEF JobType
  <2>3. job' = [job EXCEPT ![i] = k]
    BY Zenon, <1>2, <1>5 DEF MemTypes
  <2>4. Covers(shead'.state, k.next.revision, k.next.slot)
    BY <2>1, <2>2 DEF Covers, AlertStates
  <2>5. JobOK(j, log', shead'.state, trans')
    BY Zenon, <1>2, <2>1, MemoryKept
  <2> HIDE DEF k
  <2>6. JobOK(k, log', shead'.state, trans')
    BY Zenon, <1>1, <2>2, <2>4, <2>5 DEF JobOK, Evaluated
  <2>7. Memory'
    BY Zenon, <1>1, <1>2, <1>5, <2>1, <2>2, <2>3, <2>6, JobMove
  <2> QED
    BY Zenon, <1>1, <1>2, <1>4, <1>5, <2>1, <2>7 DEF Inv, EnvTypes
<1>6. CASE /\ proj' = [proj EXCEPT ![i] = FoldState(@, shead.state)] /\ End(i)
           /\ shead' = shead /\ last' = last
  <2>1. UNCHANGED <<ruleVars, stateVars>>
    BY Zenon, <1>1, <1>6 DEF stateVars
  <2>2. Bucket' /\ Grows /\ log' = log /\ head' = head /\ BucketTypes
    BY Zenon, <1>2, <2>1, SameBucket DEF ruleVars, Bucket
  <2>3. ProjOK(proj[i], log, head, shead.state)
    BY Zenon, <1>2, <1>6, <2>2, MemoryKept
  <2>4. ProjStep(proj[i], FoldState(proj[i], shead.state), log, head, shead.state)
    BY Zenon, <2>2, <2>3, FoldStateStep, StateHeadOK DEF BucketTypes
  <2>5. proj' = [proj EXCEPT ![i] = FoldState(proj[i], shead.state)]
    BY Zenon, <1>6
  <2>6. lease' \in Inst \cup {Nobody} /\ job' = [job EXCEPT ![i] = IdleJob]
    BY Zenon, <1>2, <1>6, EndLease
  <2>7. Memory'
    BY Zenon, <1>1, <1>2, <2>1, <2>4, <2>5, <2>6, EndFold
  <2> QED
    BY Zenon, <1>1, <1>2, <1>4, <2>2, <2>6, <2>7 DEF Inv, EnvTypes
<1>7. ASSUME End(i), proj' = proj, Bucket', Grows
      PROVE  Inv'
  <2>1. lease' \in Inst \cup {Nobody} /\ job' = [job EXCEPT ![i] = IdleJob]
    BY Zenon, <1>2, <1>7, EndLease
  <2>2. Memory'
    BY Zenon, <1>1, <1>2, <1>7, <2>1, EndPlain
  <2> QED
    BY Zenon, <1>1, <1>2, <1>4, <1>7, <2>1, <2>2 DEF Inv, EnvTypes
<1>8. CASE shead = j.prior /\ Commit(j) /\ End(i) /\ proj' = proj
  <2>1. Bucket' /\ Grows
    BY Zenon, <1>1, <1>2, <1>3, <1>8, CommitBucket
  <2> QED
    BY Zenon, <1>7, <1>8, <2>1
<1>9. CASE UNCHANGED <<shead, last>> /\ End(i) /\ proj' = proj
  <2>1. UNCHANGED <<ruleVars, stateVars>>
    BY Zenon, <1>1, <1>9 DEF stateVars
  <2>2. Bucket' /\ Grows
    BY Zenon, <1>2, <2>1, SameBucket
  <2> QED
    BY Zenon, <1>7, <1>9, <2>2
<1> QED
  BY Zenon, <1>5, <1>6, <1>8, <1>9 DEF PutHead

(* The committed state is folded into the projection.                        *)
LEMMA FoldCommittedInv ==
  ASSUME Inv, NEW i \in Inst, FoldCommitted(i)
  PROVE  Inv'
<1> DEFINE j == job[i]
<1>1. /\ UNCHANGED <<ruleVars, stateVars>> /\ rec' = rec /\ req' = req /\ acked' = acked
      /\ j.pc = "fold" /\ now' = now /\ world' = world /\ tries' = tries
      /\ faults' = faults
      /\ proj' = [proj EXCEPT ![i] = FoldState(proj[i], j.next)] /\ End(i)
  BY Zenon DEF FoldCommitted, ctlVars, clock
<1>2. Bucket /\ Memory /\ MemTypes /\ EnvTypes /\ Bucket' /\ Grows /\ head \in RuleHead
  BY Zenon, <1>1, SameBucket DEF Inv, Memory, Bucket, BucketTypes
<1>3. j \in JobType /\ JobOK(j, log, shead.state, trans)
  BY Zenon, <1>2 DEF Memory, MemTypes, Jobs
<1>4. StateOK(j.next, shead.state)
  BY Zenon, <1>1, <1>3 DEF JobOK, JobType, StateOK
<1>5. ProjOK(proj[i], log, head, shead.state)
  BY Zenon, <1>1, <1>2, MemoryKept DEF ruleVars, stateVars
<1>6. ProjStep(proj[i], FoldState(proj[i], j.next), log, head, shead.state)
  BY Zenon, <1>2, <1>4, <1>5, FoldStateStep
<1>7. lease' \in Inst \cup {Nobody} /\ job' = [job EXCEPT ![i] = IdleJob]
  BY Zenon, <1>1, <1>2, EndLease
<1>8. Memory'
  BY Zenon, <1>1, <1>2, <1>6, <1>7, EndFold
<1> QED
  BY Zenon, <1>1, <1>2, <1>7, <1>8 DEF Inv, EnvTypes

(* An evaluation is given up, whatever it has written.                       *)
LEMMA JobFailsInv ==
  ASSUME Inv, NEW i \in Inst, JobFails(i)
  PROVE  Inv'
<1>1. /\ UNCHANGED <<ruleVars, stateVars>> /\ rec' = rec /\ req' = req /\ acked' = acked
      /\ now' = now /\ world' = world /\ tries' = tries /\ proj' = proj /\ End(i)
  BY Zenon DEF JobFails, ctlVars, clock
<1>2. Bucket /\ Memory /\ EnvTypes /\ Bucket' /\ Grows
  BY Zenon, <1>1, SameBucket DEF Inv
<1>3. lease' \in Inst \cup {Nobody} /\ job' = [job EXCEPT ![i] = IdleJob]
  BY Zenon, <1>1, <1>2, EndLease
<1>4. Memory'
  BY Zenon, <1>1, <1>2, <1>3, EndPlain
<1>5. faults' \in Nat
  BY Zenon, <1>2, FewerFaults DEF EnvTypes, JobFails
<1> QED
  BY Zenon, <1>1, <1>2, <1>3, <1>4, <1>5 DEF Inv, EnvTypes

-----------------------------------------------------------------------------
(* Reconciliation.                                                           *)

(* A pass moves the row up.                                                  *)
LEMMA RecMove ==
  ASSUME Memory, Grows, NEW i \in Inst, NEW r \in RecType, NEW p,
         rec' = [rec EXCEPT ![i] = r], proj' = [proj EXCEPT ![i] = p],
         job' = job, req' = req, acked' = acked,
         ProjOK(p, log', head', shead'.state), p.row.rev >= proj[i].row.rev,
         proj[i].row.deleted => p.row.deleted,
         RecOK(r, log', head', shead'.state), Unseen(r, p)
  PROVE  Memory'
<1>1. job' = [job EXCEPT ![i] = job[i]] /\ job[i] \in JobType
  BY Zenon DEF Memory, MemTypes
<1>2. JobOK(job[i], log', shead'.state, trans')
  BY Zenon, MemoryKept
<1> QED
  BY Zenon, <1>1, <1>2, MemoryMove

(* A pass goes on without touching the projection.                           *)
LEMMA RecPlain ==
  ASSUME Memory, Grows, NEW i \in Inst, NEW r \in RecType,
         rec' = [rec EXCEPT ![i] = r], proj' = proj,
         job' = job, req' = req, acked' = acked,
         RecOK(r, log', head', shead'.state), Unseen(r, proj[i])
  PROVE  Memory'
<1>1. proj' = [proj EXCEPT ![i] = proj[i]] /\ proj[i] \in ProjType
  BY Zenon DEF Memory, MemTypes
<1>2. proj[i].row.rev >= proj[i].row.rev
  BY <1>1 DEF ProjType, RuleHead
<1>3. ProjOK(proj[i], log', head', shead'.state)
  BY Zenon, MemoryKept
<1> QED
  BY Zenon, <1>1, <1>2, <1>3, RecMove

(* A reconcile reads the rule head.                                          *)
LEMMA LoadHeadInv ==
  ASSUME Inv, NEW i \in Inst, LoadHead(i)
  PROVE  Inv'
<1>1. /\ UNCHANGED <<ruleVars, stateVars>> /\ job' = job /\ req' = req /\ acked' = acked
      /\ now' = now /\ world' = world /\ tries' = tries /\ lease' = lease
      /\ faults' = faults
  BY Zenon DEF LoadHead, ctlVars, clock
<1>2. /\ Bucket /\ Memory /\ MemTypes /\ EnvTypes /\ Bucket' /\ Grows /\ head \in RuleHead
      /\ BucketTypes /\ RuleInv
  BY Zenon, <1>1, SameBucket DEF Inv, Memory, Bucket, BucketTypes
<1>3. log' = log /\ head' = head /\ shead' = shead
  BY Zenon, <1>1 DEF ruleVars, stateVars
<1>4. ProjOK(proj[i], log, head, shead.state)
  BY Zenon, <1>2, <1>3, MemoryKept
<1> DEFINE p == [proj[i] EXCEPT !.fresh = FALSE]
<1>5. /\ p \in ProjType /\ p.row = proj[i].row /\ p.state = proj[i].state
      /\ proj' = [proj EXCEPT ![i] = p]
  BY Zenon, <1>2 DEF LoadHead, MemTypes, ProjType
<1> HIDE DEF p
<1>6. ProjOK(p, log, head, shead.state)
  BY Zenon, <1>4, <1>5 DEF ProjOK
<1>7. p.row.rev \in Nat /\ p.row.rev <= head.rev /\ head.rev \in Nat
  BY Zenon, <1>2, <1>5, <1>6 DEF ProjOK, RowOK, ProjType, RuleHead
<1>8. PICK r : /\ rec' = [rec EXCEPT ![i] = r]
               /\ \/ head = NoHead /\ r = [IdleRec EXCEPT !.pc = "fold"]
                  \/ /\ head.deleted
                     /\ r = [IdleRec EXCEPT !.pc = "fold", !.loaded = "deleted", !.row = head]
                  \/ /\ ~head.deleted
                     /\ \E h \in {NoHead, head} :
                          r = [IdleRec EXCEPT !.pc = "state", !.loaded = "live", !.row = h]
  BY Zenon DEF LoadHead
<1>9. StateOK(NoState, shead.state)
  BY Zenon, NothingTypes DEF StateOK
<1>10. RowOK(head, log, head) /\ RowOK(NoHead, log, head) /\ ~NoHead.deleted
  BY <1>2, <1>7, HeadRow, NothingTypes DEF RowOK, HeadOK, NoHead
<1>11. r \in RecType /\ RecOK(r, log, head, shead.state) /\ Unseen(r, p)
  <2>1. CASE head = NoHead /\ r = [IdleRec EXCEPT !.pc = "fold"]
    <3>1. r \in RecType /\ r.pc = "fold" /\ r.loaded = "absent" /\ r.state = NoState
      BY Zenon, <2>1, NothingTypes DEF IdleRec, RecType
    <3>2. head.rev = 0
      BY Zenon, <2>1 DEF NoHead
    <3>3. p.row.rev = 0
      BY <1>7, <3>2
    <3> QED
      BY Zenon, <1>9, <3>1, <3>3 DEF RecOK, Unseen
  <2>2. CASE /\ head.deleted
             /\ r = [IdleRec EXCEPT !.pc = "fold", !.loaded = "deleted", !.row = head]
    <3>1. /\ r \in RecType /\ r.pc = "fold" /\ r.loaded = "deleted" /\ r.state = NoState
          /\ r.row = head
      BY Zenon, <1>2, <2>2, NothingTypes DEF IdleRec, RecType
    <3> QED
      BY Zenon, <1>9, <2>2, <3>1 DEF RecOK, Unseen
  <2>3. ASSUME ~head.deleted, NEW h \in {NoHead, head},
               r = [IdleRec EXCEPT !.pc = "state", !.loaded = "live", !.row = h]
        PROVE  r \in RecType /\ RecOK(r, log, head, shead.state) /\ Unseen(r, p)
    <3>1. RowOK(h, log, head) /\ ~h.deleted
      BY Zenon, <1>10, <2>3
    <3>2. h \in RuleHead
      BY Zenon, <3>1 DEF RowOK, HeadOK
    <3>3. /\ r \in RecType /\ r.pc = "state" /\ r.loaded = "live" /\ r.state = NoState
          /\ r.row = h
      BY Zenon, <2>3, <3>2, NothingTypes DEF IdleRec, RecType
    <3> QED
      BY Zenon, <1>9, <3>1, <3>3 DEF RecOK, Unseen
  <2> QED
    BY Zenon, <1>8, <2>1, <2>2, <2>3
<1>12. p.row.rev >= proj[i].row.rev /\ (proj[i].row.deleted => p.row.deleted)
  BY <1>5, <1>7
<1>13. Memory'
  BY ZenonT(60), <1>1, <1>2, <1>3, <1>5, <1>6, <1>8, <1>11, <1>12, RecMove
<1> QED
  BY Zenon, <1>1, <1>2, <1>13 DEF Inv, EnvTypes

(* A reconcile reads the state head.                                         *)
LEMMA LoadStateInv ==
  ASSUME Inv, NEW i \in Inst, LoadState(i)
  PROVE  Inv'
<1>1. /\ UNCHANGED <<ruleVars, stateVars>> /\ job' = job /\ req' = req /\ acked' = acked
      /\ now' = now /\ world' = world /\ tries' = tries /\ lease' = lease
      /\ faults' = faults /\ proj' = proj /\ rec[i].pc = "state"
  BY Zenon DEF LoadState, ctlVars, clock
<1>2. /\ Bucket /\ Memory /\ MemTypes /\ EnvTypes /\ Bucket' /\ Grows /\ BucketTypes
  BY Zenon, <1>1, SameBucket DEF Inv, Memory, Bucket
<1>3. log' = log /\ head' = head /\ shead' = shead
  BY Zenon, <1>1 DEF ruleVars, stateVars
<1> DEFINE r == [rec[i] EXCEPT !.pc = "fold", !.state = shead.state]
<1>5. rec[i] \in RecType /\ RecOK(rec[i], log, head, shead.state)
  BY Zenon, <1>2 DEF Memory, MemTypes, Reconciles
<1>6. StateOK(shead.state, shead.state) /\ shead.state \in AlertStates
  BY Zenon, <1>2, StateHeadOK
<1>7. /\ r \in RecType /\ r.pc = "fold" /\ r.loaded = rec[i].loaded /\ r.row = rec[i].row
      /\ r.state = shead.state
  BY Zenon, <1>5, <1>6 DEF RecType
<1>8. rec' = [rec EXCEPT ![i] = r]
  BY Zenon, <1>2 DEF LoadState, MemTypes
<1> HIDE DEF r
<1>9. RecOK(r, log, head, shead.state) /\ Unseen(r, proj[i])
  BY Zenon, <1>1, <1>5, <1>6, <1>7 DEF RecOK, Unseen
<1>10. Memory'
  BY Zenon, <1>1, <1>2, <1>3, <1>7, <1>8, <1>9, RecPlain
<1> QED
  BY Zenon, <1>1, <1>2, <1>10 DEF Inv, EnvTypes

(* What the pass does to the row is one of the projection's transactions.    *)
LEMMA ReconcileFoldInv ==
  ASSUME Inv, NEW i \in Inst, ReconcileFold(i)
  PROVE  Inv'
<1> DEFINE r == rec[i]
           p == proj[i]
           ruled == IF r.row = NoHead THEN p ELSE FoldRule(p, r.row)
<1>1. /\ UNCHANGED <<ruleVars, stateVars>> /\ job' = job /\ req' = req /\ acked' = acked
      /\ now' = now /\ world' = world /\ tries' = tries /\ lease' = lease
      /\ faults' = faults /\ r.pc = "fold" /\ rec' = [rec EXCEPT ![i] = IdleRec]
  BY Zenon DEF ReconcileFold, ctlVars, clock
<1>2. /\ Bucket /\ Memory /\ MemTypes /\ EnvTypes /\ Bucket' /\ Grows /\ head \in RuleHead
      /\ BucketTypes /\ RuleInv
  BY Zenon, <1>1, SameBucket DEF Inv, Memory, Bucket, BucketTypes
<1>3. log' = log /\ head' = head /\ shead' = shead
  BY Zenon, <1>1 DEF ruleVars, stateVars
<1>4. ProjOK(p, log, head, shead.state)
  BY Zenon, <1>2, <1>3, MemoryKept
<1>5. r \in RecType /\ RecOK(r, log, head, shead.state) /\ Unseen(r, p)
  BY Zenon, <1>2 DEF Memory, MemTypes, Reconciles
<1>6. ASSUME NEW q, proj' = [proj EXCEPT ![i] = q], ProjStep(p, q, log, head, shead.state)
      PROVE  Inv'
  <2>1. /\ ProjOK(q, log, head, shead.state) /\ q.row.rev >= p.row.rev
        /\ p.row.deleted => q.row.deleted
    BY Zenon, <1>6 DEF ProjStep
  <2>2. Memory'
    BY Zenon, <1>1, <1>2, <1>3, <1>6, <2>1, IdleRecOK, RecMove
  <2> QED
    BY Zenon, <1>1, <1>2, <2>2 DEF Inv, EnvTypes
<1>7. CASE r.loaded = "absent"
  <2>1. proj' = [proj EXCEPT ![i] = PruneMonitors(p)]
    BY Zenon, <1>7 DEF ReconcileFold
  <2>2. ProjStep(p, PruneMonitors(p), log, head, shead.state)
    BY Zenon, <1>1, <1>2, <1>4, <1>5, <1>7, PruneStep DEF Unseen
  <2> QED
    BY Zenon, <1>6, <2>1, <2>2
<1>8. CASE r.loaded = "deleted"
  <2>1. proj' = [proj EXCEPT ![i] = TombstoneMonitor(p, r.row.rev)]
    BY Zenon, <1>8 DEF ReconcileFold
  <2>2. head.deleted /\ r.row.rev = head.rev /\ head.rev > 0
    BY Zenon, <1>2, <1>5, <1>8, LogFacts DEF RecOK
  <2>3. ProjStep(p, TombstoneMonitor(p, r.row.rev), log, head, shead.state)
    BY Zenon, <1>2, <1>4, <2>2, TombstoneStep
  <2> QED
    BY Zenon, <1>6, <2>1, <2>3
<1>9. CASE r.loaded = "live"
  <2>1. proj' = [proj EXCEPT ![i] = FoldState(ruled, r.state)]
    BY Zenon, <1>9 DEF ReconcileFold
  <2>2. RowOK(r.row, log, head) /\ ~r.row.deleted /\ StateOK(r.state, shead.state)
    BY Zenon, <1>5, <1>9 DEF RecOK
  <2>3. p.row.rev \in Nat /\ p \in ProjType
    BY Zenon, <1>4 DEF ProjOK, ProjType, RuleHead
  <2>4. ProjStep(p, ruled, log, head, shead.state)
    <3>1. CASE r.row = NoHead
      BY <1>4, <2>3, <3>1 DEF ProjStep
    <3>2. CASE r.row # NoHead
      <4>1. ProjStep(p, FoldRule(p, r.row), log, head, shead.state)
        BY Zenon, <1>2, <1>4, <2>2, FoldRuleStep
      <4> QED
        BY Zenon, <3>2, <4>1
    <3> QED
      BY Zenon, <3>1, <3>2
  <2> HIDE DEF ruled
  <2>5. ProjOK(ruled, log, head, shead.state) /\ ruled \in ProjType
    BY Zenon, <2>4 DEF ProjStep, ProjOK
  <2>6. ProjStep(ruled, FoldState(ruled, r.state), log, head, shead.state)
    BY Zenon, <1>2, <2>2, <2>5, FoldStateStep
  <2>7. FoldState(ruled, r.state) \in ProjType
    BY Zenon, <2>6 DEF ProjStep, ProjOK
  <2>8. ProjStep(p, FoldState(ruled, r.state), log, head, shead.state)
    BY Zenon, <2>3, <2>4, <2>5, <2>6, <2>7, TwoSteps
  <2> QED
    BY Zenon, <1>6, <2>1, <2>8
<1> QED
  BY Zenon, <1>5, <1>7, <1>8, <1>9 DEF RecType

(* A reconcile is given up.                                                  *)
LEMMA ReconcileFailsInv ==
  ASSUME Inv, NEW i \in Inst, ReconcileFails(i)
  PROVE  Inv'
<1>1. /\ UNCHANGED <<ruleVars, stateVars>> /\ job' = job /\ req' = req /\ acked' = acked
      /\ now' = now /\ world' = world /\ tries' = tries /\ lease' = lease
      /\ proj' = proj /\ rec' = [rec EXCEPT ![i] = IdleRec]
  BY Zenon DEF ReconcileFails, ctlVars, clock
<1>2. /\ Bucket /\ Memory /\ MemTypes /\ EnvTypes /\ Bucket' /\ Grows
  BY Zenon, <1>1, SameBucket DEF Inv, Memory
<1>4. Memory'
  BY Zenon, <1>1, <1>2, IdleRecOK, RecPlain
<1>5. faults' \in Nat
  BY Zenon, <1>2, FewerFaults DEF EnvTypes, ReconcileFails
<1> QED
  BY Zenon, <1>1, <1>2, <1>4, <1>5 DEF Inv, EnvTypes

-----------------------------------------------------------------------------
(* Control commands.                                                         *)

(* The command whose head is in the bucket was taken.                        *)
LEMMA HeadTaken ==
  ASSUME BucketTypes, RuleInv, NEW c \in Cmd, head = HeadOf(c)
  PROVE  In(log, c)
<1>1. HeadOf(c).rev > 0 /\ HeadOf(c).cmd = c
  BY Zenon, HeadOfFacts
<1>2. log # <<>>
  <2>1. NoHead.rev = 0
    BY Zenon DEF NoHead
  <2> QED
    BY <1>1, <2>1 DEF RuleInv
<1>3. head = HeadOf(log[Len(log)]) /\ Len(log) \in 1..Len(log) /\ log[Len(log)] \in Cmd
  BY <1>2 DEF RuleInv, BucketTypes
<1>4. log[Len(log)] = c
  BY <1>1, <1>3, HeadOfFacts
<1> QED
  BY Zenon, <1>3, <1>4 DEF In

(* A command that is sent may be sent once less.                             *)
LEMMA SentTries ==
  ASSUME EnvTypes, NEW c \in Cmd, Sent(c)
  PROVE  tries' \in [Cmd -> Nat]
BY DEF EnvTypes, Sent

(* A taken put is answered from the fold of its own or a later head.         *)
LEMMA PutAnswer ==
  ASSUME Bucket, Memory, NEW c \in Puts, In(log, c), NEW i \in Inst,
         ProjOK(proj[i], log, head, shead.state),
         NEW h, RowOK(h, log, head), ~h.deleted, h.rev >= RevOf[c],
         NEW p, p = FoldRule(proj[i], h), proj' = [proj EXCEPT ![i] = p], Answer(c, i)
  PROVE  /\ ProjStep(proj[i], p, log, head, shead.state)
         /\ \/ acked' = acked
            \/ acked' = [acked EXCEPT ![c] = i] /\ Kept1(c, p)
<1>1. head \in RuleHead
  BY Zenon DEF Bucket, BucketTypes
<1>2. /\ ProjStep(proj[i], p, log, head, shead.state)
      /\ ~p.row.deleted => p.row.rev >= h.rev
  BY Zenon, <1>1, FoldRuleStep
<1>3. proj'[i] = p
  BY Zenon DEF Memory, MemTypes
<1>4. CASE p.row.deleted
  BY Zenon, <1>2, <1>3, <1>4 DEF Answer
<1>5. CASE ~p.row.deleted
  <2>1. c \in Cmd /\ c \notin Deletes /\ RevOf[c] \in Nat
    BY Zenon, AlertsAssumption DEF Cmd
  <2>2. p.row.rev \in Nat /\ h.rev \in Nat
    BY Zenon, <1>2 DEF ProjStep, ProjOK, ProjType, RuleHead, RowOK, HeadOK
  <2>3. Kept1(c, p)
    BY <1>2, <1>5, <2>1, <2>2 DEF Kept1
  <2>4. acked' = [acked EXCEPT ![c] = i]
    BY Zenon, <1>3, <1>5 DEF Answer
  <2> QED
    BY Zenon, <1>2, <2>3, <2>4
<1> QED
  BY Zenon, <1>4, <1>5

(* A taken delete is answered from the tombstone.                            *)
LEMMA DeleteAnswer ==
  ASSUME Bucket, Memory, NEW c \in Deletes, head = HeadOf(c), NEW i \in Inst,
         ProjOK(proj[i], log, head, shead.state),
         NEW p, p = TombstoneMonitor(proj[i], RevOf[c]), Answer(c, i)
  PROVE  /\ ProjStep(proj[i], p, log, head, shead.state)
         /\ acked' = [acked EXCEPT ![c] = i] /\ Kept1(c, p) /\ In(log, c)
<1>1. head \in RuleHead /\ BucketTypes /\ RuleInv /\ c \in Cmd
  BY Zenon DEF Bucket, BucketTypes, Cmd
<1>2. head.deleted /\ head.rev = RevOf[c] /\ head.rev > 0 /\ c \notin Puts /\ RevOf[c] \in Nat
  BY Zenon, <1>1, HeadOfFacts
<1>3. /\ ProjStep(proj[i], p, log, head, shead.state)
      /\ p.row.deleted /\ p.row.rev = RevOf[c]
  BY <1>1, <1>2, TombstoneStep
<1>4. acked' = [acked EXCEPT ![c] = i]
  BY Zenon, <1>2 DEF Answer
<1>5. Kept1(c, p)
  BY <1>2, <1>3 DEF Kept1
<1> QED
  BY Zenon, <1>1, <1>3, <1>4, <1>5, HeadTaken

(* A rule PUT is admitted.                                                   *)
LEMMA AdmitPutInv ==
  ASSUME Inv, NEW c \in Puts, NEW i \in Inst, AdmitPut(c, i)
  PROVE  Inv'
<1>1. /\ UNCHANGED <<ruleVars, stateVars>> /\ job' = job /\ rec' = rec
      /\ now' = now /\ world' = world /\ lease' = lease /\ faults' = faults /\ Sent(c)
  BY Zenon DEF AdmitPut, clock
<1>2. /\ Bucket /\ Memory /\ MemTypes /\ EnvTypes /\ Bucket' /\ Grows
      /\ BucketTypes /\ RuleInv /\ c \in Cmd
  BY Zenon, <1>1, SameBucket DEF Inv, Memory, Bucket, Cmd
<1>3. log' = log /\ head' = head /\ shead' = shead /\ trans' = trans
  BY Zenon, <1>1 DEF ruleVars, stateVars
<1>4. EnvTypes'
  BY Zenon, <1>1, <1>2, SentTries DEF EnvTypes
<1>5. CASE UNCHANGED <<req, acked, proj>>
  <2>1. Memory'
    BY Zenon, <1>1, <1>2, <1>3, <1>5, SameMemory
  <2> QED
    BY Zenon, <1>2, <1>4, <2>1 DEF Inv
<1>6. CASE /\ c \in receipts /\ ~head.deleted
           /\ proj' = [proj EXCEPT ![i] = FoldRule(@, head)]
           /\ Answer(c, i) /\ req' = req
  <2> DEFINE p == FoldRule(proj[i], head)
  <2>1. In(log, c) /\ RevOf[c] <= head.rev /\ head.rev \in Nat /\ RevOf[c] \in Nat
    BY Zenon, <1>2, <1>6, LogFacts, AlertsAssumption DEF RuleInv
  <2>2. proj' = [proj EXCEPT ![i] = p]
    BY Zenon, <1>6
  <2>3. ProjOK(proj[i], log, head, shead.state) /\ ReqOK(c, req[c], log)
    BY Zenon, <1>2, <1>3, MemoryKept
  <2>4. RowOK(head, log, head)
    BY Zenon, <1>2, HeadRow
  <2>5. head.rev >= RevOf[c]
    BY Zenon, <2>1
  <2>6. /\ ProjStep(proj[i], p, log, head, shead.state)
        /\ \/ acked' = acked
           \/ acked' = [acked EXCEPT ![c] = i] /\ Kept1(c, p)
    BY Zenon, <1>2, <1>6, <2>1, <2>2, <2>3, <2>4, <2>5, PutAnswer
  <2>7. req' = [req EXCEPT ![c] = req[c]] /\ req[c] \in ReqType
    BY Zenon, <1>2, <1>6 DEF MemTypes
  <2> HIDE DEF p
  <2>8. Memory'
    BY Zenon, <1>1, <1>2, <1>3, <2>1, <2>2, <2>3, <2>6, <2>7, AnswerMove
  <2> QED
    BY Zenon, <1>2, <1>4, <2>8 DEF Inv
<1>7. CASE /\ req' = [req EXCEPT ![c] = [IdleReq EXCEPT !.pc = "publish", !.at = i]]
           /\ acked' = acked /\ proj' = proj
  <2> DEFINE q == [IdleReq EXCEPT !.pc = "publish", !.at = i]
  <2>1. q \in ReqType /\ q.pc = "publish" /\ q.at = i
    BY Zenon, NothingTypes DEF IdleReq, ReqType
  <2>2. req' = [req EXCEPT ![c] = q]
    BY Zenon, <1>7
  <2> HIDE DEF q
  <2>3. ReqOK(c, q, log')
    BY Zenon, <2>1 DEF ReqOK
  <2>4. Memory'
    BY Zenon, <1>1, <1>2, <1>7, <2>1, <2>2, <2>3, RequestMove
  <2> QED
    BY Zenon, <1>2, <1>4, <2>4 DEF Inv
<1> QED
  BY Zenon, <1>5, <1>6, <1>7 DEF AdmitPut

(* A rule DELETE is admitted.                                                *)
LEMMA AdmitDeleteInv ==
  ASSUME Inv, NEW c \in Deletes, NEW i \in Inst, AdmitDelete(c, i)
  PROVE  Inv'
<1>1. /\ UNCHANGED <<ruleVars, stateVars>> /\ job' = job /\ rec' = rec
      /\ now' = now /\ world' = world /\ lease' = lease /\ faults' = faults /\ Sent(c)
  BY Zenon DEF AdmitDelete, clock
<1>2. /\ Bucket /\ Memory /\ MemTypes /\ EnvTypes /\ Bucket' /\ Grows /\ head \in RuleHead
      /\ BucketTypes /\ RuleInv /\ c \in Cmd /\ c \notin Puts
  BY Zenon, <1>1, SameBucket, AlertsAssumption DEF Inv, Memory, Bucket, BucketTypes, Cmd
<1>3. log' = log /\ head' = head /\ shead' = shead /\ trans' = trans
  BY Zenon, <1>1 DEF ruleVars, stateVars
<1>4. EnvTypes'
  BY Zenon, <1>1, <1>2, SentTries DEF EnvTypes
<1>5. CASE UNCHANGED <<req, acked, proj>>
  <2>1. Memory'
    BY Zenon, <1>1, <1>2, <1>3, <1>5, SameMemory
  <2> QED
    BY Zenon, <1>2, <1>4, <2>1 DEF Inv
<1>6. CASE /\ head = HeadOf(c)
           /\ proj' = [proj EXCEPT ![i] = TombstoneMonitor(@, RevOf[c])]
           /\ Answer(c, i) /\ req' = req
  <2> DEFINE p == TombstoneMonitor(proj[i], RevOf[c])
  <2>1. proj' = [proj EXCEPT ![i] = p]
    BY Zenon, <1>6
  <2>2. ProjOK(proj[i], log, head, shead.state) /\ ReqOK(c, req[c], log)
    BY Zenon, <1>2, <1>3, MemoryKept
  <2>3. /\ ProjStep(proj[i], p, log, head, shead.state)
        /\ acked' = [acked EXCEPT ![c] = i] /\ Kept1(c, p) /\ In(log, c)
    BY Zenon, <1>2, <1>6, <2>2, DeleteAnswer
  <2>4. req' = [req EXCEPT ![c] = req[c]] /\ req[c] \in ReqType
    BY Zenon, <1>2, <1>6 DEF MemTypes
  <2> HIDE DEF p
  <2>5. Memory'
    BY ZenonT(60), <1>1, <1>2, <1>3, <2>1, <2>2, <2>3, <2>4, AnswerMove
  <2> QED
    BY Zenon, <1>2, <1>4, <2>5 DEF Inv
<1>7. CASE /\ ~head.deleted /\ head.rev = RevOf[c]
           /\ req' = [req EXCEPT ![c] = [pc |-> "stage", at |-> i, seen |-> head]]
           /\ proj' = proj /\ acked' = acked
  <2> DEFINE q == [pc |-> "stage", at |-> i, seen |-> head]
  <2>1. q \in ReqType /\ q.pc = "stage" /\ q.at = i /\ q.seen = head
    BY Zenon, <1>2 DEF ReqType
  <2>2. req' = [req EXCEPT ![c] = q]
    BY Zenon, <1>7
  <2> HIDE DEF q
  <2>3. ReqOK(c, q, log')
    BY Zenon, <1>2, <1>7, <2>1 DEF ReqOK
  <2>4. Memory'
    BY Zenon, <1>1, <1>2, <1>7, <2>1, <2>2, <2>3, RequestMove
  <2> QED
    BY Zenon, <1>2, <1>4, <2>4 DEF Inv
<1> QED
  BY Zenon, <1>5, <1>6, <1>7 DEF AdmitDelete

(* A command reads the head it will replace.                                 *)
LEMMA PublishReadInv ==
  ASSUME Inv, NEW c \in Cmd, PublishRead(c)
  PROVE  Inv'
<1>1. /\ UNCHANGED <<ruleVars, stateVars>> /\ job' = job /\ rec' = rec /\ proj' = proj
      /\ acked' = acked /\ tries' = tries /\ req[c].pc = "publish"
      /\ now' = now /\ world' = world /\ lease' = lease /\ faults' = faults
  BY Zenon DEF PublishRead, clock
<1>2. /\ Bucket /\ Memory /\ MemTypes /\ EnvTypes /\ Bucket' /\ Grows /\ head \in RuleHead
      /\ BucketTypes /\ RuleInv
  BY Zenon, <1>1, SameBucket DEF Inv, Memory, Bucket, BucketTypes
<1>3. log' = log
  BY Zenon, <1>1 DEF ruleVars
<1>4. EnvTypes'
  BY Zenon, <1>1, <1>2 DEF EnvTypes
<1>5. /\ req[c] \in ReqType /\ ReqOK(c, req[c], log)
      /\ c \in Puts /\ c \notin Deletes /\ req[c].at \in Inst
  BY Zenon, <1>1, <1>2, AlertsAssumption DEF Memory, MemTypes, Requests, ReqOK
<1>6. ASSUME NEW q \in ReqType, req' = [req EXCEPT ![c] = q], ReqOK(c, q, log)
      PROVE  Inv'
  <2>1. Memory'
    BY Zenon, <1>1, <1>2, <1>3, <1>6, RequestMove
  <2> QED
    BY Zenon, <1>2, <1>4, <2>1 DEF Inv
<1>7. CASE head = HeadOf(c)
  <2> DEFINE q == [req[c] EXCEPT !.pc = "receipt"]
  <2>1. q \in ReqType /\ q.pc = "receipt" /\ q.at = req[c].at
    BY Zenon, <1>5 DEF ReqType
  <2>2. req' = [req EXCEPT ![c] = q]
    BY Zenon, <1>7 DEF PublishRead
  <2>3. In(log, c)
    BY Zenon, <1>2, <1>7, HeadTaken
  <2> HIDE DEF q
  <2>4. ReqOK(c, q, log)
    BY Zenon, <1>5, <2>1, <2>3 DEF ReqOK
  <2> QED
    BY Zenon, <1>6, <2>1, <2>2, <2>4
<1>8. CASE head # HeadOf(c) /\ MaySucceed(c)
  <2> DEFINE q == [req[c] EXCEPT !.pc = "cas", !.seen = head]
  <2>1. q \in ReqType /\ q.pc = "cas" /\ q.at = req[c].at /\ q.seen = head
    BY Zenon, <1>2, <1>5 DEF ReqType
  <2>2. req' = [req EXCEPT ![c] = q]
    BY Zenon, <1>8 DEF PublishRead
  <2> HIDE DEF q
  <2>3. ReqOK(c, q, log)
    BY Zenon, <1>5, <1>8, <2>1 DEF ReqOK, MaySucceed
  <2> QED
    BY Zenon, <1>6, <2>1, <2>2, <2>3
<1>9. CASE head # HeadOf(c) /\ ~MaySucceed(c)
  <2>1. req' = [req EXCEPT ![c] = IdleReq]
    BY Zenon, <1>9 DEF PublishRead
  <2> QED
    BY Zenon, <1>6, <2>1, IdleReqOK
<1> QED
  BY Zenon, <1>7, <1>8, <1>9

(* A DELETE stages its tombstone.                                            *)
LEMMA StageTombstoneInv ==
  ASSUME Inv, NEW c \in Cmd, StageTombstone(c)
  PROVE  Inv'
<1>1. /\ UNCHANGED stateVars /\ job' = job /\ rec' = rec /\ proj' = proj
      /\ acked' = acked /\ tries' = tries /\ req[c].pc = "stage"
      /\ now' = now /\ world' = world /\ lease' = lease /\ faults' = faults
      /\ head' = head /\ receipts' = receipts /\ log' = log /\ staged' = staged \cup {c}
      /\ shead' = shead /\ trans' = trans /\ last' = last
  BY Zenon DEF StageTombstone, clock, stateVars
<1>2. Bucket /\ Memory /\ MemTypes /\ EnvTypes /\ BucketTypes /\ RuleInv
  BY Zenon DEF Inv, Memory, Bucket
<1>3. req[c] \in ReqType /\ ReqOK(c, req[c], log) /\ c \in Deletes
  BY Zenon, <1>1, <1>2 DEF Memory, MemTypes, Requests, ReqOK
<1>4. Grows
  BY Zenon, <1>1, <1>2, NothingGrows DEF Grows
<1>5. ChainWhole' /\ History'
  BY Zenon, <1>1, <1>2, <1>4, StateSide DEF Grows
<1>6. BucketTypes' /\ RuleInv'
  BY Zenon, <1>1, <1>2, <1>3 DEF BucketTypes, RuleInv
<1> DEFINE q == [req[c] EXCEPT !.pc = "cas"]
<1>7. q \in ReqType /\ q.pc = "cas" /\ q.at = req[c].at /\ q.seen = req[c].seen
  BY Zenon, <1>3 DEF ReqType
<1>8. req' = [req EXCEPT ![c] = q]
  BY Zenon, <1>2 DEF StageTombstone, MemTypes
<1> HIDE DEF q
<1>9. ReqOK(c, q, log')
  BY Zenon, <1>1, <1>3, <1>7 DEF ReqOK
<1>10. Memory'
  BY Zenon, <1>1, <1>2, <1>4, <1>7, <1>8, <1>9, RequestMove
<1>11. EnvTypes'
  BY Zenon, <1>1, <1>2 DEF EnvTypes
<1> QED
  BY Zenon, <1>5, <1>6, <1>10, <1>11 DEF Inv, Bucket

(* A command's receipt is created, or found to exist.                        *)
LEMMA PutReceiptInv ==
  ASSUME Inv, NEW c \in Cmd, PutReceipt(c)
  PROVE  Inv'
<1>1. /\ UNCHANGED stateVars /\ job' = job /\ rec' = rec /\ proj' = proj
      /\ acked' = acked /\ tries' = tries /\ req[c].pc = "receipt"
      /\ now' = now /\ world' = world /\ lease' = lease /\ faults' = faults
      /\ head' = head /\ receipts' = receipts \cup {c} /\ log' = log /\ staged' = staged
      /\ shead' = shead /\ trans' = trans /\ last' = last
  BY Zenon DEF PutReceipt, clock, stateVars
<1>2. Bucket /\ Memory /\ MemTypes /\ EnvTypes /\ BucketTypes /\ RuleInv
  BY Zenon DEF Inv, Memory, Bucket
<1>3. req[c] \in ReqType /\ ReqOK(c, req[c], log) /\ c \in Puts /\ In(log, c)
  BY Zenon, <1>1, <1>2 DEF Memory, MemTypes, Requests, ReqOK
<1>4. Grows
  BY Zenon, <1>1, <1>2, NothingGrows DEF Grows
<1>5. ChainWhole' /\ History'
  BY Zenon, <1>1, <1>2, <1>4, StateSide DEF Grows
<1>6. BucketTypes' /\ RuleInv'
  BY Zenon, <1>1, <1>2, <1>3 DEF BucketTypes, RuleInv
<1> DEFINE q == [req[c] EXCEPT !.pc = "fold"]
<1>7. q \in ReqType /\ q.pc = "fold" /\ q.at = req[c].at
  BY Zenon, <1>3 DEF ReqType
<1>8. req' = [req EXCEPT ![c] = q]
  BY Zenon, <1>2 DEF PutReceipt, MemTypes
<1> HIDE DEF q
<1>9. ReqOK(c, q, log')
  BY Zenon, <1>1, <1>3, <1>7 DEF ReqOK
<1>10. Memory'
  BY Zenon, <1>1, <1>2, <1>4, <1>7, <1>8, <1>9, RequestMove
<1>11. EnvTypes'
  BY Zenon, <1>1, <1>2 DEF EnvTypes
<1> QED
  BY Zenon, <1>5, <1>6, <1>10, <1>11 DEF Inv, Bucket

(* The compare-and-swap of the rule head: the command takes the next         *)
(* revision of a live head, or deletes it.                                   *)
LEMMA TookBucket ==
  ASSUME Bucket, NEW c \in Cmd, NEW q \in ReqType, ReqOK(c, q, log), q.pc = "cas",
         head = q.seen, head' = HeadOf(c), log' = Append(log, c),
         UNCHANGED <<receipts, staged, stateVars>>
  PROVE  Bucket' /\ Grows /\ In(log', c)
<1>1. BucketTypes /\ RuleInv
  BY Zenon DEF Bucket
<1>2. /\ receipts' = receipts /\ staged' = staged
      /\ shead' = shead /\ trans' = trans /\ last' = last
  BY Zenon DEF stateVars
<1>3. /\ HeadOK(head, log) /\ head.rev \in Nat /\ head \in RuleHead
      /\ ~head.deleted => head.rev = Len(log) /\ \A k \in 1..Len(log) : log[k] \in Puts
  BY Zenon, <1>1, LogFacts DEF BucketTypes
<1>4. /\ head' \in RuleHead /\ head'.rev = RevOf[c] /\ RevOf[c] \in Nat
      /\ c \in Puts <=> c \notin Deletes
  BY Zenon, HeadOfFacts
<1>5. /\ c \in Puts => IF head.rev = 0 THEN RevOf[c] = 1
                       ELSE ~head.deleted /\ head.rev + 1 = RevOf[c]
      /\ c \in Deletes => ~head.deleted /\ head.rev = RevOf[c]
  BY Zenon DEF ReqOK
<1>6. ~head.deleted
  <2>1. CASE head.rev = 0
    BY <1>3, <2>1 DEF HeadOK, NoHead
  <2>2. CASE head.rev # 0
    BY Zenon, <1>4, <1>5, <2>2
  <2> QED
    BY Zenon, <2>1, <2>2
<1>7. /\ log \in Seq(Cmd) /\ log' \in Seq(Cmd) /\ Len(log) \in Nat
      /\ Len(log') = Len(log) + 1 /\ log'[Len(log')] = c
      /\ \A k \in 1..Len(log) : log'[k] = log[k]
  BY <1>1 DEF BucketTypes
<1>8. In(log', c) /\ LogGrows(log, log')
  BY <1>7 DEF In, LogGrows
<1>9. HeadGrows(head, head')
  BY <1>3, <1>4, <1>5, <1>6 DEF HeadGrows
<1>10. Grows
  BY Zenon, <1>1, <1>2, <1>8, <1>9, NothingGrows DEF Grows
<1>11. ASSUME NEW k \in 1..Len(log')
       PROVE  IF log'[k] \in Puts THEN RevOf[log'[k]] = k
              ELSE k = Len(log') /\ RevOf[log'[k]] + 1 = k
  <2>1. CASE k \in 1..Len(log)
    <3>1. log'[k] = log[k] /\ log[k] \in Puts /\ RevOf[log[k]] = k
      BY Zenon, <1>1, <1>3, <1>6, <1>7, <2>1 DEF RuleInv
    <3> QED
      BY Zenon, <3>1
  <2>2. CASE k = Len(log')
    <3>1. log'[k] = c /\ k = head.rev + 1
      BY Zenon, <1>3, <1>6, <1>7, <2>2
    <3> QED
      BY <1>3, <1>4, <1>5, <2>2, <3>1
  <2> QED
    BY <1>7, <2>1, <2>2
<1>12. \A d \in receipts' : In(log', d)
  BY Zenon, <1>1, <1>2, <1>8 DEF RuleInv, LogGrows
<1>13. log' # <<>>
  BY <1>7
<1>14. RuleInv'
  BY Zenon, <1>7, <1>11, <1>12, <1>13 DEF RuleInv, HeadOf
<1>15. BucketTypes'
  BY Zenon, <1>1, <1>2, <1>4, <1>7 DEF BucketTypes
<1>16. ChainWhole' /\ History'
  BY Zenon, <1>8, StateSide
<1> QED
  BY Zenon, <1>8, <1>10, <1>14, <1>15, <1>16 DEF Bucket

(* A command replaces the rule head if it is still the one read.             *)
LEMMA CasHeadInv ==
  ASSUME Inv, NEW c \in Cmd, CasHead(c)
  PROVE  Inv'
<1> DEFINE next == IF c \in Deletes THEN "fold" ELSE "receipt"
<1>1. /\ UNCHANGED <<receipts, staged, stateVars>> /\ job' = job /\ rec' = rec
      /\ proj' = proj /\ acked' = acked /\ tries' = tries /\ req[c].pc = "cas"
      /\ now' = now /\ world' = world /\ lease' = lease
  BY Zenon DEF CasHead, clock
<1>2. Bucket /\ Memory /\ MemTypes /\ EnvTypes
  BY Zenon DEF Inv, Memory
<1>3. /\ req[c] \in ReqType /\ ReqOK(c, req[c], log) /\ req[c].at \in Inst
      /\ c \in Puts \/ c \in Deletes
  BY Zenon, <1>1, <1>2 DEF Memory, MemTypes, Requests, ReqOK, Cmd
<1>4. faults' \in Nat
  BY Zenon, <1>2, FewerFaults DEF EnvTypes, CasHead
<1>5. EnvTypes'
  BY Zenon, <1>1, <1>2, <1>4 DEF EnvTypes
<1>6. ASSUME Bucket', Grows, req' = [req EXCEPT ![c] = IdleReq]
      PROVE  Inv'
  <2>1. Memory'
    BY Zenon, <1>1, <1>2, <1>6, IdleReqOK, RequestMove
  <2> QED
    BY Zenon, <1>5, <1>6, <2>1 DEF Inv
<1>7. CASE head = req[c].seen /\ head' = HeadOf(c) /\ log' = Append(log, c)
  <2>1. Bucket' /\ Grows /\ In(log', c)
    BY Zenon, <1>1, <1>2, <1>3, <1>7, TookBucket
  <2>2. CASE req' = [req EXCEPT ![c].pc = next]
    <3> DEFINE q == [req[c] EXCEPT !.pc = next]
    <3>1. next \in {"fold", "receipt"} /\ (next = "receipt" => c \in Puts)
      BY Zenon, <1>3
    <3>2. q \in ReqType /\ q.pc = next /\ q.at = req[c].at
      BY Zenon, <1>3, <3>1 DEF ReqType
    <3>3. req' = [req EXCEPT ![c] = q]
      BY Zenon, <1>2, <2>2 DEF MemTypes
    <3> HIDE DEF q, next
    <3>4. ReqOK(c, q, log')
      BY Zenon, <1>3, <2>1, <3>1, <3>2 DEF ReqOK
    <3>5. Memory'
      BY Zenon, <1>1, <1>2, <2>1, <3>2, <3>3, <3>4, RequestMove
    <3> QED
      BY Zenon, <1>5, <2>1, <3>5 DEF Inv
  <2>3. CASE req' = [req EXCEPT ![c] = IdleReq]
    BY Zenon, <1>6, <2>1, <2>3
  <2> QED
    BY Zenon, <1>7, <2>2, <2>3 DEF CasHead
<1>8. CASE UNCHANGED <<head, log>> /\ req' = [req EXCEPT ![c] = IdleReq]
  <2>1. UNCHANGED <<ruleVars, stateVars>>
    BY Zenon, <1>1, <1>8 DEF ruleVars
  <2>2. Bucket' /\ Grows
    BY Zenon, <1>2, <2>1, SameBucket
  <2> QED
    BY Zenon, <1>6, <1>8, <2>2
<1> QED
  BY Zenon, <1>7, <1>8 DEF CasHead

(* A command is folded into the projection and answered.                     *)
LEMMA FoldAndAnswerInv ==
  ASSUME Inv, NEW c \in Cmd, FoldAndAnswer(c)
  PROVE  Inv'
<1> DEFINE i == req[c].at
<1>1. /\ UNCHANGED <<ruleVars, stateVars>> /\ job' = job /\ rec' = rec /\ tries' = tries
      /\ now' = now /\ world' = world /\ lease' = lease /\ faults' = faults
      /\ req[c].pc = "fold" /\ Answer(c, i) /\ req' = [req EXCEPT ![c] = IdleReq]
  BY Zenon DEF FoldAndAnswer, clock
<1>2. /\ Bucket /\ Memory /\ MemTypes /\ EnvTypes /\ Bucket' /\ Grows
      /\ BucketTypes /\ RuleInv
  BY Zenon, <1>1, SameBucket DEF Inv, Memory, Bucket
<1>3. log' = log /\ head' = head /\ shead' = shead
  BY Zenon, <1>1 DEF ruleVars, stateVars
<1>4. i \in Inst /\ In(log, c)
  BY Zenon, <1>1, <1>2 DEF Memory, Requests, ReqOK
<1>5. ProjOK(proj[i], log, head, shead.state)
  BY Zenon, <1>2, <1>3, <1>4, MemoryKept
<1>6. EnvTypes'
  BY Zenon, <1>1, <1>2 DEF EnvTypes
<1> HIDE DEF i
<1>7. ASSUME NEW p, proj' = [proj EXCEPT ![i] = p],
             ProjStep(proj[i], p, log, head, shead.state),
             \/ acked' = acked
             \/ acked' = [acked EXCEPT ![c] = i] /\ Kept1(c, p)
      PROVE  Inv'
  <2>1. Memory'
    BY Zenon, <1>1, <1>2, <1>3, <1>4, <1>7, IdleReqOK, AnswerMove
  <2> QED
    BY Zenon, <1>2, <1>6, <2>1 DEF Inv
<1>8. CASE c \in Deletes
  <2> DEFINE p == TombstoneMonitor(proj[i], RevOf[c])
  <2>1. proj' = [proj EXCEPT ![i] = p]
    BY Zenon, <1>8 DEF FoldAndAnswer, i
  <2>2. head = HeadOf(c)
    BY Zenon, <1>2, <1>4, <1>8, LogFacts
  <2>3. /\ ProjStep(proj[i], p, log, head, shead.state)
        /\ acked' = [acked EXCEPT ![c] = i] /\ Kept1(c, p)
    BY Zenon, <1>1, <1>2, <1>4, <1>5, <1>8, <2>2, DeleteAnswer
  <2> QED
    BY Zenon, <1>7, <2>1, <2>3
<1>9. CASE c \notin Deletes
  <2> DEFINE p == FoldRule(proj[i], HeadOf(c))
  <2>1. proj' = [proj EXCEPT ![i] = p]
    BY Zenon, <1>9 DEF FoldAndAnswer, i
  <2>2. c \in Puts
    BY Zenon, <1>9 DEF Cmd
  <2>3. RowOK(HeadOf(c), log, head) /\ ~HeadOf(c).deleted
    BY Zenon, <1>2, <1>4, <2>2, TakenRow
  <2>4. HeadOf(c).rev >= RevOf[c]
    BY HeadOfFacts
  <2>5. /\ ProjStep(proj[i], p, log, head, shead.state)
        /\ \/ acked' = acked
           \/ acked' = [acked EXCEPT ![c] = i] /\ Kept1(c, p)
    BY Zenon, <1>1, <1>2, <1>4, <1>5, <2>1, <2>2, <2>3, <2>4, PutAnswer
  <2> QED
    BY Zenon, <1>7, <2>1, <2>5
<1> QED
  BY Zenon, <1>8, <1>9

-----------------------------------------------------------------------------
(* The theorems.                                                             *)

(* The invariant holds initially.                                            *)
LEMMA InitInv == Init => Inv
<1> SUFFICES ASSUME Init PROVE Inv
  OBVIOUS
<1>1. BucketTypes /\ RuleInv /\ ChainWhole /\ History
  <2>1. log = <<>> /\ Len(log) = 0 /\ head = NoHead /\ shead = NoStateHead /\ trans = {}
        /\ receipts = {} /\ staged = {} /\ last = NoLast
    BY Zenon DEF Init
  <2>2. BucketTypes
    BY <2>1, NothingTypes DEF BucketTypes
  <2>3. RuleInv /\ ChainWhole /\ History
    BY <2>1 DEF RuleInv, ChainWhole, History, HistoryOK
  <2> QED
    BY Zenon, <2>2, <2>3
<1>2. MemTypes
  BY Zenon, NothingTypes DEF Init, MemTypes
<1>3. \A i \in Inst : proj[i] = NoProj /\ job[i] = IdleJob /\ rec[i] = IdleRec
  BY Zenon DEF Init
<1>4. \A c \in Cmd : req[c] = IdleReq /\ acked[c] = Nobody
  BY Zenon DEF Init
<1>5. Requests /\ Acks /\ Answered
  BY Zenon, <1>4, IdleReqOK DEF Requests, Acks, Answered
<1>6. Projections
  <2>1. RowOK(NoHead, log, head)
    BY NothingTypes DEF Init, RowOK, HeadOK, NoHead
  <2>2. StateOK(NoState, shead.state) /\ NoProj.row = NoHead /\ NoProj.state = NoState
    BY Zenon, NothingTypes DEF StateOK, NoProj
  <2> QED
    BY Zenon, <1>3, <2>1, <2>2 DEF Projections
<1>7. Reconciles /\ Jobs
  BY Zenon, <1>3, IdleRecOK, IdleJobOK DEF Reconciles, Jobs
<1>8. EnvTypes
  BY Zenon, AlertsAssumption DEF Init, EnvTypes
<1> QED
  BY Zenon, <1>1, <1>2, <1>5, <1>6, <1>7, <1>8 DEF Inv, Bucket, Memory

(* Every step keeps the invariant.                                           *)
LEMMA NextInv ==
  ASSUME Inv, [Next]_vars
  PROVE  Inv'
<1>1. CASE Tick
  BY Zenon, <1>1, TickInv
<1>2. CASE ExpireLease \/ LoseLease
  BY Zenon, <1>2, LeaseEndsInv
<1>3. ASSUME NEW i \in Inst, Crash(i)
      PROVE  Inv'
  BY Zenon, <1>3, CrashInv
<1>4. world.evaluators \subseteq Inst /\ world.control \subseteq Inst /\ Reconcilers \subseteq Inst
  BY Zenon, AlertsAssumption DEF Inv, EnvTypes
<1>5. ASSUME NEW i \in Inst, Dispatch(i) \/ JobRuns(i) \/ JobFails(i)
      PROVE  Inv'
  BY ZenonT(60), <1>5, DispatchInv, JobFailsInv, AcquireInv, ReadStateAndQueryInv, RecheckInv,
     PutTransitionInv, PutHeadInv, FoldCommittedInv DEF JobRuns
<1>6. ASSUME NEW i \in Inst, ReconcileRuns(i) \/ ReconcileFails(i)
      PROVE  Inv'
  BY Zenon, <1>6, LoadHeadInv, LoadStateInv, ReconcileFoldInv, ReconcileFailsInv DEF ReconcileRuns
<1>7. ASSUME NEW c \in Puts, NEW i \in Inst, AdmitPut(c, i)
      PROVE  Inv'
  BY Zenon, <1>7, AdmitPutInv
<1>8. ASSUME NEW c \in Deletes, NEW i \in Inst, AdmitDelete(c, i)
      PROVE  Inv'
  BY Zenon, <1>8, AdmitDeleteInv
<1>9. ASSUME NEW c \in Cmd, RequestRuns(c)
      PROVE  Inv'
  BY Zenon, <1>9, PublishReadInv, StageTombstoneInv, CasHeadInv, PutReceiptInv, FoldAndAnswerInv
     DEF RequestRuns
<1>10. CASE UNCHANGED vars
  <2>1. /\ UNCHANGED <<ruleVars, stateVars>>
        /\ UNCHANGED <<head, shead, trans, log, proj, job, rec, req, acked>>
    BY Zenon, <1>10 DEF vars, ruleVars, stateVars
  <2>2. Bucket' /\ Memory'
    BY Zenon, <2>1, SameBucket, SameMemory DEF Inv
  <2>3. EnvTypes'
    BY Zenon, <1>10 DEF Inv, EnvTypes, vars
  <2> QED
    BY Zenon, <2>2, <2>3 DEF Inv
<1> QED
  BY ZenonT(60), <1>1, <1>2, <1>3, <1>4, <1>5, <1>6, <1>7, <1>8, <1>9, <1>10 DEF Next

(* Inv is an inductive invariant of the monitor.                             *)
THEOREM Invariance == Spec => []Inv
<1>1. Init => Inv
  BY Zenon, InitInv
<1>2. Inv /\ [Next]_vars => Inv'
  BY Zenon, NextInv
<1> QED
  BY <1>1, <1>2, PTL DEF Spec

(* Every variable keeps its type, the log of commands included.              *)
THEOREM AlertsTypeCorrect == Spec => []TypeOK
<1>1. Inv => TypeOK
  BY Zenon DEF Inv, EnvTypes, Bucket, BucketTypes, Memory, MemTypes, TypeOK, ProjType, JobType,
         RecType, ReqType
<1> QED
  BY <1>1, Invariance, PTL

(* commit_state: whatever losing, failed or crashed writers leave behind,    *)
(* the transition chain can be walked from the state head to sequence 1.     *)
THEOREM ChainIsWhole == Spec => []ChainWhole
<1>1. Inv => ChainWhole
  BY Zenon DEF Inv, Bucket
<1> QED
  BY <1>1, Invariance, PTL

(* evaluate(): a status is earned, for every rule and every schedule of      *)
(* edits, takeovers and skipped slots.                                       *)
THEOREM StatusIsEarned == Spec => []StatusEarned
<1>1. Inv => StatusEarned
  BY Zenon DEF Inv, Bucket, History, HistoryOK, Earned, StatusEarned
<1> QED
  BY <1>1, Invariance, PTL

(* create_rule_revision, tombstone_rule: one command per revision, none      *)
(* after a delete, and an acknowledged command is one of them.               *)
THEOREM CommandsTakenOnce == Spec => []CommandsOnce
<1>1. Inv => CommandsOnce
  BY Zenon DEF Inv, Bucket, RuleInv, Memory, Answered, In, CommandsOnce
<1> QED
  BY <1>1, Invariance, PTL

(* fold_rule, fold_state, prune_monitors: no instance shows what the bucket  *)
(* does not hold, or loses a command it acknowledged.                        *)
THEOREM ProjectionsAreHonest == Spec => []ProjectionHonest
<1>1. ASSUME Inv
      PROVE  ProjectionHonest
  <2>1. \A i \in Inst : RowOK(proj[i].row, log, head) /\ StateOK(proj[i].state, shead.state)
    BY Zenon, <1>1 DEF Inv, Memory, Projections
  <2>2. \A i \in Inst : /\ proj[i].row.rev <= head.rev
                        /\ proj[i].row.deleted => head.deleted
                        /\ proj[i].state # NoState =>
                             Covers(shead.state, proj[i].state.revision, proj[i].state.slot)
    BY Zenon, <2>1 DEF RowOK, StateOK
  <2>3. \A c \in Cmd : acked[c] # Nobody =>
          /\ proj[acked[c]].row.rev >= RevOf[c]
          /\ c \in Deletes => proj[acked[c]].row.deleted
    BY Zenon, <1>1 DEF Inv, Memory, Acks, Kept1
  <2> QED
    BY Zenon, <2>2, <2>3 DEF ProjectionHonest
<1> QED
  BY <1>1, Invariance, PTL

(* Only a commit moves the state head.                                       *)
LEMMA HeadMoves ==
  ASSUME Inv, [Next]_vars, shead' # shead
  PROVE  \E i \in Inst : /\ job[i].pc = "head" /\ shead = job[i].prior /\ Commit(job[i])
                         /\ UNCHANGED <<ruleVars, trans>>
<1>1. world.evaluators \subseteq Inst
  BY Zenon, AlertsAssumption DEF Inv, EnvTypes
<1>2. \A i \in Inst : PutHead(i) => /\ job[i].pc = "head" /\ shead = job[i].prior
                                    /\ Commit(job[i]) /\ UNCHANGED <<ruleVars, trans>>
  BY Zenon DEF PutHead
<1>3. \E i \in world.evaluators : PutHead(i)
  BY ZenonT(60) DEF Next, vars, Tick, ExpireLease, LoseLease, Crash, Dispatch, JobRuns, Acquire,
         ReadStateAndQuery, Recheck, PutTransition, FoldCommitted, JobFails, ReconcileRuns,
         LoadHead, LoadState, ReconcileFold, ReconcileFails, AdmitPut, AdmitDelete,
         RequestRuns, PublishRead, StageTombstone, CasHead, PutReceipt, FoldAndAnswer,
         stateVars
<1> QED
  BY Zenon, <1>1, <1>2, <1>3

(* put_state_head: the state head only moves up, and chains a transition     *)
(* exactly when the status changes.                                          *)
THEOREM HeadOnlyAdvances == Spec => HeadAdvances
<1> DEFINE A == shead' # shead =>
                  /\ ~Covers(shead.state, shead'.state.revision, shead'.state.slot)
                  /\ IF shead'.state.status = shead.state.status
                     THEN shead'.latest = shead.latest
                     ELSE shead'.latest.previous_key = Key(shead.latest)
<1>1. ASSUME Inv, [Next]_vars
      PROVE  [A]_vars
  <2>1. SUFFICES ASSUME shead' # shead
                 PROVE  A
    BY Zenon DEF vars
  <2>2. PICK i \in Inst : /\ job[i].pc = "head" /\ shead = job[i].prior /\ Commit(job[i])
                          /\ UNCHANGED <<ruleVars, trans>>
    BY Zenon, <1>1, <2>1, HeadMoves
  <2>3. /\ Bucket /\ job[i] \in JobType /\ JobOK(job[i], log, shead.state, trans)
    BY Zenon, <1>1 DEF Inv, Memory, MemTypes, Jobs
  <2>4. /\ shead'.state = job[i].next
        /\ ~Covers(shead.state, job[i].next.revision, job[i].next.slot)
        /\ shead'.latest = IF job[i].next.status = shead.state.status
                           THEN shead.latest ELSE NewRecord(job[i])
    BY Zenon, <2>2, <2>3, CommitBucket
  <2>5. NewRecord(job[i]).previous_key = Key(shead.latest)
    BY Zenon, <2>2 DEF NewRecord
  <2> QED
    BY Zenon, <2>4, <2>5
<1> QED
  BY <1>1, Invariance, PTL DEF Spec, HeadAdvances

=============================================================================
