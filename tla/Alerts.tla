------------------------------- MODULE Alerts -------------------------------
(* One monitor, evaluated and edited by several alertd instances over one    *)
(* bucket.  Per-monitor objects, leases and rows are disjoint, so a fleet is *)
(* a set of copies of this module.                                           *)
(*                                                                           *)
(*   now       the wall clock                                                *)
(*   world     the scenario: where the clock stops, what queries may answer, *)
(*             which instances get commands and which evaluate               *)
(*   head      the rule head object; its revision's body is RuleOf[head.cmd] *)
(*   shead     the state head object: the state, and the transition record   *)
(*             whose key and digest it carries                               *)
(*   trans     the transition records in the bucket                          *)
(*   receipts, staged                                                        *)
(*             commands with a mutation receipt, with a tombstone object     *)
(*   lease     the holder of lease/alert/eval/<id> (module Lease: a passing  *)
(*             fence.check() implies the lease is held)                      *)
(*   proj      alerts.sqlite of each instance: the monitors row, whether it  *)
(*             was stamped after the reconcile epoch, and current_state      *)
(*   job, rec  each instance's evaluation task and reconciliation pass       *)
(*   req, tries, acked                                                       *)
(*             the running handler of each command, how often the client     *)
(*             will still send it, and the instance that acknowledged it     *)
(*   log       commands in the order the rule head took them (history)       *)
(*   last      how the state head came to be (history)                       *)
(*   faults    faults that may still happen                                  *)
EXTENDS AlertState, Sequences

CONSTANTS Inst, Reconcilers, Puts, Deletes, RevOf, RuleOf,
          Scenarios, Nobody, NoCmd

Cmd == Puts \cup Deletes

ASSUME AlertsAssumption ==
  /\ Reconcilers \subseteq Inst
  /\ Puts \cap Deletes = {} /\ NoCmd \notin Cmd /\ Nobody \notin Inst
  /\ RevOf \in [Cmd -> Nat \ {0}]
  /\ RuleOf \in [Puts -> Rule]
  /\ Scenarios \subseteq [tries : [Cmd -> Nat], horizon : Nat, faults : Nat,
                          outcomes : SUBSET Outcome, control : SUBSET Inst,
                          evaluators : SUBSET Inst]

VARIABLES now, world, head, shead, trans, receipts, staged, lease, proj, job, rec,
          req, tries, acked, log, last, faults

clock     == <<now, world>>
ruleVars  == <<head, receipts, staged, log>>
stateVars == <<shead, trans, last>>
ctlVars   == <<req, tries, acked>>
vars == <<now, world, head, shead, trans, receipts, staged, lease, proj, job, rec,
          req, tries, acked, log, last, faults>>

RuleHead == [rev : Nat, cmd : Cmd \cup {NoCmd}, deleted : BOOLEAN]
NoHead   == [rev |-> 0, cmd |-> NoCmd, deleted |-> FALSE]

(* A transition record; its key is (sequence, revision, slot, status).       *)
Record == [state : AlertStates, outcome : Outcome \cup {"none"},
           previous : Status \cup {"none"},
           previous_key : Nat \X Nat \X Nat \X (Status \cup {"none"})]
Key(r) == <<r.state.sequence, r.state.revision, r.state.slot, r.state.status>>
NoRecord == [state |-> NoState, outcome |-> "none", previous |-> "none",
             previous_key |-> <<0, 0, 0, "none">>]
StateHead   == [state : AlertStates, latest : Record]
NoStateHead == [state |-> NoState, latest |-> NoRecord]

NoProj  == [row |-> NoHead, fresh |-> FALSE, state |-> NoState]
IdleJob == [pc |-> "idle", rule |-> NoHead, slot |-> 0, prior |-> NoStateHead,
            outcome |-> "none", next |-> NoState]
IdleRec == [pc |-> "idle", loaded |-> "absent", row |-> NoHead, state |-> NoState]
IdleReq == [pc |-> "idle", at |-> Nobody, seen |-> NoHead]

NoTime  == -1
NoLast  == [active |-> FALSE, outcome |-> "none", cmd |-> NoCmd, at |-> 0,
            held |-> NoTime, calm |-> NoTime]
Last    == [active : BOOLEAN, outcome : Outcome \cup {"none"}, cmd : Cmd \cup {NoCmd},
            at : Nat, held : Nat \cup {NoTime}, calm : Nat \cup {NoTime}]

TypeOK ==
  /\ now \in Nat /\ world \in Scenarios
  /\ head \in RuleHead
  /\ shead \in StateHead
  /\ trans \subseteq Record
  /\ receipts \subseteq Puts /\ staged \subseteq Deletes
  /\ lease \in Inst \cup {Nobody}
  /\ proj \in [Inst -> [row : RuleHead, fresh : BOOLEAN, state : AlertStates]]
  /\ job \in [Inst -> [pc : {"idle", "queued", "state", "recheck",
                             "trans", "head", "fold"},
                       rule : RuleHead, slot : Nat, prior : StateHead,
                       outcome : Outcome \cup {"none"}, next : AlertStates]]
  /\ rec \in [Inst -> [pc : {"idle", "state", "fold"},
                       loaded : {"absent", "live", "deleted"},
                       row : RuleHead, state : AlertStates]]
  /\ req \in [Cmd -> [pc : {"idle", "publish", "stage", "cas", "receipt", "fold"},
                      at : Inst \cup {Nobody}, seen : RuleHead]]
  /\ tries \in [Cmd -> Nat]
  /\ acked \in [Cmd -> Inst \cup {Nobody}]
  /\ log \in Seq(Cmd) /\ last \in Last
  /\ faults \in Nat

(* Nothing is stored; a scenario says how far the clock runs, which         *)
(* commands clients will send and how many faults may happen.                *)
Init ==
  /\ head = NoHead /\ shead = NoStateHead /\ trans = {}
  /\ receipts = {} /\ staged = {} /\ lease = Nobody
  /\ proj = [i \in Inst |-> NoProj]
  /\ job = [i \in Inst |-> IdleJob] /\ rec = [i \in Inst |-> IdleRec]
  /\ req = [c \in Cmd |-> IdleReq]
  /\ acked = [c \in Cmd |-> Nobody]
  /\ log = <<>> /\ last = NoLast
  /\ now = 0
  /\ world \in Scenarios
  /\ tries = world.tries /\ faults = world.faults

-----------------------------------------------------------------------------
(* alerts.sqlite: each method is one transaction on the instance's file.     *)

(* Variant: a row that exists is left as it is.                              *)
FoldRuleOnce(p, h) ==
  IF p.row.rev = 0 THEN [p EXCEPT !.row = h, !.fresh = TRUE] ELSE p

FoldRule(p, h) ==
  IF p.row.rev = 0 \/ (~p.row.deleted /\ h.rev > p.row.rev)
  THEN [p EXCEPT !.row = h, !.fresh = TRUE] ELSE p

TombstoneMonitor(p, rev) ==
  IF p.row.deleted THEN [p EXCEPT !.state = NoState] ELSE
  [row |-> [rev |-> IF rev > p.row.rev THEN rev ELSE p.row.rev,
            cmd |-> NoCmd, deleted |-> TRUE],
   fresh |-> TRUE, state |-> NoState]

(* Only a state newer in (revision, slot) order replaces the row.            *)
FoldState(p, s) ==
  IF ~p.row.deleted /\ s.revision > 0 /\ ~Covers(p.state, s.revision, s.slot)
  THEN [p EXCEPT !.state = s] ELSE p

(* Variant: prune every unlisted row, whatever its stamp.                    *)
PruneAll(p) == NoProj

(* A row folded after the epoch was captured is one the listing could not    *)
(* have seen.                                                                *)
PruneMonitors(p) == IF p.fresh THEN p ELSE NoProj

-----------------------------------------------------------------------------
(* Time, leases and crashes.                                                 *)

Tick ==
  /\ now < world.horizon
  /\ now' = now + 1
  /\ UNCHANGED <<world, ruleVars, stateVars, lease, proj, job, rec, ctlVars, faults>>

(* The holder is gone and its TTL runs out.                                  *)
ExpireLease ==
  /\ lease # Nobody /\ job[lease].pc \in {"idle", "queued"}
  /\ lease' = Nobody
  /\ UNCHANGED <<clock, ruleVars, stateVars, proj, job, rec, ctlVars, faults>>

(* The holder's renewals fail for a whole TTL while its job still runs.      *)
LoseLease ==
  /\ lease # Nobody /\ job[lease].pc \notin {"idle", "queued"}
  /\ faults > 0 /\ faults' = faults - 1
  /\ lease' = Nobody
  /\ UNCHANGED <<clock, ruleVars, stateVars, proj, job, rec, ctlVars>>

(* A process dies; its tasks and handlers vanish, alerts.sqlite stays.       *)
Crash(i) ==
  /\ faults > 0
  /\ faults' = faults - 1
  /\ job' = [job EXCEPT ![i] = IdleJob]
  /\ rec' = [rec EXCEPT ![i] = IdleRec]
  /\ req' = [c \in Cmd |-> IF req[c].at = i THEN IdleReq ELSE req[c]]
  /\ UNCHANGED <<clock, ruleVars, stateVars, lease, proj, tries, acked>>

-----------------------------------------------------------------------------
(* Evaluation of one slot: scheduler tick, run_job, evaluate_under_guard.    *)

(* due_slot: not covered by the projected state, and a disabled monitor not  *)
(* already recorded as disabled at its revision.                             *)
Due(p, n) ==
  /\ ~Covers(p.state, p.row.rev, n)
  /\ ~(/\ ~RuleOf[p.row.cmd].enabled
       /\ p.state.revision = p.row.rev
       /\ p.state.status = "disabled")

(* A tick dispatches the due slot of a monitor that is not in flight.        *)
Dispatch(i) ==
  /\ job[i].pc = "idle"
  /\ proj[i].row.rev > 0 /\ ~proj[i].row.deleted
  /\ \E n \in DueSlots(RuleOf[proj[i].row.cmd], now) :
       /\ Due(proj[i], n)
       /\ job' = [job EXCEPT ![i] = [IdleJob EXCEPT !.pc = "queued",
                                       !.rule = proj[i].row, !.slot = n]]
  /\ UNCHANGED <<clock, ruleVars, stateVars, lease, proj, rec, ctlVars, faults>>

(* The job ends: the guard, if any, is released.                             *)
End(i) ==
  /\ job' = [job EXCEPT ![i] = IdleJob]
  /\ lease' = IF lease = i THEN Nobody ELSE lease

(* fence.check() and rule_is_current for a job that holds the lease: go on   *)
(* as `job` says, or end with the durable rule head folded.                  *)
RuleIsCurrent(i, pc) ==
  \/ /\ head.deleted
     /\ proj' = [proj EXCEPT ![i] = TombstoneMonitor(@, head.rev)]
     /\ job' = [job EXCEPT ![i] = IdleJob] /\ lease' = Nobody
  \/ /\ ~head.deleted /\ head.rev = job[i].rule.rev
     /\ job' = [job EXCEPT ![i].pc = pc] /\ lease' = i
     /\ UNCHANGED proj
  \/ /\ ~head.deleted /\ head.rev > job[i].rule.rev
     /\ proj' = [proj EXCEPT ![i] = FoldRule(@, head)]
     /\ job' = [job EXCEPT ![i] = IdleJob] /\ lease' = Nobody

(* run_job re-reads the row, then try_acquire: a changed row, a held lease   *)
(* and an unreachable backend end the job.  With the lease, the rule head is *)
(* read; what changes between the two is caught again by Recheck.            *)
Acquire(i) ==
  /\ job[i].pc = "queued"
  /\ \/ /\ proj[i].row = job[i].rule /\ lease = Nobody
        /\ RuleIsCurrent(i, "state")
        /\ UNCHANGED faults
     \/ /\ proj[i].row # job[i].rule \/ lease # Nobody
        /\ job' = [job EXCEPT ![i] = IdleJob]
        /\ UNCHANGED <<lease, proj, faults>>
     \/ /\ faults > 0 /\ faults' = faults - 1
        /\ job' = [job EXCEPT ![i] = IdleJob]
        /\ UNCHANGED <<lease, proj>>
  /\ UNCHANGED <<clock, ruleVars, stateVars, rec, ctlVars>>

(* A state head of a newer revision, or one that covers the slot, is folded  *)
(* and ends the job without a query.  Otherwise the query runs; its answer   *)
(* is open, and a disabled monitor is not queried.                           *)
ReadStateAndQuery(i) ==
  LET j == job[i]
      rule == RuleOf[j.rule.cmd] IN
  /\ j.pc = "state"
  /\ \/ /\ Covers(shead.state, j.rule.rev, j.slot)
        /\ proj' = [proj EXCEPT ![i] = FoldState(@, shead.state)]
        /\ End(i)
     \/ /\ ~Covers(shead.state, j.rule.rev, j.slot)
        /\ \E o \in IF rule.enabled THEN world.outcomes ELSE {"no_data"} :
             job' = [job EXCEPT ![i].pc = "recheck", ![i].prior = shead, ![i].outcome = o,
                       ![i].next = Evaluate(rule, j.rule.rev, shead.state, o, j.slot,
                                            SlotEnd(rule, j.slot))]
        /\ UNCHANGED <<lease, proj>>
  /\ UNCHANGED <<clock, ruleVars, stateVars, rec, ctlVars, faults>>

Recheck(i) ==
  LET j == job[i] IN
  /\ j.pc = "recheck"
  /\ \/ lease # i /\ End(i) /\ UNCHANGED proj
     \/ /\ lease = i
        /\ RuleIsCurrent(i, IF j.next.status = j.prior.state.status THEN "head" ELSE "trans")
  /\ UNCHANGED <<clock, ruleVars, stateVars, rec, ctlVars, faults>>

NewRecord(j) ==
  [state |-> j.next, outcome |-> j.outcome, previous |-> j.prior.state.status,
   previous_key |-> Key(j.prior.latest)]

(* Variant: the record overwrites whatever its key holds.                    *)
PutTransitionOver(i) ==
  LET r == NewRecord(job[i]) IN
  /\ job[i].pc = "trans"
  /\ trans' = {q \in trans : Key(q) # Key(r)} \cup {r}
  /\ job' = [job EXCEPT ![i].pc = "head"]
  /\ UNCHANGED <<clock, ruleVars, shead, last, lease, proj, rec, ctlVars, faults>>

(* commit_state, first PUT: create the record; identical bytes are success,  *)
(* others a collision.  An error leaves it unknown whether it was written.   *)
PutTransition(i) ==
  LET r == NewRecord(job[i])
      taken == \E q \in trans : Key(q) = Key(r) IN
  /\ job[i].pc = "trans"
  /\ \/ /\ ~taken \/ r \in trans
        /\ trans' = trans \cup {r}
        /\ job' = [job EXCEPT ![i].pc = "head"]
        /\ UNCHANGED <<lease, faults>>
     \/ /\ taken /\ r \notin trans
        /\ End(i)
        /\ UNCHANGED <<trans, faults>>
     \/ /\ ~taken /\ faults > 0 /\ faults' = faults - 1
        /\ trans' \in {trans, trans \cup {r}}
        /\ End(i)
  /\ UNCHANGED <<clock, ruleVars, shead, last, proj, rec, ctlVars>>

(* History: since when the condition has held under this revision, and since *)
(* when it has been clear with no breach in between.  An edit to a longer    *)
(* interval may take the slots' ends back; the earliest one counts.          *)
Breaches(rule, o) ==
  \/ o = "breach"
  \/ o = "no_data" /\ rule.no_data = "firing"
  \/ o = "error" /\ rule.execution_error = "firing"
Kept(rule, o) == o = "error" /\ rule.execution_error = "keep_last"
NewLast(j) ==
  LET rule == RuleOf[j.rule.cmd]
      at   == SlotEnd(rule, j.slot)
      p    == j.prior.state
      goes == p.revision = j.rule.rev /\ last.held # NoTime
      held == IF ~rule.enabled THEN NoTime
              ELSE IF Breaches(rule, j.outcome) THEN IF goes THEN last.held ELSE at
              ELSE IF ~Kept(rule, j.outcome) THEN NoTime
              ELSE IF goes THEN last.held
              ELSE IF p.status = "pending" THEN at ELSE NoTime
      calm == IF ~rule.enabled \/ Breaches(rule, j.outcome) THEN NoTime
              ELSE IF last.calm = NoTime
              THEN IF j.outcome = "clear" THEN at ELSE NoTime
              ELSE IF at < last.calm THEN at ELSE last.calm
  IN [active |-> IsActive(p), outcome |-> j.outcome, cmd |-> j.rule.cmd,
      at |-> at, held |-> held, calm |-> calm]

Commit(j) ==
  /\ shead' = [state |-> j.next,
               latest |-> IF j.next.status = j.prior.state.status
                          THEN j.prior.latest ELSE NewRecord(j)]
  /\ last' = NewLast(j)

(* Variant: the head is PUT without If-Match.                                *)
PutHeadBlind(i) ==
  /\ job[i].pc = "head"
  /\ Commit(job[i])
  /\ job' = [job EXCEPT ![i].pc = "fold"]
  /\ UNCHANGED <<clock, ruleVars, trans, lease, proj, rec, ctlVars, faults>>

(* Second PUT: compare-and-swap the head from the version read.  A lost race *)
(* folds the winner; an error leaves it unknown whether it was written.      *)
PutHead(i) ==
  LET j == job[i] IN
  /\ j.pc = "head"
  /\ \/ /\ shead = j.prior
        /\ Commit(j)
        /\ job' = [job EXCEPT ![i].pc = "fold"]
        /\ UNCHANGED <<lease, proj, faults>>
     \/ /\ shead # j.prior
        /\ proj' = [proj EXCEPT ![i] = FoldState(@, shead.state)]
        /\ End(i)
        /\ UNCHANGED <<shead, last, faults>>
     \/ /\ shead = j.prior /\ faults > 0 /\ faults' = faults - 1
        /\ Commit(j) \/ UNCHANGED <<shead, last>>
        /\ End(i)
        /\ UNCHANGED proj
  /\ UNCHANGED <<clock, ruleVars, trans, rec, ctlVars>>

FoldCommitted(i) ==
  /\ job[i].pc = "fold"
  /\ proj' = [proj EXCEPT ![i] = FoldState(@, job[i].next)]
  /\ End(i)
  /\ UNCHANGED <<clock, ruleVars, stateVars, rec, ctlVars, faults>>

(* A read of the rule or state head fails, or the query target is unknown.   *)
JobFails(i) ==
  /\ job[i].pc \in {"state", "recheck"}
  /\ faults > 0 /\ faults' = faults - 1
  /\ End(i)
  /\ UNCHANGED <<clock, ruleVars, stateVars, proj, rec, ctlVars>>

-----------------------------------------------------------------------------
(* reconcile_monitors: epoch, list, load head then state, fold, prune.       *)

(* The epoch, the listing and load_monitor's read of the rule head: no head  *)
(* is Absent (a row folded since the epoch has a head); the record is        *)
(* fetched only when the local row is behind it.                             *)
LoadHead(i) ==
  LET row == proj[i].row
      have == row.rev > 0 /\ ~row.deleted /\ row.rev >= head.rev IN
  /\ rec[i].pc = "idle"
  /\ proj' = [proj EXCEPT ![i].fresh = FALSE]
  /\ rec' = [rec EXCEPT ![i] =
       IF head = NoHead THEN [IdleRec EXCEPT !.pc = "fold"]
       ELSE IF head.deleted
       THEN [IdleRec EXCEPT !.pc = "fold", !.loaded = "deleted", !.row = head]
       ELSE [IdleRec EXCEPT !.pc = "state", !.loaded = "live",
                            !.row = IF have THEN NoHead ELSE head]]
  /\ UNCHANGED <<clock, ruleVars, stateVars, lease, job, ctlVars, faults>>

LoadState(i) ==
  /\ rec[i].pc = "state"
  /\ rec' = [rec EXCEPT ![i].pc = "fold", ![i].state = shead.state]
  /\ UNCHANGED <<clock, ruleVars, stateVars, lease, proj, job, ctlVars, faults>>

ReconcileFold(i) ==
  LET r == rec[i]
      ruled == IF r.row = NoHead THEN proj[i] ELSE FoldRule(proj[i], r.row) IN
  /\ r.pc = "fold"
  /\ proj' = [proj EXCEPT ![i] =
       CASE r.loaded = "absent"  -> PruneMonitors(proj[i])
         [] r.loaded = "deleted" -> TombstoneMonitor(proj[i], r.row.rev)
         [] r.loaded = "live"    -> FoldState(ruled, r.state)]
  /\ rec' = [rec EXCEPT ![i] = IdleRec]
  /\ UNCHANGED <<clock, ruleVars, stateVars, lease, job, ctlVars, faults>>

(* The listing fails, or the records stay unavailable: the row is kept.      *)
ReconcileFails(i) ==
  /\ rec[i].pc = "state"
  /\ faults > 0 /\ faults' = faults - 1
  /\ rec' = [rec EXCEPT ![i] = IdleRec]
  /\ UNCHANGED <<clock, ruleVars, stateVars, lease, proj, job, ctlVars>>

-----------------------------------------------------------------------------
(* Control commands.  The client repeats a command until it is answered.     *)

HeadOf(c) == [rev |-> RevOf[c], cmd |-> c, deleted |-> c \in Deletes]
Sent(c) ==
  /\ req[c].pc = "idle" /\ acked[c] = Nobody /\ tries[c] > 0
  /\ tries' = [tries EXCEPT ![c] = @ - 1]

(* get_monitor after the fold: a tombstoned row answers NotFound.            *)
Answer(c, i) ==
  acked' = IF c \in Puts /\ proj'[i].row.deleted THEN acked
           ELSE [acked EXCEPT ![c] = i]

(* create_monitor and update_monitor up to the receipt check: an update is   *)
(* refused unless the head is at the expected revision or the new one; a     *)
(* command with a receipt is answered from the durable rule.                 *)
AdmitPut(c, i) ==
  LET refused == RevOf[c] > 1 /\ (head.deleted \/ head.rev \notin {RevOf[c] - 1, RevOf[c]})
  IN
  /\ Sent(c)
  /\ \/ /\ refused \/ (c \in receipts /\ head.deleted)
        /\ UNCHANGED <<req, acked, proj>>
     \/ /\ ~refused /\ c \in receipts /\ ~head.deleted
        /\ proj' = [proj EXCEPT ![i] = FoldRule(@, head)]
        /\ Answer(c, i)
        /\ UNCHANGED req
     \/ /\ ~refused /\ c \notin receipts
        /\ req' = [req EXCEPT ![c] = [IdleReq EXCEPT !.pc = "publish", !.at = i]]
        /\ UNCHANGED <<acked, proj>>
  /\ UNCHANGED <<clock, ruleVars, stateVars, lease, job, rec, faults>>

(* Variant: any live head may be replaced.                                   *)
MaySucceedAny(c) == IF head.rev = 0 THEN RevOf[c] = 1 ELSE ~head.deleted

MaySucceed(c) ==
  IF head.rev = 0 THEN RevOf[c] = 1
  ELSE ~head.deleted /\ head.rev + 1 = RevOf[c]

(* create_rule_revision: the revision object is the command's own; the head  *)
(* is read, and must be this command's or its predecessor.                   *)
PublishRead(c) ==
  /\ req[c].pc = "publish"
  /\ req' = [req EXCEPT ![c] =
       IF head = HeadOf(c) THEN [@ EXCEPT !.pc = "receipt"]
       ELSE IF MaySucceed(c) THEN [@ EXCEPT !.pc = "cas", !.seen = head]
       ELSE IdleReq]
  /\ UNCHANGED <<clock, ruleVars, stateVars, lease, proj, job, rec, tries, acked, faults>>

(* delete_monitor: a replay of the command that deleted is success; else the *)
(* head must be live at the expected revision.                               *)
AdmitDelete(c, i) ==
  /\ Sent(c)
  /\ \/ /\ c \in staged /\ head = HeadOf(c)
        /\ proj' = [proj EXCEPT ![i] = TombstoneMonitor(@, RevOf[c])]
        /\ Answer(c, i)
        /\ UNCHANGED req
     \/ /\ ~head.deleted /\ head.rev = RevOf[c]
        /\ req' = [req EXCEPT ![c] = [pc |-> "stage", at |-> i, seen |-> head]]
        /\ UNCHANGED <<proj, acked>>
     \/ /\ head.rev # RevOf[c] \/ (head.deleted /\ head # HeadOf(c))
        /\ UNCHANGED <<req, acked, proj>>
  /\ UNCHANGED <<clock, ruleVars, stateVars, lease, job, rec, faults>>

(* tombstone_rule, first PUT.                                                *)
StageTombstone(c) ==
  /\ req[c].pc = "stage"
  /\ staged' = staged \cup {c}
  /\ req' = [req EXCEPT ![c].pc = "cas"]
  /\ UNCHANGED <<clock, head, receipts, log, stateVars, lease, proj, job, rec, tries,
                 acked, faults>>

(* update(): compare-and-swap the rule head from the version read; an error  *)
(* leaves it unknown whether it was written.                                 *)
CasHead(c) ==
  LET took == head' = HeadOf(c) /\ log' = Append(log, c)
      next == IF c \in Deletes THEN "fold" ELSE "receipt" IN
  /\ req[c].pc = "cas"
  /\ \/ /\ head = req[c].seen /\ took
        /\ req' = [req EXCEPT ![c].pc = next]
        /\ UNCHANGED faults
     \/ /\ head # req[c].seen
        /\ req' = [req EXCEPT ![c] = IdleReq]
        /\ UNCHANGED <<head, log, faults>>
     \/ /\ head = req[c].seen /\ faults > 0 /\ faults' = faults - 1
        /\ took \/ UNCHANGED <<head, log>>
        /\ req' = [req EXCEPT ![c] = IdleReq]
  /\ UNCHANGED <<clock, receipts, staged, stateVars, lease, proj, job, rec, tries, acked>>

(* record_rule_mutation: only after the rule head is durable.                *)
PutReceipt(c) ==
  /\ req[c].pc = "receipt"
  /\ receipts' = receipts \cup {c}
  /\ req' = [req EXCEPT ![c].pc = "fold"]
  /\ UNCHANGED <<clock, head, staged, log, stateVars, lease, proj, job, rec, tries,
                 acked, faults>>

FoldAndAnswer(c) ==
  LET i == req[c].at IN
  /\ req[c].pc = "fold"
  /\ proj' = [proj EXCEPT ![i] = IF c \in Deletes THEN TombstoneMonitor(@, RevOf[c])
                                 ELSE FoldRule(@, HeadOf(c))]
  /\ Answer(c, i)
  /\ req' = [req EXCEPT ![c] = IdleReq]
  /\ UNCHANGED <<clock, ruleVars, stateVars, lease, job, rec, tries, faults>>

-----------------------------------------------------------------------------
JobRuns(i) ==
  \/ Acquire(i) \/ ReadStateAndQuery(i) \/ Recheck(i)
  \/ PutTransition(i) \/ PutHead(i) \/ FoldCommitted(i)
ReconcileRuns(i) ==
  LoadHead(i) \/ LoadState(i) \/ ReconcileFold(i)
RequestRuns(c) ==
  PublishRead(c) \/ StageTombstone(c) \/ CasHead(c) \/ PutReceipt(c) \/ FoldAndAnswer(c)

Next ==
  \/ Tick
  \/ ExpireLease \/ LoseLease
  \/ \E i \in Inst : Crash(i)
  \/ \E i \in world.evaluators : Dispatch(i) \/ JobRuns(i) \/ JobFails(i)
  \/ \E i \in Reconcilers : ReconcileRuns(i) \/ ReconcileFails(i)
  \/ \E c \in Puts, i \in world.control : AdmitPut(c, i)
  \/ \E c \in Deletes, i \in world.control : AdmitDelete(c, i)
  \/ \E c \in Cmd : RequestRuns(c)

Spec == Init /\ [][Next]_vars

(* The clock runs; the scheduler ticks every second; a task, a pass and a    *)
(* handler that can go on does; a lease whose holder is gone runs out.       *)
FairSpec ==
  /\ Spec
  /\ WF_vars(Tick)
  /\ WF_vars(ExpireLease)
  /\ \A i \in Inst : WF_vars(i \in world.evaluators /\ Dispatch(i)) /\ WF_vars(JobRuns(i))
  /\ \A i \in Reconcilers : WF_vars(ReconcileRuns(i))
  /\ \A c \in Cmd : WF_vars(RequestRuns(c))

-----------------------------------------------------------------------------
(* Properties.                                                               *)

(* The causal chain is whole: a transition key names one record; a record's  *)
(* predecessor is in the bucket, one sequence earlier, with the status it    *)
(* left; the head's digest is that of a record in the bucket.  So a reader   *)
(* can walk from the head to sequence 1 whatever losing or crashed writers   *)
(* left behind (commit_state: record first, head last).                      *)
ChainWhole ==
  /\ \A q, r \in trans : Key(q) = Key(r) => q = r
  /\ \A r \in trans :
       \/ r.state.sequence = 1 /\ r.previous_key = Key(NoRecord)
       \/ \E q \in trans : /\ Key(q) = r.previous_key
                           /\ q.state.sequence + 1 = r.state.sequence
                           /\ q.state.status = r.previous
  /\ shead # NoStateHead =>
       /\ shead.latest \in trans
       /\ shead.latest.state.sequence = shead.state.sequence
       /\ shead.latest.state.status = shead.state.status

(* A slot is evaluated once and an older revision never overwrites a newer:  *)
(* the state head only moves up in (revision, slot) order, and a new         *)
(* transition is chained exactly when the status changes, whoever holds the  *)
(* lease when the PUT lands (no fence check guards it).                      *)
HeadAdvances ==
  [][shead' # shead =>
       /\ ~Covers(shead.state, shead'.state.revision, shead'.state.slot)
       /\ IF shead'.state.status = shead.state.status
          THEN shead'.latest = shead.latest
          ELSE shead'.latest.previous_key = Key(shead.latest)]_vars

(* Notifications are earned: an alert starts firing only after the condition *)
(* held for for_seconds under one revision, and an active alert, outages     *)
(* included, leaves that status only on a clear observation after being      *)
(* clear for recover_for_seconds, across takeovers, restarts and edits.      *)
StatusEarned ==
  shead # NoStateHead =>
    LET rule == RuleOf[last.cmd] IN
    /\ shead.state.status = "firing" /\ ~last.active =>
         last.held # NoTime /\ last.at >= last.held + rule.for_seconds
    /\ shead.state.status \in {"inactive", "pending"} /\ last.active =>
         /\ last.outcome = "clear"
         /\ last.at >= last.calm + rule.recover_for_seconds

(* Two edits from one revision never both win: the rule head takes one       *)
(* command per revision and none after a delete, and a command the client    *)
(* was told succeeded is one of those, however often it was sent and         *)
(* whatever was lost in between.                                             *)
CommandsOnce ==
  /\ \A k \in 1..Len(log) :
       IF log[k] \in Puts THEN RevOf[log[k]] = k
       ELSE k = Len(log) /\ RevOf[log[k]] + 1 = k
  /\ \A c \in Cmd : acked[c] # Nobody => \E k \in 1..Len(log) : log[k] = c

(* A projection is never ahead of the bucket, and an instance that has       *)
(* acknowledged a command never again shows the monitor without it: neither  *)
(* a reconciliation that loaded the records earlier, nor its pruning, nor a  *)
(* late evaluation undoes it.                                                *)
ProjectionHonest ==
  /\ \A i \in Inst :
       /\ proj[i].row.rev <= head.rev
       /\ proj[i].row.deleted => head.deleted
       /\ proj[i].state # NoState =>
            Covers(shead.state, proj[i].state.revision, proj[i].state.slot)
  /\ \A c \in Cmd : acked[c] # Nobody =>
       /\ proj[acked[c]].row.rev >= RevOf[c]
       /\ c \in Deletes => proj[acked[c]].row.deleted

(* Evaluation keeps up: once the clock stands, the head covers the newest    *)
(* due slot of a live rule.  The one exception is a record that a crashed or *)
(* losing evaluation of that very slot left under the key a later one needs: *)
(* it collides until the next slot.                                          *)
Newest == (now \div RuleOf[head.cmd].every_seconds) - 1
CaughtUp ==
  <>[](\/ head.rev = 0 \/ head.deleted
       \/ Newest < 0 \/ Covers(shead.state, head.rev, Newest)
       \/ ~RuleOf[head.cmd].enabled /\ shead.state.revision = head.rev
       \/ \E r \in trans : /\ r.state.revision = head.rev /\ r.state.slot = Newest
                           /\ r.state.sequence = shead.state.sequence + 1)

(* Every reconciling instance ends up showing the durable rule and state.    *)
Projected ==
  <>[](\A i \in Reconcilers :
         /\ proj[i].row.rev = head.rev /\ proj[i].row.deleted = head.deleted
         /\ ~head.deleted => proj[i].state = shead.state)
=============================================================================
