------------------------------ MODULE MCAlerts ------------------------------
(* Alerts for a monitor that is created, edited twice from the same revision *)
(* and deleted: see the cfg file.                                            *)
EXTENDS Alerts

CONSTANTS i1, i2, c1, u1, u2, d1

Revisions == [c \in Cmd |-> CASE c = c1 -> 1 [] c \in {u1, u2} -> 2 [] c = d1 -> 1]
Quick == [every_seconds |-> 1, for_seconds |-> 1,
          recover_for_seconds |-> 1, enabled |-> TRUE, no_data |-> "firing",
          execution_error |-> "error"]
Slow  == [Quick EXCEPT !.every_seconds = 2, !.for_seconds = 2, !.execution_error = "keep_last"]
Off   == [Quick EXCEPT !.enabled = FALSE]
Rules == [c \in Puts |-> CASE c = c1 -> Quick [] c = u1 -> Slow [] c = u2 -> Off]

Plan(f, horizon, faults_, outcomes, control, evaluators) ==
  [tries |-> [c \in Cmd |-> CASE c = c1 -> f[1] [] c = u1 -> f[2]
                              [] c = u2 -> f[3] [] c = d1 -> f[4]],
   horizon |-> horizon, faults |-> faults_, outcomes |-> outcomes, control |-> control,
   evaluators |-> evaluators]

(* Four slots under one rule, every outcome; no fault.                      *)
Watch   == Plan(<<1, 0, 0, 0>>, 4, 0, Outcome, {i1}, {i1})
(* A lease loss, crash, lost answer or failed read while two instances       *)
(* evaluate; breach and no_data lead to the same status.                     *)
Contend == Plan(<<1, 0, 0, 0>>, 2, 1, {"breach", "no_data"}, {i1}, Inst)
(* The rule is edited, to a longer interval and to disabled, meanwhile.      *)
Edit    == Plan(<<1, 1, 0, 0>>, 2, 0, {"breach", "clear"}, {i1}, Inst)
Disable == Plan(<<1, 0, 1, 0>>, 2, 0, {"breach"}, {i1}, Inst)
(* Two edits, an edit and a delete, of one revision, each sent twice, to the *)
(* instance that reconciles.                                                 *)
Race    == Plan(<<2, 2, 2, 0>>, 0, 1, {}, {i2}, Inst)
Remove  == Plan(<<1, 2, 0, 2>>, 0, 1, {}, {i2}, Inst)
(* A delete while an evaluation runs.                                        *)
Late    == Plan(<<1, 0, 0, 2>>, 1, 1, {"breach"}, {i2}, Inst)
All == {Watch, Contend, Edit, Disable, Race, Remove, Late}
=============================================================================
