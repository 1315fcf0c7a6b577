------------------------------ MODULE Catalog ------------------------------
(* The SQLite block catalog of one instance (crates/catalog/src/lib.rs), as  *)
(* pure operators on a record: each operator is one Catalog method, which    *)
(* the code runs as one transaction under the catalog mutex.                 *)
(*                                                                           *)
(*   rows       uuids that have a row in `blocks`                            *)
(*   superseded rows whose superseded bit is set                             *)
(*   by         rows whose superseded_by pointer is not NULL                 *)
(*   claims     descendants whose edges are in `block_lineage` (the edges of *)
(*              one sidecar are always inserted together, and they outlive   *)
(*              the descendant's row)                                        *)
(*   reap_at, delete_at                                                      *)
(*              the reap_eligible_at and delete_eligible_at deadlines; the   *)
(*              clock is abstracted to "not set", "still ahead", "passed"    *)
(*                                                                           *)
(* compacted_from(b), the ancestor closure a sidecar carries, is passed as   *)
(* the function `from`.                                                      *)
EXTENDS Integers, FiniteSets

CONSTANT Block

NoDeadline == "null"
Ahead      == "ahead"
Passed     == "passed"
Deadline   == {NoDeadline, Ahead, Passed}

CatalogState ==
  [rows : SUBSET Block, superseded : SUBSET Block, by : SUBSET Block,
   claims : SUBSET Block,
   reap_at : [Block -> Deadline], delete_at : [Block -> Deadline]]

(* The bits and deadlines are columns of a row.                              *)
ColumnsOfRows(c) ==
  /\ c.by \subseteq c.superseded /\ c.superseded \subseteq c.rows
  /\ \A b \in Block : c.reap_at[b] # NoDeadline => b \in c.superseded
  /\ \A b \in Block : c.delete_at[b] # NoDeadline => b \in c.rows

EmptyCatalog ==
  [rows |-> {}, superseded |-> {}, by |-> {}, claims |-> {},
   reap_at |-> [b \in Block |-> NoDeadline],
   delete_at |-> [b \in Block |-> NoDeadline]]

(* list_blocks: deleted_at IS NULL AND superseded = 0.                       *)
Live(c) == {b \in c.rows : b \notin c.superseded /\ c.delete_at[b] = NoDeadline}

(* MAX(COALESCE(old, new), new) on deadlines: a new one that is still ahead  *)
(* is later than any stored one, one that has passed never replaces a stored *)
(* one.                                                                      *)
MaxDeadline(old, new) == IF new = Ahead \/ old = NoDeadline THEN new ELSE old

Restamp(f, S, new) ==
  [b \in Block |-> IF b \in S THEN MaxDeadline(f[b], new) ELSE f[b]]

(* Variant: a late ancestor's row is born live.                              *)
BornLive(c, m, from) == FALSE

(* A row inserted after its descendant is born superseded, without a pointer *)
(* to it, when some live row claims it.                                      *)
BornSuperseded(c, m, from) == \E d \in c.claims \cap Live(c) : m \in from[d]

(* Variant: the sidecar's lineage is recorded but hides no row.              *)
InsertNoHide(c, m, from) ==
  [c EXCEPT !.rows = @ \cup {m},
            !.claims = IF from[m] = {} THEN @ ELSE @ \cup {m},
            !.superseded = IF m \notin c.rows /\ BornSuperseded(c, m, from)
                           THEN @ \cup {m} ELSE @]

(* insert_block with apply_lineage_in: INSERT OR IGNORE the row, record the  *)
(* sidecar's lineage, and hide every ancestor that has a row.                *)
InsertBlock(c, m, from) ==
  LET hidden == (from[m] \cap c.rows) \ {m}
      born   == IF m \notin c.rows /\ BornSuperseded(c, m, from) THEN {m} ELSE {}
  IN  [c EXCEPT !.rows = @ \cup {m},
                !.claims = IF from[m] = {} THEN @ ELSE @ \cup {m},
                !.superseded = (@ \cup hidden) \cup born,
                !.by = @ \cup hidden]

(* Variant: inputs without a row are staged too.                             *)
StageAnyInput(c, inputs, merged, deadline) ==
  [c EXCEPT !.superseded = @ \cup (inputs \ {merged}),
            !.by = @ \cup (inputs \ {merged}),
            !.reap_at = Restamp(@, inputs \ {merged}, deadline)]

(* stage_superseded: hide the direct inputs and give them a reap deadline.   *)
StageSuperseded(c, inputs, merged, deadline) ==
  LET staged == (inputs \cap c.rows) \ {merged}
  IN  [c EXCEPT !.superseded = @ \cup staged,
                !.by = @ \cup staged,
                !.reap_at = Restamp(@, staged, deadline)]

ApplyCompaction(c, merged, inputs, deadline, from) ==
  StageSuperseded(InsertBlock(c, merged, from), inputs, merged, deadline)

(* stage_unstaged_superseded: rows hidden by lineage alone get a deadline,   *)
(* if they have a superseded_by pointer.                                     *)
Unstaged(c) ==
  {b \in c.superseded : /\ c.delete_at[b] = NoDeadline
                        /\ b \in c.by
                        /\ c.reap_at[b] = NoDeadline}

StageUnstagedSuperseded(c, deadline) ==
  [c EXCEPT !.reap_at = Restamp(@, Unstaged(c), deadline)]

PendingReaps(c) == {b \in c.superseded : c.reap_at[b] = Passed}

(* mark_deleted: the retention owner's staging; a re-stage may extend the    *)
(* deadline.                                                                 *)
MarkDeleted(c, uuids, deadline) ==
  [c EXCEPT !.delete_at = Restamp(@, uuids \cap c.rows, deadline)]

(* Variant: adopting a staging again moves the deadline.                     *)
AdoptRebasing(c, uuids, deadline) ==
  [c EXCEPT !.delete_at = Restamp(@, uuids \cap c.rows, deadline)]

(* adopt_peer_deletion: only rows that are not hidden yet, so that applying  *)
(* the same staging again moves nothing.                                     *)
AdoptPeerDeletion(c, uuids, deadline) ==
  [c EXCEPT !.delete_at =
     [b \in Block |-> IF b \in uuids \cap c.rows /\ @[b] = NoDeadline
                      THEN deadline ELSE @[b]]]

PendingDeletions(c) == {b \in c.rows : c.delete_at[b] = Passed}
StagedDeletions(c)  == {b \in c.rows : c.delete_at[b] # NoDeadline}

(* delete_blocks: the row goes with all its columns; lineage stays.          *)
DeleteBlocks(c, uuids) ==
  [c EXCEPT !.rows = @ \ uuids, !.superseded = @ \ uuids, !.by = @ \ uuids,
            !.reap_at = [b \in Block |-> IF b \in uuids THEN NoDeadline ELSE @[b]],
            !.delete_at = [b \in Block |-> IF b \in uuids THEN NoDeadline ELSE @[b]]]

(* The wall clock passes one row's deadline.                                 *)
PassReap(c, b)   == [c EXCEPT !.reap_at[b] = Passed]
PassDelete(c, b) == [c EXCEPT !.delete_at[b] = Passed]
=============================================================================
