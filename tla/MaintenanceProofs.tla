------------------------- MODULE MaintenanceProofs -------------------------
(* Compaction, retention and convergence lose no record, show no record      *)
(* twice and merge no block twice, for any number of instances, blocks,      *)
(* levels and faults.                                                        *)
EXTENDS Maintenance, TLAPS

-----------------------------------------------------------------------------
(* What every method of the block catalog preserves, whatever order the      *)
(* sidecars and events reach it in.                                          *)

(* E: blocks ever committed. R: those some committed block replaced. D:      *)
(* those past their TTL. F: compacted_from.                                  *)
CatalogInv(c, F, E, R, D) ==
  /\ c \in CatalogState
  /\ ColumnsOfRows(c)
  /\ c.rows \subseteq E
  /\ c.superseded \subseteq R
  /\ \A b \in Block : c.delete_at[b] # NoDeadline => b \in D
  /\ \A y \in c.rows : F[y] # {} => y \in c.claims
  /\ \A y \in Live(c) : \A x \in F[y] \cap c.rows : x \in c.superseded

(* A compacted_from that names ancestors only, and R holding every ancestor  *)
(* of a committed block.                                                     *)
Lineage(F, E, R) ==
  /\ F \in [Block -> SUBSET Block]
  /\ E \subseteq Block
  /\ \A b \in Block : b \notin F[b]
  /\ \A d \in E : F[d] \cap E \subseteq R

(* The fresh catalog of a restarted instance satisfies the invariant.        *)
LEMMA EmptyCatalogInv ==
  ASSUME NEW F, NEW E, NEW R, NEW D
  PROVE  CatalogInv(EmptyCatalog, F, E, R, D)
BY Zenon DEF CatalogInv, EmptyCatalog, CatalogState, ColumnsOfRows, Live, Deadline, NoDeadline

(* insert_block keeps it, also when the ancestor's sidecar comes after the   *)
(* descendant's: the row is then born superseded.                            *)
LEMMA InsertBlockInv ==
  ASSUME NEW F, NEW E, NEW R, NEW D, NEW c, NEW m \in E,
         Lineage(F, E, R), CatalogInv(c, F, E, R, D)
  PROVE  CatalogInv(InsertBlock(c, m, F), F, E, R, D)
<1> DEFINE hidden == (F[m] \cap c.rows) \ {m}
           born   == IF m \notin c.rows /\ BornSuperseded(c, m, F) THEN {m} ELSE {}
           d      == InsertBlock(c, m, F)
<1>0. m \in Block /\ c \in CatalogState
  BY Zenon DEF Lineage, CatalogInv
<1>1. /\ d \in CatalogState
      /\ d.rows = c.rows \cup {m}
      /\ d.claims = IF F[m] = {} THEN c.claims ELSE c.claims \cup {m}
      /\ d.superseded = (c.superseded \cup hidden) \cup born
      /\ d.by = c.by \cup hidden
      /\ d.reap_at = c.reap_at /\ d.delete_at = c.delete_at
  BY Zenon, <1>0 DEF InsertBlock, CatalogState
<1>2. ColumnsOfRows(d)
  BY Zenon, <1>1 DEF ColumnsOfRows, CatalogInv
<1>3. d.superseded \subseteq R
  <2>1. hidden \subseteq R
    BY Zenon DEF Lineage, CatalogInv
  <2>2. born \subseteq R
    BY Zenon, <1>0 DEF Lineage, CatalogInv, BornSuperseded, Live
  <2> QED
    BY Zenon, <1>1, <2>1, <2>2 DEF CatalogInv
<1>4. \A y \in Live(d) : \A x \in F[y] \cap d.rows : x \in d.superseded
  <2> SUFFICES ASSUME NEW y \in Live(d), NEW x \in F[y] \cap d.rows
               PROVE  x \in d.superseded
    OBVIOUS
  <2>1. CASE y = m
    BY Zenon, <1>0, <1>1, <2>1 DEF Lineage
  <2>2. CASE y # m /\ x \in c.rows
    BY Zenon, <1>1, <2>2 DEF CatalogInv, Live
  <2>3. CASE y # m /\ x \notin c.rows
    <3>1. y \in Live(c) /\ x = m
      BY Zenon, <1>1, <2>3 DEF Live
    <3>2. y \in c.claims
      BY Zenon, <3>1 DEF CatalogInv, Live
    <3> QED
      BY Zenon, <1>1, <3>1, <3>2, <2>3 DEF BornSuperseded
  <2> QED
    BY Zenon, <2>1, <2>2, <2>3
<1> HIDE DEF d, hidden, born
<1> QED
  BY Zenon, <1>0, <1>1, <1>2, <1>3, <1>4 DEF CatalogInv, d

(* A method that only hides rows, stamps deadlines or removes rows keeps it. *)
LEMMA HidingInv ==
  ASSUME NEW F, NEW E, NEW R, NEW D, NEW c, NEW d,
         CatalogInv(c, F, E, R, D), d \in CatalogState, ColumnsOfRows(d),
         d.rows \subseteq c.rows, d.claims = c.claims,
         d.superseded \subseteq R,
         \A x \in d.rows : x \in c.superseded => x \in d.superseded,
         \A b \in d.rows : c.delete_at[b] # NoDeadline => d.delete_at[b] # NoDeadline,
         \A b \in Block : d.delete_at[b] # NoDeadline => b \in D
  PROVE  CatalogInv(d, F, E, R, D)
<1>1. Live(d) \subseteq Live(c)
  BY Zenon DEF Live
<1> QED
  BY Zenon, <1>1 DEF CatalogInv

(* stage_superseded and apply_compaction keep it.                            *)
LEMMA StageSupersededInv ==
  ASSUME NEW F, NEW E, NEW R, NEW D, NEW c, NEW inputs, NEW merged,
         NEW deadline \in Deadline \ {NoDeadline},
         CatalogInv(c, F, E, R, D), inputs \cap E \subseteq R
  PROVE  CatalogInv(StageSuperseded(c, inputs, merged, deadline), F, E, R, D)
<1> DEFINE staged == (inputs \cap c.rows) \ {merged}
           d == StageSuperseded(c, inputs, merged, deadline)
<1>0. /\ c \in CatalogState /\ c.superseded \subseteq R
      /\ staged \subseteq R /\ staged \subseteq c.rows
      /\ \A b \in Block : c.delete_at[b] # NoDeadline => b \in D
  BY Zenon DEF CatalogInv
<1>1. /\ d \in CatalogState
      /\ d.rows = c.rows /\ d.claims = c.claims /\ d.delete_at = c.delete_at
      /\ d.superseded = c.superseded \cup staged
      /\ d.by = c.by \cup staged
      /\ d.reap_at = Restamp(c.reap_at, staged, deadline)
  BY Zenon, <1>0 DEF StageSuperseded, CatalogState, Restamp, MaxDeadline
<1>2. ColumnsOfRows(d)
  BY Zenon, <1>0, <1>1 DEF ColumnsOfRows, CatalogInv, Restamp
<1> HIDE DEF d, staged
<1>3. CatalogInv(d, F, E, R, D)
  BY Zenon, <1>0, <1>1, <1>2, HidingInv
<1> QED
  BY Zenon, <1>3 DEF d

(* apply_compaction: insert the merged block, then stage its inputs.         *)
LEMMA ApplyCompactionInv ==
  ASSUME NEW F, NEW E, NEW R, NEW D, NEW c, NEW m \in E, NEW inputs,
         NEW deadline \in Deadline \ {NoDeadline},
         Lineage(F, E, R), CatalogInv(c, F, E, R, D), inputs \cap E \subseteq R
  PROVE  CatalogInv(ApplyCompaction(c, m, inputs, deadline, F), F, E, R, D)
BY Zenon, InsertBlockInv, StageSupersededInv DEF ApplyCompaction

(* stage_unstaged_superseded keeps it.                                       *)
LEMMA StageUnstagedInv ==
  ASSUME NEW F, NEW E, NEW R, NEW D, NEW c,
         NEW deadline \in Deadline \ {NoDeadline},
         CatalogInv(c, F, E, R, D)
  PROVE  CatalogInv(StageUnstagedSuperseded(c, deadline), F, E, R, D)
<1> DEFINE d == StageUnstagedSuperseded(c, deadline)
<1>0. /\ c \in CatalogState /\ c.superseded \subseteq R
      /\ Unstaged(c) \subseteq c.superseded
      /\ \A b \in Block : c.delete_at[b] # NoDeadline => b \in D
  BY Zenon DEF CatalogInv, Unstaged
<1>1. /\ d \in CatalogState
      /\ d.rows = c.rows /\ d.claims = c.claims /\ d.delete_at = c.delete_at
      /\ d.superseded = c.superseded /\ d.by = c.by
      /\ d.reap_at = Restamp(c.reap_at, Unstaged(c), deadline)
  BY Zenon, <1>0 DEF StageUnstagedSuperseded, CatalogState, Restamp, MaxDeadline
<1>2. ColumnsOfRows(d)
  BY Zenon, <1>0, <1>1 DEF ColumnsOfRows, CatalogInv, Restamp
<1> HIDE DEF d
<1>3. CatalogInv(d, F, E, R, D)
  BY Zenon, <1>0, <1>1, <1>2, HidingInv
<1> QED
  BY Zenon, <1>3 DEF d

(* mark_deleted keeps it when every named block is past its TTL.             *)
LEMMA MarkDeletedInv ==
  ASSUME NEW F, NEW E, NEW R, NEW D, NEW c, NEW uuids,
         NEW deadline \in Deadline \ {NoDeadline},
         CatalogInv(c, F, E, R, D), uuids \subseteq D
  PROVE  CatalogInv(MarkDeleted(c, uuids, deadline), F, E, R, D)
<1> DEFINE d == MarkDeleted(c, uuids, deadline)
<1>0. /\ c \in CatalogState /\ c.superseded \subseteq R
      /\ \A b \in Block : c.delete_at[b] # NoDeadline => b \in D
  BY Zenon DEF CatalogInv
<1>1. /\ d \in CatalogState
      /\ d.rows = c.rows /\ d.claims = c.claims /\ d.reap_at = c.reap_at
      /\ d.superseded = c.superseded /\ d.by = c.by
      /\ d.delete_at = Restamp(c.delete_at, uuids \cap c.rows, deadline)
  BY Zenon, <1>0 DEF MarkDeleted, CatalogState, Restamp, MaxDeadline
<1>2. ColumnsOfRows(d)
  BY Zenon, <1>0, <1>1 DEF ColumnsOfRows, CatalogInv, Restamp
<1>3. \A b \in Block : /\ d.delete_at[b] # NoDeadline => b \in D
                       /\ c.delete_at[b] # NoDeadline => d.delete_at[b] # NoDeadline
  BY Zenon, <1>0, <1>1 DEF CatalogInv, Restamp, MaxDeadline
<1>4. d.rows \subseteq Block
  BY Zenon, <1>1 DEF CatalogState
<1> HIDE DEF d
<1>5. CatalogInv(d, F, E, R, D)
  BY Zenon, <1>0, <1>1, <1>2, <1>3, <1>4, HidingInv
<1> QED
  BY Zenon, <1>5 DEF d

(* adopt_peer_deletion keeps it when every named block is past its TTL.      *)
LEMMA AdoptPeerDeletionInv ==
  ASSUME NEW F, NEW E, NEW R, NEW D, NEW c, NEW uuids,
         NEW deadline \in Deadline \ {NoDeadline},
         CatalogInv(c, F, E, R, D), uuids \subseteq D
  PROVE  CatalogInv(AdoptPeerDeletion(c, uuids, deadline), F, E, R, D)
<1> DEFINE d == AdoptPeerDeletion(c, uuids, deadline)
<1>0. /\ c \in CatalogState /\ c.superseded \subseteq R
      /\ \A b \in Block : c.delete_at[b] # NoDeadline => b \in D
  BY Zenon DEF CatalogInv
<1>1. /\ d \in CatalogState
      /\ d.rows = c.rows /\ d.claims = c.claims /\ d.reap_at = c.reap_at
      /\ d.superseded = c.superseded /\ d.by = c.by
      /\ d.delete_at = [b \in Block |-> IF b \in uuids \cap c.rows /\ c.delete_at[b] = NoDeadline
                                        THEN deadline ELSE c.delete_at[b]]
  BY Zenon, <1>0 DEF AdoptPeerDeletion, CatalogState
<1>2. ColumnsOfRows(d)
  BY Zenon, <1>0, <1>1 DEF ColumnsOfRows, CatalogInv
<1>3. \A b \in Block : /\ d.delete_at[b] # NoDeadline => b \in D
                       /\ c.delete_at[b] # NoDeadline => d.delete_at[b] # NoDeadline
  BY Zenon, <1>0, <1>1 DEF CatalogInv
<1>4. d.rows \subseteq Block
  BY Zenon, <1>1 DEF CatalogState
<1> HIDE DEF d
<1>5. CatalogInv(d, F, E, R, D)
  BY <1>0, <1>1, <1>2, <1>3, <1>4, HidingInv
<1> QED
  BY Zenon, <1>5 DEF d

(* delete_blocks keeps it: the lineage of a removed row stays.               *)
LEMMA DeleteBlocksInv ==
  ASSUME NEW F, NEW E, NEW R, NEW D, NEW c, NEW uuids, CatalogInv(c, F, E, R, D)
  PROVE  CatalogInv(DeleteBlocks(c, uuids), F, E, R, D)
<1> DEFINE d == DeleteBlocks(c, uuids)
<1>0. /\ c \in CatalogState /\ c.superseded \subseteq R
      /\ \A b \in Block : c.delete_at[b] # NoDeadline => b \in D
  BY Zenon DEF CatalogInv
<1>1. /\ d \in CatalogState
      /\ d.rows = c.rows \ uuids /\ d.claims = c.claims
      /\ d.superseded = c.superseded \ uuids /\ d.by = c.by \ uuids
      /\ d.reap_at = [b \in Block |-> IF b \in uuids THEN NoDeadline ELSE c.reap_at[b]]
      /\ d.delete_at = [b \in Block |-> IF b \in uuids THEN NoDeadline ELSE c.delete_at[b]]
  BY Zenon, <1>0 DEF DeleteBlocks, CatalogState, Deadline
<1>2. ColumnsOfRows(d)
  BY Zenon, <1>0, <1>1 DEF ColumnsOfRows, CatalogInv
<1>3. \A b \in Block : d.delete_at[b] # NoDeadline => b \in D
  BY Zenon, <1>0, <1>1 DEF CatalogInv
<1>4. \A b \in d.rows : c.delete_at[b] # NoDeadline => d.delete_at[b] # NoDeadline
  BY Zenon, <1>0, <1>1 DEF CatalogState
<1> HIDE DEF d
<1>5. CatalogInv(d, F, E, R, D)
  BY ZenonT(60), <1>0, <1>1, <1>2, <1>3, <1>4, HidingInv
<1> QED
  BY Zenon, <1>5 DEF d

(* A deadline of a staged row passes.                                        *)
LEMMA PassReapInv ==
  ASSUME NEW F, NEW E, NEW R, NEW D, NEW c, NEW r \in Block,
         CatalogInv(c, F, E, R, D), c.reap_at[r] = Ahead
  PROVE  CatalogInv(PassReap(c, r), F, E, R, D)
<1> DEFINE d == PassReap(c, r)
<1>0. /\ c \in CatalogState /\ c.superseded \subseteq R
      /\ \A b \in Block : c.delete_at[b] # NoDeadline => b \in D
  BY Zenon DEF CatalogInv
<1>1. /\ d \in CatalogState
      /\ d.rows = c.rows /\ d.claims = c.claims /\ d.delete_at = c.delete_at
      /\ d.superseded = c.superseded /\ d.by = c.by
      /\ d.reap_at = [c.reap_at EXCEPT ![r] = Passed]
  BY Zenon, <1>0 DEF PassReap, CatalogState, Deadline
<1>2. ColumnsOfRows(d)
  BY Zenon, <1>0, <1>1 DEF ColumnsOfRows, CatalogInv, CatalogState, Ahead, NoDeadline
<1> HIDE DEF d
<1>3. CatalogInv(d, F, E, R, D)
  BY Zenon, <1>0, <1>1, <1>2, HidingInv
<1> QED
  BY Zenon, <1>3 DEF d

(* Likewise the deadline of a staged deletion.                              *)
LEMMA PassDeleteInv ==
  ASSUME NEW F, NEW E, NEW R, NEW D, NEW c, NEW r \in Block,
         CatalogInv(c, F, E, R, D), c.delete_at[r] = Ahead
  PROVE  CatalogInv(PassDelete(c, r), F, E, R, D)
<1> DEFINE d == PassDelete(c, r)
<1>0. /\ c \in CatalogState /\ c.superseded \subseteq R
      /\ \A b \in Block : c.delete_at[b] # NoDeadline => b \in D
  BY Zenon DEF CatalogInv
<1>1. /\ d \in CatalogState
      /\ d.rows = c.rows /\ d.claims = c.claims /\ d.reap_at = c.reap_at
      /\ d.superseded = c.superseded /\ d.by = c.by
      /\ d.delete_at = [c.delete_at EXCEPT ![r] = Passed]
  BY Zenon, <1>0 DEF PassDelete, CatalogState, Deadline
<1>2. ColumnsOfRows(d)
  BY Zenon, <1>0, <1>1 DEF ColumnsOfRows, CatalogInv, CatalogState, Ahead, NoDeadline
<1>3. \A x \in Block : /\ d.delete_at[x] # NoDeadline => x \in D
                       /\ c.delete_at[x] # NoDeadline => d.delete_at[x] # NoDeadline
  BY Zenon, <1>0, <1>1 DEF CatalogInv, CatalogState, Ahead, NoDeadline, Passed
<1>4. d.rows \subseteq Block
  BY Zenon, <1>1 DEF CatalogState
<1> HIDE DEF d
<1>5. CatalogInv(d, F, E, R, D)
  BY Zenon, <1>0, <1>1, <1>2, <1>3, <1>4, HidingInv
<1> QED
  BY Zenon, <1>5 DEF d

(* The invariant survives a bucket that has grown: more blocks committed,    *)
(* more replaced, more past their TTL, the lineage of the old ones kept.     *)
LEMMA GrowsInv ==
  ASSUME NEW F, NEW E, NEW R, NEW D, NEW F2, NEW E2, NEW R2, NEW D2, NEW c,
         CatalogInv(c, F, E, R, D),
         E \subseteq E2, R \subseteq R2, D \subseteq D2,
         \A b \in E : F2[b] = F[b]
  PROVE  CatalogInv(c, F2, E2, R2, D2)
BY Zenon DEF CatalogInv, Live
-----------------------------------------------------------------------------
(* The instances, the bucket and the messages between them.                  *)

(* Committed blocks some committed block was merged from; committed blocks   *)
(* past their TTL; what a reap may delete.                                   *)
Replaced  == {b \in ever : \E z \in ever : b \in from[z]}
Dead      == {b \in ever : PastTtl(b)}
Condemned == Replaced \cup Dead

Types ==
  /\ meta \subseteq Block /\ data \subseteq Block /\ ever \subseteq Block
  /\ from \in [Block -> SUBSET Block]
  /\ level \in [Block -> Nat]
  /\ expired \subseteq Initial
  /\ cat \in [Inst -> CatalogState]
  /\ events \subseteq Event
  /\ registry \subseteq Block
  /\ lease \subseteq Lease /\ fence \subseteq Inst
  /\ pass \in [Inst -> PassState]
  /\ walking \subseteq Inst
  /\ listed \in [Inst -> SUBSET Block] /\ missed \in BOOLEAN
  /\ faults \in Nat /\ losses \in Nat

(* compacted_from is an ancestor closure over committed blocks.              *)
Graph ==
  /\ Initial \subseteq ever /\ meta \subseteq ever
  /\ \A x \in Block : x \notin from[x] /\ from[x] \subseteq ever
  /\ \A y \in Block : \A x \in from[y] : from[x] \subseteq from[y]
  /\ \A x \in ever \cap Output : from[x] # {}

(* A committed block that is not past its TTL is intact, or is an ancestor   *)
(* of an intact block.                                                       *)
Cover ==
  \A o \in ever : o \in Dead \/ \E y \in meta \cap data : y = o \/ o \in from[y]

Catalogs == \A i \in Inst : CatalogInv(cat[i], from, ever, Replaced, Dead)

Messages ==
  /\ \A e \in events : /\ e.kind \in {"created", "superseded"} => e.block \in ever
                       /\ e.kind = "soft" => e.block \in Dead
  /\ registry \subseteq Dead
  /\ \A i \in Inst : listed[i] \subseteq ever

Uploading == {"commit", "put"}

PassOK(p) ==
  /\ p.plan \subseteq ever
  /\ p.kind = "retain" => p.plan \subseteq Dead
  /\ p.pc = "stage" => p.kind = "retain"
  /\ p.pc \in {"reap", "reapmeta", "reaprow"} => p.todo \subseteq Condemned
  /\ p.pc \in {"reapmeta", "reaprow"} => p.cur \in Condemned
  /\ p.pc = "fetch" => p.todo \subseteq ever
  /\ p.pc \in {"acquire", "list", "fetch", "merge"} => p.plan # {}
  /\ p.pc \in Uploading => /\ p.cur \in (data \cap Output) \ ever
                           /\ p.plan \subseteq from[p.cur] /\ from[p.cur] # {}
  /\ p.pc = "apply" => p.cur \in ever /\ p.plan \subseteq from[p.cur]

Passes == \A i \in Inst : PassOK(pass[i])

(* No two instances upload under one uuid.                                   *)
Distinct ==
  \A i, j \in Inst : i # j /\ pass[i].pc \in Uploading /\ pass[j].pc \in Uploading
                     => pass[i].cur # pass[j].cur

Inv == Types /\ Graph /\ Cover /\ Catalogs /\ Messages /\ Passes /\ Distinct

(* What every step does to the committed blocks.                             *)
Grows ==
  /\ ever \subseteq ever' /\ ever' \subseteq Block
  /\ expired \subseteq expired' /\ expired' \subseteq Initial
  /\ from' \in [Block -> SUBSET Block]
  /\ \A x \in ever : from'[x] = from[x]

-----------------------------------------------------------------------------
(* A block condemned once stays condemned.                                   *)
LEMMA GrowsSets ==
  ASSUME Grows
  PROVE  Replaced \subseteq Replaced' /\ Dead \subseteq Dead' /\ Condemned \subseteq Condemned'
<1>1. Replaced \subseteq Replaced'
  BY Zenon DEF Grows, Replaced
<1>2. Dead \subseteq Dead'
  BY Zenon DEF Grows, Dead, PastTtl, Records
<1> QED
  BY Zenon, <1>1, <1>2 DEF Condemned

(* Steps that commit nothing, mint nothing and age nothing.                  *)
LEMMA SameSets ==
  ASSUME UNCHANGED <<ever, from, expired>>
  PROVE  Replaced' = Replaced /\ Dead' = Dead /\ Condemned' = Condemned
BY Zenon DEF Replaced, Dead, Condemned, PastTtl, Records

(* A step that commits, mints and ages nothing keeps the committed blocks.   *)
LEMMA SameGrows ==
  ASSUME Types, UNCHANGED <<ever, from, expired>>
  PROVE  Grows
BY Zenon DEF Types, Grows

(* The lineage the catalogs rely on.                                         *)
LEMMA LineageHolds ==
  ASSUME Types, Graph
  PROVE  Lineage(from, ever, Replaced)
BY Zenon DEF Types, Graph, Lineage, Replaced

(* Catalogs that a step leaves alone stay consistent as the bucket grows.    *)
LEMMA CatalogsKept ==
  ASSUME Types, Catalogs, Grows, cat' = cat
  PROVE  Catalogs' /\ cat' \in [Inst -> CatalogState]
<1> SUFFICES ASSUME NEW j \in Inst
             PROVE  CatalogInv(cat[j], from, ever, Replaced, Dead)'
  BY Zenon DEF Catalogs, Types
<1>1. CatalogInv(cat[j], from, ever, Replaced, Dead)
  BY Zenon DEF Catalogs
<1>2. \A x \in ever : from'[x] = from[x]
  BY Zenon DEF Grows
<1>3. ever \subseteq ever' /\ Replaced \subseteq Replaced' /\ Dead \subseteq Dead'
  BY Zenon, GrowsSets DEF Grows
<1>4. CatalogInv(cat[j], from', ever', Replaced', Dead')
  BY Zenon, <1>1, <1>2, <1>3, GrowsInv
<1> QED
  BY Zenon, <1>4

(* One catalog replaced by a consistent one, the bucket unchanged.           *)
LEMMA CatalogsStep ==
  ASSUME Types, Catalogs, UNCHANGED <<ever, from, expired>>,
         NEW i \in Inst, NEW c, cat' = [cat EXCEPT ![i] = c],
         CatalogInv(c, from, ever, Replaced, Dead)
  PROVE  Catalogs' /\ cat' \in [Inst -> CatalogState]
<1>1. Replaced' = Replaced /\ Dead' = Dead /\ ever' = ever /\ from' = from
  BY Zenon, SameSets
<1>2. c \in CatalogState
  BY Zenon DEF CatalogInv
<1>3. \A j \in Inst : CatalogInv(cat'[j], from, ever, Replaced, Dead)
  BY Zenon DEF Types, Catalogs
<1> QED
  BY Zenon, <1>1, <1>2, <1>3 DEF Types, Catalogs

(* The passes of the other instances.                                        *)
LEMMA OtherPasses ==
  ASSUME Types, Passes, Grows, NEW i \in Inst,
         \A j \in Inst \ {i} :
           /\ pass'[j] = pass[j]
           /\ pass[j].pc \in Uploading =>
                /\ pass[j].cur \in data' /\ pass[j].cur \notin ever'
                /\ from'[pass[j].cur] = from[pass[j].cur]
  PROVE  \A j \in Inst \ {i} : PassOK(pass[j])'
<1> SUFFICES ASSUME NEW j \in Inst \ {i} PROVE PassOK(pass[j])'
  OBVIOUS
<1>1. Dead \subseteq Dead' /\ Condemned \subseteq Condemned' /\ ever \subseteq ever'
  BY Zenon, GrowsSets DEF Grows
<1>2. PassOK(pass[j])
  BY Zenon DEF Passes
<1>3. \A x \in ever : from'[x] = from[x]
  BY Zenon DEF Grows
<1> QED
  BY Zenon, <1>1, <1>2, <1>3 DEF PassOK

(* One pass moves while nothing else that passes depend on changes.          *)
LEMMA PassStep ==
  ASSUME Types, Passes, Distinct, UNCHANGED <<ever, from, expired, data>>,
         NEW i \in Inst, NEW p \in PassState, pass' = [pass EXCEPT ![i] = p],
         PassOK(p),
         p.pc \in Uploading => pass[i].pc \in Uploading /\ p.cur = pass[i].cur
  PROVE  Passes' /\ Distinct' /\ pass' \in [Inst -> PassState]
<1>1. Replaced' = Replaced /\ Dead' = Dead /\ Condemned' = Condemned
  BY Zenon, SameSets
<1>2. pass' \in [Inst -> PassState]
  BY Zenon DEF Types
<1>3. Passes'
  <2> SUFFICES ASSUME NEW j \in Inst PROVE PassOK(pass[j])'
    BY Zenon DEF Passes
  <2>1. PassOK(pass'[j])
    BY Zenon DEF Types, Passes
  <2> QED
    BY Zenon, <1>1, <2>1 DEF PassOK
<1>4. Distinct'
  BY ZenonT(60) DEF Distinct, Types
<1> QED
  BY Zenon, <1>2, <1>3, <1>4

(* The walks, events and registry under a growing bucket.                    *)
LEMMA MessagesKept ==
  ASSUME Types, Messages, Grows, UNCHANGED <<events, registry, listed>>
  PROVE  Messages'
BY Zenon, GrowsSets DEF Messages, Types, Grows

(* A reap deletes objects of a condemned block only: a descendant that is    *)
(* not condemned by its own descendants, or the TTL, still covers it.        *)
LEMMA CoverReap ==
  ASSUME Types, Graph, Cover, UNCHANGED <<ever, from, expired>>,
         NEW x \in Condemned,
         meta \cap data \subseteq (meta' \cap data') \cup {x}
  PROVE  Cover'
<1> SUFFICES ASSUME NEW o \in ever, o \notin Dead
             PROVE  \E y \in meta' \cap data' : y = o \/ o \in from[y]
  BY Zenon, SameSets DEF Cover
<1>1. PICK y \in meta \cap data : y = o \/ o \in from[y]
  BY Zenon DEF Cover
<1>2. CASE y # x
  BY Zenon, <1>1, <1>2
<1>3. CASE y = x
  <2>1. Records(o) \subseteq Records(y)
    BY Zenon, <1>1 DEF Types, Graph, Records
  <2>2. y \notin Dead
    BY Zenon, <2>1 DEF Dead, PastTtl
  <2>3. PICK z \in ever : y \in from[z]
    BY Zenon, <1>3, <2>2 DEF Condemned, Replaced
  <2>4. o \in from[z]
    BY Zenon, <1>1, <2>3 DEF Types, Graph
  <2>5. z \notin Dead
    <3>1. Records(o) \subseteq Records(z)
      BY Zenon, <2>4 DEF Types, Graph, Records
    <3> QED
      BY Zenon, <3>1 DEF Dead, PastTtl
  <2>6. PICK w \in meta \cap data : w = z \/ z \in from[w]
    BY Zenon, <2>5 DEF Cover
  <2>7. w # y /\ o \in from[w]
    BY Zenon, <2>3, <2>4, <2>6 DEF Types, Graph
  <2> QED
    BY Zenon, <1>3, <2>6, <2>7
<1> QED
  BY Zenon, <1>2, <1>3

(* A step that leaves the bucket and the clock alone keeps lineage and cover. *)
LEMMA SameBucket ==
  ASSUME Graph, Cover, UNCHANGED <<meta, data, ever, from, expired>>
  PROVE  Graph' /\ Cover'
BY Zenon, SameSets DEF Graph, Cover

(* The types of what most steps leave alone.                                 *)
RestTypes ==
  /\ events \subseteq Event
  /\ registry \subseteq Block
  /\ lease \subseteq Lease /\ fence \subseteq Inst
  /\ walking \subseteq Inst
  /\ listed \in [Inst -> SUBSET Block] /\ missed \in BOOLEAN
  /\ faults \in Nat /\ losses \in Nat

(* A step that moves one pass, and perhaps catalogs and messages, but not    *)
(* the bucket.                                                               *)
LEMMA QuietMove ==
  ASSUME Inv, UNCHANGED <<bucketVars, expired>>,
         NEW i \in Inst, NEW p \in PassState, pass' = [pass EXCEPT ![i] = p],
         PassOK(p),
         p.pc \in Uploading => pass[i].pc \in Uploading /\ p.cur = pass[i].cur,
         Catalogs', cat' \in [Inst -> CatalogState], Messages', RestTypes'
  PROVE  Inv'
<1>1. UNCHANGED <<meta, data, ever, from, level, expired>>
  BY Zenon DEF bucketVars
<1>2. Graph' /\ Cover'
  BY Zenon, <1>1, SameBucket DEF Inv
<1>3. Passes' /\ Distinct' /\ pass' \in [Inst -> PassState]
  <2>1. Types /\ Passes /\ Distinct
    BY Zenon DEF Inv
  <2> QED
    BY Zenon, <1>1, <2>1, PassStep
<1>4. Types'
  BY Zenon, <1>1, <1>3 DEF Types, RestTypes, Inv
<1> QED
  BY Zenon, <1>2, <1>3, <1>4 DEF Inv

(* A step that moves one pass only.                                          *)
LEMMA PassMove ==
  ASSUME Inv, UNCHANGED <<bucketVars, expired, cat, events, registry, walkVars>>,
         NEW i \in Inst, NEW p \in PassState, pass' = [pass EXCEPT ![i] = p],
         PassOK(p),
         p.pc \in Uploading => pass[i].pc \in Uploading /\ p.cur = pass[i].cur,
         lease' \subseteq Lease, fence' \subseteq Inst, faults' \in Nat, losses' \in Nat
  PROVE  Inv'
<1>1. Types /\ Catalogs /\ Messages /\ Grows
  BY Zenon, SameGrows DEF Inv, bucketVars
<1>2. Catalogs' /\ cat' \in [Inst -> CatalogState]
  BY Zenon, <1>1, CatalogsKept
<1>3. Messages' /\ RestTypes'
  BY Zenon, <1>1, MessagesKept DEF walkVars, RestTypes, Types
<1> QED
  BY Zenon, <1>2, <1>3, QuietMove

(* A step that replaces one catalog only.                                    *)
LEMMA CatalogMove ==
  ASSUME Inv, UNCHANGED <<bucketVars, expired, events, registry, leaseVars, pass>>,
         NEW i \in Inst, NEW c, cat' = [cat EXCEPT ![i] = c],
         CatalogInv(c, from, ever, Replaced, Dead),
         Messages', RestTypes'
  PROVE  Inv'
<1>1. Types /\ Catalogs /\ UNCHANGED <<ever, from, expired>>
  BY Zenon DEF Inv, bucketVars
<1>2. Catalogs' /\ cat' \in [Inst -> CatalogState]
  BY Zenon, <1>1, CatalogsStep
<1>3. /\ pass[i] \in PassState /\ PassOK(pass[i])
      /\ pass' = [pass EXCEPT ![i] = pass[i]]
  BY Zenon DEF Inv, Types, Passes
<1> QED
  BY Zenon, <1>2, <1>3, QuietMove

(* A new staging always has a deadline.                                      *)
LEMMA DeadlineType ==
  NewDeadline \in Deadline \ {NoDeadline}
BY Zenon DEF NewDeadline, Deadline, NoDeadline, Ahead, Passed

(* The idle maintenance task satisfies the pass invariant.                   *)
LEMMA IdlePassOK ==
  IdlePass \in PassState /\ PassOK(IdlePass)
BY Zenon DEF IdlePass, PassState, PassPc, Kind, PassOK, Uploading

(* A pass that ends.                                                         *)
LEMMA FinishMove ==
  ASSUME Inv, UNCHANGED <<bucketVars, expired, cat, events, registry, walkVars>>,
         NEW i \in Inst, Finish(i), faults' \in Nat, losses' \in Nat
  PROVE  Inv'
<1>1. pass' = [pass EXCEPT ![i] = IdlePass] /\ lease' \subseteq Lease /\ fence' \subseteq Inst
  BY Zenon DEF Finish, SetPass, Inv, Types
<1> QED
  BY Zenon, <1>1, IdlePassOK, PassMove DEF IdlePass, Uploading

-----------------------------------------------------------------------------
(* The pass of i, as the actions read it.                                    *)
LEMMA ThePass ==
  ASSUME Inv, NEW i \in Inst
  PROVE  /\ pass[i] \in PassState /\ PassOK(pass[i])
         /\ cat[i] \in CatalogState /\ CatalogInv(cat[i], from, ever, Replaced, Dead)
         /\ lease \subseteq Lease /\ fence \subseteq Inst
         /\ faults \in Nat /\ losses \in Nat
BY Zenon DEF Inv, Types, Passes, Catalogs

(* Live rows are committed, superseded rows replaced, staged rows dead.      *)
LEMMA CatalogSets ==
  ASSUME Inv, NEW i \in Inst
  PROVE  /\ Live(cat[i]) \subseteq ever
         /\ PendingReaps(cat[i]) \subseteq Condemned
         /\ StagedDeletions(cat[i]) \subseteq Dead
         /\ PendingDeletions(cat[i]) \subseteq Condemned
         /\ ExpiredLive(cat[i]) \subseteq Dead
         /\ Dead \subseteq ever /\ ever \subseteq Block /\ Condemned \subseteq Block
<1>1. CatalogInv(cat[i], from, ever, Replaced, Dead) /\ ever \subseteq Block
  BY Zenon, ThePass DEF Inv, Types
<1>2. cat[i].rows \subseteq ever /\ cat[i].superseded \subseteq Replaced
  BY Zenon, <1>1 DEF CatalogInv
<1>3. \A x \in cat[i].rows : cat[i].delete_at[x] # NoDeadline => x \in Dead
  BY Zenon, <1>1, <1>2 DEF CatalogInv
<1> QED
  BY Zenon, <1>1, <1>2, <1>3 DEF Live, PendingReaps, StagedDeletions, PendingDeletions,
     ExpiredLive, Condemned, Dead, Replaced, NoDeadline, Passed

(* run_compaction_pass plans from live rows and due reaps only.              *)
LEMMA CompactStartInv ==
  ASSUME Inv, NEW i \in Inst, CompactStart(i)
  PROVE  Inv'
<1>1. PICK P \in Plans(cat[i]) \cup {{}} :
        pass' = [pass EXCEPT ![i] = [IdlePass EXCEPT
            !.pc = "reap", !.plan = P, !.todo = PendingReaps(cat[i]),
            !.lvl = IF P = {} THEN 0 ELSE level[CHOOSE b \in P : TRUE]]]
  BY Zenon DEF CompactStart, SetPass
<1> DEFINE l == IF P = {} THEN 0 ELSE level[CHOOSE b \in P : TRUE]
           p == [IdlePass EXCEPT !.pc = "reap", !.plan = P,
                                 !.todo = PendingReaps(cat[i]), !.lvl = l]
<1>2. P \subseteq ever
  BY Zenon, CatalogSets DEF Plans
<1>3. l \in Nat
  BY Zenon, <1>2 DEF Inv, Types
<1> HIDE DEF l
<1>4. p \in PassState /\ PassOK(p)
  BY Zenon, <1>2, <1>3, CatalogSets DEF PassState, PassPc, Kind, IdlePass, PassOK, Uploading
<1> QED
  BY Zenon, <1>1, <1>4, ThePass, PassMove DEF CompactStart, l, leaseVars, Uploading, IdlePass

(* A reap that is done goes on to the lease with a plan, or ends the pass.   *)
LEMMA ReapDoneInv ==
  ASSUME Inv, NEW i \in Inst, ReapDone(i)
  PROVE  Inv'
<1>1. CASE pass[i].plan = {}
  BY Zenon, <1>1, ThePass, FinishMove DEF ReapDone
<1>2. CASE pass[i].plan # {}
  <2>1. /\ [pass[i] EXCEPT !.pc = "acquire"] \in PassState
        /\ PassOK([pass[i] EXCEPT !.pc = "acquire"])
    BY Zenon, <1>2, ThePass DEF PassState, PassPc, PassOK, Uploading
  <2> QED
    BY Zenon, <1>2, <2>1, ThePass, PassMove DEF ReapDone, SetPass, leaseVars, Uploading, PassState
<1> QED
  BY Zenon, <1>1, <1>2

(* Taking the lease, or skipping the work when a peer has it.                *)
LEMMA AcquireInv ==
  ASSUME Inv, NEW i \in Inst, Acquire(i) \/ AcquireSkips(i)
  PROVE  Inv'
<1>1. CASE Acquire(i)
  <2> DEFINE p == [pass[i] EXCEPT !.pc = IF pass[i].kind = "compact" THEN "list" ELSE "stage"]
  <2>1. p \in PassState /\ PassOK(p) /\ p.pc \notin Uploading
    BY ZenonT(60), <1>1, ThePass DEF Acquire, PassState, PassPc, Kind, PassOK, Uploading
  <2>2. MyLease(i) \in Lease
    BY Zenon, ThePass DEF MyLease, Lease, PassState
  <2>3. lease' \subseteq Lease /\ fence' \subseteq Inst /\ pass' = [pass EXCEPT ![i] = p]
    BY Zenon, <1>1, <2>2, ThePass DEF Acquire, SetPass
  <2> HIDE DEF p
  <2> QED
    BY Zenon, <1>1, <2>1, <2>3, ThePass, PassMove DEF Acquire
<1>2. CASE AcquireSkips(i)
  <2>1. faults' \in Nat /\ pass' = [pass EXCEPT ![i] = IdlePass]
    BY <1>2, ThePass DEF AcquireSkips, SetPass
  <2> QED
    BY Zenon, <1>2, <2>1, IdlePassOK, ThePass, PassMove DEF AcquireSkips, leaseVars, IdlePass, Uploading
<1> QED
  BY Zenon, <1>1, <1>2

(* A delete that fails leaves the block pending.                             *)
LEMMA ReapFailsInv ==
  ASSUME Inv, NEW i \in Inst, ReapFails(i)
  PROVE  Inv'
<1>0. faults' \in Nat
  BY ThePass DEF ReapFails
<1>1. CASE pass[i].pc = "reap" /\ \E b \in pass[i].todo :
             SetPass(i, [pass[i] EXCEPT !.todo = @ \ {b}])
  <2>1. PICK b \in pass[i].todo : pass' = [pass EXCEPT ![i] = [pass[i] EXCEPT !.todo = @ \ {b}]]
    BY Zenon, <1>1 DEF SetPass
  <2> DEFINE p == [pass[i] EXCEPT !.todo = @ \ {b}]
  <2>2. p \in PassState /\ PassOK(p) /\ p.pc \notin Uploading
    BY Zenon, <1>1, ThePass DEF PassState, PassPc, PassOK, Uploading
  <2> QED
    BY Zenon, <1>0, <2>1, <2>2, ThePass, PassMove DEF ReapFails, leaseVars
<1>2. CASE pass[i].pc \in {"reapmeta", "reaprow"} /\
             SetPass(i, [pass[i] EXCEPT !.pc = "reap", !.cur = NoBlock])
  <2> DEFINE p == [pass[i] EXCEPT !.pc = "reap", !.cur = NoBlock]
  <2>2. p \in PassState /\ PassOK(p) /\ p.pc \notin Uploading
    BY Zenon, <1>2, ThePass DEF PassState, PassPc, PassOK, Uploading
  <2> QED
    BY Zenon, <1>0, <1>2, <2>2, ThePass, PassMove DEF ReapFails, SetPass, leaseVars
<1> QED
  BY Zenon, <1>1, <1>2 DEF ReapFails

(* The listing of reconcile_partition names committed blocks.                *)
LEMMA ReconcileListInv ==
  ASSUME Inv, NEW i \in Inst, ReconcileList(i)
  PROVE  Inv'
<1> DEFINE p == [pass[i] EXCEPT !.pc = "fetch", !.todo = meta \ cat[i].rows]
<1>0. meta \ cat[i].rows \subseteq ever /\ ever \subseteq Block /\ pass[i].pc = "list"
  BY Zenon DEF Inv, Types, Graph, ReconcileList
<1>1. p \in PassState /\ PassOK(p) /\ p.pc \notin Uploading
  BY Zenon, <1>0, ThePass DEF PassState, PassPc, PassOK, Uploading
<1> QED
  BY Zenon, <1>1, ThePass, PassMove DEF ReconcileList, SetPass, leaseVars

(* A failed reconcile ends the pass.                                         *)
LEMMA ReconcileFailsInv ==
  ASSUME Inv, NEW i \in Inst, ReconcileFails(i)
  PROVE  Inv'
BY ThePass, FinishMove DEF ReconcileFails

(* A merge that fails before its commit ends the pass.                       *)
LEMMA MergeFailsInv ==
  ASSUME Inv, NEW i \in Inst, MergeFails(i)
  PROVE  Inv'
<1>1. faults' \in Nat
  BY ThePass DEF MergeFails
<1> QED
  BY Zenon, <1>1, ThePass, FinishMove DEF MergeFails

(* The commit PUT starts with the uuid that was uploaded.                    *)
LEMMA CommitSendInv ==
  ASSUME Inv, NEW i \in Inst, CommitSend(i)
  PROVE  Inv'
<1> DEFINE p == [pass[i] EXCEPT !.pc = "put"]
<1>1. p \in PassState /\ PassOK(p) /\ p.cur = pass[i].cur /\ pass[i].pc \in Uploading
  BY Zenon, ThePass DEF CommitSend, PassState, PassPc, PassOK, Uploading
<1> QED
  BY Zenon, <1>1, ThePass, PassMove DEF CommitSend, SetPass, leaseVars

(* delete_block_objects: the objects of a condemned block go, and Cover      *)
(* still holds.                                                              *)
LEMMA ReapObjects ==
  ASSUME Inv, NEW i \in Inst, NEW x \in Condemned,
         data' = data \ {x} \/ data' = data, meta' = meta \ {x} \/ meta' = meta,
         UNCHANGED <<ever, from, level, expired, cat, events, registry, leaseVars,
                     walkVars, faults, losses>>,
         NEW p \in PassState, pass' = [pass EXCEPT ![i] = p], PassOK(p),
         p.pc \notin Uploading
  PROVE  Inv'
<1>1. Types /\ Graph /\ Cover /\ Catalogs /\ Messages /\ Passes /\ Distinct
  BY Zenon DEF Inv
<1>2. Grows /\ Replaced' = Replaced /\ Dead' = Dead /\ Condemned' = Condemned
  BY Zenon, <1>1, SameGrows, SameSets
<1>3. Cover'
  BY Zenon, <1>1, CoverReap
<1>4. Graph'
  BY Zenon, <1>1 DEF Graph
<1>5. Catalogs' /\ cat' \in [Inst -> CatalogState]
  BY Zenon, <1>1, <1>2, CatalogsKept
<1>6. Messages'
  BY Zenon, <1>1, <1>2, MessagesKept DEF walkVars
<1>7. x \in ever
  BY Zenon DEF Condemned, Replaced, Dead
<1>8. \A j \in Inst \ {i} : PassOK(pass[j])'
  <2>1. \A j \in Inst \ {i} : pass'[j] = pass[j] /\ PassOK(pass[j])
    BY Zenon, <1>1 DEF Types, Passes
  <2>2. \A j \in Inst \ {i} : pass[j].pc \in Uploading =>
                /\ pass[j].cur \in data' /\ pass[j].cur \notin ever'
                /\ from'[pass[j].cur] = from[pass[j].cur]
    BY SMTT(60), <2>1, <1>7 DEF PassOK
  <2> QED
    BY Zenon, <2>1, <2>2, <1>1, <1>2, OtherPasses
<1>9. PassOK(pass[i])'
  <2>1. pass'[i] = p
    BY Zenon, <1>1 DEF Types
  <2> QED
    BY <1>2, <2>1 DEF PassOK
<1>10. Passes' /\ Distinct'
  BY Zenon, <1>1, <1>8, <1>9 DEF Passes, Distinct, Types
<1>11. Types'
  BY Zenon, <1>1, <1>5 DEF Types, leaseVars, walkVars
<1> QED
  BY Zenon, <1>3, <1>4, <1>5, <1>6, <1>10, <1>11 DEF Inv

(* A reap deletes the data objects of a condemned block.                     *)
LEMMA ReapDataInv ==
  ASSUME Inv, NEW i \in Inst, ReapData(i)
  PROVE  Inv'
<1>1. PICK b \in pass[i].todo :
        /\ data' = data \ {b}
        /\ pass' = [pass EXCEPT ![i] =
                      [pass[i] EXCEPT !.pc = "reapmeta", !.cur = b, !.todo = @ \ {b}]]
  BY Zenon DEF ReapData, SetPass
<1> DEFINE p == [pass[i] EXCEPT !.pc = "reapmeta", !.cur = b, !.todo = @ \ {b}]
<1>2. b \in Condemned /\ b \in Block
  BY Zenon, ThePass DEF ReapData, PassOK, PassState
<1>3. p \in PassState /\ PassOK(p) /\ p.pc \notin Uploading
  BY Zenon, <1>2, ThePass DEF ReapData, PassState, PassPc, PassOK, Uploading
<1> QED
  BY Zenon, <1>1, <1>2, <1>3, ReapObjects DEF ReapData

(* A reap deletes the meta.json of a condemned block.                        *)
LEMMA ReapMetaInv ==
  ASSUME Inv, NEW i \in Inst, ReapMeta(i)
  PROVE  Inv'
<1> DEFINE p == [pass[i] EXCEPT !.pc = "reaprow"]
<1>1. p \in PassState /\ PassOK(p) /\ p.pc \notin Uploading /\ pass[i].cur \in Condemned
  BY Zenon, ThePass DEF ReapMeta, PassState, PassPc, PassOK, Uploading
<1> QED
  BY Zenon, <1>1, ReapObjects DEF ReapMeta, SetPass

(* The row of a deleted block goes, and Deleted is published.                *)
LEMMA ReapRowInv ==
  ASSUME Inv, NEW i \in Inst, ReapRow(i)
  PROVE  Inv'
<1> DEFINE p == [pass[i] EXCEPT !.pc = "reap", !.cur = NoBlock]
<1>0. Types /\ Catalogs /\ Messages /\ UNCHANGED <<ever, from, expired>>
  BY Zenon DEF Inv, ReapRow, bucketVars
<1>1. p \in PassState /\ PassOK(p) /\ p.pc \notin Uploading /\ pass[i].cur \in Block
  BY ZenonT(60), ThePass, CatalogSets DEF ReapRow, PassState, PassPc, PassOK, Uploading
<1>2. CatalogInv(DeleteBlocks(cat[i], {pass[i].cur}), from, ever, Replaced, Dead)
  BY Zenon, ThePass, DeleteBlocksInv
<1>3. cat' = [cat EXCEPT ![i] = DeleteBlocks(cat[i], {pass[i].cur})]
  BY Zenon DEF ReapRow
<1>4. Catalogs' /\ cat' \in [Inst -> CatalogState]
  BY Zenon, <1>0, <1>2, <1>3, CatalogsStep
<1>5. events' = events \cup {[kind |-> "deleted", block |-> pass[i].cur]}
  BY Zenon DEF ReapRow, Emit, Ev
<1>6. Messages' /\ RestTypes'
  BY <1>0, <1>1, <1>5, SameSets DEF ReapRow, Messages, RestTypes, Types, Event, walkVars, leaseVars
<1> QED
  BY Zenon, <1>1, <1>4, <1>6, QuietMove DEF ReapRow, SetPass

(* FetchAndApply keeps a catalog consistent: the sidecar was committed.      *)
LEMMA FetchInv ==
  ASSUME Inv, NEW i \in Inst, NEW b \in ever, FetchAndApply(i, b)
  PROVE  \E c : /\ cat' = [cat EXCEPT ![i] = c]
                /\ CatalogInv(c, from, ever, Replaced, Dead)
<1>1. CatalogInv(InsertBlock(cat[i], b, from), from, ever, Replaced, Dead)
  BY Zenon, ThePass, LineageHolds, InsertBlockInv DEF Inv
<1>2. cat = [cat EXCEPT ![i] = cat[i]]
  BY Zenon DEF Inv, Types
<1>3. CASE cat' = [cat EXCEPT ![i] = InsertBlock(@, b, from)]
  BY Zenon, <1>1, <1>3
<1>4. CASE cat' = cat
  BY Zenon, <1>2, <1>4, ThePass
<1> QED
  BY Zenon, <1>3, <1>4 DEF FetchAndApply

(* fetch_and_apply under the compaction lease.                               *)
LEMMA ReconcileFetchInv ==
  ASSUME Inv, NEW i \in Inst, ReconcileFetch(i)
  PROVE  Inv'
<1>0. Types /\ Catalogs /\ Messages /\ Grows /\ UNCHANGED <<ever, from, expired>>
  BY Zenon, SameGrows DEF Inv, ReconcileFetch, bucketVars
<1>1. PICK b \in pass[i].todo :
        FetchAndApply(i, b) /\ SetPass(i, [pass[i] EXCEPT !.todo = @ \ {b}])
  BY Zenon DEF ReconcileFetch
<1> DEFINE p == [pass[i] EXCEPT !.todo = @ \ {b}]
<1>2. b \in ever /\ p \in PassState /\ PassOK(p) /\ p.pc \notin Uploading
  BY Zenon, ThePass DEF ReconcileFetch, PassState, PassPc, PassOK, Uploading
<1>3. Catalogs' /\ cat' \in [Inst -> CatalogState]
  BY Zenon, <1>0, <1>1, <1>2, FetchInv, CatalogsStep
<1>4. Messages' /\ RestTypes'
  BY Zenon, <1>0, MessagesKept DEF ReconcileFetch, leaseVars, RestTypes, Types
<1> QED
  BY Zenon, <1>1, <1>2, <1>3, <1>4, QuietMove DEF ReconcileFetch, SetPass

(* The end of reconcile_partition, and the revalidation of the plan.         *)
LEMMA ReconcileDoneInv ==
  ASSUME Inv, NEW i \in Inst, ReconcileDone(i)
  PROVE  Inv'
<1>0. Types /\ Catalogs /\ Messages /\ Grows /\ UNCHANGED <<ever, from, expired>>
  BY Zenon, SameGrows DEF Inv, ReconcileDone, bucketVars
<1>1. CatalogInv(StageUnstagedSuperseded(cat[i], NewDeadline), from, ever, Replaced, Dead)
  BY Zenon, ThePass, DeadlineType, StageUnstagedInv
<1>2. cat' = [cat EXCEPT ![i] = StageUnstagedSuperseded(cat[i], NewDeadline)]
  BY Zenon DEF ReconcileDone
<1>3. Catalogs' /\ cat' \in [Inst -> CatalogState]
  BY Zenon, <1>0, <1>1, <1>2, CatalogsStep
<1>4. lease' \subseteq Lease /\ fence' \subseteq Inst
  BY Zenon, ThePass DEF ReconcileDone, Finish, leaseVars
<1>5. Messages' /\ RestTypes'
  BY Zenon, <1>0, <1>4, MessagesKept DEF ReconcileDone, walkVars, RestTypes, Types
<1>6. CASE pass' = [pass EXCEPT ![i] = IdlePass]
  BY Zenon, <1>3, <1>5, <1>6, IdlePassOK, QuietMove DEF ReconcileDone, IdlePass, Uploading
<1>7. CASE pass' = [pass EXCEPT ![i] = [pass[i] EXCEPT !.pc = "merge"]]
  <2> DEFINE p == [pass[i] EXCEPT !.pc = "merge"]
  <2>1. p \in PassState /\ PassOK(p) /\ p.pc \notin Uploading
    BY Zenon, ThePass DEF ReconcileDone, PassState, PassPc, PassOK, Uploading
  <2> QED
    BY Zenon, <1>3, <1>5, <1>7, <2>1, QuietMove DEF ReconcileDone
<1> QED
  BY Zenon, <1>6, <1>7 DEF ReconcileDone, Finish, SetPass

(* What EmitSoft leaves behind.                                              *)
LEMMA EmitSoftInv ==
  ASSUME Inv, NEW S \in SUBSET Dead, EmitSoft(S), UNCHANGED <<ever, from, expired, listed>>
  PROVE  Messages' /\ events' \subseteq Event /\ registry' \subseteq Block /\ faults' \in Nat
<1>0. S \subseteq Block /\ faults \in Nat /\ events \subseteq Event /\ registry \subseteq Block
  BY Zenon DEF Inv, Types, Dead
<1>1. events' = events \cup {[kind |-> "soft", block |-> b] : b \in S}
  BY Zenon DEF EmitSoft, Emit, Ev
<1>2. registry' \subseteq registry \cup S /\ faults' \in Nat
  BY <1>0 DEF EmitSoft
<1>3. events' \subseteq Event
  BY SMTT(60), <1>0, <1>1 DEF Event
<1>4. Dead' = Dead
  BY Zenon, SameSets
<1>5. \A e \in events' : /\ e.kind \in {"created", "superseded"} => e.block \in ever
                         /\ e.kind = "soft" => e.block \in Dead
  BY SMTT(60), <1>1 DEF Inv, Messages
<1> QED
  BY Zenon, <1>0, <1>2, <1>3, <1>4, <1>5 DEF Inv, Messages

(* run_retention_pass plans blocks past their TTL only.                      *)
LEMMA RetainStartInv ==
  ASSUME Inv, NEW i \in Inst, RetainStart(i)
  PROVE  Inv'
<1>0. Types /\ Catalogs /\ Grows /\ UNCHANGED <<ever, from, expired, listed>>
  BY Zenon, SameGrows DEF Inv, RetainStart, bucketVars, walkVars
<1> DEFINE p == [IdlePass EXCEPT !.kind = "retain", !.pc = "reap",
                   !.plan = ExpiredLive(cat[i]), !.todo = PendingDeletions(cat[i])]
<1>1. p \in PassState /\ PassOK(p) /\ p.pc \notin Uploading
  BY Zenon, CatalogSets DEF IdlePass, PassState, PassPc, Kind, PassOK, Uploading
<1>2. Messages' /\ events' \subseteq Event /\ registry' \subseteq Block /\ faults' \in Nat
  BY Zenon, <1>0, CatalogSets, EmitSoftInv DEF RetainStart
<1>3. Catalogs' /\ cat' \in [Inst -> CatalogState]
  BY Zenon, <1>0, CatalogsKept DEF RetainStart
<1>4. RestTypes'
  BY Zenon, <1>0, <1>2 DEF RetainStart, RestTypes, Types, leaseVars, walkVars
<1> QED
  BY Zenon, <1>1, <1>2, <1>3, <1>4, QuietMove DEF RetainStart, SetPass

(* A pass that may go on to reap what its own step staged.                   *)
LEMMA ReapNowMove ==
  ASSUME Inv, UNCHANGED <<bucketVars, expired>>,
         NEW i \in Inst, NEW todo \in SUBSET Condemned,
         ReapNowOrFinish(i, todo) \/ Finish(i),
         Catalogs', cat' \in [Inst -> CatalogState], Messages',
         events' \subseteq Event, registry' \subseteq Block,
         walking' \subseteq Inst, listed' \in [Inst -> SUBSET Block], missed' \in BOOLEAN,
         faults' \in Nat, losses' \in Nat
  PROVE  Inv'
<1>1. lease' \subseteq Lease /\ fence' \subseteq Inst
  BY Zenon, ThePass DEF ReapNowOrFinish, Finish, leaseVars
<1>2. RestTypes'
  BY Zenon, <1>1 DEF RestTypes
<1>3. CASE pass' = [pass EXCEPT ![i] = IdlePass]
  BY Zenon, <1>2, <1>3, IdlePassOK, QuietMove DEF IdlePass, Uploading
<1>4. CASE pass' = [pass EXCEPT ![i] = [pass[i] EXCEPT !.pc = "reap", !.plan = {},
                                          !.cur = NoBlock, !.todo = todo]]
  <2> DEFINE p == [pass[i] EXCEPT !.pc = "reap", !.plan = {}, !.cur = NoBlock, !.todo = todo]
  <2>1. p \in PassState /\ PassOK(p) /\ p.pc \notin Uploading
    BY ZenonT(60), ThePass, CatalogSets DEF PassState, PassPc, PassOK, Uploading
  <2> QED
    BY Zenon, <1>2, <1>4, <2>1, QuietMove
<1> QED
  BY Zenon, <1>3, <1>4 DEF ReapNowOrFinish, Finish, SetPass

(* What a consistent catalog hands to a reap is condemned.                   *)
LEMMA CatalogDue ==
  ASSUME NEW c, CatalogInv(c, from, ever, Replaced, Dead)
  PROVE  PendingReaps(c) \subseteq Condemned /\ PendingDeletions(c) \subseteq Condemned
<1>1. c.superseded \subseteq Replaced /\ c.rows \subseteq Block
  BY Zenon DEF CatalogInv, CatalogState
<1>2. \A x \in Block : c.delete_at[x] # NoDeadline => x \in Dead
  BY Zenon DEF CatalogInv
<1> QED
  BY Zenon, <1>1, <1>2 DEF PendingReaps, PendingDeletions, Condemned, NoDeadline, Passed

(* compact_partition publishes a merge that is committed.                    *)
LEMMA PublishInv ==
  ASSUME Inv, NEW i \in Inst, Publish(i)
  PROVE  Inv'
<1> DEFINE m == pass[i].cur
           c == ApplyCompaction(cat[i], m, pass[i].plan, NewDeadline, from)
<1>0. Types /\ Graph /\ Catalogs /\ Messages /\ UNCHANGED <<ever, from, expired>>
  BY Zenon DEF Inv, Publish, bucketVars
<1>1. m \in ever /\ pass[i].plan \subseteq from[m] /\ m \in Block
  BY Zenon, <1>0, ThePass DEF Publish, PassOK, Types
<1>2. pass[i].plan \cap ever \subseteq Replaced
  BY Zenon, <1>1 DEF Replaced
<1>3. CatalogInv(c, from, ever, Replaced, Dead)
  BY Zenon, <1>0, <1>1, <1>2, ThePass, LineageHolds, DeadlineType, ApplyCompactionInv
<1>4. cat' = [cat EXCEPT ![i] = c] /\ ReapNowOrFinish(i, PendingReaps(c))
  BY Zenon DEF Publish
<1>5. events' = events \cup {[kind |-> "created", block |-> m], [kind |-> "superseded", block |-> m]}
  BY Zenon DEF Publish, Emit, Ev
<1> HIDE DEF c
<1>6. Catalogs' /\ cat' \in [Inst -> CatalogState]
  BY Zenon, <1>0, <1>3, <1>4, CatalogsStep
<1>7. PendingReaps(c) \subseteq Condemned
  BY Zenon, <1>3, CatalogDue
<1>8. Messages' /\ events' \subseteq Event
  BY SMTT(60), <1>0, <1>1, <1>5, SameSets DEF Publish, Messages, Types, Event, walkVars
<1> QED
  BY Zenon, <1>0, <1>4, <1>6, <1>7, <1>8, ReapNowMove DEF Publish, walkVars, Types

(* retain_planned stages blocks past their TTL only.                         *)
LEMMA RetainStageInv ==
  ASSUME Inv, NEW i \in Inst, RetainStage(i)
  PROVE  Inv'
<1> DEFINE c == MarkDeleted(cat[i], pass[i].plan, NewDeadline)
<1>0. /\ Types /\ Catalogs /\ Messages
      /\ UNCHANGED <<bucketVars, ever, from, expired, walking, listed, missed,
                     losses>>
  BY Zenon DEF Inv, RetainStage, bucketVars, walkVars
<1>1. pass[i].plan \subseteq Dead
  BY Zenon, ThePass DEF RetainStage, PassOK
<1>2. CatalogInv(c, from, ever, Replaced, Dead)
  BY Zenon, <1>1, ThePass, DeadlineType, MarkDeletedInv
<1> HIDE DEF c
<1>3. CASE i \in fence
  <2>1. /\ cat' = [cat EXCEPT ![i] = c] /\ EmitSoft(pass[i].plan)
        /\ ReapNowOrFinish(i, PendingDeletions(c))
    BY Zenon, <1>3 DEF RetainStage, c
  <2>2. Catalogs' /\ cat' \in [Inst -> CatalogState]
    BY Zenon, <1>0, <1>2, <2>1, CatalogsStep
  <2>3. Messages' /\ events' \subseteq Event /\ registry' \subseteq Block /\ faults' \in Nat
    BY Zenon, <1>0, <1>1, <2>1, EmitSoftInv
  <2>4. PendingDeletions(c) \subseteq Condemned
    BY Zenon, <1>2, CatalogDue
  <2> QED
    BY Zenon, <1>0, <2>1, <2>2, <2>3, <2>4, ReapNowMove DEF Types
<1>4. CASE i \notin fence
  BY Zenon, <1>0, <1>4, ThePass, FinishMove DEF RetainStage, walkVars
<1> QED
  BY Zenon, <1>3, <1>4

(* A step that changes the bucket and moves the pass of one instance.        *)
LEMMA BucketMove ==
  ASSUME Inv, Grows, Graph', Cover',
         meta' \subseteq Block, data' \subseteq Block, level' \in [Block -> Nat],
         NEW i \in Inst, NEW p \in PassState, pass' = [pass EXCEPT ![i] = p],
         PassOK(p)',
         \A j \in Inst \ {i} : pass[j].pc \in Uploading =>
           /\ pass[j].cur \in data' /\ pass[j].cur \notin ever'
           /\ from'[pass[j].cur] = from[pass[j].cur]
           /\ p.pc \in Uploading => p.cur # pass[j].cur,
         Catalogs', cat' \in [Inst -> CatalogState], Messages', RestTypes'
  PROVE  Inv'
<1>1. Types /\ Passes /\ Distinct
  BY Zenon DEF Inv
<1>2. pass' \in [Inst -> PassState] /\ pass'[i] = p
      /\ \A j \in Inst \ {i} : pass'[j] = pass[j]
  BY Zenon, <1>1 DEF Types
<1>3. \A j \in Inst \ {i} : PassOK(pass[j])'
  BY Zenon, <1>1, <1>2, OtherPasses
<1>4. PassOK(pass[i])'
  BY Zenon, <1>2
<1>5. Passes'
  BY Zenon, <1>3, <1>4 DEF Passes
<1>6. Distinct'
  BY ZenonT(60), <1>1, <1>2 DEF Distinct
<1>7. Types'
  BY Zenon, <1>2 DEF Types, RestTypes, Grows
<1> QED
  BY Zenon, <1>5, <1>6, <1>7 DEF Inv

(* merge_blocks mints a uuid whose lineage is closed and committed.          *)
LEMMA MergeReadInv ==
  ASSUME Inv, NEW i \in Inst, MergeRead(i)
  PROVE  Inv'
<1> DEFINE o == CHOOSE o \in Output : from[o] = {}
           A == Ancestry(pass[i].plan)
<1>0. Types /\ Graph /\ Cover /\ Catalogs /\ Messages /\ Passes
  BY Zenon DEF Inv
<1>1. o \in Output /\ from[o] = {}
  BY Zenon DEF MergeRead, Free
<1>2. /\ from' = [from EXCEPT ![o] = A]
      /\ level' = [level EXCEPT ![o] = pass[i].lvl + 1]
      /\ data' = data \cup {o}
      /\ pass' = [pass EXCEPT ![i] = [pass[i] EXCEPT !.pc = "commit", !.cur = o]]
      /\ UNCHANGED <<meta, ever, expired, cat, events, registry, leaseVars, walkVars,
                     faults, losses>>
  BY Zenon DEF MergeRead, SetPass
<1> HIDE DEF o
<1>3. o \in Block /\ o \notin ever
  BY Zenon, <1>0, <1>1, MaintenanceAssumption DEF Graph
<1>4. pass[i].plan \subseteq ever /\ pass[i].plan # {} /\ ever \subseteq Block
  BY Zenon, <1>0, ThePass DEF MergeRead, PassOK, Types
<1>5. A \subseteq ever /\ A # {} /\ pass[i].plan \subseteq A
      /\ \A x \in A : from[x] \subseteq A
  BY <1>0, <1>4 DEF Ancestry, Graph, Types
<1> HIDE DEF A
<1>6. Grows
  BY Zenon, <1>0, <1>2, <1>3, <1>4, <1>5 DEF Grows, Types
<1>7. from'[o] = A /\ \A x \in Block : x # o => from'[x] = from[x]
  BY Zenon, <1>0, <1>2, <1>3 DEF Types
<1>8. Graph'
  <2>1. \A x \in Block : x \notin from'[x] /\ from'[x] \subseteq ever
    BY Zenon, <1>0, <1>3, <1>5, <1>7 DEF Graph
  <2>2. ASSUME NEW y \in Block, NEW x \in from'[y] PROVE from'[x] \subseteq from'[y]
    <3>1. x \in ever /\ x # o /\ x \in Block
      BY Zenon, <1>3, <1>4, <2>1
    <3> QED
      BY Zenon, <1>0, <1>5, <1>7, <3>1 DEF Graph
  <2>3. \A x \in ever \cap Output : from'[x] # {}
    BY Zenon, <1>0, <1>3, <1>4, <1>7 DEF Graph
  <2> QED
    BY Zenon, <1>0, <1>2, <2>1, <2>2, <2>3 DEF Graph
<1>9. Cover'
  <2>1. Dead \subseteq Dead'
    BY Zenon, <1>6, GrowsSets
  <2>2. \A y \in meta \cap data : y \in meta' \cap data' /\ from'[y] = from[y]
    BY Zenon, <1>0, <1>2, <1>6 DEF Graph, Grows
  <2> QED
    BY Zenon, <1>0, <1>2, <2>1, <2>2 DEF Cover
<1>10. PICK q \in PassState : q = [pass[i] EXCEPT !.pc = "commit", !.cur = o]
  BY Zenon, <1>3, ThePass DEF PassState, PassPc
<1>q. /\ q.plan = pass[i].plan /\ q.kind = pass[i].kind /\ q.pc = "commit" /\ q.cur = o
  BY Zenon, <1>10, ThePass DEF PassState
<1>11. PassOK(q)'
  <2>2. q.kind = "retain" => q.plan \subseteq Dead'
    BY Zenon, <1>6, <1>q, GrowsSets, ThePass DEF PassOK
  <2>3. q.cur \in (data' \cap Output) \ ever' /\ q.plan \subseteq from'[q.cur] /\ from'[q.cur] # {}
    BY Zenon, <1>1, <1>2, <1>3, <1>5, <1>7, <1>q
  <2>4. q.plan \subseteq ever'
    BY Zenon, <1>2, <1>4, <1>q
  <2> QED
    BY Zenon, <1>q, <2>2, <2>3, <2>4 DEF PassOK, Uploading
<1>12. \A j \in Inst \ {i} : pass[j].pc \in Uploading =>
           /\ pass[j].cur \in data' /\ pass[j].cur \notin ever'
           /\ from'[pass[j].cur] = from[pass[j].cur]
           /\ q.pc \in Uploading => q.cur # pass[j].cur
  <2> SUFFICES ASSUME NEW j \in Inst \ {i}, pass[j].pc \in Uploading
               PROVE  /\ pass[j].cur \in data' /\ pass[j].cur \notin ever'
                      /\ from'[pass[j].cur] = from[pass[j].cur]
                      /\ q.cur # pass[j].cur
    BY Zenon
  <2>1. pass[j].cur \in (data \cap Output) \ ever /\ from[pass[j].cur] # {}
    BY Zenon, <1>0 DEF Passes, PassOK
  <2> QED
    BY Zenon, <1>0, <1>1, <1>2, <1>7, <1>q, <2>1 DEF Types
<1>13. Catalogs' /\ cat' \in [Inst -> CatalogState]
  BY Zenon, <1>0, <1>2, <1>6, CatalogsKept
<1>14. Messages' /\ RestTypes'
  BY Zenon, <1>0, <1>2, <1>6, MessagesKept DEF walkVars, leaseVars, RestTypes, Types
<1>15. meta' \subseteq Block /\ data' \subseteq Block /\ level' \in [Block -> Nat]
  BY <1>0, <1>2, <1>3, ThePass DEF Types, PassState
<1> QED
  BY ZenonT(60), <1>2, <1>6, <1>8, <1>9, <1>10, <1>11, <1>12, <1>13, <1>14, <1>15, BucketMove

(* The cleanup of an unfenced merge removes no committed block.              *)
LEMMA CommitAbortsInv ==
  ASSUME Inv, NEW i \in Inst, CommitAborts(i)
  PROVE  Inv'
<1>0. Types /\ Graph /\ Cover /\ Catalogs /\ Messages /\ Passes /\ Distinct
  BY Zenon DEF Inv
<1>1. /\ data' = data \ {pass[i].cur} /\ pass' = [pass EXCEPT ![i] = IdlePass]
      /\ lease' \subseteq Lease /\ fence' \subseteq Inst
      /\ UNCHANGED <<meta, ever, from, level, expired, cat, events, registry, walking,
                     listed, missed, faults, losses>>
  BY Zenon, ThePass DEF CommitAborts, Finish, SetPass, walkVars
<1>2. pass[i].pc \in Uploading /\ pass[i].cur \notin ever
  BY Zenon, ThePass DEF CommitAborts, Uploading, PassOK
<1>3. Grows
  BY Zenon, <1>0, <1>1, SameGrows
<1>4. Graph' /\ Cover'
  <2>1. meta \cap data = meta' \cap data'
    BY ZenonT(60), <1>0, <1>1, <1>2 DEF Graph
  <2>2. Dead' = Dead
    BY Zenon, <1>1, SameSets
  <2> QED
    BY Zenon, <1>0, <1>1, <2>1, <2>2 DEF Graph, Cover
<1>5. Catalogs' /\ cat' \in [Inst -> CatalogState]
  BY Zenon, <1>0, <1>1, <1>3, CatalogsKept
<1>6. Messages' /\ RestTypes'
  BY Zenon, <1>0, <1>1, <1>3, MessagesKept DEF RestTypes, Types
<1>7. PassOK(IdlePass)' /\ IdlePass.pc \notin Uploading
  BY Zenon DEF PassOK, IdlePass, Uploading
<1>8. \A j \in Inst \ {i} : pass[j].pc \in Uploading =>
           /\ pass[j].cur \in data' /\ pass[j].cur \notin ever'
           /\ from'[pass[j].cur] = from[pass[j].cur]
           /\ IdlePass.pc \in Uploading => IdlePass.cur # pass[j].cur
  BY Zenon, <1>0, <1>1, <1>2, <1>7 DEF Distinct, Passes, PassOK
<1>9. meta' \subseteq Block /\ data' \subseteq Block /\ level' \in [Block -> Nat]
  BY Zenon, <1>0, <1>1 DEF Types
<1> QED
  BY Zenon, <1>1, <1>3, <1>4, <1>5, <1>6, <1>7, <1>8, <1>9, IdlePassOK, BucketMove

(* The commit point: the sidecar of i's upload appears.                      *)
LEMMA CommitBucket ==
  ASSUME Inv, NEW i \in Inst, pass[i].pc = "put",
         meta' = meta \cup {pass[i].cur}, ever' = ever \cup {pass[i].cur},
         UNCHANGED <<data, from, expired>>
  PROVE  /\ Grows /\ Graph' /\ Cover'
         /\ meta' \subseteq Block /\ pass[i].cur \in Block
         /\ \A j \in Inst \ {i} : pass[j].pc \in Uploading =>
              /\ pass[j].cur \in data' /\ pass[j].cur \notin ever'
              /\ from'[pass[j].cur] = from[pass[j].cur]
<1>0. Types /\ Graph /\ Cover /\ Passes /\ Distinct
  BY Zenon DEF Inv
<1>1. /\ pass[i].cur \in (data \cap Output) \ ever /\ pass[i].cur \in Block
      /\ from[pass[i].cur] # {} /\ pass[i].pc \in Uploading
  BY Zenon, <1>0, ThePass DEF PassOK, Uploading, Types
<1>2. Grows
  BY Zenon, <1>0, <1>1 DEF Grows, Types
<1>3. Graph'
  BY Zenon, <1>0, <1>1 DEF Graph, Types
<1>4. Cover'
  <2>1. Dead \subseteq Dead'
    BY Zenon, <1>2, GrowsSets
  <2> QED
    BY Zenon, <1>0, <1>1, <2>1 DEF Cover
<1>5. \A j \in Inst \ {i} : pass[j].pc \in Uploading =>
              /\ pass[j].cur \in data' /\ pass[j].cur \notin ever'
              /\ from'[pass[j].cur] = from[pass[j].cur]
  BY Zenon, <1>0, <1>1 DEF Distinct, Passes, PassOK
<1> QED
  BY Zenon, <1>0, <1>1, <1>2, <1>3, <1>4, <1>5 DEF Types

(* The commit PUT succeeds.                                                  *)
LEMMA CommitLandsInv ==
  ASSUME Inv, NEW i \in Inst, CommitLands(i)
  PROVE  Inv'
<1>0. Types /\ Catalogs /\ Messages
  BY Zenon DEF Inv
<1>1. /\ pass[i].pc = "put"
      /\ meta' = meta \cup {pass[i].cur} /\ ever' = ever \cup {pass[i].cur}
      /\ pass' = [pass EXCEPT ![i] = [pass[i] EXCEPT !.pc = "apply"]]
      /\ UNCHANGED <<data, from, level, expired, cat, events, registry, lease, fence,
                     walking, listed, missed, faults, losses>>
  BY Zenon DEF CommitLands, SetPass, leaseVars, walkVars
<1>2. /\ Grows /\ Graph' /\ Cover'
      /\ meta' \subseteq Block
      /\ \A j \in Inst \ {i} : pass[j].pc \in Uploading =>
           /\ pass[j].cur \in data' /\ pass[j].cur \notin ever'
           /\ from'[pass[j].cur] = from[pass[j].cur]
  BY Zenon, <1>1, CommitBucket
<1>3. PICK q \in PassState : q = [pass[i] EXCEPT !.pc = "apply"]
  BY Zenon, ThePass DEF PassState, PassPc
<1>4. /\ q.plan = pass[i].plan /\ q.kind = pass[i].kind /\ q.pc = "apply"
      /\ q.cur = pass[i].cur
  BY Zenon, <1>3, ThePass DEF PassState
<1>5. PassOK(q)'
  <2>1. /\ pass[i].plan \subseteq ever /\ pass[i].plan \subseteq from[pass[i].cur]
        /\ pass[i].kind = "retain" => pass[i].plan \subseteq Dead
    BY Zenon, <1>1, ThePass DEF PassOK, Uploading
  <2>2. Dead \subseteq Dead'
    BY Zenon, <1>2, GrowsSets
  <2> QED
    BY Zenon, <1>1, <1>4, <2>1, <2>2 DEF PassOK, Uploading
<1>6. Catalogs' /\ cat' \in [Inst -> CatalogState]
  BY Zenon, <1>0, <1>1, <1>2, CatalogsKept
<1>7. Messages' /\ RestTypes'
  BY Zenon, <1>0, <1>1, <1>2, MessagesKept DEF RestTypes, Types
<1>8. data' \subseteq Block /\ level' \in [Block -> Nat] /\ q.pc \notin Uploading
  BY Zenon, <1>0, <1>1, <1>4 DEF Types, Uploading
<1> QED
  BY Zenon, <1>1, <1>2, <1>3, <1>5, <1>6, <1>7, <1>8, BucketMove

(* A pass that ends with its commit perhaps applied: a dropped or failed PUT,*)
(* or a crash.                                                               *)
LEMMA AmbiguousInv ==
  ASSUME Inv, NEW i \in Inst,
         \/ meta' = meta /\ ever' = ever
         \/ /\ pass[i].pc = "put"
            /\ meta' = meta \cup {pass[i].cur} /\ ever' = ever \cup {pass[i].cur},
         UNCHANGED <<data, from, level, expired, events, registry>>,
         cat' = cat \/ cat' = [cat EXCEPT ![i] = EmptyCatalog],
         pass' = [pass EXCEPT ![i] = IdlePass],
         lease' \subseteq Lease, fence' \subseteq Inst, walking' \subseteq Inst,
         listed' = listed \/ listed' = [listed EXCEPT ![i] = {}], missed' = missed,
         faults' \in Nat, losses' \in Nat
  PROVE  Inv'
<1>0. Types /\ Graph /\ Cover /\ Catalogs /\ Messages /\ Passes
  BY Zenon DEF Inv
<1>1. /\ Grows /\ Graph' /\ Cover' /\ meta' \subseteq Block
      /\ \A j \in Inst \ {i} : pass[j].pc \in Uploading =>
           /\ pass[j].cur \in data' /\ pass[j].cur \notin ever'
           /\ from'[pass[j].cur] = from[pass[j].cur]
  <2>1. CASE meta' = meta /\ ever' = ever
    BY Zenon, <1>0, <2>1, SameGrows, SameBucket DEF Passes, PassOK, Types
  <2>2. CASE /\ pass[i].pc = "put"
             /\ meta' = meta \cup {pass[i].cur} /\ ever' = ever \cup {pass[i].cur}
    BY Zenon, <2>2, CommitBucket
  <2> QED
    BY Zenon, <2>1, <2>2
<1>2. Replaced \subseteq Replaced' /\ Dead \subseteq Dead'
  BY Zenon, <1>1, GrowsSets
<1>3. Catalogs' /\ cat' \in [Inst -> CatalogState]
  <2>1. CASE cat' = cat
    BY Zenon, <1>0, <1>1, <2>1, CatalogsKept
  <2>2. CASE cat' = [cat EXCEPT ![i] = EmptyCatalog]
    <3>1. \A x \in ever : from'[x] = from[x] /\ x \in ever'
      BY Zenon, <1>1 DEF Grows
    <3>2. \A j \in Inst : CatalogInv(cat[j], from', ever', Replaced', Dead')
      BY SMTT(60), <1>0, <1>2, <3>1, GrowsInv DEF Catalogs
    <3>3. \A F, E, R, D : CatalogInv(EmptyCatalog, F, E, R, D)
      BY Zenon, EmptyCatalogInv
    <3>4. EmptyCatalog \in CatalogState
      BY Zenon, <3>3 DEF CatalogInv
    <3>5. \A j \in Inst : CatalogInv(cat'[j], from', ever', Replaced', Dead')
      BY Zenon, <1>0, <2>2, <3>2, <3>3 DEF Types
    <3> QED
      BY Zenon, <1>0, <2>2, <3>4, <3>5 DEF Types, Catalogs
  <2> QED
    BY Zenon, <2>1, <2>2
<1>4. Messages'
  BY ZenonT(60), <1>0, <1>1, <1>2 DEF Messages, Types, Grows
<1>5. RestTypes'
  BY Zenon, <1>0 DEF RestTypes, Types
<1>6. PassOK(IdlePass)' /\ IdlePass.pc \notin Uploading
  BY Zenon DEF PassOK, IdlePass, Uploading
<1>7. data' \subseteq Block /\ level' \in [Block -> Nat]
  BY Zenon, <1>0 DEF Types
<1> QED
  BY Zenon, <1>1, <1>3, <1>4, <1>5, <1>6, <1>7, IdlePassOK, BucketMove

(* run_fenced drops the commit PUT, or it fails, applied or not.             *)
LEMMA CommitAmbiguousInv ==
  ASSUME Inv, NEW i \in Inst, CommitAmbiguous(i)
  PROVE  Inv'
<1>0. faults \in Nat /\ losses \in Nat /\ lease \subseteq Lease /\ fence \subseteq Inst
      /\ walking \subseteq Inst
  BY Zenon DEF Inv, Types
<1>1. faults' \in Nat /\ losses' \in Nat /\ lease' \subseteq Lease /\ fence' \subseteq Inst
  BY SMTT(60), <1>0 DEF CommitAmbiguous, Finish
<1>2. walking' \subseteq Inst
  BY Zenon, <1>0 DEF CommitAmbiguous, walkVars
<1> QED
  BY Zenon, <1>1, <1>2, AmbiguousInv DEF CommitAmbiguous, Finish, SetPass, walkVars

(* An instance dies at any point and restarts with or without its catalog.   *)
LEMMA CrashInv ==
  ASSUME Inv, NEW i \in Inst, Crash(i)
  PROVE  Inv'
<1>0. faults \in Nat /\ losses \in Nat /\ lease \subseteq Lease /\ fence \subseteq Inst
      /\ walking \subseteq Inst
  BY Zenon DEF Inv, Types
<1>1. /\ faults' = faults - 1 /\ faults > 0
      /\ \/ losses' = losses
         \/ losses > 0 /\ losses' = losses - 1
      /\ lease' = lease /\ fence' = fence \ {i} /\ walking' = walking \ {i}
  BY Zenon DEF Crash
<1>2. faults' \in Nat /\ losses' \in Nat
  BY <1>0, <1>1
<1>3. lease' \subseteq Lease /\ fence' \subseteq Inst /\ walking' \subseteq Inst
  BY Zenon, <1>0, <1>1
<1> QED
  BY Zenon, <1>2, <1>3, AmbiguousInv DEF Crash

(* Steps that leave walks, events and registry alone.                        *)
LEMMA MessagesAlone ==
  ASSUME Inv, UNCHANGED <<bucketVars, expired, events, registry, leaseVars, walkVars,
                          faults, losses>>
  PROVE  Messages' /\ RestTypes'
<1>1. Types /\ Messages /\ Grows
  BY Zenon, SameGrows DEF Inv, bucketVars
<1> QED
  BY Zenon, <1>1, MessagesKept DEF walkVars, leaseVars, RestTypes, Types

(* apply_event_with_grace, for every kind of event in any order.             *)
LEMMA ConsumeInv ==
  ASSUME Inv, NEW i \in Inst, Consume(i)
  PROVE  Inv'
<1>0. Types /\ Graph /\ Messages /\ Lineage(from, ever, Replaced)
  BY Zenon, LineageHolds DEF Inv
<1>1. PICK e \in events :
        cat' = [cat EXCEPT ![i] =
         CASE e.kind = "created" -> InsertBlock(cat[i], e.block, from)
           [] e.kind = "superseded" ->
                ApplyCompaction(cat[i], e.block, DirectInputs(e.block), NewDeadline, from)
           [] e.kind = "soft" -> AdoptPeerDeletion(cat[i], {e.block}, NewDeadline)
           [] e.kind = "deleted" -> DeleteBlocks(cat[i], {e.block})]
  BY Zenon DEF Consume
<1>2. /\ e.kind \in {"created", "superseded", "soft", "deleted"}
      /\ e.kind \in {"created", "superseded"} => e.block \in ever
      /\ e.kind = "soft" => e.block \in Dead
  BY Zenon, <1>0 DEF Types, Event, Messages
<1>3. Messages' /\ RestTypes'
  BY Zenon, MessagesAlone DEF Consume
<1>4. UNCHANGED <<bucketVars, expired, events, registry, leaseVars, pass>>
  BY Zenon DEF Consume
<1>5. CASE e.kind = "created"
  <2>1. CatalogInv(InsertBlock(cat[i], e.block, from), from, ever, Replaced, Dead)
    BY Zenon, <1>0, <1>2, <1>5, ThePass, InsertBlockInv
  <2> QED
    BY Zenon, <1>1, <1>3, <1>4, <1>5, <2>1, CatalogMove
<1>6. CASE e.kind = "superseded"
  <2>0. DirectInputs(e.block) \cap ever \subseteq Replaced
    BY Zenon, <1>2, <1>6 DEF DirectInputs, Replaced
  <2>1. CatalogInv(ApplyCompaction(cat[i], e.block, DirectInputs(e.block), NewDeadline, from),
                   from, ever, Replaced, Dead)
    BY Zenon, <1>0, <1>2, <1>6, <2>0, ThePass, DeadlineType, ApplyCompactionInv
  <2> QED
    BY Zenon, <1>1, <1>3, <1>4, <1>6, <2>1, CatalogMove
<1>7. CASE e.kind = "soft"
  <2>1. CatalogInv(AdoptPeerDeletion(cat[i], {e.block}, NewDeadline), from, ever, Replaced, Dead)
    BY Zenon, <1>2, <1>7, ThePass, DeadlineType, AdoptPeerDeletionInv
  <2> QED
    BY Zenon, <1>1, <1>3, <1>4, <1>7, <2>1, CatalogMove
<1>8. CASE e.kind = "deleted"
  <2>1. CatalogInv(DeleteBlocks(cat[i], {e.block}), from, ever, Replaced, Dead)
    BY Zenon, ThePass, DeleteBlocksInv
  <2> QED
    BY Zenon, <1>1, <1>3, <1>4, <1>8, <2>1, CatalogMove
<1> QED
  BY Zenon, <1>2, <1>5, <1>6, <1>7, <1>8

(* The full walk lists committed blocks.                                     *)
LEMMA WalkStartInv ==
  ASSUME Inv, NEW i \in Inst, WalkStart(i)
  PROVE  Inv'
<1>0. Types /\ Graph /\ Catalogs /\ Messages /\ Grows /\ UNCHANGED <<ever, from, expired>>
  BY Zenon, SameGrows DEF Inv, WalkStart, bucketVars
<1>1. Catalogs' /\ cat' \in [Inst -> CatalogState]
  BY Zenon, <1>0, CatalogsKept DEF WalkStart
<1>2. Messages' /\ RestTypes'
  <2>1. meta \ cat[i].rows \subseteq ever /\ ever \subseteq Block
    BY Zenon, <1>0 DEF Types, Graph
  <2>2. Dead' = Dead
    BY Zenon, <1>0, SameSets
  <2> QED
    BY Zenon, <1>0, <2>1, <2>2 DEF WalkStart, Messages, RestTypes, Types, leaseVars
<1>3. /\ pass[i] \in PassState /\ PassOK(pass[i])
      /\ pass' = [pass EXCEPT ![i] = pass[i]]
  BY Zenon, <1>0, ThePass DEF WalkStart, Types
<1> QED
  BY Zenon, <1>1, <1>2, <1>3, QuietMove DEF WalkStart

(* The full walk applies one sidecar, or fails to fetch it.                  *)
LEMMA WalkFetchInv ==
  ASSUME Inv, NEW i \in Inst, WalkFetch(i)
  PROVE  Inv'
<1>0. Types /\ Messages /\ UNCHANGED <<ever, from, expired>>
  BY Zenon DEF Inv, WalkFetch, bucketVars
<1>1. PICK b \in listed[i] :
        /\ \/ FetchAndApply(i, b) /\ faults' = faults
           \/ cat' = cat /\ faults > 0 /\ faults' = faults - 1
        /\ listed' = [listed EXCEPT ![i] = @ \ {b}]
  BY Zenon DEF WalkFetch
<1>2. b \in ever
  BY Zenon, <1>0 DEF Messages
<1>3. \E c : cat' = [cat EXCEPT ![i] = c] /\ CatalogInv(c, from, ever, Replaced, Dead)
  <2>1. CASE cat' = cat
    BY Zenon, <1>0, <2>1, ThePass DEF Types
  <2>2. CASE FetchAndApply(i, b)
    BY Zenon, <1>2, <2>2, FetchInv
  <2> QED
    BY Zenon, <1>1, <2>1, <2>2
<1>4. faults' \in Nat
  <2>1. faults \in Nat
    BY Zenon, <1>0 DEF Types
  <2>2. faults' = faults \/ (faults > 0 /\ faults' = faults - 1)
    BY Zenon, <1>1
  <2> QED
    BY SMTT(60), <2>1, <2>2
<1>5. Messages' /\ RestTypes'
  <2>1. Dead' = Dead
    BY Zenon, <1>0, SameSets
  <2> QED
    BY Zenon, <1>0, <1>1, <1>4, <2>1 DEF WalkFetch, Messages, RestTypes, Types, leaseVars
<1> QED
  BY Zenon, <1>3, <1>5, CatalogMove DEF WalkFetch

(* The end of the full walk stages what lineage superseded.                  *)
LEMMA WalkDoneInv ==
  ASSUME Inv, NEW i \in Inst, WalkDone(i)
  PROVE  Inv'
<1>0. Types /\ Messages /\ Grows
  BY Zenon, SameGrows DEF Inv, WalkDone, bucketVars
<1>1. CatalogInv(StageUnstagedSuperseded(cat[i], NewDeadline), from, ever, Replaced, Dead)
  BY Zenon, ThePass, DeadlineType, StageUnstagedInv
<1>2. cat' = [cat EXCEPT ![i] = StageUnstagedSuperseded(cat[i], NewDeadline)]
  BY Zenon DEF WalkDone
<1>3. Messages' /\ RestTypes'
  BY Zenon, <1>0, MessagesKept DEF WalkDone, RestTypes, Types, leaseVars
<1> QED
  BY Zenon, <1>1, <1>2, <1>3, CatalogMove DEF WalkDone

(* converge_staged_deletions adopts blocks past their TTL only.              *)
LEMMA ConvergeStagedInv ==
  ASSUME Inv, NEW i \in Inst, ConvergeStaged(i)
  PROVE  Inv'
<1>1. CatalogInv(AdoptPeerDeletion(cat[i], registry, NewDeadline), from, ever, Replaced, Dead)
  BY Zenon, ThePass, DeadlineType, AdoptPeerDeletionInv DEF Inv, Messages
<1>2. cat' = [cat EXCEPT ![i] = AdoptPeerDeletion(cat[i], registry, NewDeadline)]
  BY Zenon DEF ConvergeStaged
<1>3. Messages' /\ RestTypes'
  BY Zenon, MessagesAlone DEF ConvergeStaged
<1> QED
  BY Zenon, <1>1, <1>2, <1>3, CatalogMove DEF ConvergeStaged

(* A query that met a missing object inserts a committed sidecar.            *)
LEMMA RepairInsertInv ==
  ASSUME Inv, NEW i \in Inst, RepairInsert(i)
  PROVE  Inv'
<1>1. PICK b \in ever :
        /\ cat' = [cat EXCEPT ![i] = InsertBlock(@, b, from)]
        /\ faults' = faults \/ (faults > 0 /\ faults' = faults - 1)
  BY Zenon DEF RepairInsert
<1>2. \E c : cat' = [cat EXCEPT ![i] = c] /\ CatalogInv(c, from, ever, Replaced, Dead)
  BY Zenon, <1>1, FetchInv DEF FetchAndApply
<1>3. Types /\ Messages /\ Grows
  BY Zenon, SameGrows DEF Inv, RepairInsert, bucketVars
<1>4. faults' \in Nat
  BY <1>1, <1>3 DEF Types
<1>5. Messages' /\ RestTypes'
  BY Zenon, <1>3, <1>4, MessagesKept
  DEF RepairInsert, walkVars, leaseVars, RestTypes, Types
<1> QED
  BY Zenon, <1>2, <1>5, CatalogMove DEF RepairInsert

(* EvictOnNotFound removes one row.                                          *)
LEMMA EvictInv ==
  ASSUME Inv, NEW i \in Inst, EvictOnNotFound(i)
  PROVE  Inv'
<1>1. PICK b \in cat[i].rows \ data :
        /\ cat' = [cat EXCEPT ![i] = DeleteBlocks(cat[i], {b})]
        /\ faults' = faults \/ (faults > 0 /\ faults' = faults - 1)
  BY Zenon DEF EvictOnNotFound
<1>2. CatalogInv(DeleteBlocks(cat[i], {b}), from, ever, Replaced, Dead)
  BY Zenon, ThePass, DeleteBlocksInv
<1>3. Types /\ Messages /\ Grows
  BY Zenon, SameGrows DEF Inv, EvictOnNotFound, bucketVars
<1>4. faults' \in Nat
  BY <1>1, <1>3 DEF Types
<1>5. Messages' /\ RestTypes'
  BY Zenon, <1>3, <1>4, MessagesKept
  DEF EvictOnNotFound, walkVars, leaseVars, RestTypes, Types
<1> QED
  BY Zenon, <1>1, <1>2, <1>5, CatalogMove DEF EvictOnNotFound

(* A grace deadline passes.                                                  *)
LEMMA GracePassesInv ==
  ASSUME Inv, NEW i \in Inst, GracePasses(i)
  PROVE  Inv'
<1>1. PICK b \in cat[i].rows :
       \/ cat[i].reap_at[b] = Ahead /\ cat' = [cat EXCEPT ![i] = PassReap(cat[i], b)]
       \/ cat[i].delete_at[b] = Ahead /\ cat' = [cat EXCEPT ![i] = PassDelete(cat[i], b)]
  BY Zenon DEF GracePasses
<1>2. b \in Block
  BY Zenon, ThePass DEF CatalogState
<1>3. Messages' /\ RestTypes'
  BY Zenon, MessagesAlone DEF GracePasses
<1>4. CASE cat[i].reap_at[b] = Ahead /\ cat' = [cat EXCEPT ![i] = PassReap(cat[i], b)]
  BY Zenon, <1>2, <1>3, <1>4, ThePass, PassReapInv, CatalogMove DEF GracePasses
<1>5. CASE cat[i].delete_at[b] = Ahead /\ cat' = [cat EXCEPT ![i] = PassDelete(cat[i], b)]
  BY Zenon, <1>2, <1>3, <1>5, ThePass, PassDeleteInv, CatalogMove DEF GracePasses
<1> QED
  BY Zenon, <1>1, <1>4, <1>5

(* A lost renewal, or the expiry of a lease at the server.                   *)
LEMMA LeaseStepsInv ==
  ASSUME Inv, (\E i \in Inst : LoseFence(i)) \/ (\E l \in lease : ExpireLease(l))
  PROVE  Inv'
<1>0. PICK i \in Inst : TRUE
  BY Zenon DEF Inv, Types, Lease, LoseFence, ExpireLease
<1>1. /\ UNCHANGED <<bucketVars, expired, cat, events, registry, walkVars, pass>>
      /\ lease' \subseteq Lease /\ fence' \subseteq Inst /\ faults' \in Nat /\ losses' \in Nat
  BY SMTT(60), <1>0, ThePass DEF LoseFence, ExpireLease
<1>2. /\ pass[i] \in PassState /\ PassOK(pass[i])
      /\ pass' = [pass EXCEPT ![i] = pass[i]]
  BY Zenon, <1>1, ThePass DEF Inv, Types
<1> QED
  BY Zenon, <1>1, <1>2, PassMove

(* A registry entry expires.                                                 *)
LEMMA RegistryExpiresInv ==
  ASSUME Inv, NEW b \in Block, RegistryExpires(b)
  PROVE  Inv'
<1>0. /\ Types /\ Graph /\ Cover /\ Catalogs /\ Messages /\ Passes /\ Distinct
      /\ UNCHANGED <<meta, data, ever, from, level, expired, cat, events, lease, fence,
                     pass, walking, listed, missed, faults, losses>>
      /\ registry' \subseteq registry
  BY Zenon DEF Inv, RegistryExpires, bucketVars, leaseVars, walkVars
<1>1. Replaced' = Replaced /\ Dead' = Dead /\ Condemned' = Condemned
  BY Zenon, <1>0, SameSets
<1>2. Graph' /\ Cover' /\ Types'
  BY Zenon, <1>0, <1>1 DEF Graph, Cover, Types
<1>3. Catalogs' /\ Messages'
  BY Zenon, <1>0, <1>1 DEF Catalogs, Messages
<1>4. Passes' /\ Distinct'
  BY Zenon, <1>0, <1>1 DEF Passes, PassOK, Distinct
<1> QED
  BY Zenon, <1>2, <1>3, <1>4 DEF Inv

(* A record passes its TTL.                                                  *)
LEMMA AgeInv ==
  ASSUME Inv, NEW r \in Initial, Age(r)
  PROVE  Inv'
<1>0. /\ Types /\ Graph /\ Cover /\ Catalogs /\ Messages /\ Passes /\ Distinct
      /\ UNCHANGED <<meta, data, ever, from, level, cat, events, registry, lease, fence,
                     pass, walking, listed, missed, faults, losses>>
      /\ expired' = expired \cup {r}
  BY Zenon DEF Inv, Age, bucketVars, leaseVars, walkVars
<1>1. Grows
  BY Zenon, <1>0 DEF Grows, Types
<1>2. Replaced \subseteq Replaced' /\ Dead \subseteq Dead' /\ Condemned \subseteq Condemned'
  BY Zenon, <1>1, GrowsSets
<1>3. Graph' /\ Cover' /\ Types'
  BY Zenon, <1>0, <1>2 DEF Graph, Cover, Types
<1>4. Catalogs'
  BY Zenon, <1>0, <1>1, CatalogsKept
<1>5. Messages'
  BY Zenon, <1>0, <1>1, MessagesKept
<1>6. Passes' /\ Distinct'
  BY Zenon, <1>0, <1>2 DEF Passes, PassOK, Distinct
<1> QED
  BY Zenon, <1>3, <1>4, <1>5, <1>6 DEF Inv

-----------------------------------------------------------------------------
(* The invariant holds in a bucket of committed blocks.                      *)
LEMMA InitInv ==
  Init => Inv
<1> SUFFICES ASSUME Init PROVE Inv
  OBVIOUS
<1>1. Types
  <2>1. cat \in [Inst -> CatalogState]
    BY Zenon, MaintenanceAssumption DEF Init, EmptyCatalog, CatalogState, Deadline, NoDeadline
  <2>2. pass \in [Inst -> PassState]
    BY Zenon, IdlePassOK DEF Init
  <2>3. level \in [Block -> Nat] /\ Initial \subseteq Block
    BY Zenon, MaintenanceAssumption DEF Init
  <2> QED
    BY Zenon, <2>1, <2>2, <2>3, MaintenanceAssumption DEF Init, Types
<1>2. Graph /\ Cover
  BY Zenon, MaintenanceAssumption DEF Init, Graph, Cover
<1>3. Catalogs
  <2> SUFFICES ASSUME NEW i \in Inst
               PROVE  CatalogInv(cat[i], from, ever, Replaced, Dead)
    BY Zenon DEF Catalogs
  <2>1. CASE i \notin Warm
    BY Zenon, <2>1, EmptyCatalogInv DEF Init
  <2>2. CASE i \in Warm
    <3>1. /\ cat[i].rows = Initial /\ cat[i].superseded = {} /\ cat[i].by = {}
          /\ cat[i].claims = {} /\ cat[i].reap_at = [b \in Block |-> NoDeadline]
          /\ cat[i].delete_at = [b \in Block |-> NoDeadline]
      BY Zenon, <2>2 DEF Init, EmptyCatalog
    <3>2. /\ \A b \in Initial : b \in Block /\ b \in ever /\ from[b] = {}
          /\ cat[i] \in CatalogState
      BY Zenon, <1>1, MaintenanceAssumption DEF Init, Types
    <3> QED
      BY Zenon, <3>1, <3>2 DEF CatalogInv, ColumnsOfRows, Live
  <2> QED
    BY Zenon, <2>1, <2>2
<1>4. Messages /\ Distinct
  BY Zenon DEF Init, Messages, Distinct, IdlePass, Uploading
<1>5. Passes
  BY Zenon, IdlePassOK DEF Init, Passes
<1> QED
  BY Zenon, <1>1, <1>2, <1>3, <1>4, <1>5 DEF Inv

(* Every step of every instance preserves the invariant.                     *)
LEMMA NextInv ==
  Inv /\ [Next]_vars => Inv'
<1> SUFFICES ASSUME Inv, [Next]_vars PROVE Inv'
  OBVIOUS
<1>1. CASE UNCHANGED vars
  <2>1. UNCHANGED <<meta, data, ever, from, level, expired, cat, events, registry,
          lease, fence, pass, walking, listed, missed, faults, losses>>
    BY Zenon, <1>1 DEF vars
  <2>2. Replaced' = Replaced /\ Dead' = Dead /\ Condemned' = Condemned
    BY Zenon, <2>1, SameSets
  <2>3. Types' /\ Graph' /\ Cover' /\ Catalogs' /\ Messages'
    BY Zenon, <2>1, <2>2 DEF Inv, Types, Graph, Cover, Catalogs, Messages
  <2>4. Passes' /\ Distinct'
    BY Zenon, <2>1, <2>2 DEF Inv, Passes, PassOK, Distinct
  <2> QED
    BY Zenon, <2>3, <2>4 DEF Inv
<1>2. ASSUME NEW r \in Initial, Age(r) PROVE Inv'
  BY Zenon, <1>2, AgeInv
<1>3. ASSUME NEW i \in Inst, GracePasses(i) \/ LoseFence(i) \/ Crash(i) PROVE Inv'
  BY Zenon, <1>3, GracePassesInv, LeaseStepsInv, CrashInv
<1>4. ASSUME NEW l \in lease, ExpireLease(l) PROVE Inv'
  BY Zenon, <1>4, LeaseStepsInv
<1>5. ASSUME NEW i \in Inst, CompactStart(i) \/ RetainStart(i) \/ PassRuns(i) PROVE Inv'
  BY ZenonT(60), <1>5, CompactStartInv, RetainStartInv, ReapDataInv, ReapMetaInv, ReapRowInv,
     ReapFailsInv, ReapDoneInv, AcquireInv, ReconcileListInv, ReconcileFetchInv,
     ReconcileFailsInv, ReconcileDoneInv, MergeReadInv, MergeFailsInv, CommitAbortsInv,
     CommitSendInv, CommitLandsInv, CommitAmbiguousInv, PublishInv, RetainStageInv
     DEF PassRuns
<1>6. ASSUME NEW i \in Inst, WalkRuns(i) \/ ConvergeStaged(i) PROVE Inv'
  BY Zenon, <1>6, WalkStartInv, WalkFetchInv, WalkDoneInv, ConvergeStagedInv DEF WalkRuns
<1>7. ASSUME NEW i \in Inst, Consume(i) \/ QueryRepairs(i) PROVE Inv'
  BY Zenon, <1>7, ConsumeInv, RepairInsertInv, EvictInv DEF QueryRepairs
<1>8. ASSUME NEW b \in Block, RegistryExpires(b) PROVE Inv'
  BY Zenon, <1>8, RegistryExpiresInv
<1> QED
  BY Zenon, <1>1, <1>2, <1>3, <1>4, <1>5, <1>6, <1>7, <1>8 DEF Next

(* The inductive invariant holds in every reachable state.                   *)
THEOREM Invariance == Spec => []Inv
BY InitInv, NextInv, PTL DEF Spec

(* Every variable keeps its type, and a catalog's bits and deadlines belong  *)
(* to rows it has.                                                           *)
THEOREM MaintenanceTypeCorrect == Spec => []TypeOK
<1>1. Inv => TypeOK
  BY Zenon DEF Inv, Types, TypeOK, Catalogs, CatalogInv
<1> QED
  BY <1>1, Invariance, PTL

(* Compaction and retention lose no record before its TTL, for every number  *)
(* of instances and blocks and every pattern of faults.                      *)
THEOREM NothingLost == Spec => []NoLoss
<1>1. Inv => NoLoss
  <2> SUFFICES ASSUME Inv, NEW r \in Initial \ expired
               PROVE  \E b \in Intact : r \in Records(b)
    BY Zenon DEF NoLoss
  <2>1. r \in ever /\ r \notin Dead
    BY Zenon DEF Inv, Graph, Dead, PastTtl, Records
  <2>2. PICK y \in meta \cap data : y = r \/ r \in from[y]
    BY Zenon, <2>1 DEF Inv, Cover
  <2> QED
    BY Zenon, <2>2 DEF Intact, Records
<1> QED
  BY <1>1, Invariance, PTL

(* No catalog lists a block together with one of its ancestors, in whatever  *)
(* order sidecars and events were applied to it.                             *)
THEOREM NothingTwice == Spec => []SingleCopy
<1>1. Inv => SingleCopy
  <2> SUFFICES ASSUME Inv, NEW i \in Inst, NEW x \in Live(cat[i]), NEW y \in Live(cat[i])
               PROVE  x \notin from[y]
    BY Zenon DEF SingleCopy
  <2>1. CatalogInv(cat[i], from, ever, Replaced, Dead)
    BY Zenon DEF Inv, Catalogs
  <2> QED
    BY Zenon, <2>1 DEF CatalogInv, Live
<1> QED
  BY <1>1, Invariance, PTL

-----------------------------------------------------------------------------
(* The leases, and why no two merges that count replace the same block.      *)

(* Every unexpired committed block is unreplaced, or has an unreplaced heir. *)
Heirs ==
  \A o \in ever : o \in Dead \/ \E y \in ever \ Condemned : y = o \/ o \in from[y]

(* A row is dropped, and Deleted published, only after meta.json is gone.    *)
Gone ==
  /\ \A e \in events : e.kind = "deleted" => e.block \in ever \ meta
  /\ \A i \in Inst : pass[i].pc = "reaprow" => pass[i].cur \in ever \ meta

(* NoFork, in the terms of the invariant.                                    *)
Apart ==
  \A x, y \in ever : x # y /\ x \notin Condemned /\ y \notin Condemned =>
    \A r \in Records(x) : r \in Records(y) => r \in expired

OneLease == \A l, m \in lease : l.kind = m.kind /\ l.lvl = m.lvl => l = m

Planning == {"reap", "reapmeta", "reaprow", "acquire", "list", "fetch"}
Merging  == {"list", "fetch", "merge", "commit", "put"}

(* The pass may still commit: its lease is held.                             *)
Holding(i) == pass[i].pc \in Merging /\ (i \in fence \/ pass[i].pc = "put")

Unspoilt(b) == b \in Dead \/ b \notin Replaced

(* A pass that may still commit holds the one lease of its level, and its    *)
(* plan is unreplaced once it is reconciled with the bucket: until then a    *)
(* replaced input is hidden, or a sidecar still to be fetched will hide it.  *)
LeaseOK(i) ==
  /\ pass[i].pc \in Merging => pass[i].kind = "compact"
  /\ Holding(i) => MyLease(i) \in lease

PlanOK(i) ==
  /\ pass[i].kind = "compact" => \A b \in pass[i].plan : level[b] = pass[i].lvl
  /\ pass[i].kind = "compact" /\ pass[i].pc \in Planning =>
       \A b \in pass[i].plan : b \in cat[i].rows \/ b \notin Intact
  /\ pass[i].pc = "fetch" /\ Holding(i) =>
       \A b \in pass[i].plan :
         \/ Unspoilt(b) \/ b \notin Intact \/ b \in cat[i].superseded
         \/ \E q \in pass[i].todo : b \in from[q]
  /\ pass[i].pc = "merge" /\ Holding(i) =>
       \A b \in pass[i].plan : Unspoilt(b) \/ b \notin Intact
  /\ pass[i].pc \in Uploading /\ Holding(i) => \A b \in pass[i].plan : Unspoilt(b)
  /\ pass[i].pc \in Uploading => from[pass[i].cur] = Ancestry(pass[i].plan)

ForkInv ==
  Heirs /\ Gone /\ OneLease /\ Apart /\ \A i \in Inst : LeaseOK(i) /\ PlanOK(i)

(* What a step does to the rows a plan relies on.                            *)
KeptCat(i) ==
  \A b \in Intact : /\ b \in cat[i].rows => b \in cat'[i].rows
                    /\ b \in cat[i].superseded => b \in cat'[i].superseded

(* A step that is not the pass of i.                                         *)
Calm(i) ==
  /\ pass'[i] = pass[i] /\ KeptCat(i)
  /\ i \in fence' => i \in fence
  /\ Holding(i) /\ MyLease(i) \in lease => MyLease(i) \in lease'

(* The pass of another instance is as good after the step as before.         *)
LEMMA CalmPass ==
  ASSUME Inv, NEW i \in Inst, LeaseOK(i), PlanOK(i), Calm(i), Grows,
         \A x \in ever : level'[x] = level[x] /\ (x \in Intact' => x \in Intact),
         pass[i].pc \in Uploading => from'[pass[i].cur] = from[pass[i].cur],
         Holding(i) => \A b \in pass[i].plan : Unspoilt(b) => Unspoilt(b)'
  PROVE  (LeaseOK(i) /\ PlanOK(i))'
<1>1. pass'[i] = pass[i] /\ MyLease(i)' = MyLease(i) /\ (Holding(i)' => Holding(i))
  BY Zenon DEF Calm, MyLease, Holding
<1>2. LeaseOK(i)'
  BY Zenon, <1>1 DEF LeaseOK, Calm
<1>3. pass[i].plan \subseteq ever /\ (pass[i].pc = "fetch" => pass[i].todo \subseteq ever)
  BY Zenon, ThePass DEF PassOK
<1>4. \A x \in ever : from'[x] = from[x]
  BY Zenon DEF Grows
<1>5. pass[i].pc \in Uploading => Ancestry(pass[i].plan)' = Ancestry(pass[i].plan)
  BY <1>1, <1>3, <1>4 DEF Ancestry
<1>6. PlanOK(i)'
  <2>1. pass[i].kind = "compact" => \A b \in pass[i].plan : level'[b] = pass[i].lvl
    BY <1>3 DEF PlanOK
  <2>2. pass[i].kind = "compact" /\ pass[i].pc \in Planning =>
          \A b \in pass[i].plan : b \in cat'[i].rows \/ b \notin Intact'
    BY Zenon, <1>3 DEF PlanOK, Calm, KeptCat
  <2>3. pass[i].pc = "fetch" /\ Holding(i) =>
          \A b \in pass[i].plan :
            \/ Unspoilt(b)' \/ b \notin Intact' \/ b \in cat'[i].superseded
            \/ \E q \in pass[i].todo : b \in from'[q]
    BY Zenon, <1>3, <1>4 DEF PlanOK, Calm, KeptCat
  <2>4. pass[i].pc = "merge" /\ Holding(i) =>
          \A b \in pass[i].plan : Unspoilt(b)' \/ b \notin Intact'
    BY Zenon, <1>3 DEF PlanOK
  <2>5. pass[i].pc \in Uploading /\ Holding(i) => \A b \in pass[i].plan : Unspoilt(b)'
    BY Zenon DEF PlanOK
  <2>6. pass[i].pc \in Uploading => from'[pass[i].cur] = Ancestry(pass[i].plan)'
    BY Zenon, <1>5 DEF PlanOK
  <2> QED
    BY Zenon, <1>1, <2>1, <2>2, <2>3, <2>4, <2>5, <2>6 DEF PlanOK
<1> QED
  BY Zenon, <1>2, <1>6

(* A step that commits, mints and ages nothing.                              *)
LEMMA QuietFork ==
  ASSUME Inv, ForkInv, UNCHANGED <<ever, from, level, expired>>,
         meta' \subseteq meta, data' \subseteq data, Gone', OneLease',
         \A i \in Inst : Calm(i) \/ (LeaseOK(i) /\ PlanOK(i))'
  PROVE  ForkInv'
<1>1. Replaced' = Replaced /\ Dead' = Dead /\ Condemned' = Condemned /\ Grows
  BY Zenon, SameSets, SameGrows DEF Inv
<1>2. Heirs'
  BY Zenon, <1>1 DEF ForkInv, Heirs
<1>3. Apart'
  <2>1. \A x : Records(x)' = Records(x)
    BY Zenon DEF Records
  <2> QED
    BY Zenon, <1>1, <2>1 DEF ForkInv, Apart
<1>4. \A x \in ever : level'[x] = level[x] /\ (x \in Intact' => x \in Intact)
  BY Zenon DEF Intact
<1>5. \A b : Unspoilt(b)' <=> Unspoilt(b)
  BY Zenon, <1>1 DEF Unspoilt
<1>6. ASSUME NEW i \in Inst PROVE (LeaseOK(i) /\ PlanOK(i))'
  <2>1. CASE Calm(i)
    BY Zenon, <1>1, <1>4, <1>5, <2>1, CalmPass DEF ForkInv
  <2> QED
    BY Zenon, <2>1
<1> QED
  BY Zenon, <1>2, <1>3, <1>6 DEF ForkInv

(* Catalogs that only gain rows and bits, or lose rows of blocks that are    *)
(* no longer intact.                                                         *)
LEMMA CatKept ==
  ASSUME Inv, NEW i \in Inst, NEW c, cat' = [cat EXCEPT ![i] = c],
         \A b \in Intact : /\ b \in cat[i].rows => b \in c.rows
                           /\ b \in cat[i].superseded => b \in c.superseded
  PROVE  \A j \in Inst : KeptCat(j)
BY Zenon DEF Inv, Types, KeptCat

(* insert_block and apply_compaction keep every row and bit.                 *)
LEMMA InsertKeeps ==
  ASSUME NEW c \in CatalogState, NEW m, NEW F
  PROVE  /\ c.rows \subseteq InsertBlock(c, m, F).rows
         /\ c.superseded \subseteq InsertBlock(c, m, F).superseded
         /\ \A S, d : /\ c.rows \subseteq ApplyCompaction(c, m, S, d, F).rows
                      /\ c.superseded \subseteq ApplyCompaction(c, m, S, d, F).superseded
<1>1. /\ c.rows \subseteq InsertBlock(c, m, F).rows
      /\ c.superseded \subseteq InsertBlock(c, m, F).superseded
  BY Zenon DEF InsertBlock, CatalogState
<1>2. \A S, d : /\ InsertBlock(c, m, F).rows \subseteq ApplyCompaction(c, m, S, d, F).rows
                /\ InsertBlock(c, m, F).superseded
                     \subseteq ApplyCompaction(c, m, S, d, F).superseded
  <2> DEFINE i == InsertBlock(c, m, F)
  <2>1. DOMAIN i = {"rows", "superseded", "by", "claims", "reap_at", "delete_at"}
    BY Zenon DEF InsertBlock, CatalogState
  <2>2. \A S, d : /\ StageSuperseded(i, S, m, d).rows = i.rows
                  /\ i.superseded \subseteq StageSuperseded(i, S, m, d).superseded
    <3> HIDE DEF i
    <3> QED
      BY Zenon, <2>1 DEF StageSuperseded
  <2> QED
    BY Zenon, <2>2 DEF ApplyCompaction
<1> QED
  BY Zenon, <1>1, <1>2

(* Staging and deadlines leave the rows and the superseded bits alone.       *)
LEMMA StageKeeps ==
  ASSUME NEW c \in CatalogState
  PROVE  /\ \A d : /\ StageUnstagedSuperseded(c, d).rows = c.rows
                   /\ StageUnstagedSuperseded(c, d).superseded = c.superseded
         /\ \A S, d : /\ MarkDeleted(c, S, d).rows = c.rows
                      /\ MarkDeleted(c, S, d).superseded = c.superseded
         /\ \A S, d : /\ AdoptPeerDeletion(c, S, d).rows = c.rows
                      /\ AdoptPeerDeletion(c, S, d).superseded = c.superseded
         /\ \A b : /\ PassReap(c, b).rows = c.rows
                   /\ PassReap(c, b).superseded = c.superseded
                   /\ PassDelete(c, b).rows = c.rows
                   /\ PassDelete(c, b).superseded = c.superseded
BY Zenon DEF StageUnstagedSuperseded, MarkDeleted, AdoptPeerDeletion, PassReap, PassDelete,
   CatalogState

(* delete_blocks drops the rows it is given only.                            *)
LEMMA DeleteKeeps ==
  ASSUME NEW c \in CatalogState
  PROVE  \A S : /\ DeleteBlocks(c, S).rows = c.rows \ S
                /\ DeleteBlocks(c, S).superseded = c.superseded \ S
BY Zenon DEF DeleteBlocks, CatalogState

(* A step that leaves bucket, leases and passes alone.                       *)
LEMMA CatFork ==
  ASSUME Inv, ForkInv, UNCHANGED <<bucketVars, expired, events, leaseVars, pass>>,
         \A j \in Inst : KeptCat(j)
  PROVE  ForkInv'
<1>1. Gone' /\ OneLease'
  BY Zenon DEF ForkInv, Gone, OneLease, bucketVars, leaseVars
<1>2. \A j \in Inst : Calm(j)
  BY Zenon DEF Calm, leaseVars
<1> QED
  BY Zenon, <1>1, <1>2, QuietFork DEF bucketVars

(* apply_event_with_grace: Deleted names a block whose sidecar is gone.      *)
LEMMA ConsumeFork ==
  ASSUME Inv, ForkInv, NEW i \in Inst, Consume(i)
  PROVE  ForkInv'
<1>1. PICK e \in events :
        cat' = [cat EXCEPT ![i] =
         CASE e.kind = "created" -> InsertBlock(cat[i], e.block, from)
           [] e.kind = "superseded" ->
                ApplyCompaction(cat[i], e.block, DirectInputs(e.block), NewDeadline, from)
           [] e.kind = "soft" -> AdoptPeerDeletion(cat[i], {e.block}, NewDeadline)
           [] e.kind = "deleted" -> DeleteBlocks(cat[i], {e.block})]
  BY Zenon DEF Consume
<1>2. /\ e.kind \in {"created", "superseded", "soft", "deleted"}
      /\ e.kind = "deleted" => e.block \notin Intact
  BY Zenon DEF Inv, Types, Event, ForkInv, Gone, Intact
<1>3. cat[i] \in CatalogState
  BY Zenon, ThePass
<1>4. \A j \in Inst : KeptCat(j)
  <2>1. CASE e.kind = "created"
    <3> DEFINE c == InsertBlock(cat[i], e.block, from)
    <3>1. cat[i].rows \subseteq c.rows /\ cat[i].superseded \subseteq c.superseded
      BY Zenon, <1>3, InsertKeeps
    <3>2. cat' = [cat EXCEPT ![i] = c]
      BY Zenon, <1>1, <2>1
    <3> QED
      BY Zenon, <3>1, <3>2, CatKept
  <2>2. CASE e.kind = "superseded"
    <3> DEFINE c == ApplyCompaction(cat[i], e.block, DirectInputs(e.block), NewDeadline, from)
    <3>1. cat[i].rows \subseteq c.rows /\ cat[i].superseded \subseteq c.superseded
      BY Zenon, <1>3, InsertKeeps
    <3>2. cat' = [cat EXCEPT ![i] = c]
      BY Zenon, <1>1, <2>2
    <3> QED
      BY Zenon, <3>1, <3>2, CatKept
  <2>3. CASE e.kind = "soft"
    <3> DEFINE c == AdoptPeerDeletion(cat[i], {e.block}, NewDeadline)
    <3>1. c.rows = cat[i].rows /\ c.superseded = cat[i].superseded
      BY Zenon, <1>3 DEF AdoptPeerDeletion, CatalogState
    <3>2. cat' = [cat EXCEPT ![i] = c]
      BY Zenon, <1>1, <2>3
    <3> QED
      BY Zenon, <3>1, <3>2, CatKept
  <2>4. CASE e.kind = "deleted"
    <3> DEFINE c == DeleteBlocks(cat[i], {e.block})
    <3>1. c.rows = cat[i].rows \ {e.block} /\ c.superseded = cat[i].superseded \ {e.block}
      BY Zenon, <1>3, DeleteKeeps
    <3>2. cat' = [cat EXCEPT ![i] = c] /\ e.block \notin Intact
      BY Zenon, <1>1, <1>2, <2>4
    <3> QED
      BY Zenon, <3>1, <3>2, CatKept
  <2> QED
    BY Zenon, <1>2, <2>1, <2>2, <2>3, <2>4
<1> QED
  BY Zenon, <1>4, CatFork DEF Consume

(* fetch_and_apply only adds.                                                *)
LEMMA FetchKeeps ==
  ASSUME Inv, NEW i \in Inst, NEW b, FetchAndApply(i, b) \/ cat' = cat
  PROVE  \A j \in Inst : KeptCat(j)
<1>1. cat[i] \in CatalogState
  BY Zenon, ThePass
<1>2. CASE cat' = cat
  BY Zenon, <1>2 DEF KeptCat
<1>3. CASE cat' = [cat EXCEPT ![i] = InsertBlock(@, b, from)]
  <2> DEFINE c == InsertBlock(cat[i], b, from)
  <2>1. cat[i].rows \subseteq c.rows /\ cat[i].superseded \subseteq c.superseded
    BY Zenon, <1>1, InsertKeeps
  <2>2. cat' = [cat EXCEPT ![i] = c]
    BY Zenon, <1>3
  <2> QED
    BY Zenon, <2>1, <2>2, CatKept
<1> QED
  BY Zenon, <1>2, <1>3 DEF FetchAndApply

(* The walks, the registry, the clock and the queries' evictions.            *)
LEMMA ConvergeFork ==
  ASSUME Inv, ForkInv, NEW i \in Inst,
         \/ WalkRuns(i) \/ ConvergeStaged(i) \/ QueryRepairs(i) \/ GracePasses(i)
  PROVE  ForkInv'
<1>0. cat[i] \in CatalogState
  BY Zenon, ThePass
<1>1. \A j \in Inst : KeptCat(j)
  <2>1. CASE WalkStart(i)
    BY Zenon, <2>1 DEF WalkStart, KeptCat
  <2>2. CASE WalkFetch(i)
    BY Zenon, <2>2, FetchKeeps DEF WalkFetch
  <2>3. CASE WalkDone(i)
    <3> DEFINE c == StageUnstagedSuperseded(cat[i], NewDeadline)
    <3>1. c.rows = cat[i].rows /\ c.superseded = cat[i].superseded
      BY Zenon, <1>0, StageKeeps
    <3>2. cat' = [cat EXCEPT ![i] = c]
      BY Zenon, <2>3 DEF WalkDone
    <3> QED
      BY Zenon, <3>1, <3>2, CatKept
  <2>4. CASE ConvergeStaged(i)
    <3> DEFINE c == AdoptPeerDeletion(cat[i], registry, NewDeadline)
    <3>1. c.rows = cat[i].rows /\ c.superseded = cat[i].superseded
      BY Zenon, <1>0 DEF AdoptPeerDeletion, CatalogState
    <3>2. cat' = [cat EXCEPT ![i] = c]
      BY Zenon, <2>4 DEF ConvergeStaged
    <3> QED
      BY Zenon, <3>1, <3>2, CatKept
  <2>5. CASE EvictOnNotFound(i)
    <3>1. PICK b \in cat[i].rows \ data : cat' = [cat EXCEPT ![i] = DeleteBlocks(cat[i], {b})]
      BY Zenon, <2>5 DEF EvictOnNotFound
    <3> DEFINE c == DeleteBlocks(cat[i], {b})
    <3>2. c.rows = cat[i].rows \ {b} /\ c.superseded = cat[i].superseded \ {b}
      BY Zenon, <1>0, DeleteKeeps
    <3>3. b \notin Intact
      BY Zenon DEF Intact
    <3> QED
      BY Zenon, <3>1, <3>2, <3>3, CatKept
  <2>6. CASE RepairInsert(i)
    <3>1. PICK b \in ever : cat' = [cat EXCEPT ![i] = InsertBlock(@, b, from)]
      BY Zenon, <2>6 DEF RepairInsert
    <3> QED
      BY Zenon, <3>1, FetchKeeps DEF FetchAndApply
  <2>7. CASE GracePasses(i)
    <3>1. PICK b \in cat[i].rows : \/ cat' = [cat EXCEPT ![i] = PassReap(cat[i], b)]
                                   \/ cat' = [cat EXCEPT ![i] = PassDelete(cat[i], b)]
      BY Zenon, <2>7 DEF GracePasses
    <3>2. /\ PassReap(cat[i], b).rows = cat[i].rows
          /\ PassReap(cat[i], b).superseded = cat[i].superseded
          /\ PassDelete(cat[i], b).rows = cat[i].rows
          /\ PassDelete(cat[i], b).superseded = cat[i].superseded
      BY Zenon, <1>0, StageKeeps
    <3> QED
      BY Zenon, <3>1, <3>2, CatKept
  <2> QED
    BY Zenon, <2>1, <2>2, <2>3, <2>4, <2>5, <2>6, <2>7 DEF WalkRuns, QueryRepairs
<1>2. UNCHANGED <<bucketVars, expired, events, leaseVars, pass>>
  BY Zenon DEF WalkRuns, WalkStart, WalkFetch, WalkDone, ConvergeStaged, QueryRepairs,
     RepairInsert, EvictOnNotFound, GracePasses
<1> QED
  BY Zenon, <1>1, <1>2, CatFork

-----------------------------------------------------------------------------
(* The steps of the leases.                                                  *)

(* An idle instance has no plan and no lease to keep.                        *)
LEMMA IdleFork ==
  ASSUME NEW i \in Inst, pass'[i] = IdlePass
  PROVE  (LeaseOK(i) /\ PlanOK(i))'
<1>1. pass'[i].pc = "idle" /\ pass'[i].plan = {}
  BY DEF IdlePass
<1> QED
  BY Zenon, <1>1 DEF LeaseOK, PlanOK, Holding, Merging, Planning, Uploading

(* A pass that ends releases its own lease only.                             *)
LEMMA FinishFork ==
  ASSUME Inv, ForkInv, UNCHANGED <<ever, from, level, expired>>,
         meta' \subseteq meta, data' \subseteq data,
         \A e \in events' : e.kind = "deleted" => e \in events,
         NEW i \in Inst, Finish(i), \A j \in Inst \ {i} : KeptCat(j)
  PROVE  ForkInv'
<1>1. /\ pass' = [pass EXCEPT ![i] = IdlePass]
      /\ lease' = lease \ {MyLease(i)} /\ fence' = fence \ {i}
  BY Zenon DEF Finish, SetPass
<1>2. pass'[i] = IdlePass /\ \A j \in Inst \ {i} : pass'[j] = pass[j]
  BY Zenon, <1>1 DEF Inv, Types
<1>3. Gone'
  <2>1. IdlePass.pc = "idle"
    BY Zenon DEF IdlePass
  <2> QED
    BY Zenon, <1>2, <2>1 DEF ForkInv, Gone
<1>4. OneLease'
  BY Zenon, <1>1 DEF ForkInv, OneLease
<1>5. (LeaseOK(i) /\ PlanOK(i))'
  BY Zenon, <1>2, IdleFork
<1>6. \A j \in Inst \ {i} : Calm(j)
  <2>1. \A j \in Inst \ {i} : MyLease(j) # MyLease(i)
    BY Zenon DEF MyLease
  <2> QED
    BY Zenon, <1>1, <1>2, <2>1 DEF Calm
<1> QED
  BY Zenon, <1>3, <1>4, <1>5, <1>6, QuietFork

(* A pass that moves without touching bucket, leases or another's catalog.   *)
LEMMA MoveFork ==
  ASSUME Inv, ForkInv, UNCHANGED <<ever, from, level, expired, leaseVars>>,
         meta' \subseteq meta, data' \subseteq data, Gone',
         NEW i \in Inst, NEW p, pass' = [pass EXCEPT ![i] = p],
         (LeaseOK(i) /\ PlanOK(i))', \A j \in Inst \ {i} : KeptCat(j)
  PROVE  ForkInv'
<1>1. OneLease'
  BY Zenon DEF ForkInv, OneLease, leaseVars
<1>2. \A j \in Inst \ {i} : Calm(j)
  BY Zenon DEF Calm, Inv, Types, leaseVars
<1> QED
  BY Zenon, <1>1, <1>2, QuietFork

(* The fence fails, or the server lets a lease expire that no commit uses.   *)
LEMMA LeaseStepsFork ==
  ASSUME Inv, ForkInv,
         (\E i \in Inst : LoseFence(i)) \/ (\E l \in lease : ExpireLease(l))
  PROVE  ForkInv'
<1>1. ASSUME NEW i \in Inst, LoseFence(i) PROVE ForkInv'
  <2>1. Gone' /\ OneLease'
    BY Zenon, <1>1 DEF LoseFence, ForkInv, Gone, OneLease, bucketVars
  <2>2. \A j \in Inst : Calm(j)
    BY Zenon, <1>1 DEF LoseFence, Calm, KeptCat
  <2> QED
    BY Zenon, <1>1, <2>1, <2>2, QuietFork DEF LoseFence, bucketVars
<1>2. ASSUME NEW l \in lease, ExpireLease(l) PROVE ForkInv'
  <2>1. Gone' /\ OneLease'
    BY Zenon, <1>2 DEF ExpireLease, ForkInv, Gone, OneLease, bucketVars
  <2>2. \A j \in Inst : Holding(j) => MyLease(j) # l
    <3>1. \A j \in Inst : MyLease(j).who = j
      BY Zenon DEF MyLease
    <3> QED
      BY Zenon, <1>2, <3>1 DEF ExpireLease, Holding
  <2>3. \A j \in Inst : Calm(j)
    BY Zenon, <1>2, <2>2 DEF ExpireLease, Calm, KeptCat
  <2> QED
    BY Zenon, <1>2, <2>1, <2>3, QuietFork DEF ExpireLease, bucketVars
<1> QED
  BY Zenon, <1>1, <1>2

(* Acquire takes the one lease of its key.                                   *)
LEMMA AcquireFork ==
  ASSUME Inv, ForkInv, NEW i \in Inst, Acquire(i)
  PROVE  ForkInv'
<1> DEFINE p == [pass[i] EXCEPT !.pc = IF pass[i].kind = "compact" THEN "list" ELSE "stage"]
<1>1. /\ pass' = [pass EXCEPT ![i] = p]
      /\ lease' = lease \cup {MyLease(i)} /\ fence' = fence \cup {i}
      /\ \A l \in lease : ~SameKey(l, pass[i])
      /\ pass[i].pc = "acquire"
      /\ UNCHANGED <<meta, data, ever, from, level, expired, cat, events>>
  BY Zenon DEF Acquire, SetPass, bucketVars
<1>2. /\ p.kind = pass[i].kind /\ p.plan = pass[i].plan /\ p.lvl = pass[i].lvl
      /\ p.pc \in {"list", "stage"} /\ (p.pc = "list" => p.kind = "compact")
  BY ZenonT(60), ThePass DEF PassState
<1> HIDE DEF p
<1>3. pass'[i] = p /\ \A j \in Inst \ {i} : pass'[j] = pass[j]
  BY Zenon, <1>1 DEF Inv, Types
<1>4. Gone'
  BY Zenon, <1>1, <1>2, <1>3 DEF ForkInv, Gone
<1>5. OneLease'
  <2>1. MyLease(i).kind = pass[i].kind /\ MyLease(i).lvl = pass[i].lvl
    BY Zenon DEF MyLease
  <2>2. \A l \in lease : ~(l.kind = MyLease(i).kind /\ l.lvl = MyLease(i).lvl)
    BY Zenon, <1>1, <2>1 DEF SameKey
  <2> HIDE DEF p
  <2> QED
    BY <1>1, <2>2 DEF ForkInv, OneLease
<1>6. MyLease(i)' = MyLease(i)
  BY Zenon, <1>2, <1>3 DEF MyLease
<1>7. (LeaseOK(i) /\ PlanOK(i))'
  <2>1. LeaseOK(i)'
    BY Zenon, <1>1, <1>2, <1>3, <1>6 DEF LeaseOK, Merging
  <2>2. /\ pass[i].kind = "compact" => \A b \in pass[i].plan : level[b] = pass[i].lvl
        /\ pass[i].kind = "compact" =>
             \A b \in pass[i].plan : b \in cat[i].rows \/ b \notin Intact
    BY Zenon, <1>1 DEF ForkInv, PlanOK, Planning
  <2>3. Intact' = Intact
    BY Zenon, <1>1 DEF Intact
  <2> QED
    BY Zenon, <1>1, <1>2, <1>3, <2>1, <2>2, <2>3 DEF PlanOK, Uploading, Planning
<1>8. \A j \in Inst \ {i} : Calm(j)
  BY Zenon, <1>1, <1>3 DEF Calm, KeptCat, Inv, Types
<1> QED
  BY Zenon, <1>1, <1>4, <1>5, <1>7, <1>8, QuietFork

-----------------------------------------------------------------------------
(* The steps of a pass that leave the bucket alone, or only delete from it.  *)

(* plan_merges takes live blocks of one level.                               *)
LEMMA CompactStartFork ==
  ASSUME Inv, ForkInv, NEW i \in Inst, CompactStart(i)
  PROVE  ForkInv'
<1>1. PICK P \in Plans(cat[i]) \cup {{}} :
        pass' = [pass EXCEPT ![i] = [IdlePass EXCEPT
            !.pc = "reap", !.plan = P, !.todo = PendingReaps(cat[i]),
            !.lvl = IF P = {} THEN 0 ELSE level[CHOOSE b \in P : TRUE]]]
  BY Zenon DEF CompactStart, SetPass
<1> DEFINE lv == IF P = {} THEN 0 ELSE level[CHOOSE b \in P : TRUE]
           p  == [IdlePass EXCEPT !.pc = "reap", !.plan = P,
                                  !.todo = PendingReaps(cat[i]), !.lvl = lv]
<1>2. p.pc = "reap" /\ p.plan = P /\ p.lvl = lv
  BY Zenon DEF IdlePass
<1>3. \A b \in P : level[b] = lv /\ b \in cat[i].rows
  BY Zenon DEF Plans, Live
<1>4. pass' = [pass EXCEPT ![i] = p] /\ UNCHANGED <<bucketVars, expired, cat, events, leaseVars>>
  BY Zenon, <1>1 DEF CompactStart
<1> HIDE DEF p, lv
<1>5. pass'[i] = p /\ \A j \in Inst \ {i} : pass'[j] = pass[j]
  BY Zenon, <1>4 DEF Inv, Types
<1>6. Gone'
  BY Zenon, <1>2, <1>4, <1>5 DEF ForkInv, Gone, bucketVars
<1>7. (LeaseOK(i) /\ PlanOK(i))'
  BY Zenon, <1>2, <1>3, <1>4, <1>5
     DEF LeaseOK, PlanOK, Holding, Merging, Uploading, bucketVars
<1>8. \A j \in Inst : KeptCat(j)
  BY Zenon, <1>4 DEF KeptCat
<1> QED
  BY Zenon, <1>4, <1>6, <1>7, <1>8, MoveFork DEF bucketVars

(* A retention pass has no plan a merge could use.                           *)
LEMMA RetainStartFork ==
  ASSUME Inv, ForkInv, NEW i \in Inst, RetainStart(i)
  PROVE  ForkInv'
<1> DEFINE p == [IdlePass EXCEPT !.kind = "retain", !.pc = "reap",
                   !.plan = ExpiredLive(cat[i]), !.todo = PendingDeletions(cat[i])]
<1>1. p.pc = "reap" /\ p.kind = "retain"
  BY Zenon DEF IdlePass
<1>2. /\ pass' = [pass EXCEPT ![i] = p]
      /\ events' = events \cup Ev("soft", StagedDeletions(cat[i]))
      /\ UNCHANGED <<bucketVars, expired, cat, leaseVars>>
  BY Zenon DEF RetainStart, SetPass, EmitSoft, Emit
<1> HIDE DEF p
<1>3. pass'[i] = p /\ \A j \in Inst \ {i} : pass'[j] = pass[j]
  BY Zenon, <1>2 DEF Inv, Types
<1>4. \A e \in Ev("soft", StagedDeletions(cat[i])) : e.kind # "deleted"
  BY DEF Ev
<1>5. Gone'
  BY Zenon, <1>1, <1>2, <1>3, <1>4 DEF ForkInv, Gone, bucketVars
<1>6. (LeaseOK(i) /\ PlanOK(i))'
  BY Zenon, <1>1, <1>3 DEF LeaseOK, PlanOK, Holding, Merging, Uploading
<1>7. \A j \in Inst : KeptCat(j)
  BY Zenon, <1>2 DEF KeptCat
<1> QED
  BY Zenon, <1>2, <1>5, <1>6, <1>7, MoveFork DEF bucketVars

(* What a pass keeps of its plan while it reaps.                             *)
LEMMA ReapPlan ==
  ASSUME Inv, ForkInv, NEW i \in Inst, NEW p, pass'[i] = p,
         pass[i].pc \in Planning, p.pc \in {"reap", "reapmeta", "reaprow", "acquire"},
         p.kind = pass[i].kind, p.plan = pass[i].plan, p.lvl = pass[i].lvl,
         KeptCat(i), level' = level, meta' \subseteq meta, data' \subseteq data
  PROVE  (LeaseOK(i) /\ PlanOK(i))'
<1>1. \A b : b \in Intact' => b \in Intact
  BY Zenon DEF Intact
<1>2. PlanOK(i)
  BY Zenon DEF ForkInv
<1>3. /\ p.kind = "compact" => \A b \in p.plan : level'[b] = p.lvl
      /\ p.kind = "compact" => \A b \in p.plan : b \in cat'[i].rows \/ b \notin Intact'
  BY Zenon, <1>1, <1>2 DEF PlanOK, KeptCat
<1> QED
  BY Zenon, <1>3 DEF LeaseOK, PlanOK, Holding, Merging, Uploading

(* reap_pending, one object after the other: the row goes last.              *)
LEMMA ReapFork ==
  ASSUME Inv, ForkInv, NEW i \in Inst,
         ReapData(i) \/ ReapMeta(i) \/ ReapRow(i) \/ ReapFails(i)
  PROVE  ForkInv'
<1>0. pass[i] \in PassState /\ cat[i] \in CatalogState /\ PassOK(pass[i])
  BY Zenon, ThePass
<1>1. CASE ReapData(i)
  <2>1. PICK b \in pass[i].todo :
          pass' = [pass EXCEPT ![i] =
                     [pass[i] EXCEPT !.pc = "reapmeta", !.cur = b, !.todo = @ \ {b}]]
    BY Zenon, <1>1 DEF ReapData, SetPass
  <2> DEFINE p == [pass[i] EXCEPT !.pc = "reapmeta", !.cur = b, !.todo = @ \ {b}]
  <2>2. p.pc = "reapmeta" /\ p.kind = pass[i].kind /\ p.plan = pass[i].plan /\ p.lvl = pass[i].lvl
    BY Zenon, <1>0 DEF PassState
  <2>3. /\ pass[i].pc = "reap" /\ meta' = meta /\ data' \subseteq data
        /\ UNCHANGED <<ever, from, level, expired, cat, events, leaseVars>>
    BY Zenon, <1>1 DEF ReapData
  <2> HIDE DEF p
  <2>4. pass'[i] = p /\ \A j \in Inst \ {i} : pass'[j] = pass[j]
    BY Zenon, <2>1 DEF Inv, Types, p
  <2>5. Gone'
    BY Zenon, <2>2, <2>3, <2>4 DEF ForkInv, Gone
  <2>6. \A j \in Inst : KeptCat(j)
    BY Zenon, <2>3 DEF KeptCat
  <2>7. (LeaseOK(i) /\ PlanOK(i))'
    BY Zenon, <2>2, <2>3, <2>4, <2>6, ReapPlan DEF Planning
  <2> QED
    BY Zenon, <2>1, <2>3, <2>5, <2>6, <2>7, MoveFork
<1>2. CASE ReapMeta(i)
  <2> DEFINE p == [pass[i] EXCEPT !.pc = "reaprow"]
  <2>2. /\ p.pc = "reaprow" /\ p.kind = pass[i].kind /\ p.plan = pass[i].plan
        /\ p.lvl = pass[i].lvl /\ p.cur = pass[i].cur
    BY Zenon, <1>0 DEF PassState
  <2>3. /\ pass[i].pc = "reapmeta" /\ meta' = meta \ {pass[i].cur} /\ data' = data
        /\ pass' = [pass EXCEPT ![i] = p]
        /\ UNCHANGED <<ever, from, level, expired, cat, events, leaseVars>>
    BY Zenon, <1>2 DEF ReapMeta, SetPass
  <2> HIDE DEF p
  <2>4. pass'[i] = p /\ \A j \in Inst \ {i} : pass'[j] = pass[j]
    BY Zenon, <2>3 DEF Inv, Types
  <2>5. Gone'
    <3>1. pass[i].cur \in ever
      BY Zenon, <1>0, <2>3 DEF PassOK, Condemned, Replaced, Dead
    <3>2. \A e \in events' : e.kind = "deleted" => e.block \in ever' \ meta'
      BY Zenon, <2>3 DEF ForkInv, Gone
    <3>3. \A j \in Inst : pass'[j].pc = "reaprow" => pass'[j].cur \in ever' \ meta'
      BY SMT, <2>2, <2>3, <2>4, <3>1 DEF ForkInv, Gone
    <3> QED
      BY Zenon, <3>2, <3>3 DEF Gone
  <2>6. \A j \in Inst : KeptCat(j)
    BY Zenon, <2>3 DEF KeptCat
  <2>7. (LeaseOK(i) /\ PlanOK(i))'
    BY Zenon, <2>2, <2>3, <2>4, <2>6, ReapPlan DEF Planning
  <2> QED
    BY Zenon, <2>3, <2>5, <2>6, <2>7, MoveFork
<1>3. CASE ReapRow(i)
  <2> DEFINE p == [pass[i] EXCEPT !.pc = "reap", !.cur = NoBlock]
             c == DeleteBlocks(cat[i], {pass[i].cur})
  <2>2. p.pc = "reap" /\ p.kind = pass[i].kind /\ p.plan = pass[i].plan /\ p.lvl = pass[i].lvl
    BY Zenon, <1>0 DEF PassState
  <2>3. /\ pass[i].pc = "reaprow" /\ pass' = [pass EXCEPT ![i] = p]
        /\ cat' = [cat EXCEPT ![i] = c]
        /\ events' = events \cup {[kind |-> "deleted", block |-> pass[i].cur]}
        /\ UNCHANGED <<bucketVars, expired, leaseVars>>
    BY Zenon, <1>3 DEF ReapRow, SetPass, Emit, Ev
  <2>4. pass[i].cur \in ever \ meta
    BY Zenon, <2>3 DEF ForkInv, Gone
  <2>5. c.rows = cat[i].rows \ {pass[i].cur} /\ c.superseded = cat[i].superseded \ {pass[i].cur}
    BY Zenon, <1>0, DeleteKeeps
  <2> HIDE DEF p, c
  <2>6. pass'[i] = p /\ \A j \in Inst \ {i} : pass'[j] = pass[j]
    BY Zenon, <2>3 DEF Inv, Types
  <2>7. Gone'
    <3>1. \A e \in events' : e.kind = "deleted" => e.block \in ever \ meta
      BY <2>3, <2>4 DEF ForkInv, Gone
    <3> QED
      BY Zenon, <2>2, <2>3, <2>6, <3>1 DEF ForkInv, Gone, bucketVars
  <2>8. \A j \in Inst : KeptCat(j)
    BY Zenon, <2>3, <2>4, <2>5, CatKept DEF Intact
  <2>9. (LeaseOK(i) /\ PlanOK(i))'
    BY Zenon, <2>2, <2>3, <2>6, <2>8, ReapPlan DEF Planning, bucketVars
  <2> QED
    BY Zenon, <2>3, <2>7, <2>8, <2>9, MoveFork DEF bucketVars
<1>4. CASE ReapFails(i)
  <2>1. PICK p : /\ pass' = [pass EXCEPT ![i] = p]
                 /\ p.pc = "reap" /\ p.kind = pass[i].kind
                 /\ p.plan = pass[i].plan /\ p.lvl = pass[i].lvl
    <3>2. LET q == [pass[i] EXCEPT !.pc = "reap", !.cur = NoBlock]
          IN  /\ q.pc = "reap" /\ q.kind = pass[i].kind
              /\ q.plan = pass[i].plan /\ q.lvl = pass[i].lvl
      BY Zenon, <1>0 DEF PassState
    <3>3. CASE pass[i].pc = "reap" /\ \E b \in pass[i].todo :
                 SetPass(i, [pass[i] EXCEPT !.todo = @ \ {b}])
      <4>1. PICK b \in pass[i].todo :
              pass' = [pass EXCEPT ![i] = [pass[i] EXCEPT !.todo = @ \ {b}]]
        BY Zenon, <3>3 DEF SetPass
      <4> DEFINE q == [pass[i] EXCEPT !.todo = @ \ {b}]
      <4>2. /\ q.pc = "reap" /\ q.kind = pass[i].kind
            /\ q.plan = pass[i].plan /\ q.lvl = pass[i].lvl
        BY Zenon, <1>0, <3>3 DEF PassState
      <4>3. pass' = [pass EXCEPT ![i] = q]
        BY Zenon, <4>1
      <4> HIDE DEF q
      <4> QED
        BY Zenon, <4>2, <4>3
    <3>4. CASE SetPass(i, [pass[i] EXCEPT !.pc = "reap", !.cur = NoBlock])
      BY Zenon, <3>2, <3>4 DEF SetPass
    <3> QED
      BY Zenon, <1>4, <3>3, <3>4 DEF ReapFails
  <2>2. /\ pass[i].pc \in {"reap", "reapmeta", "reaprow"}
        /\ UNCHANGED <<bucketVars, expired, cat, events, leaseVars>>
    BY Zenon, <1>4 DEF ReapFails
  <2>3. pass'[i] = p /\ \A j \in Inst \ {i} : pass'[j] = pass[j]
    BY Zenon, <2>1 DEF Inv, Types
  <2>4. Gone'
    BY Zenon, <2>1, <2>2, <2>3 DEF ForkInv, Gone, bucketVars
  <2>5. \A j \in Inst : KeptCat(j)
    BY Zenon, <2>2 DEF KeptCat
  <2>6. (LeaseOK(i) /\ PlanOK(i))'
    BY Zenon, <2>1, <2>2, <2>3, <2>5, ReapPlan DEF Planning, bucketVars
  <2> QED
    BY Zenon, <2>1, <2>2, <2>4, <2>5, <2>6, MoveFork DEF bucketVars
<1> QED
  BY Zenon, <1>1, <1>2, <1>3, <1>4

(* A reap that is done: the pass ends, or goes for the lease.                *)
LEMMA ReapDoneFork ==
  ASSUME Inv, ForkInv, NEW i \in Inst, ReapDone(i)
  PROVE  ForkInv'
<1>0. /\ UNCHANGED <<meta, data, ever, from, level, expired, cat, events>>
      /\ \A j \in Inst : KeptCat(j)
  BY Zenon DEF ReapDone, bucketVars, KeptCat
<1>1. CASE pass[i].plan = {}
  BY Zenon, <1>0, <1>1, FinishFork DEF ReapDone
<1>2. CASE pass[i].plan # {}
  <2> DEFINE p == [pass[i] EXCEPT !.pc = "acquire"]
  <2>1. p.pc = "acquire" /\ p.kind = pass[i].kind /\ p.plan = pass[i].plan /\ p.lvl = pass[i].lvl
    BY Zenon, ThePass DEF PassState
  <2>2. pass' = [pass EXCEPT ![i] = p] /\ UNCHANGED leaseVars /\ pass[i].pc \in Planning
    BY Zenon, <1>2 DEF ReapDone, SetPass, Planning
  <2> HIDE DEF p
  <2>3. pass'[i] = p /\ \A j \in Inst \ {i} : pass'[j] = pass[j]
    BY Zenon, <2>2 DEF Inv, Types
  <2>4. Gone'
    BY Zenon, <1>0, <2>1, <2>3 DEF ForkInv, Gone
  <2>5. (LeaseOK(i) /\ PlanOK(i))'
    BY Zenon, <1>0, <2>1, <2>2, <2>3, ReapPlan
  <2> QED
    BY Zenon, <1>0, <2>2, <2>4, <2>5, MoveFork
<1> QED
  BY Zenon, <1>1, <1>2

(* The lease is not to be had.                                               *)
LEMMA AcquireSkipsFork ==
  ASSUME Inv, ForkInv, NEW i \in Inst, AcquireSkips(i)
  PROVE  ForkInv'
<1>1. /\ pass' = [pass EXCEPT ![i] = IdlePass] /\ \A j \in Inst : KeptCat(j)
      /\ UNCHANGED <<meta, data, ever, from, level, expired, cat, events, leaseVars>>
  BY Zenon DEF AcquireSkips, SetPass, bucketVars, KeptCat
<1>2. pass'[i] = IdlePass /\ \A j \in Inst \ {i} : pass'[j] = pass[j]
  BY Zenon, <1>1 DEF Inv, Types
<1>3. IdlePass.pc = "idle"
  BY Zenon DEF IdlePass
<1>4. Gone'
  BY Zenon, <1>1, <1>2, <1>3 DEF ForkInv, Gone
<1> QED
  BY Zenon, <1>1, <1>2, <1>4, IdleFork, MoveFork

(* A block that was replaced and is not past its TTL has an unreplaced heir  *)
(* whose sidecar is in the bucket.                                           *)
LEMMA HeirOf ==
  ASSUME Inv, ForkInv, NEW b \in ever, ~Unspoilt(b)
  PROVE  \E w \in ever \ Condemned : b \in from[w] /\ w \in meta
<1>0. Types /\ Graph /\ Cover /\ Heirs
  BY Zenon DEF Inv, ForkInv
<1>1. PICK z \in ever : b \in from[z]
  BY Zenon DEF Unspoilt, Replaced
<1>2. z \notin Dead
  <2>1. Records(b) \subseteq Records(z)
    BY Zenon, <1>0, <1>1 DEF Types, Graph, Records
  <2> QED
    BY Zenon, <2>1 DEF Unspoilt, Dead, PastTtl
<1>3. PICK w \in ever \ Condemned : w = z \/ z \in from[w]
  BY Zenon, <1>0, <1>2 DEF Heirs
<1>4. b \in from[w]
  BY Zenon, <1>0, <1>1, <1>3 DEF Types, Graph
<1>5. w \in meta
  BY Zenon, <1>0, <1>3 DEF Cover, Condemned, Replaced, Graph
<1> QED
  BY Zenon, <1>4, <1>5

(* The LIST under the lease names every heir the catalog lacks.              *)
LEMMA ReconcileListFork ==
  ASSUME Inv, ForkInv, NEW i \in Inst, ReconcileList(i)
  PROVE  ForkInv'
<1> DEFINE p == [pass[i] EXCEPT !.pc = "fetch", !.todo = meta \ cat[i].rows]
<1>1. /\ pass[i].pc = "list" /\ pass' = [pass EXCEPT ![i] = p]
      /\ UNCHANGED <<meta, data, ever, from, level, expired, cat, events, lease, fence>>
      /\ \A j \in Inst : KeptCat(j)
  BY Zenon DEF ReconcileList, SetPass, bucketVars, leaseVars, KeptCat
<1>2. /\ p.pc = "fetch" /\ p.todo = meta \ cat[i].rows /\ p.kind = pass[i].kind
      /\ p.plan = pass[i].plan /\ p.lvl = pass[i].lvl
  BY Zenon, ThePass DEF PassState
<1> HIDE DEF p
<1>3. pass'[i] = p /\ \A j \in Inst \ {i} : pass'[j] = pass[j]
  BY Zenon, <1>1 DEF Inv, Types
<1>4. Gone'
  BY Zenon, <1>1, <1>2, <1>3 DEF ForkInv, Gone
<1>5. MyLease(i)' = MyLease(i) /\ (Holding(i)' => Holding(i)) /\ Intact' = Intact
  BY Zenon, <1>1, <1>2, <1>3 DEF MyLease, Holding, Merging, Intact
<1>6. LeaseOK(i)'
  BY Zenon, <1>1, <1>2, <1>3, <1>5 DEF ForkInv, LeaseOK, Merging
<1>7. /\ pass[i].kind = "compact"
      /\ \A b \in pass[i].plan : b \in ever /\ level[b] = pass[i].lvl
      /\ \A b \in pass[i].plan : b \in cat[i].rows \/ b \notin Intact
  BY Zenon, <1>1, ThePass DEF ForkInv, LeaseOK, PlanOK, Planning, Merging, PassOK
<1>8. ASSUME NEW b \in pass[i].plan, ~Unspoilt(b), b \in Intact
      PROVE  b \in cat[i].superseded \/ \E q \in p.todo : b \in from[q]
  <2>1. PICK w \in ever \ Condemned : b \in from[w] /\ w \in meta
    BY Zenon, <1>7, <1>8, HeirOf
  <2>2. CASE w \in cat[i].rows
    <3>1. CatalogInv(cat[i], from, ever, Replaced, Dead) /\ w \in Block
      BY Zenon, ThePass DEF Inv, Types
    <3>2. w \in Live(cat[i])
      BY Zenon, <2>2, <3>1 DEF CatalogInv, Live, Condemned
    <3> QED
      BY Zenon, <1>7, <1>8, <2>1, <3>1, <3>2 DEF CatalogInv
  <2>3. CASE w \notin cat[i].rows
    BY Zenon, <1>2, <2>1, <2>3
  <2> QED
    BY Zenon, <2>2, <2>3
<1>9. \A b : Unspoilt(b)' <=> Unspoilt(b)
  BY Zenon, <1>1, SameSets DEF Unspoilt
<1>10. PlanOK(i)'
  BY Zenon, <1>1, <1>2, <1>3, <1>5, <1>7, <1>8, <1>9 DEF PlanOK, Uploading
<1> QED
  BY Zenon, <1>1, <1>4, <1>6, <1>10, MoveFork DEF leaseVars

(* A fetched sidecar hides the plan's blocks it was merged from.             *)
LEMMA ReconcileFetchFork ==
  ASSUME Inv, ForkInv, NEW i \in Inst, ReconcileFetch(i), ~missed'
  PROVE  ForkInv'
<1>1. PICK q \in pass[i].todo :
        /\ FetchAndApply(i, q) /\ ~Misses(i, q)
        /\ pass' = [pass EXCEPT ![i] = [pass[i] EXCEPT !.todo = @ \ {q}]]
  BY Zenon DEF ReconcileFetch, SetPass
<1> DEFINE p == [pass[i] EXCEPT !.todo = @ \ {q}]
<1>2. /\ pass[i].pc = "fetch"
      /\ UNCHANGED <<meta, data, ever, from, level, expired, events, lease, fence>>
      /\ \A j \in Inst : KeptCat(j)
  BY Zenon, <1>1, FetchKeeps DEF ReconcileFetch, bucketVars, leaseVars
<1>3. /\ p.pc = "fetch" /\ p.todo = pass[i].todo \ {q} /\ p.kind = pass[i].kind
      /\ p.plan = pass[i].plan /\ p.lvl = pass[i].lvl
  BY Zenon, <1>2, ThePass DEF PassState
<1>4. pass'[i] = p /\ \A j \in Inst \ {i} : pass'[j] = pass[j]
  BY Zenon, <1>1 DEF Inv, Types
<1>5. \/ cat'[i] = InsertBlock(cat[i], q, from)
      \/ PastTtl(q)
      \/ \E y \in Live(cat[i]) \cup (pass[i].todo \ {q}) : q \in from[y]
  BY Zenon, <1>1 DEF Misses
<1> HIDE DEF p
<1>6. Gone'
  BY Zenon, <1>2, <1>3, <1>4 DEF ForkInv, Gone
<1>7. MyLease(i)' = MyLease(i) /\ (Holding(i)' => Holding(i)) /\ Intact' = Intact
  BY Zenon, <1>2, <1>3, <1>4 DEF MyLease, Holding, Merging, Intact
<1>8. LeaseOK(i)'
  BY Zenon, <1>2, <1>3, <1>4, <1>7 DEF ForkInv, LeaseOK, Merging
<1>9. /\ pass[i].kind = "compact"
      /\ \A b \in pass[i].plan : b \in ever /\ level[b] = pass[i].lvl
      /\ \A b \in pass[i].plan : b \in cat[i].rows \/ b \notin Intact
      /\ Holding(i) => \A b \in pass[i].plan :
            \/ Unspoilt(b) \/ b \notin Intact \/ b \in cat[i].superseded
            \/ \E x \in pass[i].todo : b \in from[x]
  BY Zenon, <1>2, ThePass DEF ForkInv, LeaseOK, PlanOK, Planning, Merging, PassOK
<1>10. \A b : Unspoilt(b)' <=> Unspoilt(b)
  BY Zenon, <1>2, SameSets DEF Unspoilt
<1>11. ASSUME NEW b \in pass[i].plan, b \in from[q]
       PROVE  \/ Unspoilt(b) \/ b \notin Intact \/ b \in cat'[i].superseded
              \/ \E x \in p.todo : b \in from[x]
  <2>1. q \in ever /\ q \in Block /\ b \in ever /\ b \in Block /\ ever \subseteq Block
    BY Zenon, <1>2, <1>9, ThePass DEF Inv, PassOK, Types
  <2>2. CASE cat'[i] = InsertBlock(cat[i], q, from)
    <3>1. q \notin from[q]
      BY Zenon, <2>1 DEF Inv, Graph
    <3>2. from[q] \cap (cat[i].rows \ {q}) \subseteq InsertBlock(cat[i], q, from).superseded
      BY Zenon, ThePass DEF InsertBlock, CatalogState
    <3> QED
      BY Zenon, <1>9, <1>11, <2>2, <3>1, <3>2
  <2>3. CASE PastTtl(q)
    <3>1. from[b] \subseteq from[q]
      BY Zenon, <1>11, <2>1 DEF Inv, Graph
    <3>2. Records(b) \subseteq Records(q)
      BY Zenon, <1>11, <3>1 DEF Records
    <3> QED
      BY Zenon, <2>1, <2>3, <3>2 DEF Unspoilt, Dead, PastTtl
  <2>4. ASSUME NEW y \in Live(cat[i]), q \in from[y]
        PROVE  b \in cat'[i].superseded \/ b \notin Intact
    <3>1. y \in Block
      BY Zenon, <2>1, <2>4, CatalogSets
    <3>2. b \in from[y]
      BY Zenon, <1>11, <2>4, <3>1 DEF Inv, Graph
    <3>3. b \in cat[i].rows => b \in cat[i].superseded
      BY Zenon, <2>4, <3>2, ThePass DEF CatalogInv
    <3> QED
      BY Zenon, <1>2, <1>9, <3>3 DEF KeptCat
  <2>5. ASSUME NEW y \in pass[i].todo \ {q}, q \in from[y]
        PROVE  y \in p.todo /\ b \in from[y]
    <3>1. y \in Block
      BY Zenon, <1>2, <2>1, <2>5, ThePass DEF PassOK
    <3> QED
      BY Zenon, <1>3, <1>11, <2>5, <3>1 DEF Inv, Graph
  <2> QED
    BY Zenon, <1>5, <2>2, <2>3, <2>4, <2>5
<1>12. Holding(i) => \A b \in pass[i].plan :
            \/ Unspoilt(b) \/ b \notin Intact \/ b \in cat'[i].superseded
            \/ \E x \in p.todo : b \in from[x]
  BY Zenon, <1>2, <1>3, <1>9, <1>11 DEF KeptCat
<1>13. \A b \in pass[i].plan : b \in cat'[i].rows \/ b \notin Intact
  BY Zenon, <1>2, <1>9 DEF KeptCat
<1>14. PlanOK(i)'
  BY Zenon, <1>2, <1>3, <1>4, <1>7, <1>9, <1>10, <1>12, <1>13 DEF PlanOK, Uploading
<1> QED
  BY Zenon, <1>1, <1>2, <1>6, <1>8, <1>14, MoveFork DEF leaseVars

(* The reconcile, the merge or the commit is given up.                       *)
LEMMA GiveUpFork ==
  ASSUME Inv, ForkInv, NEW i \in Inst,
         ReconcileFails(i) \/ MergeFails(i) \/ CommitAborts(i)
  PROVE  ForkInv'
<1>1. /\ UNCHANGED <<meta, ever, from, level, expired, cat, events>> /\ Finish(i)
      /\ data' \subseteq data
  BY Zenon DEF ReconcileFails, MergeFails, CommitAborts, bucketVars
<1>2. \A j \in Inst : KeptCat(j)
  BY Zenon, <1>1 DEF KeptCat
<1> QED
  BY Zenon, <1>1, <1>2, FinishFork

(* The plan is revalidated against the reconciled catalog.                   *)
LEMMA ReconcileDoneFork ==
  ASSUME Inv, ForkInv, NEW i \in Inst, ReconcileDone(i)
  PROVE  ForkInv'
<1>1. /\ pass[i].pc = "fetch" /\ pass[i].todo = {}
      /\ cat' = [cat EXCEPT ![i] = StageUnstagedSuperseded(cat[i], NewDeadline)]
      /\ UNCHANGED <<meta, data, ever, from, level, expired, events>>
  BY Zenon DEF ReconcileDone, bucketVars
<1>2. \A j \in Inst : KeptCat(j)
  <2> DEFINE c == StageUnstagedSuperseded(cat[i], NewDeadline)
  <2>1. c.rows = cat[i].rows /\ c.superseded = cat[i].superseded
    BY Zenon, ThePass, StageKeeps
  <2>2. cat' = [cat EXCEPT ![i] = c]
    BY Zenon, <1>1
  <2> HIDE DEF c
  <2> QED
    BY Zenon, <2>1, <2>2, CatKept
<1>3. CASE ~(pass[i].plan \subseteq Live(cat[i]))
  BY Zenon, <1>1, <1>2, <1>3, FinishFork DEF ReconcileDone
<1>4. CASE pass[i].plan \subseteq Live(cat[i])
  <2> DEFINE p == [pass[i] EXCEPT !.pc = "merge"]
  <2>1. p.pc = "merge" /\ p.kind = pass[i].kind /\ p.plan = pass[i].plan /\ p.lvl = pass[i].lvl
    BY Zenon, ThePass DEF PassState
  <2>2. pass' = [pass EXCEPT ![i] = p] /\ UNCHANGED <<lease, fence>>
    BY Zenon, <1>4 DEF ReconcileDone, SetPass, leaseVars
  <2> HIDE DEF p
  <2>3. pass'[i] = p /\ \A j \in Inst \ {i} : pass'[j] = pass[j]
    BY Zenon, <2>2 DEF Inv, Types
  <2>4. Gone'
    BY Zenon, <1>1, <2>1, <2>3 DEF ForkInv, Gone
  <2>5. MyLease(i)' = MyLease(i) /\ (Holding(i)' => Holding(i)) /\ Intact' = Intact
    BY Zenon, <1>1, <2>1, <2>2, <2>3 DEF MyLease, Holding, Merging, Intact
  <2>6. LeaseOK(i)'
    BY Zenon, <1>1, <2>1, <2>2, <2>3, <2>5 DEF ForkInv, LeaseOK, Merging
  <2>7. /\ pass[i].kind = "compact" => \A b \in pass[i].plan : level[b] = pass[i].lvl
        /\ Holding(i) => \A b \in pass[i].plan : Unspoilt(b) \/ b \notin Intact
    BY Zenon, <1>1, <1>4 DEF ForkInv, PlanOK, Live
  <2>8. \A b : Unspoilt(b)' <=> Unspoilt(b)
    BY Zenon, <1>1, SameSets DEF Unspoilt
  <2>9. PlanOK(i)'
    BY Zenon, <1>1, <2>1, <2>3, <2>5, <2>7, <2>8 DEF PlanOK, Uploading, Planning
  <2> QED
    BY Zenon, <1>1, <1>2, <2>2, <2>4, <2>6, <2>9, MoveFork DEF leaseVars
<1> QED
  BY Zenon, <1>3, <1>4

(* The commit PUT starts under a fence that passes.                          *)
LEMMA CommitSendFork ==
  ASSUME Inv, ForkInv, NEW i \in Inst, CommitSend(i)
  PROVE  ForkInv'
<1> DEFINE p == [pass[i] EXCEPT !.pc = "put"]
<1>1. /\ pass[i].pc = "commit" /\ i \in fence /\ pass' = [pass EXCEPT ![i] = p]
      /\ UNCHANGED <<meta, data, ever, from, level, expired, cat, events, lease, fence>>
      /\ \A j \in Inst : KeptCat(j)
  BY Zenon DEF CommitSend, SetPass, bucketVars, leaseVars, KeptCat
<1>2. /\ p.pc = "put" /\ p.kind = pass[i].kind /\ p.plan = pass[i].plan
      /\ p.lvl = pass[i].lvl /\ p.cur = pass[i].cur
  BY Zenon, ThePass DEF PassState
<1> HIDE DEF p
<1>3. pass'[i] = p /\ \A j \in Inst \ {i} : pass'[j] = pass[j]
  BY Zenon, <1>1 DEF Inv, Types
<1>4. Gone'
  BY Zenon, <1>1, <1>2, <1>3 DEF ForkInv, Gone
<1>5. MyLease(i)' = MyLease(i) /\ Holding(i) /\ pass[i].pc \in Uploading
  BY Zenon, <1>1, <1>2, <1>3 DEF MyLease, Holding, Merging, Uploading
<1>6. LeaseOK(i)'
  BY Zenon, <1>1, <1>2, <1>3, <1>5 DEF ForkInv, LeaseOK, Merging
<1>7. /\ pass[i].kind = "compact" => \A b \in pass[i].plan : level[b] = pass[i].lvl
      /\ \A b \in pass[i].plan : Unspoilt(b)
      /\ from[pass[i].cur] = Ancestry(pass[i].plan)
  BY Zenon, <1>5 DEF ForkInv, PlanOK
<1>8. /\ \A b : Unspoilt(b)' <=> Unspoilt(b)
      /\ \A S : Ancestry(S)' = Ancestry(S)
  BY Zenon, <1>1, SameSets DEF Unspoilt, Ancestry
<1>9. PlanOK(i)'
  BY Zenon, <1>1, <1>2, <1>3, <1>7, <1>8 DEF PlanOK, Planning
<1> QED
  BY Zenon, <1>1, <1>4, <1>6, <1>9, MoveFork DEF leaseVars

(* A pass that reaps at once what it staged, or ends.                        *)
LEMMA ReapNowFork ==
  ASSUME Inv, ForkInv, UNCHANGED <<bucketVars, expired>>,
         \A e \in events' : e.kind = "deleted" => e \in events,
         NEW i \in Inst, NEW todo, ReapNowOrFinish(i, todo),
         \A j \in Inst : KeptCat(j)
  PROVE  ForkInv'
<1>1. UNCHANGED <<meta, data, ever, from, level>>
  BY Zenon DEF bucketVars
<1>2. CASE Finish(i)
  BY Zenon, <1>1, <1>2, FinishFork
<1>3. CASE ~Finish(i)
  <2> DEFINE p == [pass[i] EXCEPT !.pc = "reap", !.plan = {}, !.cur = NoBlock, !.todo = todo]
  <2>1. p.pc = "reap" /\ p.plan = {}
    BY Zenon, ThePass DEF PassState
  <2>2. pass' = [pass EXCEPT ![i] = p] /\ UNCHANGED leaseVars
    BY Zenon, <1>3 DEF ReapNowOrFinish, SetPass
  <2> HIDE DEF p
  <2>3. pass'[i] = p /\ \A j \in Inst \ {i} : pass'[j] = pass[j]
    BY Zenon, <2>2 DEF Inv, Types
  <2>4. Gone'
    BY Zenon, <1>1, <2>1, <2>3 DEF ForkInv, Gone
  <2>5. (LeaseOK(i) /\ PlanOK(i))'
    BY Zenon, <2>1, <2>3 DEF LeaseOK, PlanOK, Holding, Merging, Uploading
  <2> QED
    BY Zenon, <1>1, <2>2, <2>4, <2>5, MoveFork
<1> QED
  BY Zenon, <1>2, <1>3

(* A committed merge is published.                                           *)
LEMMA PublishFork ==
  ASSUME Inv, ForkInv, NEW i \in Inst, Publish(i)
  PROVE  ForkInv'
<1> DEFINE m == pass[i].cur
           c == ApplyCompaction(cat[i], m, pass[i].plan, NewDeadline, from)
<1>1. /\ cat' = [cat EXCEPT ![i] = c] /\ UNCHANGED <<bucketVars, expired>>
      /\ events' = events \cup (Ev("created", {m}) \cup Ev("superseded", {m}))
      /\ ReapNowOrFinish(i, PendingReaps(c))
  BY Zenon DEF Publish, Emit
<1>2. cat[i].rows \subseteq c.rows /\ cat[i].superseded \subseteq c.superseded
  BY Zenon, ThePass, InsertKeeps
<1> HIDE DEF c, m
<1>3. \A j \in Inst : KeptCat(j)
  BY Zenon, <1>1, <1>2, CatKept
<1>4. \A e \in events' : e.kind = "deleted" => e \in events
  BY <1>1 DEF Ev
<1> QED
  BY Zenon, <1>1, <1>3, <1>4, ReapNowFork

(* retain_planned stages what is past its TTL.                               *)
LEMMA RetainStageFork ==
  ASSUME Inv, ForkInv, NEW i \in Inst, RetainStage(i)
  PROVE  ForkInv'
<1>1. UNCHANGED <<bucketVars, expired>>
  BY Zenon DEF RetainStage
<1>2. CASE i \notin fence
  <2>1. UNCHANGED <<meta, data, ever, from, level, cat, events>> /\ Finish(i)
    BY Zenon, <1>1, <1>2 DEF RetainStage, bucketVars
  <2>2. \A j \in Inst : KeptCat(j)
    BY Zenon, <2>1 DEF KeptCat
  <2> QED
    BY Zenon, <1>1, <2>1, <2>2, FinishFork
<1>3. CASE i \in fence
  <2> DEFINE c == MarkDeleted(cat[i], pass[i].plan, NewDeadline)
  <2>1. /\ cat' = [cat EXCEPT ![i] = c]
        /\ events' = events \cup Ev("soft", pass[i].plan)
        /\ ReapNowOrFinish(i, PendingDeletions(c))
    BY Zenon, <1>3 DEF RetainStage, EmitSoft, Emit
  <2>2. c.rows = cat[i].rows /\ c.superseded = cat[i].superseded
    <3>1. cat[i] \in CatalogState
      BY Zenon, ThePass
    <3> QED
      BY Zenon, <3>1 DEF MarkDeleted, CatalogState
  <2> HIDE DEF c
  <2>3. \A j \in Inst : KeptCat(j)
    BY Zenon, <2>1, <2>2, CatKept
  <2>4. \A e \in events' : e.kind = "deleted" => e \in events
    BY <2>1 DEF Ev
  <2> QED
    BY Zenon, <1>1, <2>1, <2>3, <2>4, ReapNowFork
<1> QED
  BY Zenon, <1>2, <1>3

(* A registry entry expires.                                                 *)
LEMMA RegistryExpiresFork ==
  ASSUME Inv, ForkInv, NEW b, RegistryExpires(b)
  PROVE  ForkInv'
<1>1. \A j \in Inst : KeptCat(j)
  BY Zenon DEF RegistryExpires, KeptCat
<1> QED
  BY Zenon, <1>1, CatFork DEF RegistryExpires

-----------------------------------------------------------------------------
(* The steps that mint, commit and age.                                      *)

(* A record ages.                                                            *)
LEMMA AgeFork ==
  ASSUME Inv, ForkInv, NEW r \in Initial, Age(r)
  PROVE  ForkInv'
<1>0. Types /\ Graph /\ Heirs /\ Gone /\ OneLease /\ Apart
  BY Zenon DEF Inv, ForkInv
<1>1. /\ expired' = expired \cup {r}
      /\ UNCHANGED <<meta, data, ever, from, level, cat, events, lease, fence, pass>>
  BY Zenon DEF Age, bucketVars, leaseVars
<1>2. Replaced' = Replaced /\ \A x : Records(x)' = Records(x)
  BY Zenon, <1>1 DEF Replaced, Records
<1>3. Grows
  BY Zenon, <1>0, <1>1 DEF Grows, Types
<1>4. Dead \subseteq Dead' /\ Condemned \subseteq Condemned'
  BY Zenon, <1>3, GrowsSets
<1>5. Heirs'
  <2> SUFFICES ASSUME NEW o \in ever, o \notin Dead'
               PROVE  \E y \in ever \ Condemned' : y = o \/ o \in from[y]
    BY Zenon, <1>1 DEF Heirs
  <2>1. PICK y \in ever \ Condemned : y = o \/ o \in from[y]
    BY Zenon, <1>0, <1>4 DEF Heirs
  <2>2. Records(o) \subseteq Records(y)
    BY Zenon, <1>0, <2>1 DEF Types, Graph, Records
  <2>3. y \notin Dead'
    BY Zenon, <1>1, <1>2, <2>2 DEF Dead, PastTtl
  <2> QED
    BY Zenon, <1>2, <2>1, <2>3 DEF Condemned
<1>6. Apart'
  BY Zenon, <1>0, <1>1, <1>2, <1>4 DEF Apart
<1>7. Gone' /\ OneLease'
  BY Zenon, <1>0, <1>1 DEF Gone, OneLease
<1>8. ASSUME NEW j \in Inst PROVE (LeaseOK(j) /\ PlanOK(j))'
  <2>1. Calm(j)
    BY Zenon, <1>1 DEF Calm, KeptCat
  <2>2. \A x \in ever : level'[x] = level[x] /\ (x \in Intact' => x \in Intact)
    BY Zenon, <1>1 DEF Intact
  <2>3. \A b : Unspoilt(b) => Unspoilt(b)'
    BY Zenon, <1>2, <1>4 DEF Unspoilt
  <2> QED
    BY Zenon, <1>1, <1>3, <2>1, <2>2, <2>3, CalmPass DEF ForkInv
<1> QED
  BY Zenon, <1>5, <1>6, <1>7, <1>8 DEF ForkInv

(* A merge mints a fresh uuid: nothing is committed yet.                     *)
LEMMA MergeReadFork ==
  ASSUME Inv, ForkInv, NEW i \in Inst, MergeRead(i)
  PROVE  ForkInv'
<1> DEFINE o == CHOOSE o \in Output : from[o] = {}
           P == pass[i].plan
           p == [pass[i] EXCEPT !.pc = "commit", !.cur = o]
<1>0. Types /\ Graph /\ Heirs /\ Gone /\ OneLease /\ Apart
  BY Zenon DEF Inv, ForkInv
<1>1. o \in Output /\ from[o] = {} /\ P \subseteq Intact /\ pass[i].pc = "merge" /\ i \in fence
  BY Zenon DEF MergeRead, Free
<1>2. /\ from' = [from EXCEPT ![o] = Ancestry(P)]
      /\ level' = [level EXCEPT ![o] = pass[i].lvl + 1]
      /\ data' = data \cup {o}
      /\ pass' = [pass EXCEPT ![i] = p]
      /\ UNCHANGED <<meta, ever, expired, cat, events, lease, fence>>
  BY Zenon DEF MergeRead, SetPass, leaseVars
<1> HIDE DEF o
<1>3. o \in Block /\ o \notin ever
  BY Zenon, <1>0, <1>1, MaintenanceAssumption DEF Graph
<1>4. /\ p.pc = "commit" /\ p.cur = o /\ p.kind = pass[i].kind
      /\ p.plan = P /\ p.lvl = pass[i].lvl
  BY Zenon, ThePass DEF PassState
<1> HIDE DEF p
<1>5. pass'[i] = p /\ \A j \in Inst \ {i} : pass'[j] = pass[j]
  BY Zenon, <1>2 DEF Inv, Types
<1>6. P \subseteq ever /\ ever \subseteq Block
  BY Zenon, <1>0, ThePass DEF PassOK, Types
<1>7. Ancestry(P) \subseteq Block
  BY <1>0, <1>6 DEF Ancestry, Types
<1>8. from'[o] = Ancestry(P) /\ \A x \in Block : x # o => from'[x] = from[x]
  BY Zenon, <1>0, <1>2, <1>3 DEF Types
<1>9. /\ \A x \in ever : from'[x] = from[x] /\ level'[x] = level[x]
      /\ Grows
  BY Zenon, <1>0, <1>2, <1>3, <1>6, <1>7, <1>8 DEF Grows, Types
<1>10. \A x \in ever : Records(x)' = Records(x) /\ (x \in Intact' => x \in Intact)
  BY Zenon, <1>2, <1>3, <1>9 DEF Records, Intact
<1>11. Replaced' = Replaced /\ Dead' = Dead /\ Condemned' = Condemned
  <2>1. Replaced' = Replaced
    BY Zenon, <1>2, <1>9 DEF Replaced
  <2>2. Dead' = Dead
    BY Zenon, <1>2, <1>10 DEF Dead, PastTtl
  <2> QED
    BY Zenon, <2>1, <2>2 DEF Condemned
<1>12. Heirs' /\ Apart'
  <2>1. Heirs'
    BY Zenon, <1>0, <1>2, <1>9, <1>11 DEF Heirs
  <2>2. Apart'
    <3> SUFFICES ASSUME NEW x \in ever', NEW y \in ever', x # y,
                        x \notin Condemned', y \notin Condemned',
                        NEW r \in Records(x)', r \in Records(y)'
                 PROVE  r \in expired'
      BY Zenon DEF Apart
    <3>1. x \in ever /\ y \in ever /\ x \notin Condemned /\ y \notin Condemned
      BY Zenon, <1>2, <1>11
    <3>2. r \in Records(x) /\ r \in Records(y)
      BY Zenon, <1>10, <3>1
    <3> QED
      BY Zenon, <1>0, <1>2, <3>1, <3>2 DEF Apart
  <2> QED
    BY Zenon, <2>1, <2>2
<1>13. Gone' /\ OneLease'
  BY Zenon, <1>0, <1>2, <1>4, <1>5 DEF Gone, OneLease
<1>14. \A b : Unspoilt(b)' <=> Unspoilt(b)
  BY Zenon, <1>11 DEF Unspoilt
<1>15. ASSUME NEW j \in Inst \ {i} PROVE (LeaseOK(j) /\ PlanOK(j))'
  <2>1. Calm(j)
    BY Zenon, <1>2, <1>5 DEF Calm, KeptCat
  <2>2. pass[j].pc \in Uploading => from'[pass[j].cur] = from[pass[j].cur]
    <3>1. pass[j].pc \in Uploading => pass[j].cur \in Output /\ from[pass[j].cur] # {}
      BY Zenon, <1>0 DEF Inv, Passes, PassOK
    <3> QED
      BY Zenon, <1>1, <1>8, <3>1, MaintenanceAssumption
  <2> QED
    BY Zenon, <1>9, <1>10, <1>14, <2>1, <2>2, CalmPass DEF ForkInv
<1>16. LeaseOK(i) /\ PlanOK(i) /\ Holding(i) /\ MyLease(i)' = MyLease(i)
  BY Zenon, <1>1, <1>4, <1>5 DEF ForkInv, Holding, Merging, MyLease
<1>17. LeaseOK(i)'
  BY Zenon, <1>1, <1>2, <1>4, <1>5, <1>16 DEF LeaseOK, Merging
<1>18. PlanOK(i)'
  <2>1. /\ p.kind = "compact" => \A b \in P : level'[b] = p.lvl
        /\ \A b \in P : Unspoilt(b)'
    BY Zenon, <1>1, <1>4, <1>6, <1>9, <1>14, <1>16 DEF PlanOK
  <2>2. Ancestry(P) = P \cup UNION {from'[b] : b \in P}
    BY <1>6, <1>9 DEF Ancestry
  <2>3. from'[pass'[i].cur] = Ancestry(pass[i].plan)'
    BY Zenon, <1>4, <1>5, <1>8, <2>2 DEF Ancestry
  <2> QED
    BY Zenon, <1>4, <1>5, <2>1, <2>3 DEF PlanOK, Planning
<1> QED
  BY Zenon, <1>12, <1>13, <1>15, <1>17, <1>18 DEF ForkInv

(* The commit point: the plan is unreplaced, and no other pass that may      *)
(* still commit has any of it in its own plan.                               *)
LEMMA CommitFork ==
  ASSUME Inv, ForkInv, NEW i \in Inst, pass[i].pc = "put",
         meta' = meta \cup {pass[i].cur}, ever' = ever \cup {pass[i].cur},
         UNCHANGED <<data, from, level, expired, events>>,
         pass'[i].pc # "reaprow", OneLease', (LeaseOK(i) /\ PlanOK(i))',
         \A j \in Inst \ {i} : Calm(j)
  PROVE  ForkInv'
<1> DEFINE m == pass[i].cur
           P == pass[i].plan
<1>0. Types /\ Graph /\ Heirs /\ Gone /\ OneLease /\ Apart /\ Passes
  BY Zenon DEF Inv, ForkInv
<1>1. m \in Output \ ever /\ m \in Block /\ P \subseteq ever /\ ever \subseteq Block
  BY Zenon, <1>0, ThePass, CommitBucket DEF PassOK, Types, Uploading
<1>2. Holding(i) /\ pass[i].pc \in Merging /\ pass[i].pc \in Uploading
  BY Zenon DEF Holding, Merging, Uploading
<1>3. /\ MyLease(i) \in lease /\ pass[i].kind = "compact"
      /\ \A b \in P : level[b] = pass[i].lvl /\ Unspoilt(b)
      /\ from[m] = Ancestry(P)
  BY Zenon, <1>2 DEF ForkInv, LeaseOK, PlanOK
<1>4. Grows /\ ever \subseteq ever'
  BY Zenon, CommitBucket DEF Grows
<1> HIDE DEF m, P
<1>5. ever' = ever \cup {m} /\ meta' = meta \cup {m}
  BY Zenon DEF m
<1>6. /\ \A b \in from[m] : b \in P \/ \E q \in P : b \in from[q]
      /\ \A q \in P : q \in from[m]
  BY Zenon, <1>3 DEF Ancestry
<1>7. Condemned \subseteq Condemned' /\ Dead \subseteq Dead'
  BY Zenon, <1>4, GrowsSets
<1>8. \A x : Records(x)' = Records(x)
  BY Zenon DEF Records
<1>9. \A b \in ever : /\ b \in Dead' => b \in Dead
                      /\ b \in Replaced' => b \in Replaced \/ b \in from[m]
  BY Zenon, <1>5, <1>8 DEF Dead, PastTtl, Replaced
<1>10. m \notin Replaced'
  BY Zenon, <1>0, <1>1, <1>5 DEF Graph, Replaced
<1>11. \A b \in from[m] : b \in ever /\ b \in Replaced'
  BY Zenon, <1>0, <1>1, <1>5 DEF Graph, Replaced
<1>12. \A b \in ever : b \in Replaced' => b \in Replaced \/ b \in P
  BY Zenon, <1>1, <1>6, <1>9 DEF Replaced
<1>13. Heirs'
  <2> SUFFICES ASSUME NEW o \in ever', o \notin Dead'
               PROVE  \E y \in ever' \ Condemned' : y = o \/ o \in from[y]
    BY Zenon DEF Heirs
  <2>1. CASE o = m
    BY Zenon, <1>5, <1>10, <2>1 DEF Condemned
  <2>2. CASE o \in ever
    <3>1. PICK y \in ever \ Condemned : y = o \/ o \in from[y]
      BY Zenon, <1>0, <1>7, <2>2 DEF Heirs
    <3>2. CASE y \notin Condemned'
      BY Zenon, <1>4, <3>1, <3>2
    <3>3. CASE y \in Condemned'
      <4>1. y \in from[m]
        BY Zenon, <1>9, <3>1, <3>3 DEF Condemned
      <4>2. o \in from[m]
        BY Zenon, <1>0, <1>1, <3>1, <4>1 DEF Graph
      <4>3. Records(o) \subseteq Records(m)
        BY Zenon, <1>0, <1>1, <4>2 DEF Graph, Records
      <4>4. m \notin Dead'
        BY Zenon, <1>4, <1>8, <2>2, <4>3 DEF Dead, PastTtl
      <4> QED
        BY Zenon, <1>5, <1>10, <4>2, <4>4 DEF Condemned
    <3> QED
      BY Zenon, <3>2, <3>3
  <2> QED
    BY Zenon, <1>5, <2>1, <2>2
<1>14. ASSUME NEW y \in ever, y \notin Condemned', NEW r \in Records(m), r \in Records(y)
       PROVE  r \in expired
  <2> SUFFICES ASSUME r \notin expired PROVE FALSE
    BY Zenon
  <2>1. r \in from[m] /\ r \in Initial
    BY Zenon, <1>1, <1>14, MaintenanceAssumption DEF Records
  <2>2. PICK p \in P : r \in Records(p)
    BY Zenon, <1>6, <2>1 DEF Records
  <2>3. p \notin Condemned
    BY Zenon, <1>3, <2>2 DEF Unspoilt, Condemned, Dead, PastTtl
  <2>4. p = y
    BY Zenon, <1>0, <1>1, <1>7, <1>14, <2>2, <2>3 DEF Apart
  <2> QED
    BY Zenon, <1>6, <1>11, <1>14, <2>4 DEF Condemned
<1>15. Apart'
  <2> SUFFICES ASSUME NEW x \in ever', NEW y \in ever', x # y,
                      x \notin Condemned', y \notin Condemned',
                      NEW r \in Records(x), r \in Records(y)
               PROVE  r \in expired
    BY Zenon, <1>8 DEF Apart
  <2>1. CASE x \in ever /\ y \in ever
    BY Zenon, <1>0, <1>7, <2>1 DEF Apart
  <2>2. CASE x = m
    BY Zenon, <1>5, <1>14, <2>2
  <2>3. CASE y = m
    BY Zenon, <1>5, <1>14, <2>3
  <2> QED
    BY Zenon, <1>5, <2>1, <2>2, <2>3
<1>16. Gone'
  BY Zenon, <1>0, <1>1, <1>5 DEF Gone, Calm
<1>17. ASSUME NEW j \in Inst \ {i} PROVE (LeaseOK(j) /\ PlanOK(j))'
  <2>1. \A x \in ever : level'[x] = level[x] /\ (x \in Intact' => x \in Intact)
    BY Zenon, <1>1, <1>5 DEF Intact
  <2>2. LeaseOK(j) /\ PlanOK(j) /\ Calm(j) /\ pass[j].plan \subseteq ever
    BY Zenon, <1>0 DEF ForkInv, Passes, PassOK
  <2>3. ASSUME Holding(j), NEW b \in pass[j].plan, Unspoilt(b)
        PROVE  Unspoilt(b)'
    <3>1. CASE b \in P
      <4>1. MyLease(j) \in lease /\ pass[j].kind = "compact" /\ level[b] = pass[j].lvl
        BY Zenon, <2>2, <2>3 DEF LeaseOK, PlanOK, Holding
      <4>2. /\ MyLease(i).kind = MyLease(j).kind /\ MyLease(i).lvl = MyLease(j).lvl
            /\ MyLease(i).who = i /\ MyLease(j).who = j
        BY Zenon, <1>3, <3>1, <4>1 DEF MyLease
      <4> QED
        BY Zenon, <1>0, <1>3, <4>1, <4>2 DEF OneLease
    <3>2. CASE b \notin P
      BY Zenon, <1>7, <1>12, <2>2, <2>3, <3>2 DEF Unspoilt
    <3> QED
      BY Zenon, <3>1, <3>2
  <2> QED
    BY Zenon, <1>4, <2>1, <2>2, <2>3, CalmPass
<1> QED
  BY Zenon, <1>13, <1>15, <1>16, <1>17 DEF ForkInv

(* The commit PUT succeeds.                                                  *)
LEMMA CommitLandsFork ==
  ASSUME Inv, ForkInv, NEW i \in Inst, CommitLands(i)
  PROVE  ForkInv'
<1> DEFINE p == [pass[i] EXCEPT !.pc = "apply"]
<1>1. /\ pass[i].pc = "put" /\ pass' = [pass EXCEPT ![i] = p]
      /\ meta' = meta \cup {pass[i].cur} /\ ever' = ever \cup {pass[i].cur}
      /\ UNCHANGED <<data, from, level, expired, cat, events, lease, fence>>
  BY Zenon DEF CommitLands, SetPass, leaseVars
<1>2. p.pc = "apply" /\ p.kind = pass[i].kind /\ p.plan = pass[i].plan /\ p.lvl = pass[i].lvl
  BY Zenon, ThePass DEF PassState
<1> HIDE DEF p
<1>3. pass'[i] = p /\ \A j \in Inst \ {i} : pass'[j] = pass[j]
  BY Zenon, <1>1 DEF Inv, Types
<1>4. PlanOK(i)
  BY Zenon DEF ForkInv
<1>5. (LeaseOK(i) /\ PlanOK(i))'
  BY Zenon, <1>1, <1>2, <1>3, <1>4 DEF LeaseOK, PlanOK, Holding, Merging, Planning, Uploading
<1>6. OneLease' /\ \A j \in Inst \ {i} : Calm(j)
  BY Zenon, <1>1, <1>3 DEF ForkInv, OneLease, Calm, KeptCat
<1> QED
  BY Zenon, <1>1, <1>2, <1>3, <1>5, <1>6, CommitFork

(* A pass whose PUT may have been applied, or whose process dies, is over.   *)
LEMMA AbandonFork ==
  ASSUME Inv, ForkInv, NEW i \in Inst,
         \/ meta' = meta /\ ever' = ever
         \/ /\ pass[i].pc = "put"
            /\ meta' = meta \cup {pass[i].cur} /\ ever' = ever \cup {pass[i].cur},
         UNCHANGED <<data, from, level, expired, events>>,
         pass' = [pass EXCEPT ![i] = IdlePass], fence' = fence \ {i},
         lease' = lease \/ lease' = lease \ {MyLease(i)},
         \A j \in Inst \ {i} : KeptCat(j)
  PROVE  ForkInv'
<1>1. pass'[i] = IdlePass /\ \A j \in Inst \ {i} : pass'[j] = pass[j]
  BY Zenon DEF Inv, Types
<1>2. (LeaseOK(i) /\ PlanOK(i))' /\ pass'[i].pc # "reaprow"
  <2>1. IdlePass.pc = "idle"
    BY Zenon DEF IdlePass
  <2> QED
    BY Zenon, <1>1, <2>1, IdleFork
<1>3. OneLease'
  BY Zenon DEF ForkInv, OneLease
<1>4. \A j \in Inst \ {i} : Calm(j)
  <2>1. \A j \in Inst \ {i} : MyLease(j) # MyLease(i)
    BY Zenon DEF MyLease
  <2> QED
    BY Zenon, <1>1, <2>1 DEF Calm
<1>5. CASE meta' = meta /\ ever' = ever
  <2>1. Gone'
    BY Zenon, <1>1, <1>2, <1>5 DEF ForkInv, Gone
  <2> QED
    BY Zenon, <1>2, <1>3, <1>4, <1>5, <2>1, QuietFork
<1>6. CASE ~(meta' = meta /\ ever' = ever)
  BY Zenon, <1>2, <1>3, <1>4, <1>6, CommitFork
<1> QED
  BY Zenon, <1>5, <1>6

(* A dropped PUT, and a crash.                                               *)
LEMMA AmbiguousFork ==
  ASSUME Inv, ForkInv, NEW i \in Inst, CommitAmbiguous(i) \/ Crash(i)
  PROVE  ForkInv'
<1>1. CASE CommitAmbiguous(i)
  <2>1. \A j \in Inst : KeptCat(j)
    BY Zenon, <1>1 DEF CommitAmbiguous, KeptCat
  <2>2. /\ UNCHANGED <<data, from, level, expired, events>> /\ pass[i].pc = "put"
        /\ pass' = [pass EXCEPT ![i] = IdlePass] /\ fence' = fence \ {i}
        /\ lease' = lease \ {MyLease(i)}
        /\ \/ meta' = meta /\ ever' = ever
           \/ meta' = meta \cup {pass[i].cur} /\ ever' = ever \cup {pass[i].cur}
    BY Zenon, <1>1 DEF CommitAmbiguous, Finish, SetPass
  <2> QED
    BY Zenon, <2>1, <2>2, AbandonFork
<1>2. CASE Crash(i)
  <2>1. \A j \in Inst \ {i} : cat'[j] = cat[j]
    BY Zenon, <1>2 DEF Crash, Inv, Types
  <2>2. \A j \in Inst \ {i} : KeptCat(j)
    BY Zenon, <2>1 DEF KeptCat
  <2>3. /\ UNCHANGED <<data, from, level, expired, events, lease>>
        /\ pass' = [pass EXCEPT ![i] = IdlePass] /\ fence' = fence \ {i}
        /\ \/ meta' = meta /\ ever' = ever
           \/ /\ pass[i].pc = "put"
              /\ meta' = meta \cup {pass[i].cur} /\ ever' = ever \cup {pass[i].cur}
    BY Zenon, <1>2 DEF Crash
  <2> QED
    BY Zenon, <2>2, <2>3, AbandonFork
<1> QED
  BY Zenon, <1>1, <1>2

-----------------------------------------------------------------------------
(* ForkInv holds initially.                                                  *)
LEMMA InitFork == Init => ForkInv
<1> SUFFICES ASSUME Init PROVE ForkInv
  OBVIOUS
<1>1. \A x \in Block : from[x] = {}
  BY Zenon DEF Init
<1>2. ever = Initial /\ Initial \subseteq Block /\ events = {} /\ lease = {} /\ expired = {}
  BY Zenon, MaintenanceAssumption DEF Init
<1>3. \A i \in Inst : pass[i] = IdlePass
  BY Zenon DEF Init
<1>4. \A i \in Inst : pass[i].pc = "idle" /\ pass[i].plan = {}
  BY <1>3 DEF IdlePass
<1>5. Replaced = {} /\ \A x \in ever : Records(x) = {x}
  BY Zenon, <1>1, <1>2 DEF Replaced, Records
<1>6. Dead = {}
  BY Zenon, <1>2, <1>5 DEF Dead, PastTtl
<1>7. Heirs /\ OneLease
  BY Zenon, <1>2, <1>5, <1>6 DEF Heirs, OneLease, Condemned
<1>8. Gone
  BY Zenon, <1>2, <1>4 DEF Gone
<1>9. Apart
  BY Zenon, <1>5 DEF Apart
<1>10. \A i \in Inst : LeaseOK(i) /\ PlanOK(i)
  BY Zenon, <1>4 DEF LeaseOK, PlanOK, Holding, Merging, Planning, Uploading
<1> QED
  BY Zenon, <1>7, <1>8, <1>9, <1>10 DEF ForkInv

(* Every step keeps ForkInv, as long as no reconcile missed a replacement.   *)
LEMMA NextFork ==
  ASSUME Inv, ForkInv, [Next]_vars, ~missed'
  PROVE  ForkInv'
<1>1. CASE UNCHANGED vars
  <2>1. UNCHANGED <<bucketVars, expired, events, leaseVars, pass, cat>>
    BY Zenon, <1>1 DEF vars, bucketVars, leaseVars
  <2>2. \A j \in Inst : KeptCat(j)
    BY Zenon, <2>1 DEF KeptCat
  <2> QED
    BY Zenon, <2>1, <2>2, CatFork
<1>2. CASE \E r \in Initial : Age(r)
  BY Zenon, <1>2, AgeFork
<1>3. CASE \E i \in Inst : GracePasses(i) \/ WalkRuns(i) \/ ConvergeStaged(i) \/ QueryRepairs(i)
  BY Zenon, <1>3, ConvergeFork
<1>4. CASE (\E i \in Inst : LoseFence(i)) \/ (\E l \in lease : ExpireLease(l))
  BY Zenon, <1>4, LeaseStepsFork
<1>5. CASE \E i \in Inst : CompactStart(i) \/ RetainStart(i)
  BY Zenon, <1>5, CompactStartFork, RetainStartFork
<1>6. CASE \E i \in Inst : PassRuns(i)
  <2>1. PICK i \in Inst : PassRuns(i)
    BY Zenon, <1>6
  <2>2. CASE ReapData(i) \/ ReapMeta(i) \/ ReapRow(i) \/ ReapFails(i)
    BY Zenon, <2>2, ReapFork
  <2>3. CASE ReapDone(i) \/ Acquire(i) \/ AcquireSkips(i)
    BY Zenon, <2>3, ReapDoneFork, AcquireFork, AcquireSkipsFork
  <2>4. CASE ReconcileList(i) \/ ReconcileDone(i)
    BY Zenon, <2>4, ReconcileListFork, ReconcileDoneFork
  <2>5. CASE ReconcileFetch(i)
    BY Zenon, <2>5, ReconcileFetchFork
  <2>6. CASE ReconcileFails(i) \/ MergeFails(i) \/ CommitAborts(i)
    BY Zenon, <2>6, GiveUpFork
  <2>7. CASE MergeRead(i) \/ CommitSend(i) \/ CommitLands(i) \/ CommitAmbiguous(i)
    BY Zenon, <2>7, MergeReadFork, CommitSendFork, CommitLandsFork, AmbiguousFork
  <2>8. CASE Publish(i) \/ RetainStage(i)
    BY Zenon, <2>8, PublishFork, RetainStageFork
  <2> QED
    BY Zenon, <2>1, <2>2, <2>3, <2>4, <2>5, <2>6, <2>7, <2>8 DEF PassRuns
<1>7. CASE \E i \in Inst : Crash(i)
  BY Zenon, <1>7, AmbiguousFork
<1>8. CASE \E i \in Inst : Consume(i)
  BY Zenon, <1>8, ConsumeFork
<1>9. CASE \E b \in Block : RegistryExpires(b)
  BY Zenon, <1>9, RegistryExpiresFork
<1> QED
  BY Zenon, <1>1, <1>2, <1>3, <1>4, <1>5, <1>6, <1>7, <1>8, <1>9 DEF Next

(* The history never forgets a missed replacement.                           *)
LEMMA MissedStays ==
  ASSUME [Next]_vars, missed
  PROVE  missed'
<1>1. CASE UNCHANGED vars
  BY Zenon, <1>1 DEF vars
<1>2. CASE \E i \in Inst : CompactStart(i) \/ RetainStart(i)
  BY Zenon, <1>2 DEF CompactStart, RetainStart, walkVars
<1>3. CASE \E i \in Inst : PassRuns(i)
  <2>1. PICK i \in Inst : PassRuns(i)
    BY Zenon, <1>3
  <2>2. CASE ReapData(i) \/ ReapMeta(i) \/ ReapRow(i) \/ ReapFails(i) \/ ReapDone(i)
    BY Zenon, <2>2 DEF ReapData, ReapMeta, ReapRow, ReapFails, ReapDone, walkVars
  <2>3. CASE \/ Acquire(i) \/ AcquireSkips(i) \/ ReconcileList(i) \/ ReconcileFetch(i)
             \/ ReconcileDone(i) \/ ReconcileFails(i)
    BY Zenon, <2>3 DEF Acquire, AcquireSkips, ReconcileList, ReconcileFetch, ReconcileDone,
       ReconcileFails, walkVars
  <2>4. CASE \/ MergeRead(i) \/ MergeFails(i) \/ CommitSend(i) \/ CommitLands(i)
             \/ CommitAborts(i) \/ CommitAmbiguous(i)
    BY Zenon, <2>4 DEF MergeRead, MergeFails, CommitSend, CommitLands, CommitAborts,
       CommitAmbiguous, walkVars
  <2>5. CASE Publish(i) \/ RetainStage(i)
    BY Zenon, <2>5 DEF Publish, RetainStage, walkVars
  <2> QED
    BY Zenon, <2>1, <2>2, <2>3, <2>4, <2>5 DEF PassRuns
<1>4. CASE \E i \in Inst : GracePasses(i) \/ WalkRuns(i) \/ ConvergeStaged(i) \/ QueryRepairs(i)
  BY Zenon, <1>4 DEF GracePasses, WalkRuns, WalkStart, WalkFetch, WalkDone, ConvergeStaged,
     QueryRepairs, RepairInsert, EvictOnNotFound, walkVars
<1>5. CASE \/ \E i \in Inst : LoseFence(i) \/ Crash(i) \/ Consume(i)
           \/ \E l \in lease : ExpireLease(l)
  BY Zenon, <1>5 DEF LoseFence, Crash, Consume, ExpireLease, walkVars
<1>6. CASE (\E r \in Initial : Age(r)) \/ (\E b \in Block : RegistryExpires(b))
  BY Zenon, <1>6 DEF Age, RegistryExpires, walkVars
<1> QED
  BY Zenon, <1>1, <1>2, <1>3, <1>4, <1>5, <1>6 DEF Next

(* As long as no leased reconcile missed a replacement whose sidecar went    *)
(* between LIST and GET, two instances never merge the same inputs twice:    *)
(* whatever leases expire and crashes happen, no unexpired record is in two  *)
(* committed blocks that no merge has replaced (cluster/src/maintain.rs,     *)
(* run_compaction_pass; the miss is at cluster/src/poll.rs 515).             *)
THEOREM NeverForked == Spec => []NoFork
<1>1. Init => missed \/ ForkInv
  BY InitFork
<1>2. Inv /\ (missed \/ ForkInv) /\ [Next]_vars => (missed \/ ForkInv)'
  <2> SUFFICES ASSUME Inv, missed \/ ForkInv, [Next]_vars, ~missed' PROVE ForkInv'
    BY Zenon
  <2>1. ~missed
    BY Zenon, MissedStays
  <2> QED
    BY Zenon, <2>1, NextFork
<1>3. missed \/ ForkInv => NoFork
  <2> SUFFICES ASSUME ~missed, ForkInv, NEW x \in ever, NEW y \in ever,
                      ~Garbage(x), ~Garbage(y), x # y
               PROVE  Records(x) \cap Records(y) \subseteq expired
    BY Zenon DEF NoFork
  <2>1. x \notin Condemned /\ y \notin Condemned
    BY Zenon DEF Garbage, Condemned, Replaced, Dead
  <2> QED
    BY Zenon, <2>1 DEF ForkInv, Apart
<1> QED
  BY <1>1, <1>2, <1>3, Invariance, PTL DEF Spec
=============================================================================
