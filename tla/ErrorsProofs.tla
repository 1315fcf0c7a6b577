---------------------------- MODULE ErrorsProofs ----------------------------
(* Every database of the error processor counts each occurrence once and can *)
(* be rebuilt from the bucket, for any blocks, rows, instances and faults.   *)
EXTENDS Errors, TLAPS, FiniteSetTheorems, WellFoundedInduction

-----------------------------------------------------------------------------
(* Least, greatest and sorted naturals.                                      *)

(* A nonempty set of naturals has a least element.                           *)
LEMMA LeastNat ==
  ASSUME NEW T, T \subseteq Nat, T # {}
  PROVE  \E m \in T : \A k \in T : m <= k
<1> DEFINE R == OpToRel(<, Nat)
<1>1. IsWellFoundedOn(R, Nat)
  BY Zenon, NatLessThanWellFounded
<1>2. \A x, y \in Nat : x < y => <<x, y>> \in R
  BY Zenon DEF OpToRel
<1> HIDE DEF R
<1>3. PICK m \in T : \A k \in T : ~(<<k, m>> \in R)
  BY Zenon, <1>1, WFMin
<1>4. \A k \in T : ~(k < m)
  BY Zenon, <1>2, <1>3
<1> QED
  BY <1>4

(* How many elements of S are smaller.                                       *)
Below(S, k) == {x \in S : x < k}

(* Larger elements have more below them.                                     *)
LEMMA BelowGrows ==
  ASSUME NEW S, S \subseteq Nat, IsFiniteSet(S), NEW k \in S
  PROVE  /\ Cardinality(Below(S, k)) \in Nat
         /\ Cardinality(Below(S, k)) < Cardinality(S)
         /\ \A y \in S : k < y => Cardinality(Below(S, k)) < Cardinality(Below(S, y))
<1>1. IsFiniteSet(Below(S, k)) /\ k \notin Below(S, k) /\ Cardinality(Below(S, k)) \in Nat
  BY FS_Subset, FS_CardinalityType DEF Below
<1>2. Cardinality(Below(S, k) \cup {k}) = Cardinality(Below(S, k)) + 1
  BY Zenon, <1>1, FS_AddElement
<1>3. ASSUME NEW T, IsFiniteSet(T), Below(S, k) \cup {k} \subseteq T
      PROVE  Cardinality(Below(S, k)) < Cardinality(T)
  <2>1. Cardinality(Below(S, k) \cup {k}) <= Cardinality(T) /\ Cardinality(T) \in Nat
    BY Zenon, <1>3, FS_Subset, FS_CardinalityType
  <2> QED
    BY <1>1, <1>2, <2>1
<1>4. Below(S, k) \cup {k} \subseteq S
  BY Zenon DEF Below
<1>5. \A y \in S : k < y => Below(S, k) \cup {k} \subseteq Below(S, y)
  <2>1. \A y, x \in S : k < y /\ (x < k \/ x = k) => x < y
    OBVIOUS
  <2> QED
    BY Zenon, <2>1 DEF Below
<1>6. \A y \in S : IsFiniteSet(Below(S, y))
  BY Zenon, FS_Subset DEF Below
<1> QED
  BY Zenon, <1>1, <1>3, <1>4, <1>5, <1>6

(* A nonempty finite set of naturals has a greatest element.                 *)
LEMMA GreatestNat ==
  ASSUME NEW S, S \subseteq Nat, IsFiniteSet(S), S # {}
  PROVE  \E m \in S : \A k \in S : k <= m
<1> DEFINE R(k) == Cardinality(Below(S, k))
           T == {Cardinality(S) - R(k) : k \in S}
<1>1. \A k \in S : R(k) \in Nat /\ R(k) < Cardinality(S)
  BY Zenon, BelowGrows
<1>2. Cardinality(S) \in Nat
  BY Zenon, FS_CardinalityType
<1>3. \A k, y \in S : k < y => R(k) < R(y)
  BY Zenon, BelowGrows
<1> HIDE DEF R
<1>4. T \subseteq Nat /\ T # {}
  <2>1. \A k \in S : Cardinality(S) - R(k) \in Nat
    BY <1>1, <1>2
  <2> QED
    BY Zenon, <2>1
<1>5. PICK d \in T : \A e \in T : d <= e
  BY Zenon, <1>4, LeastNat
<1>6. PICK m \in S : d = Cardinality(S) - R(m)
  BY Zenon
<1>7. \A k \in S : Cardinality(S) - R(m) <= Cardinality(S) - R(k)
  BY Zenon, <1>5, <1>6
<1>8. \A k \in S : ~(m < k)
  BY <1>1, <1>2, <1>3, <1>7
<1> QED
  BY <1>8

(* Max and Min are what their names say.                                     *)
LEMMA MaxIs ==
  ASSUME NEW S, S \subseteq Nat, IsFiniteSet(S), S # {}
  PROVE  Max(S) \in S /\ \A k \in S : k <= Max(S)
<1>1. PICK m \in S : \A k \in S : m >= k
  BY Zenon, GreatestNat
<1>2. Max(S) \in S /\ \A k \in S : Max(S) >= k
  BY Zenon, <1>1 DEF Max
<1> QED
  BY Zenon, <1>2

(* Likewise Min, of any nonempty set of naturals.                            *)
LEMMA MinIs ==
  ASSUME NEW S, S \subseteq Nat, S # {}
  PROVE  Min(S) \in S /\ \A k \in S : Min(S) <= k
<1>1. PICK m \in S : \A k \in S : m <= k
  BY Zenon, LeastNat
<1> QED
  BY Zenon, <1>1 DEF Min

(* Every rank below the size of a finite set of naturals is some element's.  *)
LEMMA EveryRank ==
  ASSUME NEW S, S \subseteq Nat, IsFiniteSet(S), NEW n \in 1..Cardinality(S)
  PROVE  \E k \in S : Cardinality(Below(S, k)) = n - 1
<1> DEFINE Card == Cardinality(S)
           T == {x \in 1..Card : ~ \E k \in S : Cardinality(Below(S, k)) = x - 1}
<1>0. Card \in Nat
  BY Zenon, FS_CardinalityType
<1> SUFFICES ASSUME T # {} PROVE FALSE
  BY Zenon
<1>1. T \subseteq Nat
  BY <1>0
<1>2. PICK x \in T : \A y \in T : x <= y
  BY Zenon, <1>1, LeastNat
<1>3. x \in 1..Card /\ ~ \E k \in S : Cardinality(Below(S, k)) = x - 1
  BY Zenon
<1>4. CASE x = 1
  <2>1. S # {}
    BY <1>0, <1>3, FS_EmptySet
  <2>2. PICK k \in S : \A y \in S : k <= y
    BY Zenon, <2>1, LeastNat
  <2>3. \A y \in S : ~(y < k)
    BY <2>2
  <2>4. Below(S, k) = {}
    BY Zenon, <2>3 DEF Below
  <2> QED
    BY <1>3, <1>4, <2>4, FS_EmptySet
<1>5. CASE x # 1
  <2>1. x - 1 \in 1..Card /\ ~(x <= x - 1)
    BY <1>0, <1>3, <1>5
  <2>2. PICK k \in S : Cardinality(Below(S, k)) = x - 1 - 1
    BY Zenon, <1>2, <2>1
  <2> DEFINE A == Below(S, k) \cup {k}
             Rest == S \ A
  <2>3. IsFiniteSet(Below(S, k)) /\ k \notin Below(S, k)
    BY FS_Subset DEF Below
  <2>4. Cardinality(A) = x - 1 /\ IsFiniteSet(A)
    <3>1. Cardinality(A) = Cardinality(Below(S, k)) + 1 /\ IsFiniteSet(A)
      BY Zenon, <2>3, FS_AddElement
    <3> QED
      BY <1>3, <1>0, <2>2, <3>1
  <2>5. Rest # {}
    <3>1. A \subseteq S
      BY Zenon DEF Below
    <3>2. A # S
      BY <1>0, <1>3, <2>4
    <3> QED
      BY Zenon, <3>1, <3>2
  <2>6. PICK y \in Rest : \A z \in Rest : y <= z
    BY Zenon, <2>5, LeastNat
  <2>7. y \in S /\ y # k /\ ~(y < k) /\ k \in S
    BY Zenon, <2>6 DEF Below
  <2>8. k < y
    BY <2>7
  <2>9. Below(S, y) = A
    <3>1. \A z \in S : z < y <=> z < k \/ z = k
      <4>1. \A z \in S : ~(z < k) /\ z # k => y <= z
        BY Zenon, <2>6 DEF Below
      <4> QED
        BY <2>7, <2>8, <4>1
    <3> QED
      BY Zenon, <3>1 DEF Below
  <2> QED
    BY Zenon, <1>3, <2>4, <2>7, <2>9
<1> QED
  BY Zenon, <1>4, <1>5

(* Sorted lists the elements of a finite set of naturals, each once.         *)
LEMMA SortedIs ==
  ASSUME NEW S, S \subseteq Nat, IsFiniteSet(S)
  PROVE  /\ Sorted(S) \in Seq(S) /\ Len(Sorted(S)) = Cardinality(S)
         /\ \A m, n \in DOMAIN Sorted(S) : Sorted(S)[m] = Sorted(S)[n] => m = n
<1> DEFINE Card == Cardinality(S)
           pick(n) == CHOOSE k \in S : Cardinality({x \in S : x < k}) = n - 1
<1>0. Card \in Nat
  BY Zenon, FS_CardinalityType
<1>1. \A n \in 1..Card : pick(n) \in S /\ Cardinality(Below(S, pick(n))) = n - 1
  <2> TAKE n \in 1..Card
  <2>1. \E k \in S : Cardinality({x \in S : x < k}) = n - 1
    BY Zenon, EveryRank DEF Below
  <2> QED
    BY Zenon, <2>1 DEF Below
<1>2. Sorted(S) = [n \in 1..Card |-> pick(n)]
  BY Zenon DEF Sorted
<1> HIDE DEF pick, Card
<1>3. Sorted(S) \in [1..Card -> S]
  BY Zenon, <1>1, <1>2
<1>4. Sorted(S) \in Seq(S) /\ Len(Sorted(S)) = Card /\ DOMAIN Sorted(S) = 1..Card
  BY <1>0, <1>3
<1>5. \A m, n \in 1..Card : pick(m) = pick(n) => m = n
  <2>1. \A m, n \in 1..Card : m - 1 = n - 1 => m = n
    BY <1>0
  <2> QED
    BY Zenon, <1>1, <2>1
<1>6. \A m, n \in 1..Card : Sorted(S)[m] = Sorted(S)[n] => m = n
  BY Zenon, <1>2, <1>5
<1> QED
  BY Zenon, <1>4, <1>6 DEF Card

(* The values of a function on a finite set are finitely many.               *)
LEMMA ImageFinite ==
  ASSUME NEW S, IsFiniteSet(S), NEW T, NEW f \in [S -> T]
  PROVE  IsFiniteSet(Range(f))
<1>1. f \in [S -> Range(f)] /\ \A t \in Range(f) : \E x \in S : f[x] = t
  BY Zenon DEF Range
<1>2. f \in Surjection(S, Range(f))
  BY Zenon, <1>1 DEF Surjection
<1> QED
  BY Zenon, <1>2, FS_Surjection

(* The greatest of a union is the greater of the two.                        *)
LEMMA MaxUnion ==
  ASSUME NEW S, S \subseteq Nat, IsFiniteSet(S), S # {},
         NEW T, T \subseteq Nat, IsFiniteSet(T), T # {}
  PROVE  Max(S \cup T) = IF Max(T) > Max(S) THEN Max(T) ELSE Max(S)
<1>1. IsFiniteSet(S \cup T) /\ S \cup T \subseteq Nat /\ S \cup T # {}
  BY Zenon, FS_Union
<1>2. /\ Max(S) \in S /\ \A k \in S : k <= Max(S)
      /\ Max(T) \in T /\ \A k \in T : k <= Max(T)
  BY Zenon, MaxIs
<1>3. Max(S \cup T) \in S \cup T /\ \A k \in S \cup T : k <= Max(S \cup T)
  BY Zenon, <1>1, MaxIs
<1>4. /\ Max(S) \in Nat /\ Max(T) \in Nat /\ Max(S \cup T) \in Nat
      /\ Max(S) <= Max(S \cup T) /\ Max(T) <= Max(S \cup T)
      /\ Max(S \cup T) <= Max(S) \/ Max(S \cup T) <= Max(T)
  BY Zenon, <1>1, <1>2, <1>3
<1> QED
  BY <1>4

(* Likewise the least.                                                       *)
LEMMA MinUnion ==
  ASSUME NEW S, S \subseteq Nat, S # {}, NEW T, T \subseteq Nat, T # {}
  PROVE  Min(S \cup T) = IF Min(T) < Min(S) THEN Min(T) ELSE Min(S)
<1>1. S \cup T \subseteq Nat /\ S \cup T # {}
  BY Zenon
<1>2. /\ Min(S) \in S /\ \A k \in S : Min(S) <= k
      /\ Min(T) \in T /\ \A k \in T : Min(T) <= k
  BY Zenon, MinIs
<1>3. Min(S \cup T) \in S \cup T /\ \A k \in S \cup T : Min(S \cup T) <= k
  BY Zenon, <1>1, MinIs
<1>4. /\ Min(S) \in Nat /\ Min(T) \in Nat /\ Min(S \cup T) \in Nat
      /\ Min(S \cup T) <= Min(S) /\ Min(S \cup T) <= Min(T)
      /\ Min(S) <= Min(S \cup T) \/ Min(T) <= Min(S \cup T)
  BY Zenon, <1>1, <1>2, <1>3
<1> QED
  BY <1>4

(* Max and Min of two naturals.                                              *)
LEMMA OfTwo ==
  ASSUME NEW a \in Nat, NEW b \in Nat
  PROVE  /\ Max({a, b}) = IF b > a THEN b ELSE a
         /\ Min({a, b}) = IF b < a THEN b ELSE a
<1>1. IsFiniteSet({a, b}) /\ {a, b} \subseteq Nat /\ {a, b} # {}
  <2>1. {a, b} = {a} \cup {b}
    OBVIOUS
  <2>2. IsFiniteSet({a} \cup {b})
    BY Zenon, FS_Singleton, FS_Union
  <2> QED
    BY Zenon, <2>1, <2>2
<1>2. Max({a, b}) \in {a, b} /\ \A k \in {a, b} : k <= Max({a, b})
  BY Zenon, <1>1, MaxIs
<1>3. Min({a, b}) \in {a, b} /\ \A k \in {a, b} : Min({a, b}) <= k
  BY Zenon, <1>1, MinIs
<1>4. Max({a, b}) = IF b > a THEN b ELSE a
  BY <1>2
<1>5. Min({a, b}) = IF b < a THEN b ELSE a
  BY <1>3
<1> QED
  BY Zenon, <1>4, <1>5

-----------------------------------------------------------------------------
(* One database.                                                             *)

Stat == [count : Nat, first : Nat, last : Nat, latest : Nat]

DbType ==
  [exists : BOOLEAN, commits : SUBSET Block, occ : Seq(Row), collided : SUBSET Row,
   grouped : Nat, failed : SUBSET Row, issues : [Issue -> Stat], listed : Nat,
   source : Nat]

(* fold_seq order holds one row per event.                                   *)
OneEach(occ) == \A m, n \in DOMAIN occ : occ[m].event = occ[n].event => m = n

Folded(d) == UNION {Range(RowsOf[b]) : b \in d.commits}

DbOK(d) ==
  /\ d \in DbType
  /\ OneEach(d.occ)
  /\ d.grouped <= Len(d.occ)
  /\ Folded(d) = FoldedRows(d) \cup d.collided
  /\ d.failed = {r \in GroupedRows(d) : r.issue = Unreadable}
  /\ \A s \in Issue : d.issues[s] = Summary({r \in GroupedRows(d) : r.issue = s})

Times(rows) == {r.at : r \in rows}
Newest(rows) == {r \in rows : r.at = Max(Times(rows))}

(* Finitely many occurrences have finitely many times and events.            *)
LEMMA RowsFinite ==
  ASSUME NEW A, A \subseteq Row, IsFiniteSet(A)
  PROVE  /\ Times(A) \subseteq Nat /\ IsFiniteSet(Times(A)) /\ (A # {} => Times(A) # {})
         /\ Events(A) \subseteq Nat /\ IsFiniteSet(Events(A)) /\ (A # {} => Events(A) # {})
<1>1. \A r \in A : r.at \in Nat /\ r.event \in Nat
  BY Zenon DEF Row
<1>2. IsFiniteSet(Times(A))
  <2> DEFINE f == [r \in A |-> r.at]
  <2>1. f \in [A -> Nat] /\ Range(f) = Times(A)
    BY Zenon, <1>1 DEF Range, Times
  <2> QED
    BY Zenon, <2>1, ImageFinite
<1>3. IsFiniteSet(Events(A))
  <2> DEFINE f == [r \in A |-> r.event]
  <2>1. f \in [A -> Nat] /\ Range(f) = Events(A)
    BY Zenon, <1>1 DEF Range, Events
  <2> QED
    BY Zenon, <2>1, ImageFinite
<1> QED
  BY Zenon, <1>1, <1>2, <1>3 DEF Times, Events

(* What an issue's summary says, field by field.                             *)
LEMMA SummaryIs ==
  ASSUME NEW A, A \subseteq Row, IsFiniteSet(A), A # {}
  PROVE  /\ Summary(A) = [count |-> Cardinality(A), first |-> Min(Times(A)),
                          last |-> Max(Times(A)), latest |-> Max(Events(Newest(A)))]
         /\ Newest(A) \subseteq A /\ Newest(A) # {} /\ IsFiniteSet(Newest(A))
         /\ Summary(A) \in Stat /\ Summary(A) # NoIssue
<1>1. Summary(A) = [count |-> Cardinality(A), first |-> Min(Times(A)),
                    last |-> Max(Times(A)), latest |-> Max(Events(Newest(A)))]
  BY Zenon DEF Summary, Times, Newest
<1>2. Max(Times(A)) \in Times(A) /\ Min(Times(A)) \in Times(A) /\ Times(A) \subseteq Nat
  BY Zenon, RowsFinite, MaxIs, MinIs
<1>3. Newest(A) \subseteq A /\ Newest(A) # {}
  BY Zenon, <1>2 DEF Newest, Times
<1>4. IsFiniteSet(Newest(A))
  BY Zenon, <1>3, FS_Subset
<1>5. Max(Events(Newest(A))) \in Nat
  <2>1. /\ Events(Newest(A)) \subseteq Nat /\ IsFiniteSet(Events(Newest(A)))
        /\ Events(Newest(A)) # {}
    BY Zenon, <1>3, <1>4, RowsFinite
  <2> QED
    BY Zenon, <2>1, MaxIs
<1>6. Cardinality(A) \in Nat /\ Cardinality(A) # 0
  BY Zenon, FS_CardinalityType, FS_EmptySet
<1>7. Summary(A) \in Stat
  BY <1>1, <1>2, <1>5, <1>6 DEF Stat
<1>8. Summary(A).count # 0 /\ NoIssue.count = 0
  BY <1>1, <1>6 DEF NoIssue
<1> QED
  BY Zenon, <1>1, <1>3, <1>4, <1>7, <1>8

(* upsert_issue: the summary of two disjoint sets of occurrences of an issue *)
(* is what the upsert makes of their summaries.                              *)
LEMMA UpsertIs ==
  ASSUME NEW A, A \subseteq Row, IsFiniteSet(A), A # {},
         NEW B, B \subseteq Row, IsFiniteSet(B), B # {}, A \cap B = {}
  PROVE  UpsertIssue(Summary(A), Summary(B)) = Summary(A \cup B)
<1> DEFINE C == A \cup B
           tA == Max(Times(A))
           tB == Max(Times(B))
           eA == Max(Events(Newest(A)))
           eB == Max(Events(Newest(B)))
<1>1. C \subseteq Row /\ IsFiniteSet(C) /\ C # {}
  BY Zenon, FS_Union
<1>2. /\ Times(A) \subseteq Nat /\ IsFiniteSet(Times(A)) /\ Times(A) # {}
      /\ Times(B) \subseteq Nat /\ IsFiniteSet(Times(B)) /\ Times(B) # {}
  BY Zenon, RowsFinite
<1>3. Times(C) = Times(A) \cup Times(B)
  BY Zenon DEF Times
<1>4. Cardinality(C) = Cardinality(A) + Cardinality(B)
  <2>1. Cardinality(C) = Cardinality(A) + Cardinality(B) - Cardinality({})
    BY Zenon, FS_Union
  <2>2. Cardinality(A) \in Nat /\ Cardinality(B) \in Nat /\ Cardinality({}) = 0
    BY Zenon, FS_CardinalityType, FS_EmptySet
  <2> QED
    BY <2>1, <2>2
<1>5. /\ tA \in Times(A) /\ tB \in Times(B) /\ tA \in Nat /\ tB \in Nat
      /\ \A r \in A : r.at \in Nat /\ r.at <= tA
      /\ \A r \in B : r.at \in Nat /\ r.at <= tB
  BY Zenon, <1>2, MaxIs DEF Times
<1>6. Max(Times(C)) = Max({tA, tB}) /\ Max(Times(C)) = IF tB > tA THEN tB ELSE tA
  <2>1. Max(Times(C)) = IF tB > tA THEN tB ELSE tA
    BY Zenon, <1>2, <1>3, MaxUnion
  <2>2. Max({tA, tB}) = IF tB > tA THEN tB ELSE tA
    BY Zenon, <1>5, OfTwo
  <2> HIDE DEF tA, tB, C
  <2> QED
    BY <2>1, <2>2
<1>7. Min(Times(C)) = Min({Min(Times(A)), Min(Times(B))})
  <2>1. Min(Times(A)) \in Nat /\ Min(Times(B)) \in Nat
    BY Zenon, <1>2, MinIs
  <2>2. Min(Times(C)) = IF Min(Times(B)) < Min(Times(A)) THEN Min(Times(B)) ELSE Min(Times(A))
    BY Zenon, <1>2, <1>3, MinUnion
  <2> QED
    BY Zenon, <2>1, <2>2, OfTwo
<1>8. Max(Events(Newest(C))) = IF tB > tA \/ (tB = tA /\ eB > eA) THEN eB ELSE eA
  <2>1. /\ Events(Newest(A)) \subseteq Nat /\ IsFiniteSet(Events(Newest(A)))
        /\ Events(Newest(A)) # {}
    BY Zenon, SummaryIs, RowsFinite
  <2>2. /\ Events(Newest(B)) \subseteq Nat /\ IsFiniteSet(Events(Newest(B)))
        /\ Events(Newest(B)) # {}
    BY Zenon, SummaryIs, RowsFinite
  <2>3. /\ \A r \in A : r \in Newest(A) <=> r.at = tA
        /\ \A r \in B : r \in Newest(B) <=> r.at = tB
        /\ \A r \in C : r \in Newest(C) <=> r.at = Max(Times(C))
        /\ Newest(A) \subseteq A /\ Newest(B) \subseteq B /\ Newest(C) \subseteq C
    BY Zenon DEF Newest
  <2> HIDE DEF tA, tB, eA, eB
  <2>4. CASE tB > tA
    <3>1. Max(Times(C)) = tB /\ \A r \in A : r.at # tB
      BY <1>5, <1>6, <2>4
    <3>2. Newest(C) = Newest(B)
      BY Zenon, <2>3, <3>1
    <3> QED
      BY Zenon, <2>4, <3>2 DEF eB
  <2>5. CASE tB = tA
    <3>1. Max(Times(C)) = tA
      BY Zenon, <1>5, <1>6, <2>5
    <3>2. Newest(C) = Newest(A) \cup Newest(B)
      BY Zenon, <2>3, <2>5, <3>1
    <3>3. Events(Newest(C)) = Events(Newest(A)) \cup Events(Newest(B))
      BY Zenon, <3>2 DEF Events
    <3>4. Max(Events(Newest(C))) = IF eB > eA THEN eB ELSE eA
      BY Zenon, <2>1, <2>2, <3>3, MaxUnion DEF eA, eB
    <3> QED
      BY <1>5, <2>5, <3>4
  <2>6. CASE tB < tA
    <3>1. Max(Times(C)) = tA /\ \A r \in B : r.at # tA
      BY <1>5, <1>6, <2>6
    <3>2. Newest(C) = Newest(A)
      BY Zenon, <2>3, <3>1
    <3>3. Max(Events(Newest(C))) = eA
      BY Zenon, <3>2 DEF eA
    <3> QED
      BY <1>5, <2>6, <3>3
  <2> QED
    BY <1>5, <2>4, <2>5, <2>6
<1>9. /\ Summary(A) = [count |-> Cardinality(A), first |-> Min(Times(A)), last |-> tA, latest |-> eA]
      /\ Summary(B) = [count |-> Cardinality(B), first |-> Min(Times(B)), last |-> tB, latest |-> eB]
      /\ Summary(C) = [count |-> Cardinality(C), first |-> Min(Times(C)), last |-> Max(Times(C)),
                       latest |-> Max(Events(Newest(C)))]
  BY Zenon, <1>1, SummaryIs
<1> HIDE DEF C, tA, tB, eA, eB
<1>10. UpsertIssue(Summary(A), Summary(B)) = Summary(C)
  BY <1>4, <1>6, <1>7, <1>8, <1>9 DEF UpsertIssue
<1> QED
  BY Zenon, <1>10 DEF C

(* A stretch of a sequence, as a set.                                        *)
LEMMA RangeOf ==
  ASSUME NEW s \in Seq(Row), NEW a \in Nat \ {0}, NEW e \in Nat, e <= Len(s), a <= e + 1
  PROVE  /\ Range(SubSeq(s, a, e)) = {s[n] : n \in a..e}
         /\ {s[n] : n \in a..e} \subseteq Row
         /\ IsFiniteSet({s[n] : n \in a..e})
<1> DEFINE q == SubSeq(s, a, e)
<1>1. /\ DOMAIN q = 1..(e - a + 1)
      /\ \A k \in 1..(e - a + 1) : q[k] = s[k + a - 1]
  OBVIOUS
<1>2. /\ \A n \in a..e : n - a + 1 \in 1..(e - a + 1) /\ q[n - a + 1] = s[n]
      /\ \A k \in 1..(e - a + 1) : k + a - 1 \in a..e
  <2>1. \A n \in a..e : n - a + 1 \in 1..(e - a + 1) /\ (n - a + 1) + a - 1 = n
    OBVIOUS
  <2>2. \A k \in 1..(e - a + 1) : k + a - 1 \in a..e
    OBVIOUS
  <2>3. \A n \in a..e : q[n - a + 1] = s[(n - a + 1) + a - 1]
    BY Zenon, <1>1, <2>1
  <2> HIDE DEF q
  <2> QED
    BY Zenon, <2>1, <2>2, <2>3
<1> HIDE DEF q
<1>3. Range(q) = {s[n] : n \in a..e}
  <2>1. \A n \in a..e : \E k \in DOMAIN q : q[k] = s[n]
    BY Zenon, <1>1, <1>2
  <2>2. \A k \in DOMAIN q : \E n \in a..e : q[k] = s[n]
    BY Zenon, <1>1, <1>2
  <2>3. \A x : x \in Range(q) <=> x \in {s[n] : n \in a..e}
    BY <2>1, <2>2 DEF Range
  <2> QED
    BY Zenon, <2>3
<1>4. \A n \in a..e : s[n] \in Row
  OBVIOUS
<1>5. IsFiniteSet({s[n] : n \in a..e})
  <2> DEFINE f == [n \in a..e |-> s[n]]
  <2>1. f \in [a..e -> Row] /\ Range(f) = {s[n] : n \in a..e}
    BY Zenon, <1>4 DEF Range
  <2>2. IsFiniteSet(a..e)
    BY FS_Interval
  <2> HIDE DEF f
  <2>3. IsFiniteSet(Range(f))
    BY Zenon, <2>1, <2>2, ImageFinite
  <2> QED
    BY Zenon, <2>1, <2>3
<1> QED
  BY Zenon, <1>3, <1>4, <1>5 DEF q

(* RowsAt lists the rows at its positions, each position once.               *)
LEMMA RowsAtIs ==
  ASSUME NEW rows \in Seq(Row), NEW S, S \subseteq DOMAIN rows
  PROVE  /\ RowsAt(rows, S) \in Seq(Row)
         /\ \A k \in DOMAIN RowsAt(rows, S) :
              Sorted(S)[k] \in S /\ RowsAt(rows, S)[k] = rows[Sorted(S)[k]]
         /\ \A k, l \in DOMAIN RowsAt(rows, S) : Sorted(S)[k] = Sorted(S)[l] => k = l
<1>1. DOMAIN rows \subseteq Nat /\ IsFiniteSet(DOMAIN rows)
  BY FS_Interval
<1>2. S \subseteq Nat /\ IsFiniteSet(S)
  BY Zenon, <1>1, FS_Subset
<1> DEFINE at == Sorted(S)
<1>3. at \in Seq(S) /\ \A k, l \in DOMAIN at : at[k] = at[l] => k = l
  BY Zenon, <1>2, SortedIs
<1>4. RowsAt(rows, S) = [k \in DOMAIN at |-> rows[at[k]]]
  BY Zenon DEF RowsAt
<1> HIDE DEF at
<1>5. DOMAIN at = 1..Len(at) /\ Len(at) \in Nat /\ \A k \in DOMAIN at : at[k] \in S
  BY <1>3
<1>6. \A x \in S : rows[x] \in Row
  OBVIOUS
<1>7. RowsAt(rows, S) \in [1..Len(at) -> Row]
  BY Zenon, <1>4, <1>5, <1>6
<1>8. RowsAt(rows, S) \in Seq(Row)
  BY <1>5, <1>7
<1> QED
  BY Zenon, <1>3, <1>4, <1>5, <1>8 DEF at

(* A database is good as far as its own fields go.                           *)
LEMMA SameRows ==
  ASSUME NEW d, DbOK(d), NEW e \in DbType,
         e.commits = d.commits, e.occ = d.occ, e.collided = d.collided,
         e.grouped = d.grouped, e.failed = d.failed, e.issues = d.issues
  PROVE  DbOK(e)
BY Zenon DEF DbOK, Folded, FoldedRows, GroupedRows

(* A new database.                                                           *)
LEMMA NoDbOK == DbOK(NoDb)
<1>1. /\ NoDb \in DbType /\ NoDb.commits = {} /\ NoDb.occ = <<>> /\ NoDb.collided = {}
      /\ NoDb.grouped = 0 /\ NoDb.failed = {} /\ NoDb.issues = [s \in Issue |-> NoIssue]
  BY DEF NoDb, DbType, Stat, NoIssue
<1>2. /\ Folded(NoDb) = {} /\ FoldedRows(NoDb) = {} /\ GroupedRows(NoDb) = {}
      /\ OneEach(NoDb.occ) /\ Len(NoDb.occ) = 0
  BY <1>1 DEF Folded, FoldedRows, GroupedRows, Range, OneEach
<1>3. Summary({}) = NoIssue
  BY Zenon DEF Summary
<1>4. \A s \in Issue : {r \in {} : r.issue = s} = {}
  OBVIOUS
<1>5. \A s \in Issue : NoDb.issues[s] = Summary({r \in GroupedRows(NoDb) : r.issue = s})
  BY Zenon, <1>1, <1>2, <1>3, <1>4
<1> QED
  BY <1>1, <1>2, <1>5 DEF DbOK

(* fold_committed inserts no event twice and accounts for every row.         *)
LEMMA FoldOK ==
  ASSUME NEW d, DbOK(d), NEW b \in Block
  PROVE  DbOK(FoldCommitted(d, b)) /\ FoldCommitted(d, b).commits = d.commits \cup {b}
<1> DEFINE rows == RowsOf[b]
           S   == Inserted(d, b)
           new == RowsAt(rows, S)
           occ == d.occ \o new
           e   == FoldCommitted(d, b)
<1>1. rows \in Seq(Row) /\ d \in DbType /\ d.occ \in Seq(Row)
  BY Zenon, ErrorsAssumption DEF DbOK, DbType
<1>2. /\ S \subseteq DOMAIN rows
      /\ \A n \in S : /\ rows[n].event \notin Events(Range(d.occ))
                      /\ \A m \in 1..(n - 1) : rows[m].event # rows[n].event
  BY Zenon DEF Inserted
<1> HIDE DEF S
<1>3. /\ new \in Seq(Row)
      /\ \A k \in DOMAIN new : Sorted(S)[k] \in S /\ new[k] = rows[Sorted(S)[k]]
      /\ \A k, l \in DOMAIN new : Sorted(S)[k] = Sorted(S)[l] => k = l
  BY Zenon, <1>1, <1>2, RowsAtIs
<1>4. e = [d EXCEPT !.commits = d.commits \cup {b}, !.occ = occ,
                    !.collided = d.collided \cup (Range(rows) \ Range(occ))]
  BY Zenon DEF FoldCommitted, S
<1> HIDE DEF new, rows, e
<1>5. /\ occ \in Seq(Row) /\ Len(occ) = Len(d.occ) + Len(new)
      /\ \A n \in 1..Len(d.occ) : n \in DOMAIN occ /\ occ[n] = d.occ[n]
      /\ \A n \in DOMAIN occ : n \notin 1..Len(d.occ) =>
           n - Len(d.occ) \in DOMAIN new /\ occ[n] = new[n - Len(d.occ)]
      /\ \A k \in DOMAIN new : Len(d.occ) + k \in DOMAIN occ /\ occ[Len(d.occ) + k] = new[k]
      /\ DOMAIN d.occ = 1..Len(d.occ) /\ DOMAIN occ = 1..Len(occ)
      /\ Len(d.occ) \in Nat /\ Len(new) \in Nat /\ DOMAIN new = 1..Len(new)
  BY <1>1, <1>3
<1> HIDE DEF occ
<1>6. Range(rows) \subseteq Row /\ b \in Block
  BY <1>1 DEF Range
<1>7. /\ e \in DbType /\ e.commits = d.commits \cup {b} /\ e.occ = occ
      /\ e.collided = d.collided \cup (Range(rows) \ Range(occ))
      /\ e.grouped = d.grouped /\ e.failed = d.failed /\ e.issues = d.issues
  BY Zenon, <1>1, <1>4, <1>5, <1>6 DEF DbType
<1>8. OneEach(occ)
  <2>1. \A k \in DOMAIN new : \A m \in 1..Len(d.occ) : new[k].event # d.occ[m].event
    <3>1. \A m \in 1..Len(d.occ) : d.occ[m].event \in Events(Range(d.occ))
      BY Zenon, <1>5 DEF Events, Range
    <3>2. \A k \in DOMAIN new : new[k].event \notin Events(Range(d.occ))
      BY Zenon, <1>2, <1>3
    <3> QED
      BY Zenon, <3>1, <3>2
  <2>2. \A k, l \in DOMAIN new : new[k].event = new[l].event => k = l
    <3> SUFFICES ASSUME NEW k \in DOMAIN new, NEW l \in DOMAIN new,
                        new[k].event = new[l].event
                 PROVE  Sorted(S)[k] = Sorted(S)[l]
      BY Zenon, <1>3
    <3> DEFINE x == Sorted(S)[k]
               y == Sorted(S)[l]
    <3>1. x \in S /\ y \in S /\ rows[x].event = rows[y].event
      BY Zenon, <1>3
    <3>2. x \in Nat \ {0} /\ y \in Nat \ {0}
      BY <1>1, <1>2, <3>1
    <3>3. x \notin 1..(y - 1) /\ y \notin 1..(x - 1)
      BY Zenon, <1>2, <3>1
    <3> HIDE DEF x, y
    <3>4. x = y
      BY <3>2, <3>3
    <3> QED
      BY Zenon, <3>4 DEF x, y
  <2>3. \A m, n \in 1..Len(d.occ) : d.occ[m].event = d.occ[n].event => m = n
    BY Zenon, <1>5 DEF DbOK, OneEach
  <2> SUFFICES ASSUME NEW m \in DOMAIN occ, NEW n \in DOMAIN occ, occ[m].event = occ[n].event
               PROVE  m = n
    BY Zenon DEF OneEach
  <2>4. CASE m \in 1..Len(d.occ) /\ n \in 1..Len(d.occ)
    BY Zenon, <1>5, <2>3, <2>4
  <2>5. CASE m \in 1..Len(d.occ) /\ n \notin 1..Len(d.occ)
    BY <1>5, <2>1, <2>5
  <2>6. CASE m \notin 1..Len(d.occ) /\ n \in 1..Len(d.occ)
    <3>1. occ[n] = d.occ[n]
      BY Zenon, <1>5, <2>6
    <3>2. \E k \in DOMAIN new : occ[m] = new[k]
      BY Zenon, <1>5, <2>6
    <3> QED
      BY Zenon, <2>1, <2>6, <3>1, <3>2
  <2>7. CASE m \notin 1..Len(d.occ) /\ n \notin 1..Len(d.occ)
    <3>1. m - Len(d.occ) = n - Len(d.occ)
      BY <1>5, <2>2, <2>7
    <3> QED
      BY <1>5, <3>1
  <2> QED
    BY Zenon, <2>4, <2>5, <2>6, <2>7
<1>9. Folded(e) = FoldedRows(e) \cup e.collided
  <2>1. Folded(e) = Folded(d) \cup Range(rows)
    <3>1. \A x : x \in Folded(e) <=> x \in Folded(d) \/ x \in Range(rows)
      BY Zenon, <1>7 DEF Folded, rows
    <3> QED
      BY Zenon, <3>1
  <2>2. Range(d.occ) \subseteq Range(occ) /\ Range(occ) \subseteq Range(d.occ) \cup Range(rows)
    <3>1. Range(d.occ) \subseteq Range(occ)
      BY Zenon, <1>5 DEF Range
    <3>2. \A k \in DOMAIN new : new[k] \in Range(rows)
      BY Zenon, <1>2, <1>3 DEF Range
    <3>3. \A n \in DOMAIN occ : occ[n] \in Range(d.occ) \cup Range(rows)
      BY Zenon, <1>5, <3>2 DEF Range
    <3> QED
      BY Zenon, <3>1, <3>3 DEF Range
  <2>3. Folded(d) = Range(d.occ) \cup d.collided
    BY Zenon DEF DbOK, FoldedRows
  <2> QED
    BY Zenon, <1>7, <2>1, <2>2, <2>3 DEF FoldedRows
<1>10. e.grouped <= Len(e.occ) /\ GroupedRows(e) = GroupedRows(d)
  <2>1. d.grouped \in Nat /\ d.grouped <= Len(d.occ)
    BY Zenon DEF DbOK, DbType
  <2>2. d.grouped <= Len(occ) /\ 1 <= d.grouped + 1
    BY <1>5, <2>1
  <2>3. /\ Range(SubSeq(d.occ, 1, d.grouped)) = {d.occ[n] : n \in 1..d.grouped}
        /\ Range(SubSeq(occ, 1, d.grouped)) = {occ[n] : n \in 1..d.grouped}
    <3>1. 1 \in Nat \ {0}
      OBVIOUS
    <3> QED
      BY Zenon, <1>1, <1>5, <2>1, <2>2, <3>1, RangeOf
  <2>4. \A n \in 1..d.grouped : occ[n] = d.occ[n]
    <3>1. \A n \in 1..d.grouped : n \in 1..Len(d.occ)
      BY <1>5, <2>1
    <3> QED
      BY Zenon, <1>5, <3>1
  <2>5. {d.occ[n] : n \in 1..d.grouped} = {occ[n] : n \in 1..d.grouped}
    BY Zenon, <2>4
  <2> QED
    BY Zenon, <1>7, <2>2, <2>3, <2>5 DEF GroupedRows
<1> QED
  BY Zenon, <1>7, <1>8, <1>9, <1>10 DEF DbOK, e

(* group_page adds a page to the summaries and the failures.                 *)
LEMMA GroupOK ==
  ASSUME NEW d, DbOK(d), world.page_rows \in Nat
  PROVE  DbOK(GroupPageOf(d)) /\ GroupPageOf(d).commits = d.commits
<1> DEFINE e == GroupPageOf(d)
           last == PageEnd(d)
           rows == {d.occ[n] : n \in (d.grouped + 1)..last}
           old  == {d.occ[n] : n \in 1..d.grouped}
           Of(R, s) == {r \in R : r.issue = s}
           Upserted(s) == IF Summary(Of(rows, s)) = NoIssue THEN d.issues[s]
                          ELSE IF d.issues[s] = NoIssue THEN Summary(Of(rows, s))
                          ELSE UpsertIssue(d.issues[s], Summary(Of(rows, s)))
<1>1. /\ d \in DbType /\ d.occ \in Seq(Row) /\ d.grouped \in Nat /\ d.grouped <= Len(d.occ)
      /\ OneEach(d.occ) /\ Len(d.occ) \in Nat
  BY DEF DbOK, DbType
<1>2. last \in Nat /\ d.grouped <= last /\ last <= Len(d.occ)
  <2>1. d.grouped + world.page_rows \in Nat
    BY <1>1
  <2>2. last = IF Len(d.occ) < d.grouped + world.page_rows THEN Len(d.occ)
               ELSE d.grouped + world.page_rows
    BY Zenon, <1>1, <2>1, OfTwo DEF PageEnd
  <2> QED
    BY <1>1, <2>2
<1> HIDE DEF last
<1>3. /\ 1 \in Nat \ {0} /\ d.grouped + 1 \in Nat \ {0} /\ 1 <= d.grouped + 1
      /\ 1 <= last + 1 /\ d.grouped + 1 <= last + 1
  BY <1>1, <1>2
<1>4. /\ Range(SubSeq(d.occ, d.grouped + 1, last)) = rows /\ rows \subseteq Row
      /\ IsFiniteSet(rows)
  BY Zenon, <1>1, <1>2, <1>3, RangeOf
<1>5. /\ Range(SubSeq(d.occ, 1, d.grouped)) = old /\ old \subseteq Row /\ IsFiniteSet(old)
  BY Zenon, <1>1, <1>2, <1>3, RangeOf
<1>6. Range(SubSeq(d.occ, 1, last)) = old \cup rows
  <2>1. Range(SubSeq(d.occ, 1, last)) = {d.occ[n] : n \in 1..last}
    BY Zenon, <1>1, <1>2, <1>3, RangeOf
  <2>2. 1..last = (1..d.grouped) \cup ((d.grouped + 1)..last)
    BY <1>1, <1>2
  <2> QED
    BY Zenon, <2>1, <2>2
<1>7. old \cap rows = {}
  <2>1. \A m \in 1..d.grouped, n \in (d.grouped + 1)..last :
          m \in DOMAIN d.occ /\ n \in DOMAIN d.occ /\ m # n
    BY <1>1, <1>2
  <2> QED
    BY Zenon, <1>1, <2>1 DEF OneEach
<1> HIDE DEF rows, old
<1>8. e = [d EXCEPT !.grouped = last,
                    !.failed = d.failed \cup Of(rows, Unreadable),
                    !.issues = [s \in Issue |-> Upserted(s)]]
  BY Zenon, <1>4 DEF GroupPageOf, last
<1>9. /\ GroupedRows(d) = old /\ d.failed = Of(old, Unreadable)
      /\ \A s \in Issue : d.issues[s] = Summary(Of(old, s))
  BY Zenon, <1>5 DEF DbOK, GroupedRows
<1>10. ASSUME NEW s \in Issue
       PROVE  Upserted(s) = Summary(Of(old \cup rows, s)) /\ Upserted(s) \in Stat
  <2> DEFINE A == Of(old, s)
             B == Of(rows, s)
  <2>1. /\ A \subseteq Row /\ IsFiniteSet(A) /\ B \subseteq Row /\ IsFiniteSet(B)
        /\ A \cap B = {} /\ Of(old \cup rows, s) = A \cup B
    <3>1. A \subseteq old /\ B \subseteq rows /\ Of(old \cup rows, s) = A \cup B
      BY Zenon
    <3> HIDE DEF A, B
    <3>2. IsFiniteSet(A) /\ IsFiniteSet(B)
      BY ZenonT(60), <1>4, <1>5, <3>1, FS_Subset
    <3> QED
      BY Zenon, <1>4, <1>5, <1>7, <3>1, <3>2
  <2>2. d.issues[s] = Summary(A) /\ d.issues[s] \in Stat
    BY Zenon, <1>1, <1>9 DEF DbType
  <2>3. Upserted(s) = IF Summary(B) = NoIssue THEN Summary(A)
                      ELSE IF Summary(A) = NoIssue THEN Summary(B)
                      ELSE UpsertIssue(Summary(A), Summary(B))
    BY Zenon, <2>2
  <2> HIDE DEF A, B, Upserted
  <2>4. Summary({}) = NoIssue
    BY Zenon DEF Summary
  <2>5. CASE B = {}
    BY Zenon, <2>1, <2>2, <2>3, <2>4, <2>5
  <2>6. CASE B # {} /\ A = {}
    <3>1. Summary(B) # NoIssue /\ Summary(B) \in Stat
      BY Zenon, <2>1, <2>6, SummaryIs
    <3>2. A \cup B = B
      BY Zenon, <2>6
    <3> QED
      BY Zenon, <2>1, <2>3, <2>4, <2>6, <3>1, <3>2
  <2>7. CASE B # {} /\ A # {}
    <3>1. Summary(A) # NoIssue /\ Summary(B) # NoIssue
      BY Zenon, <2>1, <2>7, SummaryIs
    <3>2. UpsertIssue(Summary(A), Summary(B)) = Summary(A \cup B)
      BY Zenon, <2>1, <2>7, UpsertIs
    <3>3. Summary(A \cup B) \in Stat
      <4>1. A \cup B \subseteq Row /\ IsFiniteSet(A \cup B) /\ A \cup B # {}
        BY Zenon, <2>1, <2>7, FS_Union
      <4> QED
        BY Zenon, <4>1, SummaryIs
    <3> QED
      BY Zenon, <2>1, <2>3, <3>1, <3>2, <3>3
  <2> QED
    BY Zenon, <2>5, <2>6, <2>7
<1>11. Of(rows, Unreadable) \subseteq Row /\ [s \in Issue |-> Upserted(s)] \in [Issue -> Stat]
  BY Zenon, <1>4, <1>10
<1> DEFINE iss == [s \in Issue |-> Upserted(s)]
           bad == Of(rows, Unreadable)
<1>12. \A s \in Issue : iss[s] = Summary(Of(old \cup rows, s))
  BY Zenon, <1>10
<1>13. d.failed \cup bad = Of(old \cup rows, Unreadable)
  BY Zenon, <1>9
<1>14. bad \subseteq Row /\ iss \in [Issue -> Stat]
  BY Zenon, <1>11
<1>15. e = [d EXCEPT !.grouped = last, !.failed = d.failed \cup bad, !.issues = iss]
  BY Zenon, <1>8
<1> HIDE DEF iss, bad, Upserted, e
<1>16. /\ e \in DbType /\ e.commits = d.commits /\ e.occ = d.occ /\ e.collided = d.collided
       /\ e.grouped = last /\ e.failed = d.failed \cup bad /\ e.issues = iss
  BY Zenon, <1>1, <1>2, <1>14, <1>15 DEF DbType
<1>17. GroupedRows(e) = old \cup rows
  BY Zenon, <1>6, <1>16 DEF GroupedRows
<1>18. Folded(e) = FoldedRows(e) \cup e.collided
  BY Zenon, <1>16 DEF DbOK, Folded, FoldedRows
<1> QED
  BY Zenon, <1>1, <1>2, <1>12, <1>13, <1>16, <1>17, <1>18 DEF DbOK, e

-----------------------------------------------------------------------------
(* The inductive invariant.                                                  *)

PassType ==
  [pc : Working \cup {"idle", "snap", "upload"}, page : Seq(Block), last : Nat,
   wrap : BOOLEAN, blocks : Seq(Block), dirty : BOOLEAN]

(* A good database has folded only what the markers ms name.                 *)
GoodDb(d, ms) == DbOK(d) /\ d.commits \subseteq ms

(* What a pass has established by the step it is at: the page it folds has   *)
(* markers, the block it works on has its data object before its marker and  *)
(* its marker before its fold.                                               *)
GoodPass(p, ms, ds) ==
  /\ p \in PassType
  /\ p.pc = "fold" => \A n \in DOMAIN p.page : p.page[n] \in ms
  /\ p.pc \in {"block", "data", "marker", "verify"} => p.blocks # <<>>
  /\ p.pc = "marker" => Head(p.blocks) \in ds
  /\ p.pc = "verify" => Head(p.blocks) \in ms

SourcesOK ==
  /\ world \in Scenarios
  /\ coming \subseteq world.coming
  /\ live \subseteq Block

BucketOK == markers \subseteq data /\ data \subseteq Block

ErrInv ==
  /\ SourcesOK
  /\ BucketOK
  /\ db \in [Inst -> DbType] /\ \A i \in Inst : GoodDb(db[i], markers)
  /\ GoodDb(snapshot, markers) /\ GoodDb(late, markers)
  /\ pass \in [Inst -> PassType] /\ \A i \in Inst : GoodPass(pass[i], markers, data)

(* More objects in the bucket harm neither databases nor passes.             *)
LEMMA GoodGrows ==
  ASSUME NEW ms, NEW ds, NEW ms2, NEW ds2, ms \subseteq ms2, ds \subseteq ds2
  PROVE  /\ \A d : GoodDb(d, ms) => GoodDb(d, ms2)
         /\ \A p : GoodPass(p, ms, ds) => GoodPass(p, ms2, ds2)
BY Zenon DEF GoodDb, GoodPass

(* A step of instance i keeps the invariant if what it leaves behind is good.*)
LEMMA Keeps ==
  ASSUME ErrInv, NEW i \in Inst, SourcesOK',
         markers \subseteq markers', data \subseteq data', BucketOK',
         db' = db \/ \E d : db' = [db EXCEPT ![i] = d] /\ GoodDb(d, markers'),
         pass' = pass \/ \E p : pass' = [pass EXCEPT ![i] = p] /\ GoodPass(p, markers', data'),
         GoodDb(snapshot', markers'), GoodDb(late', markers')
  PROVE  ErrInv'
<1>1. /\ db \in [Inst -> DbType] /\ \A j \in Inst : GoodDb(db[j], markers')
      /\ pass \in [Inst -> PassType] /\ \A j \in Inst : GoodPass(pass[j], markers', data')
  BY Zenon, GoodGrows DEF ErrInv
<1>2. db' \in [Inst -> DbType] /\ \A j \in Inst : GoodDb(db'[j], markers')
  <2>1. CASE db' = db
    BY Zenon, <1>1, <2>1
  <2>2. ASSUME NEW d, db' = [db EXCEPT ![i] = d], GoodDb(d, markers')
        PROVE  <1>2
    <3>1. d \in DbType
      BY Zenon, <2>2 DEF GoodDb, DbOK
    <3>2. \A j \in Inst : db'[j] = IF j = i THEN d ELSE db[j]
      BY Zenon, <1>1, <2>2
    <3> QED
      BY Zenon, <1>1, <2>2, <3>1, <3>2
  <2> QED
    BY Zenon, <2>1, <2>2
<1>3. pass' \in [Inst -> PassType] /\ \A j \in Inst : GoodPass(pass'[j], markers', data')
  <2>1. CASE pass' = pass
    BY Zenon, <1>1, <2>1
  <2>2. ASSUME NEW p, pass' = [pass EXCEPT ![i] = p], GoodPass(p, markers', data')
        PROVE  <1>3
    <3>1. p \in PassType
      BY Zenon, <2>2 DEF GoodPass
    <3>2. \A j \in Inst : pass'[j] = IF j = i THEN p ELSE pass[j]
      BY Zenon, <1>1, <2>2
    <3> QED
      BY Zenon, <1>1, <2>2, <3>1, <3>2
  <2> QED
    BY Zenon, <2>1, <2>2
<1> QED
  BY Zenon, <1>2, <1>3 DEF ErrInv

(* Most steps of a worker leave sources, bucket and snapshot alone.          *)
LEMMA WorkerKeeps ==
  ASSUME ErrInv, NEW i \in Inst, UNCHANGED <<sources, bucket>>,
         db' = db \/ \E d : db' = [db EXCEPT ![i] = d] /\ GoodDb(d, markers),
         pass' = pass \/ \E p : pass' = [pass EXCEPT ![i] = p] /\ GoodPass(p, markers, data),
         GoodDb(snapshot', markers), GoodDb(late', markers)
  PROVE  ErrInv'
<1>1. world' = world /\ coming' = coming /\ live' = live /\ markers' = markers /\ data' = data
  BY Zenon DEF sources, bucket
<1>2. SourcesOK' /\ BucketOK'
  BY Zenon, <1>1 DEF ErrInv, SourcesOK, BucketOK
<1>3. db' = db \/ \E d : db' = [db EXCEPT ![i] = d] /\ GoodDb(d, markers')
  BY Zenon, <1>1
<1>4. pass' = pass \/ \E p : pass' = [pass EXCEPT ![i] = p] /\ GoodPass(p, markers', data')
  BY Zenon, <1>1
<1>5. GoodDb(snapshot', markers') /\ GoodDb(late', markers')
  BY Zenon, <1>1
<1>6. markers \subseteq markers' /\ data \subseteq data'
  BY Zenon, <1>1
<1> QED
  BY Zenon, <1>2, <1>3, <1>4, <1>5, <1>6, Keeps

(* Passes that have established nothing yet.                                 *)
LEMMA FreshPass ==
  /\ IdlePass \in PassType
  /\ \A ms, ds : /\ GoodPass(IdlePass, ms, ds)
                 /\ GoodPass([IdlePass EXCEPT !.pc = "list"], ms, ds)
                 /\ GoodPass([IdlePass EXCEPT !.pc = "upload"], ms, ds)
<1> DEFINE L == [IdlePass EXCEPT !.pc = "list"]
           U == [IdlePass EXCEPT !.pc = "upload"]
<1>1. /\ IdlePass \in PassType /\ L \in PassType /\ U \in PassType
      /\ IdlePass.pc = "idle" /\ L.pc = "list" /\ U.pc = "upload"
  <2>1. <<>> \in Seq(Block)
    OBVIOUS
  <2>2. IdlePass \in PassType /\ IdlePass.pc = "idle"
    BY Zenon, <2>1 DEF PassType, IdlePass
  <2>3. L \in PassType /\ U \in PassType /\ L.pc = "list" /\ U.pc = "upload"
    BY Zenon, <2>2 DEF PassType, Working
  <2> QED
    BY Zenon, <2>2, <2>3
<1> HIDE DEF L, U
<1>2. \A p \in {IdlePass, L, U} :
        /\ p.pc # "fold" /\ p.pc \notin {"block", "data", "marker", "verify"}
        /\ p.pc # "marker" /\ p.pc # "verify"
  BY Zenon, <1>1
<1>3. \A ms, ds : \A p \in {IdlePass, L, U} : GoodPass(p, ms, ds)
  BY Zenon, <1>1, <1>2 DEF GoodPass
<1> QED
  BY Zenon, <1>1, <1>3 DEF L, U

(* Opening a database and moving a cursor change no row.                     *)
LEMMA CursorOK ==
  ASSUME NEW d, NEW ms, GoodDb(d, ms), NEW n \in Nat
  PROVE  /\ GoodDb(Opened(d), ms)
         /\ GoodDb([d EXCEPT !.listed = n], ms)
         /\ GoodDb([d EXCEPT !.source = n], ms)
<1>1. d \in DbType /\ DbOK(d) /\ d.commits \subseteq ms
  BY Zenon DEF GoodDb, DbOK
<1>2. ASSUME NEW e \in {Opened(d), [d EXCEPT !.listed = n], [d EXCEPT !.source = n]}
      PROVE  GoodDb(e, ms)
  <2>1. /\ e \in DbType /\ e.commits = d.commits /\ e.occ = d.occ
        /\ e.collided = d.collided /\ e.grouped = d.grouped /\ e.failed = d.failed
        /\ e.issues = d.issues
    BY Zenon, <1>1, <1>2 DEF DbType, Opened
  <2> QED
    BY Zenon, <1>1, <2>1, SameRows DEF GoodDb
<1> QED
  BY Zenon, <1>2

(* A sequence over a set is one over any larger set.                         *)
LEMMA SeqWider ==
  ASSUME NEW S, NEW T, S \subseteq T, NEW q \in Seq(S)
  PROVE  q \in Seq(T)
<1>1. Len(q) \in Nat /\ DOMAIN q = 1..Len(q) /\ q = [n \in 1..Len(q) |-> q[n]]
  OBVIOUS
<1>2. \A n \in 1..Len(q) : q[n] \in T
  OBVIOUS
<1>3. q \in [1..Len(q) -> T]
  BY Zenon, <1>1, <1>2
<1> QED
  BY <1>1, <1>3

(* The pages a pass works through: sources from the catalog, ...             *)
LEMMA SourcePageOK ==
  ASSUME SourcesOK, NEW after
  PROVE  SourcePage(after) \in Seq(Block)
<1> DEFINE rest == {b \in live : b > after}
           S == IF rest = {} THEN live ELSE rest
           n == IF Len(Sorted(S)) < world.max_blocks THEN Len(Sorted(S)) ELSE world.max_blocks
<1>1. S \subseteq Block /\ S \subseteq Nat /\ IsFiniteSet(S)
  <2>1. S \subseteq Block
    BY Zenon DEF SourcesOK
  <2> HIDE DEF S
  <2> QED
    BY Zenon, <2>1, ErrorsAssumption, FS_Subset
<1>2. SourcePage(after) = SubSeq(Sorted(S), 1, n)
  BY Zenon DEF SourcePage, FirstOf
<1> HIDE DEF S
<1>3. Sorted(S) \in Seq(S)
  BY Zenon, <1>1, SortedIs
<1>4. world.max_blocks \in Nat
  BY Zenon, ErrorsAssumption DEF SourcesOK
<1>5. Sorted(S) \in Seq(Block)
  BY Zenon, <1>1, <1>3, SeqWider
<1> QED
  BY <1>2, <1>4, <1>5

(* ... and the listed markers.                                               *)
LEMMA KeysAre ==
  ASSUME BucketOK
  PROVE  /\ Keys \subseteq Nat /\ IsFiniteSet(Keys)
         /\ \A k \in Keys : IsMarker(k) => k \div 2 \in markers
<1>1. markers \subseteq Block /\ data \subseteq Block /\ Block \subseteq Nat
  BY Zenon, ErrorsAssumption DEF BucketOK
<1>2. IsFiniteSet(markers) /\ IsFiniteSet(data)
  BY Zenon, <1>1, ErrorsAssumption, FS_Subset
<1> DEFINE f == [b \in markers |-> MarkerKey(b)]
           g == [b \in data |-> DataKey(b)]
<1>3. \A b \in Nat : /\ MarkerKey(b) \in Nat /\ MarkerKey(b) \div 2 = b
                     /\ DataKey(b) \in Nat /\ DataKey(b) % 2 = 1
  BY DEF MarkerKey, DataKey
<1>4. f \in [markers -> Nat] /\ g \in [data -> Nat] /\ Keys = Range(f) \cup Range(g)
  BY Zenon, <1>1, <1>3 DEF Keys, Range
<1>5. \A k \in Range(g) : ~IsMarker(k)
  BY <1>1, <1>3 DEF Range, IsMarker
<1>6. \A k \in Range(f) : k \div 2 \in markers
  BY Zenon, <1>1, <1>3 DEF Range
<1>7. Range(f) \subseteq Nat /\ Range(g) \subseteq Nat
  BY Zenon, <1>4 DEF Range
<1> HIDE DEF f, g
<1>8. IsFiniteSet(Range(f)) /\ IsFiniteSet(Range(g))
  BY Zenon, <1>2, <1>4, ImageFinite
<1> QED
  BY Zenon, <1>4, <1>5, <1>6, <1>7, <1>8, FS_Union

(* A listed page holds keys of the bucket.                                   *)
LEMMA ListPageOK ==
  ASSUME NEW after
  PROVE  ListPage(after).keys \subseteq Keys /\ ListPage(after).exhausted \in BOOLEAN
<1> DEFINE rest == {k \in Keys : k > after}
           Until(k) == {x \in rest : x <= k}
           Full(k) == \/ Cardinality({x \in Until(k) : IsMarker(x)}) = world.max_blocks
                      \/ Cardinality(Until(k)) = 2 * world.max_blocks
           cut == Min({k \in rest : Full(k)})
<1>1. rest \subseteq Keys /\ Until(cut) \subseteq Keys
  BY Zenon
<1>2. ListPage(after) = IF \E k \in rest : Full(k)
                        THEN [keys |-> Until(cut), exhausted |-> FALSE]
                        ELSE [keys |-> rest, exhausted |-> TRUE]
  BY Zenon DEF ListPage
<1> HIDE DEF rest, Until, Full, cut
<1> QED
  BY <1>1, <1>2

(* The unfolded markers of a page, in order, and its last key.               *)
LEMMA UnfoldedOK ==
  ASSUME BucketOK, NEW K, K \subseteq Keys, NEW done
  PROVE  LET page == Sorted({k \div 2 : k \in {x \in K : IsMarker(x)}} \ done)
         IN /\ page \in Seq(Block) /\ \A n \in DOMAIN page : page[n] \in markers
            /\ (IF K = {} THEN 0 ELSE Max(K)) \in Nat
<1> DEFINE S == {k \div 2 : k \in {x \in K : IsMarker(x)}} \ done
<1>1. S \subseteq markers
  BY Zenon, KeysAre
<1> HIDE DEF S
<1>2. markers \subseteq Block /\ S \subseteq Block /\ S \subseteq Nat /\ IsFiniteSet(S)
  BY Zenon, <1>1, ErrorsAssumption, FS_Subset DEF BucketOK
<1>3. Sorted(S) \in Seq(S)
  BY Zenon, <1>2, SortedIs
<1>4. Sorted(S) \in Seq(Block) /\ \A n \in DOMAIN Sorted(S) : Sorted(S)[n] \in markers
  <2>1. Sorted(S) \in Seq(Block) /\ Sorted(S) \in Seq(markers)
    BY Zenon, <1>1, <1>2, <1>3, SeqWider
  <2> QED
    BY <2>1
<1>5. K \subseteq Nat /\ IsFiniteSet(K)
  BY Zenon, KeysAre, FS_Subset
<1>6. (IF K = {} THEN 0 ELSE Max(K)) \in Nat
  <2>1. CASE K = {}
    BY Zenon, <2>1
  <2>2. CASE K # {}
    BY Zenon, <1>5, <2>2, MaxIs
  <2> QED
    BY Zenon, <2>1, <2>2
<1> QED
  BY Zenon, <1>4, <1>6 DEF S

-----------------------------------------------------------------------------
(* Every step keeps the invariant.                                           *)

(* The invariant holds at the start.                                         *)
LEMMA InitErr == Init => ErrInv
<1> SUFFICES ASSUME Init PROVE ErrInv
  OBVIOUS
<1>1. SourcesOK
  BY Zenon, ErrorsAssumption DEF Init, SourcesOK
<1>2. BucketOK /\ markers = {}
  BY Zenon DEF Init, BucketOK
<1>3. NoDb \in DbType /\ GoodDb(NoDb, markers)
  <2>1. NoDb.commits = {}
    BY Zenon DEF NoDb
  <2> QED
    BY Zenon, <2>1, NoDbOK DEF GoodDb, DbOK
<1>4. db \in [Inst -> DbType] /\ \A i \in Inst : GoodDb(db[i], markers)
  BY Zenon, <1>3 DEF Init
<1>5. GoodDb(snapshot, markers) /\ GoodDb(late, markers)
  BY Zenon, <1>3 DEF Init
<1>6. pass \in [Inst -> PassType] /\ \A i \in Inst : GoodPass(pass[i], markers, data)
  BY Zenon, FreshPass DEF Init
<1> QED
  BY Zenon, <1>1, <1>2, <1>4, <1>5, <1>6 DEF ErrInv

(* Blocks come and go in the catalog.                                        *)
LEMMA CatalogKeeps == ErrInv /\ (Appear \/ Expire) => ErrInv'
<1> SUFFICES ASSUME ErrInv, Appear \/ Expire PROVE ErrInv'
  OBVIOUS
<1>1. /\ world' = world /\ markers' = markers /\ data' = data /\ db' = db /\ pass' = pass
      /\ snapshot' = snapshot /\ late' = late
  BY Zenon DEF Appear, Expire, bucket, upload
<1>2. SourcesOK'
  <2>1. CASE Appear
    <3>1. PICK m \in coming : live' = (live \ m.inputs) \cup {m.output} /\ coming' = coming \ {m}
      BY Zenon, <2>1 DEF Appear
    <3>2. m.output \in Block
      <4>1. m \in world.coming /\ world \in Scenarios
        BY Zenon DEF ErrInv, SourcesOK
      <4> QED
        BY Zenon, <4>1, ErrorsAssumption
    <3> QED
      BY Zenon, <1>1, <3>1, <3>2 DEF ErrInv, SourcesOK
  <2>2. CASE Expire
    <3>1. (\E b \in live : live' = live \ {b}) /\ coming' = coming
      BY Zenon, <2>2 DEF Expire
    <3> QED
      BY Zenon, <1>1, <3>1 DEF ErrInv, SourcesOK
  <2> QED
    BY Zenon, <2>1, <2>2
<1>3. BucketOK'
  BY Zenon, <1>1 DEF ErrInv, BucketOK
<1> QED
  BY Zenon, <1>1, <1>2, <1>3 DEF ErrInv

(* Leases come and go; an upload its worker gave up on lands.                *)
LEMMA OutsideKeeps == ErrInv /\ (ExpireLease \/ LateLands) => ErrInv'
<1> SUFFICES ASSUME ErrInv, ExpireLease \/ LateLands PROVE ErrInv'
  OBVIOUS
<1>1. /\ world' = world /\ coming' = coming /\ live' = live
      /\ markers' = markers /\ data' = data /\ db' = db /\ pass' = pass
  BY Zenon DEF ExpireLease, LateLands, bucket, sources
<1>2. SourcesOK' /\ BucketOK'
  BY Zenon, <1>1 DEF ErrInv, SourcesOK, BucketOK
<1>3. GoodDb(NoDb, markers)
  <2>1. NoDb.commits = {}
    BY Zenon DEF NoDb
  <2> QED
    BY Zenon, <2>1, NoDbOK DEF GoodDb
<1>4. GoodDb(snapshot', markers) /\ GoodDb(late', markers)
  <2>1. CASE ExpireLease
    <3>1. snapshot' = snapshot /\ late' = late
      BY Zenon, <2>1 DEF ExpireLease, upload
    <3> QED
      BY Zenon, <3>1 DEF ErrInv
  <2>2. CASE LateLands
    <3>1. snapshot' = late /\ late' = NoDb
      BY Zenon, <2>2 DEF LateLands
    <3> QED
      BY Zenon, <1>3, <3>1 DEF ErrInv
  <2> QED
    BY Zenon, <2>1, <2>2
<1> QED
  BY Zenon, <1>1, <1>2, <1>4 DEF ErrInv

(* Steps that touch the lease, or start, end or abandon a pass.              *)
LEMMA PassEndsKeep ==
  ASSUME ErrInv, NEW i \in Inst,
         \/ ReleaseLost(i) \/ StartPass(i) \/ EndPass(i) \/ SaveSnapshot(i) \/ UploadLands(i)
         \/ FenceStops(i) \/ LoseLease(i) \/ PassFails(i) \/ UploadFails(i)
  PROVE  ErrInv'
<1>1. GoodDb(snapshot, markers) /\ GoodDb(late, markers) /\ GoodDb(db[i], markers)
  BY Zenon DEF ErrInv
<1>2. UNCHANGED <<sources, bucket>> /\ db' = db
  BY Zenon DEF ReleaseLost, StartPass, EndPass, SaveSnapshot, UploadLands, FenceStops, LoseLease,
         PassFails, UploadFails
<1>3. snapshot' \in {snapshot, db[i]} /\ late' \in {late, db[i]}
  BY Zenon DEF ReleaseLost, StartPass, EndPass, SaveSnapshot, UploadLands, FenceStops, LoseLease,
         PassFails, UploadFails, upload
<1>4. \/ pass' = pass
      \/ \E p \in {IdlePass, [IdlePass EXCEPT !.pc = "list"], [IdlePass EXCEPT !.pc = "upload"]} :
           pass' = [pass EXCEPT ![i] = p]
  BY Zenon DEF ReleaseLost, StartPass, EndPass, SaveSnapshot, UploadLands, FenceStops, LoseLease,
         PassFails, UploadFails, To
<1>5. pass' = pass \/ \E p : pass' = [pass EXCEPT ![i] = p] /\ GoodPass(p, markers, data)
  BY Zenon, <1>4, FreshPass
<1>6. GoodDb(snapshot', markers) /\ GoodDb(late', markers)
  BY Zenon, <1>1, <1>3
<1> QED
  BY Zenon, <1>2, <1>5, <1>6, WorkerKeeps

(* A crash leaves the database or nothing, and perhaps an upload in flight.  *)
LEMMA CrashKeeps ==
  ASSUME ErrInv, NEW i \in Inst, Crash(i)
  PROVE  ErrInv'
<1>1. GoodDb(snapshot, markers) /\ GoodDb(late, markers) /\ GoodDb(db[i], markers)
  BY Zenon DEF ErrInv
<1>2. GoodDb(NoDb, markers)
  <2>1. NoDb.commits = {}
    BY Zenon DEF NoDb
  <2> QED
    BY Zenon, <2>1, NoDbOK DEF GoodDb
<1>3. UNCHANGED <<sources, bucket>> /\ snapshot' = snapshot
  BY Zenon DEF Crash
<1>4. /\ \E d \in {db[i], NoDb} : db' = [db EXCEPT ![i] = d]
      /\ late' \in {late, db[i]} /\ pass' = [pass EXCEPT ![i] = IdlePass]
  BY Zenon DEF Crash
<1>5. \E d : db' = [db EXCEPT ![i] = d] /\ GoodDb(d, markers)
  BY Zenon, <1>1, <1>2, <1>4
<1>6. \E p : pass' = [pass EXCEPT ![i] = p] /\ GoodPass(p, markers, data)
  BY Zenon, <1>4, FreshPass
<1>7. GoodDb(snapshot', markers) /\ GoodDb(late', markers)
  BY Zenon, <1>1, <1>3, <1>4
<1> QED
  BY Zenon, <1>3, <1>5, <1>6, <1>7, WorkerKeeps

(* The new holder opens its database or the snapshot.                        *)
LEMMA AcquireKeeps ==
  ASSUME ErrInv, NEW i \in Inst, Acquire(i)
  PROVE  ErrInv'
<1>1. GoodDb(snapshot, markers) /\ GoodDb(late, markers) /\ GoodDb(db[i], markers)
  BY Zenon DEF ErrInv
<1>2. UNCHANGED <<sources, bucket>> /\ snapshot' = snapshot /\ late' = late
  BY Zenon DEF Acquire
<1>3. /\ \E d \in {db[i], snapshot} : db' = [db EXCEPT ![i] = Opened(d)]
      /\ pass' = [pass EXCEPT ![i] = [IdlePass EXCEPT !.pc = "list"]]
  BY Zenon DEF Acquire, Put, To
<1>4. 0 \in Nat
  OBVIOUS
<1>5. \E d : db' = [db EXCEPT ![i] = d] /\ GoodDb(d, markers)
  BY Zenon, <1>1, <1>3, <1>4, CursorOK
<1>6. \E p : pass' = [pass EXCEPT ![i] = p] /\ GoodPass(p, markers, data)
  BY Zenon, <1>3, FreshPass
<1> QED
  BY Zenon, <1>1, <1>2, <1>5, <1>6, WorkerKeeps

(* The page a pass lists holds markers.                                      *)
LEMMA ListKeeps ==
  ASSUME ErrInv, NEW i \in Inst, ListCommits(i)
  PROVE  ErrInv'
<1> DEFINE l == ListPage(db[i].listed)
           page == Sorted({k \div 2 : k \in {x \in l.keys : IsMarker(x)}} \ db[i].commits)
           last == IF l.keys = {} THEN 0 ELSE Max(l.keys)
           wrap == l.exhausted /\ db[i].listed # 0
           p == [pass[i] EXCEPT !.pc = "fold", !.page = page, !.last = last, !.wrap = wrap]
<1>1. GoodDb(snapshot, markers) /\ GoodDb(late, markers) /\ pass[i] \in PassType /\ BucketOK
  BY Zenon DEF ErrInv
<1>2. UNCHANGED <<sources, bucket>> /\ db' = db /\ snapshot' = snapshot /\ late' = late
  BY Zenon DEF ListCommits, upload
<1>3. pass' = [pass EXCEPT ![i] = p]
  BY Zenon DEF ListCommits, To
<1>4. l.keys \subseteq Keys /\ l.exhausted \in BOOLEAN
  BY Zenon, ListPageOK
<1> HIDE DEF l
<1>5. /\ page \in Seq(Block) /\ \A n \in DOMAIN page : page[n] \in markers
      /\ last \in Nat
  BY Zenon, <1>1, <1>4, UnfoldedOK
<1>6. wrap \in BOOLEAN
  BY Zenon, <1>4
<1> HIDE DEF page, last, wrap
<1>7. p \in PassType /\ p.pc = "fold" /\ p.page = page
  BY Zenon, <1>1, <1>5, <1>6 DEF PassType, Working
<1> HIDE DEF p
<1>8. p.pc # "marker" /\ p.pc # "verify" /\ p.pc \notin {"block", "data", "marker", "verify"}
  BY Zenon, <1>7
<1>9. GoodPass(p, markers, data)
  BY Zenon, <1>5, <1>7, <1>8 DEF GoodPass
<1> QED
  BY Zenon, <1>1, <1>2, <1>3, <1>9, WorkerKeeps

(* Folding a marker's projection.                                            *)
LEMMA FoldGood ==
  ASSUME NEW d, GoodDb(d, markers), NEW b \in Block, b \in markers
  PROVE  GoodDb(FoldCommitted(d, b), markers)
<1>1. DbOK(d) /\ d.commits \subseteq markers
  BY Zenon DEF GoodDb
<1>2. DbOK(FoldCommitted(d, b)) /\ FoldCommitted(d, b).commits = d.commits \cup {b}
  BY Zenon, <1>1, FoldOK
<1> QED
  BY Zenon, <1>1, <1>2 DEF GoodDb

(* The next marker of the page is folded.                                    *)
LEMMA FoldNextKeeps ==
  ASSUME ErrInv, NEW i \in Inst, FoldNext(i)
  PROVE  ErrInv'
<1> DEFINE q == pass[i]
           p == [q EXCEPT !.page = Tail(q.page), !.dirty = TRUE]
           b == Head(q.page)
<1>1. /\ GoodDb(snapshot, markers) /\ GoodDb(late, markers) /\ GoodDb(db[i], markers)
      /\ GoodPass(q, markers, data) /\ q \in PassType
  BY Zenon DEF ErrInv
<1>2. UNCHANGED <<sources, bucket>> /\ snapshot' = snapshot /\ late' = late
  BY Zenon DEF FoldNext, upload
<1>3. /\ q.pc = "fold" /\ q.page # <<>>
      /\ db' = [db EXCEPT ![i] = FoldCommitted(db[i], b)] /\ pass' = [pass EXCEPT ![i] = p]
  BY Zenon DEF FoldNext, Put, To
<1>4. \A n \in DOMAIN q.page : q.page[n] \in markers
  BY Zenon, <1>1, <1>3 DEF GoodPass
<1> HIDE DEF q
<1>5. q.page \in Seq(Block)
  BY Zenon, <1>1 DEF PassType
<1>6. /\ b \in Block /\ b \in markers /\ Tail(q.page) \in Seq(Block)
      /\ \A n \in DOMAIN Tail(q.page) : Tail(q.page)[n] \in markers
  BY <1>3, <1>4, <1>5
<1>7. p \in PassType /\ p.pc = "fold" /\ p.page = Tail(q.page)
  BY Zenon, <1>1, <1>3, <1>6 DEF PassType
<1> HIDE DEF p, b
<1>8. p.pc # "marker" /\ p.pc # "verify" /\ p.pc \notin {"block", "data", "marker", "verify"}
  BY Zenon, <1>7
<1>9. GoodPass(p, markers, data)
  BY Zenon, <1>6, <1>7, <1>8 DEF GoodPass
<1>10. GoodDb(FoldCommitted(db[i], b), markers)
  BY Zenon, <1>1, <1>6, FoldGood
<1> QED
  BY Zenon, <1>1, <1>2, <1>3, <1>9, <1>10, WorkerKeeps

(* The listing cursor moves and the source blocks are picked.                *)
LEMMA SelectKeeps ==
  ASSUME ErrInv, NEW i \in Inst, SelectSources(i)
  PROVE  ErrInv'
<1> DEFINE q == pass[i]
           page == SourcePage(db[i].source)
           pc == IF page = <<>> THEN "group" ELSE "block"
           p == [q EXCEPT !.pc = pc, !.blocks = page]
           n == NextListed(db[i], q)
<1>1. /\ GoodDb(snapshot, markers) /\ GoodDb(late, markers) /\ GoodDb(db[i], markers)
      /\ q \in PassType /\ db[i] \in DbType /\ SourcesOK
  BY Zenon DEF ErrInv
<1>2. UNCHANGED <<sources, bucket>> /\ snapshot' = snapshot /\ late' = late
  BY Zenon DEF SelectSources, upload
<1>3. db' = [db EXCEPT ![i] = [db[i] EXCEPT !.listed = n]] /\ pass' = [pass EXCEPT ![i] = p]
  BY Zenon DEF SelectSources, Put, To
<1>4. page \in Seq(Block)
  BY Zenon, <1>1, SourcePageOK
<1>5. n \in Nat
  BY Zenon, <1>1 DEF NextListed, PassType, DbType
<1>6. pc \in {"group", "block"} /\ (pc = "block" => page # <<>>)
  OBVIOUS
<1> HIDE DEF q, page, pc, n
<1>7. p \in PassType /\ p.pc = pc /\ p.blocks = page
  BY Zenon, <1>1, <1>4, <1>6 DEF PassType, Working
<1> HIDE DEF p
<1>8. /\ p.pc # "marker" /\ p.pc # "verify" /\ p.pc # "fold"
      /\ p.pc \in {"block", "data", "marker", "verify"} => p.blocks # <<>>
  BY Zenon, <1>6, <1>7
<1>9. GoodPass(p, markers, data)
  BY Zenon, <1>7, <1>8 DEF GoodPass
<1>10. GoodDb([db[i] EXCEPT !.listed = n], markers)
  BY Zenon, <1>1, <1>5, CursorOK
<1> QED
  BY Zenon, <1>1, <1>2, <1>3, <1>9, <1>10, WorkerKeeps

(* The source cursor moves past the block at hand.                           *)
LEMMA NextBlockKeeps ==
  ASSUME ErrInv, NEW i \in Inst, UNCHANGED <<sources, bucket>>,
         snapshot' = snapshot, late' = late,
         pass[i].pc \in {"block", "verify"},
         NEW d, GoodDb(d, markers), NEW folded \in BOOLEAN, NextBlock(i, d, folded)
  PROVE  ErrInv'
<1> DEFINE q == pass[i]
           pc == IF Len(q.blocks) = 1 THEN "group" ELSE "block"
           p == [q EXCEPT !.pc = pc, !.blocks = Tail(q.blocks), !.dirty = q.dirty \/ folded]
           b == Head(q.blocks)
<1>1. /\ GoodDb(snapshot, markers) /\ GoodDb(late, markers)
      /\ GoodPass(q, markers, data) /\ q \in PassType
  BY Zenon DEF ErrInv
<1>2. db' = [db EXCEPT ![i] = [d EXCEPT !.source = b]] /\ pass' = [pass EXCEPT ![i] = p]
  BY Zenon DEF NextBlock, Put, To
<1>3. q.pc \in {"block", "data", "marker", "verify"}
  BY Zenon
<1>4. q.blocks # <<>>
  BY Zenon, <1>1, <1>3 DEF GoodPass
<1> HIDE DEF q
<1>5. q.blocks \in Seq(Block) /\ q.dirty \in BOOLEAN
  BY Zenon, <1>1 DEF PassType
<1>6. b \in Block /\ Tail(q.blocks) \in Seq(Block) /\ (pc = "block" => Tail(q.blocks) # <<>>)
  <2>1. /\ b \in Block /\ Tail(q.blocks) \in Seq(Block)
        /\ Len(Tail(q.blocks)) = Len(q.blocks) - 1 /\ Len(q.blocks) \in Nat
    BY <1>4, <1>5
  <2>2. Len(q.blocks) # 1 => Tail(q.blocks) # <<>>
    <3> DEFINE r == Tail(q.blocks)
    <3>1. r = <<>> => Len(r) = 0
      <4> HIDE DEF r
      <4> QED
        OBVIOUS
    <3>2. Len(r) = Len(q.blocks) - 1
      BY Zenon, <2>1
    <3> HIDE DEF r
    <3>3. r = <<>> => Len(q.blocks) = 1
      BY <2>1, <3>1, <3>2
    <3> QED
      BY Zenon, <3>3 DEF r
  <2>3. pc = "block" => Len(q.blocks) # 1
    OBVIOUS
  <2> QED
    BY Zenon, <2>1, <2>2, <2>3
<1>7. (q.dirty \/ folded) \in BOOLEAN
  BY Zenon
<1>8. pc \in {"group", "block"} /\ b \in Nat
  BY Zenon, <1>6, ErrorsAssumption
<1> HIDE DEF pc, b
<1>9. p \in PassType /\ p.pc = pc /\ p.blocks = Tail(q.blocks)
  <2> DEFINE t == (q.dirty \/ folded)
  <2>1. p = [q EXCEPT !.pc = pc, !.blocks = Tail(q.blocks), !.dirty = t] /\ t \in BOOLEAN
    BY Zenon, <1>7
  <2> HIDE DEF t
  <2> QED
    BY Zenon, <1>1, <1>6, <1>8, <2>1 DEF PassType, Working
<1> HIDE DEF p
<1>10. /\ p.pc # "marker" /\ p.pc # "verify" /\ p.pc # "fold"
       /\ p.pc \in {"block", "data", "marker", "verify"} => p.blocks # <<>>
  BY Zenon, <1>6, <1>8, <1>9
<1>11. GoodPass(p, markers, data)
  BY Zenon, <1>9, <1>10 DEF GoodPass
<1>12. GoodDb([d EXCEPT !.source = b], markers)
  BY Zenon, <1>8, CursorOK
<1> QED
  BY Zenon, <1>1, <1>2, <1>11, <1>12, WorkerKeeps

(* The block at hand of a pass that has one.                                 *)
LEMMA AtHand ==
  ASSUME ErrInv, NEW i \in Inst, pass[i].pc \in {"block", "data", "marker", "verify"}
  PROVE  Head(pass[i].blocks) \in Block /\ pass[i] \in PassType /\ pass[i].blocks # <<>>
<1>1. pass[i] \in PassType /\ pass[i].blocks # <<>>
  BY Zenon DEF ErrInv, GoodPass
<1> QED
  BY <1>1 DEF PassType

(* A block is passed over, or its projection folded.                         *)
LEMMA BlockKeeps ==
  ASSUME ErrInv, NEW i \in Inst, PassOver(i) \/ FoldPublished(i) \/ ReadBackAndFold(i)
  PROVE  ErrInv'
<1> DEFINE b == Head(pass[i].blocks)
<1>1. /\ GoodDb(db[i], markers) /\ GoodPass(pass[i], markers, data)
  BY Zenon DEF ErrInv
<1>2. UNCHANGED <<sources, bucket>> /\ snapshot' = snapshot /\ late' = late
  BY Zenon DEF PassOver, FoldPublished, ReadBackAndFold, upload
<1>3. TRUE \in BOOLEAN /\ FALSE \in BOOLEAN
  BY Zenon
<1>4. CASE PassOver(i)
  <2>1. pass[i].pc \in {"block", "verify"} /\ NextBlock(i, db[i], FALSE)
    BY Zenon, <1>4 DEF PassOver
  <2> QED
    BY Zenon, <1>1, <1>2, <1>3, <2>1, NextBlockKeeps
<1>5. CASE FoldPublished(i)
  <2>1. /\ pass[i].pc = "block" /\ b \in markers
        /\ NextBlock(i, FoldCommitted(db[i], b), TRUE)
    BY Zenon, <1>5 DEF FoldPublished
  <2>2. GoodDb(FoldCommitted(db[i], b), markers)
    BY Zenon, <1>1, <2>1, AtHand, FoldGood
  <2>3. pass[i].pc \in {"block", "verify"}
    BY Zenon, <2>1
  <2> QED
    BY Zenon, <1>2, <1>3, <2>1, <2>2, <2>3, NextBlockKeeps
<1>6. CASE ReadBackAndFold(i)
  <2>1. pass[i].pc = "verify" /\ NextBlock(i, FoldCommitted(db[i], b), TRUE)
    BY Zenon, <1>6 DEF ReadBackAndFold
  <2>2. b \in markers
    BY Zenon, <1>1, <2>1 DEF GoodPass
  <2>3. GoodDb(FoldCommitted(db[i], b), markers)
    BY Zenon, <1>1, <2>1, <2>2, AtHand, FoldGood
  <2>4. pass[i].pc \in {"block", "verify"}
    BY Zenon, <2>1
  <2> QED
    BY Zenon, <1>2, <1>3, <2>1, <2>3, <2>4, NextBlockKeeps
<1> QED
  BY Zenon, <1>4, <1>5, <1>6

(* The block at hand is read and its projection published, data first.       *)
LEMMA PublishKeeps ==
  ASSUME ErrInv, NEW i \in Inst, ReadSource(i) \/ PutData(i) \/ PutMarker(i)
  PROVE  ErrInv'
<1> DEFINE q == pass[i]
           b == Head(q.blocks)
           To2(pc) == [q EXCEPT !.pc = pc]
<1>1. /\ GoodDb(snapshot, markers) /\ GoodDb(late, markers) /\ GoodPass(q, markers, data)
      /\ SourcesOK /\ BucketOK
  BY Zenon DEF ErrInv
<1>2. /\ world' = world /\ coming' = coming /\ live' = live /\ db' = db
      /\ snapshot' = snapshot /\ late' = late
  BY Zenon DEF ReadSource, PutData, PutMarker, sources, upload
<1>3. SourcesOK'
  BY Zenon, <1>1, <1>2 DEF SourcesOK
<1>4. q.pc \in {"block", "data", "marker"}
  BY Zenon DEF ReadSource, PutData, PutMarker
<1>5. b \in Block /\ q \in PassType /\ q.blocks # <<>>
  BY Zenon, <1>4, AtHand
<1> HIDE DEF q
<1>6. \A pc \in {"data", "marker", "verify"} :
        To2(pc) \in PassType /\ To2(pc).pc = pc /\ To2(pc).blocks = q.blocks
  BY Zenon, <1>5 DEF PassType, Working
<1> HIDE DEF To2
<1>7. ASSUME NEW pc \in {"data", "marker", "verify"}, NEW ms, NEW ds,
             pc = "marker" => b \in ds, pc = "verify" => b \in ms
      PROVE  GoodPass(To2(pc), ms, ds)
  <2>1. To2(pc).pc # "fold"
    BY Zenon, <1>6, <1>7
  <2> QED
    BY Zenon, <1>5, <1>6, <1>7, <2>1 DEF GoodPass
<1>8. CASE ReadSource(i)
  <2>1. pass' = [pass EXCEPT ![i] = To2("data")] /\ UNCHANGED <<sources, bucket>>
    BY Zenon, <1>8 DEF ReadSource, To, To2, q
  <2>2. GoodPass(To2("data"), markers, data)
    BY Zenon, <1>7
  <2> QED
    BY Zenon, <1>1, <1>2, <2>1, <2>2, WorkerKeeps
<1>9. CASE PutData(i)
  <2>1. /\ pass' = [pass EXCEPT ![i] = To2("marker")]
        /\ data' = data \cup {b} /\ markers' = markers
    BY Zenon, <1>9 DEF PutData, To, To2, q
  <2>2. GoodPass(To2("marker"), markers', data')
    <3>1. b \in data'
      BY Zenon, <2>1
    <3> QED
      BY Zenon, <1>7, <3>1
  <2>3. BucketOK' /\ markers \subseteq markers' /\ data \subseteq data'
    BY Zenon, <1>1, <1>5, <2>1 DEF BucketOK
  <2>4. GoodDb(snapshot', markers') /\ GoodDb(late', markers')
    BY Zenon, <1>1, <1>2, <2>1
  <2> QED
    BY Zenon, <1>2, <1>3, <2>1, <2>2, <2>3, <2>4, Keeps
<1>10. CASE PutMarker(i)
  <2>1. /\ pass' = [pass EXCEPT ![i] = To2("verify")] /\ q.pc = "marker"
        /\ markers' = markers \cup {b} /\ data' = data
    BY Zenon, <1>10 DEF PutMarker, To, To2, q
  <2>2. GoodPass(To2("verify"), markers', data')
    <3>1. b \in markers'
      BY Zenon, <2>1
    <3> QED
      BY Zenon, <1>7, <3>1
  <2>3. b \in data
    BY Zenon, <1>1, <2>1 DEF GoodPass
  <2>4. BucketOK' /\ markers \subseteq markers' /\ data \subseteq data'
    BY Zenon, <1>1, <2>1, <2>3 DEF BucketOK
  <2>5. GoodDb(snapshot', markers') /\ GoodDb(late', markers')
    BY Zenon, <1>1, <1>2, <2>4, GoodGrows
  <2> QED
    BY Zenon, <1>2, <1>3, <2>1, <2>2, <2>4, <2>5, Keeps
<1> QED
  BY Zenon, <1>8, <1>9, <1>10

(* A page of occurrences is grouped.                                         *)
LEMMA GroupKeeps ==
  ASSUME ErrInv, NEW i \in Inst, GroupPage(i)
  PROVE  ErrInv'
<1> DEFINE q == pass[i]
           d == GroupPageOf(db[i])
           t == (q.dirty \/ d.grouped > db[i].grouped)
           p(pc) == [q EXCEPT !.pc = pc, !.dirty = t]
<1>1. /\ GoodDb(snapshot, markers) /\ GoodDb(late, markers) /\ GoodDb(db[i], markers)
      /\ q \in PassType /\ SourcesOK
  BY Zenon DEF ErrInv
<1>2. UNCHANGED <<sources, bucket>> /\ snapshot' = snapshot /\ late' = late
  BY Zenon DEF GroupPage, upload
<1>3. /\ db' = [db EXCEPT ![i] = d]
      /\ \E pc \in {"group", "snap"} : pass' = [pass EXCEPT ![i] = p(pc)]
  BY Zenon DEF GroupPage, Put, To
<1>4. world.page_rows \in Nat
  BY Zenon, <1>1, ErrorsAssumption DEF SourcesOK
<1>5. GoodDb(d, markers)
  <2>1. DbOK(db[i]) /\ db[i].commits \subseteq markers
    BY Zenon, <1>1 DEF GoodDb
  <2>2. DbOK(d) /\ d.commits = db[i].commits
    BY Zenon, <1>4, <2>1, GroupOK
  <2> QED
    BY Zenon, <2>1, <2>2 DEF GoodDb
<1>6. t \in BOOLEAN
  BY Zenon
<1> HIDE DEF t, q, d
<1>7. \A pc \in {"group", "snap"} : p(pc) \in PassType /\ p(pc).pc = pc
  BY Zenon, <1>1, <1>6 DEF PassType, Working
<1> HIDE DEF p
<1>8. \A pc \in {"group", "snap"} :
        /\ p(pc).pc # "marker" /\ p(pc).pc # "verify" /\ p(pc).pc # "fold"
        /\ p(pc).pc \notin {"block", "data", "marker", "verify"}
  BY Zenon, <1>7
<1>9. \A pc \in {"group", "snap"} : GoodPass(p(pc), markers, data)
  BY Zenon, <1>7, <1>8 DEF GoodPass
<1> QED
  BY Zenon, <1>1, <1>2, <1>3, <1>5, <1>9, WorkerKeeps

(* ErrInv is inductive.                                                      *)
LEMMA NextErr == ErrInv /\ [Next]_vars => ErrInv'
<1> SUFFICES ASSUME ErrInv, [Next]_vars PROVE ErrInv'
  OBVIOUS
<1>1. CASE UNCHANGED vars
  BY Zenon, <1>1 DEF vars, ErrInv, SourcesOK, BucketOK
<1>2. CASE Appear \/ Expire
  BY Zenon, <1>2, CatalogKeeps
<1>3. CASE ExpireLease \/ LateLands
  BY Zenon, <1>3, OutsideKeeps
<1>4. ASSUME NEW i \in Inst,
             PassRuns(i) \/ LoseLease(i) \/ Crash(i) \/ PassFails(i) \/ UploadFails(i)
      PROVE  ErrInv'
  <2>1. CASE \/ ReleaseLost(i) \/ StartPass(i) \/ EndPass(i) \/ SaveSnapshot(i)
             \/ UploadLands(i) \/ FenceStops(i) \/ LoseLease(i) \/ PassFails(i)
             \/ UploadFails(i)
    BY Zenon, <2>1, PassEndsKeep
  <2>2. CASE Crash(i)
    BY Zenon, <2>2, CrashKeeps
  <2>3. CASE Acquire(i)
    BY Zenon, <2>3, AcquireKeeps
  <2>4. CASE ListCommits(i)
    BY Zenon, <2>4, ListKeeps
  <2>5. CASE FoldNext(i)
    BY Zenon, <2>5, FoldNextKeeps
  <2>6. CASE SelectSources(i)
    BY Zenon, <2>6, SelectKeeps
  <2>7. CASE PassOver(i) \/ FoldPublished(i) \/ ReadBackAndFold(i)
    BY Zenon, <2>7, BlockKeeps
  <2>8. CASE ReadSource(i) \/ PutData(i) \/ PutMarker(i)
    BY Zenon, <2>8, PublishKeeps
  <2>9. CASE GroupPage(i)
    BY Zenon, <2>9, GroupKeeps
  <2> QED
    BY Zenon, <1>4, <2>1, <2>2, <2>3, <2>4, <2>5, <2>6, <2>7, <2>8, <2>9 DEF PassRuns
<1> QED
  BY Zenon, <1>1, <1>2, <1>3, <1>4 DEF Next

(* Every behaviour keeps ErrInv.                                             *)
THEOREM ErrInvariance == Spec => []ErrInv
<1> QED
  BY InitErr, NextErr, PTL DEF Spec

(* A table with one row per event has as many events as rows.                *)
LEMMA EventsOf ==
  ASSUME NEW occ \in Seq(Row), OneEach(occ)
  PROVE  Cardinality(Events(Range(occ))) = Len(occ)
<1> DEFINE E == Events(Range(occ))
           f == [n \in 1..Len(occ) |-> occ[n].event]
<1>1. Len(occ) \in Nat /\ DOMAIN occ = 1..Len(occ)
  OBVIOUS
<1>2. E = {occ[n].event : n \in 1..Len(occ)}
  BY Zenon, <1>1 DEF Events, Range
<1>3. \A n \in 1..Len(occ) : f[n] = occ[n].event
  BY Zenon
<1>4. f \in [1..Len(occ) -> E]
  BY Zenon, <1>2
<1>5. \A t \in E : \E n \in 1..Len(occ) : f[n] = t
  BY Zenon, <1>2, <1>3
<1>6. \A m, n \in 1..Len(occ) : f[m] = f[n] => m = n
  BY Zenon, <1>1, <1>3 DEF OneEach
<1> HIDE DEF E, f
<1>7. f \in Bijection(1..Len(occ), E)
  BY Zenon, <1>4, <1>5, <1>6 DEF Bijection, Injection, IsInjective, Surjection
<1>8. ExistsBijection(1..Len(occ), E)
  BY Zenon, <1>7 DEF ExistsBijection
<1> QED
  BY Zenon, <1>1, <1>8, FS_CountingElements DEF E

(* No database, local or uploaded, has folded a projection the bucket does   *)
(* not hold, and no marker is visible without its data: whatever crashes,    *)
(* lost leases and late uploads there are, a lost database can be rebuilt    *)
(* (publish_occurrence_projection, process_block).                           *)
THEOREM AlwaysRebuildable == Spec => []Rebuildable
<1>1. ErrInv => Rebuildable
  BY Zenon DEF ErrInv, BucketOK, GoodDb, Rebuildable, Databases
<1> QED
  BY <1>1, ErrInvariance, PTL

(* Every database holds one occurrence per event and its issues summarise    *)
(* each of them exactly once, whatever is re-extracted, re-folded or taken   *)
(* over from a snapshot (fold_committed, group_page, upsert_issue).          *)
THEOREM EachCountedOnce == Spec => []CountedOnce
<1>1. ErrInv => CountedOnce
  <2> SUFFICES ASSUME ErrInv, NEW d \in Databases
               PROVE  /\ Cardinality(Events(FoldedRows(d))) = Len(d.occ)
                      /\ (UNION {Range(RowsOf[b]) : b \in d.commits})
                         = FoldedRows(d) \cup d.collided
                      /\ d.failed = {r \in GroupedRows(d) : r.issue = Unreadable}
                      /\ \A s \in Issue :
                           d.issues[s] = Summary({r \in GroupedRows(d) : r.issue = s})
    BY Zenon DEF CountedOnce
  <2>1. DbOK(d)
    BY Zenon DEF ErrInv, GoodDb, Databases
  <2>2. d.occ \in Seq(Row) /\ OneEach(d.occ)
    BY Zenon, <2>1 DEF DbOK, DbType
  <2>3. Cardinality(Events(FoldedRows(d))) = Len(d.occ)
    BY Zenon, <2>2, EventsOf DEF FoldedRows
  <2> QED
    BY Zenon, <2>1, <2>3 DEF DbOK, Folded
<1> QED
  BY <1>1, ErrInvariance, PTL

====
