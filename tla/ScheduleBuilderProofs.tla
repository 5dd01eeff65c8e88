------------------------ MODULE ScheduleBuilderProofs -------------------------
(***************************************************************************)
(* What holds of the schedule builder tab for any courses, sections, plans *)
(* and numbers of calls, whatever is delayed, overtaken or lost; of its    *)
(* course search, for any queries and pages; and of the week it shows, for *)
(* any catalog of sections.                                                *)
(***************************************************************************)
EXTENDS ScheduleBuilder, ScheduleView, CourseSearch, ListsProofs

-----------------------------------------------------------------------------
(* What the transactions of the planner service keep of its tables. *)
ProperRow(row) ==
    /\ row \in [plan : {row.plan}, code : {row.code}, gen : Nat, sel : {row.sel}]
    /\ Proper(row.sel)
ProperRows(rows) == \A r \in DOMAIN rows : ProperRow(rows[r])

Tables(rows) == [plans : SUBSET Nat, rows : {rows}, nextPlan : Nat, nextRow : Nat]

\* Ids are given in order, and no course has two sections of a type selected.
Sound(tab) ==
    /\ tab \in Tables(tab.rows)
    /\ \A p \in tab.plans : p < tab.nextPlan
    /\ \A r \in DOMAIN tab.rows : r \in Nat /\ r < tab.nextRow
    /\ ProperRows(tab.rows)

LEMMA ProperSubset == ASSUME NEW S, NEW T \in SUBSET S, Proper(S) PROVE Proper(T)
  BY DEF Proper

LEMMA ProperPick ==
    ASSUME NEW S, NEW type, NEW new, Proper(S), \A s, t \in new : s = t,
           \A s \in new : SectionType[s] = type
    PROVE  Proper({s \in S : SectionType[s] # type} \cup new)
  BY DEF Proper

LEMMA FetchKeeps ==
    ASSUME NEW row, ProperRow(row)
    PROVE  ProperRow(ReplaceSections(row)) /\ ProperRow(FetchMissing(row))
  BY DEF ProperRow, ReplaceSections, FetchMissing

\* The tables after a change of plans, and after a change of rows.
LEMMA PlansChange ==
    ASSUME NEW tab, Sound(tab), NEW ps \in SUBSET Nat, NEW n \in Nat, \A p \in ps : p < n
    PROVE  /\ Sound([tab EXCEPT !.plans = ps, !.nextPlan = n])
           /\ n = tab.nextPlan => Sound([tab EXCEPT !.plans = ps])
  BY DEF Sound, Tables

LEMMA RowsChange ==
    ASSUME NEW tab, Sound(tab), NEW rows, ProperRows(rows), NEW n \in Nat,
           \A r \in DOMAIN rows : r \in Nat /\ r < n
    PROVE  /\ Sound([tab EXCEPT !.rows = rows, !.nextRow = n])
           /\ n = tab.nextRow => Sound([tab EXCEPT !.rows = rows])
  BY DEF Sound, Tables

LEMMA SmallSteps ==
    ASSUME NEW tab, Sound(tab)
    PROVE  /\ Sound(ListPlans(tab)) /\ Sound(CreatePlan(tab))
           /\ \A p : Sound(DeletePlan(tab, p)) /\ Sound(Reset(tab, p)) /\ Sound(RefreshAll(tab, p))
           /\ \A r : Sound(RemoveCourse(tab, r))
           /\ \A r \in DOMAIN tab.rows : Sound(FetchSections(tab, r))
           /\ \A p, code : Sound(AddCourse(tab, p, code))
           /\ \A r \in DOMAIN tab.rows : \A ids : Proper(ids.secs) => Sound(SelectSections(tab, r, ids))
  <1>1. Sound(ListPlans(tab))
    <2>1. {tab.nextPlan} \subseteq Nat /\ tab.nextPlan + 1 \in Nat /\ tab.nextPlan < tab.nextPlan + 1
      BY DEF Sound, Tables
    <2>2. Sound([tab EXCEPT !.plans = {tab.nextPlan}, !.nextPlan = tab.nextPlan + 1])
      BY <2>1, PlansChange
    <2> QED
      BY <2>2 DEF ListPlans
  <1>2. Sound(CreatePlan(tab))
    <2>1. /\ tab.plans \cup {tab.nextPlan} \subseteq Nat /\ tab.nextPlan + 1 \in Nat
          /\ \A p \in tab.plans \cup {tab.nextPlan} : p < tab.nextPlan + 1
      BY DEF Sound, Tables
    <2> QED
      BY <2>1, PlansChange DEF CreatePlan
  <1>3. ASSUME NEW rs PROVE Sound(DropRows(tab, rs))
    <2> DEFINE rows == Restrict(tab.rows, DOMAIN tab.rows \ rs)
    <2>1. ProperRows(rows) /\ \A r \in DOMAIN rows : r \in Nat /\ r < tab.nextRow
      BY DEF Sound, Restrict, ProperRows
    <2>2. tab.nextRow \in Nat
      BY DEF Sound, Tables
    <2> HIDE DEF rows
    <2>3. Sound([tab EXCEPT !.rows = rows])
      BY <2>1, <2>2, RowsChange
    <2> QED
      BY <2>3 DEF DropRows, rows
  <1>4. ASSUME NEW p PROVE Sound(DeletePlan(tab, p))
    <2> DEFINE e == DropRows(tab, RowsOf(tab, p))
    <2>1. Sound(e)
      BY <1>3
    <2> HIDE DEF e
    <2>2. e.plans \ {p} \subseteq Nat /\ e.nextPlan \in Nat /\ \A q \in e.plans \ {p} : q < e.nextPlan
      BY <2>1 DEF Sound, Tables
    <2>3. Sound([e EXCEPT !.plans = e.plans \ {p}])
      BY <2>1, <2>2, PlansChange
    <2> QED
      BY <2>3 DEF DeletePlan, e
  <1>5. ASSUME NEW p PROVE Sound(RefreshAll(tab, p))
    <2> DEFINE rows == [r \in DOMAIN tab.rows |->
                          IF r \in RowsOf(tab, p) THEN ReplaceSections(tab.rows[r]) ELSE tab.rows[r]]
    <2>1. ProperRows(rows) /\ \A r \in DOMAIN rows : r \in Nat /\ r < tab.nextRow
      BY FetchKeeps DEF Sound, ProperRows
    <2>2. tab.nextRow \in Nat
      BY DEF Sound, Tables
    <2> HIDE DEF rows
    <2>3. Sound([tab EXCEPT !.rows = rows])
      BY <2>1, <2>2, RowsChange
    <2> QED
      BY <2>3 DEF RefreshAll, rows
  <1>6. ASSUME NEW r \in DOMAIN tab.rows PROVE Sound(FetchSections(tab, r))
    <2> DEFINE rows == [tab.rows EXCEPT ![r] = FetchMissing(tab.rows[r])]
    <2>1. ProperRows(rows) /\ \A q \in DOMAIN rows : q \in Nat /\ q < tab.nextRow
      BY FetchKeeps DEF Sound, ProperRows
    <2>2. tab.nextRow \in Nat
      BY DEF Sound, Tables
    <2> HIDE DEF rows
    <2>3. Sound([tab EXCEPT !.rows = rows])
      BY <2>1, <2>2, RowsChange
    <2> QED
      BY <2>3 DEF FetchSections, rows
  <1>7. ASSUME NEW p, NEW code PROVE Sound(AddCourse(tab, p, code))
    <2> DEFINE new == [plan |-> p, code |-> code, gen |-> 0, sel |-> {}]
               rows == [i \in DOMAIN tab.rows \cup {tab.nextRow} |->
                          IF i \in DOMAIN tab.rows THEN tab.rows[i] ELSE new]
    <2>1. ProperRow(new)
      BY DEF ProperRow, Proper
    <2> HIDE DEF new
    <2>2. tab.nextRow \in Nat /\ tab.nextRow + 1 \in Nat
      BY DEF Sound, Tables
    <2>3. ProperRows(rows)
      BY <2>1 DEF Sound, ProperRows
    <2>4. \A r \in DOMAIN rows : r \in Nat /\ r < tab.nextRow + 1
      BY <2>2 DEF Sound
    <2> HIDE DEF rows
    <2>5. Sound([tab EXCEPT !.rows = rows, !.nextRow = tab.nextRow + 1])
      BY <2>2, <2>3, <2>4, RowsChange
    <2> QED
      BY <2>5 DEF AddCourse, rows, new
  <1>8. ASSUME NEW r \in DOMAIN tab.rows, NEW ids, Proper(ids.secs)
        PROVE  Sound(SelectSections(tab, r, ids))
    <2> DEFINE sel == IF ids.gen = tab.rows[r].gen THEN ids.secs \cap SectionsOf(tab.rows[r]) ELSE {}
               rows == [tab.rows EXCEPT ![r].sel = sel]
    <2>1. Proper(sel)
      BY <1>8 DEF Proper
    <2> HIDE DEF sel
    <2>2. ProperRows(rows) /\ \A q \in DOMAIN rows : q \in Nat /\ q < tab.nextRow
      BY <2>1 DEF Sound, ProperRows, ProperRow
    <2>3. tab.nextRow \in Nat
      BY DEF Sound, Tables
    <2> HIDE DEF rows
    <2>4. Sound([tab EXCEPT !.rows = rows])
      BY <2>2, <2>3, RowsChange
    <2> QED
      BY <2>4 DEF SelectSections, rows, sel
  <1> QED
    BY <1>1, <1>2, <1>3, <1>4, <1>5, <1>6, <1>7, <1>8 DEF Reset, RemoveCourse

\* Whatever fits together is selected, one section of each type or none.
LEMMA BuildStep ==
    ASSUME NEW tab, Sound(tab), NEW p, NEW built \in AutoBuilds(tab, p)
    PROVE  Sound(built) /\ built.plans = tab.plans
  <1> DEFINE rs == RowsOf(tab, p)
             fetched == [r \in DOMAIN tab.rows |->
                           IF r \in rs THEN FetchMissing(tab.rows[r]) ELSE tab.rows[r]]
             may(r) == Slots(fetched[r]) \cup {{}}
             choices == [rs -> UNION {may(r) : r \in rs}]
             built_rows(ch) == [r \in DOMAIN tab.rows |->
                                  IF r \in rs THEN [fetched[r] EXCEPT !.sel = ch[r]] ELSE tab.rows[r]]
  <1>1. PICK ch \in {f \in choices : \A r \in DOMAIN f : f[r] \in may(r)} :
               built = [tab EXCEPT !.rows = built_rows(ch)]
    BY DEF AutoBuilds
  <1>2. \A r \in rs : Proper(ch[r])
    <2>1. \A r \in rs : ch[r] \in may(r)
      BY <1>1
    <2>2. \A r \in rs : \A S \in may(r) : Proper(S)
      BY DEF Slots, Proper
    <2> QED
      BY <2>1, <2>2
  <1>3. \A r \in DOMAIN tab.rows : ProperRow(fetched[r])
    BY FetchKeeps DEF Sound, ProperRows
  <1>4. \A r \in DOMAIN tab.rows : ProperRow(built_rows(ch)[r])
    <2>1. ASSUME NEW r \in rs, NEW row, ProperRow(row)
          PROVE  ProperRow([row EXCEPT !.sel = ch[r]])
      BY <1>2, <2>1 DEF ProperRow
    <2>2. rs \subseteq DOMAIN tab.rows
      BY DEF RowsOf
    <2> HIDE DEF rs, fetched
    <2> QED
      BY <1>3, <2>1, <2>2 DEF Sound, ProperRows
  <1> DEFINE rows == built_rows(ch)
  <1>5. /\ ProperRows(rows) /\ tab.nextRow \in Nat
        /\ \A r \in DOMAIN rows : r \in Nat /\ r < tab.nextRow
    BY <1>4 DEF Sound, ProperRows, Tables
  <1>6. built = [tab EXCEPT !.rows = rows]
    BY <1>1
  <1> HIDE DEF rows
  <1>7. Sound(built)
    BY <1>5, <1>6, RowsChange
  <1> QED
    BY <1>6, <1>7 DEF Sound, Tables

\* Every new id is that of a copy: the rank of a row among the rows of its plan
\* takes each value once.
LEMMA CopiesAreRows ==
    ASSUME NEW rs \in SUBSET Nat, IsFiniteSet(rs), NEW i \in Nat, i < Cardinality(rs)
    PROVE  \E r \in rs : Cardinality({q \in rs : q < r}) = i
  <1> DEFINE below(r) == {q \in rs : q < r}
             rank == [r \in rs |-> Cardinality(below(r))]
             ranks == 0 .. Cardinality(rs) - 1
  <1>1. Cardinality(rs) \in Nat
    BY FS_CardinalityType
  <1>2. ASSUME NEW r \in rs
        PROVE  IsFiniteSet(below(r)) /\ rank[r] \in ranks
    <2>1. below(r) \in SUBSET rs /\ below(r) # rs
      OBVIOUS
    <2> HIDE DEF below
    <2>2. IsFiniteSet(below(r)) /\ Cardinality(below(r)) <= Cardinality(rs)
          /\ Cardinality(below(r)) # Cardinality(rs)
      BY <2>1, FS_Subset
    <2>3. Cardinality(below(r)) \in Nat
      BY <2>2, FS_CardinalityType
    <2> QED
      BY <1>1, <2>2, <2>3
  <1>3. ASSUME NEW q \in rs, NEW r \in rs, q < r
        PROVE  rank[q] < rank[r]
    <2>1. below(q) \in SUBSET below(r) /\ q \in below(r) /\ q \notin below(q)
      <3>1. q \in Nat /\ r \in Nat /\ \A x \in rs : x \in Nat
        OBVIOUS
      <3>2. ASSUME NEW x \in below(q) PROVE x \in below(r)
        BY <1>3, <3>1
      <3>3. q \in below(r) /\ q \notin below(q)
        BY <1>3, <3>1
      <3> QED
        BY <3>2, <3>3
    <2>2. IsFiniteSet(below(r)) /\ IsFiniteSet(below(q))
      BY <1>2
    <2> HIDE DEF below
    <2>3. Cardinality(below(q)) <= Cardinality(below(r))
          /\ Cardinality(below(q)) # Cardinality(below(r))
      BY <2>1, <2>2, FS_Subset
    <2>4. Cardinality(below(q)) \in Nat /\ Cardinality(below(r)) \in Nat
      BY <2>2, FS_CardinalityType
    <2> QED
      BY <2>3, <2>4
  <1>4. rank \in Injection(rs, ranks)
    <2>1. rank \in [rs -> ranks]
      BY <1>2
    <2>2. ASSUME NEW q \in rs, NEW r \in rs, rank[q] = rank[r] PROVE q = r
      <3>1. rank[q] \in Int /\ rank[r] \in Int
        BY <1>2
      <3>2. ~(q < r) /\ ~(r < q)
        BY <1>3, <2>2, <3>1
      <3> QED
        BY <3>2
    <2> HIDE DEF rank, ranks
    <2> QED
      BY <2>1, <2>2 DEF Injection, IsInjective
  <1>5. IsFiniteSet(ranks) /\ Cardinality(ranks) = Cardinality(rs)
    <2>1. 0 \in Int /\ Cardinality(rs) - 1 \in Int
      BY <1>1
    <2>2. /\ IsFiniteSet(ranks)
          /\ Cardinality(ranks) = IF 0 > Cardinality(rs) - 1 THEN 0 ELSE Cardinality(rs) - 1 - 0 + 1
      BY <2>1, FS_Interval
    <2> HIDE DEF ranks
    <2> QED
      BY <1>1, <2>2
  <1>6. rank \in Surjection(rs, ranks)
    <2> HIDE DEF rank, ranks
    <2> QED
      BY <1>4, <1>5, FS_Injection
  <1>7. i \in ranks
    BY <1>1
  <1>8. \E r \in rs : rank[r] = i
    <2> HIDE DEF rank, ranks
    <2> QED
      BY <1>6, <1>7 DEF Surjection
  <1> QED
    BY <1>8

LEMMA DuplicateStep ==
    ASSUME NEW tab, Sound(tab), NEW p
    PROVE  Sound(DuplicatePlan(tab, p))
  <1> DEFINE rs == RowsOf(tab, p)
             n == Cardinality(rs)
             new == tab.nextRow .. tab.nextRow + n - 1
             copy(i) == CHOOSE r \in rs : Cardinality({q \in rs : q < r}) = i - tab.nextRow
             row(i) == [tab.rows[copy(i)] EXCEPT !.plan = tab.nextPlan]
             rows == [i \in DOMAIN tab.rows \cup new |-> IF i \in new THEN row(i) ELSE tab.rows[i]]
  <1>1. tab.nextRow \in Nat /\ tab.nextPlan \in Nat /\ tab.plans \in SUBSET Nat
    BY DEF Sound, Tables
  <1>2. rs \in SUBSET Nat /\ rs \subseteq DOMAIN tab.rows /\ \A r \in rs : r <= tab.nextRow
    BY <1>1 DEF RowsOf, Sound
  <1>3. IsFiniteSet(rs) /\ n \in Nat
    <2> HIDE DEF rs
    <2>1. IsFiniteSet(rs)
      BY <1>1, <1>2, FS_BoundedSetOfNaturals
    <2> QED
      BY <2>1, FS_CardinalityType
  <1>4. ASSUME NEW i \in new PROVE copy(i) \in rs
    <2> HIDE DEF rs
    <2>1. i - tab.nextRow \in Nat /\ i - tab.nextRow < Cardinality(rs)
      BY <1>1, <1>3
    <2>2. \E r \in rs : Cardinality({q \in rs : q < r}) = i - tab.nextRow
      BY <1>2, <1>3, <2>1, CopiesAreRows
    <2> QED
      BY <2>2
  <1>5. ASSUME NEW i \in new PROVE ProperRow(row(i))
    <2> DEFINE c == tab.rows[copy(i)]
    <2>1. ProperRow(c)
      BY <1>2, <1>4 DEF Sound, ProperRows
    <2> HIDE DEF c
    <2>2. ProperRow([c EXCEPT !.plan = tab.nextPlan])
      BY <2>1 DEF ProperRow
    <2> QED
      BY <2>2 DEF c
  <1>6. ProperRows(rows)
    <2> HIDE DEF row, new
    <2> QED
      BY <1>5 DEF Sound, ProperRows
  <1>7. \A r \in DOMAIN rows : r \in Nat /\ r < tab.nextRow + n
    <2>1. \A r \in DOMAIN tab.rows : r \in Nat /\ r < tab.nextRow
      BY DEF Sound
    <2> HIDE DEF rs, n, row
    <2> QED
      BY <1>1, <1>3, <2>1
  <1>8. DuplicatePlan(tab, p) = [plans |-> tab.plans \cup {tab.nextPlan}, rows |-> rows,
                               nextPlan |-> tab.nextPlan + 1, nextRow |-> tab.nextRow + n]
    BY DEF DuplicatePlan
  <1>9. /\ tab.plans \cup {tab.nextPlan} \in SUBSET Nat /\ tab.nextPlan + 1 \in Nat
        /\ \A q \in tab.plans \cup {tab.nextPlan} : q < tab.nextPlan + 1
        /\ tab.nextRow + n \in Nat
    BY <1>1, <1>3 DEF Sound
  <1> DEFINE ps == tab.plans \cup {tab.nextPlan}
             np == tab.nextPlan + 1
             nr == tab.nextRow + n
  <1>10. [plans |-> ps, rows |-> rows, nextPlan |-> np, nextRow |-> nr]
            \in Tables(rows)
    <2> HIDE DEF ps, np, nr, rows
    <2>1. ps \in SUBSET Nat /\ np \in Nat /\ nr \in Nat
      BY <1>9 DEF ps, np, nr
    <2> QED
      BY <2>1 DEF Tables
  <1> HIDE DEF rows, n
  <1> QED
    BY <1>6, <1>7, <1>8, <1>9, <1>10 DEF Sound

\* Only these change how many plans there are.
LEMMA RowsOnly ==
    ASSUME NEW tab, Sound(tab)
    PROVE  /\ \A rs : DropRows(tab, rs).plans = tab.plans
           /\ \A p : Reset(tab, p).plans = tab.plans /\ RefreshAll(tab, p).plans = tab.plans
           /\ \A r : RemoveCourse(tab, r).plans = tab.plans /\ FetchSections(tab, r).plans = tab.plans
           /\ \A p, code : AddCourse(tab, p, code).plans = tab.plans
           /\ \A r, ids : SelectSections(tab, r, ids).plans = tab.plans
           /\ tab.plans # {} => ListPlans(tab) = tab
  <1>1. \A rs : DropRows(tab, rs).plans = tab.plans
    BY DEF Sound, Tables, DropRows
  <1>2. \A p : RefreshAll(tab, p).plans = tab.plans
    BY DEF Sound, Tables, RefreshAll
  <1>3. \A r : FetchSections(tab, r).plans = tab.plans
    BY DEF Sound, Tables, FetchSections
  <1>4. \A p, code : AddCourse(tab, p, code).plans = tab.plans
    BY DEF Sound, Tables, AddCourse
  <1>5. \A r, ids : SelectSections(tab, r, ids).plans = tab.plans
    BY DEF Sound, Tables, SelectSections
  <1> QED
    BY <1>1, <1>2, <1>3, <1>4, <1>5 DEF Reset, RemoveCourse, ListPlans

LEMMA PlansCounted ==
    ASSUME NEW tab, Sound(tab)
    PROVE  /\ IsFiniteSet(tab.plans) /\ Cardinality(tab.plans) \in Nat
           /\ Cardinality(tab.plans) = 0 => tab.plans = {}
           /\ Cardinality(CreatePlan(tab).plans) = Cardinality(tab.plans) + 1
           /\ \A p : Cardinality(DuplicatePlan(tab, p).plans) = Cardinality(tab.plans) + 1
           /\ \A p \in tab.plans : Cardinality(DeletePlan(tab, p).plans) = Cardinality(tab.plans) - 1
  <1>1. tab.plans \in SUBSET Nat /\ tab.nextPlan \in Nat /\ \A p \in tab.plans : p < tab.nextPlan
    BY DEF Sound, Tables
  <1>2. IsFiniteSet(tab.plans)
    <2>1. \A p \in tab.plans : p <= tab.nextPlan
      BY <1>1
    <2> QED
      BY <1>1, <2>1, FS_BoundedSetOfNaturals
  <1>3. Cardinality(tab.plans) \in Nat /\ (Cardinality(tab.plans) = 0 => tab.plans = {})
    BY <1>2, FS_CardinalityType, FS_EmptySet
  <1>4. tab.nextPlan \notin tab.plans
    BY <1>1
  <1>5. Cardinality(tab.plans \cup {tab.nextPlan}) = Cardinality(tab.plans) + 1
    BY <1>2, <1>4, FS_AddElement
  <1>6. CreatePlan(tab).plans = tab.plans \cup {tab.nextPlan}
    BY DEF CreatePlan, Sound, Tables
  <1>7. ASSUME NEW p PROVE DuplicatePlan(tab, p).plans = tab.plans \cup {tab.nextPlan}
    BY DEF DuplicatePlan
  <1>8. ASSUME NEW p \in tab.plans
        PROVE  Cardinality(DeletePlan(tab, p).plans) = Cardinality(tab.plans) - 1
    <2> DEFINE e == DropRows(tab, RowsOf(tab, p))
    <2>1. e.plans = tab.plans /\ e \in Tables(e.rows)
      BY DEF Sound, Tables, DropRows
    <2> HIDE DEF e
    <2>2. DeletePlan(tab, p).plans = tab.plans \ {p}
      BY <2>1 DEF DeletePlan, e, Tables
    <2> QED
      BY <1>2, <2>2, FS_RemoveElement
  <1> QED
    BY <1>2, <1>3, <1>5, <1>6, <1>7, <1>8

-----------------------------------------------------------------------------
(* The builder tab over them. *)
Kinds == {"select", "restore", "remove", "sections", "add", "refresh", "build", "reset",
          "create", "duplicate", "delete"}

ProperPlan(p) == p \in [id : {p.id}, courses : {p.courses}] /\ ProperRows(p.courses)
ProperCall(c) ==
    /\ c \in [kind : Kinds, n : {c.n}, plan : {c.plan}, row : {c.row}, ids : {c.ids},
              code : {c.code}, prev : {c.prev}, res : {c.res}, st : {"sent", "checked", "done"},
              ok : BOOLEAN, live : BOOLEAN]
    /\ c.st = "checked" => c.kind \in {"create", "duplicate", "delete"}
    /\ Proper(c.ids.secs) /\ ProperPlan(c.prev) /\ ProperRow(c.res)
ProperSnapshot(s) ==
    s \in [plan : {s.plan}, ids : {s.ids}] /\ \A r \in DOMAIN s.ids : Proper(s.ids[r].secs)

\* Whatever may be written to a selection sometime is proper: what is stored, cached,
\* being fetched, asked for, answered, to be taken back or to be restored.
CacheInv == \A k \in DOMAIN cache : ProperPlan(cache[k])
FetchInv == \A k \in DOMAIN fetch : ProperPlan(fetch[k].data)
CallsInv == \A c \in calls : ProperCall(c)
UndoInv == ProperSnapshot(snapshot) /\ ProperSnapshot(undo)
SelectionInv == Sound(db) /\ CacheInv /\ FetchInv /\ CallsInv /\ UndoInv

LEMMA Nothing ==
    ProperPlan(NoPlan) /\ ProperRow(AnyRow) /\ ProperSnapshot(NoSnapshot) /\ Proper(NoIds.secs)
  BY DEF ProperPlan, NoPlan, ProperRow, ProperRows, AnyRow, ProperSnapshot, NoSnapshot, Proper,
     NoIds

LEMMA NewCall ==
    ASSUME NEW kind \in Kinds, NEW plan
    PROVE  /\ ProperCall(Call(kind, plan))
           /\ \A r : ProperCall([Call(kind, plan) EXCEPT !.row = r])
           /\ \A code : ProperCall([Call(kind, plan) EXCEPT !.code = code])
           /\ \A r, ids : Proper(ids.secs) =>
                ProperCall([Call(kind, plan) EXCEPT !.row = r, !.ids = ids])
           /\ \A r, ids, prev : Proper(ids.secs) /\ ProperPlan(prev) =>
                ProperCall([Call(kind, plan) EXCEPT !.row = r, !.ids = ids, !.prev = prev])
  <1>1. ProperCall(Call(kind, plan))
    BY Nothing DEF ProperCall, Call
  <1> DEFINE c == Call(kind, plan)
  <1> HIDE DEF c
  <1>2. ProperCall(c)
    BY <1>1 DEF c
  <1>3. ASSUME NEW r PROVE ProperCall([c EXCEPT !.row = r])
    BY <1>2 DEF ProperCall
  <1>4. ASSUME NEW code PROVE ProperCall([c EXCEPT !.code = code])
    BY <1>2 DEF ProperCall
  <1>5. ASSUME NEW r, NEW ids, Proper(ids.secs)
        PROVE  ProperCall([c EXCEPT !.row = r, !.ids = ids])
    BY <1>2, <1>5 DEF ProperCall
  <1>6. ASSUME NEW r, NEW ids, NEW prev, Proper(ids.secs), ProperPlan(prev)
        PROVE  ProperCall([c EXCEPT !.row = r, !.ids = ids, !.prev = prev])
    BY <1>2, <1>6 DEF ProperCall
  <1> QED
    BY <1>1, <1>3, <1>4, <1>5, <1>6 DEF c

LEMMA CallGoesOn ==
    ASSUME NEW c, ProperCall(c)
    PROVE  /\ \A plan : ProperCall([c EXCEPT !.live = FALSE, !.plan = plan])
           /\ ProperCall([c EXCEPT !.live = FALSE])
           /\ c.kind \in {"create", "duplicate", "delete"} => ProperCall([c EXCEPT !.st = "checked"])
           /\ \A ok \in BOOLEAN : \A res : ProperRow(res) =>
                ProperCall([c EXCEPT !.st = "done", !.ok = ok, !.res = res])
  BY ZenonT(40) DEF ProperCall

LEMMA SupersedeKeeps ==
    ASSUME CallsInv, NEW kind, NEW c \in Supersede(kind)
    PROVE  ProperCall(c)
  BY CallGoesOn, ZenonT(40) DEF Supersede, CallsInv

LEMMA PlannerProper == ASSUME CacheInv PROVE ProperPlan(planner)
  BY Nothing DEF planner, CacheInv

LEMMA InvalidateKeeps ==
    ASSUME CacheInv, FetchInv, NEW k, Invalidate(k)
    PROVE  CacheInv' /\ FetchInv' /\ cache' = cache
  BY Nothing DEF Invalidate, CacheInv, FetchInv, Put, Asked

LEMMA AnswerKeeps ==
    ASSUME CallsInv, NEW c \in calls, NEW ok \in BOOLEAN, NEW res, ProperRow(res),
           Answer(c, ok, res)
    PROVE  CallsInv'
  <1>1. ProperCall(c)
    BY DEF CallsInv
  <1> DEFINE d == [c EXCEPT !.st = "done", !.ok = ok, !.res = res]
  <1>2. ProperCall(d)
    BY <1>1, CallGoesOn
  <1>3. calls' = (calls \ {c}) \cup {d}
    BY DEF Answer
  <1> HIDE DEF d
  <1> QED
    BY <1>2, <1>3 DEF CallsInv

LEMMA RefuseKeeps ==
    ASSUME CallsInv, NEW c \in calls, Refuse(c)
    PROVE  CallsInv' /\ db' = db
  BY AnswerKeeps, Nothing DEF Refuse

LEMMA PlanProper == ASSUME NEW d, Sound(d), NEW p PROVE ProperPlan(Plan(d, p))
  BY DEF Plan, ProperPlan, ProperRows, Restrict, RowsOf, Sound

-----------------------------------------------------------------------------
(* Selections: one lemma per group of actions.                             *)

LEMMA AtMostOne ==
    ASSUME NEW n \in SUBSET Sections, Cardinality(n) <= 1, NEW s \in n, NEW t \in n
    PROVE  s = t
  <1>1. IsFiniteSet(n)
    BY PlannerAssumption, FS_Subset
  <1>2. IsFiniteSet({s}) /\ Cardinality({s}) = 1
    BY FS_Singleton
  <1>3. Cardinality(n) \in Nat /\ Cardinality({s}) <= Cardinality(n)
    BY <1>1, FS_Subset, FS_CardinalityType
  <1>4. {s} = n
    BY <1>1, <1>2, <1>3, FS_Subset
  <1> QED
    BY <1>4

LEMMA EffectsKeepSelections == ASSUME SelectionInv, Effects PROVE SelectionInv'
  <1> USE DEF SelectionInv
  <1>1. CASE Watch
    <2>1. FetchInv'
      BY <1>1, Nothing DEF Watch, FetchInv, Put, Asked
    <2> QED
      BY <1>1, <2>1 DEF Watch, CacheInv, CallsInv, UndoInv, undoing
  <1>2. CASE SelectFirstPlan
    BY <1>2 DEF SelectFirstPlan, CacheInv, FetchInv, CallsInv, UndoInv, undoing, queries
  <1>3. CASE ResetForPlan
    BY <1>3, Nothing DEF ResetForPlan, CacheInv, FetchInv, CallsInv, UndoInv, queries
  <1>4. CASE AutoFetch
    <2>1. \A r : ProperCall([Call("sections", selected) EXCEPT !.row = r])
      BY NewCall DEF Kinds
    <2>2. CallsInv'
      BY <1>4, <2>1 DEF AutoFetch, CallsInv
    <2> QED
      BY <1>4, <2>2 DEF AutoFetch, CacheInv, FetchInv, UndoInv, queries, undoing
  <1> QED
    BY <1>1, <1>2, <1>3, <1>4 DEF Effects

LEMMA ClicksKeepSelections == ASSUME SelectionInv, Student PROVE SelectionInv'
  <1> USE DEF SelectionInv
  <1>1. CASE SwitchPlan
    BY <1>1 DEF SwitchPlan, CacheInv, FetchInv, CallsInv, UndoInv, queries, undoing
  <1>2. ASSUME NEW r \in Courses, NEW type, NEW n, \A s, t \in n : s = t, Pick(r, type, n)
        PROVE  SelectionInv'
    <2> DEFINE row == planner.courses[r]
               ids == NextIds(row, type, n)
               c == [Call("select", selected) EXCEPT !.row = r, !.ids = ids, !.prev = planner]
    <2>1. ProperPlan(planner) /\ ProperRow(row)
      BY PlannerProper DEF Courses, ProperPlan, ProperRows
    <2>2. Proper(ids.secs)
      <3>1. Proper(row.sel) /\ \A s \in n : SectionType[s] = type
        BY <1>2, <2>1 DEF Pick, ProperRow
      <3> QED
        BY <1>2, <3>1, ProperPick DEF NextIds
    <2>3. ProperCall(c)
      BY <2>1, <2>2, NewCall DEF Kinds
    <2>4. CallsInv'
      <3>1. calls' = Supersede("select") \cup {c}
        BY <1>2 DEF Pick
      <3> HIDE DEF c
      <3> QED
        BY <2>3, <3>1, SupersedeKeeps DEF CallsInv
    <2>5. CacheInv'
      <3>1. selected \in DOMAIN cache /\ planner = cache[selected]
        BY DEF planner, Courses, NoPlan
      <3>2. cache' = [cache EXCEPT ![selected].courses[r].sel = ids.secs]
        BY <1>2 DEF Pick
      <3> DEFINE courses == [cache[selected].courses EXCEPT ![r].sel = ids.secs]
                 p == [cache[selected] EXCEPT !.courses = courses]
      <3>3. ProperRows(courses)
        BY <2>1, <2>2, <3>1 DEF ProperPlan, ProperRows, ProperRow
      <3>4. ProperPlan(p)
        <4> HIDE DEF courses
        <4> QED
          BY <2>1, <3>1, <3>3 DEF ProperPlan
      <3>5. cache' = [cache EXCEPT ![selected] = p]
        BY <3>2
      <3> HIDE DEF p
      <3> QED
        BY <3>4, <3>5 DEF CacheInv
    <2>6. FetchInv'
      BY <1>2 DEF Pick, FetchInv, Restrict
    <2> QED
      BY <1>2, <2>4, <2>5, <2>6 DEF Pick, UndoInv, undoing
  <1>3. CASE PickSection
    <2>1. PICK r \in Courses, type \in {SectionType[s] : s \in Sections}, n \in SUBSET Sections :
                 Cardinality(n) <= 1 /\ Pick(r, type, n)
      BY <1>3 DEF PickSection
    <2>2. \A s, t \in n : s = t
      BY <2>1, AtMostOne
    <2> QED
      BY <1>2, <2>1, <2>2
  <1>4. CASE AddCourseClicked
    <2>1. \A code : ProperCall([Call("add", selected) EXCEPT !.code = code])
      BY NewCall DEF Kinds
    <2>2. CallsInv'
      BY <1>4, <2>1 DEF AddCourseClicked, CallsInv
    <2> QED
      BY <1>4, <2>2 DEF AddCourseClicked, CacheInv, FetchInv, UndoInv, queries, undoing
  <1>5. CASE RemoveClicked
    <2>1. \A r : ProperCall([Call("remove", selected) EXCEPT !.row = r])
      BY NewCall DEF Kinds
    <2>2. PICK r \in Courses :
                 calls' = Supersede("remove") \cup {[Call("remove", selected) EXCEPT !.row = r]}
      BY <1>5 DEF RemoveClicked
    <2>3. CallsInv'
      BY <2>1, <2>2, SupersedeKeeps DEF CallsInv
    <2> QED
      BY <1>5, <2>3 DEF RemoveClicked, CacheInv, FetchInv, UndoInv, queries, undoing
  <1>6. CASE RefreshClicked
    <2>1. ProperCall(Call("refresh", selected))
      BY NewCall DEF Kinds
    <2>2. CallsInv'
      BY <1>6, <2>1 DEF RefreshClicked, CallsInv
    <2> QED
      BY <1>6, <2>2 DEF RefreshClicked, CacheInv, FetchInv, UndoInv, queries, undoing
  <1>7. CASE BuildClicked
    <2>1. ProperCall(Call("build", selected))
      BY NewCall DEF Kinds
    <2>2. CallsInv'
      BY <1>7, <2>1 DEF BuildClicked, CallsInv
    <2>3. \A r \in DOMAIN Captured : Proper(Captured[r].secs)
      BY PlannerProper DEF Captured, Courses, ProperPlan, ProperRows, ProperRow
    <2>4. snapshot' = [plan |-> selected, ids |-> Captured] /\ undo' = undo
      BY <1>7 DEF BuildClicked
    <2>5. UndoInv'
      BY <2>3, <2>4 DEF UndoInv, ProperSnapshot
    <2> QED
      BY <1>7, <2>2, <2>5 DEF BuildClicked, CacheInv, FetchInv, queries
  <1>8. CASE UndoClicked
    <2>1. \A r \in DOMAIN undo.ids :
             ProperCall([Call("restore", undo.plan) EXCEPT !.row = r, !.ids = undo.ids[r]])
      BY NewCall DEF Kinds, UndoInv, ProperSnapshot
    <2>2. CallsInv'
      BY <1>8, <2>1 DEF UndoClicked, CallsInv
    <2>3. UndoInv'
      BY <1>8, Nothing DEF UndoClicked, UndoInv
    <2> QED
      BY <1>8, <2>2, <2>3 DEF UndoClicked, CacheInv, FetchInv, queries
  <1>9. ASSUME NEW kind \in {"reset", "create", "duplicate", "delete"}, PlanClicked(kind)
        PROVE  SelectionInv'
    <2>1. ProperCall(Call(kind, selected))
      BY NewCall DEF Kinds
    <2>2. CallsInv'
      BY <1>9, <2>1 DEF PlanClicked, CallsInv
    <2> QED
      BY <1>9, <2>2 DEF PlanClicked, CacheInv, FetchInv, UndoInv, queries, undoing
  <1> QED
    BY <1>1, <1>3, <1>4, <1>5, <1>6, <1>7, <1>8, <1>9 DEF Student

LEMMA ServiceKeepsSelections ==
    ASSUME SelectionInv, Service \/ \E c \in calls : Lose(c)
    PROVE  SelectionInv'
  <1> USE DEF SelectionInv
  <1>1. ASSUME NEW c \in calls, Sound(db'), CallsInv', Serving
        PROVE  SelectionInv'
    BY <1>1 DEF Serving, CacheInv, FetchInv, UndoInv, queries, undoing
  <1>2. ASSUME NEW c \in calls, ServeCourse(c) PROVE SelectionInv'
    <2>1. CASE Refuse(c)
      BY <1>1, <1>2, <2>1, RefuseKeeps DEF ServeCourse
    <2>2. CASE ~Refuse(c)
      <3>1. c.row \in DOMAIN db.rows /\ Proper(c.ids.secs)
        BY <1>2, <2>2 DEF ServeCourse, CallsInv, ProperCall
      <3>2. Sound(db')
        <4>1. /\ c.kind \in {"select", "restore"} /\ db' = SelectSections(db, c.row, c.ids)
              \/ db' = RemoveCourse(db, c.row)
              \/ db' = FetchSections(db, c.row)
          BY <1>2, <2>2, <3>1 DEF ServeCourse
        <4> QED
          BY <3>1, <4>1, SmallSteps
      <3>3. c.kind # "remove" => c.row \in DOMAIN db'.rows
        BY <1>2, <2>2, <3>1 DEF ServeCourse, SelectSections, FetchSections, Sound, Tables
      <3>4. ProperRow(IF c.kind = "remove" THEN AnyRow ELSE db'.rows[c.row])
        BY <3>2, <3>3, Nothing DEF Sound, ProperRows
      <3>5. CallsInv'
        BY <1>2, <2>2, <3>4, AnswerKeeps DEF ServeCourse
      <3> QED
        BY <1>1, <1>2, <3>2, <3>5 DEF ServeCourse
    <2> QED
      BY <2>1, <2>2
  <1>3. ASSUME NEW c \in calls, ServePlan(c) PROVE SelectionInv'
    <2>1. CASE Refuse(c)
      BY <1>1, <1>3, <2>1, RefuseKeeps DEF ServePlan
    <2>2. CASE ~Refuse(c)
      <3>1. Sound(db')
        <4>1. \/ db' = AddCourse(db, c.plan, c.code)
              \/ db' = RefreshAll(db, c.plan)
              \/ db' \in AutoBuilds(db, c.plan)
              \/ db' = Reset(db, c.plan)
          BY <1>3, <2>2 DEF ServePlan
        <4> QED
          BY <4>1, SmallSteps, BuildStep
      <3>2. CallsInv'
        BY <1>3, <2>2, AnswerKeeps, Nothing DEF ServePlan
      <3> QED
        BY <1>1, <1>3, <3>1, <3>2 DEF ServePlan
    <2> QED
      BY <2>1, <2>2
  <1>4. ASSUME NEW c \in calls, CheckCount(c) PROVE SelectionInv'
    <2>1. CASE Refuse(c)
      BY <1>1, <1>4, <2>1, RefuseKeeps DEF CheckCount
    <2>2. CASE ~Refuse(c)
      <3>1. ProperCall([c EXCEPT !.st = "checked"])
        BY <1>4, CallGoesOn DEF CallsInv, CheckCount
      <3>2. CallsInv' /\ db' = db
        BY <1>4, <2>2, <3>1 DEF CheckCount, CallsInv
      <3> QED
        BY <1>1, <1>4, <3>2 DEF CheckCount
    <2> QED
      BY <2>1, <2>2
  <1>5. ASSUME NEW c \in calls, WritePlans(c) PROVE SelectionInv'
    <2>1. CASE Refuse(c)
      BY <1>1, <1>5, <2>1, RefuseKeeps DEF WritePlans
    <2>2. CASE ~Refuse(c)
      <3> DEFINE res == [AnyRow EXCEPT !.plan = db.nextPlan]
      <3>1. ProperRow(res)
        BY Nothing DEF ProperRow
      <3>2. Answer(c, TRUE, res)
        BY <1>5, <2>2 DEF WritePlans
      <3> HIDE DEF res
      <3>3. CallsInv'
        BY <3>1, <3>2, AnswerKeeps
      <3>4. Sound(db')
        <4>1. c.kind \in {"create", "duplicate", "delete"}
          BY <1>5 DEF WritePlans, CallsInv, ProperCall
        <4>2. \/ db' = CreatePlan(db)
              \/ db' = DuplicatePlan(db, c.plan)
              \/ db' = DeletePlan(db, c.plan)
          BY <1>5, <2>2, <4>1 DEF WritePlans
        <4> QED
          BY <4>2, SmallSteps, DuplicateStep
      <3> QED
        BY <1>1, <1>5, <3>3, <3>4 DEF WritePlans
    <2> QED
      BY <2>1, <2>2
  <1>6. CASE ServeList
    <2>1. Sound(db')
      BY <1>6, SmallSteps DEF ServeList
    <2> QED
      BY <1>6, <2>1 DEF ServeList, CacheInv, FetchInv, CallsInv, UndoInv, undoing
  <1>7. CASE ServeSchedule
    <2>1. FetchInv'
      BY <1>7, PlanProper, Nothing DEF ServeSchedule, FetchInv
    <2> QED
      BY <1>7, <2>1 DEF ServeSchedule, CacheInv, CallsInv, UndoInv, undoing
  <1>8. ASSUME NEW c \in calls, Lose(c) PROVE SelectionInv'
    BY <1>1, <1>8, RefuseKeeps DEF Lose
  <1> QED
    BY <1>2, <1>3, <1>4, <1>5, <1>6, <1>7, <1>8 DEF Service, Serve

LEMMA AnswersKeepSelections == ASSUME SelectionInv, Arrivals PROVE SelectionInv'
  <1> USE DEF SelectionInv
  <1>1. CASE ListArrives
    BY <1>1 DEF ListArrives, CacheInv, FetchInv, CallsInv, UndoInv, undoing
  <1>2. CASE ScheduleArrives
    <2>1. CacheInv' /\ FetchInv'
      BY <1>2 DEF ScheduleArrives, CacheInv, FetchInv, Put, Restrict
    <2> QED
      BY <1>2, <2>1 DEF ScheduleArrives, CallsInv, UndoInv, undoing
  <1>3. ASSUME NEW c \in calls, SelectReturns(c) PROVE SelectionInv'
    <2>1. CallsInv'
      BY <1>3 DEF SelectReturns, Returns, CallsInv
    <2>2. ProperPlan(c.prev) /\ ProperRow(c.res)
      BY DEF CallsInv, ProperCall
    <2> DEFINE k == PlanAt(c)
    <2>3. \/ cache' = cache
          \/ cache' = Put(cache, k, c.prev)
          \/ /\ k \in DOMAIN cache /\ c.row \in DOMAIN cache[k].courses
             /\ cache' = [cache EXCEPT ![k].courses[c.row] = c.res]
      BY <1>3 DEF SelectReturns
    <2> HIDE DEF k
    <2>4. ASSUME cache' = cache \/ cache' = Put(cache, k, c.prev) PROVE CacheInv'
      BY <2>2, <2>4 DEF CacheInv, Put
    <2>5. ASSUME k \in DOMAIN cache, cache' = [cache EXCEPT ![k].courses[c.row] = c.res]
          PROVE  CacheInv'
      <3> DEFINE courses == [cache[k].courses EXCEPT ![c.row] = c.res]
                 p == [cache[k] EXCEPT !.courses = courses]
      <3>1. ProperPlan(cache[k])
        BY <2>5 DEF CacheInv
      <3>2. ProperRows(courses)
        BY <2>2, <3>1 DEF ProperPlan, ProperRows
      <3>3. ProperPlan(p)
        <4> HIDE DEF courses
        <4> QED
          BY <3>1, <3>2 DEF ProperPlan
      <3>4. cache' = [cache EXCEPT ![k] = p]
        BY <2>5
      <3> HIDE DEF p
      <3> QED
        BY <3>3, <3>4 DEF CacheInv
    <2> QED
      BY <1>3, <2>1, <2>3, <2>4, <2>5 DEF SelectReturns, FetchInv, UndoInv, undoing
  <1>4. ASSUME NEW c \in calls, NEW kinds, Returns(c, kinds) PROVE CallsInv'
    BY <1>4 DEF Returns, CallsInv
  <1>5. ASSUME UNCHANGED queries \/ \E k : Invalidate(k) PROVE CacheInv' /\ FetchInv'
    <2>1. CASE UNCHANGED queries
      BY <2>1 DEF queries, CacheInv, FetchInv
    <2> QED
      BY <1>5, <2>1, InvalidateKeeps
  <1>6. ASSUME NEW c \in calls, PlainReturns(c) \/ SectionsReturn(c) \/ RefreshReturns(c) \/ PlansReturn(c)
        PROVE  SelectionInv'
    <2>1. CallsInv'
      BY <1>4, <1>6 DEF PlainReturns, SectionsReturn, RefreshReturns, PlansReturn
    <2>2. CacheInv' /\ FetchInv'
      BY <1>5, <1>6 DEF PlainReturns, SectionsReturn, RefreshReturns, PlansReturn
    <2>3. db' = db /\ UNCHANGED undoing
      BY <1>6 DEF PlainReturns, SectionsReturn, RefreshReturns, PlansReturn
    <2> QED
      BY <2>1, <2>2, <2>3 DEF UndoInv, undoing
  <1>7. ASSUME NEW c \in calls, BuildReturns(c) PROVE SelectionInv'
    <2>1. CallsInv'
      BY <1>4, <1>7 DEF BuildReturns
    <2>2. CacheInv' /\ FetchInv'
      BY <1>5, <1>7 DEF BuildReturns
    <2>3. UndoInv'
      <3>1. ProperSnapshot([snapshot EXCEPT !.plan = PlanAt(c)])
        BY DEF UndoInv, ProperSnapshot
      <3> QED
        BY <1>7, <3>1, Nothing DEF BuildReturns, UndoInv
    <2> QED
      BY <1>7, <2>1, <2>2, <2>3 DEF BuildReturns
  <1>8. ASSUME NEW c \in calls, RestoreReturns(c) PROVE SelectionInv'
    <2>1. CallsInv'
      BY <1>8, CallGoesOn DEF RestoreReturns, CallsInv
    <2>2. CacheInv' /\ FetchInv'
      BY <1>5, <1>8 DEF RestoreReturns, undoing
    <2>3. UndoInv'
      BY <1>8, Nothing DEF RestoreReturns, UndoInv
    <2> QED
      BY <1>8, <2>1, <2>2, <2>3 DEF RestoreReturns
  <1> QED
    BY <1>1, <1>2, <1>3, <1>6, <1>7, <1>8 DEF Arrivals, Return

LEMMA SelectionInit == Init => SelectionInv
  <1> SUFFICES ASSUME Init PROVE SelectionInv
    OBVIOUS
  <1>1. Sound(db)
    <2>1. db = InitDatabase /\ IsDatabase(db) /\ \A r \in DOMAIN db.rows : Proper(db.rows[r].sel)
      BY BuilderAssumption DEF Init
    <2>2. db \in Tables(db.rows)
      BY <2>1 DEF IsDatabase, Tables
    <2>3. ProperRows(db.rows)
      BY <2>1 DEF IsDatabase, Row, ProperRows, ProperRow
    <2> QED
      BY <2>1, <2>2, <2>3 DEF IsDatabase, Sound
  <1> QED
    BY <1>1, Nothing DEF Init, SelectionInv, CacheInv, FetchInv, CallsInv, UndoInv

LEMMA SelectionStep == ASSUME SelectionInv, [Next]_vars PROVE SelectionInv'
  <1>1. CASE UNCHANGED vars
    BY <1>1 DEF vars, queries, view, undoing, SelectionInv, CacheInv, FetchInv, CallsInv, UndoInv
  <1> QED
    BY <1>1, EffectsKeepSelections, ClicksKeepSelections, ServiceKeepsSelections,
       AnswersKeepSelections DEF Next

\* However selections, refreshes, auto-builds, undos and failures overtake each other,
\* no course has two sections of one type selected, stored or on screen
\* (computeNextSectionSelection in section-picker-drawer.tsx, select_sections).
THEOREM OneOfEachType == Spec => []OneSectionPerType
  <1>1. SelectionInv => OneSectionPerType
    BY PlannerProper DEF SelectionInv, Sound, ProperRows, ProperRow, OneSectionPerType, Courses,
       ProperPlan
  <1> QED
    BY <1>1, SelectionInit, SelectionStep, PTL DEF Spec

-----------------------------------------------------------------------------
(* Older answers.                                                          *)

\* A selection that no later one replaced is the newest of its course.
LatestInv == \A c \in Of("select") : c.live => latest[c.row] = c.ids

\* All steps but a choice of sections leave live selections as they are or end them.
LEMMA LatestKept ==
    ASSUME LatestInv, latest' = latest,
           \A c \in calls' : c.kind = "select" /\ c.live =>
               \E d \in calls : d.kind = "select" /\ d.live /\ d.row = c.row /\ d.ids = c.ids
    PROVE  LatestInv'
  BY DEF LatestInv, Of

LEMMA AnswerKeepsLatest ==
    ASSUME CallsInv, LatestInv, latest' = latest, NEW c \in calls, NEW d, calls' = (calls \ {c}) \cup {d},
           \/ d = [c EXCEPT !.st = "checked"]
           \/ \E ok, res : d = [c EXCEPT !.st = "done", !.ok = ok, !.res = res]
           \/ d = [c EXCEPT !.live = FALSE]
    PROVE  LatestInv'
  <1>1. ProperCall(c)
    BY DEF CallsInv
  <1>2. d.kind = c.kind /\ d.row = c.row /\ d.ids = c.ids /\ (d.live => c.live)
    BY <1>1 DEF ProperCall
  <1> QED
    BY <1>2, LatestKept

LEMMA NewCallKeepsLatest ==
    ASSUME LatestInv, latest' = latest, NEW S, \A c \in S : c.kind # "select", calls' = calls \cup S
    PROVE  LatestInv'
  BY LatestKept

LEMMA CallKind ==
    ASSUME NEW kind, NEW plan
    PROVE  /\ Call(kind, plan).kind = kind
           /\ \A r : [Call(kind, plan) EXCEPT !.row = r].kind = kind
           /\ \A code : [Call(kind, plan) EXCEPT !.code = code].kind = kind
           /\ \A r, ids : [Call(kind, plan) EXCEPT !.row = r, !.ids = ids].kind = kind
  BY DEF Call

LEMMA LatestStep == ASSUME SelectionInv, LatestInv, [Next]_vars PROVE LatestInv'
  <1> USE DEF SelectionInv
  <1>1. CASE UNCHANGED vars \/ Watch \/ SelectFirstPlan \/ ResetForPlan \/ SwitchPlan \/ ServeList
             \/ ServeSchedule \/ ListArrives \/ ScheduleArrives
    BY <1>1, LatestKept DEF vars, Watch, SelectFirstPlan, ResetForPlan, SwitchPlan, ServeList,
       ServeSchedule, ListArrives, ScheduleArrives
  <1>2. CASE AutoFetch \/ AddCourseClicked \/ RefreshClicked \/ BuildClicked \/ UndoClicked
             \/ \E kind \in {"reset", "create", "duplicate", "delete"} : PlanClicked(kind)
    <2>1. latest' = latest
      BY <1>2 DEF AutoFetch, AddCourseClicked, RefreshClicked, BuildClicked, UndoClicked, PlanClicked
    <2>2. \E S : (\A c \in S : c.kind # "select") /\ calls' = calls \cup S
      <3>1. CASE AutoFetch
        <4> DEFINE S == {[Call("sections", selected) EXCEPT !.row = r] : r \in Unfetched}
        <4>1. calls' = calls \cup S
          BY <3>1 DEF AutoFetch
        <4>2. \A c \in S : c.kind # "select"
          BY CallKind
        <4> HIDE DEF S
        <4> QED
          BY <4>1, <4>2
      <3>2. CASE AddCourseClicked
        <4>1. PICK code \in Codes : calls' = calls \cup {[Call("add", selected) EXCEPT !.code = code]}
          BY <3>2 DEF AddCourseClicked
        <4> QED
          BY <4>1, CallKind, ZenonT(40)
      <3>3. CASE UndoClicked
        <4> DEFINE S == {[Call("restore", undo.plan) EXCEPT !.row = r, !.ids = undo.ids[r]] :
                           r \in DOMAIN undo.ids}
        <4>1. calls' = calls \cup S
          BY <3>3 DEF UndoClicked
        <4>2. \A c \in S : c.kind # "select"
          <5> DEFINE restore(r) == [Call("restore", undo.plan) EXCEPT !.row = r, !.ids = undo.ids[r]]
          <5>1. \A r : restore(r).kind = "restore"
            BY CallKind
          <5>2. S = {restore(r) : r \in DOMAIN undo.ids}
            OBVIOUS
          <5> HIDE DEF restore, S
          <5> QED
            BY <5>1, <5>2
        <4> HIDE DEF S
        <4> QED
          BY <4>1, <4>2
      <3>4. CASE RefreshClicked \/ BuildClicked
                 \/ \E kind \in {"reset", "create", "duplicate", "delete"} : PlanClicked(kind)
        <4>1. PICK kind \in Kinds \ {"select"} : calls' = calls \cup {Call(kind, selected)}
          BY <3>4 DEF RefreshClicked, BuildClicked, PlanClicked, Kinds
        <4> QED
          BY <4>1, CallKind
      <3> QED
        BY <1>2, <3>1, <3>2, <3>3, <3>4
    <2> QED
      BY <2>1, <2>2, NewCallKeepsLatest
  <1>3. ASSUME NEW kind, NEW c \in Supersede(kind), c.kind = "select", c.live
        PROVE  kind # "select" /\ c \in calls
    <2>1. PICK d \in calls :
                 c = IF d.kind = kind /\ d.live THEN [d EXCEPT !.live = FALSE, !.plan = selected] ELSE d
      BY DEF Supersede
    <2>2. ProperCall(d)
      BY DEF CallsInv
    <2>3. ~([d EXCEPT !.live = FALSE, !.plan = selected].live)
      BY <2>2 DEF ProperCall
    <2> QED
      BY <1>3, <2>1, <2>3
  <1>4. CASE RemoveClicked
    <2>1. latest' = latest
      BY <1>4 DEF RemoveClicked
    <2>2. \A c \in calls' : c.kind = "select" /\ c.live => c \in calls
      <3>1. PICK r \in Courses :
                 calls' = Supersede("remove") \cup {[Call("remove", selected) EXCEPT !.row = r]}
        BY <1>4 DEF RemoveClicked
      <3>2. [Call("remove", selected) EXCEPT !.row = r].kind = "remove"
        BY CallKind
      <3> QED
        BY <1>3, <3>1, <3>2
    <2> QED
      BY <2>1, <2>2, LatestKept
  <1>5. ASSUME NEW r \in Courses, NEW type, NEW n, Pick(r, type, n) PROVE LatestInv'
    <2> DEFINE ids == NextIds(planner.courses[r], type, n)
               new == [Call("select", selected) EXCEPT !.row = r, !.ids = ids, !.prev = planner]
    <2>1. latest' = Put(latest, r, ids) /\ calls' = Supersede("select") \cup {new}
      BY <1>5 DEF Pick
    <2>2. new.row = r /\ new.ids = ids
      BY DEF Call
    <2> HIDE DEF ids, new
    <2>3. latest'[r] = ids
      BY <2>1 DEF Put
    <2>4. ASSUME NEW c \in calls', c.kind = "select", c.live PROVE c = new
      BY <1>3, <2>1, <2>4
    <2> QED
      BY <2>2, <2>3, <2>4 DEF LatestInv, Of
  <1>6. ASSUME NEW c \in calls, Serve(c) \/ Lose(c) PROVE LatestInv'
    <2>1. latest' = latest
      BY <1>6 DEF Serve, Lose, ServeCourse, ServePlan, CheckCount, WritePlans, Serving
    <2>2. \/ \E ok, res : Answer(c, ok, res)
          \/ calls' = (calls \ {c}) \cup {[c EXCEPT !.st = "checked"]}
      BY <1>6 DEF Serve, Lose, ServeCourse, ServePlan, CheckCount, WritePlans, Refuse
    <2>3. \E d : /\ calls' = (calls \ {c}) \cup {d}
                /\ \/ d = [c EXCEPT !.st = "checked"]
                   \/ \E ok, res : d = [c EXCEPT !.st = "done", !.ok = ok, !.res = res]
      BY <2>2 DEF Answer
    <2> QED
      BY <2>1, <2>3, AnswerKeepsLatest
  <1>7. ASSUME NEW c \in calls, Return(c) PROVE LatestInv'
    <2>1. latest' = latest
      BY <1>7 DEF Return, SelectReturns, PlainReturns, SectionsReturn, RefreshReturns, BuildReturns,
         RestoreReturns, PlansReturn
    <2>2. CASE RestoreReturns(c)
      <3>1. ASSUME NEW e \in calls', e.kind = "select", e.live PROVE e \in calls
        <4>1. e \in calls \/ \E d \in calls : d.kind = "restore" /\ e = [d EXCEPT !.live = FALSE]
          BY <2>2 DEF RestoreReturns
        <4>2. \A d \in calls : ProperCall(d)
          BY DEF CallsInv
        <4>3. \A d \in calls : ~[d EXCEPT !.live = FALSE].live
          BY <4>2 DEF ProperCall
        <4> QED
          BY <3>1, <4>1, <4>3
      <3> QED
        BY <2>1, <3>1, LatestKept
    <2>3. CASE ~RestoreReturns(c)
      <3>1. calls' = calls \ {c}
        BY <1>7, <2>3 DEF Return, SelectReturns, PlainReturns, SectionsReturn, RefreshReturns,
           BuildReturns, PlansReturn, Returns
      <3> QED
        BY <2>1, <3>1, LatestKept
    <2> QED
      BY <2>2, <2>3
  <1> QED
    BY <1>1, <1>2, <1>4, <1>5, <1>6, <1>7 DEF Next, Effects, Student, Service, Arrivals, PickSection

\* A newer choice for a course is never undone on screen by the answer, or the failure,
\* of an older one, however many are on their way (latestSectionSelectionRef).
THEOREM OlderAnswersAreVoid == Spec => OlderAnswerChangesNothing
  <1> DEFINE Kept == \A c \in Of("select") \ calls' : latest[c.row] # c.ids => UNCHANGED cache
  <1>1. ASSUME SelectionInv, LatestInv, [Next]_vars PROVE Kept
    <2> SUFFICES ASSUME NEW c \in Of("select") \ calls', latest[c.row] # c.ids
                 PROVE  cache' = cache
      OBVIOUS
    <2>1. c \in calls /\ ~c.live /\ c.kind = "select"
      <3>1. c.live \in BOOLEAN
        BY <1>1 DEF SelectionInv, CallsInv, ProperCall, Of
      <3> QED
        BY <1>1, <3>1 DEF LatestInv, Of
    <2>2. CASE UNCHANGED vars
      BY <2>2 DEF vars, queries
    <2>3. CASE Effects
      BY <2>3 DEF Effects, Watch, SelectFirstPlan, ResetForPlan, AutoFetch, queries
    <2>4. CASE Student
      <3>1. ~PickSection
        <4>1. c \in Supersede("select")
          BY <2>1 DEF Supersede
        <4> QED
          BY <4>1 DEF PickSection, Pick
      <3> QED
        BY <2>4, <3>1 DEF Student, SwitchPlan, AddCourseClicked, RemoveClicked, RefreshClicked,
           BuildClicked, UndoClicked, PlanClicked, queries
    <2>5. CASE Service \/ \E d \in calls : Lose(d)
      BY <2>5 DEF Service, ServeList, ServeSchedule, Serve, ServeCourse, ServePlan, CheckCount,
         WritePlans, Lose, Serving, queries
    <2>6. CASE ListArrives \/ ScheduleArrives
      BY <2>1, <2>6 DEF ListArrives, ScheduleArrives
    <2>7. ASSUME NEW d \in calls, Return(d) PROVE cache' = cache
      <3>1. CASE SelectReturns(d)
        <4>1. d = c
          BY <2>1, <3>1 DEF SelectReturns, Returns
        <4> QED
          BY <3>1, <4>1 DEF SelectReturns, IsLatest
      <3>2. CASE ~SelectReturns(d)
        <4>1. UNCHANGED queries \/ \E k : Invalidate(k)
          BY <2>7, <3>2 DEF Return, PlainReturns, SectionsReturn, RefreshReturns, BuildReturns,
             RestoreReturns, PlansReturn
        <4> QED
          BY <4>1 DEF queries, Invalidate
      <3> QED
        BY <3>1, <3>2
    <2> QED
      BY <1>1, <2>2, <2>3, <2>4, <2>5, <2>6, <2>7 DEF Next, Arrivals
  <1>2. Init => LatestInv
    BY DEF Init, LatestInv, Of
  <1> QED
    BY <1>1, <1>2, SelectionInit, SelectionStep, LatestStep, PTL DEF Spec, OlderAnswerChangesNothing

-----------------------------------------------------------------------------
(* Courses shown as loading.                                               *)

Enders == {"refresh", "sections"}

\* The calls that end a loading are still on their way, and nothing more is loading.
LEMMA LoadsKept ==
    ASSUME EachLoadIsCalled, loading' \subseteq loading,
           \A c \in calls : c.kind \in Enders => \E d \in calls' : d.kind = c.kind /\ d.row = c.row
    PROVE  EachLoadIsCalled'
  BY DEF EachLoadIsCalled, Of, Enders

\* One call goes on, or several do, with its kind and course.
LEMMA CallKeepsCourse ==
    ASSUME NEW c, ProperCall(c)
    PROVE  /\ \A plan : LET d == [c EXCEPT !.live = FALSE, !.plan = plan]
                        IN  d.kind = c.kind /\ d.row = c.row
           /\ [c EXCEPT !.live = FALSE].kind = c.kind /\ [c EXCEPT !.live = FALSE].row = c.row
           /\ [c EXCEPT !.st = "checked"].kind = c.kind /\ [c EXCEPT !.st = "checked"].row = c.row
           /\ \A ok, res : LET d == [c EXCEPT !.st = "done", !.ok = ok, !.res = res]
                           IN  d.kind = c.kind /\ d.row = c.row
  BY DEF ProperCall

LEMMA SupersededGoesOn ==
    ASSUME CallsInv, NEW kind, NEW c \in calls
    PROVE  \E d \in Supersede(kind) : d.kind = c.kind /\ d.row = c.row
  <1> DEFINE next(d) == IF d.kind = kind /\ d.live THEN [d EXCEPT !.live = FALSE, !.plan = selected]
                        ELSE d
  <1>1. next(c) \in Supersede(kind)
    BY DEF Supersede
  <1>2. next(c).kind = c.kind /\ next(c).row = c.row
    BY CallKeepsCourse DEF CallsInv
  <1> QED
    BY <1>1, <1>2

LEMMA EffectsKeepLoads == ASSUME EachLoadIsCalled, Effects PROVE EachLoadIsCalled'
  <1>1. CASE Watch \/ SelectFirstPlan \/ ResetForPlan
    BY <1>1, LoadsKept DEF Watch, SelectFirstPlan, ResetForPlan, view
  <1>2. CASE AutoFetch
    <2> DEFINE new(r) == [Call("sections", selected) EXCEPT !.row = r]
    <2>1. loading' = loading \cup Unfetched /\ calls' = calls \cup {new(r) : r \in Unfetched}
      BY <1>2 DEF AutoFetch
    <2>2. \A r : new(r).kind = "sections" /\ new(r).row = r
      BY DEF Call
    <2> HIDE DEF new
    <2> QED
      BY <2>1, <2>2 DEF EachLoadIsCalled, Of
  <1> QED
    BY <1>1, <1>2 DEF Effects

LEMMA ClicksKeepLoads ==
    ASSUME CallsInv, EachLoadIsCalled, Student
    PROVE  EachLoadIsCalled'
  <1>1. CASE RefreshClicked
    <2>1. calls' = calls \cup {Call("refresh", selected)}
      BY <1>1 DEF RefreshClicked
    <2>2. Call("refresh", selected).kind = "refresh"
      BY CallKind
    <2> QED
      BY <2>1, <2>2 DEF EachLoadIsCalled, Of
  <1>2. CASE ~RefreshClicked
    <2>1. loading' = loading
      BY <1>2 DEF Student, SwitchPlan, PickSection, Pick, AddCourseClicked, RemoveClicked,
         BuildClicked, UndoClicked, PlanClicked, view
    <2>2. calls \subseteq calls' \/ \E kind : Supersede(kind) \subseteq calls'
      BY <1>2 DEF Student, SwitchPlan, PickSection, Pick, AddCourseClicked, RemoveClicked,
         BuildClicked, UndoClicked, PlanClicked
    <2> QED
      BY <2>1, <2>2, SupersededGoesOn, LoadsKept
  <1> QED
    BY <1>1, <1>2

LEMMA ServiceKeepsLoads ==
    ASSUME CallsInv, EachLoadIsCalled, Service \/ \E c \in calls : Lose(c)
    PROVE  EachLoadIsCalled'
  <1>1. CASE ServeList \/ ServeSchedule
    BY <1>1, LoadsKept DEF ServeList, ServeSchedule, view
  <1>2. ASSUME NEW c \in calls, Serve(c) \/ Lose(c) PROVE EachLoadIsCalled'
    <2>1. loading' = loading
      BY <1>2 DEF Serve, Lose, ServeCourse, ServePlan, CheckCount, WritePlans, Serving, view
    <2>2. \/ \E ok, res : Answer(c, ok, res)
          \/ calls' = (calls \ {c}) \cup {[c EXCEPT !.st = "checked"]}
      BY <1>2 DEF Serve, Lose, ServeCourse, ServePlan, CheckCount, WritePlans, Refuse
    <2>3. \E d : calls' = (calls \ {c}) \cup {d} /\ d.kind = c.kind /\ d.row = c.row
      <3>1. ProperCall(c)
        BY DEF CallsInv
      <3>2. CASE calls' = (calls \ {c}) \cup {[c EXCEPT !.st = "checked"]}
        BY <3>1, <3>2, CallKeepsCourse
      <3>3. ASSUME NEW ok, NEW res, Answer(c, ok, res)
            PROVE  \E d : calls' = (calls \ {c}) \cup {d} /\ d.kind = c.kind /\ d.row = c.row
        <4> DEFINE d == [c EXCEPT !.st = "done", !.ok = ok, !.res = res]
        <4>1. calls' = (calls \ {c}) \cup {d}
          BY <3>3 DEF Answer
        <4>2. d.kind = c.kind /\ d.row = c.row
          BY <3>1, CallKeepsCourse
        <4> HIDE DEF d
        <4> QED
          BY <4>1, <4>2
      <3> QED
        BY <2>2, <3>2, <3>3
    <2> QED
      BY <2>1, <2>3, LoadsKept
  <1> QED
    BY <1>1, <1>2 DEF Service

LEMMA AnswersKeepLoads ==
    ASSUME CallsInv, EachLoadIsCalled, Arrivals
    PROVE  EachLoadIsCalled'
  <1>1. CASE ListArrives \/ ScheduleArrives
    BY <1>1, LoadsKept DEF ListArrives, ScheduleArrives, view
  <1>2. ASSUME NEW c \in calls, SectionsReturn(c) \/ RefreshReturns(c) PROVE EachLoadIsCalled'
    <2>1. CASE SectionsReturn(c)
      <3>1. loading' = loading \ {c.row} /\ calls' = calls \ {c} /\ c.kind = "sections"
        BY <2>1 DEF SectionsReturn, Returns
      <3> QED
        BY <3>1 DEF EachLoadIsCalled, Of
    <2>2. CASE RefreshReturns(c)
      BY <2>2 DEF RefreshReturns, EachLoadIsCalled
    <2> QED
      BY <1>2, <2>1, <2>2
  <1>3. ASSUME NEW c \in calls,
               SelectReturns(c) \/ PlainReturns(c) \/ BuildReturns(c) \/ PlansReturn(c)
        PROVE  EachLoadIsCalled'
    <2>1. loading' = loading
      BY <1>3 DEF SelectReturns, PlainReturns, BuildReturns, PlansReturn, view
    <2>2. calls' = calls \ {c} /\ c.kind \notin Enders
      BY <1>3 DEF SelectReturns, PlainReturns, BuildReturns, PlansReturn, Returns, Enders
    <2> QED
      BY <2>1, <2>2, LoadsKept
  <1>4. ASSUME NEW c \in calls, RestoreReturns(c) PROVE EachLoadIsCalled'
    <2>1. loading' = loading /\ c.kind = "restore"
      BY <1>4 DEF RestoreReturns, view
    <2>2. \A d \in calls : d.kind \in Enders => d \in calls'
      <3>1. \A d \in calls : d.kind \in Enders => d # c /\ d.kind # "restore"
        BY <2>1 DEF Enders
      <3> QED
        BY <1>4, <3>1 DEF RestoreReturns
    <2> QED
      BY <2>1, <2>2, LoadsKept
  <1> QED
    BY <1>1, <1>2, <1>3, <1>4 DEF Arrivals, Return

\* Whatever fails, is lost or overtaken, and whichever plan is on screen by then: the picker of
\* a course is disabled only while a call is on its way whose answer enables it
\* (loadingSections, the onSettled of fetchSections and refreshCourses).
THEOREM EachLoadHasItsCall == Spec => []EachLoadIsCalled
  <1>1. Init => EachLoadIsCalled
    BY DEF Init, EachLoadIsCalled
  <1>2. ASSUME SelectionInv, EachLoadIsCalled, [Next]_vars PROVE EachLoadIsCalled'
    <2>1. CallsInv
      BY <1>2 DEF SelectionInv
    <2>2. CASE UNCHANGED vars
      BY <1>2, <2>2, LoadsKept DEF vars, view
    <2> QED
      BY <1>2, <2>1, <2>2, EffectsKeepLoads, ClicksKeepLoads, ServiceKeepsLoads, AnswersKeepLoads
         DEF Next
  <1> QED
    BY <1>1, <1>2, SelectionInit, SelectionStep, PTL DEF Spec

-----------------------------------------------------------------------------
(* The number of plans.                                                    *)

PlanKinds == {"create", "duplicate", "delete"}
Checked(kind) == \E c \in calls : c.kind = kind /\ c.st = "checked"
number == Cardinality(db.plans)

\* One call of each kind is on its way, so two plans at most are made on the count of
\* one moment.
SoleInv == \A c, d \in calls : c.kind \in PlanKinds /\ c.kind = d.kind => c = d
NumberInv ==
    /\ number \in 1 .. MaxPlans + 1
    /\ Checked("delete") => number > 1
    /\ Checked("create") \/ Checked("duplicate") => number <= MaxPlans
    /\ Checked("create") /\ Checked("duplicate") => number < MaxPlans
CountInv == SoleInv /\ NumberInv

\* Steps that neither make nor check calls about plans.
LEMMA QuietStep ==
    ASSUME CountInv, db'.plans = db.plans,
           \A c \in calls' : c.kind \in PlanKinds => c \in calls
    PROVE  CountInv' /\ number' = number
  <1>1. SoleInv' /\ number' = number
    BY DEF CountInv, SoleInv, number
  <1>2. \A kind \in PlanKinds : Checked(kind)' => Checked(kind)
    BY DEF Checked
  <1> QED
    BY <1>1, <1>2 DEF CountInv, NumberInv, PlanKinds

\* A call goes on.
LEMMA CallReplaced ==
    ASSUME SoleInv, NEW c \in calls, NEW d, calls' = (calls \ {c}) \cup {d}, d.kind = c.kind
    PROVE  /\ SoleInv'
           /\ \A kind \in PlanKinds : Checked(kind)' =>
                (kind # c.kind /\ Checked(kind)) \/ (kind = c.kind /\ d.st = "checked")
  BY DEF SoleInv, Checked

LEMMA AnswerReplaces ==
    ASSUME SoleInv, CallsInv, NEW c \in calls, NEW ok, NEW res, Answer(c, ok, res)
    PROVE  /\ SoleInv'
           /\ \A kind \in PlanKinds : Checked(kind)' => kind # c.kind /\ Checked(kind)
  <1> DEFINE d == [c EXCEPT !.st = "done", !.ok = ok, !.res = res]
  <1>1. calls' = (calls \ {c}) \cup {d}
    BY DEF Answer
  <1>2. d.kind = c.kind /\ d.st = "done"
    BY DEF CallsInv, ProperCall
  <1> HIDE DEF d
  <1> QED
    BY <1>1, <1>2, CallReplaced

\* A call refused or answered without a change of plans.
LEMMA AnswerCounts ==
    ASSUME CountInv, CallsInv, NEW c \in calls, NEW ok, NEW res, Answer(c, ok, res),
           db'.plans = db.plans
    PROVE  CountInv' /\ number' = number
  BY AnswerReplaces DEF CountInv, NumberInv, number, PlanKinds

LEMMA CheckCounts ==
    ASSUME SelectionInv, CountInv, NEW c \in calls, CheckCount(c)
    PROVE  CountInv' /\ number' = number
  <1> USE DEF SelectionInv
  <1>1. CASE Refuse(c)
    BY <1>1, AnswerCounts DEF Refuse
  <1>2. CASE ~Refuse(c)
    <2> DEFINE d == [c EXCEPT !.st = "checked"]
    <2>1. calls' = (calls \ {c}) \cup {d} /\ db' = db
      BY <1>2 DEF CheckCount
    <2>2. d.kind = c.kind
      BY DEF CallsInv, ProperCall
    <2> HIDE DEF d
    <2>3. /\ SoleInv'
          /\ \A kind \in PlanKinds : Checked(kind)' => kind = c.kind \/ Checked(kind)
      BY <2>1, <2>2, CallReplaced DEF CountInv
    <2>4. /\ c.kind \in PlanKinds
          /\ c.kind = "delete" => number > 1
          /\ c.kind # "delete" => number < MaxPlans
      <3>1. number \in Nat
        BY PlansCounted DEF number
      <3> QED
        BY <1>2, <3>1, PlannerAssumption DEF CheckCount, PlanKinds, OnlyOne, Full, number
    <2>5. number' = number
      BY <2>1 DEF number
    <2> QED
      BY <2>3, <2>4, <2>5, PlannerAssumption DEF CountInv, NumberInv, PlanKinds
  <1> QED
    BY <1>1, <1>2

LEMMA WriteCounts ==
    ASSUME SelectionInv, CountInv, NEW c \in calls, WritePlans(c)
    PROVE  /\ CountInv'
           /\ \/ number' = number
              \/ number < MaxPlans + 1 /\ number' = number + 1
              \/ number > 1 /\ number' = number - 1
  <1> USE DEF SelectionInv
  <1>1. CASE Refuse(c)
    BY <1>1, AnswerCounts DEF Refuse
  <1>2. CASE ~Refuse(c)
    <2>1. c.kind \in PlanKinds /\ Checked(c.kind)
      BY DEF WritePlans, CallsInv, ProperCall, PlanKinds, Checked
    <2>2. /\ SoleInv'
          /\ \A kind \in PlanKinds : Checked(kind)' => kind # c.kind /\ Checked(kind)
      BY <1>2, AnswerReplaces DEF WritePlans, CountInv
    <2>3. number \in 1 .. MaxPlans + 1
      BY DEF CountInv, NumberInv
    <2>4. CASE c.kind = "delete"
      <3>1. c.plan \in db.plans /\ db' = DeletePlan(db, c.plan)
        BY <1>2, <2>4 DEF WritePlans
      <3>2. number' = number - 1 /\ number > 1
        BY <2>1, <2>4, <3>1, PlansCounted DEF number, CountInv, NumberInv
      <3> QED
        BY <2>2, <2>3, <2>4, <3>2, PlannerAssumption DEF CountInv, NumberInv, PlanKinds
    <2>5. CASE c.kind # "delete"
      <3>1. db' = CreatePlan(db) \/ db' = DuplicatePlan(db, c.plan)
        BY <1>2, <2>1, <2>5 DEF WritePlans, PlanKinds
      <3>2. number' = number + 1
        BY <3>1, PlansCounted DEF number
      <3>3. number <= MaxPlans
        BY <2>1, <2>5 DEF CountInv, NumberInv, PlanKinds
      <3>4. \A kind \in {"create", "duplicate"} : Checked(kind)' => number < MaxPlans
        BY <2>1, <2>2, <2>5 DEF CountInv, NumberInv, PlanKinds
      <3> QED
        BY <2>1, <2>2, <2>3, <2>5, <3>2, <3>3, <3>4, PlannerAssumption
        DEF CountInv, NumberInv, PlanKinds
    <2> QED
      BY <2>4, <2>5
  <1> QED
    BY <1>1, <1>2

LEMMA PlanClickCounts ==
    ASSUME CountInv, NEW kind \in {"reset", "create", "duplicate", "delete"}, PlanClicked(kind)
    PROVE  CountInv' /\ number' = number
  <1> DEFINE new == Call(kind, selected)
  <1>1. calls' = calls \cup {new} /\ Of(kind) = {} /\ db' = db
    BY DEF PlanClicked
  <1>2. new.kind = kind /\ new.st = "sent"
    BY DEF Call
  <1> HIDE DEF new
  <1>3. SoleInv'
    BY <1>1, <1>2 DEF CountInv, SoleInv, Of
  <1>4. \A k \in PlanKinds : Checked(k)' => Checked(k)
    BY <1>1, <1>2 DEF Checked
  <1> QED
    BY <1>1, <1>3, <1>4 DEF CountInv, NumberInv, PlanKinds, number

LEMMA ClicksCount == ASSUME SelectionInv, CountInv, Student PROVE CountInv' /\ number' = number
  <1>1. CASE \E kind \in {"reset", "create", "duplicate", "delete"} : PlanClicked(kind)
    BY <1>1, PlanClickCounts
  <1>2. ASSUME NEW kind, kind \notin PlanKinds, NEW c \in Supersede(kind), c.kind \in PlanKinds
        PROVE  c \in calls
    <2>1. \A d \in calls : [d EXCEPT !.live = FALSE, !.plan = selected].kind = d.kind
      BY DEF SelectionInv, CallsInv, ProperCall
    <2> QED
      BY <1>2, <2>1 DEF Supersede
  <1>3. CASE SwitchPlan \/ AddCourseClicked \/ RefreshClicked \/ BuildClicked
    <2>1. calls' = calls \/ \E c : c.kind \notin PlanKinds /\ calls' = calls \cup {c}
      <3>1. CASE SwitchPlan
        BY <3>1 DEF SwitchPlan
      <3>2. CASE AddCourseClicked
        <4>1. PICK code \in Codes : calls' = calls \cup {[Call("add", selected) EXCEPT !.code = code]}
          BY <3>2 DEF AddCourseClicked
        <4> DEFINE new == [Call("add", selected) EXCEPT !.code = code]
        <4>2. new.kind \notin PlanKinds
          BY CallKind DEF PlanKinds
        <4>3. calls' = calls \cup {new}
          BY <4>1
        <4> HIDE DEF new
        <4> QED
          BY <4>2, <4>3
      <3>3. CASE RefreshClicked \/ BuildClicked
        <4>1. PICK kind \in {"refresh", "build"} : calls' = calls \cup {Call(kind, selected)}
          BY <3>3 DEF RefreshClicked, BuildClicked
        <4> QED
          BY <4>1, CallKind DEF PlanKinds
      <3> QED
        BY <1>3, <3>1, <3>2, <3>3
    <2>2. db' = db
      BY <1>3 DEF SwitchPlan, AddCourseClicked, RefreshClicked, BuildClicked
    <2> QED
      BY <2>1, <2>2, QuietStep
  <1>4. CASE RemoveClicked
    <2>1. PICK r \in Courses :
                 calls' = Supersede("remove") \cup {[Call("remove", selected) EXCEPT !.row = r]}
      BY <1>4 DEF RemoveClicked
    <2>2. [Call("remove", selected) EXCEPT !.row = r].kind = "remove" /\ "remove" \notin PlanKinds
      BY CallKind DEF PlanKinds
    <2>3. \A c \in calls' : c.kind \in PlanKinds => c \in calls
      BY <1>2, <2>1, <2>2
    <2> QED
      BY <1>4, <2>3, QuietStep DEF RemoveClicked
  <1>5. ASSUME NEW r \in Courses, NEW type, NEW n, Pick(r, type, n)
        PROVE  CountInv' /\ number' = number
    <2> DEFINE ids == NextIds(planner.courses[r], type, n)
               new == [Call("select", selected) EXCEPT !.row = r, !.ids = ids, !.prev = planner]
    <2>1. calls' = Supersede("select") \cup {new} /\ db' = db
      BY <1>5 DEF Pick
    <2>2. new.kind = "select" /\ "select" \notin PlanKinds
      BY DEF Call, PlanKinds
    <2> HIDE DEF new
    <2>3. \A c \in calls' : c.kind \in PlanKinds => c \in calls
      BY <1>2, <2>1, <2>2
    <2> QED
      BY <2>1, <2>3, QuietStep
  <1>6. CASE UndoClicked
    <2> DEFINE restore(r) == [Call("restore", undo.plan) EXCEPT !.row = r, !.ids = undo.ids[r]]
    <2>1. calls' = calls \cup {restore(r) : r \in DOMAIN undo.ids} /\ db' = db
      BY <1>6 DEF UndoClicked
    <2>2. (\A r : restore(r).kind = "restore") /\ "restore" \notin PlanKinds
      BY CallKind DEF PlanKinds
    <2> HIDE DEF restore
    <2> QED
      BY <2>1, <2>2, QuietStep
  <1> QED
    BY <1>1, <1>3, <1>4, <1>5, <1>6 DEF Student, PickSection

LEMMA EffectsCount == ASSUME CountInv, Effects PROVE CountInv' /\ number' = number
  <1>1. CASE AutoFetch
    <2> DEFINE new(r) == [Call("sections", selected) EXCEPT !.row = r]
    <2>1. calls' = calls \cup {new(r) : r \in Unfetched} /\ db' = db
      BY <1>1 DEF AutoFetch
    <2>2. (\A r : new(r).kind = "sections") /\ "sections" \notin PlanKinds
      BY CallKind DEF PlanKinds
    <2> HIDE DEF new
    <2> QED
      BY <2>1, <2>2, QuietStep
  <1> QED
    BY <1>1, QuietStep DEF Effects, Watch, SelectFirstPlan, ResetForPlan

LEMMA AnswersCount == ASSUME SelectionInv, CountInv, Arrivals PROVE CountInv' /\ number' = number
  <1>1. CASE ListArrives \/ ScheduleArrives
    BY <1>1, QuietStep DEF ListArrives, ScheduleArrives
  <1>2. ASSUME NEW c \in calls, Return(c) PROVE CountInv' /\ number' = number
    <2>1. db' = db
      BY <1>2 DEF Return, SelectReturns, PlainReturns, SectionsReturn, RefreshReturns, BuildReturns,
         RestoreReturns, PlansReturn
    <2>2. CASE RestoreReturns(c)
      <3>1. \A d \in calls : [d EXCEPT !.live = FALSE].kind = d.kind
        BY DEF SelectionInv, CallsInv, ProperCall
      <3>2. \A e \in calls' : e.kind \in PlanKinds => e \in calls
        BY <2>2, <3>1 DEF RestoreReturns, PlanKinds
      <3> QED
        BY <2>1, <3>2, QuietStep
    <2>3. CASE ~RestoreReturns(c)
      <3>1. calls' = calls \ {c}
        BY <1>2, <2>3 DEF Return, SelectReturns, PlainReturns, SectionsReturn, RefreshReturns,
           BuildReturns, PlansReturn, Returns
      <3> QED
        BY <2>1, <3>1, QuietStep
    <2> QED
      BY <2>2, <2>3
  <1> QED
    BY <1>1, <1>2 DEF Arrivals

LEMMA ServiceCounts ==
    ASSUME SelectionInv, CountInv, Service \/ \E c \in calls : Lose(c)
    PROVE  /\ CountInv'
           /\ \/ number' = number
              \/ number < MaxPlans + 1 /\ number' = number + 1
              \/ number > 1 /\ number' = number - 1
  <1> USE DEF SelectionInv
  <1>1. ASSUME NEW c \in calls, ServeCourse(c) PROVE CountInv' /\ number' = number
    <2>1. db'.plans = db.plans
      <3>1. \/ db' = db
            \/ db' = SelectSections(db, c.row, c.ids)
            \/ db' = RemoveCourse(db, c.row)
            \/ db' = FetchSections(db, c.row)
        BY <1>1 DEF ServeCourse, Refuse
      <3> QED
        BY <3>1, RowsOnly
    <2>2. \E ok, res : Answer(c, ok, res)
      BY <1>1 DEF ServeCourse, Refuse
    <2> QED
      BY <2>1, <2>2, AnswerCounts
  <1>2. ASSUME NEW c \in calls, ServePlan(c) PROVE CountInv' /\ number' = number
    <2>1. db'.plans = db.plans
      <3>1. \/ db' = db
            \/ db' = AddCourse(db, c.plan, c.code)
            \/ db' = RefreshAll(db, c.plan)
            \/ db' \in AutoBuilds(db, c.plan)
            \/ db' = Reset(db, c.plan)
        BY <1>2 DEF ServePlan, Refuse
      <3> QED
        BY <3>1, RowsOnly, BuildStep
    <2>2. \E ok, res : Answer(c, ok, res)
      BY <1>2 DEF ServePlan, Refuse
    <2> QED
      BY <2>1, <2>2, AnswerCounts
  <1>3. ASSUME NEW c \in calls, Lose(c) PROVE CountInv' /\ number' = number
    BY <1>3, AnswerCounts DEF Lose, Refuse
  <1>4. CASE ServeList
    <2>1. db.plans # {}
      BY FS_EmptySet DEF CountInv, NumberInv, number
    <2>2. db' = db
      BY <1>4, <2>1, RowsOnly DEF ServeList
    <2> QED
      BY <1>4, <2>2, QuietStep DEF ServeList
  <1>5. CASE ServeSchedule
    BY <1>5, QuietStep DEF ServeSchedule
  <1> QED
    BY <1>1, <1>2, <1>3, <1>4, <1>5, CheckCounts, WriteCounts DEF Service, Serve

\* The tables of the planner implement PlanCount, with room for one plan over the limit:
\* a creation and a duplication may be checked on the same count (_ensure_schedule_capacity
\* and the INSERT after it); there always is a plan, as one tab deletes them one by one.
THEOREM NumberOfPlans == Spec => PlansStayInNumber
  <1>1. Init => CountInv /\ Count!Init
    BY BuilderAssumption DEF Init, IsDatabase, CountInv, SoleInv, NumberInv, Checked, number, Count!Init
  <1>2. ASSUME SelectionInv, CountInv, [Next]_vars
        PROVE  CountInv' /\ [Count!Gain \/ Count!Lose]_(Cardinality(db.plans))
    <2>1. /\ CountInv'
          /\ \/ number' = number
             \/ number < MaxPlans + 1 /\ number' = number + 1
             \/ number > 1 /\ number' = number - 1
      <3>1. CASE UNCHANGED vars
        BY <1>2, <3>1, QuietStep DEF vars
      <3> QED
        BY <1>2, <3>1, EffectsCount, ClicksCount, ServiceCounts, AnswersCount DEF Next
    <2> QED
      BY <2>1 DEF number, Count!Gain, Count!Lose
  <1> QED
    BY <1>1, <1>2, SelectionInit, SelectionStep, PTL DEF Spec, PlansStayInNumber, Count!Spec

-----------------------------------------------------------------------------
(* The course search. *)
Rows == [query : Queries \cup {Empty}, page : Nat]

SearchTypeOK ==
    /\ query \in Queries \cup {Empty}
    /\ pending \in [query : Queries \cup {Empty}, page : Nat, append : BOOLEAN]
    /\ results \in Seq(Rows)
    /\ cursor \in Nat
    /\ lastSearch \in Queries \cup {Empty}

\* A page asked for by "load more" continues the list, if the list was not cleared since.
AppendContinues ==
    pending.append /\ results # <<>> =>
        /\ pending.query = lastSearch
        /\ pending.page = results[Len(results)].page + 1

SearchInv == SearchTypeOK /\ AppendContinues /\ ResultsAreOneSearch

LEMMA SearchInitInv == SearchInit => SearchInv
<1> SUFFICES ASSUME SearchInit PROVE SearchInv
  OBVIOUS
<1>1. SearchTypeOK
  BY DEF SearchInit, SearchTypeOK, Idle, Empty
<1>2. AppendContinues /\ ResultsAreOneSearch
  BY DEF SearchInit, AppendContinues, ResultsAreOneSearch
<1> QED
  BY <1>1, <1>2 DEF SearchInv

(* A list that is cleared or left alone stays that of one search, whatever is typed. *)
LEMMA ListLeft ==
    ASSUME SearchInv, query' \in Queries \cup {Empty}, pending' = pending,
           ClearResults \/ UNCHANGED <<results, cursor, lastSearch>>
    PROVE  SearchInv'
<1>1. CASE ClearResults
  BY <1>1 DEF ClearResults, SearchInv, SearchTypeOK, AppendContinues, ResultsAreOneSearch, Rows
<1>2. CASE UNCHANGED <<results, cursor, lastSearch>>
  BY <1>2 DEF SearchInv, SearchTypeOK, AppendContinues, ResultsAreOneSearch, Rows
<1> QED
  BY <1>1, <1>2

(* A new search replaces the pending one; "load more" asks for what the cursor names. *)
LEMMA ListAsked ==
    ASSUME SearchInv, NEW q \in Queries \cup {Empty}, NEW n \in Nat, NEW append \in BOOLEAN,
           append => q = lastSearch /\ n = cursor /\ cursor # 0,
           Search(q, n, append), UNCHANGED <<query, results, cursor, lastSearch>>
    PROVE  SearchInv'
<1>1. SearchTypeOK'
  BY DEF SearchInv, SearchTypeOK, Search
<1>2. AppendContinues'
  BY DEF SearchInv, AppendContinues, ResultsAreOneSearch, Search
<1>3. ResultsAreOneSearch'
  BY DEF SearchInv, ResultsAreOneSearch
<1> QED
  BY <1>1, <1>2, <1>3 DEF SearchInv

LEMMA FirstEntry ==
    ASSUME NEW S, NEW e \in S
    PROVE  /\ Append(<<>>, e) = <<e>>
           /\ <<e>> \in Seq(S) /\ DOMAIN <<e>> = 1..1 /\ Len(<<e>>) = 1 /\ <<e>>[1] = e
<1>1. <<e>> \in Seq(S) /\ DOMAIN <<e>> = 1..1 /\ Len(<<e>>) = 1 /\ <<e>>[1] = e
  OBVIOUS
<1>2. <<>> \in Seq(S) /\ Len(<<>>) = 0
  OBVIOUS
<1>3. Append(<<>>, e) \in Seq(S) /\ Len(Append(<<>>, e)) = 1 /\ Append(<<>>, e)[1] = e
  BY <1>2
<1> QED
  BY <1>1, <1>3

(* A page that arrives starts the list anew or continues it. *)
LEMMA PageFound == ASSUME SearchInv, Found PROVE SearchInv'
<1> DEFINE new == Result(pending.query, pending.page)
<1>1. new \in Rows /\ new.page = pending.page
  BY DEF SearchInv, SearchTypeOK, Rows, Result
<1>2. /\ results' = IF pending.append THEN Append(results, new) ELSE <<new>>
      /\ cursor' \in {0, pending.page + 1} /\ lastSearch' = pending.query
      /\ pending' = Idle /\ query' = query
  BY DEF Found
<1>3. cursor' \in Nat
  BY <1>2 DEF SearchInv, SearchTypeOK
<1>4. Idle \in [query : Queries \cup {Empty}, page : Nat, append : BOOLEAN] /\ ~Idle.append
  BY DEF Idle
<1>5. results' \in Seq(Rows)
  BY <1>1, <1>2 DEF SearchInv, SearchTypeOK
<1>6. SearchTypeOK' /\ AppendContinues'
  BY <1>2, <1>3, <1>4, <1>5 DEF SearchInv, SearchTypeOK, AppendContinues
<1>7. CASE ~pending.append \/ results = <<>>
  <2> HIDE DEF new
  <2>1. results' = <<new>>
    BY <1>1, <1>2, <1>7, FirstEntry
  <2>2. DOMAIN results' = 1..1 /\ Len(results') = 1 /\ results'[1] = new
    BY <1>1, <2>1, FirstEntry
  <2>3. new = Result(lastSearch', new.page + 1 - 1)
    <3>1. new.page + 1 - 1 = new.page
      BY <1>1 DEF Rows
    <3> QED
      BY <1>1, <1>2, <3>1 DEF new
  <2>4. ResultsAreOneSearch'
    BY <1>1, <1>2, <2>2, <2>3 DEF ResultsAreOneSearch
  <2> QED
    BY <1>6, <2>4 DEF SearchInv
<1>8. CASE pending.append /\ results # <<>>
  <2> DEFINE n == Len(results)
  <2>1. /\ results \in Seq(Rows) /\ results # <<>> /\ n \in Nat \ {0}
        /\ \A i \in 1..n : results[i] \in Rows
    BY <1>8 DEF SearchInv, SearchTypeOK
  <2>2. /\ pending.query = lastSearch /\ pending.page = results[n].page + 1
        /\ \A i \in 1..n : results[i] = Result(lastSearch, results[1].page + i - 1)
    <3>1. DOMAIN results = 1..n
      BY <2>1
    <3> QED
      BY <1>8, <3>1 DEF SearchInv, AppendContinues, ResultsAreOneSearch
  <2> HIDE DEF n
  <2>3. results[n].page = results[1].page + n - 1 /\ results[1].page \in Nat
    <3>1. 1 \in 1..n /\ n \in 1..n
      BY <2>1
    <3>2. Result(lastSearch, results[1].page + n - 1).page = results[1].page + n - 1
      BY DEF Result
    <3> QED
      BY <2>1, <2>2, <3>1, <3>2 DEF Rows
  <2>4. results' = Append(results, new) /\ Len(results') = n + 1
    BY <1>1, <1>2, <1>8, <2>1 DEF n
  <2>5. results'[n + 1] = new /\ \A i \in 1..n : results'[i] = results[i]
    BY <1>1, <2>1, <2>4 DEF n
  <2>6. new = Result(lastSearch, results[1].page + (n + 1) - 1)
    <3>1. pending.page = results[1].page + (n + 1) - 1
      <4>1. \A p, q \in Nat : p = q + n - 1 => p + 1 = q + (n + 1) - 1
        BY <2>1
      <4>2. n \in 1..n
        BY <2>1
      <4>3. results[n].page \in Nat /\ results[1].page \in Nat
        BY <2>1, <2>3, <4>2 DEF Rows
      <4> QED
        BY <2>2, <2>3, <4>1, <4>3
    <3> QED
      BY <2>2, <3>1
  <2>7. \A i \in 1..(n + 1) : results'[i] = Result(lastSearch', results'[1].page + i - 1)
    <3>1. 1 \in 1..n /\ \A i \in 1..(n + 1) : i \in 1..n \/ i = n + 1
      BY <2>1
    <3> QED
      BY <1>2, <2>2, <2>5, <2>6, <3>1
  <2>8. results'[Len(results')].page = pending.page
    BY <1>1, <2>4, <2>5
  <2>9. DOMAIN results' = 1..(n + 1)
    BY <1>1, <2>1, <2>4 DEF n
  <2>10. ResultsAreOneSearch'
    BY <1>2, <2>7, <2>8, <2>9 DEF ResultsAreOneSearch
  <2> QED
    BY <1>6, <2>10 DEF SearchInv
<1> QED
  BY <1>7, <1>8

LEMMA SearchInductive == SearchInv /\ [SearchNext]_searchVars => SearchInv'
<1> SUFFICES ASSUME SearchInv, [SearchNext]_searchVars PROVE SearchInv'
  OBVIOUS
<1>t. /\ query \in Queries \cup {Empty} /\ lastSearch \in Queries \cup {Empty}
      /\ cursor \in Nat
  BY DEF SearchInv, SearchTypeOK
<1>1. CASE Type
  BY <1>1, ListLeft DEF Type
<1>2. CASE PlanRefetched \/ Focus \/ Close
  BY <1>2, <1>t, ListLeft DEF PlanRefetched, Focus, Close
<1>3. CASE PlanChanged
  BY <1>3, ListLeft DEF PlanChanged
<1>4. CASE TimerFires
  BY <1>4, <1>t, ListAsked DEF TimerFires
<1>5. CASE LoadMore
  BY <1>5, <1>t, ListAsked DEF LoadMore
<1>6. CASE SearchServed
  BY <1>6, <1>t, ListLeft DEF SearchServed
<1>7. CASE Found
  BY <1>7, PageFound
<1>8. CASE NotFound
  <2>1. pending' = Idle /\ UNCHANGED <<query, results, cursor, lastSearch>>
    BY <1>8 DEF NotFound
  <2> QED
    BY <2>1 DEF Idle, SearchInv, SearchTypeOK, AppendContinues, ResultsAreOneSearch
<1>9. CASE UNCHANGED searchVars
  BY <1>9, <1>t, ListLeft DEF searchVars
<1> QED
  BY <1>1, <1>2, <1>3, <1>4, <1>5, <1>6, <1>7, <1>8, <1>9 DEF SearchNext

\* Whatever is typed, cleared or switched while answers are on their way, and whatever
\* the catalog holds: the results shown are consecutive pages of one query, and "load
\* more" continues them.
THEOREM SearchIsOne == SearchSpec => []ResultsAreOneSearch
<1>1. SearchInv => ResultsAreOneSearch
  BY DEF SearchInv
<1> QED
  BY <1>1, SearchInitInv, SearchInductive, PTL DEF SearchSpec

-----------------------------------------------------------------------------
(* The week that is shown. *)
FromCatalog == events \subseteq Catalog

\* The summary passes over a class that ends before it starts; the grid does not.
TimesInOrder == \A s \in Catalog : Timed(s) => Start(s) < End(s)

LEMMA SelectionIsOffered == ViewSpec => []FromCatalog
<1>1. ViewInit => FromCatalog
  BY DEF ViewInit, FromCatalog
<1>2. FromCatalog /\ [ViewNext]_viewVars => FromCatalog'
  BY DEF FromCatalog, ViewNext, viewVars, Choose, Deselect, ToggleCrop, Reload, TapDay, OtherTypes
<1> QED
  BY <1>1, <1>2, PTL DEF ViewSpec

LEMMA ClockMinutes == ASSUME NEW c \in Clocks PROVE ParseClock(c) \in Nat
  BY DEF Clocks, ParseClock

LEMMA TimesAreMinutes ==
    ASSUME NEW s \in Catalog, Timed(s)
    PROVE  Start(s) \in Nat /\ End(s) \in Nat
<1> DEFINE M == [from : Clocks, to : Clocks]
<1>1. s.times[1] \in M
  <2>1. s.times \in Seq(M) /\ s.times # <<>>
    BY CatalogAssumption DEF Timed
  <2> HIDE DEF M
  <2> QED
    BY <2>1
<1> QED
  BY <1>1, ClockMinutes DEF Start, End

(* The three comparisons of two classes are one. *)
LEMMA SameComparison ==
    ASSUME NEW s \in Catalog, NEW t \in Catalog, Timed(s), Timed(t)
    PROVE  ~(End(s) <= Start(t) \/ Start(s) >= End(t)) <=> Overlap(s, t)
  BY TimesAreMinutes DEF Overlap

LEMMA PickerAndGrid == FromCatalog => PickerPredictsGrid
<1> SUFFICES ASSUME FromCatalog, NEW s \in Catalog \ events
             PROVE  MarkedClash(s, events)
                    <=> s \in ClashingSections(OtherTypes(s, events) \cup {s})
  BY DEF PickerPredictsGrid
<1> DEFINE others == OtherTypes(s, events)
<1>1. others \subseteq Catalog /\ s \notin others
  BY DEF FromCatalog, OtherTypes
<1>2. \A t \in others : Timed(s) /\ Timed(t) =>
        (~(End(s) <= Start(t) \/ Start(s) >= End(t)) <=> Overlap(s, t))
  BY <1>1, SameComparison
<1>3. MarkedClash(s, events) <=>
        \E t \in others : Timed(s) /\ Timed(t) /\ s.days \cap t.days # {} /\ Overlap(s, t)
  BY DEF MarkedClash, Conflict, Overlap
<1>4. s \in ClashingSections(others \cup {s}) <=>
        \E t \in others : Timed(s) /\ Timed(t) /\ s.days \cap t.days # {}
                             /\ ~(End(s) <= Start(t) \/ Start(s) >= End(t))
  BY <1>1 DEF ClashingSections, TimedEvents
<1> QED
  BY <1>2, <1>3, <1>4

LEMMA BadgeAndGrid == TimesInOrder /\ FromCatalog => BadgeMatchesGrid
<1> SUFFICES ASSUME TimesInOrder, FromCatalog PROVE BadgeMatchesGrid
  OBVIOUS
<1>1. (FitBadge(events) = "Clash") <=> HasClash(events)
  <2>1. HasClash(events) => \E d \in Range(Week) : Blocks(events, d) # {}
    BY DEF HasClash
  <2>2. (\E d \in Range(Week) : Blocks(events, d) # {}) => events # {}
    BY DEF Blocks
  <2> QED
    BY <2>1, <2>2 DEF FitBadge
<1>2. \A d : Blocks(events, d) = {s \in TimedEvents(events) : d \in s.days}
  BY DEF Blocks, TimedEvents, TimesInOrder, FromCatalog
<1>3. HasClash(events) <=>
        \E s, t \in TimedEvents(events) : s # t /\ s.days \cap t.days # {} /\ Overlap(s, t)
  <2>1. \A s \in TimedEvents(events) : s.days \subseteq Range(Week)
    BY CatalogAssumption DEF TimedEvents, FromCatalog
  <2> QED
    BY <1>2, <2>1 DEF HasClash
<1>4. \A s, t \in TimedEvents(events) :
        ~(End(s) <= Start(t) \/ Start(s) >= End(t)) <=> Overlap(s, t)
  BY SameComparison DEF TimedEvents, FromCatalog
<1>5. ClashingSections(events) # {} <=>
        \E s, t \in TimedEvents(events) : s # t /\ s.days \cap t.days # {} /\ Overlap(s, t)
  BY <1>4 DEF ClashingSections
<1> QED
  BY <1>1, <1>3, <1>5 DEF BadgeMatchesGrid

\* In any catalog, what the section picker warns of is what the grid would show in red
\* after the pick, be its classes in order or not.
THEOREM PickerPredicts == ViewSpec => []PickerPredictsGrid
  BY SelectionIsOffered, PickerAndGrid, PTL

\* When no class ends before it starts, the badge of the summary, the warnings of the
\* picker and the red blocks of the grid, computed apart, agree on what clashes.
THEOREM ClashesAlwaysAgree == TimesInOrder /\ ViewSpec => []ClashesAgree
<1> SUFFICES ASSUME TimesInOrder PROVE ViewSpec => []ClashesAgree
  OBVIOUS
<1>1. FromCatalog => ClashesAgree
  BY PickerAndGrid, BadgeAndGrid DEF ClashesAgree
<1> QED
  BY <1>1, SelectionIsOffered, PTL
-----------------------------------------------------------------------------
(* The week is true: the grid, the agenda, the lunch and the gaps. *)
DayMinutes == 0 .. 1439

LEMMA WholeMinutes == \A t \in DayMinutes : t \in Int
  BY DEF DayMinutes

LEMMA ClockInDay == ASSUME NEW c, c \in Clocks PROVE ParseClock(c) \in DayMinutes
  BY DEF Clocks, ParseClock, DayMinutes

LEMMA MeetingClocks ==
    ASSUME NEW m, m \in [from : Clocks, to : Clocks]
    PROVE  ParseClock(m.from) \in DayMinutes /\ ParseClock(m.to) \in DayMinutes
<1>1. m.from \in Clocks /\ m.to \in Clocks
  OBVIOUS
<1>2. ParseClock(m.from) \in DayMinutes
  BY <1>1, ClockInDay
<1>3. ParseClock(m.to) \in DayMinutes
  BY <1>1, ClockInDay
<1> QED
  BY <1>2, <1>3

LEMMA MinutesOfDay ==
    ASSUME NEW s \in Catalog, Timed(s)
    PROVE  Start(s) \in DayMinutes /\ End(s) \in DayMinutes
<1> DEFINE M == [from : Clocks, to : Clocks]
<1>1. s.times[1] \in M
  <2>1. s.times \in Seq(M) /\ s.times # <<>>
    BY CatalogAssumption DEF Timed
  <2> HIDE DEF M
  <2> QED
    BY <2>1
<1>2. ParseClock(s.times[1].from) \in DayMinutes /\ ParseClock(s.times[1].to) \in DayMinutes
  BY <1>1, MeetingClocks
<1> QED
  BY <1>2 DEF Start, End

\* Times of a day have a first and a last.
LEMMA LeastIsMin ==
    ASSUME NEW V, \E m \in V : \A v \in V : m <= v
    PROVE  Min(V) \in V /\ \A v \in V : Min(V) <= v
  BY DEF Min

LEMMA GreatestIsMax ==
    ASSUME NEW V, \E m \in V : \A v \in V : m >= v
    PROVE  Max(V) \in V /\ \A v \in V : Max(V) >= v
  BY DEF Max

LEMMA FirstAndLast ==
    ASSUME NEW n \in Nat, NEW V \in SUBSET (0 .. n), V # {}
    PROVE  /\ Min(V) \in V /\ \A v \in V : Min(V) <= v
           /\ Max(V) \in V /\ \A v \in V : v <= Max(V)
<1>1. \E m \in V : \A v \in V : m <= v
  BY LeastFails
<1>2. IsFiniteSet(V) /\ V \in SUBSET Int
  <2>1. IsFiniteSet(0 .. n)
    BY FS_Interval
  <2>2. IsFiniteSet(V)
    BY <2>1, FS_Subset
  <2> QED
    BY <2>2
<1>3. \E m \in V : \A v \in V : v <= m
  BY <1>2, GreatestExists
<1>4. \E m \in V : \A v \in V : m >= v
  BY <1>2, <1>3
<1>5. Min(V) \in V /\ \A v \in V : Min(V) <= v
  BY <1>1, LeastIsMin
<1>6. Max(V) \in V /\ \A v \in V : Max(V) >= v
  BY <1>4, GreatestIsMax
<1> QED
  BY <1>2, <1>5, <1>6

LEMMA TimesHaveEnds ==
    ASSUME NEW V \in SUBSET DayMinutes, V # {}
    PROVE  /\ Min(V) \in V /\ \A v \in V : Min(V) <= v
           /\ Max(V) \in V /\ \A v \in V : v <= Max(V)
  BY FirstAndLast DEF DayMinutes

LEMMA SixListed ==
    ASSUME NEW a, NEW b, NEW c, NEW d, NEW e, NEW f
    PROVE  <<a, b, c, d, e, f>> \in Seq({a, b, c, d, e, f}) /\ DOMAIN <<a, b, c, d, e, f>> = 1 .. 6
  OBVIOUS

Columns == {"M", "T", "W", "R", "F", "S"}
LEMMA DaysListed == dayDefs \in Seq(Columns) /\ DOMAIN dayDefs = 1 .. 6
  BY SixListed DEF dayDefs, Columns

LEMMA UsedDays == ASSUME NEW S, NEW d PROVE Used(S, d) <=> DayEvents(S, d) # {}
  BY DEF Used, DayEvents

\* The days the agenda can open on are those with a class.
LEMMA OpenDaysAreUsed ==
    ASSUME NEW S, NEW d \in Range(DaysWithEvents(S))
    PROVE  Used(S, d)
<1> DEFINE I == {i \in DOMAIN dayDefs : Used(S, dayDefs[i])}
<1>1. dayDefs \in Seq(Columns)
  BY DaysListed
<1>2. DaysWithEvents(S) = Entries(dayDefs, I)
  BY DEF DaysWithEvents
<1>3. \A k \in DOMAIN Entries(dayDefs, I) : Kth(I, k) \in I /\ Entries(dayDefs, I)[k] = dayDefs[Kth(I, k)]
  BY <1>1, EntriesKept
<1> QED
  BY <1>2, <1>3 DEF Range

LEMMA FirstIsOpen ==
    ASSUME NEW S, DaysWithEvents(S) # <<>>
    PROVE  DaysWithEvents(S)[1] \in Range(DaysWithEvents(S))
<1> DEFINE I == {i \in DOMAIN dayDefs : Used(S, dayDefs[i])}
<1>1. dayDefs \in Seq(Columns)
  BY DaysListed
<1>2. DaysWithEvents(S) \in Seq(Columns)
  BY <1>1, EntriesKept DEF DaysWithEvents
<1> QED
  BY <1>2 DEF Range

LEMMA AgendaOpens ==
    ASSUME NEW S, NEW e,
           e = CASE TimedEvents(S) = {} -> ""
                 [] day = "" /\ TimedEvents(S) # {} -> FirstDay(S)
                 [] OTHER -> IF day \in Range(DaysWithEvents(S)) \/ DaysWithEvents(S) = <<>>
                             THEN day ELSE DaysWithEvents(S)[1],
           e # "", DaysWithEvents(S) # <<>>
    PROVE  e \in Range(DaysWithEvents(S))
  BY FirstIsOpen DEF FirstDay

\* The agenda's day, whatever changes the selection, the crop or the day.
LEMMA AgendaStays == AgendaIsNotBlank /\ [ViewNext]_viewVars => AgendaIsNotBlank'
<1> SUFFICES ASSUME AgendaIsNotBlank, [ViewNext]_viewVars,
                    day' # "", DaysWithEvents(events') # <<>>
             PROVE  Used(events', day')
  BY UsedDays DEF AgendaIsNotBlank, DayEvents, DaysWithEvents, Used, TimedEvents
<1>1. CASE Agenda(events')
  BY <1>1, AgendaOpens, OpenDaysAreUsed DEF Agenda
<1>2. CASE Reload
  <2>1. day' = FirstDay(events')
    BY <1>2 DEF Reload
  <2> QED
    BY <2>1, FirstIsOpen, OpenDaysAreUsed DEF FirstDay
<1>3. CASE TapDay
  BY <1>3, OpenDaysAreUsed DEF TapDay
<1>4. CASE UNCHANGED viewVars
  BY <1>4, UsedDays DEF viewVars, AgendaIsNotBlank
<1>5. ToggleCrop => Agenda(events')
  BY DEF ToggleCrop, Agenda
<1> QED
  BY <1>1, <1>2, <1>3, <1>4, <1>5 DEF ViewNext, Choose, Deselect

\* The grid has an hour for every class and, Sundays aside, a column.
LEMMA GridHolds == FromCatalog => GridHoldsEveryClass
<1> SUFFICES ASSUME FromCatalog, NEW s \in TimedEvents(events)
             PROVE  /\ BlockTop(s, events, crop) >= 0
                    /\ BlockBottom(s, events, crop)
                         <= 60 * (Hours(events, crop).to - Hours(events, crop).from)
                    /\ s.days \ {"U"} \subseteq Range(VisibleDays(events, crop))
  BY DEF GridHoldsEveryClass
<1> DEFINE T == TimedEvents(events)
           A == {Start(t) : t \in T}
           Z == {End(t) : t \in T}
<1>1. \A t \in T : Start(t) \in DayMinutes /\ End(t) \in DayMinutes
  BY MinutesOfDay DEF TimedEvents, FromCatalog
<1> DEFINE a == Min(A)
           z == Max(Z)
<1>2. /\ a \in DayMinutes /\ a <= Start(s)
      /\ z \in DayMinutes /\ End(s) <= z
  <2>1. /\ A \in SUBSET (DayMinutes) /\ Start(s) \in A
        /\ Z \in SUBSET (DayMinutes) /\ End(s) \in Z
    BY <1>1
  <2> HIDE DEF A, Z
  <2>3. Min(A) \in A /\ Min(A) <= Start(s)
    BY <2>1, TimesHaveEnds
  <2>4. Max(Z) \in Z /\ End(s) <= Max(Z)
    BY <2>1, TimesHaveEnds
  <2> QED
    BY <2>1, <2>3, <2>4
<1> DEFINE first == a \div 60
           last == (z + 59) \div 60
<1>3. Hours(events, crop) = IF crop THEN [from |-> first, to |-> Later(last, first + 1)]
                            ELSE [from |-> IF first < 8 THEN first ELSE 8, to |-> Later(23, last)]
  <2>1. T # {}
    OBVIOUS
  <2> QED
    BY <2>1 DEF Hours
<1>4. first \in Int /\ 60 * first <= Start(s) /\ last \in Int /\ End(s) <= 60 * last
  <2>1. Start(s) \in Int /\ End(s) \in Int
    BY <1>1, s \in T, WholeMinutes
  <2> HIDE DEF a, z
  <2> QED
    BY <1>2, <2>1 DEF DayMinutes
<1>5. /\ Hours(events, crop).from \in Int /\ 60 * Hours(events, crop).from <= Start(s)
      /\ Hours(events, crop).to \in Int /\ End(s) <= 60 * Hours(events, crop).to
  <2>1. Start(s) \in Int /\ End(s) \in Int
    BY <1>1, s \in T, WholeMinutes
  <2> HIDE DEF first, last, T
  <2> QED
    BY <1>3, <1>4, <2>1 DEF Later
<1>6. BlockTop(s, events, crop) >= 0
  <2>1. Start(s) \in Int
    BY <1>1, s \in T, WholeMinutes
  <2> QED
    BY <1>5, <2>1 DEF BlockTop
<1>7. BlockBottom(s, events, crop) <= 60 * (Hours(events, crop).to - Hours(events, crop).from)
  <2>1. End(s) \in Int
    BY <1>1, s \in T, WholeMinutes
  <2> QED
    BY <1>5, <2>1 DEF BlockBottom
<1>8. ASSUME NEW d \in s.days, d # "U"
      PROVE  d \in Range(VisibleDays(events, crop))
  <2>1. Used(events, d)
    BY DEF Used
  <2>2. PICK i \in 1 .. 6 : dayDefs[i] = d
    <3>1. d \in Range(Week)
      BY CatalogAssumption DEF FromCatalog, TimedEvents
    <3> QED
      BY <3>1, <1>8 DEF Range, Week, dayDefs
  <2>3. CASE crop
    <3> DEFINE used == {j \in DOMAIN dayDefs : Used(events, dayDefs[j])}
    <3>1. i \in used /\ used \in SUBSET (0 .. 6) /\ used \in SUBSET (1 .. 6) /\ used # {}
      BY <2>1, <2>2, DaysListed
    <3>2. VisibleDays(events, crop) = SubSeq(dayDefs, Min(used), Max(used))
      BY <2>3, <3>1 DEF VisibleDays, Cropped
    <3> HIDE DEF used
    <3>3. Min(used) \in 1 .. 6 /\ Max(used) \in 1 .. 6 /\ Min(used) <= i /\ i <= Max(used)
      BY <3>1, FirstAndLast
    <3>4. \E k \in DOMAIN SubSeq(dayDefs, Min(used), Max(used)) :
            SubSeq(dayDefs, Min(used), Max(used))[k] = dayDefs[i]
      <4>1. dayDefs \in Seq(Columns) /\ Len(dayDefs) = 6
        BY DaysListed
      <4>2. Min(used) \in 1 .. Len(dayDefs) /\ Max(used) \in 1 .. Len(dayDefs) /\ i \in 1 .. Len(dayDefs)
        BY <4>1, <3>3
      <4> QED
        BY <4>1, <4>2, <3>3, PartHas
    <3> QED
      BY <3>2, <3>4, <2>2 DEF Range
  <2>4. CASE ~crop /\ Used(events, "S")
    BY <2>2, <2>4 DEF VisibleDays, Range, dayDefs
  <2>5. CASE ~crop /\ ~Used(events, "S")
    <3> DEFINE I == {j \in DOMAIN dayDefs : dayDefs[j] # "S"}
    <3>1. dayDefs \in Seq(Columns) /\ i \in I
      BY <2>1, <2>2, <2>5, DaysListed
    <3>2. VisibleDays(events, crop) = Entries(dayDefs, I)
      BY <2>5 DEF VisibleDays, Workdays
    <3>3. \E k \in DOMAIN Entries(dayDefs, I) : Kth(I, k) = i
      BY <3>1, EntriesCover
    <3>4. \A k \in DOMAIN Entries(dayDefs, I) : Entries(dayDefs, I)[k] = dayDefs[Kth(I, k)]
      BY <3>1, EntriesKept
    <3> QED
      BY <3>2, <3>3, <3>4, <2>2 DEF Range
  <2> QED
    BY <2>3, <2>4, <2>5
<1> QED
  BY <1>6, <1>7, <1>8

\* The classes of a day stand in the order of their starts, each once.
Classes(B) == B \in SUBSET Catalog /\ IsFiniteSet(B) /\ \A s \in B : Timed(s)

LEMMA ClassTimes ==
    ASSUME NEW B, Classes(B), NEW s \in B
    PROVE  Start(s) \in DayMinutes /\ End(s) \in DayMinutes /\ s.id \in Int
<1>1. s \in Catalog /\ Timed(s)
  BY DEF Classes
<1> QED
  BY <1>1, MinutesOfDay, CatalogAssumption

LEMMA SoonerOrders ==
    ASSUME NEW B, Classes(B)
    PROVE  Orders({p \in B \X B : Sooner(p[1], p[2])}, B)
<1> DEFINE R == {p \in B \X B : Sooner(p[1], p[2])}
<1>1. \A s, t \in B : <<s, t>> \in R <=> Sooner(s, t)
  OBVIOUS
<1>2. \A s \in B : Start(s) \in Int /\ s.id \in Int
  BY ClassTimes, WholeMinutes
<1>3. \A s, t \in B : s.id = t.id => s = t
  BY CatalogAssumption DEF Classes
<1> HIDE DEF R
<1>4. \A s \in B : <<s, s>> \notin R
  BY <1>1, <1>2 DEF Sooner
<1>5. \A s, t, u \in B : <<s, t>> \in R /\ <<t, u>> \in R => <<s, u>> \in R
  BY <1>1, <1>2 DEF Sooner
<1>6. \A s, t \in B : s # t => <<s, t>> \in R \/ <<t, s>> \in R
  BY <1>1, <1>2, <1>3 DEF Sooner
<1> QED
  BY <1>4, <1>5, <1>6 DEF Orders, R

LEMMA ClassesInOrder ==
    ASSUME NEW B, Classes(B)
    PROVE  /\ InOrder(B) \in Seq(B) /\ Len(InOrder(B)) \in Nat
           /\ Len(InOrder(B)) = Cardinality(B)
           /\ \A i, j \in 1 .. Len(InOrder(B)) : i < j => Sooner(InOrder(B)[i], InOrder(B)[j])
           /\ \A s \in B : \E k \in 1 .. Len(InOrder(B)) : InOrder(B)[k] = s
<1> DEFINE R == {p \in B \X B : Sooner(p[1], p[2])}
           q == InOrder(B)
           n == Cardinality(B)
<1>1. IsFiniteSet(B) /\ Orders(R, B)
  BY SoonerOrders DEF Classes
<1>2. \A t \in B : RankIn(R, B, t) = Cardinality({u \in B : Sooner(u, t)})
  <2>1. ASSUME NEW t \in B
        PROVE  {u \in B : <<u, t>> \in R} = {u \in B : Sooner(u, t)}
    OBVIOUS
  <2> HIDE DEF R
  <2> QED
    BY <2>1 DEF RankIn
<1>3. \A k \in 1 .. n : \E t \in B : RankIn(R, B, t) = k - 1
  <2> HIDE DEF R
  <2> QED
    BY <1>1, RanksFill
<1>4. \A k \in 1 .. n : \E t \in B : Cardinality({u \in B : Sooner(u, t)}) = k - 1
  <2> HIDE DEF R, n
  <2> QED
    BY <1>2, <1>3
<1>5. q = [k \in 1 .. n |-> CHOOSE t \in B : Cardinality({u \in B : Sooner(u, t)}) = k - 1]
  BY DEF InOrder, Ranked
<1>6. \A k \in 1 .. n : q[k] \in B /\ Cardinality({u \in B : Sooner(u, q[k])}) = k - 1
  <2> HIDE DEF q, n
  <2> QED
    BY <1>4, <1>5
<1>7. DOMAIN q = 1 .. n /\ q = [k \in DOMAIN q |-> q[k]]
  BY <1>5
<1> HIDE DEF q, R
<1>8. Ranks(q, R, B)
  BY <1>2, <1>6, <1>7 DEF Ranks
<1>9. /\ q \in Seq(B) /\ Len(q) = n /\ Len(q) \in Nat
      /\ \A i, j \in 1 .. Len(q) : i < j => <<q[i], q[j]>> \in R
      /\ \A s \in B : \E k \in 1 .. Len(q) : q[k] = s
  BY <1>1, <1>8, RanksSort
<1>10. \A p \in R : Sooner(p[1], p[2])
  BY DEF R
<1>11. \A i, j \in 1 .. Len(q) : i < j => Sooner(q[i], q[j])
  BY <1>9, <1>10
<1> QED
  BY <1>9, <1>11 DEF q

\* So do the parts of them within the lunch window.
LEMMA ClipsAre ==
    ASSUME NEW B, Classes(B), NEW c \in Occupied(B)
    PROVE  /\ c.from \in Int /\ c.to \in Int /\ c.from < c.to
           /\ LUNCH_WINDOW_START <= c.from /\ c.to <= LUNCH_WINDOW_END
           /\ c = [from |-> c.from, to |-> c.to]
           /\ \E s \in B : c = Clip(s)
<1>1. PICK s \in B : c = Clip(s)
  BY DEF Occupied
<1>2. Start(s) \in Int /\ End(s) \in Int
  <2>1. Start(s) \in DayMinutes /\ End(s) \in DayMinutes
    BY ClassTimes
  <2> QED
    BY <2>1, WholeMinutes
<1>3. c.from < c.to
  BY DEF Occupied
<1>4. c.from = Later(Start(s), LUNCH_WINDOW_START)
      /\ c.to = (IF End(s) < LUNCH_WINDOW_END THEN End(s) ELSE LUNCH_WINDOW_END)
      /\ c = [from |-> c.from, to |-> c.to]
  <2>1. c = [from |-> Later(Start(s), LUNCH_WINDOW_START),
             to |-> IF End(s) < LUNCH_WINDOW_END THEN End(s) ELSE LUNCH_WINDOW_END]
    BY <1>1, Zenon DEF Clip
  <2> QED
    BY <2>1
<1>5. /\ c.from \in Int /\ c.to \in Int
      /\ LUNCH_WINDOW_START <= c.from /\ c.to <= LUNCH_WINDOW_END
  BY <1>2, <1>4 DEF Later, LUNCH_WINDOW_START, LUNCH_WINDOW_END
<1> QED
  BY <1>1, <1>3, <1>4, <1>5

LEMMA FewClips == ASSUME NEW B, Classes(B) PROVE IsFiniteSet(Occupied(B))
<1> DEFINE f == [s \in B |-> Clip(s)]
           V == {Clip(s) : s \in B}
<1>1. f \in Surjection(B, V)
  <2>1. f \in [B -> V] /\ \A v \in V : \E s \in B : f[s] = v
    OBVIOUS
  <2> HIDE DEF f, V
  <2> QED
    BY <2>1 DEF Surjection
<1>2. Occupied(B) \in SUBSET V
  BY DEF Occupied
<1> HIDE DEF f, V
<1>3. IsFiniteSet(V)
  BY <1>1, FS_Surjection DEF Classes
<1> QED
  BY <1>2, <1>3, FS_Subset

Before(c, d) == c.from < d.from \/ (c.from = d.from /\ c.to < d.to)

LEMMA LunchesInOrder ==
    ASSUME NEW B, Classes(B)
    PROVE  /\ Lunches(B) \in Seq(Occupied(B)) /\ Len(Lunches(B)) \in Nat
           /\ \A i, j \in 1 .. Len(Lunches(B)) : i < j => Before(Lunches(B)[i], Lunches(B)[j])
           /\ \A c \in Occupied(B) : \E k \in 1 .. Len(Lunches(B)) : Lunches(B)[k] = c
<1> DEFINE C == Occupied(B)
           R == {p \in C \X C : Before(p[1], p[2])}
           q == Lunches(B)
           n == Cardinality(C)
<1>1. IsFiniteSet(C)
  BY FewClips
<1>2. \A c \in C : c.from \in Int /\ c.to \in Int /\ c = [from |-> c.from, to |-> c.to]
  BY ClipsAre
<1>3. Orders(R, C)
  <2> HIDE DEF C
  <2>1. \A s, t \in C : <<s, t>> \in R <=> Before(s, t)
    OBVIOUS
  <2> HIDE DEF R
  <2>2. \A s \in C : <<s, s>> \notin R
    BY <2>1, <1>2 DEF Before
  <2>3. \A s, t, u \in C : <<s, t>> \in R /\ <<t, u>> \in R => <<s, u>> \in R
    BY <2>1, <1>2 DEF Before
  <2>4. \A s, t \in C : s # t => <<s, t>> \in R \/ <<t, s>> \in R
    <3>1. \A s, t \in C : s # t => Before(s, t) \/ Before(t, s)
      <4>1. ASSUME NEW s \in C, NEW t \in C, s # t
            PROVE  Before(s, t) \/ Before(t, s)
        <5>1. s.from # t.from \/ s.to # t.to
          BY <4>1, <1>2
        <5> QED
          BY <5>1, <1>2 DEF Before
      <4> QED
        BY <4>1
    <3> QED
      BY <3>1, <2>1
  <2> QED
    BY <2>2, <2>3, <2>4 DEF Orders
<1>4. \A t \in C : RankIn(R, C, t) = Cardinality({u \in C : Before(u, t)})
  <2>1. ASSUME NEW t \in C
        PROVE  {u \in C : <<u, t>> \in R} = {u \in C : Before(u, t)}
    OBVIOUS
  <2> HIDE DEF R
  <2> QED
    BY <2>1 DEF RankIn
<1>5. \A k \in 1 .. n : \E t \in C : RankIn(R, C, t) = k - 1
  <2> HIDE DEF R, C
  <2> QED
    BY <1>1, <1>3, RanksFill
<1>6. \A k \in 1 .. n : \E t \in C : Cardinality({u \in C : Before(u, t)}) = k - 1
  <2> HIDE DEF R, C, n
  <2> QED
    BY <1>4, <1>5
<1>7. q = [k \in 1 .. n |-> CHOOSE t \in C : Cardinality({u \in C : Before(u, t)}) = k - 1]
  BY DEF Lunches, Ranked, Before
<1>8. \A k \in 1 .. n : q[k] \in C /\ Cardinality({u \in C : Before(u, q[k])}) = k - 1
  <2> HIDE DEF q, n, C
  <2> QED
    BY <1>6, <1>7
<1>9. DOMAIN q = 1 .. n /\ q = [k \in DOMAIN q |-> q[k]]
  BY <1>7
<1> HIDE DEF q, R, C
<1>10. Ranks(q, R, C)
  BY <1>4, <1>8, <1>9 DEF Ranks
<1>11. /\ q \in Seq(C) /\ Len(q) = n /\ Len(q) \in Nat
       /\ \A i, j \in 1 .. Len(q) : i < j => <<q[i], q[j]>> \in R
       /\ \A s \in C : \E k \in 1 .. Len(q) : q[k] = s
  BY <1>1, <1>3, <1>10, RanksSort
<1>12. \A p \in R : Before(p[1], p[2])
  BY DEF R
<1>13. \A i, j \in 1 .. Len(q) : i < j => Before(q[i], q[j])
  BY <1>11, <1>12
<1> QED
  BY <1>11, <1>13 DEF q, C

\* The walk over the lunches of a day: where it is and the best slot after k of them.
Spots == [cursor : Int, best : [from : Int, to : Int]]
Walks(w, q) == /\ w[0] = Noon
               /\ \A k \in 1 .. Len(q) : w[k] = AfterLunch(w[k - 1], q[k])

LEMMA StepOfWalk ==
    ASSUME NEW w \in Spots, NEW c, c.from \in Int, c.to \in Int
    PROVE  /\ AfterLunch(w, c) \in Spots
           /\ AfterLunch(w, c).cursor = Later(w.cursor, c.to)
           /\ AfterLunch(w, c).best = Longer(w.best, w.cursor, c.from)
<1>1. Later(w.cursor, c.to) \in Int
  BY DEF Later, Spots
<1>2. Longer(w.best, w.cursor, c.from) \in [from : Int, to : Int]
  BY DEF Longer, Spots
<1> QED
  BY <1>1, <1>2 DEF AfterLunch, Spots

LEMMA WalkExists ==
    ASSUME NEW B, Classes(B)
    PROVE  \E w : /\ Walks(w, Lunches(B))
                  /\ BestLunchSlot(B) = Longer(w[Len(Lunches(B))].best, w[Len(Lunches(B))].cursor,
                                               LUNCH_WINDOW_END)
<1> DEFINE q == Lunches(B)
           n == Len(q)
           F == [k \in 1 .. n |-> [x \in Spots |-> AfterLunch(x, q[k])]]
           w == CHOOSE h : h = [k \in 0 .. n |-> IF k = 0 THEN Noon ELSE AfterLunch(h[k - 1], q[k])]
<1>1. n \in Nat /\ \A k \in 1 .. n : q[k].from \in Int /\ q[k].to \in Int
  <2>1. q \in Seq(Occupied(B)) /\ n \in Nat
    BY LunchesInOrder
  <2> HIDE DEF q
  <2>2. \A k \in 1 .. n : q[k] \in Occupied(B)
    BY <2>1
  <2> QED
    BY <2>1, <2>2, ClipsAre
<1>2. BestLunchSlot(B) = Longer(w[n].best, w[n].cursor, LUNCH_WINDOW_END)
  BY DEF BestLunchSlot
<1> HIDE DEF q, n
<1>3. Noon \in Spots
  BY DEF Noon, Spots, LUNCH_WINDOW_START
<1>4. \A k \in 1 .. n : \A x \in Spots : F[k][x] \in Spots /\ F[k][x] = AfterLunch(x, q[k])
  BY <1>1, StepOfWalk
<1>5. PICK g \in [0 .. n -> Spots] :
        \A k \in 0 .. n : g[k] = IF k = 0 THEN Noon ELSE F[k][g[k - 1]]
  <2> HIDE DEF F
  <2>1. n \in Nat /\ \A k \in 1 .. n : \A x \in Spots : F[k][x] \in Spots
    BY <1>1, <1>4
  <2>2. \E g \in [0 .. n -> Spots] : Steps(g, n, Noon, F)
    BY <2>1, <1>3, StepsExist
  <2> QED
    BY <2>2 DEF Steps
<1>6. \A k \in 0 .. n : g[k] = IF k = 0 THEN Noon ELSE AfterLunch(g[k - 1], q[k])
  <2>1. \A k \in 0 .. n : k # 0 => k \in 1 .. n /\ k - 1 \in 0 .. n
    BY <1>1
  <2> HIDE DEF F
  <2> QED
    BY <2>1, <1>4, <1>5
<1>7. g = [k \in 0 .. n |-> IF k = 0 THEN Noon ELSE AfterLunch(g[k - 1], q[k])]
  BY <1>5, <1>6
<1>8. w = [k \in 0 .. n |-> IF k = 0 THEN Noon ELSE AfterLunch(w[k - 1], q[k])]
  BY <1>7
<1> HIDE DEF w
<1>9. Walks(w, q)
  <2>1. 0 \in 0 .. n /\ \A k \in 1 .. n : k \in 0 .. n /\ k # 0
    BY <1>1
  <2>2. \A k \in 0 .. n : w[k] = IF k = 0 THEN Noon ELSE AfterLunch(w[k - 1], q[k])
    BY <1>8
  <2> QED
    BY <2>1, <2>2 DEF Walks, n
<1> QED
  BY <1>2, <1>9 DEF q, n

\* The cursor is at the end of the lunches passed, the best slot is free, and none of
\* the slots passed is longer.
Reached(w, q, k) ==
    /\ w[k] \in Spots
    /\ LUNCH_WINDOW_START <= w[k].cursor /\ w[k].cursor <= LUNCH_WINDOW_END
    /\ \A i \in 1 .. k : q[i].to <= w[k].cursor
    /\ \A x \in Int : LUNCH_WINDOW_START <= x /\ (\A i \in 1 .. k : q[i].to <= x) => w[k].cursor <= x
OpenSlot(b, q) ==
    /\ LUNCH_WINDOW_START <= b.from /\ b.from <= b.to /\ b.to <= LUNCH_WINDOW_END
    /\ b.from = b.to \/ \A i \in 1 .. Len(q) : q[i].to <= b.from \/ q[i].from >= b.to
Outdone(w, q, k) ==
    \A j \in 1 .. k : q[j].from - w[j - 1].cursor <= w[k].best.to - w[k].best.from

Clips(q) ==
    /\ Len(q) \in Nat
    /\ \A i \in 1 .. Len(q) :
         /\ q[i].from \in Int /\ q[i].to \in Int /\ q[i].from < q[i].to
         /\ LUNCH_WINDOW_START <= q[i].from /\ q[i].to <= LUNCH_WINDOW_END
    /\ \A i, j \in 1 .. Len(q) : i < j => q[i].from <= q[j].from

LEMMA WindowTimes == LUNCH_WINDOW_START \in Int /\ LUNCH_WINDOW_END \in Int
                     /\ LUNCH_WINDOW_START <= LUNCH_WINDOW_END
  BY DEF LUNCH_WINDOW_START, LUNCH_WINDOW_END

LEMMA LongerIs ==
    ASSUME NEW b \in [from : Int, to : Int], NEW x \in Int, NEW y \in Int
    PROVE  /\ Longer(b, x, y) \in [from : Int, to : Int]
           /\ b.to - b.from <= Longer(b, x, y).to - Longer(b, x, y).from
           /\ y - x <= Longer(b, x, y).to - Longer(b, x, y).from
           /\ \/ Longer(b, x, y) = b
              \/ /\ Longer(b, x, y).from = x /\ Longer(b, x, y).to = y
                 /\ y - x > b.to - b.from
<1>1. CASE y - x > b.to - b.from
  BY <1>1 DEF Longer
<1>2. CASE ~(y - x > b.to - b.from)
  BY <1>2 DEF Longer
<1> QED
  BY <1>1, <1>2

LEMMA WalkReaches ==
    ASSUME NEW w, NEW q, Clips(q), NEW k \in 1 .. Len(q), Reached(w, q, k - 1),
           w[k] = AfterLunch(w[k - 1], q[k])
    PROVE  Reached(w, q, k)
<1> DEFINE c == w[k - 1].cursor
           t == q[k].to
<1>1. /\ w[k - 1] \in Spots /\ q[k].from \in Int /\ t \in Int /\ t <= LUNCH_WINDOW_END /\ c \in Int
      /\ k \in Int
  BY DEF Reached, Clips, Spots
<1>2. w[k] \in Spots /\ w[k].cursor = Later(c, t)
  BY <1>1, StepOfWalk
<1>3. c <= w[k].cursor /\ t <= w[k].cursor /\ w[k].cursor \in Int
      /\ (w[k].cursor = c \/ w[k].cursor = t)
  <2> HIDE DEF c, t
  <2> QED
    BY <1>1, <1>2 DEF Later
<1>4. LUNCH_WINDOW_START <= w[k].cursor /\ w[k].cursor <= LUNCH_WINDOW_END
  <2>1. LUNCH_WINDOW_START <= c /\ c <= LUNCH_WINDOW_END
    BY DEF Reached
  <2> HIDE DEF c, t
  <2> QED
    BY <2>1, <1>1, <1>3, WindowTimes
<1>5. ASSUME NEW i \in 1 .. k
      PROVE  q[i].to <= w[k].cursor
  <2>1. CASE i = k
    BY <2>1, <1>3
  <2>2. CASE i # k
    <3>1. i \in 1 .. k - 1 /\ i \in 1 .. Len(q)
      BY <2>2
    <3>2. q[i].to <= c /\ q[i].to \in Int
      BY <3>1 DEF Reached, Clips
    <3> HIDE DEF c
    <3> QED
      BY <3>2, <1>1, <1>3
  <2> QED
    BY <2>1, <2>2
<1>6. ASSUME NEW x \in Int, LUNCH_WINDOW_START <= x, \A i \in 1 .. k : q[i].to <= x
      PROVE  w[k].cursor <= x
  <2>1. \A i \in 1 .. k - 1 : q[i].to <= x
    BY <1>6
  <2>2. c <= x
    BY <2>1, <1>6 DEF Reached
  <2>3. t <= x
    BY <1>6
  <2> HIDE DEF c, t
  <2> QED
    BY <2>2, <2>3, <1>3
<1> QED
  BY <1>2, <1>4, <1>5, <1>6 DEF Reached

LEMMA WalkStaysOpen ==
    ASSUME NEW w, NEW q, Clips(q), NEW k \in 1 .. Len(q), Reached(w, q, k - 1),
           OpenSlot(w[k - 1].best, q), w[k] = AfterLunch(w[k - 1], q[k])
    PROVE  OpenSlot(w[k].best, q)
<1> DEFINE c == w[k - 1].cursor
           b == w[k - 1].best
           f == q[k].from
<1>1. /\ w[k - 1] \in Spots /\ f \in Int /\ q[k].to \in Int /\ c \in Int
      /\ b \in [from : Int, to : Int] /\ k \in Int
      /\ LUNCH_WINDOW_START <= c
  BY DEF Reached, Clips, Spots
<1>2. w[k].best = Longer(b, c, f)
  BY <1>1, StepOfWalk
<1>3. CASE w[k].best = b
  BY <1>3
<1>4. CASE w[k].best.from = c /\ w[k].best.to = f /\ f - c > b.to - b.from
  <2>1. b.from <= b.to /\ f <= LUNCH_WINDOW_END
    <3>1. f < q[k].to /\ q[k].to <= LUNCH_WINDOW_END
      BY DEF Clips
    <3> HIDE DEF f
    <3> QED
      BY <3>1, <1>1, WindowTimes DEF OpenSlot
  <2>2. c <= f
    <3>1. b.from \in Int /\ b.to \in Int
      BY <1>1
    <3> HIDE DEF b, c, f
    <3> QED
      BY <3>1, <2>1, <1>1, <1>4
  <2>3. ASSUME NEW i \in 1 .. Len(q)
        PROVE  q[i].to <= c \/ q[i].from >= f
    <3>1. i \in Int /\ q[i].from \in Int
      BY DEF Clips
    <3>2. CASE i < k
      <4>1. i \in 1 .. k - 1
        BY <3>2, <1>1
      <4> QED
        BY <4>1 DEF Reached
    <3>3. CASE i = k
      BY <3>3, <1>1
    <3>4. CASE k < i
      <4>1. f <= q[i].from
        BY <3>4 DEF Clips
      <4> HIDE DEF f
      <4> QED
        BY <4>1, <3>1, <1>1
    <3> QED
      BY <3>1, <3>2, <3>3, <3>4, <1>1
  <2> QED
    BY <1>1, <1>4, <2>1, <2>2, <2>3 DEF OpenSlot
<1> QED
  BY <1>1, <1>2, <1>3, <1>4, LongerIs

LEMMA WalkOutdoes ==
    ASSUME NEW w, NEW q, Clips(q), NEW k \in 1 .. Len(q), Reached(w, q, k - 1),
           \A j \in 0 .. k - 1 : w[j] \in Spots,
           Outdone(w, q, k - 1), w[k] = AfterLunch(w[k - 1], q[k])
    PROVE  Outdone(w, q, k)
<1> DEFINE c == w[k - 1].cursor
           b == w[k - 1].best
           f == q[k].from
           e == w[k].best
<1>1. /\ w[k - 1] \in Spots /\ f \in Int /\ q[k].to \in Int /\ c \in Int
      /\ b \in [from : Int, to : Int] /\ k \in Int
  BY DEF Reached, Clips, Spots
<1>2. e = Longer(b, c, f)
  BY <1>1, StepOfWalk
<1>3. /\ e \in [from : Int, to : Int]
      /\ b.to - b.from <= e.to - e.from /\ f - c <= e.to - e.from
  <2> HIDE DEF b, c, f, e
  <2> QED
    BY <1>1, <1>2, LongerIs
<1>4. ASSUME NEW j \in 1 .. k
      PROVE  q[j].from - w[j - 1].cursor <= e.to - e.from
  <2>1. CASE j = k
    BY <2>1, <1>3
  <2>2. CASE j # k
    <3>1. j \in 1 .. k - 1 /\ j \in 1 .. Len(q) /\ j - 1 \in 0 .. k - 1
      BY <2>2
    <3>2. q[j].from - w[j - 1].cursor <= b.to - b.from
      BY <3>1 DEF Outdone
    <3>3. q[j].from \in Int /\ w[j - 1].cursor \in Int
      BY <3>1 DEF Clips, Spots
    <3>4. b.from \in Int /\ b.to \in Int /\ e.from \in Int /\ e.to \in Int
      BY <1>1, <1>3
    <3> HIDE DEF b, e
    <3> QED
      BY <3>2, <3>3, <3>4, <1>3
  <2> QED
    BY <2>1, <2>2
<1> QED
  BY <1>4 DEF Outdone

LEMMA WalkEnds ==
    ASSUME NEW w, NEW q, Clips(q), Walks(w, q)
    PROVE  \A k \in 0 .. Len(q) : Reached(w, q, k) /\ OpenSlot(w[k].best, q) /\ Outdone(w, q, k)
<1> DEFINE n == Len(q)
           So(k) == /\ \A j \in 0 .. k : w[j] \in Spots
                    /\ Reached(w, q, k) /\ OpenSlot(w[k].best, q) /\ Outdone(w, q, k)
           P == {k \in 0 .. n : So(k)}
<1>1. n \in Nat
  BY DEF Clips
<1>2. 0 \in P
  <2>1. w[0] = Noon
    BY DEF Walks
  <2>2. Reached(w, q, 0)
    BY <2>1, WindowTimes DEF Reached, Noon, Spots
  <2>3. OpenSlot(w[0].best, q)
    BY <2>1, WindowTimes DEF OpenSlot, Noon
  <2>4. Outdone(w, q, 0)
    BY DEF Outdone
  <2>5. \A j \in 0 .. 0 : w[j] \in Spots
    BY <2>2 DEF Reached
  <2> QED
    BY <1>1, <2>2, <2>3, <2>4, <2>5
<1>3. ASSUME NEW k \in 1 .. n, k - 1 \in P
      PROVE  k \in P
  <2>1. So(k - 1)
    BY <1>3
  <2>2. w[k] = AfterLunch(w[k - 1], q[k])
    BY DEF Walks
  <2>3. Reached(w, q, k)
    BY <2>1, <2>2, WalkReaches
  <2>4. OpenSlot(w[k].best, q)
    BY <2>1, <2>2, WalkStaysOpen
  <2>5. Outdone(w, q, k)
    BY <2>1, <2>2, WalkOutdoes
  <2>6. ASSUME NEW j \in 0 .. k
        PROVE  w[j] \in Spots
    <3>1. CASE j = k
      BY <3>1, <2>3 DEF Reached
    <3>2. CASE j # k
      <4>1. j \in 0 .. k - 1
        BY <3>2
      <4> QED
        BY <4>1, <2>1
    <3> QED
      BY <3>1, <3>2
  <2>7. k \in 0 .. n
    BY <1>1
  <2> QED
    BY <2>3, <2>4, <2>5, <2>6, <2>7
<1>4. \A k \in 0 .. n : k \in P
  <2> HIDE DEF P, n
  <2> QED
    BY <1>1, <1>2, <1>3, StepByStep
<1> QED
  BY <1>4

\* No class of the day reaches into the slot found, and none that is free is longer.
LEMMA LunchIsRight ==
    ASSUME NEW B, Classes(B), \A s \in B : Start(s) < End(s)
    PROVE  LET best == BestLunchSlot(B)
               Free(x, y) == /\ x >= LUNCH_WINDOW_START /\ y <= LUNCH_WINDOW_END /\ x <= y
                             /\ \A s \in B : End(s) <= x \/ Start(s) >= y
           IN  /\ Free(best.from, best.to) \/ best.from = best.to
               /\ \A x, y \in Int : Free(x, y) => y - x <= best.to - best.from
<1> DEFINE q == Lunches(B)
           n == Len(q)
           best == BestLunchSlot(B)
           Free(x, y) == /\ x >= LUNCH_WINDOW_START /\ y <= LUNCH_WINDOW_END /\ x <= y
                         /\ \A s \in B : End(s) <= x \/ Start(s) >= y
<1>1. PICK w : Walks(w, q) /\ best = Longer(w[n].best, w[n].cursor, LUNCH_WINDOW_END)
  BY WalkExists
<1>2. Clips(q) /\ \A i \in 1 .. n : q[i] \in Occupied(B)
  <2>1. /\ q \in Seq(Occupied(B)) /\ n \in Nat
        /\ \A i, j \in 1 .. n : i < j => Before(q[i], q[j])
    BY LunchesInOrder
  <2> HIDE DEF q
  <2>2. \A i \in 1 .. n : q[i] \in Occupied(B)
    BY <2>1
  <2>3. \A i \in 1 .. n :
          /\ q[i].from \in Int /\ q[i].to \in Int /\ q[i].from < q[i].to
          /\ LUNCH_WINDOW_START <= q[i].from /\ q[i].to <= LUNCH_WINDOW_END
    BY <2>2, ClipsAre
  <2>4. \A i, j \in 1 .. n : i < j => q[i].from <= q[j].from
    BY <2>1, <2>3 DEF Before
  <2> QED
    BY <2>1, <2>2, <2>3, <2>4 DEF Clips
<1>3. \A c \in Occupied(B) : \E k \in 1 .. n : q[k] = c
  BY LunchesInOrder
<1> HIDE DEF q, n, best
<1>4. n \in Nat /\ \A k \in 0 .. n : Reached(w, q, k) /\ OpenSlot(w[k].best, q) /\ Outdone(w, q, k)
  BY <1>1, <1>2, WalkEnds DEF n, Clips
<1> DEFINE b == w[n].best
           c == w[n].cursor
<1>5. /\ b \in [from : Int, to : Int] /\ c \in Int /\ OpenSlot(b, q) /\ Reached(w, q, n)
      /\ Outdone(w, q, n) /\ LUNCH_WINDOW_START <= c /\ c <= LUNCH_WINDOW_END
      /\ \A i \in 1 .. n : q[i].to <= c
  <2>1. Reached(w, q, n) /\ OpenSlot(b, q) /\ Outdone(w, q, n)
    BY <1>4
  <2> QED
    BY <2>1 DEF Reached, Spots
<1>6. /\ best \in [from : Int, to : Int]
      /\ b.to - b.from <= best.to - best.from
      /\ LUNCH_WINDOW_END - c <= best.to - best.from
      /\ best = b \/ (best.from = c /\ best.to = LUNCH_WINDOW_END)
  <2> HIDE DEF b, c
  <2>1. best = Longer(b, c, LUNCH_WINDOW_END)
    BY <1>1 DEF b, c
  <2>2. /\ Longer(b, c, LUNCH_WINDOW_END) \in [from : Int, to : Int]
        /\ b.to - b.from <= Longer(b, c, LUNCH_WINDOW_END).to - Longer(b, c, LUNCH_WINDOW_END).from
        /\ LUNCH_WINDOW_END - c
             <= Longer(b, c, LUNCH_WINDOW_END).to - Longer(b, c, LUNCH_WINDOW_END).from
        /\ \/ Longer(b, c, LUNCH_WINDOW_END) = b
           \/ /\ Longer(b, c, LUNCH_WINDOW_END).from = c
              /\ Longer(b, c, LUNCH_WINDOW_END).to = LUNCH_WINDOW_END
    BY <1>5, LongerIs, WindowTimes
  <2> HIDE DEF best
  <2> QED
    BY <2>1, <2>2, Zenon
<1>7. OpenSlot(best, q)
  <2>1. CASE best = b
    BY <2>1, <1>5
  <2>2. CASE best.from = c /\ best.to = LUNCH_WINDOW_END
    BY <2>2, <1>5, WindowTimes DEF OpenSlot, n
  <2> QED
    BY <2>1, <2>2, <1>6
<1> HIDE DEF b, c
<1>8. Free(best.from, best.to) \/ best.from = best.to
  <2> SUFFICES ASSUME best.from # best.to
               PROVE  Free(best.from, best.to)
    OBVIOUS
  <2>1. /\ best.from \in Int /\ best.to \in Int
        /\ LUNCH_WINDOW_START <= best.from /\ best.from <= best.to /\ best.to <= LUNCH_WINDOW_END
        /\ \A i \in 1 .. n : q[i].to <= best.from \/ q[i].from >= best.to
    BY <1>6, <1>7 DEF OpenSlot, n
  <2>2. ASSUME NEW s \in B
        PROVE  End(s) <= best.from \/ Start(s) >= best.to
    <3>1. Start(s) \in Int /\ End(s) \in Int /\ Start(s) < End(s)
      BY ClassTimes, WholeMinutes
    <3> DEFINE k == Clip(s)
    <3>2. /\ k.from = Later(Start(s), LUNCH_WINDOW_START)
          /\ k.to = (IF End(s) < LUNCH_WINDOW_END THEN End(s) ELSE LUNCH_WINDOW_END)
      BY DEF Clip
    <3>3. k.from < k.to => k.to <= best.from \/ k.from >= best.to
      <4>1. k.from < k.to => k \in Occupied(B)
        BY DEF Occupied
      <4> HIDE DEF k
      <4> QED
        BY <4>1, <1>3, <2>1
    <3> HIDE DEF k
    <3>4. best.from < best.to
      BY <2>1
    <3> QED
      BY <2>1, <3>1, <3>2, <3>3, <3>4, WindowTimes DEF Later
  <2> QED
    BY <2>1, <2>2, WindowTimes
<1>9. ASSUME NEW x \in Int, NEW y \in Int, Free(x, y)
      PROVE  y - x <= best.to - best.from
  <2>1. best.from \in Int /\ best.to \in Int
    BY <1>6
  <2>2. ASSUME NEW i \in 1 .. n
        PROVE  q[i].to <= x \/ q[i].from >= y
    <3>1. PICK s \in B : q[i] = Clip(s)
      BY <1>2, ClipsAre
    <3>2. Start(s) \in Int /\ End(s) \in Int
      BY ClassTimes, WholeMinutes
    <3>3. /\ q[i].from = Later(Start(s), LUNCH_WINDOW_START)
          /\ q[i].to = (IF End(s) < LUNCH_WINDOW_END THEN End(s) ELSE LUNCH_WINDOW_END)
      BY <3>1 DEF Clip
    <3>4. End(s) <= x \/ Start(s) >= y
      BY <1>9
    <3> QED
      BY <3>2, <3>3, <3>4, WindowTimes DEF Later
  <2> DEFINE Late == {i \in 1 .. n : ~(q[i].to <= x)}
  <2>3. CASE Late = {}
    <3>1. c <= x
      BY <2>3, <1>5, <1>9 DEF Reached, c
    <3> QED
      BY <3>1, <2>1, <1>5, <1>6, <1>9, WindowTimes
  <2>4. CASE Late # {}
    <3>1. PICK i \in Late : \A j \in Late : i <= j
      <4>1. Late \in SUBSET Nat
        OBVIOUS
      <4> HIDE DEF Late
      <4> QED
        BY <4>1, <2>4, LeastFails
    <3>2. i \in 1 .. n /\ i - 1 \in 0 .. n /\ q[i].from >= y
      BY <2>2, <1>4
    <3>3. \A j \in 1 .. i - 1 : q[j].to <= x
      <4>1. ASSUME NEW j \in 1 .. i - 1
            PROVE  q[j].to <= x
        <5>1. j \in 1 .. n /\ ~(i <= j)
          BY <3>2, <1>4
        <5>2. j \notin Late
          BY <5>1, <3>1
        <5> QED
          BY <5>1, <5>2
      <4> QED
        BY <4>1
    <3>4. w[i - 1].cursor <= x /\ w[i - 1].cursor \in Int
      <4>1. Reached(w, q, i - 1)
        BY <3>2, <1>4
      <4> HIDE DEF Late
      <4> QED
        BY <4>1, <3>3, <1>9 DEF Reached, Spots
    <3>5. q[i].from - w[i - 1].cursor <= b.to - b.from
      BY <3>2, <1>5 DEF Outdone, b
    <3>6. b.from \in Int /\ b.to \in Int /\ q[i].from \in Int
      BY <3>2, <1>2, <1>5 DEF Clips, n
    <3> HIDE DEF Late
    <3> QED
      BY <3>2, <3>4, <3>5, <3>6, <2>1, <1>6
  <2> QED
    BY <2>3, <2>4
<1> QED
  BY <1>8, <1>9 DEF best

\* The blocks of a day of the selection are classes, and the days listed are days of the week.
LEMMA BlocksAreClasses ==
    ASSUME FromCatalog, IsFiniteSet(events), NEW d
    PROVE  Classes(Blocks(events, d)) /\ \A s \in Blocks(events, d) : Start(s) < End(s)
<1>1. Blocks(events, d) \in SUBSET events
  BY DEF Blocks
<1>2. IsFiniteSet(Blocks(events, d))
  BY <1>1, FS_Subset
<1> QED
  BY <1>1, <1>2 DEF Classes, FromCatalog, Blocks

LEMMA SevenListed ==
    ASSUME NEW a, NEW b, NEW c, NEW d, NEW e, NEW f, NEW g
    PROVE  <<a, b, c, d, e, f, g>> \in Seq({a, b, c, d, e, f, g})
  OBVIOUS

LEMMA OpenDaysAreOfTheWeek == \A d \in Range(DayKeys(events)) : d \in Range(Week)
<1> DEFINE I == {i \in DOMAIN Week : Blocks(events, Week[i]) # {}}
<1>1. \E S : Week \in Seq(S)
  BY SevenListed, Zenon DEF Week
<1>2. PICK S : Week \in Seq(S)
  BY <1>1
<1>3. I \in SUBSET DOMAIN Week /\ DayKeys(events) = Entries(Week, I)
  BY DEF DayKeys
<1> HIDE DEF I
<1>4. \A k \in DOMAIN DayKeys(events) : \E i \in DOMAIN Week : DayKeys(events)[k] = Week[i]
  BY <1>2, <1>3, EntriesKept
<1> QED
  BY <1>4 DEF Range

\* Of the times a lunch may be cut at, no two are further apart in free time.
LEMMA LunchHolds ==
    ASSUME FromCatalog, IsFiniteSet(events)
    PROVE  LunchIsTheLongestFree
<1> SUFFICES ASSUME NEW d \in Range(Week)
             PROVE  LET B == Blocks(events, d)
                        cuts == {LUNCH_WINDOW_START, LUNCH_WINDOW_END} \cup {Start(s) : s \in B} \cup {End(s) : s \in B}
                        Free(x, y) == /\ x >= LUNCH_WINDOW_START /\ y <= LUNCH_WINDOW_END /\ x <= y
                                      /\ \A s \in B : End(s) <= x \/ Start(s) >= y
                        best == BestLunchSlot(B)
                    IN  /\ Free(best.from, best.to) \/ best.from = best.to
                        /\ \A x, y \in cuts : Free(x, y) => y - x <= best.to - best.from
  BY DEF LunchIsTheLongestFree
<1> DEFINE B == Blocks(events, d)
           cuts == {LUNCH_WINDOW_START, LUNCH_WINDOW_END} \cup {Start(s) : s \in B} \cup {End(s) : s \in B}
           Free(x, y) == /\ x >= LUNCH_WINDOW_START /\ y <= LUNCH_WINDOW_END /\ x <= y
                         /\ \A s \in B : End(s) <= x \/ Start(s) >= y
           best == BestLunchSlot(B)
<1>1. Classes(B) /\ \A s \in B : Start(s) < End(s)
  BY BlocksAreClasses
<1> HIDE DEF B
<1>2. \A x \in cuts : x \in Int
  BY <1>1, ClassTimes, WholeMinutes, WindowTimes
<1>3. /\ Free(best.from, best.to) \/ best.from = best.to
      /\ \A x, y \in Int : Free(x, y) => y - x <= best.to - best.from
  BY <1>1, LunchIsRight
<1> QED
  BY <1>2, <1>3 DEF B

\* The minutes of class after k blocks of a day.
Tallies(m, q) == /\ m[0] = 0
                 /\ \A k \in 1 .. Len(q) : m[k] = m[k - 1] + End(q[k]) - Start(q[k])

LEMMA TallyExists ==
    ASSUME NEW B, Classes(B)
    PROVE  \E m : Tallies(m, InOrder(B)) /\ Minutes(B) = m[Len(InOrder(B))]
<1> DEFINE q == InOrder(B)
           n == Len(q)
           F == [k \in 1 .. n |-> [x \in Int |-> x + End(q[k]) - Start(q[k])]]
           m == CHOOSE h : h = [k \in 0 .. n |-> IF k = 0 THEN 0 ELSE h[k - 1] + End(q[k]) - Start(q[k])]
<1>1. n \in Nat /\ \A k \in 1 .. n : Start(q[k]) \in Int /\ End(q[k]) \in Int
  <2>1. q \in Seq(B) /\ n \in Nat
    BY ClassesInOrder
  <2> HIDE DEF q
  <2>2. \A k \in 1 .. n : q[k] \in B
    BY <2>1
  <2> QED
    BY <2>1, <2>2, ClassTimes, WholeMinutes
<1>2. Minutes(B) = m[n]
  BY DEF Minutes
<1> HIDE DEF q, n
<1>3. \A k \in 1 .. n : \A x \in Int : F[k][x] \in Int /\ F[k][x] = x + End(q[k]) - Start(q[k])
  BY <1>1
<1>4. PICK g \in [0 .. n -> Int] :
        \A k \in 0 .. n : g[k] = IF k = 0 THEN 0 ELSE F[k][g[k - 1]]
  <2> HIDE DEF F
  <2>1. n \in Nat /\ 0 \in Int /\ \A k \in 1 .. n : \A x \in Int : F[k][x] \in Int
    BY <1>1, <1>3
  <2>2. \E g \in [0 .. n -> Int] : Steps(g, n, 0, F)
    BY <2>1, StepsExist
  <2> QED
    BY <2>2 DEF Steps
<1>5. \A k \in 0 .. n : g[k] = IF k = 0 THEN 0 ELSE g[k - 1] + End(q[k]) - Start(q[k])
  <2>1. \A k \in 0 .. n : k # 0 => k \in 1 .. n /\ k - 1 \in 0 .. n
    BY <1>1
  <2> HIDE DEF F
  <2> QED
    BY <2>1, <1>3, <1>4
<1>6. g = [k \in 0 .. n |-> IF k = 0 THEN 0 ELSE g[k - 1] + End(q[k]) - Start(q[k])]
  BY <1>4, <1>5
<1>7. m = [k \in 0 .. n |-> IF k = 0 THEN 0 ELSE m[k - 1] + End(q[k]) - Start(q[k])]
  BY <1>6
<1> HIDE DEF m
<1>8. Tallies(m, q)
  <2>1. 0 \in 0 .. n /\ \A k \in 1 .. n : k \in 0 .. n /\ k # 0
    BY <1>1
  <2>2. \A k \in 0 .. n : m[k] = IF k = 0 THEN 0 ELSE m[k - 1] + End(q[k]) - Start(q[k])
    BY <1>7
  <2> QED
    BY <2>1, <2>2 DEF Tallies, n
<1> QED
  BY <1>2, <1>8 DEF q, n

\* Blocks of a day that follow one another.
Apart(q) ==
    /\ Len(q) \in Nat
    /\ \A i \in 1 .. Len(q) : Start(q[i]) \in Int /\ End(q[i]) \in Int /\ Start(q[i]) < End(q[i])
    /\ \A i, j \in 1 .. Len(q) : i < j => End(q[i]) <= Start(q[j])

\* The classes so far fit between the start of the first and the end of the last.
LEMMA ClassesFit ==
    ASSUME NEW q, Apart(q), NEW m, Tallies(m, q)
    PROVE  /\ \A k \in 0 .. Len(q) : m[k] \in Int
           /\ \A k \in 1 .. Len(q) : m[k] <= End(q[k]) - Start(q[1])
<1> DEFINE n == Len(q)
           P == {k \in 0 .. n : m[k] \in Int /\ (k >= 1 => m[k] <= End(q[k]) - Start(q[1]))}
<1>1. n \in Nat /\ 0 \in P
  BY DEF Apart, Tallies
<1>2. ASSUME NEW k \in 1 .. n, k - 1 \in P
      PROVE  k \in P
  <2>1. /\ m[k] = m[k - 1] + End(q[k]) - Start(q[k]) /\ m[k - 1] \in Int
        /\ Start(q[k]) \in Int /\ End(q[k]) \in Int
    BY <1>2 DEF Apart, Tallies
  <2>2. CASE k = 1
    BY <2>1, <2>2, <1>1 DEF Tallies
  <2>3. CASE k # 1
    <3>1. /\ k - 1 \in 1 .. n /\ 1 \in 1 .. n /\ k - 1 < k /\ k - 1 >= 1
      BY <2>3, <1>1
    <3>2. m[k - 1] <= End(q[k - 1]) - Start(q[1])
      BY <1>2, <3>1
    <3>3. /\ End(q[k - 1]) <= Start(q[k])
          /\ Start(q[1]) \in Int /\ End(q[k - 1]) \in Int
      BY <3>1 DEF Apart
    <3>4. m[k] \in Int /\ m[k] <= End(q[k]) - Start(q[1])
      BY <2>1, <3>2, <3>3
    <3> QED
      BY <3>4, <1>1
  <2> QED
    BY <2>2, <2>3
<1> HIDE DEF P
<1>3. \A k \in 0 .. n : k \in P
  BY <1>1, <1>2, StepByStep
<1> QED
  BY <1>3, <1>1 DEF P

\* So do they with any gap passed.
LEMMA GapsFit ==
    ASSUME NEW q, Apart(q), NEW m, Tallies(m, q), NEW i \in 1 .. Len(q) - 1
    PROVE  m[Len(q)] + (Start(q[i + 1]) - End(q[i])) <= End(q[Len(q)]) - Start(q[1])
<1> DEFINE n == Len(q)
           g == Start(q[i + 1]) - End(q[i])
           P == {k \in 0 .. n : k >= i + 1 => m[k] + g <= End(q[k]) - Start(q[1])}
<1>1. /\ n \in Nat /\ i \in 1 .. n /\ i + 1 \in 1 .. n /\ 1 \in 1 .. n
  BY DEF Apart
<1>2. /\ g \in Int /\ End(q[i]) \in Int /\ Start(q[i + 1]) \in Int
      /\ Start(q[1]) \in Int
  BY <1>1 DEF Apart
<1>3. 0 \in P
  BY <1>1
<1>4. ASSUME NEW k \in 1 .. n, k - 1 \in P
      PROVE  k \in P
  <2>1. /\ m[k] = m[k - 1] + End(q[k]) - Start(q[k])
        /\ Start(q[k]) \in Int /\ End(q[k]) \in Int
    BY DEF Apart, Tallies
  <2>2. k - 1 \in 0 .. n
    BY <1>1
  <2>3. m[k - 1] \in Int
    BY <2>2, ClassesFit
  <2>4. CASE k = i + 1
    <3>1. m[i] <= End(q[i]) - Start(q[1])
      BY <1>1, ClassesFit
    <3>2. k - 1 = i
      BY <2>4, <1>1
    <3> HIDE DEF P
    <3>3. m[k] + g <= End(q[k]) - Start(q[1])
      BY <2>1, <2>3, <3>1, <3>2, <2>4, <1>2
    <3> QED
      BY <3>3, <1>1 DEF P
  <2>5. CASE k > i + 1
    <3>1. k - 1 \in 1 .. n /\ k - 1 >= i + 1 /\ k - 1 < k
      BY <2>5, <1>1
    <3>2. m[k - 1] + g <= End(q[k - 1]) - Start(q[1])
      BY <1>4, <3>1
    <3>3. End(q[k - 1]) \in Int /\ End(q[k - 1]) <= Start(q[k])
      BY <3>1 DEF Apart
    <3>4. m[k] + g <= End(q[k]) - Start(q[1])
      <4>1. \A a, e, s, x, z, l \in Int : a + x <= l - z /\ l <= s => (a + e - s) + x <= e - z
        OBVIOUS
      <4> HIDE DEF P, g
      <4> QED
        BY <4>1, <2>1, <2>3, <3>2, <3>3, <1>2
    <3> QED
      BY <3>4, <1>1 DEF P
  <2>6. CASE k < i + 1
    BY <2>6, <1>1
  <2> QED
    BY <2>4, <2>5, <2>6, <1>1
<1> HIDE DEF P
<1>5. \A k \in 0 .. n : k \in P
  BY <1>1, <1>3, <1>4, StepByStep
<1>6. n \in P /\ n >= i + 1
  BY <1>1, <1>5
<1> QED
  BY <1>6 DEF P

\* A time of day reads back as the time that was formatted.
LEMMA ClockRoundTrip ==
    ASSUME NEW t \in DayMinutes
    PROVE  ParseClock(FormatClock(t)) = t
<1> DEFINE h == t \div 60
           m == t % 60
<1>1. h \in 0 .. 23 /\ m \in 0 .. 59 /\ t = 60 * h + m
  BY DEF DayMinutes
<1>2. FormatClock(t).h = ((h + 11) % 12) + 1 /\ FormatClock(t).m = m
      /\ (FormatClock(t).pm <=> h >= 12)
  BY DEF FormatClock
<1> HIDE DEF h, m
<1>3. (((h + 11) % 12) + 1) % 12 = IF h >= 12 THEN h - 12 ELSE h
  BY <1>1
<1> QED
  BY <1>1, <1>2, <1>3 DEF ParseClock

LEMMA GapsHold ==
    ASSUME FromCatalog, IsFiniteSet(events)
    PROVE  GapsAreFree
<1> SUFFICES ASSUME ~HasClash(events), NEW d \in Range(DayKeys(events))
             PROVE  LET B == Blocks(events, d)
                    IN  /\ \A g \in Gaps(B) : Minutes(B) + g <= LatestEnd(B) - EarliestStart(B)
                        /\ \A s \in B : ParseClock(FormatClock(Start(s))) = Start(s)
  BY DEF GapsAreFree
<1> DEFINE B == Blocks(events, d)
           q == InOrder(B)
<1>1. d \in Range(Week)
  BY OpenDaysAreOfTheWeek
<1>2. Classes(B) /\ \A s \in B : Start(s) < End(s)
  BY BlocksAreClasses
<1>3. \A s \in B : ParseClock(FormatClock(Start(s))) = Start(s)
  <2> HIDE DEF B
  <2> QED
    BY <1>2, ClassTimes, ClockRoundTrip
<1>4. /\ q \in Seq(B) /\ Len(q) \in Nat
      /\ \A i, j \in 1 .. Len(q) : i < j => Sooner(q[i], q[j])
  BY <1>2, ClassesInOrder
<1>5. \A s, t \in B : s # t => ~Overlap(s, t)
  BY <1>1 DEF HasClash
<1>6. UNION {Blocks(B, e) : e \in Range(Week)} = B
  BY <1>1 DEF Blocks
<1> HIDE DEF B, q
<1>7. \A s \in B : Start(s) \in Int /\ End(s) \in Int /\ s.id \in Int
  BY <1>2, ClassTimes, WholeMinutes
<1>8. \A i \in 1 .. Len(q) : q[i] \in B
  BY <1>4
<1>9. Apart(q)
  <2>1. ASSUME NEW i \in 1 .. Len(q), NEW j \in 1 .. Len(q), i < j
        PROVE  End(q[i]) <= Start(q[j])
    <3>1. Sooner(q[i], q[j]) /\ q[i] \in B /\ q[j] \in B
      BY <2>1, <1>4, <1>8
    <3>2. q[i] # q[j]
      BY <3>1, <1>7 DEF Sooner
    <3>3. ~(Start(q[i]) < End(q[j]) /\ Start(q[j]) < End(q[i]))
      BY <3>1, <3>2, <1>5 DEF Overlap
    <3> QED
      BY <3>1, <3>3, <1>2, <1>7 DEF Sooner
  <2> QED
    BY <2>1, <1>2, <1>4, <1>7, <1>8 DEF Apart
<1>10. ASSUME NEW g \in Gaps(B)
       PROVE  Minutes(B) + g <= LatestEnd(B) - EarliestStart(B)
  <2>1. PICK m : Tallies(m, q) /\ Minutes(B) = m[Len(q)]
    BY <1>2, TallyExists DEF q
  <2>2. PICK i \in 1 .. Len(q) - 1 : g = Start(q[i + 1]) - End(q[i])
    BY DEF Gaps, q
  <2>3. Minutes(B) + g <= End(q[Len(q)]) - Start(q[1])
    BY <2>1, <2>2, <1>9, GapsFit
  <2>4. 1 \in 1 .. Len(q) /\ Len(q) \in 1 .. Len(q)
    BY <2>2, <1>4
  <2>5. q[1] \in B /\ q[Len(q)] \in B
    BY <2>4, <1>8
  <2>6. /\ LatestEnd(B) \in Int /\ End(q[Len(q)]) <= LatestEnd(B)
        /\ EarliestStart(B) \in Int /\ EarliestStart(B) <= Start(q[1])
    <3> DEFINE S == {Start(s) : s \in B}
               E == {End(s) : s \in B}
    <3>1. S \in SUBSET DayMinutes /\ E \in SUBSET DayMinutes
      BY <1>2, ClassTimes
    <3>2. Start(q[1]) \in S /\ End(q[Len(q)]) \in E
      BY <2>5
    <3>3. EarliestStart(B) = Min(S) /\ LatestEnd(B) = Max(E)
      BY <1>6 DEF EarliestStart, LatestEnd
    <3> HIDE DEF S, E
    <3>4. Min(S) \in S /\ \A v \in S : Min(S) <= v
      BY <3>1, <3>2, TimesHaveEnds
    <3>5. Max(E) \in E /\ \A v \in E : v <= Max(E)
      BY <3>1, <3>2, TimesHaveEnds
    <3> QED
      BY <3>1, <3>2, <3>3, <3>4, <3>5, WholeMinutes
  <2>7. /\ Minutes(B) \in Int /\ g \in Int
        /\ End(q[Len(q)]) \in Int /\ Start(q[1]) \in Int
    <3>1. Len(q) \in 0 .. Len(q)
      BY <1>4
    <3> QED
      BY <3>1, <2>1, <1>9, ClassesFit, <2>5, <1>7 DEF Gaps
  <2> QED
    BY <2>3, <2>6, <2>7
<1> QED
  BY <1>3, <1>10 DEF B

\* What every state keeps: a finite selection of offered sections, and an agenda of its days.
WeekInv == FromCatalog /\ IsFiniteSet(events) /\ AgendaIsNotBlank

LEMMA WeekStays == WeekInv /\ [ViewNext]_viewVars => WeekInv'
<1> SUFFICES ASSUME WeekInv, [ViewNext]_viewVars PROVE WeekInv'
  OBVIOUS
<1>1. FromCatalog'
  BY DEF WeekInv, FromCatalog, ViewNext, viewVars, Choose, Deselect, ToggleCrop, Reload, TapDay,
         OtherTypes
<1>2. IsFiniteSet(events')
  <2>1. CASE Choose
    <3>1. PICK s \in Catalog \ events : events' = OtherTypes(s, events) \cup {s}
      BY <2>1 DEF Choose
    <3>2. OtherTypes(s, events) \in SUBSET events
      BY DEF OtherTypes
    <3>3. IsFiniteSet(OtherTypes(s, events))
      BY <3>2, FS_Subset DEF WeekInv
    <3> QED
      BY <3>1, <3>3, FS_AddElement
  <2>2. CASE Deselect
    BY <2>2, FS_RemoveElement DEF Deselect, WeekInv
  <2>3. CASE UNCHANGED events
    BY <2>3 DEF WeekInv
  <2> QED
    BY <2>1, <2>2, <2>3 DEF ViewNext, viewVars, ToggleCrop, Reload, TapDay
<1>3. AgendaIsNotBlank'
  BY AgendaStays DEF WeekInv
<1> QED
  BY <1>1, <1>2, <1>3 DEF WeekInv

\* Whatever the catalog and however the selection was made: the grid has an hour and a
\* column for every class, the agenda is on a day with classes, no free slot of the lunch
\* window is longer than the one offered, and the gaps counted hold no class.
THEOREM WeekIsAlwaysTrue == ViewSpec => []WeekIsTrue
<1>1. ViewInit => WeekInv
  BY FS_EmptySet DEF ViewInit, WeekInv, FromCatalog, AgendaIsNotBlank
<1>2. WeekInv => WeekIsTrue
  BY GridHolds, LunchHolds, GapsHold DEF WeekInv, WeekIsTrue
<1> QED
  BY <1>1, <1>2, WeekStays, PTL DEF ViewSpec
===============================================================================
