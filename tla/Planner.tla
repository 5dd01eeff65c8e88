------------------------------- MODULE Planner -------------------------------
(***************************************************************************)
(* The planner service (backend/modules/courses/planner): the plans of one *)
(* student, their courses and the sections selected in them.  A database   *)
(* is a record; each operator is one transaction of the service and yields *)
(* the database it leaves.  What the service decides from a count it read  *)
(* earlier is split by its caller into a check and a write.                *)
(***************************************************************************)
EXTENDS Integers, FiniteSets, Functions

CONSTANTS
    Codes,      \* course codes of the registrar catalog
    Sections,   \* sections of all courses
    Offered,    \* [Codes -> SUBSET Sections]
    SectionType,\* [Sections -> type], the letters of a section code
    MaxPlans    \* MAX_PLANNER_SCHEDULES_PER_STUDENT

ASSUME PlannerAssumption ==
    /\ IsFiniteSet(Sections)
    /\ Offered \in [Codes -> SUBSET Sections]
    /\ DOMAIN SectionType = Sections
    /\ MaxPlans \in Nat \ {0}

\* At most one section of each type.
Proper(S) == \A s, t \in S : SectionType[s] = SectionType[t] => s = t

\* A course of a plan.  Sections are stored when gen > 0; each replacement of
\* them gives every section a new id, which gen stands for.
Row == [plan : Nat, code : Codes, gen : Nat, sel : SUBSET Sections]

\* The tables of a student who has a plan; ids are given in order.
IsDatabase(db) ==
    /\ db = [plans |-> db.plans, rows |-> db.rows, nextPlan |-> db.nextPlan, nextRow |-> db.nextRow]
    /\ db.nextPlan \in Nat /\ db.nextRow \in Nat
    /\ db.plans \subseteq 0 .. db.nextPlan - 1
    /\ DOMAIN db.rows \subseteq 0 .. db.nextRow - 1
    /\ \A r \in DOMAIN db.rows : db.rows[r] \in Row /\ db.rows[r].plan \in db.plans
    /\ Cardinality(db.plans) \in 1 .. MaxPlans + 1

SectionsOf(row) == IF row.gen = 0 THEN {} ELSE Offered[row.code]
RowsOf(db, p) == {r \in DOMAIN db.rows : db.rows[r].plan = p}
OldestOf(S) == CHOOSE p \in S : \A q \in S : p <= q

Full_OffByOne(db) == Cardinality(db.plans) > MaxPlans
Full(db) == Cardinality(db.plans) >= MaxPlans
OnlyOne(db) == Cardinality(db.plans) <= 1

ListPlans(db) ==
    IF db.plans # {} THEN db
    ELSE [db EXCEPT !.plans = {db.nextPlan}, !.nextPlan = @ + 1]

CreatePlan(db) == [db EXCEPT !.plans = @ \cup {db.nextPlan}, !.nextPlan = @ + 1]

\* The copies get consecutive ids, in the order of the originals.
DuplicatePlan(db, p) ==
    LET rs == RowsOf(db, p)
        copy(i) == CHOOSE r \in rs : Cardinality({q \in rs : q < r}) = i - db.nextRow
        new == db.nextRow .. db.nextRow + Cardinality(rs) - 1
    IN  [plans |-> db.plans \cup {db.nextPlan},
         rows |-> [i \in DOMAIN db.rows \cup new |->
                     IF i \in new THEN [db.rows[copy(i)] EXCEPT !.plan = db.nextPlan]
                     ELSE db.rows[i]],
         nextPlan |-> db.nextPlan + 1,
         nextRow |-> db.nextRow + Cardinality(rs)]

DropRows(db, rs) == [db EXCEPT !.rows = Restrict(@, DOMAIN @ \ rs)]
DeletePlan(db, p) == [DropRows(db, RowsOf(db, p)) EXCEPT !.plans = @ \ {p}]
Reset(db, p) == DropRows(db, RowsOf(db, p))
RemoveCourse(db, r) == DropRows(db, {r})

AddCourse(db, p, code) ==
    [db EXCEPT !.rows = [i \in DOMAIN @ \cup {db.nextRow} |->
                           IF i \in DOMAIN @ THEN @[i]
                           ELSE [plan |-> p, code |-> code, gen |-> 0, sel |-> {}]],
               !.nextRow = @ + 1]

\* New section rows take over is_selected from the old row of the same code.
ReplaceSections(row) == [row EXCEPT !.gen = @ + 1]
FetchMissing(row) == IF SectionsOf(row) = {} THEN ReplaceSections(row) ELSE row

FetchSections(db, r) == [db EXCEPT !.rows[r] = FetchMissing(@)]
RefreshAll(db, p) ==
    [db EXCEPT !.rows = [r \in DOMAIN @ |->
        IF r \in RowsOf(db, p) THEN ReplaceSections(@[r]) ELSE @[r]]]

\* Ids of sections that were replaced match no row.
SelectSections(db, r, ids) ==
    [db EXCEPT !.rows[r].sel =
        IF ids.gen = db.rows[r].gen THEN ids.secs \cap SectionsOf(db.rows[r]) ELSE {}]

\* What the builder may choose for a course: one section of each type.
Slots(row) ==
    {S \in SUBSET SectionsOf(row) :
        /\ Proper(S)
        /\ \A s \in SectionsOf(row) : \E t \in S : SectionType[t] = SectionType[s]}

\* Which courses fit together is left to the meeting times: any of them may be
\* left out, its selection is cleared then.
AutoBuilds(db, p) ==
    LET fetched == [r \in DOMAIN db.rows |->
                      IF r \in RowsOf(db, p) THEN FetchMissing(db.rows[r]) ELSE db.rows[r]]
        may(r) == Slots(fetched[r]) \cup {{}}
        choices == [RowsOf(db, p) -> UNION {may(r) : r \in RowsOf(db, p)}]
    IN  {[db EXCEPT !.rows = [r \in DOMAIN @ |->
             IF r \in RowsOf(db, p) THEN [fetched[r] EXCEPT !.sel = ch[r]] ELSE @[r]]] :
         ch \in {f \in choices : \A r \in DOMAIN f : f[r] \in may(r)}}
==============================================================================
