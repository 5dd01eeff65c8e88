--------------------------- MODULE ScheduleBuilder ---------------------------
(***************************************************************************)
(* The schedule builder tab (features/courses/components/                  *)
(* schedule-builder-tab.tsx) of one student in one browser tab, against    *)
(* the planner service: the query cache, optimistic section selection, the *)
(* effects that follow the selected plan, and the calls on their way.      *)
(*                                                                         *)
(* A call goes out, is served, and its answer runs the mutation's          *)
(* callbacks; calls overtake each other freely.                            *)
(***************************************************************************)
EXTENDS Planner

CONSTANTS
    InitDatabase,
    LossyKinds,  \* kinds of calls whose answer may be lost, served or not
    Mixes,       \* bound: sets of operations one student performs
    MaxOps       \* bound on their number

ASSUME BuilderAssumption ==
    /\ IsDatabase(InitDatabase)
    /\ \A r \in DOMAIN InitDatabase.rows : Proper(InitDatabase.rows[r].sel)

VARIABLES
    db,          \* the planner's tables
    calls,       \* mutations on their way
    selected,    \* selectedScheduleId, 0 for null
    watched,     \* the plan whose query is observed
    list,        \* data of the query "plannerSchedules": ids of plans
    listFetch,   \* its refetch
    cache,       \* data of the queries ["plannerSchedule", id]
    stale,       \* ids of those invalidated since
    fetch,       \* their refetches
    shownPlan,   \* planner.id the reset effect ran for
    loading,     \* loadingSections
    autoFetched, \* autoFetchedCourses
    latest,      \* latestSectionSelectionRef
    snapshot,    \* autoBuildUndoSnapshot
    undo,        \* what the "Undo" button on screen restores
    mix,         \* the operations of this student, one of Mixes
    ops

queries == <<list, listFetch, cache, stale, fetch>>
view == <<watched, shownPlan, loading, autoFetched>>
undoing == <<snapshot, undo>>
vars == <<db, calls, selected, queries, view, latest, undoing, mix, ops>>

Put(f, k, v) == [x \in DOMAIN f \cup {k} |-> IF x = k THEN v ELSE f[x]]

NoPlan == [id |-> 0, courses |-> <<>>]
Plan(d, p) == [id |-> p, courses |-> Restrict(d.rows, RowsOf(d, p))]
planner == IF selected \in DOMAIN cache THEN cache[selected] ELSE NoPlan
Courses == DOMAIN planner.courses
Of(kind) == {c \in calls : c.kind = kind}

Asked == [st |-> "asked", data |-> NoPlan]
NotAsked == [st |-> "none", ids |-> {}]
NoIds == [gen |-> 0, secs |-> {}]
NoSnapshot == [plan |-> 0, ids |-> <<>>]
AnyRow == [plan |-> 0, code |-> CHOOSE c \in Codes : TRUE, gen |-> 0, sel |-> {}]

\* prev: the cached plan before an optimistic update.  A mutation's callbacks
\* read the selected plan of the last render, unless another mutate() of the
\* same kind took its place (live = FALSE): then that of the render before it.
Call(kind, plan) ==
    [kind |-> kind, n |-> ops + 1, plan |-> plan, row |-> 0, ids |-> NoIds,
     code |-> AnyRow.code, prev |-> NoPlan, res |-> AnyRow,
     st |-> "sent", ok |-> FALSE, live |-> TRUE]
Supersede(kind) ==
    {IF c.kind = kind /\ c.live THEN [c EXCEPT !.live = FALSE, !.plan = selected] ELSE c : c \in calls}
PlanAt(c) == IF c.live THEN selected ELSE c.plan

Invalidate_PlanOnly(k) ==
    /\ stale' = IF k \in DOMAIN cache THEN stale \cup {k} ELSE stale
    /\ fetch' = IF k # 0 /\ k = watched THEN Put(fetch, k, Asked) ELSE fetch
    /\ UNCHANGED <<list, listFetch, cache>>

\* invalidatePlanner as rendered with plan k.  A query on screen is refetched,
\* a fetch on its way is started over.
Invalidate(k) ==
    /\ listFetch' = [st |-> "asked", ids |-> {}]
    /\ stale' = IF k \in DOMAIN cache THEN stale \cup {k} ELSE stale
    /\ fetch' = IF k # 0 /\ k = watched THEN Put(fetch, k, Asked) ELSE fetch
    /\ UNCHANGED <<list, cache>>

-----------------------------------------------------------------------------
(***************************************************************************)
(* Effects.  They run before the tab handles anything else.                *)
(***************************************************************************)

\* The query turns to the selected plan and is fetched without fresh data.
Watch ==
    /\ watched # selected
    /\ watched' = selected
    /\ fetch' = IF \/ selected \in {0} \cup DOMAIN fetch
                   \/ selected \in DOMAIN cache \ stale THEN fetch
                ELSE Put(fetch, selected, Asked)
    /\ UNCHANGED <<db, calls, selected, list, listFetch, cache, stale, shownPlan, loading,
                   autoFetched, latest, undoing, mix, ops>>

MustSelect == list # {} /\ selected \notin list

SelectFirstPlan ==
    /\ MustSelect /\ watched = selected
    /\ selected' = OldestOf(list)
    /\ UNCHANGED <<db, calls, queries, view, latest, undoing, mix, ops>>

\* The effect on planner.id starts over with another plan.
ResetForPlan ==
    /\ ~MustSelect /\ watched = selected /\ shownPlan # planner.id
    /\ shownPlan' = planner.id
    /\ loading' = {} /\ autoFetched' = {} /\ snapshot' = NoSnapshot
    /\ UNCHANGED <<db, calls, selected, watched, queries, latest, undo, mix, ops>>

\* Courses whose sections are still to be loaded, once each.
Unfetched == {r \in Courses : SectionsOf(planner.courses[r]) = {} /\ r \notin autoFetched}

AutoFetch ==
    /\ ~MustSelect /\ watched = selected /\ shownPlan = planner.id /\ Unfetched # {}
    /\ autoFetched' = autoFetched \cup Unfetched
    /\ loading' = loading \cup Unfetched
    /\ calls' = calls \cup {[Call("sections", selected) EXCEPT !.row = r] : r \in Unfetched}
    /\ UNCHANGED <<db, selected, watched, queries, shownPlan, latest, undoing, mix, ops>>

Settled == ~MustSelect /\ watched = selected /\ shownPlan = planner.id /\ Unfetched = {}

-----------------------------------------------------------------------------
(***************************************************************************)
(* The student.                                                            *)
(***************************************************************************)

\* The tab is shown, not its skeleton.
May(kind) ==
    /\ kind \in mix /\ ops < MaxOps /\ Settled
    /\ selected # 0 /\ (selected \in DOMAIN cache \/ selected \notin DOMAIN fetch)
    /\ ops' = ops + 1 /\ UNCHANGED mix

SwitchPlan ==
    /\ May("switch")
    /\ \E p \in list \ {selected} : selected' = p
    /\ UNCHANGED <<db, calls, queries, view, latest, undoing>>

NextIds_KeepsType(row, type, new) == [gen |-> row.gen, secs |-> row.sel \cup new]

\* computeNextSectionSelection: keep the other types, replace this one.
NextIds(row, type, new) ==
    [gen |-> row.gen, secs |-> {s \in row.sel : SectionType[s] # type} \cup new]

Pick(r, type, new) ==
    LET row == planner.courses[r]
        ids == NextIds(row, type, new)
    IN  /\ May("select")
        /\ new \subseteq {s \in SectionsOf(row) : SectionType[s] = type}
        /\ new \cap row.sel = {}
        /\ new = {} => \E s \in row.sel : SectionType[s] = type
        /\ latest' = Put(latest, r, ids)
        /\ fetch' = Restrict(fetch, DOMAIN fetch \ {selected})
        /\ cache' = [cache EXCEPT ![selected].courses[r].sel = ids.secs]
        /\ stale' = stale \ {selected}
        /\ calls' = Supersede("select") \cup
                    {[Call("select", selected) EXCEPT !.row = r, !.ids = ids, !.prev = planner]}
        /\ UNCHANGED <<db, selected, list, listFetch, view, undoing>>

PickSection ==
    \E r \in Courses, type \in {SectionType[s] : s \in Sections}, n \in SUBSET Sections :
        Cardinality(n) <= 1 /\ Pick(r, type, n)

\* isCourseAlreadyAdded, and one addition at a time.
AddCourseClicked ==
    /\ May("add") /\ Of("add") = {} /\ planner # NoPlan
    /\ \E code \in Codes :
         /\ \A r \in Courses : planner.courses[r].code # code
         /\ calls' = calls \cup {[Call("add", selected) EXCEPT !.code = code]}
    /\ UNCHANGED <<db, selected, queries, view, latest, undoing>>

RemoveClicked ==
    /\ May("remove")
    /\ \E r \in Courses :
         calls' = Supersede("remove") \cup {[Call("remove", selected) EXCEPT !.row = r]}
    /\ UNCHANGED <<db, selected, queries, view, latest, undoing>>

RefreshClicked ==
    /\ May("refresh") /\ Of("refresh") = {} /\ Courses # {}
    /\ calls' = calls \cup {Call("refresh", selected)}
    /\ loading' = loading \cup Courses
    /\ UNCHANGED <<db, selected, queries, watched, shownPlan, autoFetched, latest, undoing>>

\* capturePlannerSelections
Captured == [r \in Courses |->
    [gen |-> planner.courses[r].gen, secs |-> planner.courses[r].sel]]

BuildClicked ==
    /\ May("build") /\ Of("build") = {} /\ planner # NoPlan
    /\ calls' = calls \cup {Call("build", selected)}
    /\ snapshot' = [plan |-> selected, ids |-> Captured]
    /\ UNCHANGED <<db, selected, queries, view, latest, undo>>

\* restorePlannerSelections: one call per course.
UndoClicked ==
    /\ May("undo") /\ DOMAIN undo.ids # {} /\ Of("restore") = {}
    /\ calls' = calls \cup {[Call("restore", undo.plan) EXCEPT !.row = r, !.ids = undo.ids[r]] :
                              r \in DOMAIN undo.ids}
    /\ undo' = NoSnapshot
    /\ UNCHANGED <<db, selected, queries, view, latest, snapshot>>

\* Reset, New plan, Duplicate and Delete plan, each with its own guard.
LimitReached == Cardinality(list) >= MaxPlans
PlanClicked(kind) ==
    /\ May(kind) /\ Of(kind) = {}
    /\ kind \in {"create", "duplicate"} => ~LimitReached
    /\ kind = "delete" => Cardinality(list) > 1
    /\ calls' = calls \cup {Call(kind, selected)}
    /\ UNCHANGED <<db, selected, queries, view, latest, undoing>>

-----------------------------------------------------------------------------
(***************************************************************************)
(* The service.                                                            *)
(***************************************************************************)

Answer(c, ok, res) == calls' = (calls \ {c}) \cup {[c EXCEPT !.st = "done", !.ok = ok, !.res = res]}
Refuse(c) == Answer(c, FALSE, AnyRow) /\ UNCHANGED db
Serving == UNCHANGED <<selected, queries, view, latest, undoing, mix, ops>>

\* Calls for a course: 404 when it is gone.
ServeCourse(c) ==
    /\ c.st = "sent" /\ c.kind \in {"select", "restore", "remove", "sections"}
    /\ IF c.row \notin DOMAIN db.rows THEN Refuse(c)
       ELSE /\ db' = CASE c.kind \in {"select", "restore"} -> SelectSections(db, c.row, c.ids)
                       [] c.kind = "remove" -> RemoveCourse(db, c.row)
                       [] c.kind = "sections" -> FetchSections(db, c.row)
            /\ Answer(c, TRUE, IF c.kind = "remove" THEN AnyRow ELSE db'.rows[c.row])
    /\ Serving

\* Calls for a plan: 404 when it is gone.
ServePlan(c) ==
    /\ c.st = "sent" /\ c.kind \in {"add", "refresh", "build", "reset"}
    /\ IF c.plan \notin db.plans THEN Refuse(c)
       ELSE /\ db' \in CASE c.kind = "add" -> {AddCourse(db, c.plan, c.code)}
                         [] c.kind = "refresh" -> {RefreshAll(db, c.plan)}
                         [] c.kind = "build" -> AutoBuilds(db, c.plan)
                         [] c.kind = "reset" -> {Reset(db, c.plan)}
            /\ Answer(c, TRUE, AnyRow)
    /\ Serving

\* The plans are counted in one statement and changed in a later one.
CheckCount(c) ==
    /\ c.st = "sent" /\ c.kind \in {"create", "duplicate", "delete"}
    /\ IF IF c.kind = "delete" THEN OnlyOne(db) ELSE Full(db) THEN Refuse(c)
       ELSE /\ calls' = (calls \ {c}) \cup {[c EXCEPT !.st = "checked"]}
            /\ UNCHANGED db
    /\ Serving

WritePlans(c) ==
    /\ c.st = "checked"
    /\ IF c.kind # "create" /\ c.plan \notin db.plans THEN Refuse(c)
       ELSE /\ db' = CASE c.kind = "create" -> CreatePlan(db)
                       [] c.kind = "duplicate" -> DuplicatePlan(db, c.plan)
                       [] c.kind = "delete" -> DeletePlan(db, c.plan)
            /\ Answer(c, TRUE, [AnyRow EXCEPT !.plan = db.nextPlan])
    /\ Serving

Serve(c) == ServeCourse(c) \/ ServePlan(c) \/ CheckCount(c) \/ WritePlans(c)

\* The network fails a call before it is served, or loses its answer.
Lose(c) ==
    /\ c.kind \in LossyKinds /\ (c.st = "sent" \/ c.ok)
    /\ Refuse(c) /\ Serving

ServeList ==
    /\ listFetch.st = "asked"
    /\ db' = ListPlans(db)
    /\ listFetch' = [st |-> "done", ids |-> db'.plans]
    /\ UNCHANGED <<calls, selected, list, cache, stale, fetch, view, latest, undoing, mix, ops>>

ServeSchedule ==
    /\ \E k \in DOMAIN fetch :
         /\ fetch[k].st = "asked"
         /\ fetch' = [fetch EXCEPT ![k] = IF k \in db.plans THEN [st |-> "done", data |-> Plan(db, k)]
                                          ELSE [st |-> "missing", data |-> NoPlan]]
    /\ UNCHANGED <<db, calls, selected, list, listFetch, cache, stale, view, latest, undoing, mix, ops>>

-----------------------------------------------------------------------------
(***************************************************************************)
(* Answers arrive.                                                         *)
(***************************************************************************)

ListArrives ==
    /\ Settled /\ listFetch.st = "done"
    /\ list' = listFetch.ids /\ listFetch' = NotAsked
    /\ UNCHANGED <<db, calls, selected, cache, stale, fetch, view, latest, undoing, mix, ops>>

\* A plan that is gone leaves the cached one as it is.
ScheduleArrives ==
    /\ Settled
    /\ \E k \in DOMAIN fetch :
         /\ fetch[k].st # "asked"
         /\ fetch' = Restrict(fetch, DOMAIN fetch \ {k})
         /\ IF fetch[k].st = "missing" THEN UNCHANGED <<cache, stale>>
            ELSE cache' = Put(cache, k, fetch[k].data) /\ stale' = stale \ {k}
    /\ UNCHANGED <<db, calls, selected, list, listFetch, view, latest, undoing, mix, ops>>

Returns(c, kinds) == Settled /\ c.st = "done" /\ c.kind \in kinds /\ calls' = calls \ {c}

IsLatest_Any(c) == TRUE
IsLatest(c) == latest[c.row] = c.ids

\* A newer choice for the course makes the answer void; a failed one takes back
\* the whole plan as it was before it.
SelectReturns(c) ==
    /\ Returns(c, {"select"})
    /\ IF ~IsLatest(c) \/ PlanAt(c) = 0 \/ (c.ok /\ PlanAt(c) \notin DOMAIN cache)
       THEN UNCHANGED <<cache, stale>>
       ELSE /\ cache' = IF ~c.ok THEN Put(cache, PlanAt(c), c.prev)
                        ELSE IF c.row \in DOMAIN cache[PlanAt(c)].courses
                        THEN [cache EXCEPT ![PlanAt(c)].courses[c.row] = c.res]
                        ELSE cache
            /\ stale' = stale \ {PlanAt(c)}
    /\ UNCHANGED <<db, selected, list, listFetch, fetch, view, latest, undoing, mix, ops>>

\* Calls whose success invalidates the planner and whose failure is only told.
PlainReturns(c) ==
    /\ Returns(c, {"add", "remove", "reset"})
    /\ IF c.ok THEN Invalidate(PlanAt(c)) ELSE UNCHANGED queries
    /\ UNCHANGED <<db, selected, view, latest, undoing, mix, ops>>

SectionsReturn_StaysLoading(c) ==
    /\ Returns(c, {"sections"})
    /\ IF c.ok THEN Invalidate(c.plan) /\ UNCHANGED autoFetched /\ loading' = loading \ {c.row}
       ELSE autoFetched' = autoFetched \ {c.row} /\ UNCHANGED <<queries, loading>>
    /\ UNCHANGED <<db, selected, watched, shownPlan, latest, undoing, mix, ops>>

SectionsReturn(c) ==
    /\ Returns(c, {"sections"})
    /\ loading' = loading \ {c.row}
    /\ IF c.ok THEN Invalidate(c.plan) /\ UNCHANGED autoFetched
       ELSE autoFetched' = autoFetched \ {c.row} /\ UNCHANGED queries
    /\ UNCHANGED <<db, selected, watched, shownPlan, latest, undoing, mix, ops>>

RefreshReturns(c) ==
    /\ Returns(c, {"refresh"})
    /\ loading' = {}
    /\ IF c.ok THEN Invalidate(PlanAt(c)) ELSE UNCHANGED queries
    /\ UNCHANGED <<db, selected, watched, shownPlan, autoFetched, latest, undoing, mix, ops>>

BuildReturns(c) ==
    /\ Returns(c, {"build"})
    /\ IF c.ok THEN /\ Invalidate(PlanAt(c))
                    /\ undo' = IF snapshot = NoSnapshot THEN undo
                               ELSE [snapshot EXCEPT !.plan = PlanAt(c)]
                    /\ UNCHANGED snapshot
       ELSE snapshot' = NoSnapshot /\ UNCHANGED <<queries, undo>>
    /\ UNCHANGED <<db, selected, view, latest, mix, ops>>

\* Promise.all: the first failure ends the undo, the last success completes it.
RestoreReturns(c) ==
    /\ Settled /\ c.st = "done" /\ c.kind = "restore"
    /\ calls' = IF c.ok \/ ~c.live THEN calls \ {c}
                ELSE {IF d.kind = "restore" THEN [d EXCEPT !.live = FALSE] ELSE d : d \in calls \ {c}}
    /\ IF c.ok /\ c.live /\ Of("restore") = {c}
       THEN Invalidate(c.plan) /\ snapshot' = NoSnapshot
       ELSE UNCHANGED <<queries, snapshot>>
    /\ UNCHANGED <<db, selected, view, latest, undo, mix, ops>>

\* The new plan, or none, is selected before the list has it.
PlansReturn(c) ==
    /\ Returns(c, {"create", "duplicate", "delete"})
    /\ IF c.ok THEN /\ Invalidate(PlanAt(c))
                    /\ selected' = IF c.kind = "delete" THEN 0 ELSE c.res.plan
       ELSE UNCHANGED <<queries, selected>>
    /\ UNCHANGED <<db, view, latest, undoing, mix, ops>>

Return(c) ==
    \/ SelectReturns(c) \/ PlainReturns(c) \/ SectionsReturn(c) \/ RefreshReturns(c)
    \/ BuildReturns(c) \/ RestoreReturns(c) \/ PlansReturn(c)

-----------------------------------------------------------------------------
\* The tab was opened and has its first answers.
Init ==
    /\ db = InitDatabase /\ calls = {} /\ mix \in Mixes /\ ops = 0
    /\ selected = 0 /\ watched = 0 /\ shownPlan = 0
    /\ list = db.plans /\ listFetch = NotAsked
    /\ cache = <<>> /\ stale = {} /\ fetch = <<>>
    /\ loading = {} /\ autoFetched = {} /\ latest = <<>>
    /\ snapshot = NoSnapshot /\ undo = NoSnapshot

Effects == Watch \/ SelectFirstPlan \/ ResetForPlan \/ AutoFetch
Student ==
    \/ SwitchPlan \/ PickSection \/ AddCourseClicked \/ RemoveClicked \/ RefreshClicked
    \/ BuildClicked \/ UndoClicked
    \/ \E kind \in {"reset", "create", "duplicate", "delete"} : PlanClicked(kind)
Service == ServeList \/ ServeSchedule \/ \E c \in calls : Serve(c)
Arrivals == ListArrives \/ ScheduleArrives \/ \E c \in calls : Return(c)

Next == Effects \/ Student \/ Service \/ (\E c \in calls : Lose(c)) \/ Arrivals

\* The browser runs effects and callbacks, the service answers.
Spec == Init /\ [][Next]_vars /\ WF_vars(Effects) /\ WF_vars(Service) /\ WF_vars(Arrivals)

-----------------------------------------------------------------------------
(***************************************************************************)
(* Properties.                                                             *)
(***************************************************************************)

\* However selections, refreshes, auto-builds, undos and failures overtake each
\* other, no course has two sections of one type selected, on the server or on
\* screen (computeNextSectionSelection starts from what is cached).
OneSectionPerType ==
    /\ \A r \in DOMAIN db.rows : Proper(db.rows[r].sel)
    /\ \A r \in Courses : Proper(planner.courses[r].sel)

\* A newer choice for a course is never undone on screen by the answer, or the
\* failure, of an older one (latestSectionSelectionRef).
OlderAnswerChangesNothing ==
    [][\A c \in Of("select") \ calls' :
         latest[c.row] # c.ids => UNCHANGED cache]_vars

\* The tables of the planner keep to the promised number of plans; checks before
\* writes let one plan too many through.
Count == INSTANCE PlanCount WITH count <- Cardinality(db.plans), Limit <- MaxPlans + 1
PlansStayInNumber == Count!Spec

\* The picker of a course is not disabled for good: each course shown as loading
\* has a call on its way that will end it.
EachLoadIsCalled ==
    \A r \in loading : Of("refresh") # {} \/ \E c \in Of("sections") : c.row = r

\* After a deletion the stale list may select the deleted plan again; the tab
\* ends up on a plan that exists.
SelectionIsRepaired ==
    (selected # 0 /\ selected \notin db.plans) ~> (selected \in db.plans)
==============================================================================
