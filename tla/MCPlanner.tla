------------------------------ MODULE MCPlanner ------------------------------
(***************************************************************************)
(* The three state machines of the schedule builder tab, one at a time:    *)
(* they share no state the other two change, so a behaviour runs one part. *)
(***************************************************************************)
EXTENDS ScheduleBuilder, ScheduleView, CourseSearch, TLC

VARIABLE part

CONSTANTS a, b, aL1, aL2, aR1, bL1

MCOffered == a :> {aL1, aL2, aR1} @@ b :> {bL1}
MCType == aL1 :> "L" @@ aL2 :> "L" @@ aR1 :> "R" @@ bL1 :> "L"

Loaded(code, p) == [plan |-> p, code |-> code, gen |-> 1, sel |-> {}]
TwoPlans == [plans |-> {1, 2}, rows |-> 1 :> Loaded(a, 1) @@ 2 :> Loaded(b, 1),
             nextPlan |-> 3, nextRow |-> 3]

MCMixes == {
    {"switch", "create", "delete"}, {"create", "duplicate"},
    {"switch", "select"}, {"add", "select"},
    {"build", "undo", "refresh"}, {"refresh", "reset", "add", "remove"}}

\* Meetings around noon, early, late, on a Saturday, on a Sunday, and not announced.
Clock(h, m, pm) == [h |-> h, m |-> m, pm |-> pm]
Meeting(h1, m1, p1, h2, m2, p2) == <<[from |-> Clock(h1, m1, p1), to |-> Clock(h2, m2, p2)]>>
Class(id, course, type, days, times) ==
    [id |-> id, course |-> course, type |-> type, days |-> days, times |-> times]
MCCatalog == {
    Class(1, "a", "L", {"M", "W"}, Meeting(9, 0, FALSE, 10, 15, FALSE)),
    Class(2, "a", "L", {"M", "W"}, Meeting(12, 0, TRUE, 12, 50, TRUE)),
    Class(3, "a", "R", {"W", "F"}, Meeting(10, 15, FALSE, 12, 20, TRUE)),
    Class(4, "b", "L", {"M", "S"}, Meeting(1, 0, TRUE, 2, 45, TRUE)),
    Class(5, "b", "L", {"W", "U"}, Meeting(7, 30, FALSE, 9, 30, FALSE)),
    Class(6, "c", "L", {"T", "W"}, Meeting(2, 30, TRUE, 11, 20, TRUE)),
    Class(7, "c", "LAB", {}, <<>>),
    Class(8, "d", "S", {"W", "F"}, Meeting(12, 20, TRUE, 12, 40, TRUE))}

MCQueries == {<<"M">>, <<"P">>}
MCPages == <<"M">> :> 3 @@ <<"P">> :> 1

MCInit ==
    /\ part \in {"plans", "view", "search"} /\ Init /\ ViewInit /\ SearchInit
    /\ part # "plans" => mix = {"create", "duplicate"}
MCNext ==
    /\ UNCHANGED part
    /\ \/ part = "plans" /\ Next /\ UNCHANGED <<viewVars, searchVars>>
       \/ part = "view" /\ ViewNext /\ UNCHANGED <<vars, searchVars>>
       \/ part = "search" /\ SearchNext /\ UNCHANGED <<vars, viewVars>>
MCvars == <<part, vars, viewVars, searchVars>>

\* Effects and callbacks run, the service answers, a search that is not replaced
\* settles.
MCSpec ==
    /\ MCInit /\ [][MCNext]_MCvars
    /\ WF_vars(Effects /\ part = "plans" /\ UNCHANGED <<part, viewVars, searchVars>>)
    /\ WF_vars(Service /\ part = "plans" /\ UNCHANGED <<part, viewVars, searchVars>>)
    /\ WF_vars(Arrivals /\ part = "plans" /\ UNCHANGED <<part, viewVars, searchVars>>)
    /\ WF_pending((Found \/ NotFound) /\ part = "search" /\ UNCHANGED <<part, vars, viewVars>>)

\* No course shows as loading without a call that ends it, and no search spins for good.
LoadingEnds == [](part = "plans" => EachLoadIsCalled) /\ LoadMoreEnds
==============================================================================
