------------------------------- MODULE MCGrades -------------------------------
(***************************************************************************)
(* The courses page of the frontend, one of its parts at a time: they      *)
(* share no state, so a behaviour runs one of them.                        *)
(***************************************************************************)
EXTENDS GradeBook, AssignmentForm, AuditTab, InfiniteList, TLC

VARIABLES part,
    activeTab, contentTab, deferred, address, going, clicked, compared, clicks

CONSTANTS n1, n2
MCSetup == <<n1, n2>>

It(id, r, n, done) == [id |-> id, reg |-> r, name |-> n, done |-> done, from |-> r]
Tmpl(id, c, own) == [id |-> id, course |-> c, own |-> own, names |-> <<n1>>]
MCServer ==
    [rows |-> 1 :> <<It(1, 1, n1, TRUE)>> @@ 2 :> <<It(2, 2, n1, FALSE)>>,
     dropped |-> {}, next |-> 3,
     tmpl |-> {Tmpl(1, 2, FALSE), Tmpl(2, 2, TRUE), Tmpl(3, 2, FALSE), Tmpl(4, 1, FALSE)},
     nextTmpl |-> 5]

Habit(ops, flight, n, faults) == [ops |-> ops, flight |-> flight, clicks |-> n, faults |-> faults]
MCHabits == {
    Habit({"add", "update", "delete", "select"}, 1, 3, 0),
    Habit({"sync", "import", "drawer", "delete"}, 1, 3, 0),
    Habit({"add", "update", "delete", "select", "toggle"}, 2, 3, 1),
    Habit({"drawer", "import", "select", "share"}, 2, 4, 0),
    Habit({"drawer", "more", "classmate"}, 1, 5, 0),
    Habit({"drawer", "more", "classmate", "share"}, 2, 4, 1),
    Habit({"sync", "export", "add", "signOut"}, 2, 3, 1)}

\* Weights below, at and above a hundred; scores missing, zero and full.
A(w, m, o) == [name |-> "x", weight |-> w, max |-> m, obtained |-> o]
MCItems == {<<>>, <<A({90}, {50}, {5})>>, <<A({}, {}, {50})>>,
            <<A({5}, {5}, {5}), A({50}, {50}, {})>>,
            <<A({50}, {50}, {50}), A({50}, {5}, {0})>>}
MCOthers == <<[credits |-> 6, items |-> <<A({50}, {50}, {50}), A({5}, {50}, {5})>>]>>

\* The second year offers a major of the first; the stored result may name an old one,
\* or a year the catalog no longer has.
MCYears == <<"y1", "y2">>
MCMajors == "y1" :> <<"m1", "m2">> @@ "y2" :> <<"m2", "m3">>
MCMinors == {"k"}
MCPrograms == {"-", "m1", "m2", "m3", "old", "k"}
MCLines == {"l1", "l2"}
MCStored == {{}, {[year |-> "y2", majors |-> <<"m3", "old">>, minors |-> <<"k">>]},
             {[year |-> "y1", majors |-> <<"old">>, minors |-> <<>>]},
             {[year |-> "y0", majors |-> <<"m1">>, minors |-> <<>>]}}

\* A report comes into the middle of the list while it is open.
Report(i, w, t) == [id |-> i, words |-> w, term |-> t]
MCTyped == {"-", "c"}
MCTerms == {"all", "t"}
MCHints == "c" :> <<"d">> @@ "d" :> <<>>
MCReports == {Report(1, {"c"}, "t"), Report(2, {"c", "d"}, "u"), Report(4, {"c"}, "t"),
              Report(5, {"d"}, "t")}
MCNewReports == {Report(3, {"c"}, "t")}

Compared(i, g, s, w) == [id |-> i, gpa |-> g, std |-> s, withdrawn |-> w]
MCCompared == {Compared(1, {300}, {60}, {5}), Compared(2, {}, {}, {}),
               Compared(3, {300}, {80}, {0}), Compared(4, {350}, {50}, {7})}
C == INSTANCE CoursesPage
     WITH Tabs <- <<"mine", "stats", "planner">>, StatsTab <- "stats", Reports <- MCCompared,
          MaxSelections <- 3, Clicks <- 5, selected <- compared

pageVars == <<activeTab, contentTab, deferred, address, going, clicked, compared, clicks>>
MCvars == <<part, vars, formVars, auditVars, listVars, pageVars>>

\* A part that does not run stands at one state of its own.
MCInit ==
    /\ part \in {"book", "form", "audit", "list", "page"}
    /\ Init /\ FormInit /\ AuditInit /\ ListInit /\ C!PageInit
    /\ part # "book" => habit.ops = {"add", "update", "delete", "select"}
    /\ part # "form" => assignments = <<>>
    /\ \/ runs = 2 /\ reads = 0
       \/ part = "audit" /\ runs = 0 /\ reads = 2
    /\ keyword = "c"
    /\ part # "page" => address = {}

MCNext ==
    /\ UNCHANGED part
    /\ \/ part = "book" /\ Next /\ UNCHANGED <<formVars, auditVars, listVars, pageVars>>
       \/ part = "form" /\ FormNext /\ UNCHANGED <<vars, auditVars, listVars, pageVars>>
       \/ part = "audit" /\ AuditNext /\ UNCHANGED <<vars, formVars, listVars, pageVars>>
       \/ part = "list" /\ ListNext /\ UNCHANGED <<vars, formVars, auditVars, pageVars>>
       \/ part = "page" /\ C!PageNext /\ UNCHANGED <<vars, formVars, auditVars, listVars>>

\* Timers fire, effects and transitions run, the service answers.
ListStep(step) == part = "list" /\ step /\ UNCHANGED <<part, vars, formVars, auditVars, pageVars>>
PageStep(step) == part = "page" /\ step /\ UNCHANGED <<part, vars, formVars, auditVars, listVars>>
MCSpec ==
    /\ MCInit /\ [][MCNext]_MCvars
    /\ WF_listVars(ListStep(KeywordTimer)) /\ WF_listVars(ListStep(Fetch))
    /\ WF_listVars(ListStep(\E key \in fetching : PageArrives(key)))
    /\ WF_pageVars(PageStep(C!Follow)) /\ WF_pageVars(PageStep(C!Transition))
    /\ WF_pageVars(PageStep(C!Navigated))

\* The list is loaded to its end; the page comes to rest on the tab asked for last, and
\* marks a report in the comparison only if it is better than another.
ScreensSettle ==
    /\ (part = "list" => ListEnds) /\ (part = "page" => C!TabSettles)
    /\ [](part = "page" => C!MarkedIsBetter)
==============================================================================
