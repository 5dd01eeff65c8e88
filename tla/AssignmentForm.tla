--------------------------- MODULE AssignmentForm ----------------------------
(***************************************************************************)
(* The dialog that adds and edits an assignment, typed key by key, and     *)
(* what the page computes from the assignments: scores, GPAs and the bar   *)
(* under the table (use-live-gpa-view-model.ts, assignment-modal.tsx,      *)
(* grade-utils.ts and the live-gpa components).  Scores are counted in     *)
(* units of 1/Scale; GradeBook has the calls that are answered here at     *)
(* once.                                                                   *)
(***************************************************************************)
EXTENDS Integers, Sequences, FiniteSets, SequencesExt

CONSTANTS
    Digits, MaxNumber,  \* the keys, and the longest number typed
    Scale,              \* a common multiple of the maximum scores and item counts
    InitItems,          \* assignments of the course at the start
    Others,             \* [credits, items] of the other courses
    Credits,            \* credits of the course, 0 for none
    Submits             \* bound on the submissions

VARIABLES
    assignments, \* [name, weight, max, obtained], each number {} or a singleton
    form,       \* [on, name, weight, max, obtained] of the dialog
    typed,      \* was a key pressed since the dialog opened? (history)
    submits

formVars == <<assignments, form, typed, submits>>

\* A field holds nothing, a lone dot, or a number.
Dot == -1
Fields == {"weight", "max", "obtained"}
Texts == {{}, {Dot}} \cup {{n} : n \in 0..MaxNumber}

\* What the page saves and shows again: a maximum is above zero, a score within it.
WellMade(it) ==
    /\ it = [name |-> it.name, weight |-> it.weight, max |-> it.max, obtained |-> it.obtained]
    /\ \A f \in Fields : it[f] \subseteq Nat /\ \A m, n \in it[f] : m = n
    /\ \A m \in it.max : m > 0 /\ \A o \in it.obtained : o <= m

MadeList(its) == its \in Seq(ToSet(its)) /\ \A it \in ToSet(its) : WellMade(it)

ASSUME FormAssumption ==
    /\ MaxNumber \in Nat /\ Scale \in Nat /\ Credits \subseteq Nat
    /\ \A its \in InitItems : MadeList(its)
    /\ Others \in Seq(ToSet(Others))
    /\ \A c \in ToSet(Others) : c.credits \in Nat /\ MadeList(c.items)

\* resetAssignmentForm; "on" is {} when closed, {0} to add, {k} to edit item k.
BlankForm == [on |-> {}, name |-> "", weight |-> {}, max |-> {}, obtained |-> {}]

FormInit == /\ assignments \in InitItems /\ form = BlankForm /\ typed = FALSE /\ submits = Submits

-----------------------------------------------------------------------------
(* Typing. *)
\* parseInput: no number, or the number.
Number(text) == text \ {Dot}

\* The effect that runs after every change of the two scores.
Clamped(f) ==
    IF \E m \in Number(f.max), o \in Number(f.obtained) : o > m
    THEN [f EXCEPT !.obtained = f.max] ELSE f

OpenForm(k, f) == form.on = {} /\ submits > 0 /\ form' = f /\ typed' = FALSE
                  /\ UNCHANGED <<assignments, submits>>

OpenAdd == OpenForm(0, [BlankForm EXCEPT !.on = {0}])

\* handleEditItem fills both the values and their texts.
Prefilled(k) == [on |-> {k}, name |-> assignments[k].name, weight |-> assignments[k].weight,
                 max |-> assignments[k].max, obtained |-> assignments[k].obtained]
OpenEdit(k) == OpenForm(k, Clamped(Prefilled(k)))

Cancel == form.on # {} /\ form' = BlankForm /\ UNCHANGED <<assignments, typed, submits>>

\* normalizeNumberInput keeps the digits and one dot; a dot alone is no number.
Keyed(text, d) == IF Number(text) = {} THEN {d} ELSE {n * 10 + d : n \in text}
Erased(text) == {n \div 10 : n \in {m \in Number(text) : m >= 10}}

IsFormOpen == form.on # {}
Press(f, text) ==
    /\ IsFormOpen /\ text \in Texts /\ form' = Clamped([form EXCEPT ![f] = text])
    /\ typed' = TRUE /\ UNCHANGED <<assignments, submits>>

TypeName(n) == /\ IsFormOpen /\ form' = [form EXCEPT !.name = n] /\ typed' = TRUE
               /\ UNCHANGED <<assignments, submits>>

-----------------------------------------------------------------------------
(* Submitting. *)
NumberValid(text, most) == text = {} \/ \E n \in Number(text) : n <= most
ObtainedValid(f) ==
    NumberValid(f.obtained, MaxNumber)
        /\ ~\E m \in Number(f.max), o \in Number(f.obtained) : o > m
IsValid(f) ==
    /\ f.name \notin {"", "blank"}
    /\ NumberValid(f.weight, 100) /\ NumberValid(f.max, MaxNumber) /\ ObtainedValid(f)

Payload_ScoreNeedsMax(f) ==
    LET max == {m \in Number(f.max) : m > 0}
    IN  [name |-> f.name, weight |-> Number(f.weight), max |-> max,
         obtained |-> IF max = {} THEN {} ELSE Number(f.obtained)]
\* A maximum of zero is no maximum; the score stays below the maximum.
Payload(f) ==
    LET max == {m \in Number(f.max) : m > 0}
    IN  [name |-> f.name, weight |-> Number(f.weight), max |-> max,
         obtained |-> {IF \E m \in max : o > m THEN CHOOSE m \in max : TRUE ELSE o :
                       o \in Number(f.obtained)}]

SubmitForm ==
    /\ IsFormOpen /\ IsValid(form) /\ submits > 0
    /\ assignments' =
         IF form.on = {0} THEN Append(assignments, Payload(form))
         ELSE [k \in DOMAIN assignments |-> IF k \in form.on THEN Payload(form) ELSE assignments[k]]
    /\ form' = BlankForm /\ typed' = typed /\ submits' = submits - 1

FormNext ==
    \/ OpenAdd \/ Cancel \/ SubmitForm \/ \E k \in DOMAIN assignments : OpenEdit(k)
    \/ \E n \in {"x", "blank"} : TypeName(n)
    \/ \E f \in Fields :
         \/ \E d \in Digits : Press(f, Keyed(form[f], d))
         \/ form[f] = {} /\ Press(f, {Dot})
         \/ form[f] # {} /\ Press(f, Erased(form[f]))

-----------------------------------------------------------------------------
(* What is computed from the assignments. *)
HasCompleteScore(it) == it.obtained # {} /\ it.max # {}
The(field) == CHOOSE n \in field \cup {0} : field # {} => n \in field
WeightOf(it) == The(it.weight)
Ratio(it) == (Scale \div The(it.max)) * The(it.obtained)
Lesser(x, y) == IF x < y THEN x ELSE y

\* reduce: the sum of values, each at a place of a list of n.
Sum(values, n) ==
    LET sum[k \in 0 .. n] ==
            IF k = 0 THEN 0 ELSE sum[k - 1] + (IF k \in DOMAIN values THEN values[k] ELSE 0)
    IN  sum[n]

\* getScoredItems, as places of the list; what the assignments at some places weigh.
Scored(its) == {i \in DOMAIN its : HasCompleteScore(its[i])}
Weight(its, I) == Sum([i \in I |-> WeightOf(its[i])], Len(its))
Earned(its) == Sum([i \in Scored(its) |-> WeightOf(its[i]) * Ratio(its[i])], Len(its))
Remaining(its) == IF Weight(its, Scored(its)) < 100 THEN 100 - Weight(its, Scored(its)) ELSE 0

MaxPossible(its) == Lesser(100 * Scale, Earned(its) + Remaining(its) * Scale)
Mean(its) == Sum([i \in Scored(its) |-> Ratio(its[i])], Len(its)) \div Cardinality(Scored(its))
Projected(its) == Lesser(100 * Scale, Earned(its) + Mean(its) * Remaining(its))

Ladder == {<<95, 400>>, <<90, 367>>, <<85, 333>>, <<80, 300>>, <<75, 267>>, <<70, 233>>,
           <<65, 200>>, <<60, 167>>, <<55, 133>>, <<50, 100>>, <<0, 0>>}
ScoreToGPA(s) == LET reached == {q[2] : q \in {r \in Ladder : s >= r[1] * Scale}}
                 IN  CHOOSE g \in reached : \A h \in reached : h <= g

\* The courses that count: credits, and at least one complete score.
Courses(credits) == Append(Others, [credits |-> credits, items |-> assignments])
Counting(courses) == {i \in DOMAIN courses : courses[i].credits > 0 /\ Scored(courses[i].items) # {}}
Total(courses, score(_)) ==
    Sum([i \in Counting(courses) |-> ScoreToGPA(score(courses[i].items)) * courses[i].credits],
        Len(courses))

\* The numbers on a course and in the summary: earned, projected, still possible.
CourseGPAs == <<ScoreToGPA(Earned(assignments)), ScoreToGPA(Projected(assignments)),
                ScoreToGPA(MaxPossible(assignments))>>
SummaryGPAs(courses) == <<Total(courses, Earned), Total(courses, Projected),
                          Total(courses, MaxPossible)>>

\* The bar: earned, below the maximum, pending, not assigned.
AllWeight == Weight(assignments, DOMAIN assignments)
ScoredWeight == Weight(assignments, Scored(assignments))
TotalWeight == IF AllWeight = 0 THEN 100 ELSE AllWeight
BarScale == IF TotalWeight > 100 THEN TotalWeight ELSE 100
Pending == Weight(assignments, DOMAIN assignments \ Scored(assignments))
BelowMax == IF ScoredWeight * Scale > Earned(assignments)
            THEN ScoredWeight * Scale - Earned(assignments) ELSE 0
Unassigned_ScoredOnly == Remaining(assignments)
Unassigned == IF TotalWeight < 100 THEN 100 - TotalWeight ELSE 0

-----------------------------------------------------------------------------
(* The three GPAs of a course and of the summary never cross: what was earned is
   at most what is projected, which is at most what can still be reached. *)
GPAsOrdered ==
    \A gpas \in {SummaryGPAs(Courses(c)) : c \in Credits}
               \cup (IF Scored(assignments) # {} THEN {CourseGPAs} ELSE {}) :
        gpas[1] <= gpas[2] /\ gpas[2] <= gpas[3]

\* The segments of the grade breakdown fill the bar exactly, over-assigned courses
\* included; only a course whose assignments have no weight shows an empty bar.
BreakdownFills ==
    AllWeight > 0 =>
        Earned(assignments) + BelowMax + (Pending + Unassigned) * Scale = BarScale * Scale

\* The lowest, expected and highest GPA are in order, and the breakdown fills its bar.
NumbersAddUp == GPAsOrdered /\ BreakdownFills

\* Opening an assignment and saving it untouched writes back what it was
\* (use-live-gpa-view-model.ts: handleEditItem fills the form, handleUpdateItem saves it).
UntouchedSaveChangesNothing ==
    [][submits' # submits /\ ~typed /\ form.on # {0} => assignments' = assignments]_formVars
==============================================================================
