----------------------------- MODULE CoursesPage -----------------------------
(***************************************************************************)
(* The frame of the courses page (grade-statistics-page.tsx): its tabs,    *)
(* their deferred contents and the tab named by the address; and the       *)
(* reports the statistics tab compares (course-stats-tab.tsx,              *)
(* grade-compare-tray.tsx), which last as long as that tab is mounted.     *)
(***************************************************************************)
EXTENDS Integers, Sequences, FiniteSets, SequencesExt, Lists

CONSTANTS
    Tabs,            \* tabOptions, the first of them shown first
    StatsTab,        \* the one that compares
    Reports,         \* [id, gpa, std, withdrawn], hundredths: {} or a singleton
    MaxSelections,   \* MAX_SELECTIONS of the tab
    Clicks           \* bound on the clicks

VARIABLES
    activeTab, contentTab,
    deferred,    \* setContentTab calls waiting in transitions, oldest first
    address,     \* ?tab= of the location, {} when absent
    going,       \* the navigation under way, {} when none
    clicked,     \* the last tab a click was taken for (history)
    selected,    \* reports to compare, in the order they were added
    clicks

pageVars == <<activeTab, contentTab, deferred, address, going, clicked, selected, clicks>>

PageInit ==
    /\ activeTab = Head(Tabs) /\ contentTab = Head(Tabs) /\ deferred = <<>>
    /\ address \in {{}} \cup {{t} : t \in ToSet(Tabs)} /\ going = {}
    /\ clicked = IF address = {} THEN {Head(Tabs)} ELSE address
    /\ selected = <<>> /\ clicks = Clicks

-----------------------------------------------------------------------------
(* Tabs. *)
\* The effect: the address wins over the tab shown.
MustFollow == address # {} /\ address # {activeTab}
Follow ==
    /\ MustFollow
    /\ \E t \in address : activeTab' = t /\ deferred' = Append(deferred, t)
    /\ UNCHANGED <<contentTab, address, going, clicked, selected, clicks>>

ClickTab_NoAddress(t) ==
    /\ ~MustFollow /\ clicks > 0 /\ t # activeTab
    /\ activeTab' = t /\ deferred' = Append(deferred, t) /\ clicked' = {t}
    /\ clicks' = clicks - 1 /\ UNCHANGED <<contentTab, address, going, selected>>
\* handleTabChange; a click on the tab that is shown does nothing.
ClickTab(t) ==
    /\ ~MustFollow /\ clicks > 0 /\ t # activeTab
    /\ activeTab' = t /\ deferred' = Append(deferred, t) /\ clicked' = {t}
    /\ going' = IF address = {t} THEN going ELSE {t}
    /\ clicks' = clicks - 1 /\ UNCHANGED <<contentTab, address, selected>>

\* The contents mount when the transition is rendered; the statistics forget what
\* was selected when they are unmounted.
Transition ==
    /\ ~MustFollow /\ deferred # <<>>
    /\ contentTab' = Last(deferred) /\ deferred' = <<>>
    /\ selected' = IF contentTab' = StatsTab THEN selected ELSE <<>>
    /\ UNCHANGED <<activeTab, address, going, clicked, clicks>>

\* The router's location changes; a newer navigation has replaced an older one.
Navigated ==
    /\ going # {} /\ address' = going /\ going' = {}
    /\ UNCHANGED <<activeTab, contentTab, deferred, clicked, selected, clicks>>

-----------------------------------------------------------------------------
(* Comparing. *)
Choose(list) == /\ ~MustFollow /\ contentTab = StatsTab /\ clicks > 0 /\ clicks' = clicks - 1
                /\ selected' = list
                /\ UNCHANGED <<activeTab, contentTab, deferred, address, going, clicked>>

\* The button of a card is off when the limit is reached, unless it takes its report out.
OffersCompare(r) == r \in ToSet(selected) \/ Len(selected) < MaxSelections
ToggleSelect(r) ==
    /\ OffersCompare(r)
    /\ Choose(IF r \in ToSet(selected)
              THEN Entries(selected, {i \in DOMAIN selected : selected[i] # r})
              ELSE Append(selected, r))

\* "Clear all", and "1 selected - compare".
Clear == selected # <<>> /\ Choose(<<>>)

PageNext ==
    \/ Follow \/ Transition \/ Navigated \/ Clear
    \/ \E t \in ToSet(Tabs) : ClickTab(t)
    \/ \E r \in Reports : ToggleSelect(r)

\* The number shown for an unknown one is zero.
Known(field) == CHOOSE n \in field \cup {0} : field # {} => n \in field
\* DIFFICULTY_RANK of getDifficultyLevel, an unknown deviation counting as one.
Difficulty(r) ==
    LET gpa == Known(r.gpa)
        std == IF r.std = {} THEN 100 ELSE Known(r.std)
    IN  CASE gpa >= 350 /\ std <= 50 -> 0
          [] gpa <= 200 \/ std >= 100 -> 3
          [] gpa <= 250 \/ std >= 80 -> 2
          [] OTHER -> 1
GPAs == [i \in DOMAIN selected |-> Known(selected[i].gpa)]
Ranks == [i \in DOMAIN selected |-> Difficulty(selected[i])]
Withdrawals == [i \in DOMAIN selected |-> Known(selected[i].withdrawn)]

\* bestHigherIndexes and bestLowerIndexes: nobody wins when all are equal.
BestHigher(values) ==
    {i \in DOMAIN values : /\ \A j \in DOMAIN values : values[j] <= values[i]
                           /\ \E j \in DOMAIN values : values[j] < values[i]}
BestLower(values) == BestHigher([i \in DOMAIN values |-> -values[i]])

\* The table is shown from two reports on.
ShowsTable == Len(selected) > 1
Marked == IF ShowsTable
          THEN [gpa |-> BestHigher(GPAs), difficulty |-> BestLower(Ranks),
                withdrawal |-> BestLower(Withdrawals)]
          ELSE [gpa |-> {}, difficulty |-> {}, withdrawal |-> {}]

-----------------------------------------------------------------------------
(* However the clicks, the effect and the router interleave, the page comes to rest
   on the tab that was asked for last, and its contents follow. *)
TabSettles == <>[](/\ clicked = {activeTab} /\ contentTab = activeTab
                   /\ address # {} => address = {activeTab})

(* "Better for this metric": a report is marked only if its value is known, for the
   GPA, and worse than none that is compared with it. *)
MarkedIsBetter ==
    /\ \A i \in Marked.gpa :
         /\ selected[i].gpa # {} /\ \A j \in DOMAIN selected : \A g \in selected[j].gpa :
              \A h \in selected[i].gpa : g <= h
         /\ \E j \in DOMAIN selected : GPAs[j] # GPAs[i]
    /\ \A i \in Marked.difficulty : \E j \in DOMAIN selected : Ranks[i] < Ranks[j]
    /\ \A i \in Marked.withdrawal : \A j \in DOMAIN selected :
         \A w \in selected[i].withdrawn, x \in selected[j].withdrawn : w <= x
==============================================================================
