----------------------------- MODULE ScheduleView -----------------------------
(***************************************************************************)
(* What the schedule builder makes of the selected sections: the comfort   *)
(* metrics (utils/schedule-quality.ts), the week grid and the agenda of    *)
(* the preview, and the clash marks of the section picker                  *)
(* (section-picker-drawer.tsx).  Times are in minutes of the day.          *)
(***************************************************************************)
EXTENDS Lists, Sequences, SequencesExt, FiniteSetsExt

CONSTANT Catalog  \* sections: [id, course, type, days, times]

VARIABLES
    events,   \* the selected sections
    crop,     \* collapseEmptyEdges
    stored,   \* planner.collapseEmptyEdges in local storage
    day       \* selectedDay of the agenda, "" while it is not mounted

viewVars == <<events, crop, stored, day>>

Week == <<"M", "T", "W", "R", "F", "S", "U">>
dayDefs == <<"M", "T", "W", "R", "F", "S">>
LUNCH_WINDOW_START == 12 * 60
LUNCH_WINDOW_END == 15 * 60
MIN_LUNCH_MINUTES == 30
MIN_QUICK_BREAK_MINUTES == 15

\* "12:30 PM": twelve o'clock is hour 0 of its half of the day.
ParseClock(c) == ((c.h % 12) + (IF c.pm THEN 12 ELSE 0)) * 60 + c.m
Clocks == [h : 1..12, m : 0..59, pm : BOOLEAN]
FormatClock(t) == [h |-> (((t \div 60) + 11) % 12) + 1, m |-> t % 60, pm |-> t \div 60 >= 12]

\* times lists the meetings of a section; only the first is read.
Timed(s) == s.times # <<>>
Start(s) == ParseClock(s.times[1].from)
End(s) == ParseClock(s.times[1].to)

\* What is read of a section: its key, letters of the week, and meetings of two clock times.
ASSUME CatalogAssumption ==
    /\ \A s \in Catalog : /\ s.id \in Int /\ s.days \subseteq Range(Week)
                          /\ s.times \in Seq([from : Clocks, to : Clocks])
    /\ \A s, t \in Catalog : s.id = t.id => s = t

-----------------------------------------------------------------------------
\* computeScheduleQuality

InOrder_Unsorted(B) == Ranked(B, LAMBDA s, t : s.id < t.id)

\* The blocks of a day in the order of their starts, ties in the order of S.
Blocks(S, d) == {s \in S : Timed(s) /\ d \in s.days /\ Start(s) < End(s)}
Sooner(s, t) == Start(s) < Start(t) \/ (Start(s) = Start(t) /\ s.id < t.id)
InOrder(B) == Ranked(B, Sooner)
DayKeys(S) == Entries(Week, {i \in DOMAIN Week : Blocks(S, Week[i]) # {}})
Overlap(s, t) == Start(s) < End(t) /\ Start(t) < End(s)
HasClash(S) == \E d \in Range(Week) : \E s, t \in Blocks(S, d) : s # t /\ Overlap(s, t)

\* dayMinutes after the first k blocks.
Minutes(B) ==
    LET seq == InOrder(B)
        sum[k \in 0 .. Len(seq)] == IF k = 0 THEN 0 ELSE sum[k - 1] + End(seq[k]) - Start(seq[k])
    IN  sum[Len(seq)]
TotalClassMinutes(S) == FoldSet(LAMBDA d, n : n + Minutes(Blocks(S, d)), 0, Range(DayKeys(S)))

Gaps(B) == LET seq == InOrder(B)
           IN  {Start(seq[i + 1]) - End(seq[i]) : i \in 1 .. Len(seq) - 1} \cap (Nat \ {0})
LongestGap(S) ==
    LET all == UNION {Gaps(Blocks(S, d)) : d \in Range(Week)}
    IN  IF all = {} THEN 0 ELSE Max(all)
EarliestStart(S) == Min({Start(s) : s \in UNION {Blocks(S, d) : d \in Range(Week)}})
LatestEnd(S) == Max({End(s) : s \in UNION {Blocks(S, d) : d \in Range(Week)}})

\* The first of the fullest days and the last of the emptiest.
Loads(S) == {Minutes(Blocks(S, d)) : d \in Range(DayKeys(S))}
HeaviestDay(S) ==
    SelectSeq(DayKeys(S), LAMBDA d : Minutes(Blocks(S, d)) = Max(Loads(S)))[1]
LightestDay(S) ==
    Last(SelectSeq(DayKeys(S), LAMBDA d : Minutes(Blocks(S, d)) = Min(Loads(S))))

Longer(best, from, to) == IF to - from > best.to - best.from THEN [from |-> from, to |-> to] ELSE best
Later(x, y) == IF x > y THEN x ELSE y

\* The classes of a day within the lunch window, in the order of their starts.
Clip(s) == [from |-> Later(Start(s), LUNCH_WINDOW_START),
            to |-> IF End(s) < LUNCH_WINDOW_END THEN End(s) ELSE LUNCH_WINDOW_END]
Occupied(B) == {c \in {Clip(s) : s \in B} : c.from < c.to}
Lunches(B) ==
    Ranked(Occupied(B), LAMBDA c, d : c.from < d.from \/ (c.from = d.from /\ c.to < d.to))

\* Walk them with a cursor at the end of the last; best is the longest slot passed.
AfterLunch(w, c) == [cursor |-> Later(w.cursor, c.to), best |-> Longer(w.best, w.cursor, c.from)]
Noon == [cursor |-> LUNCH_WINDOW_START,
         best |-> [from |-> LUNCH_WINDOW_START, to |-> LUNCH_WINDOW_START]]
BestLunchSlot(B) ==
    LET seq == Lunches(B)
        walk[k \in 0 .. Len(seq)] == IF k = 0 THEN Noon ELSE AfterLunch(walk[k - 1], seq[k])
        last == walk[Len(seq)]
    IN  Longer(last.best, last.cursor, LUNCH_WINDOW_END)
LunchKind(minutes) ==
    CASE minutes >= MIN_LUNCH_MINUTES -> "lunch"
      [] minutes >= MIN_QUICK_BREAK_MINUTES /\ minutes < MIN_LUNCH_MINUTES -> "quick"
      [] OTHER -> "none"

\* The badge next to the plan's name, and whether insights are offered.
FitBadge(S) ==
    CASE S = {} -> "none"
      [] S # {} /\ (\A d \in Range(Week) : Blocks(S, d) = {}) -> "No times"
      [] OTHER -> IF HasClash(S) THEN "Clash" ELSE "Fit"
InsightsOffered(S) == FitBadge(S) \in {"Clash", "Fit"}

-----------------------------------------------------------------------------
\* SchedulePreview

TimedEvents(S) == {s \in S : Timed(s)}
Hours(S, cropped) ==
    LET T == TimedEvents(S)
        first == Min({Start(s) : s \in T}) \div 60
        last == (Max({End(s) : s \in T}) + 59) \div 60
    IN  IF T = {} THEN [from |-> 8, to |-> 23]
        ELSE IF cropped THEN [from |-> first, to |-> Later(last, first + 1)]
        ELSE [from |-> IF first < 8 THEN first ELSE 8, to |-> Later(23, last)]

\* Sections whose interval meets another one of that day, as the grid compares them.
ClashingSections(S) ==
    {s \in TimedEvents(S) : \E t \in TimedEvents(S) \ {s} :
        s.days \cap t.days # {} /\ ~(End(s) <= Start(t) \/ Start(s) >= End(t))}

Used(S, d) == \E s \in TimedEvents(S) : d \in s.days
Workdays == Entries(dayDefs, {i \in DOMAIN dayDefs : dayDefs[i] # "S"})
Cropped(S) ==
    LET used == {i \in DOMAIN dayDefs : Used(S, dayDefs[i])}
    IN  IF used = {} THEN Workdays ELSE SubSeq(dayDefs, Min(used), Max(used))
VisibleDays(S, cropped) ==
    IF cropped THEN Cropped(S) ELSE IF Used(S, "S") THEN dayDefs ELSE Workdays

\* Top and bottom of a block, in minutes from the top of the grid.
BlockTop(s, S, cropped) == Start(s) - 60 * Hours(S, cropped).from
BlockBottom(s, S, cropped) == End(s) - 60 * Hours(S, cropped).from

\* ScheduleAgenda
DaysWithEvents(S) == Entries(dayDefs, {i \in DOMAIN dayDefs : Used(S, dayDefs[i])})
DayTabs(S, cropped) == IF cropped THEN Cropped(S) ELSE dayDefs
DayEvents(S, d) == {s \in TimedEvents(S) : d \in s.days}
FirstDay(S) == IF DaysWithEvents(S) = <<>> THEN dayDefs[1] ELSE DaysWithEvents(S)[1]

-----------------------------------------------------------------------------
\* The section picker

Conflict_Inclusive(s, t) ==
    /\ Timed(s) /\ Timed(t) /\ s.days \cap t.days # {}
    /\ Start(s) <= End(t) /\ Start(t) <= End(s)

\* sectionsTimeConflict
Conflict(s, t) ==
    /\ Timed(s) /\ Timed(t) /\ s.days \cap t.days # {}
    /\ Start(s) < End(t) /\ Start(t) < End(s)
OtherTypes(s, S) == {t \in S : t.course # s.course \/ t.type # s.type}
MarkedClash(s, S) == \E t \in OtherTypes(s, S) : Conflict(s, t)

\* formatScheduleShortlist: a line per course with a selection.
Shortlist(S) == {[course |-> c, types |-> {s.type : s \in {t \in S : t.course = c}}] :
                   c \in {s.course : s \in S}}

-----------------------------------------------------------------------------
ViewInit ==
    /\ events = {} /\ day = "" /\ crop = FALSE /\ stored = FALSE

\* The agenda mounts with the first timed section; its effect on events and crop
\* leaves a day without sections.
Agenda(S) ==
    day' = CASE TimedEvents(S) = {} -> ""
             [] day = "" /\ TimedEvents(S) # {} -> FirstDay(S)
             [] OTHER -> IF day \in Range(DaysWithEvents(S)) \/ DaysWithEvents(S) = <<>>
                         THEN day ELSE DaysWithEvents(S)[1]

\* The selection changes: the picker replaces the section of a type.
Choose ==
    /\ \E s \in Catalog \ events :
         /\ events' = OtherTypes(s, events) \cup {s}
         /\ Agenda(events')
    /\ UNCHANGED <<crop, stored>>

Deselect ==
    /\ \E s \in events : events' = events \ {s} /\ Agenda(events')
    /\ UNCHANGED <<crop, stored>>

\* Writing the preference may fail silently.
ToggleCrop ==
    /\ crop' = ~crop
    /\ stored' \in {crop', stored}
    /\ Agenda(events)
    /\ UNCHANGED events

Reload ==
    /\ crop' = stored
    /\ day' = IF TimedEvents(events) = {} THEN "" ELSE FirstDay(events)
    /\ UNCHANGED <<events, stored>>

\* A tab without sections is disabled.
TapDay ==
    /\ day # ""
    /\ \E d \in Range(DayTabs(events, crop)) \cap Range(DaysWithEvents(events)) : day' = d
    /\ UNCHANGED <<events, crop, stored>>

ViewNext == Choose \/ Deselect \/ ToggleCrop \/ Reload \/ TapDay

ViewSpec == ViewInit /\ [][ViewNext]_viewVars

-----------------------------------------------------------------------------
(***************************************************************************)
(* Properties.                                                             *)
(***************************************************************************)

\* The badge (schedule-quality.ts) and the red blocks of the grid
\* (schedule-builder-tab.tsx) are computed twice and never disagree.
BadgeMatchesGrid == (FitBadge(events) = "Clash") <=> ClashingSections(events) # {}

\* What the picker marks as a clash is what the grid would show after picking it.
PickerPredictsGrid ==
    \A s \in Catalog \ events :
        MarkedClash(s, events) <=> s \in ClashingSections(OtherTypes(s, events) \cup {s})

\* The badge of the summary, the warning of the section picker and the columns of the
\* grid tell the same classes apart as clashing.
ClashesAgree == BadgeMatchesGrid /\ PickerPredictsGrid

\* Every class is drawn inside the grid, cropped or not, unless it is on a Sunday.
GridHoldsEveryClass ==
    \A s \in TimedEvents(events) :
        /\ BlockTop(s, events, crop) >= 0
        /\ BlockBottom(s, events, crop) <= 60 * (Hours(events, crop).to - Hours(events, crop).from)
        /\ s.days \ {"U"} \subseteq Range(VisibleDays(events, crop))

\* The agenda shows an empty day only when no day has a class.
AgendaIsNotBlank ==
    day # "" /\ DaysWithEvents(events) # <<>> => DayEvents(events, day) # {}

\* The lunch slot found by the walk is free and no free slot is longer.
LunchIsTheLongestFree ==
    \A d \in Range(Week) :
        LET B == Blocks(events, d)
            cuts == {LUNCH_WINDOW_START, LUNCH_WINDOW_END} \cup {Start(s) : s \in B} \cup {End(s) : s \in B}
            Free(x, y) == /\ x >= LUNCH_WINDOW_START /\ y <= LUNCH_WINDOW_END /\ x <= y
                          /\ \A s \in B : End(s) <= x \/ Start(s) >= y
            best == BestLunchSlot(B)
        IN  /\ Free(best.from, best.to) \/ best.from = best.to
            /\ \A x, y \in cuts : Free(x, y) => y - x <= best.to - best.from

\* Without clashes the gaps of a day have no class in them: classes and any gap
\* fit between the first class and the last, however long the others are; and
\* the clock times shown read back as the times they stand for.
GapsAreFree ==
    ~HasClash(events) =>
        \A d \in Range(DayKeys(events)) :
            LET B == Blocks(events, d)
            IN  /\ \A g \in Gaps(B) : Minutes(B) + g <= LatestEnd(B) - EarliestStart(B)
                /\ \A s \in B : ParseClock(FormatClock(Start(s))) = Start(s)

\* The week shown holds every class of the selection, opens on a day that has one, and
\* its lunch and gaps are free time.
WeekIsTrue == GridHoldsEveryClass /\ AgendaIsNotBlank /\ LunchIsTheLongestFree /\ GapsAreFree
===============================================================================
