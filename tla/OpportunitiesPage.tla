-------------------------- MODULE OpportunitiesPage --------------------------
(***************************************************************************)
(* The opportunities digest: the filtered list that is loaded by           *)
(* scrolling, the dialog that adds and edits an opportunity, and the       *)
(* buttons of a card.  The page invalidates a query client that it does    *)
(* not render from, so nothing it saves or deletes is fetched again: a     *)
(* page of the list stays as it arrived.                                   *)
(***************************************************************************)
EXTENDS Lists, Sequences, SequencesExt, FiniteSetsExt

CONSTANTS
    Types, Majors, Levels,  \* sequences: the options in the order they are listed
    LastYear,       \* the last year of a level that has years
    Today,          \* deadlines are days; 0 is year-round
    Size,           \* opportunities of a page
    InitRows,       \* a set of [id, text, type, majors, elig, deadline]; elig: <<level, year>>
    OppVisits       \* [manage, signedIn, ops, filters, texts, dates, clicks, faults]

VARIABLES
    oppVisit,
    rows,       \* of the service
    filters,    \* [type, level, majors, years, q, hide_expired]
    cache,      \* filters -> [pages, items, total, hasNext, failed]: the cached queries, with
                \* the number of their pages and the opportunities on them
    fetching,   \* filters with a request under way
    editing,    \* {} or the opportunity whose Edit was clicked, as listed then
    oppForm,    \* {} when closed, or {[text, types, majors, levels, years, deadline, yearRound]}
    submitError,
    deletingId, \* 0 for none
    oppCalls,   \* [op, id, payload, screen, listed, touched, state] of the mutations under way
    calendar,   \* opportunities in the calendar of the user
    wall,       \* the login dialog is open
    touched,    \* was anything changed since the form opened? (history)
    oppClicks, oppFaults

oppVars == <<oppVisit, rows, filters, cache, fetching, editing, oppForm, submitError, deletingId,
             oppCalls, calendar, wall, touched, oppClicks, oppFaults>>
list == <<filters, cache, fetching>>
oppDialog == <<editing, oppForm, submitError, touched>>
tables == <<rows, calendar>>

\* The level without years; a year 0 is none.
PhD == "PhD"

-----------------------------------------------------------------------------
(* The service. *)
Has(chosen, found) == chosen = <<>> \/ ToSet(chosen) \cap found # {}
\* The page sends min_year and max_year, which the service does not read.
Matches(f, r) ==
    /\ Has(f.type, {r.type}) /\ Has(f.majors, ToSet(r.majors))
    /\ Has(f.level, {e[1] : e \in ToSet(r.elig)})
    /\ f.hide_expired => r.deadline = 0 \/ r.deadline >= Today

HasKeyword(f) == f.q # ""
\* By deadline, year-round last, then by id.
Before(r, s) ==
    \/ r.deadline # 0 /\ (s.deadline = 0 \/ r.deadline < s.deadline)
    \/ r.deadline = s.deadline /\ r.id < s.id
\* With a keyword the filters apply to one page of hits, by id, and the total is of the
\* hits.
Ahead(f, r, s) == IF HasKeyword(f) THEN r.id < s.id ELSE Before(r, s)
Found(f) == {r \in rows : IF HasKeyword(f) THEN r.text = f.q ELSE Matches(f, r)}
Slice(f, n) ==
    {r \in Found(f) :
        Cardinality({s \in Found(f) : Ahead(f, s, r)}) \in (n - 1) * Size .. n * Size - 1}
ServedPage(f, n) ==
    LET total == Cardinality(Found(f))
    IN  [items |-> {r \in Slice(f, n) : Matches(f, r)}, total |-> total,
         hasNext |-> n < (total + Size - 1) \div Size]

-----------------------------------------------------------------------------
(* What the page shows. *)
Nothing == [pages |-> 0, items |-> {}, total |-> 0, hasNext |-> FALSE, failed |-> FALSE]
Key == filters
Query == IF Key \in DOMAIN cache THEN cache[Key] ELSE Nothing
Expired(r) == r.deadline # 0 /\ r.deadline < Today
Visible == {r \in Query.items : filters.hide_expired => ~Expired(r)}
isLoading == Query.pages = 0 /\ ~Query.failed

\* The marker under the list is only there when something is listed.
AtTheEnd == Visible # {} /\ Query.hasNext /\ Key \notin fetching
CanManage == oppVisit.signedIn /\ oppVisit.manage
OffersAdd == ~oppVisit.signedIn \/ oppVisit.manage
NothingOpen == oppForm = {} /\ ~wall

NoFilters == [type |-> <<>>, level |-> <<>>, majors |-> <<>>, years |-> {}, q |-> "",
              hide_expired |-> TRUE]

\* Opportunities as the page stores them: a level is listed once without a year, or with
\* years, and PhD without one.
WellSplit(elig) ==
    /\ elig \in Seq(ToSet(Levels) \X Nat)
    /\ \A i \in DOMAIN elig : elig[i][1] = PhD => elig[i][2] = 0
    /\ \A i, j \in DOMAIN elig : elig[i][1] = elig[j][1] /\ elig[i][2] = 0 => elig[j][2] = 0
ASSUME OppAssumption ==
    /\ Levels \in Seq(ToSet(Levels)) /\ LastYear \in Nat
    /\ IsFiniteSet(InitRows) /\ \A r \in InitRows : r.id \in Nat /\ WellSplit(r.elig)

OppInit ==
    /\ oppVisit \in OppVisits /\ rows = InitRows /\ filters = NoFilters
    /\ cache = <<>> /\ fetching = {}
    /\ editing = {} /\ oppForm = {} /\ submitError = FALSE /\ deletingId = 0 /\ oppCalls = {}
    /\ calendar = {} /\ wall = FALSE /\ touched = FALSE
    /\ oppClicks = oppVisit.clicks /\ oppFaults = oppVisit.faults

OppClick(op) == op \in oppVisit.ops /\ oppClicks > 0 /\ oppClicks' = oppClicks - 1

-----------------------------------------------------------------------------
(* Filters and pages. *)
\* MultiCheckboxDropdown: one option, or all of them.
Toggled(chosen, option) ==
    IF Contains(chosen, option) THEN Entries(chosen, {i \in DOMAIN chosen : chosen[i] # option})
    ELSE Append(chosen, option)
AllToggled(chosen, options) == IF Len(chosen) = Len(options) THEN <<>> ELSE options
Picks(chosen, options) ==
    {Toggled(chosen, o) : o \in ToSet(options)} \cup {AllToggled(chosen, options)}

\* The years picked become the range from the least to the greatest.
Years == 1..LastYear
ShownYears == UNION {r[1]..r[2] : r \in filters.years}
YearPicks ==
    {(ShownYears \ {y}) \cup ({y} \ ShownYears) : y \in Years}
        \cup {IF ShownYears = Years THEN {} ELSE Years}
YearRange(picked) ==
    {r \in picked \X picked : \A y \in picked : r[1] <= y /\ y <= r[2]}

Filter(name, value) ==
    /\ NothingOpen /\ name \in oppVisit.filters /\ OppClick("filter") /\ filters[name] # value
    /\ filters' = [filters EXCEPT ![name] = value]
    \* A query that failed without a page is asked for again.
    /\ cache' = [k \in {j \in DOMAIN cache : cache[j].pages # 0} |-> cache[k]]
    /\ UNCHANGED <<oppVisit, tables, fetching, oppDialog, deletingId, oppCalls, wall,
                   oppFaults>>

Fetch ==
    /\ Key \notin fetching /\ (isLoading \/ AtTheEnd)
    /\ fetching' = fetching \cup {Key}
    /\ UNCHANGED <<oppVisit, tables, filters, cache, oppDialog, deletingId, oppCalls, wall,
                   oppClicks, oppFaults>>

Keep(key, entry) == cache' = [k \in DOMAIN cache \cup {key} |-> IF k = key THEN entry ELSE cache[k]]
Old(key) == IF key \in DOMAIN cache THEN cache[key] ELSE Nothing
\* A page of the filters it was asked with, whatever is shown by now.
OppPageArrives(key) ==
    LET page == ServedPage(key, Old(key).pages + 1) IN
    /\ key \in fetching /\ fetching' = fetching \ {key}
    /\ Keep(key, [pages |-> Old(key).pages + 1, items |-> Old(key).items \cup page.items,
                  hasNext |-> page.hasNext,
                  total |-> IF Old(key).pages = 0 THEN page.total ELSE Old(key).total,
                  failed |-> FALSE])
    /\ UNCHANGED <<oppVisit, tables, filters, oppDialog, deletingId, oppCalls, wall,
                   oppClicks, oppFaults>>
PageFails(key) ==
    /\ key \in fetching /\ fetching' = fetching \ {key}
    /\ oppFaults > 0 /\ oppFaults' = oppFaults - 1
    /\ Keep(key, [Old(key) EXCEPT !.failed = TRUE])
    /\ UNCHANGED <<oppVisit, tables, filters, oppDialog, deletingId, oppCalls, wall, oppClicks>>

-----------------------------------------------------------------------------
(* The dialog.  One text stands for the name, the description and the link: ""
   when one that is required is missing, "bad" when the link is no address. *)
EmptyOpportunity == [text |-> "", types |-> <<Types[1]>>, majors |-> <<>>, levels |-> <<>>,
              years |-> [l \in ToSet(Levels) |-> <<>>], deadline |-> 0, yearRound |-> FALSE]
\* new Set: what comes first.
Firsts(s) == {i \in DOMAIN s : \A j \in DOMAIN s : j < i => s[j] # s[i]}
Distinct(s) == Entries(s, Firsts(s))
YearsOf_Last(elig, l) ==
    Entries([i \in DOMAIN elig |-> elig[i][2]],
            {i \in DOMAIN elig : elig[i][1] = l /\ elig[i][2] # 0
                                 /\ \A j \in DOMAIN elig : j > i => elig[j][1] # l})
YearsOf(elig, l) ==
    Entries([i \in DOMAIN elig |-> elig[i][2]],
            {i \in Firsts(elig) : elig[i][1] = l /\ elig[i][2] # 0})
\* One level for each eligibility: a level with two years is selected twice.
FormOf(o) ==
    [text |-> o.text, types |-> <<o.type>>, majors |-> o.majors,
     levels |-> [i \in DOMAIN o.elig |-> o.elig[i][1]],
     years |-> [l \in ToSet(Levels) |-> YearsOf(o.elig, l)],
     deadline |-> o.deadline, yearRound |-> o.deadline = 0]

Opens(opportunity) ==
    /\ editing' = opportunity /\ submitError' = FALSE /\ touched' = FALSE
    /\ oppForm' = IF opportunity = {} THEN {EmptyOpportunity} ELSE {FormOf(o) : o \in opportunity}
    /\ UNCHANGED <<oppVisit, list, tables, deletingId, oppCalls, oppFaults>>
Add ==
    /\ NothingOpen /\ OffersAdd /\ OppClick("add")
    /\ IF oppVisit.signedIn THEN Opens({}) /\ UNCHANGED wall
       ELSE wall' = TRUE /\ UNCHANGED <<oppVisit, list, tables, oppDialog, deletingId,
                                        oppCalls, oppFaults>>
CloseWall ==
    /\ wall /\ wall' = FALSE
    /\ UNCHANGED <<oppVisit, list, tables, oppDialog, deletingId, oppCalls, oppClicks,
                   oppFaults>>
EditCard(o) == NothingOpen /\ CanManage /\ OppClick("edit") /\ Opens({o}) /\ UNCHANGED wall

Shut == oppForm' = {} /\ submitError' = FALSE /\ UNCHANGED touched
CloseForm ==
    /\ oppForm # {} /\ OppClick("close") /\ Shut /\ editing' = {}
    /\ UNCHANGED <<oppVisit, list, tables, deletingId, oppCalls, wall, oppFaults>>

IsSubmitting == \E c \in oppCalls : c.op \in {"create", "update"}
OppChange(f) ==
    /\ oppForm # {} /\ oppForm # {f} /\ OppClick("type") /\ oppForm' = {f} /\ touched' = TRUE
    /\ UNCHANGED <<oppVisit, list, tables, editing, submitError, deletingId, oppCalls, wall,
                   oppFaults>>

\* Typing, the buttons of the Markdown toolbar, and a link inserted.
Write(f, text) == ~IsSubmitting /\ OppChange([f EXCEPT !.text = text])
\* The last one picked is the one type.
PickType(f) ==
    \E next \in Picks(f.types, Types) :
        OppChange([f EXCEPT !.types = IF next = <<>> THEN <<>> ELSE <<next[Len(next)]>>])
PickMajors(f) == \E next \in Picks(f.majors, Majors) : OppChange([f EXCEPT !.majors = next])
PickLevels(f) ==
    \E next \in Picks(f.levels, Levels) :
        OppChange([f EXCEPT !.levels = Distinct(next),
                         !.years = [l \in DOMAIN @ |-> IF Contains(next, l) /\ l # PhD THEN @[l]
                                                      ELSE <<>>]])
PickYears(f, l) ==
    /\ Contains(f.levels, l) /\ l # PhD
    /\ \E next \in Picks(f.years[l], [y \in Years |-> y]) : OppChange([f EXCEPT !.years[l] = next])
MarkYearRound(f) ==
    /\ ~IsSubmitting
    /\ OppChange([f EXCEPT !.yearRound = ~@, !.deadline = IF f.yearRound THEN @ ELSE 0])
PickDeadline(f, day) ==
    /\ ~IsSubmitting /\ ~f.yearRound /\ OppChange([f EXCEPT !.deadline = day])

-----------------------------------------------------------------------------
(* Mutations. *)
MaySubmit(f) ==
    /\ f.text \notin {"", "bad"} /\ f.types # <<>> /\ f.levels # <<>>
    /\ f.yearRound \/ f.deadline # 0
Split(f, l) ==
    IF l = PhD \/ f.years[l] = <<>> THEN <<<<l, 0>>>>
    ELSE [i \in DOMAIN f.years[l] |-> <<l, f.years[l][i]>>]
Eligibilities(f) == FlattenSeq([i \in DOMAIN f.levels |-> Split(f, f.levels[i])])
Payload(f) ==
    [text |-> f.text, type |-> f.types[1], majors |-> f.majors, elig |-> Eligibilities(f),
     deadline |-> IF f.yearRound THEN 0 ELSE f.deadline]

OppSent(op, id, payload) ==
    oppCalls' = oppCalls \cup {[op |-> op, id |-> id, payload |-> payload, screen |-> oppForm,
                         listed |-> editing, touched |-> touched, state |-> "sent"]}
SubmitOpportunity(f) ==
    /\ ~IsSubmitting /\ OppClick("save") /\ MaySubmit(f) /\ submitError' = FALSE
    /\ OppSent(IF editing = {} THEN "create" ELSE "update",
            IF editing = {} THEN 0 ELSE (CHOOSE o \in editing : TRUE).id, {Payload(f)})
    /\ UNCHANGED <<oppVisit, list, tables, editing, oppForm, touched, deletingId, wall,
                   oppFaults>>
\* The delete is confirmed in a dialog of the browser.
Delete(o) ==
    /\ NothingOpen /\ CanManage /\ OppClick("delete") /\ ~\E c \in oppCalls : c.op = "delete"
    /\ deletingId' = o.id /\ OppSent("delete", o.id, {})
    /\ UNCHANGED <<oppVisit, list, tables, oppDialog, wall, oppFaults>>
AddToCalendar(o) ==
    /\ NothingOpen /\ OppClick("calendar") /\ o.deadline # 0
    /\ ~\E c \in oppCalls : c.op = "calendar" /\ c.id = o.id
    /\ OppSent("calendar", o.id, {})
    /\ UNCHANGED <<oppVisit, list, tables, oppDialog, deletingId, wall, oppFaults>>

NextId == 1 + Max({0} \cup {r.id : r \in rows})
Row(id, payload) ==
    [id |-> id, text |-> payload.text, type |-> payload.type, majors |-> payload.majors,
     elig |-> payload.elig, deadline |-> payload.deadline]
Reply(c, id, state) == oppCalls' = (oppCalls \ {c}) \cup {[c EXCEPT !.id = id, !.state = state]}
OppServe(c) ==
    LET found == {r \in rows : r.id = c.id} IN
    /\ c.state = "sent"
    /\ \/ /\ c.op = "create" /\ Reply(c, NextId, "done") /\ UNCHANGED calendar
          /\ rows' = rows \cup {Row(NextId, p) : p \in c.payload}
       \/ /\ c.op # "create" /\ found = {} /\ Reply(c, c.id, "refused") /\ UNCHANGED tables
       \/ /\ c.op = "update" /\ found # {} /\ Reply(c, c.id, "done") /\ UNCHANGED calendar
          /\ rows' = (rows \ found) \cup {Row(c.id, p) : p \in c.payload}
       \/ /\ c.op = "delete" /\ found # {} /\ Reply(c, c.id, "done") /\ UNCHANGED calendar
          /\ rows' = rows \ found
       \* One that is year-round by now is answered without an entry.
       \/ /\ c.op = "calendar" /\ found # {} /\ Reply(c, c.id, "done") /\ UNCHANGED rows
          /\ calendar' = calendar \cup {r.id : r \in {x \in found : x.deadline # 0}}
    /\ UNCHANGED <<oppVisit, list, oppDialog, deletingId, wall, oppClicks, oppFaults>>

\* Whatever is open by now: a create or an update closes the form, and a delete the
\* form of what it deleted.
OppSucceeds(c) ==
    /\ c.state = "done" /\ oppCalls' = oppCalls \ {c}
    /\ deletingId' = IF c.op = "delete" THEN 0 ELSE deletingId
    /\ \/ c.op = "create" /\ Shut /\ UNCHANGED editing
       \/ c.op = "update" /\ Shut /\ editing' = {}
       \/ /\ c.op = "delete" /\ \E o \in editing : o.id = c.id
          /\ Shut /\ editing' = {}
       \/ /\ c.op = "delete" /\ ~\E o \in editing : o.id = c.id
          /\ UNCHANGED oppDialog
       \/ c.op = "calendar" /\ UNCHANGED oppDialog
    /\ UNCHANGED <<oppVisit, list, tables, wall, oppClicks, oppFaults>>
\* Refused, or lost before or after the service did it.
OppFails(c) ==
    /\ \/ c.state = "refused" /\ UNCHANGED oppFaults
       \/ c.state # "refused" /\ oppFaults > 0 /\ oppFaults' = oppFaults - 1
    /\ oppCalls' = oppCalls \ {c} /\ deletingId' = IF c.op = "delete" THEN 0 ELSE deletingId
    /\ submitError' = (submitError \/ c.op \in {"create", "update"})
    /\ UNCHANGED <<oppVisit, list, tables, editing, oppForm, touched, wall, oppClicks>>

OppNext ==
    \/ \E next \in Picks(filters.type, Types) : Filter("type", next)
    \/ \E next \in Picks(filters.majors, Majors) : Filter("majors", next)
    \/ \E next \in Picks(filters.level, Levels) : Filter("level", next)
    \/ \E picked \in YearPicks : Filter("years", YearRange(picked))
    \/ \E text \in oppVisit.texts : Filter("q", text)
    \/ Filter("hide_expired", ~filters.hide_expired)
    \/ Fetch \/ \E key \in fetching : OppPageArrives(key) \/ PageFails(key)
    \/ Add \/ CloseWall \/ CloseForm
    \/ \E o \in Visible : EditCard(o) \/ Delete(o) \/ AddToCalendar(o)
    \/ \E f \in oppForm :
         \/ \E text \in oppVisit.texts : Write(f, text)
         \/ PickType(f) \/ PickMajors(f) \/ PickLevels(f) \/ MarkYearRound(f)
         \/ SubmitOpportunity(f)
         \/ \E l \in ToSet(Levels) : PickYears(f, l)
         \/ \E day \in oppVisit.dates : PickDeadline(f, day)
    \/ \E c \in oppCalls : OppServe(c) \/ OppSucceeds(c) \/ OppFails(c)

OppSpec == OppInit /\ [][OppNext]_oppVars

-----------------------------------------------------------------------------
(* Every card is one that the filters on screen ask for, as the service understands
   them, whichever answers of other filters come late; and none is expired when expired
   ones are hidden. *)
ListIsOneFilter ==
    \A r \in Visible : Matches(filters, r) /\ (HasKeyword(filters) => r.text = filters.q)

\* What a create or an update stores is what the dialog showed when it was submitted,
\* and an edit that changed nothing stores what the card had, repetitions aside.
Same(r, o) ==
    /\ r.text = o.text /\ r.type = o.type /\ r.deadline = o.deadline
    /\ ToSet(r.majors) = ToSet(o.majors) /\ ToSet(r.elig) = ToSet(o.elig)
ShowsOf(r, f) ==
    /\ r.text = f.text /\ f.types = <<r.type>> /\ ToSet(r.majors) = ToSet(f.majors)
    /\ r.deadline = f.deadline /\ (r.deadline = 0) = f.yearRound
    /\ {e[1] : e \in ToSet(r.elig)} = ToSet(f.levels)
    /\ \A l \in ToSet(f.levels) :
        {e[2] : e \in {x \in ToSet(r.elig) : x[1] = l}} =
            IF f.years[l] = <<>> THEN {0} ELSE ToSet(f.years[l])
StoredIsShown ==
    \A c \in oppCalls, r \in rows :
        c.state = "done" /\ c.op \in {"create", "update"} /\ r.id = c.id =>
            /\ \A f \in c.screen : ShowsOf(r, f)
            /\ ~c.touched => \A o \in c.listed : Same(r, o)

\* The digest lists what its filters ask for, and stores what its dialog showed.
OpportunitiesAreTrue == ListIsOneFilter /\ StoredIsShown
==============================================================================
