------------------------------ MODULE GradeBook ------------------------------
(***************************************************************************)
(* The "My Courses" tab (use-live-gpa-view-model.ts and the components it  *)
(* feeds) against the registrations, items and templates of the server.    *)
(* Every handler awaits one call after another; the page below an open     *)
(* dialog cannot be clicked, but a dialog may be closed while its call is  *)
(* under way, so calls overlap and their answers come in any order.        *)
(***************************************************************************)
EXTENDS Lists, Sequences, SequencesExt

CONSTANTS
    Regs,          \* registrations, named by their course; numbers in list order
    Names,         \* names of assignments
    Setup,         \* the names a classmate shares, in order
    PageSize,      \* templatesPageSize
    InitServer,    \* registrations and templates at the start
    Habits         \* what one behaviour may click: sets of operations

ASSUME GradeBookAssumption ==
    /\ Regs \subseteq Nat /\ PageSize \in Nat \ {0} /\ Setup \in Seq(Names)
    /\ \A h \in Habits : h = [ops |-> h.ops, flight |-> h.flight, clicks |-> h.clicks,
                              faults |-> h.faults]
    /\ \A h \in Habits : h.flight \in Nat /\ h.clicks \in Nat /\ h.faults \in Nat

VARIABLES
    habit,            \* [ops, flight, clicks, faults] of this behaviour
    srv,              \* [rows, dropped, next, tmpl, nextTmpl]
    user,             \* signed in?
    session,          \* the loading effect's run; an older one is "cancelled"
    courses,          \* registeredCourses: registration -> items
    hasFetched, scheduleLoading,
    excluded,         \* excludedFromGpaCourseIds
    selected,         \* selectedCourseId of the tab, {} when none
    open,             \* the dialogs: each {} or a singleton with what it is about
    templates, totalPages, templatesLoading, initialFetch,
    known,            \* the course's templates when the last page was read (history)
    importing,        \* importingTemplateId
    isSharing,
    exporting,        \* isExporting
    calls             \* calls of the service under way

server == <<habit, srv>>
list == <<courses, selected>>
drawer == <<templates, totalPages, templatesLoading, initialFetch, known>>
page == <<user, session, hasFetched, scheduleLoading, excluded>>
spinners == <<importing, isSharing, exporting>>
vars == <<habit, srv, user, session, courses, hasFetched, scheduleLoading, excluded, selected,
          open, templates, totalPages, templatesLoading, initialFetch, known, importing,
          isSharing, exporting, calls>>

Items == [id : Nat, reg : Regs, name : Names, done : BOOLEAN, from : Regs]

\* The tables a page is opened on: the items of a registration are its own, made for its
\* course, under keys that were given out once; so are the keys of the templates.
ItemsBelong(rows, next) ==
    /\ DOMAIN rows \subseteq Regs /\ rows = [r \in DOMAIN rows |-> rows[r]]
    /\ \A r \in DOMAIN rows :
         rows[r] \in Seq({it \in Items : it.reg = r /\ it.from = r /\ it.id < next})
ItemKeysOnce(rows) ==
    \A r, q \in DOMAIN rows : \A i \in DOMAIN rows[r], j \in DOMAIN rows[q] :
        rows[r][i].id = rows[q][j].id => r = q /\ i = j
TemplateKeysOnce(tmpl, next) ==
    /\ IsFiniteSet(tmpl) /\ \A t, u \in tmpl : t.id = u.id => t = u
    /\ \A t \in tmpl :
         /\ t = [id |-> t.id, course |-> t.course, own |-> t.own, names |-> t.names]
         /\ t.id \in Nat /\ t.id < next /\ t.names \in Seq(Names)
Tables(s) ==
    /\ s = [rows |-> s.rows, dropped |-> s.dropped, next |-> s.next, tmpl |-> s.tmpl,
            nextTmpl |-> s.nextTmpl]
    /\ s.next \in Nat /\ s.nextTmpl \in Nat
    /\ ItemsBelong(s.rows, s.next) /\ ItemKeysOnce(s.rows)
    /\ TemplateKeysOnce(s.tmpl, s.nextTmpl)

ASSUME ServerAssumption == Tables(InitServer)

Closed == [add |-> {}, edit |-> {}, del |-> {}, drawer |-> {}, share |-> {},
           sync |-> {}, export |-> {}]
Closing(dialogs) == [d \in DOMAIN open |-> IF d \in dialogs THEN {} ELSE open[d]]
Covered == \E d \in DOMAIN open : open[d] # {}

\* The loading effect of this session is under way; effects run before a click.
Loading == \E i \in DOMAIN calls : calls[i].op \in {"load", "schedule"} /\ calls[i].arg = session
MustLoad == user /\ ~hasFetched /\ ~Loading

May(op) == user /\ op \in habit.ops /\ habit.clicks > 0 /\ Len(calls) < habit.flight /\ ~MustLoad
Click == habit' = [habit EXCEPT !.clicks = @ - 1] /\ srv' = srv
Ask(op, arg) == calls' = Append(calls, [op |-> op, arg |-> arg, stage |-> "sent", res |-> {}])

Init ==
    /\ habit \in Habits /\ srv = InitServer
    /\ user = TRUE /\ session = 0 /\ courses = <<>> /\ selected = {}
    /\ hasFetched = FALSE /\ scheduleLoading = FALSE /\ excluded = {}
    /\ open = Closed /\ templates = <<>> /\ totalPages = 1
    /\ templatesLoading = FALSE /\ initialFetch = FALSE /\ known = {}
    /\ importing = {} /\ isSharing = FALSE /\ exporting = FALSE /\ calls = <<>>

-----------------------------------------------------------------------------
(* What the list is made of. *)
ItemsOf(rows) == UNION {ToSet(rows[r]) : r \in DOMAIN rows}
IsPending(item) == ~item.done
Least(S) == CHOOSE x \in S : \A y \in S : x <= y

\* pickDefaultCourseId: a course with pending scores, otherwise the first.
Default(rows) ==
    LET waiting == {r \in DOMAIN rows : \E i \in ToSet(rows[r]) : IsPending(i)}
    IN  IF DOMAIN rows = {} THEN {}
        ELSE {Least(IF waiting # {} THEN waiting ELSE DOMAIN rows)}

\* The effect of the tab that keeps the selected course on the list.
Repaired(rows) ==
    IF selected # {} /\ selected \subseteq DOMAIN rows THEN selected ELSE Default(rows)

Show(rows) == courses' = rows /\ selected' = Repaired(rows)

\* The sync control of the empty page is not the one below the list: the dialog it
\* shows is gone, a running sync or not, when the first course comes or the last goes.
Remounted(dialogs) ==
    IF (DOMAIN courses = {}) = (DOMAIN courses' = {}) THEN dialogs
    ELSE [dialogs EXCEPT !.sync = {}]

-----------------------------------------------------------------------------
(* The loading effect and signing out. *)
Load ==
    /\ MustLoad /\ scheduleLoading' = TRUE /\ Ask("load", session)
    /\ UNCHANGED <<server, user, session, hasFetched, excluded, list, open, drawer, spinners>>

\* The session ends under the open page: everything is reset but isExporting.
SignOut ==
    /\ May("signOut") /\ habit' = [habit EXCEPT !.clicks = @ - 1]
    /\ user' = FALSE /\ session' = session + 1
    /\ courses' = <<>> /\ selected' = {} /\ hasFetched' = FALSE /\ scheduleLoading' = FALSE
    /\ excluded' = {} /\ open' = [open EXCEPT !.add = {}, !.edit = {}, !.del = {},
                                              !.drawer = {}, !.share = {}, !.sync = {}]
    /\ templates' = <<>> /\ importing' = {} /\ isSharing' = FALSE
    /\ UNCHANGED <<srv, totalPages, templatesLoading, initialFetch, known, exporting, calls>>

SignIn == ~user /\ user' = TRUE
          /\ UNCHANGED <<server, session, hasFetched, scheduleLoading, excluded, list, open,
                         drawer, spinners, calls>>

-----------------------------------------------------------------------------
(* Clicks on the page and in its dialogs. *)
OnPage(op) == May(op) /\ ~Covered

\* What the page offers: its courses, the selected one's rows, a sharing dialog with
\* something in it, and in the drawer more pages and templates that are not on their way.
Listing == DOMAIN courses
Assignments(r) == ToSet(courses[r])
OffersToggle == selected # {}
OffersShare(s) == s.items # <<>> /\ ~isSharing
OffersMore == templates # <<>> /\ ~initialFetch /\ ~templatesLoading
OffersImport(t) == t \in ToSet(templates) /\ {t.id} # importing /\ ~initialFetch
OffersExport == (open.export # {} \/ open.sync = {"done"}) /\ ~exporting

Select(r) ==
    /\ OnPage("select") /\ r \in Listing /\ selected' = {r} /\ Click
    /\ UNCHANGED <<page, courses, open, drawer, spinners, calls>>

ToggleExclusion ==
    /\ OnPage("toggle") /\ OffersToggle /\ Click
    /\ excluded' = (excluded \ selected) \cup (selected \ excluded)
    /\ UNCHANGED <<user, session, hasFetched, scheduleLoading, list, open, drawer, spinners, calls>>

Open(dialog, what) ==
    /\ ~Covered /\ open' = [open EXCEPT ![dialog] = {what}]
    /\ UNCHANGED <<server, page, list, drawer, spinners, calls>>

OpenDialog ==
    \/ May("add") /\ \E r \in selected : Open("add", r)
    \/ May("share") /\ \E r \in selected : Open("share", [reg |-> r, items |-> courses[r]])
    \/ \E r \in selected : \E i \in Assignments(r) :
         \/ May("update") /\ Open("edit", i)
         \/ May("delete") /\ Open("del", i)
    \/ May("sync") /\ Open("sync", "blank")
    \/ May("export") /\ courses # <<>> /\ Open("export", "choose")

\* isSubmitting of the sync dialog, the first time or with a summary on display.
Syncing == open.sync \in {{"busy"}, {"again"}}
\* Each dialog may be closed while its call runs, the one of the sync excepted.
CloseDialog ==
    \E d \in DOMAIN open \ {"drawer"} :
        /\ open[d] # {} /\ (d = "sync" => ~Syncing)
        /\ open' = Closing({d})
        /\ UNCHANGED <<server, page, list, drawer, spinners, calls>>

\* handleAddItem and handleUpdateItem: the button is not disabled by a call under way.
Submit(n, done) ==
    /\ Click
    /\ \/ May("add") /\ \E r \in open.add : Ask("add", [reg |-> r, name |-> n, done |-> done])
       \/ May("update") /\ \E i \in open.edit :
            Ask("update", [id |-> i.id, name |-> n, done |-> done])
    /\ UNCHANGED <<page, list, open, drawer, spinners>>

\* onConfirm, then onClose of the confirmation.
ConfirmDelete ==
    /\ May("delete") /\ \E i \in open.del : Ask("delete", i.id)
    /\ Click /\ open' = Closing({"del"})
    /\ UNCHANGED <<page, list, drawer, spinners>>

\* A password is typed, or a PDF of at most ten megabytes chosen; a larger one is
\* dropped again.
FillSync ==
    /\ \/ open.sync = {"blank"} /\ open' = [open EXCEPT !.sync = {"filled"}]
       \/ open.sync = {"filled"} /\ open' = [open EXCEPT !.sync = {"blank"}]
    /\ UNCHANGED <<server, page, list, drawer, spinners, calls>>

SubmitSync ==
    /\ May("sync") /\ open.sync \in {{"filled"}, {"done"}} /\ Click
    /\ open' = [open EXCEPT !.sync = IF @ = {"done"} THEN {"again"} ELSE {"busy"}]
    /\ scheduleLoading' = TRUE
    /\ Ask("sync", {})
    /\ UNCHANGED <<user, session, hasFetched, excluded, list, drawer, spinners>>

\* The calendar dialog of the tab; the sync dialog offers the same when it is done.
ExportClicked ==
    /\ May("export") /\ OffersExport /\ Click
    /\ exporting' = TRUE /\ Ask("export", {})
    /\ UNCHANGED <<page, list, open, drawer, importing, isSharing>>

LoadTemplates(r, n, replace) == Ask("templates", [reg |-> r, page |-> n, replace |-> replace])

OpenTemplates ==
    /\ OnPage("drawer") /\ Click
    /\ \E r \in selected : LoadTemplates(r, 1, TRUE) /\ open' = [open EXCEPT !.drawer = {r}]
    /\ templates' = <<>> /\ totalPages' = 1 /\ templatesLoading' = TRUE /\ initialFetch' = TRUE
    /\ UNCHANGED <<page, list, known, spinners>>

NextPage == Len(templates) \div PageSize + 1

LoadMore ==
    /\ May("more") /\ OffersMore /\ NextPage <= totalPages
    /\ \E r \in open.drawer : LoadTemplates(r, NextPage, FALSE)
    /\ templatesLoading' = TRUE /\ Click
    /\ UNCHANGED <<page, list, open, templates, totalPages, initialFetch, known, spinners>>

CloseDrawer ==
    /\ open.drawer # {} /\ open' = Closing({"drawer"})
    /\ templates' = <<>> /\ totalPages' = 1 /\ importing' = {}
    /\ UNCHANGED <<server, page, list, templatesLoading, initialFetch, known, isSharing,
                   exporting, calls>>

Import(t) ==
    /\ May("import") /\ OffersImport(t)
    /\ \E r \in open.drawer : Ask("import", [tmpl |-> t.id, reg |-> r])
    /\ importing' = {t.id} /\ Click
    /\ UNCHANGED <<page, list, open, drawer, isSharing, exporting>>

NamesOf(items) == [k \in DOMAIN items |-> items[k].name]

\* handleShareTemplate: nothing to share is refused in the dialog.
Share ==
    /\ May("share")
    /\ \E s \in open.share :
         OffersShare(s) /\ Ask("create", [reg |-> s.reg, names |-> NamesOf(s.items),
                                          seen |-> templates])
    /\ isSharing' = TRUE /\ Click
    /\ UNCHANGED <<page, list, open, drawer, importing, exporting>>

-----------------------------------------------------------------------------
(* The service. *)
Answer(i, stage, res) == calls' = [calls EXCEPT ![i].stage = stage, ![i].res = res]
TemplatesOf(c) == {t \in srv.tmpl : t.course = c}
Listed(c, n, size) ==
    LET all == NewestFirst(TemplatesOf(c))
        last == n * size
    IN  SubSeq(all, (n - 1) * size + 1, IF last < Len(all) THEN last ELSE Len(all))
Pages(c, size) == (Cardinality(TemplatesOf(c)) + size - 1) \div size

NewItem(id, r, n, done, from) == [id |-> id, reg |-> r, name |-> n, done |-> done, from |-> from]

AddRow(i, a) ==
    LET item == NewItem(srv.next, a.reg, a.name, a.done, a.reg)
    IN  IF a.reg \in DOMAIN srv.rows
        THEN /\ srv' = [srv EXCEPT !.rows[a.reg] = Append(@, item), !.next = @ + 1]
             /\ Answer(i, "ok", item)
        ELSE srv' = srv /\ Answer(i, "failed", {})

Owner(id) == {r \in DOMAIN srv.rows : \E it \in ToSet(srv.rows[r]) : it.id = id}
Changed(it, a) == IF it.id = a.id THEN [it EXCEPT !.name = a.name, !.done = a.done] ELSE it

UpdateRow(i, a) ==
    \/ Owner(a.id) = {} /\ srv' = srv /\ Answer(i, "failed", {})
    \/ \E r \in Owner(a.id) : \E it \in ToSet(srv.rows[r]) :
         /\ it.id = a.id /\ Answer(i, "ok", Changed(it, a))
         /\ srv' = [srv EXCEPT !.rows[r] = [k \in DOMAIN @ |-> Changed(@[k], a)]]

Without(items, id) == Entries(items, {k \in DOMAIN items : items[k].id # id})
DeleteRow(i, id) ==
    \/ Owner(id) = {} /\ srv' = srv /\ Answer(i, "failed", {})
    \/ \E r \in Owner(id) : srv' = [srv EXCEPT !.rows[r] = Without(@, id)] /\ Answer(i, "ok", id)

\* A sync ends with the registrations the schedule names; see CourseSync.
SyncRows(i) ==
    \E named \in SUBSET (Regs \ srv.dropped) :
        LET rows == [r \in named |-> IF r \in DOMAIN srv.rows THEN srv.rows[r] ELSE <<>>]
        IN  /\ srv' = [srv EXCEPT !.rows = rows, !.dropped = @ \cup (DOMAIN srv.rows \ named)]
            /\ Answer(i, "ok", rows)

MayImport_Any(t, r) == TRUE
\* TemplatePolicy.check_import.
MayImport(t, r) == t.course = r

ImportRows(i, a) ==
    \E t \in srv.tmpl :
        /\ t.id = a.tmpl
        /\ IF a.reg \in DOMAIN srv.rows /\ MayImport(t, a.reg)
           THEN LET items == [k \in DOMAIN t.names |->
                                NewItem(srv.next + k - 1, a.reg, t.names[k], FALSE, t.course)]
                IN  /\ srv' = [srv EXCEPT !.rows[a.reg] = items, !.next = @ + Len(t.names)]
                    /\ Answer(i, "ok", [reg |-> a.reg, items |-> items])
           ELSE srv' = srv /\ Answer(i, "failed", {})

CreateTemplate(i, a) ==
    IF \E t \in TemplatesOf(a.reg) : t.own
    THEN srv' = srv /\ Answer(i, "conflict", {})
    ELSE LET t == [id |-> srv.nextTmpl, course |-> a.reg, own |-> TRUE, names |-> a.names]
         IN  /\ srv' = [srv EXCEPT !.tmpl = @ \cup {t}, !.nextTmpl = @ + 1]
             /\ Answer(i, "ok", {})

MayUpdate_Any(t) == TRUE
\* TemplatePolicy.check_update.
MayUpdate(t) == t.own

UpdateTemplate(i, a) ==
    \E t \in srv.tmpl :
        /\ t.id = a.tmpl
        /\ IF MayUpdate(t)
           THEN /\ srv' = [srv EXCEPT !.tmpl = (@ \ {t}) \cup {[t EXCEPT !.names = a.names]}]
                /\ Answer(i, "ok", {})
           ELSE srv' = srv /\ Answer(i, "failed", {})

Serve(i) ==
    /\ calls[i].stage = "sent" /\ habit' = habit
    /\ LET a == calls[i].arg
           op == calls[i].op
       IN  \/ op = "load" /\ srv' = srv /\ Answer(i, "ok", srv.rows)
           \/ op \in {"schedule", "export"} /\ srv' = srv /\ Answer(i, "ok", {})
           \/ op = "add" /\ AddRow(i, a)
           \/ op = "update" /\ UpdateRow(i, a)
           \/ op = "delete" /\ DeleteRow(i, a)
           \/ op = "sync" /\ SyncRows(i)
           \/ op = "import" /\ ImportRows(i, a)
           \/ op = "templates" /\ srv' = srv
                /\ Answer(i, "ok", [list |-> Listed(a.reg, a.page, PageSize),
                                    pages |-> Pages(a.reg, PageSize),
                                    known |-> TemplatesOf(a.reg)])
           \/ op = "create" /\ CreateTemplate(i, a)
           \/ op = "find" /\ srv' = srv /\ Answer(i, "ok", Listed(a.reg, 1, 1))
           \/ op = "patch" /\ UpdateTemplate(i, a)
    /\ UNCHANGED <<page, list, open, drawer, spinners>>

\* A call fails before it is served, or its answer is lost.
Fault(i) ==
    /\ calls[i].stage # "failed" /\ habit.faults > 0
    /\ habit' = [habit EXCEPT !.faults = @ - 1] /\ Answer(i, "failed", {})
    /\ UNCHANGED <<srv, page, list, open, drawer, spinners>>

\* A classmate shares a setup.
ClassmateShares(c) ==
    /\ "classmate" \in habit.ops /\ habit.clicks > 0
    /\ habit' = [habit EXCEPT !.clicks = @ - 1]
    /\ LET t == [id |-> srv.nextTmpl, course |-> c, own |-> FALSE, names |-> Setup]
       IN  srv' = [srv EXCEPT !.tmpl = @ \cup {t}, !.nextTmpl = @ + 1]
    /\ UNCHANGED <<page, list, open, drawer, spinners, calls>>

-----------------------------------------------------------------------------
(* Answers. *)
Take(i) == calls' = RemoveAt(calls, i)
Then(i, op, arg) == calls' = Append(RemoveAt(calls, i),
                                    [op |-> op, arg |-> arg, stage |-> "sent", res |-> {}])
Is(i, op) == i \in DOMAIN calls /\ calls[i].op = op /\ calls[i].stage # "sent"
Ok(i) == calls[i].stage = "ok"

\* The courses come first, the stored timetable after them; a failure of the
\* first skips the second.
LoadReturns(i) ==
    /\ Is(i, "load")
    /\ IF calls[i].arg # session THEN Take(i) /\ UNCHANGED <<page, list, open>>
       ELSE IF Ok(i)
       THEN /\ Show(calls[i].res) /\ excluded' = excluded \cap DOMAIN calls[i].res
            /\ Then(i, "schedule", session) /\ open' = Remounted(open)
            /\ UNCHANGED <<user, session, hasFetched, scheduleLoading>>
       ELSE /\ scheduleLoading' = FALSE /\ hasFetched' = TRUE /\ Take(i)
            /\ UNCHANGED <<user, session, excluded, list, open>>
    /\ UNCHANGED <<server, drawer, spinners>>

ScheduleReturns(i) ==
    /\ Is(i, "schedule") /\ Take(i)
    /\ IF calls[i].arg = session THEN scheduleLoading' = FALSE /\ hasFetched' = TRUE
       ELSE UNCHANGED <<scheduleLoading, hasFetched>>
    /\ UNCHANGED <<server, user, session, excluded, list, open, drawer, spinners>>

SetItems(r, items) ==
    IF r \in DOMAIN courses THEN [courses EXCEPT ![r] = items] ELSE courses

\* The created item goes to the course the dialog was opened for; the dialog that
\* is open by now closes.
Recipient(i) == {calls[i].arg.reg}

AddReturns(i) ==
    /\ Is(i, "add") /\ Take(i)
    /\ IF Ok(i)
       THEN /\ Show([r \in DOMAIN courses |-> IF r \in Recipient(i)
                                              THEN Append(courses[r], calls[i].res)
                                              ELSE courses[r]])
            /\ open' = Closing({"add"})
       ELSE UNCHANGED <<list, open>>
    /\ UNCHANGED <<server, page, drawer, spinners>>

UpdateReturns(i) ==
    /\ Is(i, "update") /\ Take(i)
    /\ IF Ok(i)
       THEN /\ Show([r \in DOMAIN courses |->
                      [k \in DOMAIN courses[r] |->
                        IF courses[r][k].id = calls[i].res.id THEN calls[i].res
                        ELSE courses[r][k]]])
            /\ open' = Closing({"edit"})
       ELSE UNCHANGED <<list, open>>
    /\ UNCHANGED <<server, page, drawer, spinners>>

DeleteReturns_KeepsRow(i) ==
    /\ Is(i, "delete") /\ Take(i) /\ open' = Closing({"del"})
    /\ UNCHANGED <<server, page, list, drawer, spinners>>
\* finally: the confirmation open by now closes, whatever it asks.
DeleteReturns(i) ==
    /\ Is(i, "delete") /\ Take(i) /\ open' = Closing({"del"})
    /\ IF Ok(i) THEN Show([r \in DOMAIN courses |-> Without(courses[r], calls[i].res)])
       ELSE UNCHANGED list
    /\ UNCHANGED <<server, page, drawer, spinners>>

SyncReturns(i) ==
    /\ Is(i, "sync") /\ Take(i) /\ scheduleLoading' = FALSE
    /\ IF Ok(i) THEN Show(calls[i].res) ELSE UNCHANGED list
    /\ open' = Remounted([open EXCEPT !.sync = CASE ~Syncing -> @
                                                [] Syncing /\ (Ok(i) \/ @ = {"again"}) -> {"done"}
                                                [] OTHER -> {"filled"}])
    /\ UNCHANGED <<server, user, session, hasFetched, excluded, drawer, spinners>>

ExportReturns(i) ==
    /\ Is(i, "export") /\ Take(i) /\ exporting' = FALSE
    /\ \/ Ok(i) /\ open' = Closing({"export"})
       \/ open' = open                          \* failed, or done with issues
    /\ UNCHANGED <<server, page, list, drawer, importing, isSharing>>

\* Nothing asks whether the drawer still shows the course the page was read for.
TemplatesReturn(i) ==
    /\ Is(i, "templates") /\ Take(i)
    /\ templatesLoading' = FALSE /\ initialFetch' = FALSE
    /\ IF Ok(i)
       THEN LET res == calls[i].res
                New(t) == \A p \in ToSet(templates) : p.id # t.id
                fresh == Entries(res.list, {k \in DOMAIN res.list : New(res.list[k])})
            IN  /\ templates' = IF calls[i].arg.replace THEN res.list ELSE templates \o fresh
                /\ totalPages' = res.pages /\ known' = res.known
       ELSE UNCHANGED <<templates, totalPages, known>>
    /\ UNCHANGED <<server, page, list, open, spinners>>

ImportReturns(i) ==
    /\ Is(i, "import") /\ Take(i) /\ importing' = {}
    /\ IF Ok(i)
       THEN /\ Show(SetItems(calls[i].res.reg, calls[i].res.items))
            /\ open' = Closing({"drawer"}) /\ templates' = <<>> /\ totalPages' = 1
       ELSE UNCHANGED <<list, open, templates, totalPages>>
    /\ UNCHANGED <<server, page, templatesLoading, initialFetch, known, isSharing, exporting>>

\* A share that worked closes its dialog and reloads the drawer of that course.
Shared(i) ==
    /\ open' = Closing({"share"})
    /\ IF open.drawer = {calls[i].arg.reg}
       THEN /\ Then(i, "templates", [reg |-> calls[i].arg.reg, page |-> 1, replace |-> TRUE])
            /\ templates' = <<>> /\ totalPages' = 1
            /\ templatesLoading' = TRUE /\ initialFetch' = TRUE /\ known' = known
       ELSE Take(i) /\ UNCHANGED drawer

EndShare_OnlyWhenShared == isSharing' = isSharing /\ UNCHANGED <<importing, exporting>>
EndShare == isSharing' = FALSE /\ UNCHANGED <<importing, exporting>>

\* A conflict updates the first template of the course in the drawer's list, or
\* the newest one of the course, whosever it is.
CreateReturns(i) ==
    /\ Is(i, "create")
    /\ LET a == calls[i].arg
           seen == {k \in DOMAIN a.seen : a.seen[k].course = a.reg}
       IN  \/ Ok(i) /\ Shared(i) /\ EndShare
           \/ /\ calls[i].stage = "conflict"
              /\ IF seen # {}
                 THEN Then(i, "patch", [reg |-> a.reg, names |-> a.names,
                                        tmpl |-> a.seen[Least(seen)].id])
                 ELSE Then(i, "find", a)
              /\ UNCHANGED <<open, drawer, spinners>>
           \/ /\ calls[i].stage = "failed" /\ Take(i) /\ EndShare
              /\ UNCHANGED <<open, drawer>>
    /\ UNCHANGED <<server, page, list>>

FindReturns(i) ==
    /\ Is(i, "find")
    /\ LET a == calls[i].arg
       IN  IF Ok(i) /\ calls[i].res # <<>>
           THEN /\ Then(i, "patch", [reg |-> a.reg, names |-> a.names,
                                     tmpl |-> calls[i].res[1].id])
                /\ UNCHANGED spinners
           ELSE Take(i) /\ EndShare
    /\ UNCHANGED <<server, page, list, open, drawer>>

PatchReturns(i) ==
    /\ Is(i, "patch") /\ EndShare
    /\ IF Ok(i) THEN Shared(i) ELSE Take(i) /\ UNCHANGED <<open, drawer>>
    /\ UNCHANGED <<server, page, list>>

-----------------------------------------------------------------------------
Clicks ==
    \/ \E r \in Regs : Select(r)
    \/ ToggleExclusion \/ OpenDialog \/ CloseDialog
    \/ \E n \in Names, done \in BOOLEAN : Submit(n, done)
    \/ ConfirmDelete \/ FillSync \/ SubmitSync \/ ExportClicked
    \/ OpenTemplates \/ LoadMore \/ CloseDrawer \/ \E t \in ToSet(templates) : Import(t)
    \/ Share \/ SignOut \/ SignIn

Service == \E i \in DOMAIN calls : Serve(i)
Returns ==
    \E i \in DOMAIN calls :
        \/ LoadReturns(i) \/ ScheduleReturns(i) \/ AddReturns(i) \/ UpdateReturns(i)
        \/ DeleteReturns(i) \/ SyncReturns(i) \/ ExportReturns(i) \/ TemplatesReturn(i)
        \/ ImportReturns(i) \/ CreateReturns(i) \/ FindReturns(i) \/ PatchReturns(i)

Next ==
    \/ Load \/ Clicks \/ Service \/ Returns
    \/ \E i \in DOMAIN calls : Fault(i)
    \/ \E c \in Regs : ClassmateShares(c)

Spec == Init /\ [][Next]_vars

-----------------------------------------------------------------------------
\* Clicks made one after another, each answered before the next, leave on screen
\* exactly what the service has: no handler forgets to apply its answer, and none
\* applies it to the wrong row (the setRegisteredCourses of each handler).
ScreenIsServer ==
    habit.flight = 1 /\ habit.faults = 0 /\ calls = <<>> /\ hasFetched => courses = srv.rows

\* Whatever dialog is open when an answer arrives, an assignment is never shown in
\* a course it does not belong to.
AnswersKeepTheirCourse ==
    \A r \in DOMAIN courses : \A it \in ToSet(courses[r]) : it.reg = r

\* The drawer may show the templates of a course opened before; importing one of
\* them never puts another course's setup into a registration.
ImportsMatchTheCourse ==
    \A r \in DOMAIN srv.rows : \A it \in ToSet(srv.rows[r]) : it.from = r

\* Sharing again picks some template of the course to update; a classmate's
\* template never changes by it.
ClassmatesTemplatesStand ==
    [][\A t \in srv.tmpl : ~t.own => t \in srv'.tmpl]_vars

\* Read page after page, each answered before the next, "Load more" gives up only when
\* every template the course had at the last page read is on the list, although
\* classmates share in between and shift the pages.
NoMoreMeansAll ==
    habit.flight = 1 /\ calls = <<>> /\ open.drawer # {} /\ templates # <<>> /\ NextPage > totalPages
    => \A t \in known : t.course \in open.drawer /\ \E u \in ToSet(templates) : u.id = t.id

\* With no call under way nothing spins: each button that was disabled for a call
\* is enabled again, failures and lost answers included.
NothingSpinsAlone ==
    calls = <<>> =>
        /\ ~scheduleLoading /\ ~templatesLoading /\ ~initialFetch
        /\ importing = {} /\ ~isSharing /\ ~exporting /\ ~Syncing

\* After calls made one by one the screen shows what the service has, and "Load more"
\* ends only when every template of the course is listed.
ScreenCatchesUp == ScreenIsServer /\ NoMoreMeansAll

\* An answer changes the course it is for, and an import brings the setup of a template
\* of that course, whatever dialog or drawer is open when it arrives.
AnswersReachTheirCourse == AnswersKeepTheirCourse /\ ImportsMatchTheCourse
==============================================================================
