# nuspace: models, checks and proofs

A verification development for nuspace, the campus platform of Nazarbayev
University: TLA+ modules of the backend's concurrent parts and of the frontend's
stateful pages, TLC configurations that check them on small instances, and TLAPS
proofs for all instances. Paths below are relative to `src/`.

Contents: 1 the system, 2 the modules, 3 appeals, 4 schedule catalog, 5 course
registrations, 6 schedule builder, 7 courses page, 8 events, communities and
opportunities, 9 what is proved and what is not, 10 not modelled.

## 1. The system

One FastAPI process (`backend/start.sh`: a single uvicorn) with PostgreSQL,
Redis, Meilisearch, RabbitMQ, Google Cloud Storage (GCS) with Pub/Sub, Keycloak
and Telegram around it, and a React frontend with a query cache per browser tab.
Requests and Telegram updates are coroutines: they interleave at every `await`.
Each request has a database session (`backend/core/database/manager.py`) that is
committed when the request ends and rolled back when it raises; the isolation
level is READ COMMITTED and objects do not expire at commit, so an object keeps
the values of its first read. In the browser, handlers run to their next `await`;
answers come in any order, and a query is refetched in the background after it
is invalidated.

| Component | State | Operations | Talks to | Hard behaviour | What makes it correct |
|---|---|---|---|---|---|
| SG appeals (`modules/sgotinish`, `bot/routes/.../otinish.py`, `bot/services/otinish_bridge.py`) | `tickets` rows, FSM state in Redis, keyboards and cards in chats | `/otinish`, category, text, Answer, `/close` and its confirmation, piping | Telegram, linking | updates of several users interleave; checks and writes are separate statements; stale session rows; Telegram fails after the commit | a ticket is claimed once and never changes after it is closed; text reaches the other side; someone can always close; every ticket is shown to the ministry |
| Account linking (`bot/services/link.py`) | `users.telegram_id` | deep link, confirmation | website, bot | confirmation of an old keyboard | one user per Telegram account |
| Event posts (`bot/services/event_post.py`, `event_publisher.py`) | `event_bot_submissions`, media | extract, ask, publish | Gemini, events, GCS | external calls fail half-way | a submission is published once |
| Kill switch, grades | a Redis key; CSV-loaded grade rows | toggle; look up | Telegram | two admins toggle | - |
| Schedule catalog (`courses/registrar`) | catalog and `meta.json` in GCS, processed and lock keys in Redis, the search index | job execution, GCS event, startup task | Cloud Run, Pub/Sub, Meilisearch | at-least-once pushes, a claim with a TTL, crashes, failures half-way | one rebuild at a time, no event lost, never an older catalog |
| Course registration (`courses/courses`) | `student_courses`, items | sync from the registrar, items, weights | registrar site, planner | concurrent syncs, cross-listed codes | the sync keeps what is still registered |
| Planner (`courses/planner`) | schedules, courses, sections, selections | add, refresh, select, variants, auto-build | search index | count-then-insert limits, refresh against select | at most five variants and at least one, one section of each type |
| Schedule builder (frontend `schedule-builder-tab.tsx`, `section-picker-drawer.tsx`, `schedule-quality.ts`) | query cache, optimistic selections, undo snapshot, search results | clicks, effects, answers | planner | answers overtake each other, effects chase late lists, clashes computed in three places | the newest choice stands, results are of one search, nothing loads for ever |
| Templates (`courses/templates`), grade book (`use-live-gpa-view-model.ts`) | templates; the book on screen, its dialogs and flags | sync, items, share, import, load more | course items | overlapping calls, lost answers, a dialog closed while its call runs | screen equals service; answers reach their course; others' templates stand |
| Degree audit (`courses/degree_audit`, `degree-audit-tab.tsx`) | CSV tables, the cached result; two dialogs | audit, map transfer credits, requirements | registrar | answers after the program was changed | what is audited was offered |
| Statistics (`courses/statistics`), searched lists (`use-infinite-scroll.ts`), tabs and comparison | pages per keyword and term; tab and address | type, submit, scroll, pick, compare | - | pages of two searches, rows added between pages, two effects that follow each other | one search in the list, complete at its end |
| Events (`campuscurrent/events`, frontend `features/events`) | events, attendees, invites, viewers; page, panel, sharing dialog | CRUD, RSVP, invites | media, search, GCS | accepts, revokes and taps race; refetch against toggle | a transfer link makes one owner; button, panel and table agree |
| Communities (`campuscurrent/communities`) and the editors, media upload (`features/media`, `utils/polling.ts`), bucket (`google_bucket`, `media`) | communities, media rows, objects; forms, image zones, uploads, polls | create, edit, delete, pick, remove, upload | GCS, Pub/Sub, search | images removed by their place, a dialog closed before the upload, rows that appear later | what is saved was on screen; images appear |
| Opportunities (`modules/opportunities`, `opportunities-page.tsx`, `opportunity-form.tsx`) | opportunities with rows per level and year; filters, form | CRUD, filter, scroll, calendar | Google Calendar | late answers of old filters, rows merged and split | the list is of its filters; what is stored was shown |
| Notification (`notification`) | rows, queue, limiter | send, consume, wait | RabbitMQ, Telegram | acknowledgement paths, rate windows | 30 messages a second at most |
| Auth (`auth`) | Redis states and codes, cookies, users | login, exchange, refresh, logout | Keycloak | two callbacks with one code, cached roles | a code is exchanged once |
| Search sync (`common/utils/meilisearch.py`, `bootstrap/meilisearch.py`) | indexes | wipe and refill at startup, upsert, delete | PostgreSQL | refill against concurrent writes | the index is the table |
| Calendar export, announcements, elections | remote calendar; - | export | Google | partial failure of a batch | - |
| Bootstrap, middlewares, migrations, rest of the frontend, deployment | - | wiring, rendering, configuration | - | - | - |

`PROJECT.json` lists every component with its status and, under `hazards`, the
lines where these behaviours bite and the properties that watch them.

## 2. Modules

| Module | Stands for |
|---|---|
| `TicketLifecycle` | what the appeal desk promises of the `tickets` rows |
| `Otinish` | the bot handlers and the service behind them, one step per statement |
| `OtinishProofs` | its inductive invariants, safety theorems and the refinement of `TicketLifecycle` |
| `CatalogSync`, `CatalogSyncProofs` | GCS event to search index: pushes, Redis claim, rebuild, startup task |
| `ScheduleJob`, `ScheduleJobProofs` | the Cloud Run job that writes the catalog and `meta.json` |
| `CourseSync`, `CourseSyncProofs` | reconciliation of registrations with a schedule, as concurrent transactions |
| `PlanCount` | what the planner promises of the number of plans |
| `Planner` | the transactions of the planner service as operators on its tables |
| `ScheduleBuilder`, `ScheduleBuilderProofs` | the schedule builder tab and its calls, over `Planner`; the proofs are of both and of the next two |
| `ScheduleView` | the clash marks, comfort metrics, week grid and agenda of a selection |
| `CourseSearch` | the debounced, paged course search of the tab |
| `Lists`, `ListsProofs` | filters and sorts, defined by counting so that they can be reasoned about |
| `GradeBook`, `CoursesPageProofs` | the "My Courses" tab against registrations, items and templates |
| `AssignmentForm` | the assignment dialog key by key, and the scores and GPAs computed |
| `AuditTab` | the degree audit and its two dialogs |
| `InfiniteList` | a searched list that loads by scrolling |
| `CoursesPage` | tabs, deferred contents, address; the comparison of reports |
| `EventAccess` | ownership, links, viewers and attendance as concurrent requests |
| `EventPage` | the page of one event: going, the panel of attendees, sharing |
| `EntityEditor` | the dialogs that create and edit an event or a community, with images |
| `OpportunitiesPage` | the opportunities digest |
| `EventProofs` | proofs of the last four |
| `MC...` | values, symmetry and, in `MCPlanner`, `MCGrades` and `MCCampus`, the composition of several parts into one run |

Composition: `ScheduleBuilder` EXTENDS `Planner`, so one step of the service is
one of its transactions. The state machines inside `MCPlanner`, `MCGrades` and
`MCCampus` share no state that two of them change; a variable `part` picks the
one a behaviour runs, so a run explores their sum and not their product, and a
property of one part says so in its guard. Appeals, catalog, registrations and
plans meet only in the user and in the search index. `ScheduleJob` ends where
`CatalogSync` begins, with the upload of the catalog object.

Abstract specifications: `Otinish` implements `TicketLifecycle` and the tables of
`ScheduleBuilder` implement `PlanCount` (with `Limit` `MaxPlans` + 1); both are
checked and proved.

Operators named `Op_Something` are `Op` with a plausible bug; `mutants` in
`PROJECT.json` puts each in the place of `Op`, and the run must then find the
property violated. They document what each property is able to catch.

Order in which the modules were written: the appeal desk (most concurrent), the
catalog (most failure handling), the sync (deletes what students typed in), then
the planner with its tab (the largest piece of client state), the courses page,
and events, communities and opportunities. Two runs are violated ones, kept for
disagreements with a written promise; others found on the way are told in the
sections below.

## 3. SG appeals

### Correspondence

`ticket` is the table, `linked` the bound Telegram accounts, `fsm` and `category`
the aiogram FSM data in Redis, `button`, `posted` and `checkAgain` the keyboards
users may still press, also old ones. `run[h]` is one handler at work: its next
step, its user, the ticket it works on and, in `seen`, the row its session read
first. A handler ends with `Finish`.

The dispatcher has no event isolation, so every handler step may interleave with
every other. Steps are cut where a statement, a Redis write or a Telegram call
can be overtaken: `StartCommand, StartClear, Choose`; `PressCategory,
StoreCategory, AwaitBody`; `SendText, BodyCheck, BodyInsert, PublishDm,
PublishInbox, Enter`; `PressAnswer, ClaimOther, ClaimUpdate, ClaimEnter,
Announce`; `CloseCommand`, `PressYes, ConfirmChannel, ConfirmWrite,
ConfirmClear`; `PipeRead, PipeEnter, PipeRoute, PipeDeliver`. `Cut` is an
exception or a stop of the server between two steps.

`ClaimUpdate` deserves a word. `try_claim_ticket` is an ORM-enabled UPDATE; with
`synchronize_session="auto"` SQLAlchemy evaluates its WHERE on the session's own
copy of the row, which was unassigned when read, and writes the new assignee into
that copy whatever the rowcount was. The re-read that follows keeps identity-map
values. So the loser of a race finds itself the assignee; `won` remembers the
rowcount.

### Runs

| Run | Instance | Shows |
|---|---|---|
| `otinish_races` | 1 student, 2 members, 1 ticket, 2 concurrent handlers, failures and stops | `TypeOK`, `WinnerIsAssignee`, `PipeReachesOtherSide` and the refinement `Lifecycle` |
| `otinish_sequential` | 2 students, one also the only member, 2 tickets, one handler at a time | `LimitsHold` (one open ticket per author, one open channel per assignee), `SomeoneCanClose` |
| `otinish_inbox` | 1 student, 1 member, 2 handlers, no failure, fair | `FiledReachesInbox` |
| `otinish_lost_claim` | 1 student, 2 members, 2 handlers | violated `ConnectedIsAssignee`: the loser is told it is connected |

The conditions of these runs are the conditions of their properties. With two
handlers both limits break, since each is a check followed by a write: a student
files two tickets from two quick texts, a member claims two tickets with two
taps. With `MayFail` an open ticket may never be shown to the ministry, because
it is committed before the card is sent. With two users who are both student and
member, `SomeoneCanClose` fails even one handler at a time: each claims the
other's ticket, the authored ticket shadows the claimed one in `/close`, and
neither channel can be closed (`sgotinish/repository.py:100`, against
`otinish_bridge.py:30` and `sgotinish/README.md:14`). Two more behaviours of the model
have no run: an author may close a ticket that was claimed after the confirmation
read it, and "Check again" on an old keyboard during a channel puts the user into
the create flow, where texts are no longer piped (`otinish.py:219`).

`RaceSymmetry` permutes handlers and the members who cannot link an account.
Two handlers are enough for the races, which are all between a check and one
other write; three users give two members racing for one student's ticket; two
tickets are needed for the limits. `MaxTickets` bounds what
is ever filed; no property depends on reaching it. Deadlock is not checked, since
users may stop writing.

Fairness is weak fairness of `Handle(h)`: the event loop resumes each handler
whose await is over. Nothing is assumed of users.

### Proved (`OtinishProofs`)

For any number of users, tickets and concurrent handlers. Neither `TypeOK` nor
the two safety properties are inductive. `IInv` adds that every keyboard and
every run past its lookup refers to a filed ticket (`ButtonInv`, `RunInv`), that
the author never changes and an assignee, once set, stays (`Earlier` relates the
row a run read to the row as it is), that a run about to forward found another
side, and that a run which won its UPDATE is the assignee. `HandleStep` has one
case per action; the interesting ones are `BodyInsert` (a new row cannot be one a
run works on), `ClaimUpdate` (the row had no assignee, so no other run had won
it) and `ConfirmWrite` (only the status changes). The theorems are `Invariance`,
`TypeCorrect`, `ClaimHasOneWinner`, `PipeIsSafe` and `Refinement`, the last one
showing that each step files, claims, closes or leaves the rows alone; it needs
the invariant because `ConfirmWrite` has no condition on the row it closes.

The assumption on constants is `ConstantsAssumption`. `LargestExists` derives
that a newest ticket exists from the library's well-foundedness of strict subset
on finite sets.

Two theorems need a condition on the schedule or on the roles. `LimitsKept` assumes `OneAtATime` (no two handlers at work at
once): `LimitInv` says that what a handler found at its look still holds at its
write, across stops in between. `NeverLockedUp` assumes `AtMostOneBoth` (at most
one user is both student and member) and allows any number of concurrent
handlers: `RoleInv` keeps assignees among the members and authors among the
students, and a member who is no student has no authored ticket that could shadow the
claimed one, so with at most one exception every open channel has a user whose
`/close` finds it.

Model-checked only: `FiledReachesInbox` (liveness).

Not modelled: `transfer_ticket` and `close_ticket` of the service, which nothing
calls; message ids and reply threading; categories beyond "one was chosen";
statistics; binding ministry chats with `/bind` (one chat, bound before).

## 4. Schedule catalog

### Correspondence

`CatalogSync`: `catalog` and `listing` are the GCS object, `unacked` what Pub/Sub
still has to deliver, `processed` and `locked` the Redis keys, `index` the
documents in Meilisearch by the generation that wrote them, `boot` the task that
`bootstrap/meilisearch.py` creates at startup and `run[h]` a request to
`/bucket/gcs-hook`. Downloads are synchronous, so they belong to the step before;
every Redis and Meilisearch call is a step, except that the creation of the
index, the documents and the settings are one (`Fill`), since the first and the
last have no effect on documents but may fail. `Faults` says which faults an
instance has and `MaxFaults` how many.

`ScheduleJob`: `page` is what the registrar shows, `catalog` and `meta` the two
objects, `job[j]` an execution. `Skip` writes back the `meta.json` it read.

### Runs

| Run | Instance | Shows |
|---|---|---|
| `catalog_claim` | 3 requests, 2 subscriptions, any 2 faults but a slow run | `TypeOK`, `OneReindexPerGeneration`, `FinishedIsNotRedone` |
| `catalog_catch_up` | 3 requests, 2 subscriptions, any single fault among a failed rebuild, a crash, a repeated push, an expired lock; fair | `IndexCatchesUp` |
| `job_sequential` | one execution at a time, cut short anywhere, 4 terms | `TypeOK`, `MetaNeverAhead`, `DowngradeRefused` |

What the model allows beyond these runs: a repeated push is acknowledged while
the first attempt runs, and is lost if that attempt fails and its lock has not
expired (`registrar/service.py:531`, against `terraform/README.md:71`); two
generations rebuilt at once leave documents of both (`:530`); a failed download
counts as an empty catalog and is marked as processed (`:484`); the startup task wipes all indexes before its
sync "aborts to preserve" the schedule index, which is then empty. An unreadable
`meta.json` (`MetaMayFail`, `schedule_gcs.py:63`) counts as a first execution and lets an older term
overwrite the catalog; two executions that overlap do the same. A job cut short
between its two uploads leaves a `meta.json` that names an older term than the
catalog, which is why `DowngradeRefused` speaks of a `meta.json` that describes
it.

Four terms allow a term to be uploaded, a newer one to be cut short between its
uploads, to vanish, and to come back.

Two deliveries of one event come from the two subscriptions of production
(`terraform/pubsub.tf` and `bootstrap/gcp.py`) and from retries. Three requests
allow one to fail, one to be skipped and one to succeed. Keys are per generation,
so one generation is enough for the claim.

Fairness: requests and the startup task are resumed by the event loop, Pub/Sub
pushes what is not acknowledged. Locks need no fairness: the run shows that the
index catches up even if a lock left by a crash never expires, because the
startup task does not look at it.

Abstracted: Meilisearch executes its tasks in the order it queues them, so a call
takes effect when made; a task that fails after it was accepted is invisible to
the code and is not modelled.

### Proved (`CatalogSyncProofs`, `ScheduleJobProofs`)

`CatalogSyncProofs`, for any number of requests, subscriptions, generations and
faults, assumes `Timely`: "slow" is not among the faults, so no request outlives
its lock (120 seconds, `registrar/service.py:36`). Its invariant says that two
requests in their critical section work on different generations
(`HoldersAlone`), that each of them finds its lock in Redis (`HoldersLocked`), and
that a request past both looks works on a generation that is not marked as processed (`FinishedIsNotRedone`). The look outside the lock alone does not give
the last one; the look after the claim does. `TypeCorrect`, `OneRebuild` and
`NotRedone` follow. The assumption is needed: a slow run whose lock expired
shares the generation with its successor.

`ScheduleJobProofs`, for any number of terms, takes executions one at a time
(`OneAtATime`) and a readable `meta.json` (`Readable`); stops are allowed
anywhere. `JobInv` says what an execution knows between its steps: what it read is what `meta.json` says, a term
it goes on to upload is not older, and after its first upload the catalog is of
its term. `MetaBehind` and `NoDowngrade` follow; both assumptions are needed (see
above). `UploadIsNewer` is the only step that changes the catalog.

`TypeCorrect` of the job assumes neither.

Model-checked only: `IndexCatchesUp` (liveness).

## 5. Course registrations

### Correspondence

`CourseSync` is one student. `course` is the table `courses` (a course is named
by its catalog code), `reg[c]` the row of `student_courses` for course `c` with
its items, `nextId` the sequence of its ids, `hasSnapshot` the row of
`student_schedules` of the current term. `sync[h]` is one request: `Fetch` reads
the registrations, builds the map of keys and compares; `ResolveCourses` is every
later read; `Commit` applies deletions, insertions and the snapshot at once,
which is what READ COMMITTED shows to others, and `Rollback` is the unique
constraint that refuses an INSERT. Two codes that resolve to one course break the
same constraint.

A code is the sequence of its parts. `Aliases` are the keys under which the map
holds a registration; `CourseMaps` are the maps that the orders of the SELECT can
produce (the first registration with a key keeps it). `Catalog` says which codes
the registrar lists in the current term, in the one before and in any;
`_get_or_create_course` tries them in this order, each with the candidates of the
code. The schedule is any set of codes: an uploaded PDF may be of any date.

### Runs

| Run | Instance | Shows |
|---|---|---|
| `course_plain` | plain catalog of 2 courses, schedules that also hold a cross-listed and an unlisted code, 2 syncs, 1 item | `TypeOK`, `KeptCourseKeepsItems`, `SyncMirrorsSchedule` |
| `course_cross_listed` | a catalog with a cross-listed code, 1 sync at a time | violated `KeptCourseKeepsItems`: the second sync deletes the registration it lists as kept |

Two syncs give every conflict between a read and a commit; one of the two
catalog courses is listed in an older term only, so that the order of the
searches matters. `MaxId` bounds the commits that add something: 2 in
`course_plain`, enough for a registration to be removed and made again.

`KeptCourseKeepsItems` speaks of courses whose own code is in the schedule. A
schedule that names "A/B" where the catalog lists only A registers A, and the
next sync with that schedule deletes the registration and makes a new one,
without the items: `SyncMirrorsSchedule` still holds, since the student is
registered for the same course again.

### Proved (`CourseSyncProofs`)

For any codes of at most two parts, any catalog, any number of requests and
items. `TypeCorrect` needs that a search of a listed code ends with a course
(`MatchListed`). `KeptCourse` assumes `PlainListed`: with plain codes a
registration has a single key, so a course that is dropped is not in the schedule
(`DropInv`), and one that is inserted was not registered or the INSERT fails.
The run `course_cross_listed` shows that the assumption is needed.

`SyncMirrors` has the same assumption, under which the map of a request leads each
code to its own registration and nowhere else (`PlainMap`). So what a request plans at
its fetch is exact: it drops what its schedule does not name and adds the codes that were
not there (`PlanInv`, `FetchPlans`). A code that resolves to a course resolves to itself
if it is listed (`PlainMatch`). A commit that finds the registrations it read then leaves
exactly the courses of the schedule (`CommitMirrors`); the property says nothing of a
commit that another sync overtook.

Not modelled: the values in items and `update_course_item`, which neither the
sync nor its properties look at; class averages; registrar numbers that are not
numbers, for which a code is silently left out; the calendar export.

## 6. Schedule builder

### Correspondence

`Planner` is the service: a database is a record of `plans` (ids), `rows`
(courses of plans with their sections and what is selected) and the two id
sequences, and each operator is one transaction of `planner/service.py`. Stored
sections have fresh ids after every replacement; `gen` stands for them, so a
selection of an older `gen` names dead sections and is refused. Creating,
duplicating and deleting a plan are split by `ScheduleBuilder` into `CheckCount`
and `WritePlans`, since the count is read before the write. `AutoBuilds` is the
set of selections the auto-builder may return; how it ranks them is data.

`ScheduleBuilder` is one browser tab. `cache`, `stale`, `fetch`, `list` and
`listFetch` are the query cache; `calls` the mutations on their way, each with
what it asks, the plan its callbacks close over, and the snapshot for its
rollback; `live` says whether the observer still runs the callbacks passed to
`mutate`. A call goes out with a click, is served (`Serve`) or lost (`Lose`), and
returns (`Return`), each at any time. `Watch`, `SelectFirstPlan`, `ResetForPlan`
and `AutoFetch` are the effects, which run before the next click (`Settled`).

`ScheduleView` computes what a selection shows: `FitBadge` and the metrics are
`schedule-quality.ts`, `ClashingSections` and the grid
`schedule-builder-tab.tsx`, `MarkedClash` the picker. The sorts of the code are `Ranked` of `Lists` (each
class stands as far down as there are classes before it); its loops over the
sorted classes, the minutes of a day (`Minutes`) and the walk for a lunch slot
(`BestLunchSlot`), are recursive functions of how far the loop is. `CourseSearch`
is the debounced search with its cursor.

### Run `planner_tab`

| Property | Says |
|---|---|
| `OneSectionPerType` | on the server and on screen a course has at most one section of a type, whatever overtakes what |
| `OlderAnswerChangesNothing` | the answer or failure of a selection that a newer choice of the course replaced changes no cached plan |
| `PlansStayInNumber` | the tables implement `PlanCount`: at least one plan and at most `MaxPlans` + 1, one more or less at a time; create and duplicate check a count each and together pass the limit by one |
| `SelectionIsRepaired` | a tab that shows a deleted plan ends up on a plan that exists |
| `LoadingEnds` | a course shown as loading has a call that ends it, and "load more" of the search ends |
| `ClashesAgree` | badge, red blocks of the grid and marks of the picker name the same clashes |
| `WeekIsTrue` | every class is inside the grid drawn, the agenda opens on a day with a class, the lunch slot is free and no free one is longer, the gaps are free |
| `ResultsAreOneSearch` | the results of the picker belong to one search |

Instance: 2 courses (one with two lectures and a recitation, one with a lecture),
2 plans at first and `MaxPlans` 3, at most `MaxOps` 3 clicks from one of six
`Mixes`, selections that may be lost; a catalog of 8 meetings around noon, early,
late, on a Saturday, on a Sunday and without time; 2 texts to search with 3 pages
and 1. Three clicks are a selection, its replacement and a third that chases them
(a switch, a refresh, an undo); a mix puts together the operations that touch
the same state. The limit is reached from two plans with one creation and passed
with two.

Fairness: `Effects`, `Service` and `Arrivals`, and in the search the answers
(`Found`, `NotFound`): React runs effects, the service answers, callbacks run.
Nothing is assumed of the student or of lost calls.

### Proved (`ScheduleBuilderProofs`)

From `PlannerAssumption` and `BuilderAssumption` (a well-formed database with
proper selections at first), for any courses, sections, plans, clicks and calls.
Its first lemmas show that every transaction keeps `Sound` (ids in order, each
row of an existing plan and proper) and what it does to the number of plans.
`OneOfEachType` needs more than what is stored and shown: a selection is written
later from a call, a rollback snapshot, a refetch or an undo snapshot.
`SelectionInv` says that every one of them is proper (`CacheInv`, `FetchInv`,
`CallsInv`, `UndoInv`). `OlderAnswersAreVoid` rests on `LatestInv`: a selection
whose callbacks will still run is the newest of its course. `NumberOfPlans`
rests on `CountInv`: there is at most one call of each kind, so at most two of
them decide on one count, and at most one lies above the limit.
`EachLoadHasItsCall` is the safety part of `LoadingEnds`: every step that takes a
call away, or puts another render's in its place, leaves the calls that end a
loading or takes the course out (`LoadsKept`).

The rest is about the two other machines of the tab. `SearchIsOne`:
`ResultsAreOneSearch` is inductive once the request under way is known to
continue the list or to start it (`AppendContinues`): "load more" asks for the
cursor of the last search, and whatever clears the list clears both. That is why
an answer needs no number to be recognised. `ClashesAlwaysAgree`, for any catalog
that satisfies `CatalogAssumption` (days of the week, times as `parseClock` reads
them): the badge folds intervals per day (`HasClash`), the grid compares sections
(`ClashingSections`) and the picker compares a candidate with the sections of
other types (`MarkedClash`); `BadgeAndGrid` and `PickerAndGrid` show each equal to
the grid. The first needs `TimesInOrder`, that a class ends after it begins: the
summary drops a class that does not (`collectBlocks`), the grid draws it, and
without the assumption TLC finds the two disagreeing. The registrar's catalog
satisfies it. `PickerPredicts` needs no such assumption.

`WeekIsAlwaysTrue` proves the four parts of `WeekIsTrue` for any such catalog,
with no assumption on the times but that they are clock times. The invariant of
the machine is small (`WeekInv`: a finite selection from the catalog, an agenda
on a day with classes, kept because its effect runs after every change); the work
is in what is computed from a selection. `ClassesInOrder` and `LunchesInOrder`
show that the sorts put every class in one place and the places in order, from
`RanksSort`. The walk for a lunch slot is right because of what holds after every
`k` classes (`WalkEnds`): the cursor is at the least time that every class passed
has ended by (`Reached`), the best slot so far is empty or free of all classes,
those to come too (`OpenSlot`), and no slot passed is longer (`Outdone`); so a free slot, being
between two cursors, is no longer than the best (`LunchIsRight`). The gaps hold
because the classes up to the `k`th, with any one gap among them, fit between the
start of the first and the end of the `k`th (`ClassesFit`, `GapsFit`) when none
overlap. `GridHolds` bounds each class by the hours drawn, and `ClockRoundTrip`
reads a formatted time back.

What the model shows besides, without a property: a new or duplicated plan is
bounced to the first plan by the effect that sees the old list; a selection that
fails after the plan was switched writes one plan's snapshot under another's key;
a rollback undoes what was selected meanwhile in another course; undo after a
refresh sends dead ids; two quick additions of one course both go out; a refetch
that a click cancels (`schedule-builder-tab.tsx:823`) is not repeated. Sections
that meet at several times are shown at the first; classes on Sundays are not
shown; a search cleared while a later page loads shows that page alone. Two tabs
can delete the last two plans (`planner/service.py:201`): no property, since the
model is of one tab.

## 7. Courses page

### Correspondence

`GradeBook` is the "My Courses" tab. `srv` is the service: registrations with
items, templates and their ids. `courses` is the list on screen, `open` the
dialogs, `calls` what is under way with its argument, and every handler of
`use-live-gpa-view-model.ts` is a click, a `Serve` and one `...Returns` action per
`await`, so that an answer meets the dialogs open then. `Fault` loses a call or
its answer, `ClassmateShares` adds a template of another student. The service
checks "one template per course and student" and answers 409, after which the
page looks for a template to update (`CreateReturns`, `FindReturns`,
`PatchReturns`).

`AssignmentForm` types the numbers of the assignment dialog key by key (an empty
field, a lone dot, a number), with the effect that clamps the obtained score, and
computes GPAs and the bar; a `reduce` over a list is `Sum`, a recursive function of
the places added up. `AuditTab` is `degree-audit-tab.tsx`: program,
password dialog, transfer mapping dialog, result card, requirements.
`InfiniteList` is `searchable-infinite-list.tsx` over `use-infinite-scroll.ts`
with the term filter of the statistics tab; `CoursesPage` is
`grade-statistics-page.tsx` with the comparison tray.

### Run `courses_page`

| Property | Says |
|---|---|
| `ScreenCatchesUp` | clicks one by one leave on screen what the service has; "Load more" gives up only when every template of the course is listed, although classmates share in between |
| `AnswersReachTheirCourse` | an item is never shown in a course it does not belong to, and an import brings a template of that course, whatever dialog or drawer is open when the answer comes |
| `NothingSpinsAlone` | with no call under way no button is disabled and nothing spins, failures and lost answers included |
| `ClassmatesTemplatesStand` | sharing again never changes or removes a classmate's template |
| `UntouchedSaveChangesNothing` | an assignment opened and saved untouched is unchanged |
| `NumbersAddUp` | lowest, expected and highest GPA are in order, the parts of the bar fill it |
| `AuditIsOfItsPicks` | majors audited were offered for their year, requirements shown are of the title above them, no password outlives its dialog |
| `ListIsItsSearch` | the rows are matches of one search, and at the end all that were there when it was opened, once |
| `ScreensSettle` | a list that does not fail is loaded to its end; tab, contents and address come to rest on what was clicked last; a report is marked as better only if it is known and better |

Instance: 2 registrations, 2 names, pages of 2 templates, six habits with 1 or 2
calls in flight, 3 or 4 clicks and at most 1 fault; numbers of the digits 0 and 5
up to 50, weights below, at and above a hundred; 2 years that share a major, at
most 2 picks, results of another year, or of a year that is gone, in the cache; 4
reports and one that arrives among them, pages of 2, 2 changes of search or term; 3 tabs, 5 clicks, 4 reports to
compare, of which 3 fit. Two calls in flight are every overtaking of one answer
by another; a third click opens the dialog the late answer must not touch. Pages
of two and a fifth row shift a row from one page to the next.

`ListIsOneSearch` speaks of a keyword; without one the service does not filter by
term (below). Fairness: `KeywordTimer`, `Fetch`, `PageArrives` (timers fire, the
list asks for pages it shows the end of, the service answers) and `Follow`,
`Transition`, `Navigated` (effects, transitions and the router run). One part runs
in a behaviour, so each needs only the fairness of its own steps. The other
properties are invariants and need none.

### Proved (`CoursesPageProofs`)

For any registrations, names, templates, page size and clicks, and for any tables
whose keys were given out once (`GradeBookAssumption`, `ServerAssumption`).

`NothingSpinsForEver` and `AnswersReachTheirCourseForEver` allow any number of
calls in flight, of failures and of lost answers. For the first, `SpinInv` pairs
every spinner with a call under way that will end it: `scheduleLoading` with a
sync or with a load of this session, `isSharing` with any of the three calls of
one share. A sign-out resets what an older load will no longer reset. The second
is not inductive, since an item is applied to the course that the answer, a
dialog or a row read long before names. `FitInv` says that there is one function
`own` from keys to registrations such that every item on screen, in the tables
and in an answer is of the registration `own` gives its key (`Fits`); keys are
given out in order, so a step extends `own` and never changes it (`Agree`). The
update by key in `UpdateReturns` is safe for this reason alone.

`NoMoreAlwaysMeansAll` and `ScreenAlwaysCatchesUp` are of a user who waits for
every answer (`flight` = 1). `Turns`: at most one call, the loading effect before
any click. `Shelf`: the list of the drawer has no template twice and each is one
of the course, and a course never has more than the pages read would hold, so by
counting (`AllListed`) a list that needs no further page lacks none, although a
classmate's template shifts every page. `Same`: the list on screen, changed by the
answer under way, is what the service has. The second theorem assumes
`Undisturbed`, that such a user loses no answer; a lost one leaves the screen
behind until the page is opened again. The habits of the run satisfy it.

Trying to prove `NoMoreMeansAll` without the condition on `flight` fails for a
reason: the answer to "Load more" of a drawer that was closed and opened again
arrives after the new first page, is appended to it and sets the number of pages;
"Load more" goes away while a template is missing
(`use-live-gpa-view-model.ts:239`: nothing says which opening a page is for).

`AuditIsAlwaysOfItsPicks`, for any catalog and stored results with lists of known
names (`AuditAssumption`). What is audited was picked before, so `AuditInv` follows
the picks: until the catalog is there nothing is picked (`BeforeAnswers`), every
later major was offered for the year shown (`PicksAreOffered`), and one is picked as
long as a dialog or an audit needs it (`MajorStays`), since the form is closed to
changes meanwhile. The condition `~early` is needed: a stored result that comes
after the dialog was opened resets the program under the user's hands.

`ListIsAlwaysItsSearch`, for any finite set of reports with distinct ids, any
keywords, terms and page size (`ListAssumption`). `EndShowsAll` is not inductive: a
new report moves those behind it to later pages. `EntryReaches` says where they may
have gone: a report known at the first page is loaded unless as many stand before it
by now as the pages read hold. A further page brings those between (`StandsAt`,
`PageHolds`), and after the last page the service counts none is left (`PagesHold`).
Reports that were read twice are shown once (`UniqueShows`).

`ClassmatesAlwaysStand`: only the service touches templates, and where it replaces one
it asks whose it is (`ServeStands`, one case per transaction); the page does not.

`UntouchedSaves`, from `FormAssumption` (assignments as the page makes them: a maximum
above zero, a score within it). `FormInv` says that until a key is pressed the dialog
holds exactly the assignment it was opened on, that every assignment is well made, and
that every field holds nothing, a dot or a number; then the clamping effect has nothing
to do, and what is saved is what was read, and well made again (`PayloadWellMade`).

`NumbersAlwaysAddUp`, from `FormAssumption` as well: credits are whole numbers and the
assignments of the other courses well made too. A score is a part of the `Scale`
(`PartOfScale`), so what is earned is at most what is weighed (`EarnedIsWeighed`) and
the mean of the scored at most the whole (`MeanInScale`). Hence earned, projected and
possible score are in order (`GradeIsHighest` where the cap at 100 hides the last, as
the highest rung of the ladder hides what is above it); the ladder is monotone
(`GradesInOrder`) and the credit-weighted totals compare course by course
(`TotalsInOrder`). The bar is filled because scored and pending share out all the
weight (`SumsAdd`) and `BelowMax` is never cut off at 0 (`BarIsFull`).

`MarksAreAlwaysBetter`, for any reports whose numbers are unknown or not below zero
(`ReportNumbers`): an unknown GPA counts as 0, so one that beats another is known. The
rest of `ScreensSettle` is liveness and model-checked only.

Disagreements met while modelling:

- statistics: the term filter is ignored without a keyword
  (`statistics/service.py:22`, against `api.py:47`, `:61`); one failed page hides
  the list and is not asked for again; clearing with X does not search; after
  Escape the arrows move an invisible highlight that Enter searches; "1 selected -
  compare" clears the selection; an unknown GPA or withdrawal compares as 0;
- audit: a second round of mappings drops the first; "Run again" then Cancel shows
  older results; the header of the requirements may name another year; a late
  cached answer resets the majors picked;
- grade book: after a 409 the page may pick a template of any owner, and the
  update is refused; the first sync from the empty page unmounts its dialog; an
  older first load may overwrite a sync; typing "Max" after "Obtained" can destroy
  the score; a late page shows in the drawer of another course; a double click on
  Add makes two items; a late success closes another dialog; a failed first load
  shows an empty list for good; another import clears the flag of the first.

## 8. Events, communities, opportunities

### Correspondence

`EventAccess` looks into the service (`campuscurrent/events/service.py`): each
request reads in one step (`ReadCreate`, `ReadRevoke`, `ReadAccept`, `ReadGoing`,
`ReadNotGoing`), keeps what it found in `run`, and writes and commits in another;
nothing is locked. A unique constraint refuses a second row; `Cut` rolls back.
`told` and `answered` are what users were answered.

`EventPage` is one visit of the page of an event, against a service that answers
each call at one moment. `event` and `panel` are the two queries, `dialog` is
`share-access-dialog.tsx`. `Join` and `TransferAccepted` are other people.

`EntityEditor` is the dialog of an event or a community: `form` outlives the
dialog, `zones` do not; a zone holds new files, stored images, their previews and
the marks of those to delete, which the buttons address by their place among the
previews. `call` is the save, `uploads` run behind it (`GetSignedUrl`, `Put`),
`polls` ask for the entity until an image is there, at most `MaxAttempts` times.
The stored row of an image, made when the storage event is handled, appears with
`Put`.

`OpportunitiesPage` is the digest: `cache` holds, per filters, the number of pages
read and the opportunities on them (their order is of the service alone and nothing
on the page depends on it), `oppForm` the dialog with the levels and years of its rows
merged, `oppCalls` the mutations.

### Run `campus`

| Property | Says |
|---|---|
| `RowsAgree` | the owner is the creator or the user on record as having accepted a transfer link; taps on "going" never lose the row of somebody who did not leave |
| `OneByOne` | one request at a time, a transfer link makes one user owner and what was answered about going is in the table |
| `PageTellsOneStory` | button, panel and service agree about going once nothing is under way; the sharing dialog offers exactly the live links; what the page offers is refused only after ownership was lost |
| `SavesAreTrue` | a save that nothing came between stores what was on screen, one image per zone at most; an image is deleted only if its removal was clicked; no event ends before it starts |
| `OpportunitiesAreTrue` | cards are of the filters on screen, whichever answers come late; what is stored is what the dialog showed, and an edit that changed nothing changes nothing |
| `ImagesAppear` | after an edit that nothing came between, the page of the event shows in the end the images stored for it, unless a polling gave up before |

Instance: 3 users, 2 links and 2 requests at most (2 recipients accept one link
while the creator revokes it; `atOnce` says whether requests overlap), attendance
of one user; 6 visits of the event page with 2 attendees at first, pages of 2 and
1 or 2 calls in flight; 8 visits of the editor with 4 good pictures and a refused
one, 2 images stored before, 2 polls; 7 visits of the digest with 3 opportunities
(one expired), pages of 1. A visit names the user's role and what they click, so
that operations that meet in one state are explored together and the rest not.
Rows of different users about going are independent, hence one goer.

`OneByOne` is conditioned because two recipients of one transfer link who overlap
are both told they are owner (`service.py:430`); `RowsAgree` is what holds then.
Fairness: `ServeCall`, `Created`, `Updated`, `Refused` and the deletions, `GetSignedUrl
\/ Put`, `Poll`, `EntityRefetched` (the service answers, the browser goes on).

### Proved (`EventProofs`)

`RowsAlwaysAgree`, from `AccessAssumption`, for any number of users, links and
overlapping requests. `OwnerHoldsALink` is not inductive alone: a request that is
about to write must work on a link that was made (`RunsAreWhole`), of the purpose
it was read with, and one about to delete an attendance must be of a user who
asked for it (`RunsAreBacked`). `OneByOneHolds` adds, for `atOnce` = 1, that what
the only request read is what the tables say when it writes (`LooksHold`), and that
who was told to be the owner is on record with the link (`ToldAreRecorded`).

`PageAlwaysTellsOneStory`, from `PageAssumption` (I am one person, whoever joins
later is somebody else, pages hold at least one), for any people, links, page size,
visit and overlapping calls. What the property says of the quiet page depends on
what every answer under way will do to it, so `PageInv` follows the calls:

- `EventComesFirst`: until the event is there only the event is asked for, and
  there are never two of it, nor two toggles, under way;
- `GoingIsKnown`: an answer about me that was given agrees with the table, and so
  does the button when none is left to be read;
- `PanelIsKnown`: the pages of the panel, or of its refetch, were read one after
  another while my answer stood (`ReadsMe`): whoever joins is appended behind me, so
  I am on a page read so far or behind it. A toggle starts the panel anew, which is
  what makes this true again; a refetch cut by scrolling breaks it, and `cut` says so;
- `InvitesAreKnown`: with one call under way at most, the list about to be shown,
  and the list on screen unless such a call is pending, has every live link and no
  revoked one; a link used by its recipient may stay on it;
- `MayKnown`: while I have the role I came with, the permissions on screen are those
  of the service, so every call under way is allowed.

One step per action keeps each part (`...Keeps`); calls are added, answered and
removed by three lemmas (`CallAsks`, `CallBecomes`, `CallEnds`).

`SavesAreAlwaysTrue`, for any pictures, any number of clicks and losses and any task
that satisfies `EditorAssumption`: what is stored has at most one image per zone (the
dialogs take no more), no image is in two zones or is a file still to be picked, and
an event ends after it starts (`campuscurrent/events/schemas.py:61` refuses another).
`EditorInv` has two parts.

- `WholeInv` holds whatever comes between. The stored images come first among the
  previews, so that one place names the same image in both lists and what is marked
  was clicked (`ZonesAreWhole`); a call deletes marked images only (`CallsAreMeant`).
- `CalmInv` holds while nothing came between. A zone that is open is in one of four
  states over what is stored for it (`ZoneIs`): as opened, emptied, with a file that
  is being read, with that file shown. What is sent is what is on screen
  (`SentAsShown`); once it is done, what is stored with the files of the zones
  (`DoneAsPromised`), and after the dialog is gone with the uploads under way
  (`StoredAsPromised`), is what was promised. The images and files of two zones stay
  apart (`Apart`): the marks of all zones go in one list, so an image of two zones
  would be deleted from both. A zone has one image or one on its way (`Fits`).

The limit of one image is what makes this true: `removeFile`
(`unified-media-context.tsx:126`) takes a place among the previews for a place among
the files, and previews come in the order in which files were read. With a limit of
two, TLC finds that the wrong one of two new files is removed.

`OpportunitiesAreAlwaysTrue`, for any levels, years, page size, visit and calls under
way, and any opportunities stored as the page stores them (`OppAssumption`: a level has
a row without a year or rows with years, never both, and PhD has none). The dialog
merges the rows of an opportunity into levels and years (`FormOf`) and splits them
again when it is saved (`Split`), so that the theorem says this round trip loses
nothing. `OppInv` has four parts:

- `CacheIsServed`: what is cached under some filters passes them, whichever answer
  brought it, so that changing the filters shows nothing of the ones before;
- `RowsAreSplit`: what is stored is split as the page splits it, which a save keeps;
- `FormIsOf`: the levels and years of the dialog belong together, and a dialog that
  was not touched shows what its card had;
- `CallsAreSaves`: the one save under way carries what its dialog showed, which passed
  the checks before submission, and when it is done the row stored is of that payload.

The lemmas under them compute with sequences: a list without repetitions has what the
list had (`DistinctHas`), the years of a level are those of its rows (`YearsOfHas`),
and the rows sent are those of every level (`EligibilitiesHave`). The API accepts a
level both with and without a year; an edit on the page would then drop the row without
one, hence the assumption.

Disagreements met while modelling:

- event page: a former owner's other transfer links stay valid
  (`share-access-dialog.tsx:28` speaks of losing control permanently); a lost
  answer to an acceptance shows "Invalid or expired link" on the next try; a
  refetch of the event that overlaps a toggle overwrites it; scrolling during a
  refetch of the panel drops the refetch;
- editors: a refetch resets typed text and brings a removed poster back on screen
  while it is still marked; reopening keeps abandoned edits; closing the dialog
  during the save skips the upload; edits made during the save are lost; the poll
  of a community stops at any image; type and category of a community are edited
  but never sent (`communities/utils.py:21`); a failed PUT is reported as success
  (`upload-media.ts`);
- opportunities: the page invalidates the query client of `utils/query-client.ts`,
  not the one it renders from (`providers.tsx`), so the list is never refetched
  after a save or deletion, and editing again reverts the earlier save
  (`opportunities-page.tsx:269`; modelled, without a property); the year filter
  sends parameters the router does not take; saving n years of a level multiplies
  its rows; a keyword filters one page of hits, so a page without a match ends the
  list.

## 9. Proved, and not

| Module | Theorems | For every | Assuming |
|---|---|---|---|
| `OtinishProofs` | `Invariance`, `TypeCorrect`, `ClaimHasOneWinner`, `PipeIsSafe`, `Refinement` | users, tickets, handlers | `ConstantsAssumption` |
| | `LimitsKept` | users, tickets, handlers | handlers one at a time |
| | `NeverLockedUp` | same, concurrent | one user in both roles at most |
| `CatalogSyncProofs` | `TypeCorrect`, `OneRebuild`, `NotRedone` | requests, subscriptions, generations, faults | no request outlives its lock |
| `ScheduleJobProofs` | `TypeCorrect` | terms, executions | - |
| | `MetaBehind`, `NoDowngrade` | terms | one execution at a time, readable `meta.json` |
| `CourseSyncProofs` | `TypeCorrect` | catalogs, codes, requests, items | listed codes have a course |
| | `KeptCourse`, `SyncMirrors` | same | plain codes |
| `ScheduleBuilderProofs` | `OneOfEachType`, `OlderAnswersAreVoid`, `EachLoadHasItsCall`, `NumberOfPlans` | courses, sections, plans, calls | a well-formed start |
| | `SearchIsOne` | searches, pages, terms | - |
| | `ClashesAlwaysAgree`, `PickerPredicts` | catalogs | classes end after they begin (not for `PickerPredicts`) |
| | `WeekIsAlwaysTrue` | catalogs, selections | keys given out once |
| `CoursesPageProofs` | `NothingSpinsForEver`, `AnswersReachTheirCourseForEver` | tables, clicks, calls in flight, faults | keys given out once |
| | `NoMoreAlwaysMeansAll` | same, page sizes | as checked: one call in flight |
| | `ScreenAlwaysCatchesUp` | same | no answer lost when one call is in flight |
| | `AuditIsAlwaysOfItsPicks` | catalogs, stored results, picks | names of programs only |
| | `ListIsAlwaysItsSearch` | reports, searches, page sizes | ids given out once |
| | `ClassmatesAlwaysStand` | tables, clicks, calls in flight, faults | keys given out once |
| | `UntouchedSaves`, `NumbersAlwaysAddUp` | assignments, keys, submissions, other courses | `FormAssumption` |
| | `MarksAreAlwaysBetter` | reports compared, tabs, clicks | known numbers not below zero |
| `EventProofs` | `RowsAlwaysAgree`, `OneByOneHolds` | users, links, requests | `AccessAssumption` |
| | `PageAlwaysTellsOneStory` | people, links, page sizes, visits, calls | `PageAssumption` |
| | `SavesAreAlwaysTrue` | pictures, stored entities, clicks, losses | `EditorAssumption` |
| | `OpportunitiesAreAlwaysTrue` | opportunities, levels, years, page sizes, visits | `OppAssumption` |

An assumption that is not about constants alone is the hypothesis of its theorem,
and the sections above name the behaviour that shows it is needed.

Every safety and action property of the passing runs is stated by one of these
theorems. Model-checked only, being liveness: `FiledReachesInbox`,
`IndexCatchesUp`, `SelectionIsRepaired`, `LoadingEnds`, `ScreensSettle`,
`ImagesAppear`; the safety parts of two of them are `EachLoadHasItsCall` and
`MarksAreAlwaysBetter`. The prover handles neither fairness nor ENABLED, and takes
no induction over an operator. Where a fact about a sequence needed one, the least
place where it fails does instead (`LeastFails`, `StepByStep`), and a recursive
function is shown to exist one step at a time (`StepsExist`).

Runs take from a second to about three minutes each. Deadlock is not checked
in runs where users may stop.

## 10. Not modelled

| Part | Why |
|---|---|
| Auth | a protocol with an external identity provider; the models take a signed-in user with roles |
| Notification | nothing in the repository sends to its queue; its limiter (`rate_limiter.py:95`) would then be worth a model of the window |
| Event posts of the bot | a linear pipeline of one row between a language model, Telegram and the events service |
| Account linking beyond the binding | the confirmation keyboard (`bot/services/link.py:28`) |
| Kill switch, grade lookup, announcements, elections | a key, queries, configuration |
| Registrar clients and parsers | pages and PDFs that the university changes at will |
| Calendar export | calls of the Google API (`google_calendar_service.py:139`: a failed event is skipped) |
| Search documents of events and communities, objects in the bucket | written before the commit (`events/service.py:66`), deleted before the row (`media/service.py:30`); no property of the models looks at them |
| Rankings: auto-builder, matching of a transcript with requirements | data; the candidates and the dialogue are modelled |
| Rest of the frontend, migrations, CSV pipelines, deployment | rendering and configuration |

Inside the modelled parts: messages, layout and wording, colours, charts, class
averages, photo albums, the list of events and its filters, the choice of a main
image, the Markdown toolbar, and length limits of single fields.
