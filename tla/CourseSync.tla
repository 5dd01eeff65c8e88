------------------------------ MODULE CourseSync ------------------------------
(***************************************************************************)
(* Reconciliation of one student's registered courses with a schedule      *)
(* from the registrar (courses/courses/service.py,                         *)
(* _sync_courses_from_schedule_response), with the course items in which   *)
(* the student records scores.                                             *)
(*                                                                         *)
(* Requests are concurrent transactions at READ COMMITTED: what one wrote  *)
(* is seen by the others when it commits, and its INSERTs fail on a row of *)
(* the same key committed since it looked.  A failed request rolls back.   *)
(*                                                                         *)
(* A normalized course code is the sequence of its parts: <<p>> is a plain *)
(* code, <<p, q>> the cross-listed "p/q".                                  *)
(* An operator Op_Something is Op with a plausible bug in it.              *)
(***************************************************************************)
EXTENDS Integers, FiniteSets, SequencesExt

CONSTANTS
    Subjects,     \* parts of a code, as "PHYS 161"
    Catalog,      \* codes the registrar's public catalog lists: in the current
                  \* term, in the one before, and in any
    Schedulable,  \* codes that may stand in a schedule
    Requests,     \* sync requests that may run at the same time
    Items,        \* course items a student may add to one registration
    MaxId         \* bound: values of student_courses.id

\* Codes of at most two parts
Codes == [1..1 -> Subjects] \cup [1..2 -> Subjects]

Searches == 1..3
Listed == Catalog[3]

ASSUME CourseAssumption ==
    /\ Catalog \in [Searches -> SUBSET Codes]
    /\ \A t \in Searches : Catalog[t] \subseteq Listed
    /\ Schedulable \subseteq Codes
    /\ MaxId \in Nat

VARIABLES
    course,      \* courses: the listed codes that have a row
    reg,         \* student_courses: the registration for each course, or NoReg
    nextId,      \* next value of student_courses.id
    hasSnapshot, \* whether student_schedules has the student's row of the term
    sync         \* sync[h] = what request h is about to do

vars == <<course, reg, nextId, hasSnapshot, sync>>

NoReg == [id |-> 0, items |-> {}]
Regs == [id : 0..MaxId, items : SUBSET Items]

SyncSteps == {"idle", "fetch", "resolve", "commit"}
Idle == [step |-> "idle", codes |-> {}, seen |-> {}, drop |-> {}, add |-> {},
         known |-> {}, hadSnapshot |-> FALSE]

\* codes: of the schedule; seen: registrations fetched, as (course, id);
\* drop: those to delete; add: codes to register; known, hadSnapshot: what the
\* request found in courses and student_schedules
Rows == Listed \X (1..MaxId)
Syncs == [step : SyncSteps, codes : SUBSET Schedulable, seen : SUBSET Rows,
          drop : SUBSET Rows, add : SUBSET Schedulable, known : SUBSET Listed,
          hadSnapshot : BOOLEAN]

TypeOK ==
    /\ course \subseteq Listed
    /\ reg \in [Listed -> Regs]
    /\ nextId \in 1..MaxId + 1
    /\ hasSnapshot \in BOOLEAN
    /\ sync \in [Requests -> Syncs]

Init ==
    /\ course = {}
    /\ reg = [c \in Listed |-> NoReg]
    /\ nextId = 1
    /\ hasSnapshot = FALSE
    /\ sync = [h \in Requests |-> Idle]

At(h, step) == sync[h].step = step
Abort(h) == sync' = [sync EXCEPT ![h] = Idle]

Registered == {c \in Listed : reg[c] # NoReg}
Row(c) == <<c, reg[c].id>>

------------------------------------------------------------------------------
(* Course codes                                                            *)

Parts(code) == {<<code[i]>> : i \in DOMAIN code}

\* The codes under which an existing registration is found again
Aliases(code) == {code, Reverse(code)} \cup Parts(code)

\* existing_courses_map: the courses of `regs` come in any order, and the first
\* that has a key keeps it.
Keys(regs) == UNION {Aliases(c) : c \in regs}
CourseMaps(regs) ==
    {m \in [Keys(regs) -> regs] :
       \E order \in SetToSeqs(regs) : \A k \in Keys(regs) :
         \E i \in DOMAIN order :
           /\ m[k] = order[i] /\ k \in Aliases(order[i])
           /\ \A j \in 1..i - 1 : k \notin Aliases(order[j])}

\* What the catalog is searched for: the code, reversed, then its parts
Candidates(code) ==
    IF Len(code) = 1 THEN <<code>>
    ELSE <<code, Reverse(code), <<code[1]>>, <<code[2]>>>>

Found(code, t) == {i \in DOMAIN Candidates(code) : Candidates(code)[i] \in Catalog[t]}
IsListed(code) == Found(code, 3) # {}

\* _get_or_create_course: the first search with a result, in it the first
\* candidate that is listed
Search(code) ==
    CHOOSE t \in Searches :
        Found(code, t) # {} /\ \A u \in 1..t - 1 : Found(code, u) = {}
Match(code) ==
    CHOOSE c \in Listed : \E i \in Found(code, Search(code)) :
        c = Candidates(code)[i] /\ \A j \in Found(code, Search(code)) : i <= j

Targets(h) == {Match(c) : c \in sync[h].add}

------------------------------------------------------------------------------
(* A sync request                                                          *)

\* sync_schedule or an uploaded PDF (of any date), and the current semester
Submit(h) ==
    /\ At(h, "idle")
    /\ \E codes \in SUBSET Schedulable :
         sync' = [sync EXCEPT ![h] = [Idle EXCEPT !.step = "fetch", !.codes = codes]]
    /\ UNCHANGED <<course, reg, nextId, hasSnapshot>>

\* courses_to_delete: keys of the map the schedule does not name
Drop_All(m, codes) == {m[k] : k \in DOMAIN m}
Drop_Nothing(m, codes) == {}
Drop(m, codes) == {m[k] : k \in DOMAIN m \ codes}

\* fetch_registered_courses and the comparison
Fetch(h) ==
    /\ At(h, "fetch")
    /\ \E m \in CourseMaps(Registered) :
         sync' = [sync EXCEPT
                    ![h].step = "resolve",
                    ![h].seen = {Row(c) : c \in Registered},
                    ![h].drop = {Row(c) : c \in Drop(m, sync[h].codes)},
                    ![h].add = sync[h].codes \ DOMAIN m]
    /\ UNCHANGED <<course, reg, nextId, hasSnapshot>>

\* _get_or_create_course for each code to add, then the SELECT of
\* upsert_schedule: the last reads of the request
ResolveCourses(h) ==
    /\ At(h, "resolve")
    /\ \A c \in sync[h].add : IsListed(c)
    /\ sync' = [sync EXCEPT ![h].step = "commit",
                            ![h].known = course,
                            ![h].hadSnapshot = hasSnapshot]
    /\ UNCHANGED <<course, reg, nextId, hasSnapshot>>

\* CourseLookupError, the registrar unavailable, no current semester
Fail(h) ==
    /\ sync[h].step \in {"fetch", "resolve"}
    /\ Abort(h)
    /\ UNCHANGED <<course, reg, nextId, hasSnapshot>>

\* An INSERT meets a row of the same key: uq_courses_registrar_id,
\* uq_student_courses_student_course_unique, uq_student_schedule_student_term.
Conflict(h) ==
    LET s == sync[h] IN
    \/ Cardinality(Targets(h)) < Cardinality(s.add)
    \/ Targets(h) \cap (course \ s.known) # {}
    \/ \E c \in Targets(h) \cap Registered : Row(c) \notin s.drop
    \/ hasSnapshot /\ ~s.hadSnapshot

NewReg_NextId == [id |-> nextId + 1, items |-> {}]
NewReg == [id |-> nextId, items |-> {}]

Commit(h) ==
    /\ At(h, "commit") /\ ~Conflict(h)
    /\ Targets(h) = {} \/ nextId <= MaxId
    /\ course' = course \cup Targets(h)
    /\ reg' = [c \in Listed |->
                 IF c \in Targets(h) THEN NewReg
                 ELSE IF Row(c) \in sync[h].drop THEN NoReg
                 ELSE reg[c]]
    /\ nextId' = IF Targets(h) = {} THEN nextId ELSE nextId + 1
    /\ hasSnapshot' = TRUE
    /\ Abort(h)

Rollback(h) ==
    /\ At(h, "commit") /\ Conflict(h)
    /\ Abort(h)
    /\ UNCHANGED <<course, reg, nextId, hasSnapshot>>

------------------------------------------------------------------------------
(* Course items; a request that loses its registration meanwhile fails.    *)

AddItem(c, i) ==
    /\ c \in Registered /\ i \notin reg[c].items
    /\ reg' = [reg EXCEPT ![c].items = @ \cup {i}]
    /\ UNCHANGED <<course, nextId, hasSnapshot, sync>>

DeleteItem(c, i) ==
    /\ i \in reg[c].items
    /\ reg' = [reg EXCEPT ![c].items = @ \ {i}]
    /\ UNCHANGED <<course, nextId, hasSnapshot, sync>>

Next ==
    \/ \E h \in Requests :
         \/ Submit(h) \/ Fetch(h) \/ ResolveCourses(h) \/ Fail(h)
         \/ Commit(h) \/ Rollback(h)
    \/ \E c \in Listed, i \in Items : AddItem(c, i) \/ DeleteItem(c, i)

Spec == Init /\ [][Next]_vars

------------------------------------------------------------------------------
\* A sync never touches the registration, nor the scores recorded in it, of a
\* course whose code is in the schedule, whatever other syncs commit between
\* its reads and its commit.  sync_courses_from_registrar: "Keeps courses that
\* are still in the schedule".
KeptCourseKeepsItems ==
    [][\A h \in Requests : Commit(h) =>
         \A c \in Registered \cap sync[h].codes : reg'[c] = reg[c]]_vars

\* Unless another sync has committed since its fetch, a sync leaves the student
\* registered for what the schedule names, all of it and nothing else.
SyncMirrorsSchedule ==
    [][\A h \in Requests :
         Commit(h) /\ sync[h].seen = {Row(c) : c \in Registered} =>
           Registered' = {Match(c) : c \in sync[h].codes}]_vars
==============================================================================
