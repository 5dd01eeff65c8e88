--------------------------- MODULE CourseSyncProofs ---------------------------
(***************************************************************************)
(* Where the catalog lists plain codes only, a sync keeps what it says it  *)
(* keeps, for any number of requests, courses and items, and whatever the  *)
(* schedules contain.  (A run refutes it for a cross-listed course.)       *)
(***************************************************************************)
EXTENDS CourseSync, TLAPS

PlainListed == Listed \subseteq [1..1 -> Subjects]

\* The registrations a request is about to delete are of courses that are not
\* in its schedule.
DropInv ==
    \A h \in Requests : \A d \in sync[h].drop : d[1] \notin sync[h].codes

\* A row that holds no registration holds nothing, and what is about to be
\* committed is registered for courses the catalog lists.
RegInv == \A c \in Listed : reg[c].id = 0 => reg[c] = NoReg
FoundInv == \A h \in Requests : At(h, "commit") => \A c \in sync[h].add : IsListed(c)

TypeInv == TypeOK /\ RegInv /\ FoundInv
IInv == TypeInv /\ DropInv

\* A code has at most four candidates, one of which is the first.
LEMMA LeastCandidate ==
    ASSUME NEW F \in SUBSET (1..4), F # {}
    PROVE  \E i \in F : \A j \in F : i <= j
  <1>1. CASE 1 \in F
    BY <1>1
  <1>2. CASE 1 \notin F /\ 2 \in F
    BY <1>2
  <1>3. CASE 1 \notin F /\ 2 \notin F /\ 3 \in F
    BY <1>3
  <1>4. CASE 1 \notin F /\ 2 \notin F /\ 3 \notin F
    <2>1. PICK i : i \in F
      OBVIOUS
    <2> QED
      BY <1>4, <2>1
  <1> QED
    BY <1>1, <1>2, <1>3, <1>4

\* The search of a listed code ends.
LEMMA SearchEnds ==
    ASSUME NEW code, IsListed(code)
    PROVE  Search(code) \in Searches /\ Found(code, Search(code)) # {}
  <1>1. CASE Found(code, 1) # {}
    <2>1. 1 \in Searches /\ \A u \in 1..1 - 1 : Found(code, u) = {}
      BY DEF Searches
    <2> QED
      BY <1>1, <2>1 DEF Search
  <1>2. CASE Found(code, 1) = {} /\ Found(code, 2) # {}
    <2>1. 2 \in Searches /\ \A u \in 1..2 - 1 : Found(code, u) = {}
      BY <1>2 DEF Searches
    <2> QED
      BY <1>2, <2>1 DEF Search
  <1>3. CASE Found(code, 1) = {} /\ Found(code, 2) = {}
    <2>1. 3 \in Searches /\ \A u \in 1..3 - 1 : Found(code, u) = {}
      BY <1>3 DEF Searches
    <2> QED
      BY <2>1 DEF Search, IsListed
  <1> QED
    BY <1>1, <1>2, <1>3

\* It ends with one of the candidates that is listed.
LEMMA MatchListed ==
    ASSUME NEW code \in Codes, IsListed(code)
    PROVE  Match(code) \in Listed
  <1> DEFINE t == Search(code)
             F == Found(code, t)
  <1>1. t \in Searches /\ F # {}
    BY SearchEnds
  <1>2. F \subseteq 1..4 /\ \A i \in F : Candidates(code)[i] \in Listed
    BY <1>1, CourseAssumption DEF Found, Candidates, Codes
  <1>3. PICK i \in F : \A j \in F : i <= j
    <2> HIDE DEF F
    <2> QED
      BY <1>1, <1>2, LeastCandidate
  <1> QED
    BY <1>2, <1>3 DEF Match

LEMMA IdleTyped == Idle \in Syncs
  BY DEF Idle, Syncs, SyncSteps

LEMMA InitType == Init => TypeInv
  <1> SUFFICES ASSUME Init PROVE TypeInv
    OBVIOUS
  <1>1. NoReg \in Regs
    BY CourseAssumption DEF NoReg, Regs
  <1>2. reg \in [Listed -> Regs] /\ sync \in [Requests -> Syncs]
    BY <1>1, IdleTyped DEF Init
  <1>3. TypeOK
    <2>1. nextId \in 1..MaxId + 1
      BY CourseAssumption DEF Init
    <2>2. course \subseteq Listed /\ hasSnapshot \in BOOLEAN
      BY DEF Init
    <2> QED
      BY <1>2, <2>1, <2>2 DEF TypeOK
  <1>4. RegInv
    BY DEF Init, RegInv
  <1>5. FoundInv
    BY DEF Init, FoundInv, At, Idle
  <1> QED
    BY <1>3, <1>4, <1>5 DEF TypeInv

\* Rows of registrations have an id.
LEMMA RowTyped ==
    ASSUME TypeInv, NEW c \in Registered
    PROVE  Row(c) \in Rows
  BY CourseAssumption DEF TypeInv, TypeOK, RegInv, Registered, Row, Rows, Regs, NoReg

LEMMA NextType ==
    ASSUME TypeInv, [Next]_vars
    PROVE  TypeInv'
  <1> USE DEF TypeInv, TypeOK, RegInv, FoundInv, At
  <1> DEFINE others == <<course, reg, nextId, hasSnapshot>>
  <1>1. ASSUME NEW h \in Requests, Submit(h) PROVE TypeInv'
    <2>1. PICK codes \in SUBSET Schedulable :
            sync' = [sync EXCEPT ![h] = [Idle EXCEPT !.step = "fetch", !.codes = codes]]
      BY <1>1 DEF Submit
    <2>2. [Idle EXCEPT !.step = "fetch", !.codes = codes] \in Syncs
      BY DEF Idle, Syncs, SyncSteps
    <2>3. sync' \in [Requests -> Syncs]
      BY <2>1, <2>2
    <2>4. FoundInv'
      BY <2>1 DEF Idle
    <2> QED
      BY <1>1, <2>3, <2>4 DEF Submit
  <1>2. ASSUME NEW h \in Requests, Fetch(h) PROVE TypeInv'
    <2>1. PICK m \in CourseMaps(Registered) :
            sync' = [sync EXCEPT
                       ![h].step = "resolve",
                       ![h].seen = {Row(c) : c \in Registered},
                       ![h].drop = {Row(c) : c \in Drop(m, sync[h].codes)},
                       ![h].add = sync[h].codes \ DOMAIN m]
      BY <1>2 DEF Fetch
    <2> DEFINE rows == {Row(c) : c \in Registered}
               drop == {Row(c) : c \in Drop(m, sync[h].codes)}
               add == sync[h].codes \ DOMAIN m
               s == [sync[h] EXCEPT !.step = "resolve", !.seen = rows,
                                    !.drop = drop, !.add = add]
    <2>2. Drop(m, sync[h].codes) \subseteq Registered
      BY DEF Drop, CourseMaps
    <2>3. rows \subseteq Rows /\ drop \subseteq Rows
      BY <2>2, RowTyped
    <2>4. sync[h] \in Syncs
      OBVIOUS
    <2>5. add \subseteq Schedulable
      BY <2>4 DEF Syncs
    <2> HIDE DEF rows, drop, add
    <2>6. s \in Syncs /\ s.step = "resolve"
      BY <2>3, <2>4, <2>5 DEF Syncs, SyncSteps
    <2>7. sync' = [sync EXCEPT ![h] = s]
      BY <2>1 DEF rows, drop, add
    <2> HIDE DEF s
    <2>8. sync' \in [Requests -> Syncs] /\ FoundInv'
      BY <2>6, <2>7
    <2> QED
      BY <1>2, <2>8 DEF Fetch
  <1>3. ASSUME NEW h \in Requests, ResolveCourses(h) PROVE TypeInv'
    <2> DEFINE s == [sync[h] EXCEPT !.step = "commit", !.known = course,
                                    !.hadSnapshot = hasSnapshot]
    <2>1. s \in Syncs /\ s.add = sync[h].add
      BY DEF Syncs, SyncSteps
    <2>2. sync' = [sync EXCEPT ![h] = s]
      BY <1>3 DEF ResolveCourses
    <2> HIDE DEF s
    <2>3. sync' \in [Requests -> Syncs] /\ FoundInv'
      BY <1>3, <2>1, <2>2, ZenonT(40) DEF ResolveCourses
    <2> QED
      BY <1>3, <2>3 DEF ResolveCourses
  <1>4. ASSUME NEW h \in Requests, Fail(h) \/ Rollback(h) PROVE TypeInv'
    <2>1. sync' = [sync EXCEPT ![h] = Idle] /\ UNCHANGED others
      BY <1>4 DEF Fail, Rollback, Abort
    <2>2. sync' \in [Requests -> Syncs]
      BY <2>1, IdleTyped
    <2>3. FoundInv'
      BY <2>1 DEF Idle
    <2> QED
      BY <2>1, <2>2, <2>3
  <1>5. ASSUME NEW h \in Requests, Commit(h) PROVE TypeInv'
    <2>1. Targets(h) \subseteq Listed
      BY <1>5, MatchListed, CourseAssumption DEF Commit, Targets, Syncs
    <2>2. Targets(h) # {} => NewReg \in Regs /\ NewReg.id # 0
      BY <1>5, CourseAssumption DEF Commit, NewReg, Regs
    <2>3. NoReg \in Regs
      BY CourseAssumption DEF NoReg, Regs
    <2>4. reg' \in [Listed -> Regs] /\ RegInv'
      BY <1>5, <2>2, <2>3 DEF Commit, NoReg
    <2>5. nextId' \in 1..MaxId + 1
      BY <1>5, CourseAssumption DEF Commit
    <2>6. sync' \in [Requests -> Syncs] /\ FoundInv'
      BY <1>5, IdleTyped DEF Commit, Abort, Idle
    <2> QED
      BY <1>5, <2>1, <2>4, <2>5, <2>6 DEF Commit
  <1>6. ASSUME NEW c \in Listed, NEW i \in Items, AddItem(c, i) PROVE TypeInv'
    BY <1>6 DEF AddItem, Registered, Regs, NoReg
  <1>7. ASSUME NEW c \in Listed, NEW i \in Items, DeleteItem(c, i) PROVE TypeInv'
    <2> DEFINE r == [reg[c] EXCEPT !.items = @ \ {i}]
    <2>1. reg[c].id # 0
      BY <1>7 DEF DeleteItem, NoReg
    <2>2. r \in Regs /\ r.id # 0
      BY <2>1 DEF Regs
    <2>3. reg' = [reg EXCEPT ![c] = r]
      BY <1>7 DEF DeleteItem
    <2> HIDE DEF r
    <2>4. reg' \in [Listed -> Regs] /\ RegInv'
      BY <2>2, <2>3
    <2> QED
      BY <1>7, <2>4 DEF DeleteItem
  <1>8. CASE UNCHANGED vars
    <2>1. TypeOK' /\ RegInv' /\ FoundInv'
      BY <1>8 DEF vars
    <2> QED
      BY <2>1
  <1> QED
    BY <1>1, <1>2, <1>3, <1>4, <1>5, <1>6, <1>7, <1>8 DEF Next

\* Type correctness of registrations, items and sync requests
THEOREM TypeCorrect == Spec => []TypeOK
  <1>1. TypeInv => TypeOK
    BY DEF TypeInv
  <1> QED
    BY InitType, NextType, <1>1, PTL DEF Spec

------------------------------------------------------------------------------
\* A plain code is its only alias.
LEMMA PlainAliases ==
    ASSUME NEW c \in [1..1 -> Subjects]
    PROVE  Aliases(c) = {c}
  <1>1. Len(c) = 1
    OBVIOUS
  <1>2. Reverse(c) = c
    BY <1>1 DEF Reverse
  <1>3. Parts(c) = {<<c[1]>>}
    BY DEF Parts
  <1>4. <<c[1]>> = c
    OBVIOUS
  <1> QED
    BY <1>2, <1>3, <1>4 DEF Aliases

\* The keys the schedule does not name lead to courses it does not name.
LEMMA DropIsUnscheduled ==
    ASSUME PlainListed, NEW codes, NEW m \in CourseMaps(Registered),
           NEW c \in Drop(m, codes)
    PROVE  c \notin codes
  <1>1. m \in [Keys(Registered) -> Registered]
    BY DEF CourseMaps
  <1>2. PICK k \in Keys(Registered) \ codes : c = m[k]
    BY <1>1 DEF Drop
  <1>3. k \in Aliases(m[k])
    BY <1>2 DEF CourseMaps
  <1>4. m[k] \in [1..1 -> Subjects]
    BY <1>1, <1>2 DEF PlainListed, Registered
  <1> QED
    BY <1>2, <1>3, <1>4, PlainAliases

LEMMA InitInv == Init => IInv
  BY InitType DEF Init, IInv, DropInv, Idle

\* Only Fetch decides what to delete, and only Submit changes the schedule.
LEMMA NextInv ==
    ASSUME PlainListed, IInv, [Next]_vars
    PROVE  IInv'
  <1>1. TypeInv'
    BY NextType DEF IInv
  <1> USE DEF IInv, TypeInv, TypeOK, DropInv, Syncs
  <1>2. ASSUME NEW h \in Requests, Fetch(h) PROVE DropInv'
    <2>1. PICK m \in CourseMaps(Registered) :
            sync' = [sync EXCEPT
                       ![h].step = "resolve",
                       ![h].seen = {Row(c) : c \in Registered},
                       ![h].drop = {Row(c) : c \in Drop(m, sync[h].codes)},
                       ![h].add = sync[h].codes \ DOMAIN m]
      BY <1>2 DEF Fetch
    <2>2. /\ sync'[h].drop = {Row(c) : c \in Drop(m, sync[h].codes)}
          /\ sync'[h].codes = sync[h].codes
      BY <2>1
    <2>3. \A d \in sync'[h].drop : d[1] \notin sync'[h].codes
      BY <2>2, DropIsUnscheduled DEF Row
    <2> QED
      BY <2>1, <2>3
  <1>3. ASSUME NEW h \in Requests, Submit(h) PROVE DropInv'
    BY <1>3 DEF Submit, Idle
  <1>4. ASSUME NEW h \in Requests, ResolveCourses(h) PROVE DropInv'
    BY <1>4 DEF ResolveCourses
  <1>5. ASSUME NEW h \in Requests, Fail(h) \/ Commit(h) \/ Rollback(h) PROVE DropInv'
    BY <1>5 DEF Fail, Commit, Rollback, Abort, Idle
  <1>6. ASSUME NEW c \in Listed, NEW i \in Items, AddItem(c, i) \/ DeleteItem(c, i)
        PROVE  DropInv'
    BY <1>6 DEF AddItem, DeleteItem
  <1>7. ASSUME UNCHANGED vars PROVE DropInv'
    BY <1>7 DEF vars
  <1>8. DropInv'
    BY <1>2, <1>3, <1>4, <1>5, <1>6, <1>7 DEF Next
  <1> QED
    BY <1>1, <1>8

\* A commit that registers a course anew has deleted its old registration, and
\* so does not have it in its schedule.
LEMMA CommitKeeps ==
    ASSUME IInv, NEW h \in Requests, Commit(h),
           NEW c \in Registered \cap sync[h].codes
    PROVE  reg'[c] = reg[c]
  <1>1. c \in Listed
    BY DEF Registered
  <1>2. Row(c) \notin sync[h].drop
    BY DEF IInv, DropInv, Row
  <1>3. c \notin Targets(h)
    BY <1>2 DEF Commit, Conflict
  <1> QED
    BY <1>1, <1>2, <1>3 DEF Commit

\* "Keeps courses that are still in the schedule", for plain codes
THEOREM KeptCourse == PlainListed /\ Spec => KeptCourseKeepsItems
  <1>1. SUFFICES ASSUME PlainListed PROVE Spec => KeptCourseKeepsItems
    BY <1>1
  <1>2. IInv /\ [Next]_vars => IInv'
    BY <1>1, NextInv
  <1>3. IInv => \A h \in Requests : Commit(h) =>
                  \A c \in Registered \cap sync[h].codes : reg'[c] = reg[c]
    BY CommitKeeps
  <1> QED
    BY InitInv, <1>2, <1>3, PTL DEF Spec, KeptCourseKeepsItems

------------------------------------------------------------------------------
\* What a request is about to do follows from what it saw: it drops what the schedule
\* does not name, and adds what is named and was not there.
PlanInv ==
    \A h \in Requests : sync[h].step \in {"resolve", "commit"} =>
        /\ sync[h].drop = {r \in sync[h].seen : r[1] \notin sync[h].codes}
        /\ sync[h].add = sync[h].codes \ {r[1] : r \in sync[h].seen}

LEMMA RowIsOf ==
    ASSUME NEW S
    PROVE  {r[1] : r \in {Row(c) : c \in S}} = S
  <1>1. \A c \in S : Row(c)[1] = c
    BY DEF Row
  <1> QED
    BY <1>1

\* With plain codes the map of the registrations is theirs alone.
LEMMA PlainMap ==
    ASSUME PlainListed, NEW m \in CourseMaps(Registered)
    PROVE  DOMAIN m = Registered /\ \A c \in Registered : m[c] = c
  <1>1. \A c \in Registered : c \in [1..1 -> Subjects] /\ Aliases(c) = {c}
    BY PlainAliases DEF PlainListed, Registered
  <1>2. Keys(Registered) = Registered
    BY <1>1 DEF Keys
  <1>3. m \in [Registered -> Registered]
    BY <1>2 DEF CourseMaps
  <1>4. \A c \in Registered : c \in Aliases(m[c])
    BY <1>2 DEF CourseMaps
  <1> QED
    BY <1>1, <1>3, <1>4

LEMMA FetchPlans ==
    ASSUME PlainListed, TypeInv, NEW h \in Requests, Fetch(h)
    PROVE  /\ sync' = [sync EXCEPT ![h] = sync'[h]]
           /\ sync'[h].drop = {r \in sync'[h].seen : r[1] \notin sync'[h].codes}
           /\ sync'[h].add = sync'[h].codes \ {r[1] : r \in sync'[h].seen}
  <1>1. PICK m \in CourseMaps(Registered) :
          sync' = [sync EXCEPT
                     ![h].step = "resolve",
                     ![h].seen = {Row(c) : c \in Registered},
                     ![h].drop = {Row(c) : c \in Drop(m, sync[h].codes)},
                     ![h].add = sync[h].codes \ DOMAIN m]
    BY DEF Fetch
  <1> DEFINE rows == {Row(c) : c \in Registered}
             drop == {Row(c) : c \in Drop(m, sync[h].codes)}
             add == sync[h].codes \ DOMAIN m
             s == [sync[h] EXCEPT !.step = "resolve", !.seen = rows, !.drop = drop, !.add = add]
  <1>2. sync[h] \in Syncs /\ sync \in [Requests -> Syncs]
    BY DEF TypeInv, TypeOK
  <1>3. Drop(m, sync[h].codes) = Registered \ sync[h].codes
    BY PlainMap DEF Drop
  <1>4. {r[1] : r \in rows} = Registered
    BY RowIsOf
  <1>5. drop = {r \in rows : r[1] \notin sync[h].codes}
    BY <1>3 DEF Row
  <1>6. add = sync[h].codes \ {r[1] : r \in rows}
    BY <1>4, PlainMap
  <1> HIDE DEF rows, drop, add
  <1>7. s.seen = rows /\ s.drop = drop /\ s.add = add /\ s.codes = sync[h].codes
    BY <1>2 DEF Syncs
  <1>8. sync' = [sync EXCEPT ![h] = s]
    BY <1>1 DEF rows, drop, add
  <1> HIDE DEF s
  <1>9. sync'[h] = s
    BY <1>2, <1>8
  <1> QED
    BY <1>5, <1>6, <1>7, <1>8, <1>9

LEMMA NextPlan ==
    ASSUME PlainListed, TypeInv, PlanInv, [Next]_vars
    PROVE  PlanInv'
  <1> USE DEF PlanInv, TypeInv, TypeOK, Syncs
  <1>1. ASSUME NEW h \in Requests, Fetch(h) PROVE PlanInv'
    <2>1. \A g \in Requests \ {h} : sync'[g] = sync[g]
      BY <1>1, FetchPlans
    <2> QED
      BY <1>1, <2>1, FetchPlans
  <1>2. ASSUME NEW h \in Requests, Submit(h) PROVE PlanInv'
    BY <1>2 DEF Submit, Idle
  <1>3. ASSUME NEW h \in Requests, ResolveCourses(h) PROVE PlanInv'
    BY <1>3 DEF ResolveCourses, At
  <1>4. ASSUME NEW h \in Requests, Fail(h) \/ Commit(h) \/ Rollback(h) PROVE PlanInv'
    BY <1>4 DEF Fail, Commit, Rollback, Abort, Idle
  <1>5. ASSUME NEW c \in Listed, NEW i \in Items, AddItem(c, i) \/ DeleteItem(c, i)
        PROVE  PlanInv'
    BY <1>5 DEF AddItem, DeleteItem
  <1>6. ASSUME UNCHANGED vars PROVE PlanInv'
    BY <1>6 DEF vars
  <1> QED
    BY <1>1, <1>2, <1>3, <1>4, <1>5, <1>6 DEF Next

\* A plain code that is listed is found as itself.
LEMMA PlainMatch ==
    ASSUME PlainListed, NEW c \in Listed
    PROVE  Match(c) = c
  <1>1. c \in Codes /\ Len(c) = 1
    BY DEF PlainListed, Codes
  <1>2. Candidates(c) = <<c>>
    BY <1>1 DEF Candidates
  <1>3. \A t \in Searches : \A i \in Found(c, t) : i = 1
    BY <1>2 DEF Found
  <1>4. Found(c, 3) # {}
    BY <1>2 DEF Found, Listed
  <1> DEFINE t == Search(c)
             F == Found(c, t)
  <1>5. t \in Searches /\ F # {}
    BY <1>1, <1>4, SearchEnds DEF IsListed
  <1>6. F = {1} /\ Candidates(c)[1] = c
    BY <1>2, <1>3, <1>5
  <1>7. \A d : (\E i \in F : d = Candidates(c)[i] /\ \A j \in F : i <= j) <=> d = c
    BY <1>6
  <1> QED
    BY <1>7 DEF Match

LEMMA CommitMirrors ==
    ASSUME PlainListed, TypeInv, PlanInv, NEW h \in Requests, Commit(h),
           sync[h].seen = {Row(c) : c \in Registered}
    PROVE  Registered' = {Match(c) : c \in sync[h].codes}
  <1>1. {r[1] : r \in sync[h].seen} = Registered
    BY RowIsOf
  <1>2. sync[h].add = sync[h].codes \ Registered
    BY <1>1 DEF PlanInv, Commit, At
  <1>3. \A c \in Registered : Row(c) \in sync[h].drop <=> c \notin sync[h].codes
    BY DEF PlanInv, Commit, At, Row
  <1>4. Targets(h) \subseteq Listed
    BY MatchListed, CourseAssumption DEF TypeInv, TypeOK, FoundInv, Commit, Targets, Syncs
  <1>5. Targets(h) # {} => NewReg # NoReg
    BY CourseAssumption DEF TypeInv, TypeOK, Commit, NewReg, NoReg
  <1>6. \A c \in Listed : c \in Registered' <=>
          c \in Targets(h) \/ (c \in Registered /\ c \in sync[h].codes)
    <2>1. \A c \in Listed : reg'[c] = IF c \in Targets(h) THEN NewReg
                                      ELSE IF Row(c) \in sync[h].drop THEN NoReg ELSE reg[c]
      BY DEF Commit
    <2> QED
      BY <1>3, <1>5, <2>1 DEF Registered
  <1>7. \A c \in Registered : Match(c) = c /\ c \in Listed
    BY PlainMatch DEF Registered
  <1>8. Registered' \subseteq Listed
    BY DEF Registered
  <1> QED
    BY <1>2, <1>4, <1>6, <1>7, <1>8 DEF Targets

\* A sync that nobody overtook leaves the student registered for what the schedule names,
\* all of it and nothing else (_sync_courses_from_schedule_response), for plain codes.
THEOREM SyncMirrors == PlainListed /\ Spec => SyncMirrorsSchedule
  <1>1. SUFFICES ASSUME PlainListed PROVE Spec => SyncMirrorsSchedule
    BY <1>1
  <1>2. Init => TypeInv /\ PlanInv
    BY InitType DEF Init, PlanInv, Idle
  <1>3. TypeInv /\ PlanInv /\ [Next]_vars => (TypeInv /\ PlanInv)'
    BY <1>1, NextType, NextPlan
  <1>4. TypeInv /\ PlanInv => \A h \in Requests :
          Commit(h) /\ sync[h].seen = {Row(c) : c \in Registered} =>
            Registered' = {Match(c) : c \in sync[h].codes}
    BY <1>1, CommitMirrors
  <1> QED
    BY <1>2, <1>3, <1>4, PTL DEF Spec, SyncMirrorsSchedule
==============================================================================
