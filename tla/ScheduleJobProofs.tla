-------------------------- MODULE ScheduleJobProofs --------------------------
(***************************************************************************)
(* Executions one at a time, each cut short anywhere, for any number of    *)
(* terms: meta.json never runs ahead of the catalog, and no older catalog  *)
(* replaces the one it describes.  meta.json is assumed to be readable: an *)
(* unreadable one counts as missing, and nothing protects the catalog.     *)
(***************************************************************************)
EXTENDS ScheduleJob, TLAPS

OneAtATime == \A i, j \in Jobs : i = j
Readable == MetaMayFail = FALSE

\* Between its reading of meta.json and its own writes an execution knows what
\* meta.json says, and one that goes on to upload has no older term; after its
\* first upload the catalog is of its term.
JobInv(j) ==
    /\ job[j].step # "idle" => job[j].term \in Terms
    /\ job[j].step \in {"skip", "parse", "upload"} => job[j].seen = meta.term
    /\ job[j].step \in {"parse", "upload"} => job[j].term >= meta.term
    /\ job[j].step = "upload_meta" => catalog = job[j].term

IInv == TypeOK /\ MetaNeverAhead /\ \A j \in Jobs : JobInv(j)

LEMMA InitInv == Init => IInv
  BY JobAssumption DEF Init, IInv, TypeOK, MetaNeverAhead, JobInv, NoMeta, Idle,
     JobSteps, Terms, None

LEMMA NextInv ==
    ASSUME OneAtATime, Readable, IInv, [Next]_vars
    PROVE  IInv'
  <1> USE JobAssumption
      DEF IInv, TypeOK, MetaNeverAhead, JobInv, Idle, JobSteps, Terms, None,
          OneAtATime, At, Goto, Exit
  <1>1. ASSUME NEW t \in Terms, EditPages(t) PROVE IInv'
    BY <1>1 DEF EditPages
  <1>2. ASSUME NEW j \in Jobs, Discover(j) PROVE IInv'
    BY <1>2 DEF Discover
  <1>3. ASSUME NEW j \in Jobs, ReadMeta(j) PROVE IInv'
    <2> DEFINE s == [job[j] EXCEPT
                       !.seen = meta.term,
                       !.step = IF IsTermDowngrade(job[j].term, meta.term)
                                THEN "skip" ELSE "parse"]
    <2>1. job' = [job EXCEPT ![j] = s] /\ UNCHANGED <<page, newest, catalog, meta>>
      BY <1>3 DEF ReadMeta, Readable
    <2>2. job[j].term \in Terms /\ meta.term \in Terms \cup {None}
      BY <1>3 DEF ReadMeta
    <2>3. /\ s.step \in {"skip", "parse"}
          /\ s.seen = meta.term /\ s.term = job[j].term
          /\ s.step = "parse" => s.term >= meta.term
      BY <2>2 DEF IsTermDowngrade
    <2>4. job[j] \in [step : JobSteps, term : Terms \cup {None},
                      seen : Terms \cup {None}]
      OBVIOUS
    <2>5. (IF IsTermDowngrade(job[j].term, meta.term) THEN "skip" ELSE "parse")
            \in JobSteps
      OBVIOUS
    <2>6. s \in [step : JobSteps, term : Terms \cup {None}, seen : Terms \cup {None}]
      BY <2>2, <2>4, <2>5
    <2> HIDE DEF s
    <2> QED
      BY <2>1, <2>2, <2>3, <2>6
  <1>4. ASSUME NEW j \in Jobs, Skip(j) PROVE IInv'
    BY <1>4 DEF Skip
  <1>5. ASSUME NEW j \in Jobs, Parse(j) PROVE IInv'
    BY <1>5 DEF Parse
  <1>6. ASSUME NEW j \in Jobs, Upload(j) PROVE IInv'
    BY <1>6 DEF Upload
  <1>7. ASSUME NEW j \in Jobs, UploadMeta(j) PROVE IInv'
    BY <1>7 DEF UploadMeta
  <1>8. ASSUME NEW j \in Jobs, Stop(j) PROVE IInv'
    BY <1>8 DEF Stop
  <1>9. CASE UNCHANGED vars
    BY <1>9 DEF vars
  <1> QED
    BY <1>1, <1>2, <1>3, <1>4, <1>5, <1>6, <1>7, <1>8, <1>9 DEF Next

LEMMA TypeStep == ASSUME TypeOK, [Next]_vars PROVE TypeOK'
  <1> USE JobAssumption DEF TypeOK, Terms, None
  <1>j. \A j \in Jobs : job[j] \in [step : JobSteps, term : Terms \cup {None},
                                    seen : Terms \cup {None}]
    OBVIOUS
  <1>i. Idle \in [step : JobSteps, term : Terms \cup {None}, seen : Terms \cup {None}]
    BY DEF Idle, JobSteps
  <1>1. ASSUME NEW t \in Terms, EditPages(t) PROVE TypeOK'
    BY <1>1 DEF EditPages
  <1>2. ASSUME NEW j \in Jobs, Discover(j) PROVE TypeOK'
    BY <1>2 DEF Discover, JobSteps
  <1>3. ASSUME NEW j \in Jobs, ReadMeta(j) PROVE TypeOK'
    <2>1. PICK seen \in Terms \cup {None}, step \in {"skip", "parse"} :
            job' = [job EXCEPT ![j].seen = seen, ![j].step = step]
      BY <1>3 DEF ReadMeta
    <2>2. step \in JobSteps
      BY DEF JobSteps
    <2>3. [job[j] EXCEPT !.seen = seen, !.step = step]
            \in [step : JobSteps, term : Terms \cup {None}, seen : Terms \cup {None}]
      BY <1>j, <2>2
    <2>4. job' = [job EXCEPT ![j] = [job[j] EXCEPT !.seen = seen, !.step = step]]
      BY <2>1
    <2>5. UNCHANGED <<page, newest, catalog, meta>>
      BY <1>3 DEF ReadMeta
    <2> QED
      BY <2>3, <2>4, <2>5
  <1>4. ASSUME NEW j \in Jobs, Skip(j) PROVE TypeOK'
    BY <1>4, <1>i, <1>j DEF Skip, Exit
  <1>5. ASSUME NEW j \in Jobs, Parse(j) PROVE TypeOK'
    BY <1>5, <1>i, <1>j DEF Parse, Exit, Goto, JobSteps
  <1>6. ASSUME NEW j \in Jobs, Upload(j) PROVE TypeOK'
    BY <1>6, <1>j DEF Upload, Goto, JobSteps
  <1>7. ASSUME NEW j \in Jobs, UploadMeta(j) PROVE TypeOK'
    BY <1>7, <1>i, <1>j DEF UploadMeta, Exit
  <1>8. ASSUME NEW j \in Jobs, Stop(j) PROVE TypeOK'
    BY <1>8, <1>i DEF Stop, Exit
  <1>9. CASE UNCHANGED vars
    BY <1>9 DEF vars
  <1> QED
    BY <1>1, <1>2, <1>3, <1>4, <1>5, <1>6, <1>7, <1>8, <1>9 DEF Next

\* Type correctness of both objects and of the executions of schedule_sync_job.py,
\* also when they overlap and whether or not meta.json can be read.
THEOREM TypeCorrect == Spec => []TypeOK
  <1>1. Init => TypeOK
    BY InitInv DEF IInv
  <1> QED
    BY <1>1, TypeStep, PTL DEF Spec

\* The inductive invariant holds of executions one at a time.
LEMMA Invariance == OneAtATime /\ Readable /\ Spec => []IInv
  <1>1. SUFFICES ASSUME OneAtATime, Readable PROVE Spec => []IInv
    BY <1>1
  <1>2. IInv /\ [Next]_vars => IInv'
    BY <1>1, NextInv
  <1> QED
    BY InitInv, <1>2, PTL DEF Spec

\* meta.json never names a newer term than the catalog, wherever executions
\* were cut short (upload_schedule_catalog writes the catalog first).
THEOREM MetaBehind == OneAtATime /\ Readable /\ Spec => []MetaNeverAhead
  <1>1. IInv => MetaNeverAhead
    BY DEF IInv
  <1> QED
    BY Invariance, <1>1, PTL

\* Only Upload changes the catalog, and its execution passed is_term_downgrade
\* with the term that meta.json still names.
LEMMA UploadIsNewer ==
    ASSUME IInv, [Next]_vars, meta.term = catalog
    PROVE  catalog' >= catalog
  <1> USE JobAssumption DEF IInv, TypeOK, Terms, None
  <1>1. ASSUME NEW j \in Jobs, Upload(j) PROVE catalog' >= catalog
    BY <1>1 DEF Upload, At, JobInv
  <1>2. ASSUME catalog' = catalog PROVE catalog' >= catalog
    BY <1>2
  <1>3. ASSUME NEW t \in Terms, EditPages(t) PROVE catalog' = catalog
    BY <1>3 DEF EditPages
  <1>4. ASSUME NEW j \in Jobs,
               \/ Discover(j) \/ ReadMeta(j) \/ Skip(j) \/ Parse(j)
               \/ UploadMeta(j) \/ Stop(j)
        PROVE  catalog' = catalog
    BY <1>4 DEF Discover, ReadMeta, Skip, Parse, UploadMeta, Stop
  <1> QED
    BY <1>1, <1>2, <1>3, <1>4 DEF Next, vars

\* While meta.json describes the catalog no older catalog replaces it.
THEOREM NoDowngrade == OneAtATime /\ Readable /\ Spec => DowngradeRefused
  <1>1. IInv /\ [Next]_vars => (meta.term = catalog => catalog' >= catalog)
    BY UploadIsNewer
  <1>2. Spec => [][Next]_vars
    BY PTL DEF Spec
  <1> QED
    BY Invariance, <1>1, <1>2, PTL DEF DowngradeRefused
==============================================================================
