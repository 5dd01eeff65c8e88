----------------------------- MODULE ScheduleJob -----------------------------
(***************************************************************************)
(* The Cloud Run job (registrar/schedule_sync_job.py) that discovers the   *)
(* latest term on the registrar's pages, parses its PDFs and writes two    *)
(* objects: the catalog, then meta.json, which is all the next execution   *)
(* looks at to tell a downgrade.                                           *)
(*                                                                         *)
(* Executions may overlap (Cloud Scheduler and a manual execution) and may *)
(* stop anywhere.  Terms are numbered by termid.                           *)
(* An operator Op_Something is Op with a plausible bug in it.              *)
(***************************************************************************)
EXTENDS Integers

CONSTANTS
    Jobs,         \* executions that may run at the same time
    MaxTerm,      \* bound: terms
    MayStop,      \* executions may be cut short
    MetaMayFail   \* meta.json may be unreadable

ASSUME JobAssumption ==
    /\ MaxTerm \in Nat
    /\ MayStop \in BOOLEAN /\ MetaMayFail \in BOOLEAN

Terms == 1..MaxTerm
None == 0

VARIABLES
    page,      \* the term the registrar's pages show as the latest
    newest,    \* the newest term they ever showed
    catalog,   \* term of the catalog object, None before the first upload
    meta,      \* meta.json: [term, updated]
    job        \* job[j] = what execution j is about to do

vars == <<page, newest, catalog, meta, job>>

NoMeta == [term |-> None, updated |-> FALSE]
JobSteps == {"idle", "read_meta", "skip", "parse", "upload", "upload_meta"}
Idle == [step |-> "idle", term |-> None, seen |-> None]

TypeOK ==
    /\ page \in Terms \cup {None} /\ newest \in Terms \cup {None}
    /\ catalog \in Terms \cup {None}
    /\ meta \in [term : Terms \cup {None}, updated : BOOLEAN]
    /\ job \in [Jobs -> [step : JobSteps, term : Terms \cup {None},
                         seen : Terms \cup {None}]]

Init ==
    /\ page = None /\ newest = None
    /\ catalog = None
    /\ meta = NoMeta
    /\ job = [j \in Jobs |-> Idle]

At(j, step) == job[j].step = step
Goto(j, step) == job' = [job EXCEPT ![j].step = step]
Exit(j) == job' = [job EXCEPT ![j] = Idle]

------------------------------------------------------------------------------
\* The registrar edits its pages: a new term appears, or the newest vanishes.
EditPages(t) ==
    /\ t # page
    /\ t <= newest + 1
    /\ page' = t
    /\ newest' = IF t > newest THEN t ELSE newest
    /\ UNCHANGED <<catalog, meta, job>>

\* discover_latest_term; without candidates it raises and the job fails.
Discover(j) ==
    /\ At(j, "idle")
    /\ page # None
    /\ job' = [job EXCEPT ![j] = [step |-> "read_meta", term |-> page, seen |-> None]]
    /\ UNCHANGED <<page, newest, catalog, meta>>

IsTermDowngrade_Newer(discovered, current) == current # None /\ discovered > current
IsTermDowngrade(discovered, current) == current # None /\ discovered < current

\* download_schedule_meta: None when missing, and when reading fails
ReadMeta(j) ==
    /\ At(j, "read_meta")
    /\ \E seen \in {meta.term} \cup (IF MetaMayFail THEN {None} ELSE {}) :
         job' = [job EXCEPT
                   ![j].seen = seen,
                   ![j].step = IF IsTermDowngrade(job[j].term, seen) THEN "skip"
                               ELSE "parse"]
    /\ UNCHANGED <<page, newest, catalog, meta>>

\* upload_schedule_meta: what was read, with updated = false
Skip(j) ==
    /\ At(j, "skip")
    /\ meta' = [term |-> job[j].seen, updated |-> FALSE]
    /\ Exit(j)
    /\ UNCHANGED <<page, newest, catalog>>

\* build_schedule_documents; no documents, no upload
Parse(j) ==
    /\ At(j, "parse")
    /\ Goto(j, "upload") \/ Exit(j)
    /\ UNCHANGED <<page, newest, catalog, meta>>

Upload_MetaFirst(j) ==
    /\ At(j, "upload")
    /\ meta' = [term |-> job[j].term, updated |-> TRUE]
    /\ Goto(j, "upload_meta")
    /\ UNCHANGED <<page, newest, catalog>>

\* upload_schedule_catalog writes the catalog, then its meta.
Upload(j) ==
    /\ At(j, "upload")
    /\ catalog' = job[j].term
    /\ Goto(j, "upload_meta")
    /\ UNCHANGED <<page, newest, meta>>

UploadMeta_NoTerm(j) ==
    /\ At(j, "upload_meta")
    /\ meta' = [updated |-> TRUE]
    /\ Exit(j)
    /\ UNCHANGED <<page, newest, catalog>>

UploadMeta(j) ==
    /\ At(j, "upload_meta")
    /\ meta' = [term |-> job[j].term, updated |-> TRUE]
    /\ Exit(j)
    /\ UNCHANGED <<page, newest, catalog>>

Stop(j) ==
    /\ MayStop /\ job[j] # Idle
    /\ Exit(j)
    /\ UNCHANGED <<page, newest, catalog, meta>>

Next ==
    \/ \E t \in Terms : EditPages(t)
    \/ \E j \in Jobs :
         \/ Discover(j) \/ ReadMeta(j) \/ Skip(j) \/ Parse(j)
         \/ Upload(j) \/ UploadMeta(j) \/ Stop(j)

Spec == Init /\ [][Next]_vars

------------------------------------------------------------------------------
(* What holds of executions one at a time, wherever they are cut short    *)

\* meta.json never names a newer term than the catalog, so no term that has yet
\* to be uploaded is taken for a downgrade (upload_schedule_catalog writes the
\* catalog first).
MetaNeverAhead == meta.term <= catalog

\* While meta.json describes the catalog, a term that vanished from the
\* registrar's pages never brings an older catalog back, although the job
\* compares with meta.json and not with the catalog.
\* is_term_downgrade: "older than the catalog we already have".
DowngradeRefused == [][meta.term = catalog => catalog' >= catalog]_vars
==============================================================================
