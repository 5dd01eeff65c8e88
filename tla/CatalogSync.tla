----------------------------- MODULE CatalogSync -----------------------------
(***************************************************************************)
(* From the schedule catalog in Cloud Storage to the search index: the     *)
(* Pub/Sub hook (google_bucket/api.py), the Redis claim                    *)
(* (registrar/service.py), the rebuild of the Meilisearch index            *)
(* (schedule_sync.py) and the task of bootstrap/meilisearch.py that wipes  *)
(* and fills the indexes when the process starts.                          *)
(*                                                                         *)
(* One process serves all requests; its handlers and that task interleave  *)
(* at every await of a Redis or Meilisearch call.  Redis, Meilisearch, the *)
(* bucket and Pub/Sub outlive it.  Meilisearch runs its tasks in the order *)
(* they were queued, so a call takes its effect when it is made.           *)
(*                                                                         *)
(* Abstracted: what a document says, but for the generation that wrote it. *)
(* An operator Op_Something is Op with a plausible bug in it.              *)
(***************************************************************************)
EXTENDS Integers

CONSTANTS
    Courses,        \* ids of documents
    Subscriptions,  \* Pub/Sub subscriptions that push to the hook
    Handlers,       \* concurrent requests to the hook
    MaxGen,         \* bound: uploads of the catalog
    Faults,         \* which faults may happen
    MaxFaults       \* bound: how many of them

FaultKinds ==
    {"meili",      \* a Meilisearch call of a request fails
     "boot",       \* a Meilisearch call of the startup task fails
     "redis",      \* a Redis call fails
     "download",   \* reading the bucket fails
     "crash",      \* the process stops
     "overlap",    \* a message is pushed again while an attempt is running
     "duplicate",  \* a message is pushed again after it was acknowledged
     "slow"}       \* a run outlives the lock it took

ASSUME CatalogAssumption ==
    /\ MaxGen \in Nat
    /\ MaxFaults \in Nat
    /\ Faults \subseteq FaultKinds

Gens == 1..MaxGen
None == 0
Messages == Subscriptions \X Gens

VARIABLES
    catalog,    \* generation of the catalog object, None before the first
    listing,    \* listing[g] = the courses in generation g
    unacked,    \* messages Pub/Sub still has to deliver
    processed,  \* Redis: generations with a processed key
    locked,     \* Redis: generations with a lock key
    index,      \* index[c] = the generation of c's document, or None
    boot,       \* the startup task of the process
    run,        \* run[h] = what request h is about to do
    faults      \* how many faults happened

vars == <<catalog, listing, unacked, processed, locked, index, boot, run, faults>>
cloud == <<catalog, listing>>
redis == <<processed, locked>>

Steps == {"idle", "exists", "claim", "recheck", "unclaim", "clear", "fill",
          "mark", "release"}
Idle == [step |-> "idle", msg |-> <<>>, gen |-> None]
Runs == {Idle} \cup [step : Steps \ {"idle"}, msg : Messages, gen : Gens \cup {None}]
BootSteps == {"wipe", "load", "clear", "fill", "done"}

TypeOK ==
    /\ catalog \in Gens \cup {None}
    /\ listing \in [Gens -> SUBSET Courses]
    /\ unacked \subseteq Messages
    /\ processed \subseteq Gens /\ locked \subseteq Gens
    /\ index \in [Courses -> Gens \cup {None}]
    /\ boot \in [step : BootSteps, gen : Gens \cup {None}]
    /\ run \in [Handlers -> Runs]
    /\ faults \in 0..MaxFaults

Init ==
    /\ catalog = None
    /\ listing = [g \in Gens |-> {}]
    /\ unacked = {}
    /\ processed = {} /\ locked = {}
    /\ index = [c \in Courses |-> None]
    /\ boot = [step |-> "wipe", gen |-> None]
    /\ run = [h \in Handlers |-> Idle]
    /\ faults = 0

------------------------------------------------------------------------------
Fault(kind) ==
    /\ kind \in Faults /\ faults < MaxFaults
    /\ faults' = faults + 1

At(h, step) == run[h].step = step
Gen(h) == run[h].msg[2]                  \* _catalog_sync_token
Goto(h, step) == run' = [run EXCEPT ![h].step = step]
Finish(h) == run' = [run EXCEPT ![h] = Idle]
Answer200(h) == Finish(h) /\ unacked' = unacked \ {run[h].msg}
Answer500(h) == Finish(h) /\ UNCHANGED unacked

Filled_OnlyListed(g) == [c \in listing[g] |-> g]

\* Documents are upserted by id; what was there stays.
Emptied == [c \in Courses |-> None]
Filled(g) == [c \in Courses |-> IF c \in listing[g] THEN g ELSE index[c]]

------------------------------------------------------------------------------
(* Outside the process                                                     *)

\* The sync job writes the object, never an empty list; GCS notifies each
\* subscription.
Upload ==
    /\ catalog < MaxGen
    /\ catalog' = catalog + 1
    /\ \E courses \in SUBSET Courses \ {{}} :
         listing' = [listing EXCEPT ![catalog + 1] = courses]
    /\ unacked' = unacked \cup (Subscriptions \X {catalog + 1})
    /\ UNCHANGED <<redis, index, boot, run, faults>>

\* A push, a retry after 500 or after the acknowledgement deadline, a duplicate
Deliver(h, m) ==
    /\ run[h] = Idle
    /\ \/ /\ m \in unacked /\ \A g \in Handlers : run[g].msg # m
          /\ UNCHANGED faults
       \/ m \in unacked /\ Fault("overlap")
       \/ m \notin unacked /\ m[2] <= catalog /\ Fault("duplicate")
    /\ run' = [run EXCEPT ![h] = [step |-> "exists", msg |-> m, gen |-> None]]
    /\ UNCHANGED <<cloud, unacked, redis, index, boot>>

Holding == {"recheck", "unclaim", "clear", "fill", "mark", "release"}

\* 120 seconds after SET; only a slow run is still at work then.
LockExpires(g) ==
    /\ g \in locked
    /\ \/ /\ \A h \in Handlers : run[h].step \in Holding => Gen(h) # g
          /\ UNCHANGED faults
       \/ Fault("slow")
    /\ locked' = locked \ {g}
    /\ UNCHANGED <<cloud, unacked, processed, index, boot, run>>

\* A day after SET
ProcessedExpires(g) ==
    /\ g \in processed
    /\ \A h \in Handlers : run[h] # Idle => Gen(h) # g
    /\ processed' = processed \ {g}
    /\ UNCHANGED <<cloud, unacked, locked, index, boot, run, faults>>

------------------------------------------------------------------------------
(* _try_acquire_catalog_sync                                               *)

Exists(h) ==
    /\ At(h, "exists")
    /\ IF Gen(h) \in processed
       THEN Answer200(h)
       ELSE Goto(h, "claim") /\ UNCHANGED unacked
    /\ UNCHANGED <<cloud, redis, index, boot, faults>>

Claim_NotExclusive(h) ==
    /\ At(h, "claim")
    /\ locked' = locked \cup {Gen(h)}
    /\ Goto(h, "recheck")
    /\ UNCHANGED <<cloud, unacked, processed, index, boot, faults>>

\* SET NX: a run in flight is taken for one that will succeed.
Claim(h) ==
    /\ At(h, "claim")
    /\ IF Gen(h) \in locked
       THEN Answer200(h)
       ELSE Goto(h, "recheck") /\ UNCHANGED unacked
    /\ locked' = locked \cup {Gen(h)}
    /\ UNCHANGED <<cloud, processed, index, boot, faults>>

\* download_schedule_catalog returns None for a missing object and on an error.
NoDocuments ==
    \/ catalog = None /\ UNCHANGED faults
    \/ Fault("download")

\* The download does not yield, so it belongs to the step before it.
Load(h) ==
    \/ /\ catalog # None
       /\ run' = [run EXCEPT ![h].step = "clear", ![h].gen = catalog]
       /\ UNCHANGED faults
    \/ NoDocuments /\ Goto(h, "mark")

Recheck_Skipped(h) ==
    /\ At(h, "recheck")
    /\ Load(h)
    /\ UNCHANGED <<cloud, unacked, redis, index, boot>>

Recheck(h) ==
    /\ At(h, "recheck")
    /\ IF Gen(h) \in processed
       THEN Goto(h, "unclaim") /\ UNCHANGED faults
       ELSE Load(h)
    /\ UNCHANGED <<cloud, unacked, redis, index, boot>>

Unclaim(h) ==
    /\ At(h, "unclaim")
    /\ locked' = locked \ {Gen(h)}
    /\ Answer200(h)
    /\ UNCHANGED <<cloud, processed, index, boot, faults>>

------------------------------------------------------------------------------
(* _recreate_schedule_index, then the keys                                 *)

Clear(h) ==
    /\ At(h, "clear")
    /\ \/ index' = Emptied /\ Goto(h, "fill") /\ UNCHANGED faults
       \/ Fault("meili") /\ Goto(h, "release") /\ UNCHANGED index
    /\ UNCHANGED <<cloud, unacked, redis, boot>>

\* create, documents, settings; a failure may come before or after documents
Fill(h) ==
    /\ At(h, "fill")
    /\ \/ index' = Filled(run[h].gen) /\ Goto(h, "mark") /\ UNCHANGED faults
       \/ /\ Fault("meili") /\ Goto(h, "release")
          /\ index' \in {index, Filled(run[h].gen)}
    /\ UNCHANGED <<cloud, unacked, redis, boot>>

\* One MULTI, whatever the sync counted and whoever holds the lock
Mark(h) ==
    /\ At(h, "mark")
    /\ processed' = processed \cup {Gen(h)}
    /\ locked' = locked \ {Gen(h)}
    /\ Answer200(h)
    /\ UNCHANGED <<cloud, index, boot, faults>>

Release_Acked(h) ==
    /\ At(h, "release")
    /\ locked' = locked \ {Gen(h)}
    /\ Answer200(h)
    /\ UNCHANGED <<cloud, processed, index, boot, faults>>

Release(h) ==
    /\ At(h, "release")
    /\ locked' = locked \ {Gen(h)}
    /\ Answer500(h)
    /\ UNCHANGED <<cloud, processed, index, boot, faults>>

\* Outside the try, or in its except clause: 500, and the lock stays.  In
\* _mark_catalog_sync_done: release is tried next.
RedisFails(h) ==
    /\ Fault("redis")
    /\ \/ run[h].step \in {"exists", "claim", "recheck", "unclaim", "release"}
          /\ Answer500(h)
       \/ At(h, "mark") /\ Goto(h, "release") /\ UNCHANGED unacked
    /\ UNCHANGED <<cloud, redis, index, boot>>

------------------------------------------------------------------------------
(* _init_meili_indices and setup_schedule_catalog, while requests are      *)
(* served: no claim, and every error is only printed.                      *)

BootTo(step, gen) == boot' = [step |-> step, gen |-> gen]

\* _sync_index_configs deletes every index it finds, the catalog's too.
BootWipe ==
    /\ boot.step = "wipe"
    /\ index' \in {index, Emptied}
    /\ BootTo("load", None)
    /\ UNCHANGED <<cloud, unacked, redis, run, faults>>

BootLoad ==
    /\ boot.step = "load"
    /\ \/ catalog # None /\ BootTo("clear", catalog) /\ UNCHANGED faults
       \/ NoDocuments /\ BootTo("done", None)
    /\ UNCHANGED <<cloud, unacked, redis, index, run>>

BootClear ==
    /\ boot.step = "clear"
    /\ \/ index' = Emptied /\ BootTo("fill", boot.gen) /\ UNCHANGED faults
       \/ Fault("boot") /\ BootTo("done", None) /\ UNCHANGED index
    /\ UNCHANGED <<cloud, unacked, redis, run>>

BootFill ==
    /\ boot.step = "fill"
    /\ \/ index' = Filled(boot.gen) /\ UNCHANGED faults
       \/ Fault("boot") /\ index' \in {index, Filled(boot.gen)}
    /\ BootTo("done", None)
    /\ UNCHANGED <<cloud, unacked, redis, run>>

Boot == BootWipe \/ BootLoad \/ BootClear \/ BootFill

Crash ==
    /\ Fault("crash")
    /\ run' = [h \in Handlers |-> Idle]
    /\ BootTo("wipe", None)
    /\ UNCHANGED <<cloud, unacked, redis, index>>

------------------------------------------------------------------------------
Handle(h) ==
    \/ Exists(h) \/ Claim(h) \/ Recheck(h) \/ Unclaim(h)
    \/ Clear(h) \/ Fill(h) \/ Mark(h) \/ Release(h)

Next ==
    \/ Upload \/ Boot \/ Crash
    \/ \E h \in Handlers :
         Handle(h) \/ RedisFails(h) \/ \E m \in Messages : Deliver(h, m)
    \/ \E g \in Gens : LockExpires(g) \/ ProcessedExpires(g)

Spec == Init /\ [][Next]_vars

\* The event loop resumes requests, Pub/Sub retries what is not acknowledged.
FairSpec ==
    /\ Spec
    /\ WF_vars(Boot)
    /\ \A h \in Handlers : WF_vars(Handle(h))
    /\ \A m \in Messages : WF_vars(\E h \in Handlers : m \in unacked /\ Deliver(h, m))

------------------------------------------------------------------------------
(* What the claim guarantees                                               *)

Reindexing(h) == run[h].step \in {"clear", "fill", "mark"}

\* While no run outlives its lock, one request at a time rebuilds the index for
\* one generation, however often and on however many subscriptions the event is
\* pushed, and whatever crashes left in Redis.
OneReindexPerGeneration ==
    \A g, h \in Handlers :
        g # h /\ Reindexing(g) /\ Reindexing(h) => Gen(g) # Gen(h)

\* The second look at the processed key, under the lock, suffices: no request
\* rebuilds the index for a generation another one has already finished.
FinishedIsNotRedone ==
    \A h \in Handlers : Reindexing(h) => Gen(h) \notin processed

Current(c) == IF catalog # None /\ c \in listing[catalog] THEN catalog ELSE None
UpToDate == \A c \in Courses : index[c] = Current(c)

\* With one upload at a time, any single fault among a failed rebuild, a crash,
\* a repeated push and an expired lock is repaired: retries and the startup task
\* bring the index to the catalog.
IndexCatchesUp == <>[]UpToDate
==============================================================================
