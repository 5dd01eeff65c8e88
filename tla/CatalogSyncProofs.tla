-------------------------- MODULE CatalogSyncProofs --------------------------
(***************************************************************************)
(* The claim in Redis works for any number of requests, subscriptions and  *)
(* uploads, whatever fails, as long as no run outlives the lock it took    *)
(* (Timely): one request at a time rebuilds the index for a generation,    *)
(* and none rebuilds it for a generation that is finished.                 *)
(***************************************************************************)
EXTENDS CatalogSync, TLAPS

Timely == "slow" \notin Faults

\* A request between its SET NX and its last Redis call has the lock to itself.
HoldersAlone ==
    \A g, h \in Handlers :
        g # h /\ run[g].step \in Holding /\ run[h].step \in Holding => Gen(g) # Gen(h)

HoldersLocked == \A h \in Handlers : run[h].step \in Holding => Gen(h) \in locked

IInv == TypeOK /\ HoldersAlone /\ HoldersLocked /\ FinishedIsNotRedone

------------------------------------------------------------------------------
Working == [step : Steps \ {"idle"}, msg : Messages, gen : Gens \cup {None}]

\* What a request at work looks like, and what its next step may be.
LEMMA Whole ==
    ASSUME TypeOK, NEW h \in Handlers, run[h].step # "idle"
    PROVE  run[h] \in Working /\ Gen(h) \in Gens /\ run[h].msg \in Messages
  <1>1. run[h] \in Working
    BY DEF TypeOK, Runs, Idle, Working
  <1> QED
    BY <1>1 DEF Working, Gen, Messages

LEMMA InitInv == Init => IInv
  BY CatalogAssumption DEF Init, IInv, TypeOK, HoldersAlone, HoldersLocked, FinishedIsNotRedone,
     Reindexing, Holding, Idle, Runs, BootSteps, Gens, None

\* A request that ends holds nothing, and the others are as they were.
LEMMA Finished ==
    ASSUME TypeOK, NEW h \in Handlers, Finish(h)
    PROVE  /\ run' \in [Handlers -> Runs]
           /\ run'[h].step = "idle"
           /\ \A g \in Handlers \ {h} : run'[g] = run[g]
  BY DEF TypeOK, Finish, Runs, Idle

\* A request that goes on keeps its message.
LEMMA GoneOn ==
    ASSUME TypeOK, NEW h \in Handlers, run[h].step # "idle", NEW s \in Steps \ {"idle"},
           NEW n \in Gens \cup {None},
           run' = [run EXCEPT ![h].step = s] \/ run' = [run EXCEPT ![h].step = s, ![h].gen = n]
    PROVE  /\ run' \in [Handlers -> Runs]
           /\ run'[h].step = s /\ run'[h].msg = run[h].msg
           /\ \A g \in Handlers \ {h} : run'[g] = run[g]
  <1>1. run[h] \in Working
    BY Whole
  <1>2. [run[h] EXCEPT !.step = s] \in Working /\ [run[h] EXCEPT !.step = s, !.gen = n] \in Working
    BY <1>1 DEF Working
  <1>3. Working \subseteq Runs
    BY DEF Working, Runs
  <1>4. run' = [run EXCEPT ![h] = run'[h]]
        /\ run'[h] \in {[run[h] EXCEPT !.step = s], [run[h] EXCEPT !.step = s, !.gen = n]}
    BY DEF TypeOK
  <1>5. run'[h] \in Runs
    BY <1>2, <1>3, <1>4
  <1>6. run'[h].step = s /\ run'[h].msg = run[h].msg
    BY <1>1, <1>4 DEF Working
  <1> QED
    BY <1>4, <1>5, <1>6 DEF TypeOK

\* A step of one request keeps the claim, if the request enters the lock only
\* when the lock is free, and takes away nothing but its own lock.
LEMMA ClaimKept ==
    ASSUME IInv, NEW h \in Handlers,
           run'[h].step \in Holding =>
               /\ run'[h].msg = run[h].msg
               /\ run[h].step \in Holding \/ Gen(h) \notin locked
               /\ Gen(h) \in locked',
           run'[h].step \in {"clear", "fill", "mark"} => Gen(h) \notin processed',
           \A g \in Handlers \ {h} : run'[g] = run[g],
           \A n \in Gens : n \in locked /\ n \notin locked' =>
               n = Gen(h) /\ run[h].step \in Holding /\ run'[h].step \notin Holding,
           \A n \in Gens : n \in processed' /\ n \notin processed =>
               n = Gen(h) /\ run[h].step \in Holding
    PROVE  HoldersAlone' /\ HoldersLocked' /\ FinishedIsNotRedone'
  <1>1. \A g \in Handlers : run[g].step \in Holding => Gen(g) \in Gens
    BY Whole DEF IInv, Holding
  <1>2. \A g \in Handlers \ {h} : Gen(g)' = Gen(g)
    BY DEF Gen
  <1>3. run'[h].step \in Holding => Gen(h)' = Gen(h)
    BY DEF Gen
  <1>4. {"clear", "fill", "mark"} \subseteq Holding
    BY DEF Holding
  <1>5. \A g \in Handlers \ {h} :
            run[g].step \in Holding /\ run[h].step \in Holding => Gen(g) # Gen(h)
    BY DEF IInv, HoldersAlone
  <1>6. \A g \in Handlers \ {h} :
            run[g].step \in Holding /\ run'[h].step \in Holding => Gen(g) # Gen(h)
    BY <1>5 DEF IInv, HoldersLocked
  <1>7. HoldersAlone'
    BY <1>2, <1>3, <1>6 DEF IInv, HoldersAlone, Holding
  <1>8. HoldersLocked'
    BY <1>1, <1>2, <1>3, <1>5 DEF IInv, HoldersLocked, Holding
  <1>9. FinishedIsNotRedone'
    BY <1>1, <1>2, <1>3, <1>4, <1>5 DEF IInv, FinishedIsNotRedone, Reindexing, Holding
  <1> QED
    BY <1>7, <1>8, <1>9

\* A step that leaves the requests and the processed keys alone keeps it too,
\* if it takes no lock from a request at work.
LEMMA ClaimUndisturbed ==
    ASSUME IInv, run' = run, processed' \subseteq processed,
           \A h \in Handlers : run[h].step \in Holding => Gen(h) \in locked'
    PROVE  HoldersAlone' /\ HoldersLocked' /\ FinishedIsNotRedone'
  <1>1. \A h \in Handlers : Gen(h)' = Gen(h)
    BY DEF Gen
  <1> QED
    BY <1>1 DEF IInv, HoldersAlone, HoldersLocked, FinishedIsNotRedone, Reindexing

LEMMA FaultTyped == ASSUME TypeOK, NEW kind, Fault(kind) PROVE faults' \in 0..MaxFaults
  BY CatalogAssumption DEF TypeOK, Fault

\* What the index becomes is always of the generations there are.
LEMMA IndexTyped ==
    ASSUME TypeOK, NEW g \in Gens
    PROVE  /\ Emptied \in [Courses -> Gens \cup {None}]
           /\ Filled(g) \in [Courses -> Gens \cup {None}]
  BY DEF TypeOK, Emptied, Filled

------------------------------------------------------------------------------
(* One step of a request                                                   *)

LEMMA RequestStep ==
    ASSUME IInv, NEW h \in Handlers, Handle(h) \/ RedisFails(h)
    PROVE  IInv'
  <1> USE CatalogAssumption DEF IInv
  <1>t. TypeOK
    OBVIOUS
  <1>w. run[h].step # "idle" => run[h] \in Working /\ Gen(h) \in Gens /\ run[h].msg \in Messages
    BY Whole
  <1>s. {"claim", "recheck", "unclaim", "clear", "fill", "mark", "release"} \subseteq Steps \ {"idle"}
    BY DEF Steps
  <1>i. "idle" \notin Holding /\ "idle" \notin {"clear", "fill", "mark"}
    BY DEF Holding
  <1>n. None \in Gens \cup {None}
    OBVIOUS
  <1>1. CASE Exists(h)
    <2>1. /\ run[h].step = "exists" /\ unacked' \in SUBSET Messages
          /\ Finish(h) \/ Goto(h, "claim")
          /\ UNCHANGED <<catalog, listing, processed, locked, index, boot, faults>>
      BY <1>1 DEF Exists, At, Answer200, cloud, redis, TypeOK
    <2>2. /\ run' \in [Handlers -> Runs] /\ run'[h].step \in {"idle", "claim"}
          /\ \A g \in Handlers \ {h} : run'[g] = run[g]
      BY <2>1, <1>s, <1>n, Finished, GoneOn, ZenonT(40) DEF Goto
    <2>3. TypeOK'
      BY <2>1, <2>2 DEF TypeOK
    <2> QED
      BY <2>1, <2>2, <2>3, ClaimKept DEF Holding
  <1>2. CASE Claim(h)
    <2>1. /\ run[h].step = "claim" /\ unacked' \in SUBSET Messages
          /\ IF Gen(h) \in locked THEN Finish(h) ELSE Goto(h, "recheck")
          /\ locked' = locked \cup {Gen(h)} /\ locked' \subseteq Gens
          /\ UNCHANGED <<catalog, listing, processed, index, boot, faults>>
      BY <1>2, <1>w DEF Claim, At, Answer200, cloud, TypeOK
    <2>2. /\ run' \in [Handlers -> Runs] /\ \A g \in Handlers \ {h} : run'[g] = run[g]
          /\ run'[h].step \in {"idle", "recheck"}
          /\ run'[h].step = "recheck" => run'[h].msg = run[h].msg /\ Gen(h) \notin locked
      BY <2>1, <1>s, <1>n, Finished, GoneOn DEF Goto
    <2>3. TypeOK'
      BY <2>1, <2>2 DEF TypeOK
    <2> QED
      BY <2>1, <2>2, <2>3, <1>i, ClaimKept
  <1>3. CASE Recheck(h)
    <2>1. /\ run[h].step = "recheck"
          /\ UNCHANGED <<catalog, listing, unacked, processed, locked, index, boot>>
          /\ \/ Goto(h, "unclaim") /\ UNCHANGED faults
             \/ Gen(h) \notin processed /\ Load(h)
      BY <1>3 DEF Recheck, At, cloud, redis
    <2>2. faults' \in 0..MaxFaults
      BY <2>1, FaultTyped DEF Load, NoDocuments, TypeOK
    <2>3. catalog \in Gens \cup {None}
      BY DEF TypeOK
    <2>4. PICK s \in {"unclaim", "mark", "clear"} :
            /\ \/ run' = [run EXCEPT ![h].step = s]
               \/ run' = [run EXCEPT ![h].step = s, ![h].gen = catalog]
            /\ s # "unclaim" => Gen(h) \notin processed
      BY <2>1 DEF Load, Goto
    <2>5. /\ run' \in [Handlers -> Runs] /\ \A g \in Handlers \ {h} : run'[g] = run[g]
          /\ run'[h].step = s /\ run'[h].msg = run[h].msg
      BY <2>1, <2>3, <2>4, <1>s, GoneOn
    <2>6. TypeOK'
      BY <2>1, <2>2, <2>5 DEF TypeOK
    <2>7. Gen(h) \in locked /\ run[h].step \in Holding
      BY <2>1 DEF HoldersLocked, Holding
    <2> QED
      BY <2>1, <2>4, <2>5, <2>6, <2>7, ClaimKept
  <1>4. CASE Unclaim(h) \/ Mark(h) \/ Release(h)
    <2>1. /\ run[h].step \in {"unclaim", "mark", "release"}
          /\ unacked' \in SUBSET Messages
          /\ Finish(h)
          /\ locked' = locked \ {Gen(h)}
          /\ processed' \in {processed, processed \cup {Gen(h)}}
          /\ UNCHANGED <<catalog, listing, index, boot, faults>>
      BY <1>4 DEF Unclaim, Mark, Release, At, Answer200, Answer500, cloud, TypeOK
    <2>2. /\ run' \in [Handlers -> Runs] /\ run'[h].step = "idle"
          /\ \A g \in Handlers \ {h} : run'[g] = run[g]
      BY <2>1, Finished
    <2>3. TypeOK'
      BY <2>1, <2>2, <1>w DEF TypeOK
    <2>4. run[h].step \in Holding
      BY <2>1 DEF Holding
    <2> QED
      BY <2>1, <2>2, <2>3, <2>4, <1>i, ClaimKept
  <1>5. CASE Clear(h) \/ Fill(h)
    <2>1. /\ run[h].step \in {"clear", "fill"}
          /\ UNCHANGED <<catalog, listing, unacked, processed, locked, boot>>
          /\ UNCHANGED faults \/ Fault("meili")
          /\ index' \in {index, Emptied, Filled(run[h].gen)}
      BY <1>5 DEF Clear, Fill, At, cloud, redis
    <2>2. PICK s \in {"fill", "mark", "release"} : Goto(h, s)
      BY <1>5 DEF Clear, Fill
    <2>3. /\ run' \in [Handlers -> Runs] /\ \A g \in Handlers \ {h} : run'[g] = run[g]
          /\ run'[h].step = s /\ run'[h].msg = run[h].msg
      BY <2>1, <2>2, <1>s, <1>n, GoneOn, ZenonT(40) DEF Goto
    <2>4. run[h].gen \in Gens \cup {None}
      BY <2>1, <1>w DEF Working
    <2>5. index' \in [Courses -> Gens \cup {None}]
      BY <2>1, <2>4, <1>t DEF TypeOK, Emptied, Filled
    <2>6. faults' \in 0..MaxFaults
      BY <2>1, FaultTyped DEF TypeOK
    <2>7. TypeOK'
      BY <2>1, <2>3, <2>5, <2>6 DEF TypeOK
    <2>8. Gen(h) \in locked /\ run[h].step \in Holding /\ Gen(h) \notin processed
      BY <2>1 DEF HoldersLocked, Holding, FinishedIsNotRedone, Reindexing
    <2> QED
      BY <2>1, <2>3, <2>7, <2>8, ClaimKept
  <1>6. CASE RedisFails(h)
    <2>1. /\ Fault("redis")
          /\ \/ Finish(h)
             \/ run[h].step = "mark" /\ Goto(h, "release")
          /\ UNCHANGED <<catalog, listing, unacked, processed, locked, index, boot>>
      BY <1>6 DEF RedisFails, At, Answer500, cloud, redis
    <2>2. /\ run' \in [Handlers -> Runs] /\ \A g \in Handlers \ {h} : run'[g] = run[g]
          /\ \/ run'[h].step = "idle"
             \/ run'[h].step = "release" /\ run[h].step = "mark" /\ run'[h].msg = run[h].msg
      BY <2>1, <1>s, <1>n, Finished, GoneOn DEF Goto
    <2>3. TypeOK'
      BY <2>1, <2>2, FaultTyped DEF TypeOK
    <2>4. run[h].step = "mark" => Gen(h) \in locked /\ run[h].step \in Holding
      BY DEF HoldersLocked, Holding
    <2> QED
      BY <2>1, <2>2, <2>3, <2>4, <1>i, ClaimKept
  <1> QED
    BY <1>1, <1>2, <1>3, <1>4, <1>5, <1>6 DEF Handle

\* A push brings a request to the hook, which holds nothing yet.
LEMMA DeliverStep ==
    ASSUME IInv, NEW h \in Handlers, NEW m \in Messages, Deliver(h, m)
    PROVE  IInv'
  <1> USE CatalogAssumption DEF IInv
  <1> DEFINE new == [step |-> "exists", msg |-> m, gen |-> None]
  <1>1. /\ run' = [run EXCEPT ![h] = new]
        /\ UNCHANGED <<catalog, listing, unacked, processed, locked, index, boot>>
        /\ UNCHANGED faults \/ Fault("overlap") \/ Fault("duplicate")
    BY DEF Deliver, cloud, redis
  <1>2. new \in Runs /\ new.step = "exists"
    BY DEF Runs, Steps
  <1>3. /\ run' \in [Handlers -> Runs] /\ run'[h].step = "exists"
        /\ \A g \in Handlers \ {h} : run'[g] = run[g]
    <2> HIDE DEF new
    <2> QED
      BY <1>1, <1>2 DEF TypeOK
  <1>4. TypeOK'
    BY <1>1, <1>3, FaultTyped DEF TypeOK
  <1> QED
    BY <1>1, <1>3, <1>4, ClaimKept DEF Holding

\* What happens outside the requests takes no lock from one at work.
LEMMA SurroundingStep ==
    ASSUME Timely, IInv,
           \/ Upload \/ Boot
           \/ \E g \in Gens : LockExpires(g) \/ ProcessedExpires(g)
    PROVE  IInv'
  <1> USE CatalogAssumption DEF IInv
  <1>0. \A h \in Handlers : run[h].step \in Holding => Gen(h) \in locked
    BY DEF HoldersLocked
  <1>1. CASE Upload
    <2>1. TypeOK'
      BY <1>1 DEF Upload, TypeOK, redis, Messages, Gens, None
    <2> QED
      BY <1>0, <1>1, <2>1, ClaimUndisturbed DEF Upload, redis
  <1>2. CASE Boot
    <2>1. /\ UNCHANGED <<catalog, listing, unacked, processed, locked, run>>
          /\ UNCHANGED faults \/ \E kind \in FaultKinds : Fault(kind)
      BY <1>2 DEF Boot, BootWipe, BootLoad, BootClear, BootFill, cloud, redis, NoDocuments, FaultKinds
    <2>2. index' \in {index, Emptied, Filled(boot.gen)}
      BY <1>2 DEF Boot, BootWipe, BootLoad, BootClear, BootFill
    <2>3. \E s \in BootSteps, n \in {None, catalog, boot.gen} : BootTo(s, n)
      BY <1>2 DEF Boot, BootWipe, BootLoad, BootClear, BootFill, BootSteps
    <2>4. boot' \in [step : BootSteps, gen : Gens \cup {None}]
      BY <2>3 DEF BootTo, TypeOK
    <2>5. index' \in [Courses -> Gens \cup {None}]
      BY <2>2 DEF TypeOK, Emptied, Filled
    <2>6. TypeOK'
      BY <2>1, <2>4, <2>5, FaultTyped DEF TypeOK
    <2> QED
      BY <1>0, <2>1, <2>6, ClaimUndisturbed
  <1>3. ASSUME NEW g \in Gens, LockExpires(g) PROVE IInv'
    <2>1. /\ locked' = locked \ {g}
          /\ \A h \in Handlers : run[h].step \in Holding => Gen(h) # g
          /\ UNCHANGED <<catalog, listing, unacked, processed, index, boot, run, faults>>
      BY <1>3 DEF LockExpires, Timely, Fault, cloud
    <2>2. TypeOK'
      BY <2>1 DEF TypeOK
    <2> QED
      BY <1>0, <2>1, <2>2, ClaimUndisturbed
  <1>4. ASSUME NEW g \in Gens, ProcessedExpires(g) PROVE IInv'
    <2>1. /\ processed' = processed \ {g}
          /\ UNCHANGED <<catalog, listing, unacked, locked, index, boot, run, faults>>
      BY <1>4 DEF ProcessedExpires, cloud
    <2>2. TypeOK'
      BY <2>1 DEF TypeOK
    <2> QED
      BY <1>0, <2>1, <2>2, ClaimUndisturbed
  <1> QED
    BY <1>1, <1>2, <1>3, <1>4

\* A stop of the process ends all requests; their locks stay behind.
LEMMA CrashStep == ASSUME IInv, Crash PROVE IInv'
  <1> USE CatalogAssumption DEF IInv
  <1>1. /\ run' = [h \in Handlers |-> Idle] /\ boot' = [step |-> "wipe", gen |-> None]
        /\ UNCHANGED <<catalog, listing, unacked, processed, locked, index>>
        /\ Fault("crash")
    BY DEF Crash, BootTo, cloud, redis
  <1>2. TypeOK'
    BY <1>1, FaultTyped DEF TypeOK, Runs, BootSteps
  <1>3. \A h \in Handlers : run'[h].step = "idle"
    BY <1>1 DEF Idle
  <1> QED
    BY <1>2, <1>3 DEF HoldersAlone, HoldersLocked, FinishedIsNotRedone, Reindexing, Holding

LEMMA Inductive == ASSUME Timely, IInv, [Next]_vars PROVE IInv'
  <1>1. CASE UNCHANGED vars
    BY <1>1 DEF vars, IInv, TypeOK, HoldersAlone, HoldersLocked, FinishedIsNotRedone, Reindexing, Gen
  <1> QED
    BY <1>1, RequestStep, DeliverStep, SurroundingStep, CrashStep DEF Next

------------------------------------------------------------------------------
LEMMA Invariance == Timely /\ Spec => []IInv
  <1>1. SUFFICES ASSUME Timely PROVE Spec => []IInv
    BY <1>1
  <1>2. IInv /\ [Next]_vars => IInv'
    BY <1>1, Inductive
  <1> QED
    BY InitInv, <1>2, PTL DEF Spec

\* Type correctness of the bucket, the keys, the index and the requests of
\* google_bucket/api.py.
THEOREM TypeCorrect == Timely /\ Spec => []TypeOK
  <1>1. IInv => TypeOK
    BY DEF IInv
  <1> QED
    BY Invariance, <1>1, PTL

\* One request at a time rebuilds the index for a generation: the lock that
\* _try_acquire_catalog_sync sets with NX is enough, whatever crashes left behind.
THEOREM OneRebuild == Timely /\ Spec => []OneReindexPerGeneration
  <1>1. IInv => OneReindexPerGeneration
    BY DEF IInv, HoldersAlone, OneReindexPerGeneration, Reindexing, Holding
  <1> QED
    BY Invariance, <1>1, PTL

\* No request rebuilds the index for a finished generation: the second look at
\* the processed key of _try_acquire_catalog_sync suffices.
THEOREM NotRedone == Timely /\ Spec => []FinishedIsNotRedone
  <1>1. IInv => FinishedIsNotRedone
    BY DEF IInv
  <1> QED
    BY Invariance, <1>1, PTL
==============================================================================
