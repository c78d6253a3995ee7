------------------------- MODULE CollectionRunProofs -------------------------
(* The safety of the collection runs for every set of symbols, runs and     *)
(* workers and every number of mishaps.                                     *)
EXTENDS CollectionRun, FiniteSetTheorems, TLAPS

Statuses == {"none", "running", "completed", "failed"}
Dates == {"none", "earlier", "today"}

LEMMA NextBatchIsBatch ==
    ASSUME TypeOK, NEW r \in Runs, todo[r] # {}
    PROVE  NextBatch(r) \subseteq todo[r]
<1>1. PICK s \in todo[r] : TRUE
  OBVIOUS
<1>2. IsBatch({s}, r)
  <2>1. Cardinality({s}) = 1
    BY FS_Singleton
  <2> QED
    BY <1>1, <2>1, CollectionAssumption DEF IsBatch
<1>3. {s} \in SUBSET todo[r]
  BY <1>1
<1>4. NextBatch(r) \in SUBSET todo[r]
  BY <1>2, <1>3 DEF NextBatch
<1> QED
  BY <1>4

LEMMA ForgetTypes ==
    ASSUME TypeOK, NEW gone \in SUBSET Runs, Forget(gone)
    PROVE  /\ latest' \in [Runs -> [Symbols -> Dates]]
           /\ todo' \in [Runs -> SUBSET Symbols]
           /\ batch' \in [Runs -> SUBSET Symbols]
           /\ got' \in [Runs -> SUBSET Symbols]
           /\ \A r \in Runs \ gone : /\ latest'[r] = latest[r]
                                     /\ todo'[r] = todo[r]
                                     /\ batch'[r] = batch[r]
                                     /\ got'[r] = got[r]
<1>1. NoDates \in [Symbols -> Dates]
  BY DEF NoDates, Dates
<1> QED
  BY <1>1 DEF Forget, TypeOK, Dates

LEMMA TypeInit == Init => TypeOK
<1> SUFFICES ASSUME Init
             PROVE  TypeOK
  OBVIOUS
<1>1. faulty \in BOOLEAN /\ torn \in BOOLEAN
  BY DEF Init
<1>2. mishaps \in 0..MaxMishaps
  BY CollectionAssumption DEF Init
<1>3. latest \in [Runs -> [Symbols -> {"none", "earlier", "today"}]]
  BY DEF Init, NoDates
<1>4. bars \in [Symbols -> SUBSET {"hist", "recent"}]
  BY DEF Init
<1> QED
  BY <1>1, <1>2, <1>3, <1>4, CollectionAssumption DEF Init, TypeOK

LEMMA MishapTypes ==
    ASSUME TypeOK, Mishap \/ UNCHANGED mishaps
    PROVE  mishaps' \in 0..MaxMishaps
BY CollectionAssumption DEF TypeOK, Mishap

LEMMA TroubleTypes ==
    ASSUME TypeOK, Fault \/ UNCHANGED troubles
    PROVE  mishaps' \in 0..MaxMishaps /\ faulty' \in BOOLEAN
<1>1. mishaps' \in 0..MaxMishaps
  BY MishapTypes DEF Fault, troubles
<1>2. faulty' \in BOOLEAN
  BY Zenon DEF TypeOK, Fault, troubles
<1> QED
  BY <1>1, <1>2

LEMMA TypeStep ==
    ASSUME TypeOK, [Next]_vars
    PROVE  TypeOK'
<1> USE CollectionAssumption DEF Goto, work, record, Kinds, Body, Closing
<1>1. ASSUME NEW r \in Runs, NEW k \in Kinds, AcquireLock(r, k)
      PROVE  TypeOK'
  <2>0. mishaps' \in 0..MaxMishaps /\ faulty' \in BOOLEAN
    BY <1>1, TroubleTypes DEF AcquireLock
  <2> QED
    BY <1>1, <2>0 DEF AcquireLock, TypeOK, Kinds
<1>2. ASSUME NEW r \in Runs, AcquireLockFails(r)
      PROVE  TypeOK'
  <2>0. mishaps' \in 0..MaxMishaps /\ faulty' \in BOOLEAN
    BY <1>2, TroubleTypes DEF AcquireLockFails
  <2> QED
    BY <1>2, <2>0 DEF AcquireLockFails, TypeOK
<1>3. ASSUME NEW r \in Runs, CreateRun(r)
      PROVE  TypeOK'
  <2>0. mishaps' \in 0..MaxMishaps /\ faulty' \in BOOLEAN
    BY <1>3, TroubleTypes DEF CreateRun
  <2> QED
    BY <1>3, <2>0 DEF CreateRun, TypeOK, Body
<1>4. ASSUME NEW r \in Runs, ReadLatestDates(r)
      PROVE  TypeOK'
  <2>0. mishaps' \in 0..MaxMishaps /\ faulty' \in BOOLEAN
    BY <1>4, TroubleTypes DEF ReadLatestDates
  <2>1. [s \in Symbols |-> Latest(s)] \in [Symbols -> Dates]
    BY DEF Latest, Dates
  <2> QED
    <3> DEFINE read == [s \in Symbols |-> Latest(s)]
               Maps == [Symbols -> Dates]
    <3>a. read \in Maps
      BY <2>1
    <3>b. latest' = [latest EXCEPT ![r] = read] \/ latest' = latest
      BY <1>4 DEF ReadLatestDates
    <3>c. latest \in [Runs -> Maps]
      BY DEF TypeOK, Dates
    <3> HIDE DEF read, Maps
    <3>d. latest' \in [Runs -> Maps]
      BY <3>a, <3>b, <3>c
    <3>1. latest' \in [Runs -> [Symbols -> Dates]]
      BY <3>d DEF Maps
    <3> QED
      BY <1>4, <2>0, <3>1 DEF ReadLatestDates, TypeOK, Dates
<1>5. ASSUME NEW r \in Runs, LoadCheckpoint(r)
      PROVE  TypeOK'
  <2>0. mishaps' \in 0..MaxMishaps /\ faulty' \in BOOLEAN
    BY <1>5, TroubleTypes DEF LoadCheckpoint
  <2> QED
    <3>0. PICK left \in SUBSET Symbols : todo' = [todo EXCEPT ![r] = left]
      BY <1>5 DEF LoadCheckpoint
    <3>1. todo' \in [Runs -> SUBSET Symbols]
      BY <3>0 DEF TypeOK
    <3>2. ckpt' \in SUBSET Symbols
      BY <1>5 DEF LoadCheckpoint, TypeOK
    <3>3. \A q \in Runs \ {r} : todo'[q] = todo[q]
      BY <1>5 DEF LoadCheckpoint, TypeOK
    <3> QED
      BY <1>5, <2>0, <3>1, <3>2, <3>3 DEF LoadCheckpoint, TypeOK
<1>6. ASSUME NEW r \in Runs, DeleteBars(r)
      PROVE  TypeOK'
  <2>0. mishaps' \in 0..MaxMishaps /\ faulty' \in BOOLEAN
    BY <1>6, TroubleTypes DEF DeleteBars
  <2> QED
    BY <1>6, <2>0 DEF DeleteBars, TypeOK, Body, Closing
<1>7. ASSUME NEW r \in Runs, ClearForRebuild(r)
      PROVE  TypeOK'
  <2>0. mishaps' \in 0..MaxMishaps /\ faulty' \in BOOLEAN
    BY <1>7, TroubleTypes DEF ClearForRebuild
  <2>1. NoDates \in [Symbols -> Dates]
    BY DEF NoDates, Dates
  <2> QED
    BY <1>7, <2>0, <2>1 DEF ClearForRebuild, TypeOK, Body, Dates
<1>8. ASSUME NEW r \in Runs, FetchBatch(r)
      PROVE  TypeOK'
  <2>0. mishaps' \in 0..MaxMishaps /\ faulty' \in BOOLEAN
    BY <1>8, TroubleTypes DEF FetchBatch
  <2>1. NextBatch(r) \subseteq todo[r]
    BY <1>8, NextBatchIsBatch DEF FetchBatch
  <2> QED
    BY <1>8, <2>0, <2>1 DEF FetchBatch, TypeOK, Body
<1>9. ASSUME NEW r \in Runs, NEW s \in Symbols, UpsertBars(r, s)
      PROVE  TypeOK'
  <2>0. mishaps' \in 0..MaxMishaps /\ faulty' \in BOOLEAN
    BY <1>9, TroubleTypes DEF UpsertBars
  <2>1. PICK new \in SUBSET {"hist", "recent"} :
               bars' = [bars EXCEPT ![s] = @ \cup new]
    BY <1>9 DEF UpsertBars, Written
  <2> QED
    <3>1. bars' \in [Symbols -> SUBSET {"hist", "recent"}]
      BY <2>1 DEF TypeOK
    <3>2. /\ got' \in [Runs -> SUBSET Symbols]
          /\ \A q \in Runs : got'[q] \subseteq got[q]
      BY <1>9 DEF UpsertBars, TypeOK
    <3> QED
      BY <1>9, <2>0, <3>1, <3>2 DEF UpsertBars, TypeOK
<1>10. ASSUME NEW r \in Runs, CheckpointBatch(r)
       PROVE  TypeOK'
  <2>0. mishaps' \in 0..MaxMishaps /\ faulty' \in BOOLEAN
    BY <1>10, TroubleTypes DEF CheckpointBatch
  <2> QED
    BY <1>10, <2>0 DEF CheckpointBatch, TypeOK, Body
<1>11. ASSUME NEW r \in Runs, CompleteRun(r)
       PROVE  TypeOK'
  <2>0. mishaps' \in 0..MaxMishaps /\ faulty' \in BOOLEAN
    BY <1>11, TroubleTypes DEF CompleteRun
  <2> QED
    <3>0. /\ audit' = audit \/ audit' = [audit EXCEPT ![r] = "completed"]
          /\ known' = known
      BY <1>11 DEF CompleteRun, AuditAs, record
    <3>1. /\ audit' \in [Runs -> Statuses]
          /\ known' \in [Runs -> BOOLEAN]
      BY <3>0 DEF TypeOK, Statuses
    <3>2. pc' = [pc EXCEPT ![r] = "clean"] \/ pc' = [pc EXCEPT ![r] = "close"]
      BY <1>11 DEF CompleteRun
    <3>3. /\ latest' \in [Runs -> [Symbols -> Dates]]
          /\ todo' \in [Runs -> SUBSET Symbols]
          /\ batch' \in [Runs -> SUBSET Symbols]
          /\ got' \in [Runs -> SUBSET Symbols]
          /\ \A q \in Runs \ {r} : /\ todo'[q] = todo[q]
                                     /\ batch'[q] = batch[q]
                                     /\ got'[q] = got[q]
      BY <1>11, ForgetTypes, {r} \in SUBSET Runs DEF CompleteRun
    <3>4. \A q \in Runs : pc'[q] = "store" => q # r /\ pc[q] = "store"
      BY <3>2 DEF TypeOK
    <3> QED
      BY <1>11, <2>0, <3>1, <3>2, <3>3, <3>4
      DEF CompleteRun, TypeOK, Statuses, Dates
<1>12. ASSUME NEW r \in Runs, FailRun(r)
       PROVE  TypeOK'
  <2>0. mishaps' \in 0..MaxMishaps /\ faulty' \in BOOLEAN
    BY <1>12, TroubleTypes DEF FailRun
  <2> QED
    BY <1>12, <2>0 DEF FailRun, AuditAs, TypeOK, Closing
<1>13. ASSUME NEW r \in Runs, ClearCheckpoint(r)
       PROVE  TypeOK'
  <2>0. mishaps' \in 0..MaxMishaps /\ faulty' \in BOOLEAN
    BY <1>13, TroubleTypes DEF ClearCheckpoint
  <2> QED
    BY <1>13, <2>0 DEF ClearCheckpoint, TypeOK, Closing
<1>14. ASSUME NEW r \in Runs, ReleaseLock(r)
       PROVE  TypeOK'
  <2>0. mishaps' \in 0..MaxMishaps /\ faulty' \in BOOLEAN
    BY <1>14, TroubleTypes DEF ReleaseLock
  <2> QED
    BY <1>14, <2>0 DEF ReleaseLock, UnlockedBy, TypeOK
<1>15. ASSUME NEW r \in Runs, Cancel(r)
       PROVE  TypeOK'
  <2>0. mishaps' \in 0..MaxMishaps /\ faulty' \in BOOLEAN
    BY <1>15, TroubleTypes DEF Cancel
  <2> QED
    <3>1. audit' \in [Runs -> Statuses]
      BY <1>15 DEF Cancel, TypeOK, Statuses
    <3>2. pc' = [pc EXCEPT ![r] = "close"] \/ pc' = [pc EXCEPT ![r] = "done"]
      BY <1>15 DEF Cancel
    <3>3. /\ latest' \in [Runs -> [Symbols -> Dates]]
          /\ todo' \in [Runs -> SUBSET Symbols]
          /\ batch' \in [Runs -> SUBSET Symbols]
          /\ got' \in [Runs -> SUBSET Symbols]
          /\ \A q \in Runs \ {r} : /\ todo'[q] = todo[q]
                                     /\ batch'[q] = batch[q]
                                     /\ got'[q] = got[q]
      BY <1>15, ForgetTypes, {r} \in SUBSET Runs DEF Cancel
    <3>4. \A q \in Runs : pc'[q] = "store" => q # r /\ pc[q] = "store"
      BY <3>2 DEF TypeOK
    <3> QED
      BY <1>15, <2>0, <3>1, <3>2, <3>3, <3>4
      DEF Cancel, TypeOK, Statuses, Dates
<1>16. ASSUME NEW r \in Runs, CancelClosing(r)
       PROVE  TypeOK'
  <2>0. mishaps' \in 0..MaxMishaps /\ faulty' \in BOOLEAN
    BY <1>16, TroubleTypes DEF CancelClosing
  <2> QED
    BY <1>16, <2>0 DEF CancelClosing, TypeOK
<1>17. ASSUME NEW w \in Workers, Crash(w)
       PROVE  TypeOK'
  <2>0. mishaps' \in 0..MaxMishaps
    BY <1>17, MishapTypes DEF Crash
  <2> DEFINE gone == {r \in Runs : Home[r] = w}
  <2>1. /\ latest' \in [Runs -> [Symbols -> Dates]]
        /\ todo' \in [Runs -> SUBSET Symbols]
        /\ batch' \in [Runs -> SUBSET Symbols]
        /\ got' \in [Runs -> SUBSET Symbols]
        /\ \A r \in Runs \ gone : todo'[r] = todo[r] /\ batch'[r] = batch[r]
                                  /\ got'[r] = got[r]
    BY <1>17, ForgetTypes, gone \in SUBSET Runs DEF Crash
  <2>2. \A r \in gone : pc'[r] # "store"
    BY <1>17 DEF Crash, Live, Body, TypeOK
  <2>3. \A r \in Runs \ gone : pc'[r] = pc[r]
    BY <1>17 DEF Crash, TypeOK
  <2> QED
    BY <1>17, <2>0, <2>1, <2>2, <2>3 DEF Crash, TypeOK, Dates
<1>18. ASSUME NEW w \in Workers, Startup(w)
       PROVE  TypeOK'
  <2>0. mishaps' \in 0..MaxMishaps /\ faulty' \in BOOLEAN
    BY <1>18, TroubleTypes DEF Startup
  <2> QED
    BY <1>18, <2>0 DEF Startup, BreachBy, TypeOK
<1>19. CASE Lapse \/ Expire \/ ForceUnlock
  <2>1. lock' = Free /\ breaches' \subseteq {"lapse", "unlock", "startup"}
    BY <1>19 DEF Lapse, Expire, ForceUnlock, BreachBy, TypeOK
  <2>2. mishaps' \in 0..MaxMishaps
    BY <1>19, MishapTypes DEF Lapse, Expire, ForceUnlock, troubles
  <2>3. faulty' = faulty
    BY <1>19 DEF Lapse, Expire, ForceUnlock, troubles
  <2> QED
    BY <1>19, <2>1, <2>2, <2>3 DEF Lapse, Expire, ForceUnlock, TypeOK
<1>20. CASE UNCHANGED vars
  BY <1>20 DEF vars, troubles, TypeOK
<1> QED
  BY <1>1, <1>2, <1>3, <1>4, <1>5, <1>6, <1>7, <1>8, <1>9, <1>10, <1>11,
     <1>12, <1>13, <1>14, <1>15, <1>16, <1>17, <1>18, <1>19, <1>20
  DEF Next, Step

(* Every variable keeps its type, and nothing is stored that was not to be  *)
(* processed.                                                               *)
THEOREM TypeCorrect == Spec => []TypeOK
BY TypeInit, TypeStep, PTL DEF Spec

----------------------------------------------------------------------------
(* The lock: unless it was taken from a live run, a live run holds it.      *)

HeldInv == breaches = {} => \A r \in Runs : Live(r) => lock = r

\* What a step does to the lock and to who is live, as long as no lock is
\* taken from a live run.
LEMMA LiveStep ==
    ASSUME TypeOK, HeldInv, [Next]_vars, breaches' = {}
    PROVE  /\ breaches = {}
           /\ \A r \in Runs : Live(r) => lock = r
           /\ \A r \in Runs : Live(r)' => lock' = r
<1> USE CollectionAssumption DEF Goto
<1>0. breaches = {}
  <2>1. breaches \subseteq breaches'
    BY DEF Next, Step, AcquireLock, AcquireLockFails, CreateRun,
           ReadLatestDates, LoadCheckpoint, DeleteBars, ClearForRebuild,
           FetchBatch, UpsertBars, CheckpointBatch, CompleteRun, FailRun,
           ClearCheckpoint, ReleaseLock, Cancel, CancelClosing, Crash, Startup,
           Lapse, Expire, ForceUnlock, vars
  <2> QED
    BY <2>1
<1>a. \A r \in Runs : Live(r) => lock = r
  BY <1>0 DEF HeldInv
<1>1. ASSUME NEW r \in Runs, NEW k \in Kinds, AcquireLock(r, k)
      PROVE  \A q \in Runs : Live(q)' => lock' = q
  BY <1>a, <1>1 DEF AcquireLock, Live, TypeOK
<1>2. ASSUME NEW r \in Runs, AcquireLockFails(r)
      PROVE  \A q \in Runs : Live(q)' => lock' = q
  BY <1>a, <1>2 DEF AcquireLockFails, Live, TypeOK, Kinds, Body, Closing
<1>3. ASSUME NEW r \in Runs, Step(r) \/ Cancel(r) \/ CancelClosing(r),
             ~ReleaseLock(r)
      PROVE  \A q \in Runs : Live(q)' => lock' = q
  <2>1. /\ lock' = lock
        /\ Live(r)
        /\ \A q \in Runs \ {r} : pc'[q] = pc[q]
    BY <1>3
    DEF Step, CreateRun, ReadLatestDates, LoadCheckpoint, DeleteBars,
        ClearForRebuild, FetchBatch, UpsertBars, CheckpointBatch, CompleteRun,
        FailRun, ClearCheckpoint, Cancel, CancelClosing, Live, TypeOK, Kinds,
        Body, Closing
  <2> QED
    BY <1>a, <2>1 DEF Live
<1>4. ASSUME NEW r \in Runs, ReleaseLock(r)
      PROVE  \A q \in Runs : Live(q)' => lock' = q
  <2>1. Live(r) /\ \A q \in Runs \ {r} : pc'[q] = pc[q]
    BY <1>4 DEF ReleaseLock, Live, Closing, TypeOK
  <2>2. \A q \in Runs \ {r} : ~Live(q)
    BY <1>a, <2>1
  <2>3. pc'[r] = "done"
    BY <1>4 DEF ReleaseLock, TypeOK
  <2> QED
    BY <2>1, <2>2, <2>3 DEF Live, Kinds, Body, Closing
<1>5. ASSUME NEW w \in Workers, Crash(w)
      PROVE  \A q \in Runs : Live(q)' => lock' = q
  <2>1. \A q \in Runs : pc'[q] = "dead" \/ pc'[q] = pc[q]
    BY <1>5 DEF Crash, TypeOK
  <2> QED
    BY <1>a, <1>5, <2>1 DEF Crash, Live, Kinds, Body, Closing
<1>6. ASSUME NEW w \in Workers, Startup(w)
      PROVE  \A q \in Runs : Live(q)' => lock' = q
  <2>1. ~TakenFromLive
    BY <1>6 DEF Startup, BreachBy
  <2> QED
    BY <1>a, <1>6, <2>1 DEF Startup, TakenFromLive, Live
<1>7. ASSUME Lapse \/ Expire \/ ForceUnlock
      PROVE  \A q \in Runs : Live(q)' => lock' = q
  <2>1. ~TakenFromLive /\ pc' = pc
    BY <1>7 DEF Lapse, Expire, ForceUnlock, BreachBy
  <2>2. \A q \in Runs : ~Live(q)
    BY <1>a, <2>1 DEF TakenFromLive
  <2> QED
    BY <2>1, <2>2 DEF Live
<1>8. ASSUME UNCHANGED vars
      PROVE  \A q \in Runs : Live(q)' => lock' = q
  BY <1>a, <1>8 DEF vars, Live
<1>9. \A q \in Runs : Live(q)' => lock' = q
  BY <1>1, <1>2, <1>3, <1>4, <1>5, <1>6, <1>7, <1>8 DEF Next
<1> QED
  BY <1>0, <1>a, <1>9

LEMMA HeldStep ==
    ASSUME TypeOK, HeldInv, [Next]_vars
    PROVE  HeldInv'
BY LiveStep DEF HeldInv

LEMMA HeldInvariant == Spec => [](TypeOK /\ HeldInv)
<1>1. Init => HeldInv
  BY DEF Init, HeldInv, Live, Kinds, Body, Closing
<1> QED
  BY <1>1, TypeInit, TypeStep, HeldStep, PTL DEF Spec

(* Exclusive: no interleaving of acquisitions, failed commands, lost         *)
(* answers, cancellations and crashes lets two runs work on the market.      *)
THEOREM RunsAreExclusive == Spec => []Exclusive
<1>1. HeldInv => Exclusive
  BY DEF HeldInv, Exclusive
<1> QED
  BY <1>1, HeldInvariant, PTL

----------------------------------------------------------------------------
(* The audit records.  A run has none before it creates it; while no command *)
(* failed, it knows its record once it is past that, and none that it knows  *)
(* says running once it is past its closing.                                 *)

Past == {"clean", "release", "done"}

OpenedInv ==
    \A r \in Runs : pc[r] \in {"idle"} \cup Kinds => audit[r] = "none" /\ ~known[r]

KnownInv == ~faulty => \A r \in Runs : pc[r] \in Body \cup Closing => known[r]

ClosedInv ==
    ~faulty => \A r \in Runs : pc[r] \in Past /\ known[r] => audit[r] # "running"

AuditInv == OpenedInv /\ KnownInv /\ ClosedInv

LEMMA FaultStays ==
    ASSUME [Next]_vars, ~faulty'
    PROVE  ~faulty
BY Zenon DEF Next, Step, AcquireLock, AcquireLockFails, CreateRun,
   ReadLatestDates, LoadCheckpoint, DeleteBars, ClearForRebuild, FetchBatch,
   UpsertBars, CheckpointBatch, CompleteRun, FailRun, ClearCheckpoint,
   ReleaseLock, Cancel, CancelClosing, Crash, Startup, Lapse, Expire,
   ForceUnlock, Fault, troubles, vars

\* A step changes the place of one run, or ends those of a worker that crashes,
\* and only the creation of a record makes it known.
LEMMA KnownStep ==
    ASSUME TypeOK, KnownInv, [Next]_vars
    PROVE  KnownInv'
<1> SUFFICES ASSUME ~faulty'
             PROVE  \A r \in Runs : pc'[r] \in Body \cup Closing => known'[r]
  BY DEF KnownInv
<1> DEFINE Goal == \A q \in Runs : pc'[q] \in Body \cup Closing => known'[q]
<1>0. ~Fault /\ \A q \in Runs : pc[q] \in Body \cup Closing => known[q]
  BY FaultStays, Zenon DEF KnownInv, Fault
<1> USE DEF Goto, record, Body, Closing
<1>1. ASSUME NEW r \in Runs, NEW k \in Kinds, AcquireLock(r, k)
      PROVE  Goal
  BY <1>0, <1>1 DEF AcquireLock, TypeOK, Kinds
<1>2. ASSUME NEW r \in Runs, AcquireLockFails(r) \/ CancelClosing(r)
      PROVE  Goal
  BY <1>0, <1>2 DEF AcquireLockFails, CancelClosing
<1>3. ASSUME NEW r \in Runs, CreateRun(r)
      PROVE  Goal
  BY <1>0, <1>3 DEF CreateRun, TypeOK
<1>4. ASSUME NEW r \in Runs, NEW s \in Symbols, UpsertBars(r, s)
      PROVE  Goal
  BY <1>0, <1>4 DEF UpsertBars
<1>5. ASSUME NEW r \in Runs,
             \/ ReadLatestDates(r) \/ LoadCheckpoint(r)
             \/ DeleteBars(r) \/ ClearForRebuild(r)
             \/ FetchBatch(r) \/ CheckpointBatch(r)
             \/ CompleteRun(r) \/ FailRun(r) \/ ClearCheckpoint(r)
      PROVE  Goal
  <2>1. pc[r] \in Body \cup Closing /\ known' = known
    BY <1>5 DEF ReadLatestDates, LoadCheckpoint, DeleteBars, ClearForRebuild,
                FetchBatch, CheckpointBatch, CompleteRun, FailRun,
                ClearCheckpoint, AuditAs
  <2>2. \A q \in Runs \ {r} : pc'[q] = pc[q]
    BY <1>5 DEF ReadLatestDates, LoadCheckpoint, DeleteBars, ClearForRebuild,
                FetchBatch, CheckpointBatch, CompleteRun, FailRun,
                ClearCheckpoint, TypeOK
  <2> QED
    BY <1>0, <2>1, <2>2
<1>6. ASSUME NEW r \in Runs, ReleaseLock(r)
      PROVE  Goal
  BY <1>0, <1>6 DEF ReleaseLock, TypeOK
<1>7. ASSUME NEW r \in Runs, Cancel(r)
      PROVE  Goal
  BY <1>0, <1>7 DEF Cancel, TypeOK
<1>8. ASSUME NEW w \in Workers, Crash(w)
      PROVE  Goal
  BY <1>0, <1>8 DEF Crash, TypeOK
<1>9. ASSUME \/ \E w \in Workers : Startup(w)
             \/ Lapse \/ Expire \/ ForceUnlock \/ UNCHANGED vars
      PROVE  Goal
  BY <1>0, <1>9 DEF Startup, Lapse, Expire, ForceUnlock, vars
<1> QED
  BY <1>1, <1>2, <1>3, <1>4, <1>5, <1>6, <1>7, <1>8, <1>9 DEF Next, Step

\* What a step does to the place and the record of any run.
LEMMA OpenedStep ==
    ASSUME TypeOK, OpenedInv, [Next]_vars
    PROVE  OpenedInv'
<1> USE DEF Goto, record, Kinds, OpenedInv
<1>1. ASSUME NEW r \in Runs, NEW k \in Kinds, AcquireLock(r, k)
      PROVE  OpenedInv'
  BY <1>1 DEF AcquireLock, TypeOK
<1>2. ASSUME NEW r \in Runs,
             AcquireLockFails(r) \/ Step(r) \/ Cancel(r) \/ CancelClosing(r)
      PROVE  OpenedInv'
  <2>1. /\ pc'[r] \notin {"idle"} \cup Kinds
        /\ \A q \in Runs \ {r} : /\ pc'[q] = pc[q] /\ audit'[q] = audit[q]
                                 /\ known'[q] = known[q]
    <3>1. ASSUME NEW s \in Symbols, UpsertBars(r, s)
          PROVE  /\ pc'[r] \notin {"idle"} \cup Kinds
                 /\ \A q \in Runs \ {r} : /\ pc'[q] = pc[q] /\ audit'[q] = audit[q]
                                          /\ known'[q] = known[q]
      BY <3>1 DEF UpsertBars, TypeOK
    <3>2. ASSUME ~ \E s \in Symbols : UpsertBars(r, s)
          PROVE  /\ pc'[r] \notin {"idle"} \cup Kinds
                 /\ \A q \in Runs \ {r} : /\ pc'[q] = pc[q] /\ audit'[q] = audit[q]
                                          /\ known'[q] = known[q]
      <4>1. PICK where \in {"done", "clean", "close", "read", "load", "delete",
                            "clear", "fetch", "store", "release"} :
               pc' = [pc EXCEPT ![r] = where]
        BY <1>2, <3>2
        DEF Step, AcquireLockFails, CreateRun, ReadLatestDates, LoadCheckpoint,
            DeleteBars, ClearForRebuild, FetchBatch, CheckpointBatch,
            CompleteRun, FailRun, ClearCheckpoint, ReleaseLock, Cancel,
            CancelClosing
      <4>2. \/ audit' = audit
            \/ \E a \in Statuses : audit' = [audit EXCEPT ![r] = a]
        BY <1>2, <3>2
        DEF Step, AcquireLockFails, CreateRun, ReadLatestDates, LoadCheckpoint,
            DeleteBars, ClearForRebuild, FetchBatch, CheckpointBatch,
            CompleteRun, FailRun, ClearCheckpoint, ReleaseLock, Cancel,
            CancelClosing, AuditAs, Statuses
      <4>3. known' = known \/ known' = [known EXCEPT ![r] = TRUE]
        BY <1>2, <3>2
        DEF Step, AcquireLockFails, CreateRun, ReadLatestDates, LoadCheckpoint,
            DeleteBars, ClearForRebuild, FetchBatch, CheckpointBatch,
            CompleteRun, FailRun, ClearCheckpoint, ReleaseLock, Cancel,
            CancelClosing, AuditAs
      <4> QED
        BY <4>1, <4>2, <4>3 DEF TypeOK
    <3> QED
      BY <3>1, <3>2
  <2> QED
    BY <2>1
<1>3. ASSUME NEW w \in Workers, Crash(w)
      PROVE  OpenedInv'
  BY <1>3 DEF Crash, TypeOK
<1>4. ASSUME NEW w \in Workers, Startup(w)
      PROVE  OpenedInv'
  BY <1>4 DEF Startup, TypeOK
<1>5. ASSUME Lapse \/ Expire \/ ForceUnlock \/ UNCHANGED vars
      PROVE  OpenedInv'
  BY <1>5 DEF Lapse, Expire, ForceUnlock, vars
<1> QED
  BY <1>1, <1>2, <1>3, <1>4, <1>5 DEF Next

LEMMA ClosedStep ==
    ASSUME TypeOK, AuditInv, [Next]_vars
    PROVE  ClosedInv'
<1> SUFFICES ASSUME ~faulty'
             PROVE  \A r \in Runs : pc'[r] \in Past /\ known'[r]
                                     => audit'[r] # "running"
  BY DEF ClosedInv
<1> DEFINE Goal == \A q \in Runs : pc'[q] \in Past /\ known'[q]
                                      => audit'[q] # "running"
<1>0. ~Fault /\ \A q \in Runs : pc[q] \in Past /\ known[q] => audit[q] # "running"
  BY FaultStays, Zenon DEF AuditInv, ClosedInv, Fault
<1>a. \A q \in Runs : pc[q] \in {"idle"} \cup Kinds => audit[q] = "none"
  BY DEF AuditInv, OpenedInv
<1>b. \A q \in Runs : pc[q] \in {"idle"} \cup Kinds => ~known[q]
  BY DEF AuditInv, OpenedInv
<1> USE DEF Goto, record, Past
<1>1. ASSUME NEW r \in Runs, NEW k \in Kinds, AcquireLock(r, k)
      PROVE  Goal
  BY <1>0, <1>1 DEF AcquireLock, TypeOK, Kinds
<1>2. ASSUME NEW r \in Runs, AcquireLockFails(r) \/ CancelClosing(r)
      PROVE  Goal
  BY <1>0, <1>2 DEF AcquireLockFails, CancelClosing
<1>3. ASSUME NEW r \in Runs, CreateRun(r)
      PROVE  Goal
  BY <1>0, <1>3 DEF CreateRun, TypeOK
<1>4. ASSUME NEW r \in Runs, NEW s \in Symbols, UpsertBars(r, s)
      PROVE  Goal
  BY <1>0, <1>4 DEF UpsertBars
<1>5. ASSUME NEW r \in Runs,
             \/ ReadLatestDates(r) \/ LoadCheckpoint(r)
             \/ DeleteBars(r) \/ ClearForRebuild(r)
             \/ FetchBatch(r) \/ CheckpointBatch(r)
      PROVE  Goal
  <2>1. PICK where \in {"close", "load", "clear", "fetch", "store"} :
          pc' = [pc EXCEPT ![r] = where] /\ UNCHANGED record
    BY <1>5 DEF ReadLatestDates, LoadCheckpoint, DeleteBars, ClearForRebuild,
                FetchBatch, CheckpointBatch
  <2> QED
    BY <1>0, <2>1 DEF TypeOK
<1>6. ASSUME NEW r \in Runs, CompleteRun(r)
      PROVE  Goal
  BY <1>0, <1>6 DEF CompleteRun, AuditAs, TypeOK
<1>7. ASSUME NEW r \in Runs, FailRun(r)
      PROVE  Goal
  BY <1>0, <1>7 DEF FailRun, AuditAs, TypeOK
<1>8. ASSUME NEW r \in Runs, ClearCheckpoint(r) \/ ReleaseLock(r)
      PROVE  Goal
  BY <1>0, <1>8 DEF ClearCheckpoint, ReleaseLock, TypeOK
<1>9. ASSUME NEW r \in Runs, Cancel(r)
      PROVE  Goal
  BY <1>0, <1>b, <1>9 DEF Cancel, TypeOK
<1>10. ASSUME NEW w \in Workers, Crash(w)
       PROVE  Goal
  BY <1>0, <1>10 DEF Crash, TypeOK
<1>11. ASSUME NEW w \in Workers, Startup(w)
       PROVE  Goal
  BY <1>0, <1>11 DEF Startup, TypeOK
<1>12. ASSUME Lapse \/ Expire \/ ForceUnlock \/ UNCHANGED vars
       PROVE  Goal
  BY <1>0, <1>12 DEF Lapse, Expire, ForceUnlock, vars
<1> QED
  BY <1>1, <1>2, <1>3, <1>4, <1>5, <1>6, <1>7, <1>8, <1>9, <1>10, <1>11,
     <1>12 DEF Next, Step

(* AuditClosed: a run whose commands succeed and that got beyond the        *)
(* creation of its record knows it, and, completed, raised or cancelled,    *)
(* closes it.  Of a run cancelled while it creates its record this says     *)
(* nothing.                                                                 *)
THEOREM RecordsAreClosed == Spec => []AuditClosed
<1>1. Init => AuditInv
  BY DEF Init, AuditInv, OpenedInv, KnownInv, ClosedInv, Past, Body, Closing, Kinds
<1>2. AuditInv => AuditClosed
  BY Zenon DEF AuditInv, KnownInv, ClosedInv, AuditClosed, Past
<1>3. TypeOK /\ AuditInv /\ [Next]_vars => AuditInv'
  BY OpenedStep, KnownStep, ClosedStep DEF AuditInv
<1> QED
  BY <1>1, <1>2, <1>3, TypeInit, TypeStep, PTL DEF Spec

----------------------------------------------------------------------------
(* The data, as long as no live run lost its lock.  Recent bars have their  *)
(* history and were requested; a run that read a date for a symbol still    *)
(* finds the history of it; what is being stored was requested; and so was  *)
(* what the checkpoint or a run takes for processed, unless the checkpoint  *)
(* outlived a delete.                                                       *)

Working(r) == pc[r] \in {"load", "fetch", "store"}
Fetching(r) == pc[r] \in {"fetch", "store"}

StoredInv ==
    breaches = {} =>
      \A s \in Symbols : "recent" \in bars[s] => "hist" \in bars[s]
                                                 /\ s \in tried

DatesInv ==
    breaches = {} =>
      \A r \in Runs, s \in Symbols :
        /\ Working(r) /\ latest[r][s] # "none" => "hist" \in bars[s]
        /\ pc[r] = "load" /\ latest[r][s] = "today" => s \in tried

BatchInv ==
    breaches = {} => \A r \in Runs : pc[r] = "store" => batch[r] \subseteq tried

CkptInv ==
    breaches = {} /\ ~torn =>
      /\ ckpt \subseteq tried
      /\ \A r \in Runs : Fetching(r) => Symbols \ todo[r] \subseteq tried

DataInv == StoredInv /\ DatesInv /\ BatchInv /\ CkptInv

\* While r is live, nobody else is.
LEMMA Alone ==
    ASSUME HeldInv, breaches = {}, NEW r \in Runs, Live(r)
    PROVE  \A q \in Runs \ {r} : ~Live(q)
BY DEF HeldInv

\* A step that leaves the bars, the checkpoint and the local variables of the
\* runs that work alone and takes no run to where they matter.
LEMMA DataFrame ==
    ASSUME TypeOK, DataInv, breaches = {},
           bars' = bars, ckpt' = ckpt, UNCHANGED torn, tried' = tried,
           \A q \in Runs : Working(q)' => /\ pc'[q] = pc[q]
                                          /\ latest'[q] = latest[q]
                                          /\ todo'[q] = todo[q]
                                          /\ batch'[q] = batch[q]
    PROVE  DataInv'
<1>1. StoredInv' /\ DatesInv' /\ BatchInv'
  BY DEF DataInv, StoredInv, DatesInv, BatchInv, Working
<1>2. CkptInv'
  BY DEF DataInv, CkptInv, Fetching, Working
<1> QED
  BY <1>1, <1>2 DEF DataInv

LEMMA DataStep ==
    ASSUME TypeOK, HeldInv, DataInv, [Next]_vars
    PROVE  DataInv'
<1> SUFFICES ASSUME breaches' = {}
             PROVE  DataInv'
  BY DEF DataInv, StoredInv, DatesInv, BatchInv, CkptInv
<1> USE DEF Goto, work, record
<1>0. breaches = {}
  BY LiveStep
<1>a. \A s \in Symbols : "recent" \in bars[s] => "hist" \in bars[s]
                                                 /\ s \in tried
  BY <1>0 DEF DataInv, StoredInv
<1>b. \A r \in Runs, s \in Symbols :
        /\ Working(r) /\ latest[r][s] # "none" => "hist" \in bars[s]
        /\ pc[r] = "load" /\ latest[r][s] = "today" => s \in tried
  BY <1>0 DEF DataInv, DatesInv
<1>c. \A r \in Runs : pc[r] = "store" => batch[r] \subseteq tried
  BY <1>0 DEF DataInv, BatchInv
<1>d. ~torn => /\ ckpt \subseteq tried
               /\ \A r \in Runs : Fetching(r) => Symbols \ todo[r] \subseteq tried
  BY <1>0 DEF DataInv, CkptInv
<1>1. ASSUME NEW r \in Runs, NEW k \in Kinds, AcquireLock(r, k)
      PROVE  DataInv'
  BY <1>0, <1>1, DataFrame DEF AcquireLock, Working, TypeOK, Kinds
<1>2. ASSUME NEW r \in Runs, \/ AcquireLockFails(r) \/ CreateRun(r)
                             \/ FailRun(r) \/ ReleaseLock(r) \/ CancelClosing(r)
      PROVE  DataInv'
  BY <1>0, <1>2, DataFrame
  DEF AcquireLockFails, CreateRun, FailRun, ReleaseLock, CancelClosing,
      Working, TypeOK
<1>3. ASSUME NEW r \in Runs, CompleteRun(r) \/ Cancel(r)
      PROVE  DataInv'
  <2>1. ~Working(r)' /\ \A q \in Runs \ {r} : pc'[q] = pc[q]
    BY <1>3 DEF CompleteRun, Cancel, Working, TypeOK
  <2>2. Forget({r}) /\ UNCHANGED <<bars, ckpt, tried, torn>>
    BY <1>3 DEF CompleteRun, Cancel
  <2> QED
    BY <1>0, <2>1, <2>2, {r} \in SUBSET Runs, ForgetTypes, DataFrame
<1>4. ASSUME NEW r \in Runs, ReadLatestDates(r)
      PROVE  DataInv'
  <2>1. CASE Goto(r, "close") /\ UNCHANGED latest
    BY <1>0, <1>4, <2>1, DataFrame DEF ReadLatestDates, Working, TypeOK
  <2>2. CASE latest' = [latest EXCEPT ![r] = [s \in Symbols |-> Latest(s)]]
             /\ Goto(r, "load")
    <3>1. /\ \A q \in Runs \ {r} : pc'[q] = pc[q] /\ latest'[q] = latest[q]
          /\ pc'[r] = "load"
          /\ \A s \in Symbols : latest'[r][s] = Latest(s)
      BY <2>2 DEF TypeOK
    <3>2. \A s \in Symbols : /\ Latest(s) # "none" => "hist" \in bars[s]
                             /\ Latest(s) = "today" => s \in tried
      BY <1>a DEF Latest
    <3>3. DatesInv'
      BY <1>4, <1>b, <3>1, <3>2 DEF ReadLatestDates, DatesInv, Working
    <3>4. StoredInv' /\ BatchInv'
      BY <1>4, <1>a, <1>c, <3>1
      DEF ReadLatestDates, StoredInv, BatchInv
    <3>5. CkptInv'
      BY <1>4, <1>d, <3>1 DEF ReadLatestDates, CkptInv, Fetching
    <3> QED
      BY <3>3, <3>4, <3>5 DEF DataInv
  <2> QED
    BY <1>4, <2>1, <2>2 DEF ReadLatestDates
<1>5. ASSUME NEW r \in Runs, LoadCheckpoint(r)
      PROVE  DataInv'
  <2> DEFINE fromDb == {s \in Symbols : latest[r][s] = "today"}
  <2>1. fromDb \subseteq tried
    BY <1>5, <1>b DEF LoadCheckpoint
  <2>2. /\ \A q \in Runs \ {r} : pc'[q] = pc[q] /\ todo'[q] = todo[q]
        /\ pc'[r] = "fetch"
        /\ Symbols \ todo'[r] \subseteq fromDb \cup ckpt
        /\ ckpt' \subseteq fromDb \cup ckpt
    BY <1>5 DEF LoadCheckpoint, TypeOK
  <2>3. StoredInv' /\ DatesInv' /\ BatchInv'
    BY <1>5, <1>a, <1>b, <1>c, <2>2
    DEF LoadCheckpoint, StoredInv, DatesInv, BatchInv, Working
  <2>4. CkptInv'
    <3>1. torn' = torn /\ tried' = tried
      BY <1>5 DEF LoadCheckpoint
    <3> HIDE DEF fromDb
    <3> QED
      BY <1>d, <2>1, <2>2, <3>1 DEF CkptInv, Fetching
  <2> QED
    BY <2>3, <2>4 DEF DataInv
<1>6. ASSUME NEW r \in Runs, DeleteBars(r)
      PROVE  DataInv'
  <2>1. Live(r) /\ \A q \in Runs \ {r} : pc'[q] = pc[q]
    BY <1>6 DEF DeleteBars, Live, Body, TypeOK
  <2>2. \A q \in Runs : ~Working(q)'
    <3>1. ~Working(r)'
      BY <1>6 DEF DeleteBars, Working, TypeOK
    <3> QED
      BY <1>0, <2>1, <3>1, Alone DEF Live, Body, Working
  <2>3. DatesInv' /\ BatchInv'
    BY <2>2 DEF DatesInv, BatchInv, Working
  <2>4. CASE UNCHANGED <<bars, tried, torn>>
    BY <1>6, <2>2, <2>4, <1>0, DataFrame DEF DeleteBars
  <2>5. ASSUME bars' = [s \in Symbols |-> {}], torn' = TRUE
        PROVE  DataInv'
    <3>1. StoredInv'
      BY <2>5 DEF StoredInv
    <3>2. CkptInv'
      BY <2>5, Zenon DEF CkptInv
    <3> QED
      BY <2>3, <3>1, <3>2 DEF DataInv
  <2> QED
    BY <1>6, <2>4, <2>5 DEF DeleteBars
<1>7. ASSUME NEW r \in Runs, ClearForRebuild(r)
      PROVE  DataInv'
  <2>1. /\ \A q \in Runs \ {r} : pc'[q] = pc[q] /\ latest'[q] = latest[q]
                                 /\ todo'[q] = todo[q]
        /\ \A s \in Symbols : latest'[r][s] = "none"
        /\ pc'[r] = "fetch"
        /\ todo'[r] = Symbols
    BY <1>7 DEF ClearForRebuild, NoDates, TypeOK
  <2>2. \A q \in Runs \ {r} : ~Fetching(q)'
    <3>1. Live(r)
      BY <1>7 DEF ClearForRebuild, Live, Body
    <3> QED
      BY <1>0, <2>1, <3>1, Alone DEF Live, Body, Fetching
  <2>3. StoredInv' /\ DatesInv' /\ BatchInv'
    BY <1>7, <1>a, <1>b, <1>c, <2>1
    DEF ClearForRebuild, StoredInv, DatesInv, BatchInv, Working
  <2>4. (ckpt' = {} \/ UNCHANGED <<ckpt, torn>>) /\ UNCHANGED tried
    BY <1>7 DEF ClearForRebuild
  <2>5. CkptInv'
    BY <1>d, <2>1, <2>2, <2>4 DEF CkptInv
  <2> QED
    BY <2>3, <2>5 DEF DataInv
<1>8. ASSUME NEW r \in Runs, FetchBatch(r)
      PROVE  DataInv'
  <2>1. /\ \A q \in Runs \ {r} : pc'[q] = pc[q] /\ batch'[q] = batch[q]
        /\ pc[r] = "fetch" /\ pc'[r] = "store"
        /\ batch'[r] \subseteq tried'
        /\ tried \subseteq tried'
        /\ UNCHANGED <<bars, latest, todo, ckpt>>
    <3>1. batch' = [batch EXCEPT ![r] = NextBatch(r)]
      BY <1>8 DEF FetchBatch
    <3>2. batch'[r] = NextBatch(r)
      BY <3>1 DEF TypeOK
    <3> QED
      BY <1>8, <3>1, <3>2 DEF FetchBatch, TypeOK
  <2>2. StoredInv' /\ DatesInv' /\ BatchInv'
    BY <1>a, <1>b, <1>c, <2>1
    DEF StoredInv, DatesInv, BatchInv, Working
  <2>3. CkptInv'
    <3>1. UNCHANGED torn
      BY <1>8 DEF FetchBatch
    <3> QED
      BY <1>d, <2>1, <3>1 DEF CkptInv, Fetching
  <2> QED
    BY <2>2, <2>3 DEF DataInv
<1>9. ASSUME NEW r \in Runs, NEW s \in Symbols, UpsertBars(r, s)
      PROVE  DataInv'
  <2>1. s \in tried /\ Working(r)
    BY <1>9, <1>c DEF UpsertBars, Working, TypeOK
  <2>2. PICK new \in Written(r, s) : bars' = [bars EXCEPT ![s] = @ \cup new]
    BY <1>9 DEF UpsertBars
  <2>3. "hist" \in new \/ "hist" \in bars[s]
    BY <1>b, <2>1, <2>2 DEF Written
  <2>4. \A t \in Symbols : bars'[t] = IF t = s THEN bars[s] \cup new ELSE bars[t]
    BY <2>2 DEF TypeOK
  <2>5. UNCHANGED <<pc, latest, todo, batch, ckpt, torn, tried>>
    BY <1>9 DEF UpsertBars
  <2>6. StoredInv' /\ DatesInv' /\ BatchInv'
    BY <1>a, <1>b, <1>c, <2>1, <2>3, <2>4, <2>5
    DEF StoredInv, DatesInv, BatchInv, Working
  <2>7. CkptInv'
    BY <1>d, <2>5 DEF CkptInv, Fetching
  <2> QED
    BY <2>6, <2>7 DEF DataInv
<1>10. ASSUME NEW r \in Runs, CheckpointBatch(r)
       PROVE  DataInv'
  <2>1. /\ \A q \in Runs \ {r} : pc'[q] = pc[q] /\ todo'[q] = todo[q]
                                 /\ batch'[q] = batch[q]
        /\ pc[r] = "store" /\ pc'[r] = "fetch"
        /\ todo'[r] = todo[r] \ batch[r]
        /\ ckpt' \subseteq ckpt \cup batch[r]
        /\ UNCHANGED <<bars, latest, tried>>
    BY <1>10 DEF CheckpointBatch, TypeOK
  <2>2. batch[r] \subseteq tried
    BY <1>c, <2>1
  <2>3. StoredInv' /\ DatesInv' /\ BatchInv'
    BY <1>a, <1>b, <1>c, <2>1
    DEF StoredInv, DatesInv, BatchInv, Working
  <2>4. CkptInv'
    <3>1. UNCHANGED torn
      BY <1>10 DEF CheckpointBatch
    <3> QED
      BY <1>d, <2>1, <2>2, <3>1 DEF CkptInv, Fetching
  <2> QED
    BY <2>3, <2>4 DEF DataInv
<1>11. ASSUME NEW r \in Runs, ClearCheckpoint(r)
       PROVE  DataInv'
  <2>1. /\ \A q \in Runs \ {r} : pc'[q] = pc[q]
        /\ pc[r] = "clean" /\ pc'[r] = "release"
        /\ UNCHANGED <<bars, latest, todo, batch, tried>>
        /\ ckpt' = {} \/ UNCHANGED <<ckpt, torn>>
    BY <1>11 DEF ClearCheckpoint, TypeOK
  <2>2. \A q \in Runs : ~Fetching(q)'
    <3>1. Live(r)
      BY <2>1 DEF Live, Closing
    <3> QED
      BY <1>0, <2>1, <3>1, Alone DEF Live, Body, Fetching
  <2>3. StoredInv' /\ DatesInv' /\ BatchInv'
    BY <1>a, <1>b, <1>c, <2>1
    DEF StoredInv, DatesInv, BatchInv, Working
  <2>4. CkptInv'
    BY <1>d, <2>1, <2>2 DEF CkptInv
  <2> QED
    BY <2>3, <2>4 DEF DataInv
<1>12. ASSUME NEW w \in Workers, Crash(w)
       PROVE  DataInv'
  <2> DEFINE gone == {r \in Runs : Home[r] = w}
  <2>1. /\ \A q \in gone : ~Working(q)'
        /\ \A q \in Runs \ gone : pc'[q] = pc[q]
    BY <1>12 DEF Crash, Working, Live, Body, TypeOK
  <2> QED
    BY <1>0, <1>12, <2>1, gone \in SUBSET Runs, ForgetTypes, DataFrame DEF Crash
<1>13. ASSUME \/ \E w \in Workers : Startup(w)
              \/ Lapse \/ Expire \/ ForceUnlock \/ UNCHANGED vars
       PROVE  DataInv'
  BY <1>0, <1>13, DataFrame DEF Startup, Lapse, Expire, ForceUnlock, vars
<1> QED
  BY <1>1, <1>2, <1>3, <1>4, <1>5, <1>6, <1>7, <1>8, <1>9, <1>10, <1>11,
     <1>12, <1>13 DEF Next, Step

LEMMA DataInvariant == Spec => [](TypeOK /\ HeldInv /\ DataInv)
<1>1. Init => DataInv
  <2>1. Init => StoredInv /\ DatesInv /\ BatchInv
    BY DEF Init, StoredInv, DatesInv, BatchInv, Working
  <2>2. Init => CkptInv
    BY DEF Init, CkptInv, Fetching
  <2> QED
    BY <2>1, <2>2 DEF DataInv
<1> QED
  BY <1>1, DataStep, HeldInvariant, PTL DEF Spec

(* NoGap: as long as no live run lost its lock, no interleaving, crash or    *)
(* interrupted upsert leaves a symbol with recent bars and no history.       *)
THEOREM HistoryIsWhole == Spec => []NoGap
<1>1. DataInv => NoGap
  BY DEF DataInv, StoredInv, NoGap
<1> QED
  BY <1>1, DataInvariant, PTL

(* CompletedCoversAll: a run that is recorded as completed, resumed from a   *)
(* checkpoint or not, left out no symbol of the market.                      *)
THEOREM CompletedMeansAll == Spec => CompletedCoversAll
<1> DEFINE A == breaches = {} /\ ~torn =>
                  \A r \in Runs : audit'[r] = "completed" /\ audit[r] # "completed"
                                    => tried = Symbols
<1>1. TypeOK /\ HeldInv /\ DataInv /\ [Next]_vars => [A]_vars
  <2> SUFFICES ASSUME TypeOK, DataInv, Next, breaches = {}, ~torn,
                      NEW r \in Runs,
                      audit'[r] = "completed", audit[r] # "completed"
               PROVE  tried = Symbols
    BY DEF vars
  <2>1. CompleteRun(r)
    <3>1. ASSUME NEW q \in Runs, q # r \/ ~CompleteRun(q),
                 \/ \E k \in Kinds : AcquireLock(q, k)
                 \/ AcquireLockFails(q) \/ Step(q)
                 \/ Cancel(q) \/ CancelClosing(q)
          PROVE  audit'[r] # "completed"
      <4>1. \/ audit' = audit
            \/ \E a \in Statuses : /\ audit' = [audit EXCEPT ![q] = a]
                                   /\ a = "completed" => q # r
        BY <3>1
        DEF Step, AcquireLock, AcquireLockFails, CreateRun, ReadLatestDates,
            LoadCheckpoint, DeleteBars, ClearForRebuild, FetchBatch, UpsertBars,
            CheckpointBatch, CompleteRun, FailRun, ClearCheckpoint, ReleaseLock,
            Cancel, CancelClosing, AuditAs, Statuses, record
      <4> QED
        BY <4>1 DEF TypeOK
    <3>2. ASSUME \/ \E w \in Workers : Crash(w) \/ Startup(w)
                 \/ Lapse \/ Expire \/ ForceUnlock
          PROVE  audit'[r] # "completed"
      BY <3>2 DEF Crash, Startup, Lapse, Expire, ForceUnlock, TypeOK, record
    <3> QED
      BY <3>1, <3>2 DEF Next
  <2>2. pc[r] = "fetch" /\ todo[r] = {}
    BY <2>1 DEF CompleteRun
  <2>3. Symbols \ todo[r] \subseteq tried
    BY <2>2 DEF DataInv, CkptInv, Fetching
  <2> QED
    BY <2>2, <2>3 DEF TypeOK
<1> QED
  BY <1>1, DataInvariant, PTL DEF Spec, CompletedCoversAll

----------------------------------------------------------------------------
(* OthersKeepLock: only its own release, a mishap (the lock expires, the     *)
(* administrator) or the start of a worker takes the lock from a live run.   *)
THEOREM OwnersKeepLock == Spec => OthersKeepLock
<1> DEFINE A == \A r \in Runs :
                  lock = r /\ Live(r) /\ lock' # r =>
                    pc[r] = "release" \/ mishaps' # mishaps \/ up' # up
<1>1. TypeOK /\ [Next]_vars => [A]_vars
  <2> SUFFICES ASSUME TypeOK, Next,
                      NEW r \in Runs, lock = r, Live(r), lock' # r
               PROVE  pc[r] = "release" \/ mishaps' # mishaps \/ up' # up
    BY DEF vars
  <2>0. TakenFromLive /\ lock # Free
    BY CollectionAssumption DEF TakenFromLive
  <2>1. CASE \E q \in Runs : ReleaseLock(q)
    BY <2>1 DEF ReleaseLock, UnlockedBy
  <2>2. CASE \E w \in Workers : Startup(w)
    BY <2>2 DEF Startup
  <2>3. CASE Lapse \/ ForceUnlock
    BY <2>3, CollectionAssumption DEF Lapse, ForceUnlock, Mishap, TypeOK
  <2>4. CASE /\ \A q \in Runs : ~ReleaseLock(q)
             /\ \A w \in Workers : ~Startup(w)
             /\ ~Lapse /\ ~ForceUnlock
    BY <2>0, <2>4
    DEF Next, Step, AcquireLock, AcquireLockFails, CreateRun, ReadLatestDates,
        LoadCheckpoint, DeleteBars, ClearForRebuild, FetchBatch, UpsertBars,
        CheckpointBatch, CompleteRun, FailRun, ClearCheckpoint, Cancel,
        CancelClosing, Crash, Expire
  <2> QED
    BY <2>1, <2>2, <2>3, <2>4
<1> QED
  BY <1>1, TypeCorrect, PTL DEF Spec, OthersKeepLock
=============================================================================
