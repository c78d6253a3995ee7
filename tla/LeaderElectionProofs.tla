----------------------- MODULE LeaderElectionProofs -----------------------
(* The safety of the leader election for every set of workers and every    *)
(* number of crashes and failed commands.                                  *)
EXTENDS LeaderElection, FiniteSetTheorems, TLAPS

LEMMA TypeInit == Init => TypeOK
BY WorkersAssumption DEF Init, TypeOK, NothingPaused

LEMMA TeardownTypes ==
    ASSUME TypeOK, NEW w \in Workers, Teardown(w)
    PROVE  /\ sched' \in [Workers -> BOOLEAN]
           /\ running' \in [Workers -> SUBSET {"current", "orphan"}]
           /\ paused' \in [Workers -> [current : SUBSET Jobs, orphan : SUBSET Jobs]]
           /\ \A v \in Workers : "current" \in running'[v] => sched'[v]
           /\ \A v \in Workers : "orphan" \in running'[v] => orphan[v]
BY DEF Teardown, TypeOK

LEMMA ReplacedTypes ==
    ASSUME TypeOK, NEW w \in Workers, Replaced(w)
    PROVE  /\ orphan' \in [Workers -> BOOLEAN]
           /\ running' \in [Workers -> SUBSET {"current", "orphan"}]
           /\ paused' \in [Workers -> [current : SUBSET Jobs, orphan : SUBSET Jobs]]
           /\ \A v \in Workers : v # w => running'[v] = running[v] /\ orphan'[v] = orphan[v]
           /\ "current" \notin running'[w]
           /\ "orphan" \in running'[w] => orphan'[w]
<1>1. paused' \in [Workers -> [current : SUBSET Jobs, orphan : SUBSET Jobs]]
  <2> DEFINE p == paused[w]
  <2>1. p \in [current : SUBSET Jobs, orphan : SUBSET Jobs] BY DEF TypeOK
  <2>2. PICK S \in SUBSET Jobs :
          paused' = [paused EXCEPT ![w] = [current |-> {}, orphan |-> S]]
    <3>1. CASE ~sched[w] BY <2>1, <3>1 DEF Replaced
    <3>2. CASE sched[w] /\ ~orphan[w] BY <2>1, <3>2 DEF Replaced
    <3>3. CASE sched[w] /\ orphan[w] BY <2>1, <3>3 DEF Replaced
    <3> QED BY <3>1, <3>2, <3>3 DEF TypeOK
  <2> QED BY <2>2 DEF TypeOK
<1> QED
  BY <1>1 DEF Replaced, TypeOK

LEMMA EndedTypes ==
    ASSUME TypeOK, NEW w \in Workers, Ended(w)
    PROVE  /\ leader' \in [Workers -> BOOLEAN]
           /\ sched' \in [Workers -> BOOLEAN]
           /\ orphan' \in [Workers -> BOOLEAN]
           /\ sup' \in [Workers -> {"off", "wait", "acquire", "acquired",
                                    "undo", "drop", "release"}]
           /\ rq' \in [Workers -> {"none", "sent", "done"}]
           /\ running' \in [Workers -> SUBSET {"current", "orphan"}]
           /\ paused' \in [Workers -> [current : SUBSET Jobs, orphan : SUBSET Jobs]]
           /\ \A v \in Workers : "current" \in running'[v] => sched'[v]
           /\ \A v \in Workers : "orphan" \in running'[v] => orphan'[v]
BY DEF Ended, TypeOK, NothingPaused

LEMMA TypeStep ==
    ASSUME TypeOK, [Next]_vars
    PROVE  TypeOK'
<1> USE WorkersAssumption
<1> USE DEF Goto, Fault, KeyReleasedBy, counters
<1>1. ASSUME NEW w \in Workers, Boot(w) \/ Tick(w)
      PROVE  TypeOK'
  BY <1>1 DEF Boot, Tick, TypeOK
<1>2. ASSUME NEW w \in Workers, Acquire(w) \/ AcquireFails(w)
      PROVE  TypeOK'
  BY <1>2 DEF Acquire, AcquireFails, TypeOK
<1>3. ASSUME NEW w \in Workers, Build(w)
      PROVE  TypeOK'
  BY <1>3, ReplacedTypes DEF Build, TypeOK
<1>4. ASSUME NEW w \in Workers, BuildFails(w)
      PROVE  TypeOK'
  BY <1>4, ReplacedTypes DEF BuildFails, TypeOK
<1>5. ASSUME NEW w \in Workers, Undo(w) \/ Drop(w)
      PROVE  TypeOK'
  <2>1. /\ key' \in Workers \cup {Nobody, Gone}
        /\ faults' \in 0..MaxFaults
    BY <1>5 DEF Undo, Drop, TypeOK
  <2>2. CASE Undo(w)
    BY <2>1, <2>2 DEF Undo, TypeOK
  <2>3. CASE Drop(w)
    BY <2>1, <2>3 DEF Drop, TypeOK
  <2> QED
    BY <1>5, <2>2, <2>3
<1>6. ASSUME NEW w \in Workers, HeartbeatRefused(w)
      PROVE  TypeOK'
  BY <1>6, TeardownTypes DEF HeartbeatRefused, TypeOK
<1>7. ASSUME NEW w \in Workers, Relinquish(w)
      PROVE  TypeOK'
  BY <1>7, TeardownTypes DEF Relinquish, TypeOK
<1>8. ASSUME NEW w \in Workers, HandleRestart(w)
      PROVE  TypeOK'
  <2>1. CASE RelinquishReleases(w)
    BY <2>1 DEF RelinquishReleases, TypeOK
  <2>2. CASE RelinquishFails(w)
    BY <2>2 DEF RelinquishFails, TypeOK
  <2>3. CASE Relinquished(w)
    BY <2>3 DEF Relinquished, TypeOK
  <2> QED
    BY <1>8, <2>1, <2>2, <2>3 DEF HandleRestart
<1>9. ASSUME NEW w \in Workers, NEW j \in Jobs, TriggerJob(w, j)
      PROVE  TypeOK'
  BY <1>9 DEF TriggerJob, TypeOK
<1>10. ASSUME NEW w \in Workers, Crash(w)
       PROVE  TypeOK'
  BY <1>10, EndedTypes DEF Crash, TypeOK
<1>11. ASSUME NEW w \in Workers, StopScheduler(w)
       PROVE  TypeOK'
  <2>1. CASE leader[w] /\ Teardown(w)
    BY <1>11, <2>1, TeardownTypes DEF StopScheduler, Ended, TypeOK
  <2>2. CASE Ended(w)
    BY <1>11, <2>2, EndedTypes DEF StopScheduler, TypeOK
  <2> QED
    BY <1>11, <2>1, <2>2 DEF StopScheduler
<1>12. ASSUME NEW w \in Workers, StopReleases(w)
       PROVE  TypeOK'
  BY <1>12, EndedTypes DEF StopReleases, TypeOK
<1>13. ASSUME NEW w \in Workers, NEW s \in {"current", "orphan"},
              StartJob(w, s) \/ EndJob(w, s)
       PROVE  TypeOK'
  <2>1. CASE StartJob(w, s)
    <3>1. /\ \/ s = "current" /\ sched[w]
             \/ s = "orphan" /\ orphan[w]
          /\ running' = [running EXCEPT ![w] = @ \cup {s}]
          /\ UNCHANGED <<key, leader, sched, orphan, sup, rq, paused, counters>>
      BY <2>1 DEF StartJob
    <3> QED
      BY <3>1 DEF TypeOK
  <2>2. CASE EndJob(w, s)
    BY <2>2 DEF EndJob, TypeOK
  <2> QED
    BY <1>13, <2>1, <2>2
<1>14. CASE Lapse \/ Expire
  BY <1>14 DEF Lapse, Expire, TypeOK
<1>15. CASE UNCHANGED vars
  BY <1>15 DEF vars, TypeOK
<1> QED
  BY <1>1, <1>2, <1>3, <1>4, <1>5, <1>6, <1>7, <1>8, <1>9, <1>10, <1>11,
     <1>12, <1>13, <1>14, <1>15
  DEF Next, Supervise

(* Every variable keeps its type, and no job outlives its scheduler.       *)
THEOREM TypeCorrect == Spec => []TypeOK
BY TypeInit, TypeStep, PTL DEF Spec

----------------------------------------------------------------------------
(* Without /restart, a scheduler exists only while the supervisor waits as *)
(* the leader: every other suspension of it comes before the build or      *)
(* after the teardown.                                                     *)

KnownInv ==
    relinquishes = 0 =>
      \A w \in Workers : /\ sched[w] => leader[w] /\ sup[w] = "wait"
                         /\ ~orphan[w]
                         /\ rq[w] = "none"

(* Without an expired key either, whoever has a scheduler whose heartbeat  *)
(* is not paused, or is about to build one, owns the key.                  *)

OwnerInv ==
    lapses = 0 /\ relinquishes = 0 =>
      \A w \in Workers : Beats(w) \/ sup[w] = "acquired" => key = w

LEMMA KnownStep ==
    ASSUME TypeOK, KnownInv, [Next]_vars
    PROVE  KnownInv'
<1> SUFFICES ASSUME relinquishes' = 0
             PROVE  KnownInv'
  BY DEF KnownInv
<1>0. relinquishes = 0 /\ ~(\E w \in Workers : Relinquish(w))
  BY DEF Next, Supervise, HandleRestart, Boot, Tick, Acquire, AcquireFails,
         Build, BuildFails, Undo, Drop, StopReleases, HeartbeatRefused,
         Relinquish, RelinquishReleases, RelinquishFails, Relinquished,
         TriggerJob, Crash, StopScheduler, StartJob, EndJob, Lapse, Expire,
         vars, counters, TypeOK
<1>a. \A w \in Workers : /\ sched[w] => leader[w] /\ sup[w] = "wait"
                         /\ ~orphan[w]
                         /\ rq[w] = "none"
  BY <1>0 DEF KnownInv
<1> USE DEF KnownInv, Goto
<1>1. ASSUME NEW w \in Workers, Supervise(w)
      PROVE  KnownInv'
  <2>1. CASE Boot(w) \/ Tick(w) \/ Acquire(w) \/ AcquireFails(w)
    BY <1>a, <2>1 DEF Boot, Tick, Acquire, AcquireFails, TypeOK
  <2>2. CASE Build(w) \/ BuildFails(w)
    BY <1>a, <2>2 DEF Build, BuildFails, Replaced, TypeOK
  <2>3. CASE Undo(w) \/ Drop(w)
    BY <1>a, <2>3 DEF Undo, Drop, TypeOK
  <2>4. CASE StopReleases(w)
    BY <1>a, <2>4 DEF StopReleases, Ended, TypeOK
  <2> QED
    BY <1>1, <2>1, <2>2, <2>3, <2>4 DEF Supervise
<1>2. ASSUME NEW w \in Workers, HeartbeatRefused(w)
      PROVE  KnownInv'
  BY <1>a, <1>2 DEF HeartbeatRefused, Teardown, TypeOK
<1>3. ASSUME NEW w \in Workers, HandleRestart(w)
      PROVE  KnownInv'
  BY <1>a, <1>3
  DEF HandleRestart, RelinquishReleases, RelinquishFails, Relinquished
<1>4. ASSUME NEW w \in Workers, Crash(w)
      PROVE  KnownInv'
  BY <1>a, <1>4 DEF Crash, Ended, TypeOK
<1>5. ASSUME NEW w \in Workers, StopScheduler(w)
      PROVE  KnownInv'
  BY <1>a, <1>5 DEF StopScheduler, Teardown, Ended, TypeOK
<1>6. CASE UNCHANGED <<leader, sched, orphan, sup, rq>>
  BY <1>a, <1>6
<1> QED
  BY <1>0, <1>1, <1>2, <1>3, <1>4, <1>5, <1>6
  DEF Next, TriggerJob, StartJob, EndJob, Lapse, Expire, vars

LEMMA OwnerStep ==
    ASSUME TypeOK, KnownInv, OwnerInv, [Next]_vars
    PROVE  OwnerInv'
<1> SUFFICES ASSUME lapses' = 0, relinquishes' = 0
             PROVE  OwnerInv'
  BY DEF OwnerInv
<1>0. /\ lapses = 0 /\ relinquishes = 0 /\ ~Lapse
      /\ ~(\E w \in Workers : Relinquish(w))
  BY DEF Next, Supervise, HandleRestart, Boot, Tick, Acquire, AcquireFails,
         Build, BuildFails, Undo, Drop, StopReleases, HeartbeatRefused,
         Relinquish, RelinquishReleases, RelinquishFails, Relinquished,
         TriggerJob, Crash, StopScheduler, StartJob, EndJob, Lapse, Expire,
         vars, counters, TypeOK
<1>a. \A w \in Workers : /\ sched[w] => leader[w] /\ sup[w] = "wait"
                         /\ ~orphan[w]
                         /\ rq[w] = "none"
                         /\ Beats(w) \/ sup[w] = "acquired" => key = w
  BY <1>0 DEF KnownInv, OwnerInv
<1> USE WorkersAssumption DEF OwnerInv, Goto, KeyReleasedBy, Beats
<1>1. ASSUME NEW w \in Workers, Supervise(w)
      PROVE  OwnerInv'
  <2>1. CASE Boot(w) \/ Tick(w)
    BY <1>a, <2>1 DEF Boot, Tick, TypeOK
  <2>2. CASE Acquire(w) \/ AcquireFails(w)
    BY <1>a, <2>2 DEF Acquire, AcquireFails, TypeOK
  <2>3. CASE Build(w) \/ BuildFails(w)
    BY <1>a, <2>3 DEF Build, BuildFails, Replaced, TypeOK
  <2>4. CASE Undo(w) \/ Drop(w)
    BY <1>a, <2>4 DEF Undo, Drop, TypeOK
  <2>5. CASE StopReleases(w)
    BY <1>a, <2>5 DEF StopReleases, Ended, TypeOK
  <2> QED
    BY <1>1, <2>1, <2>2, <2>3, <2>4, <2>5 DEF Supervise
<1>2. ASSUME NEW w \in Workers, HeartbeatRefused(w)
      PROVE  OwnerInv'
  BY <1>a, <1>2 DEF HeartbeatRefused, Teardown, TypeOK
<1>3. ASSUME NEW w \in Workers, HandleRestart(w)
      PROVE  OwnerInv'
  BY <1>a, <1>3
  DEF HandleRestart, RelinquishReleases, RelinquishFails, Relinquished
<1>4. ASSUME NEW w \in Workers, Crash(w)
      PROVE  OwnerInv'
  BY <1>a, <1>4 DEF Crash, Ended, TypeOK
<1>5. ASSUME NEW w \in Workers, StopScheduler(w)
      PROVE  OwnerInv'
  BY <1>a, <1>5 DEF StopScheduler, Teardown, Ended, TypeOK
<1>6. CASE Expire
  BY <1>a, <1>6 DEF Expire, Renewed
<1>7. ASSUME NEW w \in Workers, NEW j \in Jobs, TriggerJob(w, j)
      PROVE  OwnerInv'
  BY <1>a, <1>7 DEF TriggerJob, TypeOK
<1>8. CASE UNCHANGED <<key, sched, orphan, sup, paused>>
  BY <1>a, <1>8
<1> QED
  BY <1>0, <1>1, <1>2, <1>3, <1>4, <1>5, <1>6, <1>7, <1>8
  DEF Next, StartJob, EndJob, vars

LEMMA Invariants == Spec => [](TypeOK /\ KnownInv /\ OwnerInv)
<1>1. Init => KnownInv /\ OwnerInv
  BY DEF Init, KnownInv, OwnerInv, Beats
<1> QED
  BY <1>1, TypeInit, TypeStep, KnownStep, OwnerStep, PTL DEF Spec

(* SchedulerKnown: unless /restart is used, no crash, lost answer, failed  *)
(* build or expired key leaves a scheduler its worker does not lead with   *)
(* or cannot tear down.                                                    *)
THEOREM SchedulersAreKnown == Spec => []SchedulerKnown
<1>1. KnownInv => SchedulerKnown
  BY DEF KnownInv, SchedulerKnown
<1> QED
  BY <1>1, Invariants, PTL

(* OneScheduler: while no renewed key expires and /restart is not used, at *)
(* most one scheduler runs in all the workers, beside those whose          *)
(* heartbeat an administrator paused.                                      *)
THEOREM AtMostOneScheduler == Spec => []OneScheduler
<1>1. TypeOK /\ KnownInv /\ OwnerInv => OneScheduler
  <2> SUFFICES ASSUME TypeOK, KnownInv, OwnerInv,
                      lapses = 0, relinquishes = 0
               PROVE  Cardinality(Beating) <= 1
    BY DEF OneScheduler
  <2>1. Beating \subseteq {<<key, "current">>}
    BY DEF Beating, Beats, KnownInv, OwnerInv
  <2>2. /\ IsFiniteSet({<<key, "current">>})
        /\ Cardinality({<<key, "current">>}) = 1
    BY FS_Singleton
  <2> QED
    BY <2>1, <2>2, FS_Subset
<1> QED
  BY <1>1, Invariants, PTL

----------------------------------------------------------------------------
(* A supervisor that sends a release has no scheduler it takes itself for  *)
(* the leader of: it sends one only after a failed build, after it gave up *)
(* the role, or after the teardown of a shutdown.                          *)

ReleasingInv ==
    \A w \in Workers : /\ sup[w] \in {"undo", "release"} => ~sched[w]
                       /\ sup[w] = "drop" => ~leader[w]

LEMMA ReleasingStep ==
    ASSUME TypeOK, ReleasingInv, [Next]_vars
    PROVE  ReleasingInv'
<1> USE DEF ReleasingInv, Goto
<1>1. ASSUME NEW w \in Workers, Supervise(w)
      PROVE  ReleasingInv'
  <2>1. CASE Boot(w) \/ Tick(w) \/ Acquire(w) \/ AcquireFails(w)
    BY <2>1 DEF Boot, Tick, Acquire, AcquireFails, TypeOK
  <2>2. CASE Build(w) \/ BuildFails(w)
    BY <2>2 DEF Build, BuildFails, Replaced, TypeOK
  <2>3. CASE Undo(w) \/ Drop(w)
    BY <2>3 DEF Undo, Drop, TypeOK
  <2>4. CASE StopReleases(w)
    BY <2>4 DEF StopReleases, Ended, TypeOK
  <2> QED
    BY <1>1, <2>1, <2>2, <2>3, <2>4 DEF Supervise
<1>2. ASSUME NEW w \in Workers, HeartbeatRefused(w) \/ Relinquish(w)
      PROVE  ReleasingInv'
  BY <1>2 DEF HeartbeatRefused, Relinquish, Teardown, TypeOK
<1>3. ASSUME NEW w \in Workers, HandleRestart(w)
      PROVE  ReleasingInv'
  BY <1>3 DEF HandleRestart, RelinquishReleases, RelinquishFails,
              Relinquished, TypeOK
<1>4. ASSUME NEW w \in Workers, Crash(w)
      PROVE  ReleasingInv'
  BY <1>4 DEF Crash, Ended, TypeOK
<1>5. ASSUME NEW w \in Workers, StopScheduler(w)
      PROVE  ReleasingInv'
  BY <1>5 DEF StopScheduler, Teardown, Ended, TypeOK
<1>6. CASE UNCHANGED <<leader, sched, sup>>
  BY <1>6
<1> QED
  BY <1>1, <1>2, <1>3, <1>4, <1>5, <1>6
  DEF Next, TriggerJob, StartJob, EndJob, Lapse, Expire, vars

\* The lease of a worker that leads with a scheduler and relinquishes nothing.
LEMMA LeaseStep ==
    ASSUME TypeOK, ReleasingInv, [Next]_vars,
           NEW w \in Workers, key = w, sched[w], leader[w], rq[w] = "none",
           Beats(w), key' # w, lapses' = lapses
    PROVE  restarts' # restarts /\ ~sched'[w]
<1> USE WorkersAssumption DEF KeyReleasedBy
<1>1. ~(\E v \in Workers : Supervise(v))
  <2> SUFFICES ASSUME NEW v \in Workers, Supervise(v)
               PROVE  key' = w
    OBVIOUS
  <2>1. CASE Boot(v) \/ Tick(v) \/ Build(v) \/ BuildFails(v)
    BY <2>1 DEF Boot, Tick, Build, BuildFails
  <2>2. CASE Acquire(v) \/ AcquireFails(v)
    BY <2>2 DEF Acquire, AcquireFails
  <2>3. CASE Undo(v) \/ Drop(v) \/ StopReleases(v)
    BY <2>3 DEF Undo, Drop, StopReleases, ReleasingInv
  <2> QED
    BY <2>1, <2>2, <2>3 DEF Supervise
<1>2. ~(\E v \in Workers : HandleRestart(v))
  BY DEF HandleRestart, RelinquishReleases, RelinquishFails, Relinquished
<1>3. ~Lapse /\ ~Expire
  BY DEF Lapse, Expire, Renewed, TypeOK
<1>4. PICK v \in Workers : Crash(v) \/ StopScheduler(v)
  BY <1>1, <1>2, <1>3
  DEF Next, HeartbeatRefused, Relinquish, TriggerJob, StartJob, EndJob, vars
<1>5. v = w /\ Crash(w)
  BY <1>4 DEF Crash, StopScheduler
<1> QED
  BY <1>5 DEF Crash, Ended, TypeOK

(* OthersKeepOut: no command, shutdown or crash of another worker and no   *)
(* late release deletes the lease of a leader that runs its scheduler and  *)
(* its heartbeat.                                                          *)
THEOREM LeasesAreKept == Spec => OthersKeepOut
<1>1. Init => ReleasingInv
  BY DEF Init, ReleasingInv
<1>2. TypeOK /\ ReleasingInv /\ [Next]_vars =>
        [\A w \in Workers :
           (/\ key = w /\ sched[w] /\ leader[w] /\ rq[w] = "none" /\ Beats(w)
            /\ key' # w /\ lapses' = lapses)
           => restarts' # restarts /\ ~sched'[w]]_vars
  BY LeaseStep
<1> QED
  BY <1>1, <1>2, TypeInit, TypeStep, ReleasingStep, PTL
  DEF Spec, OthersKeepOut
=============================================================================
