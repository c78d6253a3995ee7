----------------------------- MODULE Executors -----------------------------
(***************************************************************************)
(* A pool of threads and its watchdog (backend/app/core/executor.py).      *)
(* Callers wait for a thread's result with a time limit; a thread that     *)
(* hangs is never freed.  Every two minutes the watchdog runs a probe in   *)
(* the pool, five seconds long, and replaces a pool that does not run it;  *)
(* the calls that wait in the replaced pool are cancelled.                 *)
(***************************************************************************)
EXTENDS Integers, FiniteSets

CONSTANTS Jobs,        \* calls of run_in_executor()
          Threads,     \* max_workers of the pool
          MaxPools,    \* bound on the pools created
          MaxTurns     \* bound on the recyclings by age

ASSUME ExecutorAssumption == Threads \in Nat \ {0} /\ {MaxPools, MaxTurns} \subseteq Nat

Probe == "probe"       \* the watchdog's own job

VARIABLES pool,     \* number of the current pool
          turns,
          job,      \* state of a job and the pool it was given to
          caller,   \* how the wait for a job ended
          watchdog  \* "asleep" or waiting for its probe

exVars == <<pool, turns, job, caller, watchdog>>

Work == Jobs \union {Probe}
\* A thread is held until its function returns, whoever still waits for it.
Held(n) == {j \in Work : job[j].pool = n /\ job[j].at \in {"running", "hung"}}
Hung(n) == {j \in Work : job[j].pool = n /\ job[j].at = "hung"}
Waiting(j) == caller[j] = "waiting"

ExInit ==
    /\ pool = 0 /\ turns = 0 /\ watchdog = "asleep"
    /\ job = [j \in Work |-> [at |-> "new", pool |-> 0]]
    /\ caller = [j \in Work |-> "none"]

\* run_in_executor(): the job goes to the current pool, get_executor() having
\* made the first one.
RunInExecutor(j) ==
    /\ job[j].at = "new"
    /\ job' = [job EXCEPT ![j] = [at |-> "queued", pool |-> pool]]
    /\ caller' = [caller EXCEPT ![j] = "waiting"]
    /\ UNCHANGED <<pool, turns, watchdog>>

ThreadTakes(j) ==
    /\ job[j].at = "queued" /\ Cardinality(Held(job[j].pool)) < Threads
    /\ job' = [job EXCEPT ![j].at = "running"]
    /\ UNCHANGED <<pool, turns, caller, watchdog>>

\* The function returns or raises; nobody hears of it after the time limit.
FunctionReturns(j) ==
    /\ job[j].at = "running"
    /\ job' = [job EXCEPT ![j].at = "over"]
    /\ caller' = [caller EXCEPT ![j] = IF Waiting(j) THEN "served" ELSE @]
    /\ UNCHANGED <<pool, turns, watchdog>>

\* An HTTP call without a timeout of its own.
FunctionHangs(j) ==
    /\ j \in Jobs /\ job[j].at = "running"
    /\ job' = [job EXCEPT ![j].at = "hung"]
    /\ UNCHANGED <<pool, turns, caller, watchdog>>

\* wait_for() gives up: a job that still waits for a thread is cancelled with
\* it, a running one goes on.
TimesOut(j) ==
    /\ j \in Jobs /\ Waiting(j)
    /\ caller' = [caller EXCEPT ![j] = "timeout"]
    /\ job' = [job EXCEPT ![j].at = IF @ = "queued" THEN "over" ELSE @]
    /\ UNCHANGED <<pool, turns, watchdog>>

-----------------------------------------------------------------------------
\* _recycle_executor(): new calls go to a new pool; shutdown(cancel_futures)
\* cancels what waits in the old one, and its threads end with their functions.
Recycled ==
    LET gone == {j \in Work : job[j].pool = pool /\ job[j].at = "queued"}
    IN /\ pool' = pool + 1
       /\ job' = [j \in Work |-> IF j \in gone THEN [job[j] EXCEPT !.at = "over"] ELSE job[j]]
       /\ caller' = [j \in Work |-> IF j \in gone /\ Waiting(j) THEN "cancelled" ELSE caller[j]]

WatchdogSleeps == watchdog' = "asleep" /\ UNCHANGED turns

\* _watchdog_loop(): a pool older than four hours is replaced without a probe.
RecycleByAge ==
    /\ watchdog = "asleep" /\ turns < MaxTurns /\ pool < MaxPools
    /\ turns' = turns + 1 /\ Recycled /\ UNCHANGED watchdog

\* check_executor_health() submits a function that returns at once ...
ProbeStarts ==
    /\ watchdog = "asleep" /\ job[Probe].at \in {"new", "over"}
    /\ job' = [job EXCEPT ![Probe] = [at |-> "queued", pool |-> pool]]
    /\ caller' = [caller EXCEPT ![Probe] = "waiting"]
    /\ watchdog' = "probing" /\ UNCHANGED <<pool, turns>>
ProbeSucceeds ==
    /\ watchdog = "probing" /\ caller[Probe] = "served"
    /\ WatchdogSleeps /\ UNCHANGED <<pool, job, caller>>

\* Mutant: the probe is waited for without a limit.
ProbeNeverFails == FALSE /\ UNCHANGED exVars

\* ... and cannot tell threads that hang from threads that are busy.
ProbeFails ==
    /\ watchdog = "probing" /\ Waiting(Probe) /\ pool < MaxPools
    /\ job[Probe].at = "queued" /\ Cardinality(Held(pool)) = Threads
    /\ Recycled /\ WatchdogSleeps

ExNext ==
    \/ \E j \in Work : \/ j \in Jobs /\ RunInExecutor(j)
                       \/ ThreadTakes(j) \/ FunctionReturns(j)
                       \/ FunctionHangs(j) \/ TimesOut(j)
    \/ RecycleByAge \/ ProbeStarts \/ ProbeSucceeds \/ ProbeFails

\* Idle threads take what waits, the watchdog's loop goes on, its limit of five
\* seconds runs out, and wait_for() ends every wait.  Functions need not return.
ExFair == /\ \A j \in Work : WF_exVars(ThreadTakes(j)) /\ WF_exVars(TimesOut(j))
          /\ WF_exVars(FunctionReturns(Probe))
          /\ WF_exVars(ProbeStarts) /\ WF_exVars(ProbeSucceeds) /\ WF_exVars(ProbeFails)

ExSpec == ExInit /\ [][ExNext]_exVars /\ ExFair

-----------------------------------------------------------------------------
\* A pool whose threads all hang does not stay the pool of new calls.
HungPoolIsReplaced ==
    \A n \in 0..(MaxPools - 1) : (pool = n /\ Cardinality(Hung(n)) = Threads) ~> pool # n
=============================================================================
