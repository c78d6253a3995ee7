--------------------------- MODULE LeaderElection ---------------------------
(***************************************************************************)
(* The leader election of backend/app/core/scheduler.py and the admin      *)
(* endpoints that act on it.  Every uvicorn worker runs a supervisor that  *)
(* tries to SET NX one Redis key; the winner builds an APScheduler whose   *)
(* jobs collect data and whose heartbeat renews the key.                   *)
(*                                                                         *)
(* A worker is one asyncio process: an action is the code between two      *)
(* suspensions.  A Redis command is sent, executes at the server and is    *)
(* answered; the answer and the code after it are one action where nothing *)
(* can tell them apart, and two where another task can act in between.     *)
(***************************************************************************)
EXTENDS Integers, FiniteSets

CONSTANTS Workers,
          Nobody,          \* the key does not exist
          Gone,            \* the key holds the id of a process that ended
          MaxLapses,       \* bound on expiries of a key somebody renews
          MaxFaults,       \* bound on failed commands and failed builds
          MaxRestarts,     \* bound on crashes and shutdowns
          MaxRelinquishes  \* bound on calls of the admin /restart endpoint

ASSUME WorkersAssumption ==
    /\ IsFiniteSet(Workers)
    /\ Nobody \notin Workers /\ Gone \notin Workers /\ Nobody # Gone
    /\ {MaxLapses, MaxFaults, MaxRestarts, MaxRelinquishes} \subseteq Nat

VARIABLES key,           \* owner in sp:scheduler:leader
          leader,        \* _is_leader
          sched,         \* _scheduler exists and runs
          orphan,        \* a scheduler that _scheduler no longer refers to runs
          sup,           \* where the supervisor is suspended, "off" without one
          rq,            \* where a request_relinquish() is suspended
          running,       \* schedulers of the worker whose job is running
          paused,        \* jobs of either scheduler without a next run time
          lapses, faults, restarts, relinquishes

vars == <<key, leader, sched, orphan, sup, rq, running, paused,
          lapses, faults, restarts, relinquishes>>

counters == <<lapses, faults, restarts, relinquishes>>

\* One collecting job stands for all; the heartbeat is a job like others.
Jobs == {"collect", "leader_heartbeat"}
NothingPaused == [current |-> {}, orphan |-> {}]

Init ==
    /\ key = Nobody
    /\ leader = [w \in Workers |-> FALSE]
    /\ sched = [w \in Workers |-> FALSE]
    /\ orphan = [w \in Workers |-> FALSE]
    /\ sup = [w \in Workers |-> "off"]
    /\ rq = [w \in Workers |-> "none"]
    /\ running = [w \in Workers |-> {}]
    /\ paused = [w \in Workers |-> NothingPaused]
    /\ lapses = 0 /\ faults = 0 /\ restarts = 0 /\ relinquishes = 0

Goto(w, where) == sup' = [sup EXCEPT ![w] = where]

Fault == faults < MaxFaults /\ faults' = faults + 1

\* Mutant: DEL without comparing the owner.
KeyDeletedBy(w) == Nobody

\* The compare-and-delete script of _release_leadership().
KeyReleasedBy(w) == IF key = w THEN Nobody ELSE key

\* _teardown_scheduler(): shutdown(wait=False) cancels the job it runs.
Teardown(w) ==
    /\ sched' = [sched EXCEPT ![w] = FALSE]
    /\ running' = [running EXCEPT ![w] = @ \ {"current"}]
    /\ paused' = [paused EXCEPT ![w].current = {}]

\* A scheduler of w runs its heartbeat.
Beats(w) == \/ sched[w] /\ "leader_heartbeat" \notin paused[w].current
            \/ orphan[w] /\ "leader_heartbeat" \notin paused[w].orphan

----------------------------------------------------------------------------
(* The supervisor                                                          *)

\* start_scheduler(): the first turn of the loop tries to acquire at once.
Boot(w) ==
    /\ sup[w] = "off"
    /\ Goto(w, "acquire")
    /\ UNCHANGED <<key, leader, sched, orphan, rq, running, paused, counters>>

\* The supervisor's interval is over.  A leader without a scheduler is taken
\* for dead and drops the key; a worker that does not lead tries to acquire.
Tick(w) ==
    /\ sup[w] = "wait"
    /\ \/ /\ leader[w] /\ ~sched[w]
          /\ leader' = [leader EXCEPT ![w] = FALSE]
          /\ Goto(w, "drop")
       \/ /\ ~leader[w]
          /\ Goto(w, "acquire")
          /\ UNCHANGED leader
    /\ UNCHANGED <<key, sched, orphan, rq, running, paused, counters>>

\* Mutant: SET without NX.
AcquireSET(w) ==
    /\ sup[w] = "acquire"
    /\ key' = w
    /\ Goto(w, "acquired")
    /\ UNCHANGED <<leader, sched, orphan, rq, running, paused, counters>>

\* The SET NX executes and is answered.
Acquire(w) ==
    /\ sup[w] = "acquire"
    /\ \/ /\ key = Nobody
          /\ key' = w
          /\ Goto(w, "acquired")
       \/ /\ key # Nobody
          /\ Goto(w, "wait")
          /\ UNCHANGED key
    /\ UNCHANGED <<leader, sched, orphan, rq, running, paused, counters>>

\* It fails before or after the server executed it; the client sends it again
\* or raises, which counts as not acquired.
AcquireFails(w) ==
    /\ sup[w] = "acquire"
    /\ Fault
    /\ key' \in {key, IF key = Nobody THEN w ELSE key}
    /\ \/ Goto(w, "acquire")
       \/ Goto(w, "wait")
    /\ UNCHANGED <<leader, sched, orphan, rq, running, paused, lapses,
                   restarts, relinquishes>>

\* _scheduler is replaced: one it still refers to is not shut down, and runs
\* its jobs, but those that are paused, beside any that was left before.
Replaced(w) ==
    /\ orphan' = [orphan EXCEPT ![w] = @ \/ sched[w]]
    /\ running' = [running EXCEPT
                     ![w] = IF @ = {} THEN {} ELSE {"orphan"}]
    /\ paused' = [paused EXCEPT ![w] =
                    [current |-> {},
                     orphan |-> CASE ~sched[w] -> @.orphan
                                  [] sched[w] /\ ~orphan[w] -> @.current
                                  [] OTHER -> @.current \cap @.orphan]]

\* The supervisor resumes as the leader and builds a scheduler with all jobs.
Build(w) ==
    /\ sup[w] = "acquired"
    /\ leader' = [leader EXCEPT ![w] = TRUE]
    /\ sched' = [sched EXCEPT ![w] = TRUE]
    /\ Replaced(w)
    /\ Goto(w, "wait")
    /\ UNCHANGED <<key, rq, counters>>

\* The build raises: release the key, still as the leader.
BuildFails(w) ==
    /\ sup[w] = "acquired"
    /\ Fault
    /\ leader' = [leader EXCEPT ![w] = TRUE]
    /\ sched' = [sched EXCEPT ![w] = FALSE]
    /\ Replaced(w)
    /\ Goto(w, "undo")
    /\ UNCHANGED <<key, rq, lapses, restarts, relinquishes>>

\* The release of the supervisor is answered, or fails and is only logged.
Undo(w) ==
    /\ sup[w] = "undo"
    /\ \/ key' = KeyReleasedBy(w) /\ UNCHANGED faults
       \/ Fault /\ UNCHANGED key
    /\ leader' = [leader EXCEPT ![w] = FALSE]
    /\ Goto(w, "wait")
    /\ UNCHANGED <<sched, orphan, rq, running, paused, lapses, restarts,
                   relinquishes>>

Drop(w) ==
    /\ sup[w] = "drop"
    /\ \/ key' = KeyReleasedBy(w) /\ UNCHANGED faults
       \/ Fault /\ UNCHANGED key
    /\ Goto(w, "acquire")
    /\ UNCHANGED <<leader, sched, orphan, rq, running, paused, lapses,
                   restarts, relinquishes>>

----------------------------------------------------------------------------
(* The heartbeat and the key's time to live                                *)

\* Mutant: _is_leader is reset, nothing torn down.
HeartbeatKeepsScheduler(w) ==
    /\ Beats(w)
    /\ key # w
    /\ leader' = [leader EXCEPT ![w] = FALSE]
    /\ UNCHANGED <<key, sched, orphan, sup, rq, running, paused, counters>>

\* The renewal script finds another owner or no key: step down.  A renewal
\* that succeeds changes nothing here, and neither does one that fails.
HeartbeatRefused(w) ==
    /\ Beats(w)
    /\ key # w
    /\ leader' = [leader EXCEPT ![w] = FALSE]
    /\ Teardown(w)
    /\ UNCHANGED <<key, orphan, sup, rq, counters>>

\* A scheduler of the owner renews the key, or is about to be built.
Renewed == /\ key \in Workers
           /\ Beats(key) \/ sup[key] = "acquired"

\* Three heartbeats in a row fail or come late: the key expires.
Lapse ==
    /\ Renewed
    /\ lapses < MaxLapses
    /\ lapses' = lapses + 1
    /\ key' = Nobody
    /\ UNCHANGED <<leader, sched, orphan, sup, rq, running, paused, faults,
                   restarts, relinquishes>>

\* Mutant: SET NX without EX.
ExpireNever ==
    /\ FALSE
    /\ UNCHANGED vars

\* A key nobody renews expires.
Expire ==
    /\ key # Nobody /\ ~Renewed
    /\ key' = Nobody
    /\ UNCHANGED <<leader, sched, orphan, sup, rq, running, paused, counters>>

----------------------------------------------------------------------------
(* The admin endpoints                                                     *)

\* /restart on the leader: tear down, then release the key.  A second request
\* while one is suspended repeats its steps and is left out.
Relinquish(w) ==
    /\ leader[w] /\ rq[w] = "none" /\ sup[w] # "release"
    /\ relinquishes < MaxRelinquishes
    /\ relinquishes' = relinquishes + 1
    /\ Teardown(w)
    /\ rq' = [rq EXCEPT ![w] = "sent"]
    /\ UNCHANGED <<key, leader, orphan, sup, lapses, faults, restarts>>

RelinquishReleases(w) ==
    /\ rq[w] = "sent"
    /\ key' = KeyReleasedBy(w)
    /\ rq' = [rq EXCEPT ![w] = "done"]
    /\ UNCHANGED <<leader, sched, orphan, sup, running, paused, counters>>

\* The command fails before or after it executed: it is sent again or given up.
RelinquishFails(w) ==
    /\ rq[w] = "sent"
    /\ Fault
    /\ key' \in {key, KeyReleasedBy(w)}
    /\ \/ UNCHANGED rq
       \/ rq' = [rq EXCEPT ![w] = "done"]
    /\ UNCHANGED <<leader, sched, orphan, sup, running, paused, lapses,
                   restarts, relinquishes>>

\* The request resumes after the release, whatever happened in between.
Relinquished(w) ==
    /\ rq[w] = "done"
    /\ rq' = [rq EXCEPT ![w] = "none"]
    /\ leader' = [leader EXCEPT ![w] = FALSE]
    /\ UNCHANGED <<key, sched, orphan, sup, running, paused, counters>>

\* /jobs/{id}/trigger on the leader, for any job of its scheduler, also the
\* heartbeat: job.modify(next_run_time=None), which for APScheduler is a job
\* without a next run.
TriggerJob(w, j) ==
    /\ leader[w] /\ sched[w]
    /\ paused' = [paused EXCEPT ![w].current = @ \cup {j}]
    /\ UNCHANGED <<key, leader, sched, orphan, sup, rq, running, counters>>

----------------------------------------------------------------------------
(* Jobs: each wrapper begins with the same guard.                          *)

StartJob(w, s) ==
    /\ \/ s = "current" /\ sched[w] /\ "collect" \notin paused[w].current
       \/ s = "orphan" /\ orphan[w] /\ "collect" \notin paused[w].orphan
    /\ s \notin running[w]
    /\ leader[w]
    /\ running' = [running EXCEPT ![w] = @ \cup {s}]
    /\ UNCHANGED <<key, leader, sched, orphan, sup, rq, paused, counters>>

EndJob(w, s) ==
    /\ s \in running[w]
    /\ running' = [running EXCEPT ![w] = @ \ {s}]
    /\ UNCHANGED <<key, leader, sched, orphan, sup, rq, paused, counters>>

----------------------------------------------------------------------------
(* The process                                                             *)

\* What is left of a process that ended: a new one has a new instance id.
Ended(w) ==
    /\ sup' = [sup EXCEPT ![w] = "off"]
    /\ leader' = [leader EXCEPT ![w] = FALSE]
    /\ sched' = [sched EXCEPT ![w] = FALSE]
    /\ orphan' = [orphan EXCEPT ![w] = FALSE]
    /\ rq' = [rq EXCEPT ![w] = "none"]
    /\ running' = [running EXCEPT ![w] = {}]
    /\ paused' = [paused EXCEPT ![w] = NothingPaused]

Crash(w) ==
    /\ sup[w] # "off"
    /\ restarts < MaxRestarts
    /\ restarts' = restarts + 1
    /\ key' = IF key = w THEN Gone ELSE key
    /\ Ended(w)
    /\ UNCHANGED <<lapses, faults, relinquishes>>

\* stop_scheduler(), once the supervisor left its loop: tear down and, as the
\* leader, release the key before the process ends.
StopScheduler(w) ==
    /\ sup[w] = "wait" /\ rq[w] = "none"
    /\ restarts < MaxRestarts
    /\ restarts' = restarts + 1
    /\ \/ /\ leader[w]
          /\ Teardown(w)
          /\ Goto(w, "release")
          /\ UNCHANGED <<key, leader, orphan, rq>>
       \/ /\ ~leader[w]
          /\ key' = IF key = w THEN Gone ELSE key
          /\ Ended(w)
    /\ UNCHANGED <<lapses, faults, relinquishes>>

StopReleases(w) ==
    /\ sup[w] = "release"
    /\ \/ key' = KeyReleasedBy(w) /\ UNCHANGED faults
       \/ Fault /\ key' = IF key = w THEN Gone ELSE key
    /\ Ended(w)
    /\ UNCHANGED <<lapses, restarts, relinquishes>>

----------------------------------------------------------------------------

Supervise(w) == \/ Boot(w) \/ Tick(w) \/ Acquire(w) \/ AcquireFails(w)
                \/ Build(w) \/ BuildFails(w) \/ Undo(w) \/ Drop(w)
                \/ StopReleases(w)

HandleRestart(w) ==
    RelinquishReleases(w) \/ RelinquishFails(w) \/ Relinquished(w)

Next ==
    \/ \E w \in Workers :
         \/ Supervise(w) \/ HeartbeatRefused(w)
         \/ Relinquish(w) \/ HandleRestart(w)
         \/ Crash(w) \/ StopScheduler(w)
    \/ \E w \in Workers, j \in Jobs : TriggerJob(w, j)
    \/ \E w \in Workers, s \in {"current", "orphan"} :
         StartJob(w, s) \/ EndJob(w, s)
    \/ Lapse \/ Expire

Spec == Init /\ [][Next]_vars

\* Every worker's event loop and timers run, Redis answers unless it fails,
\* unrenewed keys expire, and a heartbeat that is not paused fires.  Nothing
\* makes an administrator, a crash or a late heartbeat happen.
FairSpec ==
    /\ Spec
    /\ WF_vars(Expire)
    /\ \A w \in Workers : /\ WF_vars(Supervise(w))
                          /\ WF_vars(HeartbeatRefused(w))
                          /\ WF_vars(HandleRestart(w))

----------------------------------------------------------------------------
(* Properties                                                              *)

\* Types; and a job runs only on behalf of a scheduler that still exists.
TypeOK ==
    /\ key \in Workers \cup {Nobody, Gone}
    /\ leader \in [Workers -> BOOLEAN]
    /\ sched \in [Workers -> BOOLEAN]
    /\ orphan \in [Workers -> BOOLEAN]
    /\ sup \in [Workers -> {"off", "wait", "acquire", "acquired", "undo",
                            "drop", "release"}]
    /\ rq \in [Workers -> {"none", "sent", "done"}]
    /\ running \in [Workers -> SUBSET {"current", "orphan"}]
    /\ \A w \in Workers : /\ "current" \in running[w] => sched[w]
                          /\ "orphan" \in running[w] => orphan[w]
    /\ paused \in [Workers -> [current : SUBSET Jobs, orphan : SUBSET Jobs]]
    /\ lapses \in 0..MaxLapses
    /\ faults \in 0..MaxFaults
    /\ restarts \in 0..MaxRestarts
    /\ relinquishes \in 0..MaxRelinquishes

\* The schedulers that renew the key of their worker, or notice its loss.
Beating == {<<w, "current">> : w \in {v \in Workers :
                sched[v] /\ "leader_heartbeat" \notin paused[v].current}}
           \cup {<<w, "orphan">> : w \in {v \in Workers :
                orphan[v] /\ "leader_heartbeat" \notin paused[v].orphan}}

\* Crashes, shutdowns, failed commands and lost answers alone never let two
\* schedulers run: that takes an expired key, a restart by an administrator, or
\* one whose heartbeat an administrator paused and which then keeps running.
OneScheduler ==
    lapses = 0 /\ relinquishes = 0 => Cardinality(Beating) <= 1

\* Unless /restart was used, a scheduler runs only on a worker that takes
\* itself for the leader, and it is the one the worker can tear down.
SchedulerKnown ==
    relinquishes = 0 => \A w \in Workers : /\ sched[w] => leader[w]
                                           /\ ~orphan[w]

\* The lock of a live leader that renews it is never deleted by another
\* worker's release, shutdown or crash: it goes only by its owner's command or
\* by late heartbeats.
OthersKeepOut ==
    [][\A w \in Workers :
         (/\ key = w /\ sched[w] /\ leader[w] /\ rq[w] = "none" /\ Beats(w)
          /\ key' # w /\ lapses' = lapses)
         => restarts' # restarts /\ ~sched'[w]]_vars

\* A worker whose key went to another one or expired steps down, however many
\* answers it missed, unless its heartbeat was paused: then it never does.
StepsDown ==
    \A w \in Workers : sched[w] /\ key # w ~> ~sched[w] \/ key = w \/ ~Beats(w)

\* Some worker leads with a running scheduler again and again, unless one is
\* wedged: it renews the key without taking itself for the leader.
Wedged(w) == key = w /\ ~leader[w] /\ Beats(w)

Reelected ==
    []<>(\E w \in Workers : (leader[w] /\ sched[w]) \/ Wedged(w))

\* The claim of request_relinquish() and of the module's header: the
\* supervisor picks the role up again on a later tick.
RoleIsPickedUp == []<>(\E w \in Workers : leader[w])

\* The claim of start_scheduler(): once another worker has the key, the
\* scheduler is torn down.
LostLeaderStops ==
    \A w \in Workers : sched[w] /\ key \in Workers \ {w} ~> ~sched[w] \/ key = w
=============================================================================
