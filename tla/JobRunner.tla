----------------------------- MODULE JobRunner -----------------------------
(***************************************************************************)
(* The collection jobs beside the daily bars, one kind for one market at a *)
(* time: _run_job() of backend/app/services/ml_collection_service.py and   *)
(* of fundamentals_collection_service.py, the jobs of the former that have *)
(* its frame without its batches, and collect_market_profiles() of         *)
(* profile_collection_service.py.  The scheduler and the administrator     *)
(* (backend/app/api/admin/collection.py, which keeps a registry of its     *)
(* tasks per worker) start them on any worker; a Redis lock keeps them     *)
(* apart.                                                                  *)
(*                                                                         *)
(* symbol_resolver.get_symbols() falls back to a list of its own, so the   *)
(* branches for a market without symbols are never taken.  A unit of work  *)
(* is a symbol, a source or a chunk; units differ in nothing and are       *)
(* counted.                                                                *)
(***************************************************************************)
EXTENDS Integers, FiniteSets

CONSTANTS Kinds,       \* the kinds of job looked at
          Units,       \* number of units of work of a job
          Limit,       \* _NB_CONSECUTIVE_FAIL_LIMIT
          MaxTasks,    \* bound on started tasks
          Workers,     \* the processes
          MaxMishaps   \* bound on failed commands, crashes, lost locks

\* A kind: how many units are in flight together, whether it keeps a record
\* and shows its progress, whether a failed unit ends it and whether failures
\* in a row do.
SymbolJob(n) == [batch |-> n, record |-> TRUE, shown |-> TRUE, fatal |-> FALSE,
                 breaker |-> FALSE]
Northbound(n) == [SymbolJob(n) EXCEPT !.breaker = TRUE]
CnAlternative == SymbolJob(1)
EarningsCalendar == [SymbolJob(1) EXCEPT !.shown = FALSE, !.fatal = TRUE]
MacroDaily == [SymbolJob(1) EXCEPT !.shown = FALSE]
EconomicIndicators == MacroDaily
BackfillMacro == [MacroDaily EXCEPT !.record = FALSE]
MarketProfiles == [SymbolJob(1) EXCEPT !.record = FALSE]

ASSUME JobAssumption ==
    /\ \A k \in Kinds : k.batch \in Nat \ {0}
    /\ {Units, Limit} \subseteq Nat \ {0}
    /\ {MaxTasks, MaxMishaps} \subseteq Nat

Tasks == 1..MaxTasks
NoTask == 0
NotStarted == [pc |-> "idle", w |-> "none", todo |-> Units, flying |-> 0,
               fails |-> 0, stored |-> 0, rows |-> 0, upserted |-> 0,
               run |-> "none", final |-> FALSE, lost |-> FALSE,
               callback |-> FALSE]

VARIABLES kind,      \* the kind of job of this behaviour
          task,      \* the tasks: where each is and its local variables
          registry,  \* of each worker: its entry for the job, NoTask for none
          lock,      \* owner in the lock key, NoTask when it does not exist
          progress,  \* the task whose progress record is in Redis, or NoTask
          mishaps,
          faulty     \* history: a command failed, a task was cut short

jrVars == <<kind, task, registry, lock, progress, mishaps, faulty>>

\* Where a task works, and where the lock is its own.
Body == {"start", "work", "complete", "fail"}
Inside == {"create", "finally", "clear", "release"} \cup Body
Live(t) == task[t].pc \in {"acquire"} \cup Inside

\* A task that ended keeps its record; its local variables are gone.
Ended(x) == [NotStarted EXCEPT !.pc = "ended", !.w = x.w, !.todo = 0,
               !.run = x.run, !.lost = x.lost, !.callback = x.callback]
Becomes(t, x) == task' = [task EXCEPT ![t] = x]
Goto(t, where) == task' = [task EXCEPT ![t].pc = where]
End(t) == task' = [task EXCEPT ![t] = Ended(@)]
Mishap == mishaps < MaxMishaps /\ mishaps' = mishaps + 1
Fault == Mishap /\ faulty' = TRUE
NoMishap == UNCHANGED <<mishaps, faulty>>

-----------------------------------------------------------------------------
(* The registry of the administrator's tasks. *)

Next1(t) == task[t].pc = "idle" /\ \A u \in 1..(t - 1) : task[u].pc # "idle"

\* Of a task that runs the answer is "already_running", which changes nothing.
Trigger(w, t) ==
    /\ Next1(t)
    /\ registry[w] # NoTask => task[registry[w]].pc = "ended"
    /\ Becomes(t, [task[t] EXCEPT !.pc = "acquire", !.w = w, !.callback = TRUE])
    /\ registry' = [registry EXCEPT ![w] = t]
    /\ UNCHANGED <<kind, lock, progress>> /\ NoMishap

Schedule(w, t) ==
    /\ Next1(t)
    /\ Becomes(t, [task[t] EXCEPT !.pc = "acquire", !.w = w])
    /\ UNCHANGED <<kind, registry, lock, progress>> /\ NoMishap

\* The done callback comes after done(), and takes whatever entry there is.
Cleanup(t) ==
    /\ task[t].pc = "ended" /\ task[t].callback
    /\ Becomes(t, [task[t] EXCEPT !.callback = FALSE])
    /\ registry' = [registry EXCEPT ![task[t].w] = NoTask]
    /\ UNCHANGED <<kind, lock, progress>> /\ NoMishap

-----------------------------------------------------------------------------
(* The frame of a job. *)

\* What comes next: jobs without a record have none to close, and the macro
\* backfill has no progress to clear.
AfterBody == IF kind.record THEN "finally"
             ELSE IF kind.shown THEN "clear" ELSE "release"
FirstStep == IF kind.record THEN "create" ELSE "start"
AfterWork == IF kind.record THEN "complete" ELSE AfterBody

\* Mutant: SET without NX.
AcquireLockSET(t) ==
    /\ task[t].pc = "acquire"
    /\ lock' = t /\ Goto(t, FirstStep)
    /\ UNCHANGED <<kind, registry, progress>> /\ NoMishap

\* SET NX; when Redis fails the job does not run, and the key may exist.
AcquireLock(t) ==
    /\ task[t].pc = "acquire"
    /\ \/ /\ lock = NoTask
          /\ lock' = t /\ Goto(t, FirstStep) /\ NoMishap
       \/ /\ lock # NoTask
          /\ UNCHANGED lock /\ End(t) /\ NoMishap
       \/ /\ lock' \in IF lock = NoTask THEN {NoTask, t} ELSE {lock}
          /\ End(t) /\ Fault
    /\ UNCHANGED <<kind, registry, progress>>

\* Without a record the job runs all the same; one whose answer was lost stays.
CreateRun(t) ==
    /\ task[t].pc = "create"
    /\ \/ /\ Becomes(t, [task[t] EXCEPT !.pc = "start", !.run = "running"])
          /\ NoMishap
       \/ /\ \E r \in {"none", "orphan"} :
               Becomes(t, [task[t] EXCEPT !.pc = "start", !.run = r])
          /\ Fault
    /\ UNCHANGED <<kind, registry, lock, progress>>

\* gather() over the next batch: its calls all ask before any gets an answer.
\* A symbol is skipped when too many in a row had nothing.
Smaller(a, b) == IF a < b THEN a ELSE b

\* Mutant: the breaker is not looked at.
NextBatchAnyway(x) ==
    LET n == Smaller(x.todo, kind.batch)
    IN [x EXCEPT !.todo = @ - n, !.flying = n]

NextBatch(x) ==
    LET n == Smaller(x.todo, kind.batch)
    IN [x EXCEPT !.todo = @ - n,
                 !.flying = IF kind.breaker /\ x.fails >= Limit THEN 0 ELSE n]

StartWork(t) ==
    /\ task[t].pc = "start"
    /\ Becomes(t, NextBatch([task[t] EXCEPT !.pc = "work"]))
    /\ UNCHANGED <<kind, registry, lock, progress>> /\ NoMishap

\* A unit's rows are stored, up to the failing one, and are its result.
Stored(t) ==
    LET x == task[t] IN
    /\ x.pc = "work" /\ x.flying > 0
    /\ Becomes(t, [x EXCEPT !.flying = @ - 1, !.fails = 0, !.stored = @ + 1,
                            !.rows = @ + 1])
    /\ UNCHANGED <<kind, registry, lock, progress>> /\ NoMishap

\* Nothing to store, or an exception, which is noted or ends the job; one of the
\* upsert has set the failures in a row back before.
Empty(t) ==
    LET x == task[t] IN
    /\ x.pc = "work" /\ x.flying > 0
    /\ \E f \in IF kind.breaker THEN {x.fails + 1, 1} ELSE {0} :
         Becomes(t, [x EXCEPT !.flying = @ - 1, !.fails = f,
                              !.pc = IF kind.fatal THEN "fail" ELSE @])
    /\ UNCHANGED <<kind, registry, lock, progress>> /\ NoMishap

\* After a batch its results are added up and the progress is shown.
EndBatch(t) ==
    LET x == [task[t] EXCEPT !.upserted = @ + task[t].rows, !.rows = 0] IN
    /\ x.pc = "work" /\ x.flying = 0
    /\ Becomes(t, IF x.todo = 0 THEN [x EXCEPT !.pc = AfterWork]
                                ELSE NextBatch(x))
    /\ \/ progress' = (IF kind.shown THEN t ELSE progress) /\ NoMishap
       \/ kind.shown /\ UNCHANGED progress /\ Fault
    /\ UNCHANGED <<kind, registry, lock>>

\* Any other exception ends the job; the macro backfill asks for the pool before
\* its try block, and leaves the lock behind.
Raise(t) ==
    /\ task[t].pc = "start" \/ (task[t].pc = "work" /\ task[t].flying = 0)
    /\ \/ /\ kind # BackfillMacro \/ task[t].pc = "work"
          /\ Goto(t, IF kind.record THEN "fail" ELSE AfterBody) /\ NoMishap
       \/ /\ kind = BackfillMacro /\ task[t].pc = "start"
          /\ End(t) /\ Fault
    /\ UNCHANGED <<kind, registry, lock, progress>>

\* The run's record, by its id, and then the flag run_finalized.
Closed(x, status) ==
    [x EXCEPT !.run = IF @ \in {"none", "orphan"} THEN @ ELSE status]

CloseRun(t, step, status) ==
    /\ task[t].pc = step
    /\ \/ /\ Becomes(t, [Closed(task[t], status) EXCEPT
                           !.pc = "finally", !.final = TRUE])
          /\ NoMishap
       \/ /\ \E x \in {task[t], Closed(task[t], status)} :
               Becomes(t, [x EXCEPT !.pc = "finally"])
          /\ Fault
    /\ UNCHANGED <<kind, registry, lock, progress>>

CompleteRun(t) == CloseRun(t, "complete", "completed")
FailRun(t) == CloseRun(t, "fail", "failed")

\* Mutant: the record is not closed in the finally block.
FinallyUnaudited(t) ==
    /\ task[t].pc = "finally"
    /\ Goto(t, "clear") /\ NoMishap
    /\ UNCHANGED <<kind, registry, lock, progress>>

\* Mutant: the lock is released before the progress is cleared.
FinallyReleasesFirst(t) ==
    LET x == task[t] IN
    /\ x.pc = "finally"
    /\ Becomes(t, [IF x.final THEN x ELSE Closed(x, "failed")
                     EXCEPT !.pc = "clear"])
    /\ lock' = IF lock = t THEN NoTask ELSE lock
    /\ UNCHANGED <<kind, registry, progress>> /\ NoMishap

\* The finally block: what was not closed was interrupted.
Finally(t) ==
    LET x == task[t] IN
    /\ x.pc = "finally"
    /\ \/ /\ Becomes(t, [IF x.final THEN x ELSE Closed(x, "failed")
                           EXCEPT !.pc = "clear"])
          /\ NoMishap
       \/ ~x.final /\ Goto(t, "clear") /\ Fault
    /\ UNCHANGED <<kind, registry, lock, progress>>

\* Whoever's record it is.
ClearProgress(t) ==
    /\ task[t].pc = "clear" /\ Goto(t, "release")
    /\ \/ /\ progress' = (IF kind = BackfillMacro THEN progress ELSE NoTask)
          /\ NoMishap
       \/ UNCHANGED progress /\ Fault
    /\ UNCHANGED <<kind, registry, lock>>

\* Compare and delete.
ReleaseLock(t) ==
    /\ task[t].pc = "release" /\ End(t)
    /\ \/ lock' = (IF lock = t THEN NoTask ELSE lock) /\ NoMishap
       \/ UNCHANGED lock /\ Fault
    /\ UNCHANGED <<kind, registry, progress>>

-----------------------------------------------------------------------------
(* What may happen to a task. *)

\* A job that is cancelled inside its try block goes on with the finally block,
\* after a record was perhaps completed; elsewhere it just ends.
Cancel(t) ==
    LET x == task[t] IN
    /\ \/ /\ x.pc \in Body
          /\ \E y \in IF x.pc = "complete" THEN {x, Closed(x, "completed")}
                                           ELSE {x} :
               Becomes(t, [y EXCEPT !.pc = AfterBody, !.flying = 0])
          /\ UNCHANGED lock /\ NoMishap
       \/ /\ x.pc \in {"acquire", "create", "finally", "clear", "release"}
          /\ End(t) /\ Fault
          /\ lock' \in IF x.pc = "acquire" /\ lock = NoTask THEN {NoTask, t}
                                                            ELSE {lock}
    /\ UNCHANGED <<kind, registry, progress>>

Crash(w) ==
    /\ \E t \in Tasks : Live(t) /\ task[t].w = w
    /\ task' = [t \in Tasks |->
                  IF task[t].w = w THEN [Ended(task[t]) EXCEPT !.callback = FALSE]
                                   ELSE task[t]]
    /\ registry' = [registry EXCEPT ![w] = NoTask]
    /\ Fault
    /\ UNCHANGED <<kind, lock, progress>>

\* The key expires, the administrator deletes it, or a starting process does.
LoseLock ==
    /\ lock # NoTask
    /\ lock' = NoTask
    /\ \/ Mishap
       \/ task[lock].pc = "ended" /\ UNCHANGED mishaps
    /\ task' = [task EXCEPT ![lock].lost = (@ \/ Live(lock))]
    /\ UNCHANGED <<kind, registry, progress, faulty>>

\* The progress record of a task that is no more expires.
ExpireProgress ==
    /\ progress # NoTask /\ task[progress].pc = "ended"
    /\ progress' = NoTask
    /\ UNCHANGED <<kind, task, registry, lock>> /\ NoMishap

-----------------------------------------------------------------------------
JrInit ==
    /\ kind \in Kinds
    /\ task = [t \in Tasks |-> NotStarted]
    /\ registry = [w \in Workers |-> NoTask]
    /\ lock = NoTask /\ progress = NoTask
    /\ mishaps = 0 /\ faulty = FALSE

Step(t) == \/ AcquireLock(t) \/ CreateRun(t)
           \/ StartWork(t) \/ Stored(t) \/ Empty(t) \/ EndBatch(t) \/ Raise(t)
           \/ CompleteRun(t) \/ FailRun(t)
           \/ Finally(t) \/ ClearProgress(t) \/ ReleaseLock(t)

JrNext ==
    \/ \E t \in Tasks : \/ \E w \in Workers : Trigger(w, t) \/ Schedule(w, t)
                        \/ Cleanup(t) \/ Step(t) \/ Cancel(t)
    \/ \E w \in Workers : Crash(w)
    \/ LoseLock \/ ExpireProgress

JrSpec == JrInit /\ [][JrNext]_jrVars

-----------------------------------------------------------------------------
(* Properties. *)

\* Two tasks are never both inside, however often the registry forgets a task
\* that runs, unless one of them lost its lock.
JobsAreExclusive ==
    \A t, u \in Tasks :
      /\ t # u /\ task[t].pc \in Inside /\ task[u].pc \in Inside
      => task[t].lost \/ task[u].lost

\* A task that ended leaves no record open unless a command failed or it was
\* cut short, and a completed record counts every unit and the rows stored.
JobsAreRecorded ==
    \A t \in Tasks :
      LET x == task[t] IN
      /\ x.pc = "ended" /\ ~faulty => x.run # "running"
      /\ x.run = "completed" /\ x.pc # "ended" => x.todo = 0 /\ x.flying = 0
                                /\ x.upserted = x.stored

\* While no lock was lost, the progress shown of a task that works is taken
\* away by nobody else.
OthersKeepProgress ==
    [][\A t \in Tasks :
         /\ progress = t /\ task[t].pc \in Inside /\ task'[t].pc = task[t].pc
         /\ \A u \in Tasks : ~task[u].lost
         => progress' = t]_jrVars

\* A source that has nothing is left alone: failures in a row pass the limit by
\* the rest of a batch at most, also when they overtake each other.
BreakerHolds ==
    \A t \in Tasks : kind.breaker => task[t].fails < Limit + kind.batch
=============================================================================
