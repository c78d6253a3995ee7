---------------------------- MODULE CollectionRun ----------------------------
(***************************************************************************)
(* The daily bar collection of one market on one day:                      *)
(* backend/app/services/collection_service.py with the audit records of    *)
(* collection_run_service.py, the start-up clean-up of main.py and the     *)
(* admin's force_unlock().                                                 *)
(*                                                                         *)
(* Runs of any worker compete for one Redis lock.  A run reads the latest  *)
(* date of each symbol, skips what a Redis checkpoint says is processed,   *)
(* and fetches and stores the rest in batches; a rebuild deletes every bar *)
(* first.  A worker may crash at any await; the lock, the checkpoint, the  *)
(* bars and the audit records survive it.                                  *)
(***************************************************************************)
EXTENDS Integers, FiniteSets

CONSTANTS Symbols,     \* the market's symbols, never none
          Stored,      \* those with bars of earlier days at the start
          Runs,        \* runs of collect_market() and rebuild_market()
          Workers,     \* the processes
          Home,        \* the worker that hosts each run
          BatchSize,   \* symbols fetched and checkpointed together
          Free,        \* the lock key does not exist
          Ghost,       \* the key holds a token no run knows
          MaxMishaps   \* bound on failed Redis and database commands, crashes,
                       \* calls of force_unlock() and locks that expire under
                       \* a live run, together

ASSUME CollectionAssumption ==
    /\ IsFiniteSet(Symbols) /\ Stored \subseteq Symbols
    /\ Free \notin Runs /\ Ghost \notin Runs /\ Free # Ghost
    /\ BatchSize \in Nat \ {0}
    /\ Home \in [Runs -> Workers]
    /\ MaxMishaps \in Nat

VARIABLES lock,      \* owner in sp:daily_bars:{market}:lock
          pc,        \* the await a run is at
          up,        \* workers that run
          latest,    \* latest_dates of each run
          todo,      \* symbols a run has yet to process
          batch,     \* the batch being stored
          got,       \* symbols of it with bars left to upsert
          bars,      \* what the database has of each symbol
          ckpt,      \* the checkpoint set of the day
          audit,     \* status of each run's collection_runs record
          known,     \* run_id: the run knows its record
          mishaps,
          faulty,    \* history: a command failed, a finally was cut short
          tried,     \* history: symbols requested today, since the last delete
          torn,      \* history: bars were deleted after the last clear of ckpt
          breaches   \* history: how live runs lost their locks

troubles == <<mishaps, faulty>>
record == <<audit, known>>
work == <<latest, todo, batch, got>>
vars == <<lock, pc, up, work, bars, ckpt, record, troubles, tried, torn, breaches>>

\* A run opens its record, does its work inside the try, and closes.
Kinds == {"collect", "rebuild"}
Body == {"read", "load", "delete", "clear", "fetch", "store"}
Closing == {"close", "clean", "release"}
Live(r) == pc[r] \in Kinds \cup Body \cup Closing

\* The bars of a symbol: the history up to an earlier day, and the bars since.
Latest(s) == IF "recent" \in bars[s] THEN "today"
             ELSE IF "hist" \in bars[s] THEN "earlier" ELSE "none"

NoDates == [s \in Symbols |-> "none"]

Init ==
    /\ lock = Free
    /\ pc = [r \in Runs |-> "idle"]
    /\ up = {}
    /\ latest = [r \in Runs |-> NoDates]
    /\ todo = [r \in Runs |-> {}]
    /\ batch = [r \in Runs |-> {}]
    /\ got = [r \in Runs |-> {}]
    /\ bars = [s \in Symbols |-> IF s \in Stored THEN {"hist"} ELSE {}]
    /\ ckpt = {}
    /\ audit = [r \in Runs |-> "none"]
    /\ known = [r \in Runs |-> FALSE]
    /\ mishaps = 0
    /\ faulty = FALSE
    /\ tried = {}
    /\ torn = FALSE
    /\ breaches = {}

Goto(r, where) == pc' = [pc EXCEPT ![r] = where]

\* The local variables of runs that left their try block are of no more use.
Forget(runs) ==
    /\ latest' = [r \in Runs |-> IF r \in runs THEN NoDates ELSE latest[r]]
    /\ todo' = [r \in Runs |-> IF r \in runs THEN {} ELSE todo[r]]
    /\ batch' = [r \in Runs |-> IF r \in runs THEN {} ELSE batch[r]]
    /\ got' = [r \in Runs |-> IF r \in runs THEN {} ELSE got[r]]

Mishap == mishaps < MaxMishaps /\ mishaps' = mishaps + 1

Fault == Mishap /\ faulty' = TRUE

----------------------------------------------------------------------------
(* Taking the lock and opening the audit record                            *)

\* Mutant: SET without NX.
AcquireLockSET(r, k) ==
    /\ pc[r] = "idle" /\ Home[r] \in up
    /\ lock' = r
    /\ Goto(r, k)
    /\ UNCHANGED <<up, work, bars, ckpt, record, troubles, tried, torn, breaches>>

\* _acquire_lock(): SET NX EX.  Where the key exists the run returns at once,
\* which changes nothing.
AcquireLock(r, k) ==
    /\ pc[r] = "idle" /\ Home[r] \in up
    /\ lock = Free
    /\ lock' = r
    /\ Goto(r, k)
    /\ UNCHANGED <<up, work, bars, ckpt, record, troubles, tried, torn, breaches>>

\* The answer is lost, deleting the queued flag fails or the run is cancelled:
\* it gives up and nobody knows the token.
AcquireLockFails(r) ==
    /\ pc[r] = "idle" /\ Home[r] \in up
    /\ lock = Free
    /\ Fault
    /\ lock' = Ghost
    /\ Goto(r, "done")
    /\ UNCHANGED <<up, work, bars, ckpt, record, tried, torn, breaches>>

\* create_run() commits and then reads the record back.  A failure of either
\* is only logged: the run goes on and does not know its record, if there is
\* one.
CreateRun(r) ==
    /\ pc[r] \in Kinds
    /\ \/ /\ audit' = [audit EXCEPT ![r] = "running"]
          /\ known' = [known EXCEPT ![r] = TRUE]
          /\ UNCHANGED troubles
       \/ /\ Fault
          /\ \E a \in {"none", "running"} : audit' = [audit EXCEPT ![r] = a]
          /\ UNCHANGED known
    /\ Goto(r, IF pc[r] = "collect" THEN "read" ELSE "delete")
    /\ UNCHANGED <<lock, up, work, bars, ckpt, tried, torn, breaches>>

----------------------------------------------------------------------------
(* What there is to do                                                     *)

\* collect_market(): the latest date of each symbol.
ReadLatestDates(r) ==
    /\ pc[r] = "read"
    /\ \/ /\ latest' = [latest EXCEPT ![r] = [s \in Symbols |-> Latest(s)]]
          /\ Goto(r, "load")
          /\ UNCHANGED troubles
       \/ Fault /\ Goto(r, "close") /\ UNCHANGED latest
    /\ UNCHANGED <<lock, up, todo, batch, got, bars, ckpt, record, tried, torn, breaches>>

\* The checkpoint is loaded, and the symbols the database has up to today are
\* added to it; a command that fails is as an empty set or no addition.
LoadCheckpoint(r) ==
    LET fromDb == {s \in Symbols : latest[r][s] = "today"}
    IN  /\ pc[r] = "load"
        /\ \/ /\ todo' = [todo EXCEPT ![r] = Symbols \ (fromDb \cup ckpt)]
              /\ ckpt' = ckpt \cup fromDb
              /\ UNCHANGED troubles
           \/ /\ Fault
              /\ \E seen \in {{}, ckpt} :
                   todo' = [todo EXCEPT ![r] = Symbols \ (fromDb \cup seen)]
              /\ ckpt' \in {ckpt, ckpt \cup fromDb}
        /\ Goto(r, "fetch")
        /\ UNCHANGED <<lock, up, latest, batch, got, bars, record, tried, torn, breaches>>

\* rebuild_market(): every bar of the market is deleted,
DeleteBars(r) ==
    LET Deleted == /\ bars' = [s \in Symbols |-> {}]
                   /\ tried' = {}
                   /\ torn' = TRUE
    IN  /\ pc[r] = "delete"
        /\ \/ Deleted /\ Goto(r, "clear") /\ UNCHANGED troubles
           \/ /\ Fault
              /\ Deleted \/ UNCHANGED <<bars, tried, torn>>
              /\ Goto(r, "close")
        /\ UNCHANGED <<lock, up, work, ckpt, record, breaches>>

\* then the checkpoint is cleared and every symbol fetched in full.
ClearForRebuild(r) ==
    /\ pc[r] = "clear"
    /\ \/ ckpt' = {} /\ torn' = FALSE /\ UNCHANGED troubles
       \/ Fault /\ UNCHANGED <<ckpt, torn>>
    /\ todo' = [todo EXCEPT ![r] = Symbols]
    /\ latest' = [latest EXCEPT ![r] = NoDates]
    /\ Goto(r, "fetch")
    /\ UNCHANGED <<lock, up, batch, got, bars, record, tried, breaches>>

----------------------------------------------------------------------------
(* Fetching and storing                                                    *)

IsBatch(b, r) ==
    /\ b \subseteq todo[r] /\ b # {}
    /\ Cardinality(b) <= BatchSize

\* Mutant: what is processed already is not left out.
NextBatchOfAll(r) == CHOOSE b \in SUBSET Symbols : Cardinality(b) = BatchSize

\* The symbol list fixes the order; nothing depends on which it is.
NextBatch(r) == CHOOSE b \in SUBSET todo[r] : IsBatch(b, r)

\* The providers answer with bars for some of the batch; a symbol that failed
\* and one whose upsert will fail are alike: no bars, and no exception.
FetchBatch(r) ==
    /\ pc[r] = "fetch" /\ todo[r] # {}
    /\ batch' = [batch EXCEPT ![r] = NextBatch(r)]
    /\ \E answered \in SUBSET NextBatch(r) :
         got' = [got EXCEPT ![r] = answered]
    /\ tried' = tried \cup NextBatch(r)
    /\ Goto(r, "store")
    /\ UNCHANGED <<lock, up, latest, todo, bars, ckpt, record, troubles, torn, breaches>>

\* Mutant: the chunks of an upsert are written newest first.
WrittenNewestFirst(r, s) ==
    IF latest[r][s] = "none" THEN {{"recent"}, {"hist", "recent"}}
                             ELSE {{"recent"}}

\* What an upsert of the fetched bars adds: those after the latest date the
\* run read, oldest first, in chunks that commit one by one.
Written(r, s) == IF latest[r][s] = "none" THEN {{"hist"}, {"hist", "recent"}}
                                          ELSE {{"recent"}}

UpsertBars(r, s) ==
    /\ pc[r] = "store" /\ s \in got[r]
    /\ \E new \in Written(r, s) : bars' = [bars EXCEPT ![s] = @ \cup new]
    /\ got' = [got EXCEPT ![r] = @ \ {s}]
    /\ UNCHANGED <<lock, pc, up, latest, todo, batch, ckpt, record, troubles, tried, torn, breaches>>

\* Mutant: the checkpoint runs ahead of the batch.
CheckpointAll(r) ==
    /\ pc[r] = "store" /\ got[r] = {}
    /\ ckpt' = ckpt \cup todo[r]
    /\ todo' = [todo EXCEPT ![r] = @ \ batch[r]]
    /\ batch' = [batch EXCEPT ![r] = {}]
    /\ Goto(r, "fetch")
    /\ UNCHANGED <<lock, up, latest, got, bars, record, troubles, tried, torn,
                   breaches>>

\* The whole batch is checkpointed, the failed symbols included.
CheckpointBatch(r) ==
    /\ pc[r] = "store" /\ got[r] = {}
    /\ \/ ckpt' = ckpt \cup batch[r] /\ UNCHANGED troubles
       \/ Fault /\ UNCHANGED ckpt
    /\ todo' = [todo EXCEPT ![r] = @ \ batch[r]]
    /\ batch' = [batch EXCEPT ![r] = {}]
    /\ Goto(r, "fetch")
    /\ UNCHANGED <<lock, up, latest, got, bars, record, tried, torn, breaches>>

----------------------------------------------------------------------------
(* The end of a run                                                        *)

\* A run that does not know its record leaves it as it is.
AuditAs(r, status) ==
    /\ audit' = IF known[r] THEN [audit EXCEPT ![r] = status] ELSE audit
    /\ UNCHANGED known

\* complete_run(), whatever the record said before.  When it raises, the
\* finally block marks the run as interrupted.
CompleteRun(r) ==
    /\ pc[r] = "fetch" /\ todo[r] = {}
    /\ Forget({r})
    /\ \/ AuditAs(r, "completed") /\ Goto(r, "clean") /\ UNCHANGED troubles
       \/ /\ Fault
          /\ \/ AuditAs(r, "completed")
             \/ UNCHANGED record
          /\ Goto(r, "close")
    /\ UNCHANGED <<lock, up, bars, ckpt, tried, torn, breaches>>

\* fail_run(), by the exception handler or by the finally block.
FailRun(r) ==
    /\ pc[r] = "close"
    /\ \/ AuditAs(r, "failed") /\ UNCHANGED troubles
       \/ Fault /\ UNCHANGED record
    /\ Goto(r, "clean")
    /\ UNCHANGED <<lock, up, work, bars, ckpt, tried, torn, breaches>>

\* The finally block drops the checkpoint, however the run ended.
ClearCheckpoint(r) ==
    /\ pc[r] = "clean"
    /\ \/ ckpt' = {} /\ torn' = FALSE /\ UNCHANGED troubles
       \/ Fault /\ UNCHANGED <<ckpt, torn>>
    /\ Goto(r, "release")
    /\ UNCHANGED <<lock, up, work, bars, record, tried, breaches>>

\* Mutant: DEL without comparing the owner.
UnlockedUnchecked(r) == Free

\* The compare-and-delete script of _release_lock().
UnlockedBy(r) == IF lock = r THEN Free ELSE lock

ReleaseLock(r) ==
    /\ pc[r] = "release"
    /\ \/ lock' = UnlockedBy(r) /\ UNCHANGED troubles
       \/ Fault /\ UNCHANGED lock
    /\ Goto(r, "done")
    /\ UNCHANGED <<up, work, bars, ckpt, record, tried, torn, breaches>>

\* Mutant: a cancelled run skips its finally block's audit.
CancelUnaudited(r) ==
    /\ pc[r] \in Body
    /\ Goto(r, "clean")
    /\ Forget({r})
    /\ UNCHANGED <<lock, up, bars, ckpt, record, troubles, tried, torn,
                   breaches>>

\* The task is cancelled, as by a teardown of its scheduler.  create_run() is
\* awaited before the try: a run cancelled there never releases its lock, and
\* after the commit it leaves a record that says running.
Cancel(r) ==
    /\ \/ pc[r] \in Body /\ Goto(r, "close") /\ UNCHANGED audit
       \/ /\ pc[r] \in Kinds /\ Goto(r, "done")
          /\ \E a \in {"none", "running"} : audit' = [audit EXCEPT ![r] = a]
    /\ UNCHANGED known
    /\ Forget({r})
    /\ UNCHANGED <<lock, up, bars, ckpt, troubles, tried, torn, breaches>>

\* The finally block awaits, too: a cancellation there skips the rest of it.
CancelClosing(r) ==
    /\ pc[r] \in Closing
    /\ Fault
    /\ Goto(r, "done")
    /\ UNCHANGED <<lock, up, work, bars, ckpt, record, tried, torn, breaches>>

----------------------------------------------------------------------------
(* Crashes, start-up, time and the administrator                           *)

TakenFromLive == \E r \in Runs : lock = r /\ Live(r)
BreachBy(cause) == IF TakenFromLive THEN {cause} ELSE {}

Crash(w) ==
    /\ w \in up
    /\ Mishap
    /\ up' = up \ {w}
    /\ pc' = [r \in Runs |-> IF Home[r] = w /\ Live(r) THEN "dead" ELSE pc[r]]
    /\ Forget({r \in Runs : Home[r] = w})
    /\ UNCHANGED <<faulty, lock, bars, ckpt, record, tried, torn, breaches>>

\* The lifespan of main.py: records that say running and are two hours old
\* become failed (a run that old has outlived its lock), then every lock goes.
Startup(w) ==
    /\ w \notin up
    /\ up' = up \cup {w}
    /\ \E old \in SUBSET {r \in Runs : audit[r] = "running" /\ lock # r} :
         audit' = [r \in Runs |-> IF r \in old THEN "failed" ELSE audit[r]]
    /\ UNCHANGED known
    /\ lock' = Free
    /\ breaches' = breaches \cup BreachBy("startup")
    /\ UNCHANGED <<pc, work, bars, ckpt, troubles, tried, torn>>

\* A live run takes longer than _LOCK_TTL.
Lapse ==
    /\ TakenFromLive
    /\ Mishap
    /\ lock' = Free
    /\ breaches' = breaches \cup {"lapse"}
    /\ UNCHANGED <<faulty, pc, up, work, bars, ckpt, record, tried, torn>>

\* Mutant: SET NX without EX.
ExpireNever == FALSE /\ UNCHANGED vars

\* The lock of a run that ended without releasing it expires.
Expire ==
    /\ lock # Free /\ ~TakenFromLive
    /\ lock' = Free
    /\ UNCHANGED <<pc, up, work, bars, ckpt, record, troubles, tried, torn, breaches>>

\* force_unlock(): the lock goes, its run goes on.
ForceUnlock ==
    /\ lock # Free
    /\ Mishap
    /\ lock' = Free
    /\ breaches' = breaches \cup BreachBy("unlock")
    /\ UNCHANGED <<faulty, pc, up, work, bars, ckpt, record, tried, torn>>

----------------------------------------------------------------------------

Step(r) ==
    \/ CreateRun(r) \/ ReadLatestDates(r) \/ LoadCheckpoint(r)
    \/ DeleteBars(r) \/ ClearForRebuild(r)
    \/ FetchBatch(r)
    \/ \E s \in Symbols : UpsertBars(r, s)
    \/ CheckpointBatch(r) \/ CompleteRun(r)
    \/ FailRun(r) \/ ClearCheckpoint(r) \/ ReleaseLock(r)

Next ==
    \/ \E r \in Runs : \/ (\E k \in Kinds : AcquireLock(r, k))
                       \/ AcquireLockFails(r) \/ Step(r)
                       \/ Cancel(r) \/ CancelClosing(r)
    \/ \E w \in Workers : Crash(w) \/ Startup(w)
    \/ Lapse \/ Expire \/ ForceUnlock

Spec == Init /\ [][Next]_vars

\* A run that started goes on, every call it awaits having a timeout, and
\* Redis expires keys.  Nobody has to start a run or a worker.
FairSpec == /\ Spec
            /\ \A r \in Runs : WF_vars(Step(r))
            /\ WF_vars(Expire)

----------------------------------------------------------------------------
(* Properties                                                              *)

\* Types; and what is left to store is part of the batch, the batch of todo.
TypeOK ==
    /\ lock \in Runs \cup {Free, Ghost}
    /\ pc \in [Runs -> {"idle", "done", "dead"} \cup Kinds \cup Body
                       \cup Closing]
    /\ up \subseteq Workers
    /\ latest \in [Runs -> [Symbols -> {"none", "earlier", "today"}]]
    /\ todo \in [Runs -> SUBSET Symbols]
    /\ batch \in [Runs -> SUBSET Symbols]
    /\ got \in [Runs -> SUBSET Symbols]
    /\ \A r \in Runs : pc[r] = "store" => /\ got[r] \subseteq batch[r]
                                          /\ batch[r] \subseteq todo[r]
    /\ bars \in [Symbols -> SUBSET {"hist", "recent"}]
    /\ ckpt \subseteq Symbols
    /\ audit \in [Runs -> {"none", "running", "completed", "failed"}]
    /\ known \in [Runs -> BOOLEAN]
    /\ mishaps \in 0..MaxMishaps
    /\ faulty \in BOOLEAN
    /\ tried \subseteq Symbols
    /\ torn \in BOOLEAN
    /\ breaches \subseteq {"lapse", "unlock", "startup"}

\* As long as no live run lost its lock (to its time to live, to a worker's
\* start-up, to the administrator), at most one run works on the market,
\* whatever crashes, cancellations and lost commands there were.
Exclusive == breaches = {} => \A q, r \in Runs : Live(q) /\ Live(r) => q = r

\* Then, too, no symbol has recent bars without its history: such a gap would
\* never be filled, the next run fetches only what is after the latest date.
NoGap == breaches = {} =>
           \A s \in Symbols : "recent" \in bars[s] => "hist" \in bars[s]

\* Then, too, a run recorded as completed left no symbol out: each was
\* requested today and since the bars were last deleted, by this run or by
\* earlier runs whose checkpoint it resumed.  Excepted is a checkpoint that
\* outlived a rebuild's delete because its clear failed or was never reached.
CompletedCoversAll ==
    [][breaches = {} /\ ~torn =>
         \A r \in Runs : audit'[r] = "completed" /\ audit[r] # "completed"
                           => tried = Symbols]_vars

\* Unless a command failed or its finally was cut short, a run that got beyond
\* create_run() knows its record and, by whatever path it ends, leaves it closed.
\* One that is cancelled inside create_run(), after the commit, leaves a record
\* that says running until a start-up two hours later.
AuditClosed ==
    ~faulty => \A r \in Runs :
      /\ pc[r] \in Body \cup Closing => known[r]
      /\ pc[r] = "done" /\ known[r] => audit[r] # "running"

\* The lock of a live run never goes by what another run does, be it one that
\* outlived its own lock.
OthersKeepLock ==
    [][\A r \in Runs :
         lock = r /\ Live(r) /\ lock' # r =>
           pc[r] = "release" \/ mishaps' # mishaps \/ up' # up]_vars

\* Whatever becomes of the run that holds it, the lock comes free again.
LockFreed == []<>(lock = Free)

\* The claim of _checkpoint_clear(): the checkpoint is dropped after a run that
\* succeeded, or by a rebuild; an interrupted run leaves it to be resumed from.
DroppedOnSuccess ==
    [][ckpt # {} /\ ckpt' = {} /\ ~faulty =>
         \E r \in Runs : \/ pc[r] = "clear"
                         \/ pc[r] = "clean" /\ audit[r] = "completed"]_vars
=============================================================================
