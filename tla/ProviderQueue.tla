--------------------------- MODULE ProviderQueue ---------------------------
(***************************************************************************)
(* One ProviderQueue of backend/app/core/provider_queue.py: the rate       *)
(* limited priority queue in front of an external data provider.  Callers  *)
(* submit calls; one processor task takes them in (priority, seq) order,   *)
(* waits for a concurrency slot and a rate token, and dispatches each as a *)
(* task of its own that resolves the caller's future.                      *)
(*                                                                         *)
(* asyncio runs a task without interruption up to its next suspension, so  *)
(* an action is the code between two suspensions.  The processor suspends  *)
(* in three places: on an empty queue ("get"), on the semaphore ("sem")    *)
(* and between two polls of the token bucket ("bucket").                   *)
(***************************************************************************)
EXTENDS Integers, FiniteSets

CONSTANTS Calls,          \* the calls that may be submitted, each once
          Prio,           \* the priority of each call, lower is more urgent
          MaxConcurrent,  \* dispatched calls the semaphore lets run at once
          Capacities,     \* the burst capacities update_rate may install
          InitCapacity,   \* the capacity the queue is created with
          MaxStops,       \* bound on the calls of stop()
          NoCall          \* no call is held by the processor

FRONTEND == 1
High(c) == Prio[c] <= FRONTEND

ASSUME QueueAssumption ==
    /\ IsFiniteSet(Calls)
    /\ NoCall \notin Calls
    /\ Prio \in [Calls -> Nat]
    /\ MaxConcurrent \in Nat \ {0}
    /\ Capacities \subseteq Nat \ {0}
    /\ \E m \in Capacities : \A n \in Capacities : n <= m
    /\ InitCapacity \in Capacities
    /\ MaxStops \in Nat

Outcomes == {"result", "error", "cancelled"}

VARIABLES queue,      \* calls in the PriorityQueue
          nextSeq,    \* the module's _sequence counter
          seq,        \* sequence number of each submitted call
          fut,        \* state of each caller's future
          pc,         \* where the processor is suspended, "off" without one
          held,       \* the item the processor took and has not dispatched
          granted,    \* the semaphore waiter of the processor was woken
          permits,    \* value of the semaphore
          running,    \* calls dispatched and not finished (_in_flight of them)
          hp,         \* _high_priority_pending
          cap,        \* capacity of the token bucket
          credit,     \* tokens the next refill finds, before the clamp to cap
          stops,      \* completed calls of stop()
          burst,      \* history: dispatches since a token last accrued
          overtaken   \* history: less urgent dispatches while a call queued

vars == <<queue, nextSeq, seq, fut, pc, held, granted, permits, running, hp,
          cap, credit, stops, burst, overtaken>>

MinOf(a, b) == IF a <= b THEN a ELSE b
MaxOf(a, b) == IF a >= b THEN a ELSE b
MaxCapacity == CHOOSE m \in Capacities : \A n \in Capacities : n <= m

\* Mutant: last in, first out.
BeforeLatest(c, d) == seq[c] > seq[d]

\* The order of _QueueItem: priority first, then sequence number.
Before(c, d) == \/ Prio[c] < Prio[d]
                \/ Prio[c] = Prio[d] /\ seq[c] < seq[d]

IsFirst(c) == c \in queue /\ \A d \in queue \ {c} : Before(c, d)

Init ==
    /\ queue = {}
    /\ nextSeq = 0
    /\ seq = [c \in Calls |-> 0]
    /\ fut = [c \in Calls |-> "new"]
    /\ pc = "off"
    /\ held = NoCall
    /\ granted = FALSE
    /\ permits = MaxConcurrent
    /\ running = {}
    /\ hp = 0
    /\ cap = InitCapacity
    /\ credit = InitCapacity
    /\ stops = 0
    /\ burst = 0
    /\ overtaken = [c \in Calls |-> 0]

----------------------------------------------------------------------------
(* Callers                                                                 *)

\* Mutant: the counter is never decremented.
HpKept(c) == hp

HpAfter(c) == IF High(c) THEN MaxOf(0, hp - 1) ELSE hp

\* submit(): create the future, enqueue the item, then await the future.
\* Nothing checks that a processor runs.
Submit(c) ==
    /\ fut[c] = "new"
    /\ fut' = [fut EXCEPT ![c] = "pending"]
    /\ nextSeq' = nextSeq + 1
    /\ seq' = [seq EXCEPT ![c] = nextSeq']
    /\ queue' = queue \cup {c}
    /\ hp' = IF High(c) THEN hp + 1 ELSE hp
    /\ UNCHANGED <<pc, held, granted, permits, running, cap, credit, stops,
                   burst, overtaken>>

\* The task awaiting the future is cancelled (a client gone, an outer
\* timeout): the future is cancelled, the item stays wherever it is.
Abandon(c) ==
    /\ fut[c] = "pending"
    /\ fut' = [fut EXCEPT ![c] = "cancelled"]
    /\ UNCHANGED <<queue, nextSeq, seq, pc, held, granted, permits, running,
                   hp, cap, credit, stops, burst, overtaken>>

----------------------------------------------------------------------------
(* The token bucket                                                        *)

\* Time passes and one more token accrues.  More than MaxCapacity tokens are
\* never observable, every use clamps them to the capacity first.
Accrue ==
    /\ credit < MaxCapacity \/ burst > 0
    /\ credit' = MinOf(MaxCapacity, credit + 1)
    /\ burst' = 0
    /\ UNCHANGED <<queue, nextSeq, seq, fut, pc, held, granted, permits,
                   running, hp, cap, stops, overtaken>>

\* Mutant: a rate change fills the bucket.
UpdateRateFull(n) ==
    /\ n # cap
    /\ cap' = n
    /\ credit' = n
    /\ UNCHANGED <<queue, nextSeq, seq, fut, pc, held, granted, permits,
                   running, hp, stops, burst, overtaken>>

\* update_rate(): the new capacity takes effect at the next refill; the
\* tokens and the semaphore stay as they are.
UpdateRate(n) ==
    /\ n # cap
    /\ cap' = n
    /\ UNCHANGED <<queue, nextSeq, seq, fut, pc, held, granted, permits,
                   running, hp, credit, stops, burst, overtaken>>

Refilled == MinOf(cap, credit)
HasToken == Refilled >= 1

----------------------------------------------------------------------------
(* The processor task                                                      *)

\* start(): a no-op while a processor runs.
Start ==
    /\ pc = "off"
    /\ pc' = "get"
    /\ UNCHANGED <<queue, nextSeq, seq, fut, held, granted, permits, running,
                   hp, cap, credit, stops, burst, overtaken>>

\* The token is taken and the item becomes a task; the processor goes back to
\* the queue.  waiting is the queue it leaves behind.
Dispatch(c, waiting) ==
    /\ running' = running \cup {c}
    /\ credit' = Refilled - 1
    /\ burst' = burst + 1
    /\ overtaken' = [d \in Calls |->
                       IF d \in waiting /\ Prio[d] < Prio[c]
                         THEN overtaken[d] + 1 ELSE overtaken[d]]
    /\ pc' = "get"
    /\ held' = NoCall
    /\ granted' = FALSE

\* No token yet: sleep, still holding the item and its slot.
AwaitToken(c) ==
    /\ credit' = Refilled
    /\ pc' = "bucket"
    /\ held' = c
    /\ granted' = FALSE
    /\ UNCHANGED <<running, burst, overtaken>>

\* The item's future is already done: drop it.
TakeDone(c) ==
    /\ pc = "get" /\ IsFirst(c)
    /\ fut[c] # "pending"
    /\ queue' = queue \ {c}
    /\ hp' = HpAfter(c)
    /\ UNCHANGED <<nextSeq, seq, fut, pc, held, granted, permits, running, cap,
                   credit, stops, burst, overtaken>>

\* No slot: suspend in sem.acquire() with the item in hand.
TakeAndWait(c) ==
    /\ pc = "get" /\ IsFirst(c)
    /\ fut[c] = "pending"
    /\ permits = 0
    /\ queue' = queue \ {c}
    /\ held' = c
    /\ pc' = "sem"
    /\ granted' = FALSE
    /\ UNCHANGED <<nextSeq, seq, fut, permits, running, hp, cap, credit, stops,
                   burst, overtaken>>

\* Mutant: does not wait for a slot.
TakeWithoutSlot(c) ==
    /\ pc = "get" /\ IsFirst(c)
    /\ fut[c] = "pending"
    /\ permits' = permits - 1
    /\ queue' = queue \ {c}
    /\ \/ HasToken /\ Dispatch(c, queue \ {c})
       \/ ~HasToken /\ AwaitToken(c)
    /\ UNCHANGED <<nextSeq, seq, fut, hp, cap, stops>>

\* A slot is free: take it, and a token when there is one.
TakeWithSlot(c) ==
    /\ pc = "get" /\ IsFirst(c)
    /\ fut[c] = "pending"
    /\ permits > 0
    /\ permits' = permits - 1
    /\ queue' = queue \ {c}
    /\ \/ HasToken /\ Dispatch(c, queue \ {c})
       \/ ~HasToken /\ AwaitToken(c)
    /\ UNCHANGED <<nextSeq, seq, fut, hp, cap, stops>>

\* The woken semaphore waiter resumes; its slot was taken when it was woken.
SlotGranted ==
    /\ pc = "sem" /\ granted
    /\ \/ HasToken /\ Dispatch(held, queue)
       \/ ~HasToken /\ AwaitToken(held)
    /\ UNCHANGED <<queue, nextSeq, seq, fut, permits, hp, cap, stops>>

\* The next poll of the bucket that finds a token.
TokenFound ==
    /\ pc = "bucket" /\ HasToken
    /\ Dispatch(held, queue)
    /\ UNCHANGED <<queue, nextSeq, seq, fut, permits, hp, cap, stops>>

----------------------------------------------------------------------------
(* A dispatched call                                                       *)

\* Mutant: a slot nobody waits for is forgotten.
ReleaseOnlyToWaiter ==
    IF pc = "sem" /\ ~granted
      THEN granted' = TRUE /\ UNCHANGED permits
      ELSE UNCHANGED <<granted, permits>>

\* Mutant: a slot is put back without waking the waiter.
ReleaseUncounted ==
    permits' = permits + 1 /\ UNCHANGED granted

\* Semaphore.release(): wake the waiter, which then owns the slot, or free it.
Release ==
    IF pc = "sem" /\ ~granted
      THEN granted' = TRUE /\ UNCHANGED permits
      ELSE permits' = permits + 1 /\ UNCHANGED granted

\* _execute_item() ends: the function returned, raised or ran into its
\* timeout, or the executor cancelled it.
Finish(c, outcome) ==
    /\ c \in running
    /\ fut' = IF fut[c] = "pending" THEN [fut EXCEPT ![c] = outcome] ELSE fut
    /\ hp' = HpAfter(c)
    /\ running' = running \ {c}
    /\ Release
    /\ UNCHANGED <<queue, nextSeq, seq, pc, held, cap, credit, stops, burst,
                   overtaken>>

----------------------------------------------------------------------------
(* Shutdown                                                                *)

\* What cancelling the processor adds to the semaphore.  The handler releases
\* a slot wherever the cancellation struck; a waiter that had been woken has
\* its slot given back by acquire() itself as well.
SlotsOnCancel == CASE pc = "bucket" -> 1
                   [] pc = "sem" /\ granted -> 2
                   [] pc = "sem" /\ ~granted -> 1
                   [] OTHER -> 0

\* Mutant: the drained items keep their futures.
StopWithoutDrain ==
    /\ stops < MaxStops
    /\ stops' = stops + 1
    /\ permits' = permits + SlotsOnCancel
    /\ pc' = "off"
    /\ held' = NoCall
    /\ granted' = FALSE
    /\ queue' = {}
    /\ UNCHANGED <<nextSeq, seq, fut, running, hp, cap, credit, burst,
                   overtaken>>

\* stop(): cancel the processor, then cancel the futures still in the queue.
\* The steps other tasks take in between commute with these.
Stop ==
    /\ stops < MaxStops
    /\ stops' = stops + 1
    /\ permits' = permits + SlotsOnCancel
    /\ pc' = "off"
    /\ held' = NoCall
    /\ granted' = FALSE
    /\ queue' = {}
    /\ fut' = [c \in Calls |-> IF c \in queue /\ fut[c] = "pending"
                                 THEN "cancelled" ELSE fut[c]]
    /\ UNCHANGED <<nextSeq, seq, running, hp, cap, credit, burst, overtaken>>

----------------------------------------------------------------------------

Take(c) == TakeDone(c) \/ TakeAndWait(c) \/ TakeWithSlot(c)

Processor == (\E c \in Calls : Take(c)) \/ SlotGranted \/ TokenFound

Next ==
    \/ \E c \in Calls : Submit(c) \/ Abandon(c)
    \/ \E c \in Calls, o \in Outcomes : Finish(c, o)
    \/ Processor
    \/ Accrue
    \/ \E n \in Capacities : UpdateRate(n)
    \/ Start
    \/ Stop

Spec == Init /\ [][Next]_vars

\* The event loop runs every ready task, time passes, and wait_for() bounds
\* every dispatched call.  Callers and administrators promise nothing.
FairSpec ==
    /\ Spec
    /\ WF_vars(Start)
    /\ WF_vars(Processor)
    /\ WF_vars(Accrue)
    /\ \A c \in Calls : WF_vars(\E o \in Outcomes : Finish(c, o))
----------------------------------------------------------------------------
(* Properties                                                              *)

Slot == IF pc = "bucket" \/ (pc = "sem" /\ granted) THEN 1 ELSE 0

\* Calls some task of the queue will still look at.
Owned == queue \cup running \cup ({held} \ {NoCall})

\* Types; in particular no counter goes below zero.
TypeOK ==
    /\ queue \subseteq Calls
    /\ nextSeq \in Nat
    /\ seq \in [Calls -> Nat]
    /\ fut \in [Calls -> {"new", "pending"} \cup Outcomes]
    /\ pc \in {"off", "get", "sem", "bucket"}
    /\ held \in Calls \cup {NoCall}
    /\ granted \in BOOLEAN
    /\ permits \in Nat
    /\ running \subseteq Calls
    /\ hp \in Nat
    /\ cap \in Capacities
    /\ credit \in 0..MaxCapacity
    /\ stops \in 0..MaxStops
    /\ burst \in Nat
    /\ overtaken \in [Calls -> Nat]

\* At most MaxConcurrent calls are in flight, and every stop() widens that by
\* at most the one slot its cancellation handler releases without owning it.
InFlightBound == Cardinality(running) <= MaxConcurrent + stops

\* No path through the processor or a dispatched call loses a slot: every one
\* is free, held by the processor or in use.  A lost slot would narrow the
\* queue until nothing is ever dispatched again.
NoSlotLost == permits + Cardinality(running) + Slot >= MaxConcurrent

\* A caller that still waits has an item the queue will still look at, except
\* for at most one caller per stop(): the one whose item the processor held.
StrandedBound ==
    Cardinality({c \in Calls : fut[c] = "pending" /\ c \notin Owned}) <= stops

\* The counter collection jobs poll to yield never misses an urgent call that
\* waits or runs, and is exact until the first stop().
HighCalls == {c \in Owned : High(c)}
HpCounts == /\ hp >= Cardinality(HighCalls)
            /\ stops = 0 => hp = Cardinality(HighCalls)

\* A waiting call sees at most one less urgent call dispatched ahead of it:
\* the item the processor already held when the call was submitted.
BoundedOvertaking == \A c \in queue : overtaken[c] <= 1

\* Between two tokens accruing, no more calls leave than the largest capacity
\* allows, whatever update_rate() does to the bucket in between.
BurstBound == burst + Refilled <= MaxCapacity

\* Unless the queue is stopped, every submitted call resolves its caller's
\* future: no order of completions, refills and rate changes leaves the
\* processor waiting for a slot or a token that never comes.
Resolved ==
    \A c \in Calls : fut[c] = "pending" ~> fut[c] # "pending" \/ stops > 0

\* The claim of _drain_remaining() and of test_stop_cancels_pending: stop()
\* leaves no caller waiting except those whose call is executing.
StopCancelsPending ==
    [][stops' = stops + 1 =>
         \A c \in Calls \ running : fut'[c] # "pending"]_vars
=============================================================================
