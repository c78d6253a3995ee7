------------------------ MODULE ProviderQueueProofs ------------------------
(* The safety of a ProviderQueue for every set of calls, every assignment  *)
(* of priorities and every size of the semaphore and of the bucket.        *)
EXTENDS ProviderQueue, FiniteSetTheorems, TLAPS

LEMMA MaxCapacityIsMax ==
    /\ MaxCapacity \in Nat \ {0}
    /\ MaxCapacity \in Capacities
    /\ \A n \in Capacities : n <= MaxCapacity
BY QueueAssumption DEF MaxCapacity

(* A refill yields at most the credit, and never more than the largest     *)
(* capacity.                                                               *)
LEMMA RefilledBounds ==
    ASSUME TypeOK
    PROVE  Refilled \in 0..MaxCapacity /\ Refilled <= credit
BY MaxCapacityIsMax, QueueAssumption DEF TypeOK, Refilled, MinOf

----------------------------------------------------------------------------
(* Types, and where an item can be: queued, held or running, and only one  *)
(* of these.  The processor's waiter waits only while no slot is free.     *)

Shape ==
    /\ pc \in {"sem", "bucket"} <=> held # NoCall
    /\ granted => pc = "sem"
    /\ pc = "sem" /\ ~granted => permits = 0
    /\ queue \cap running = {}
    /\ held \notin queue /\ held \notin running
    /\ \A c \in Calls : fut[c] = "new" => c \notin Owned

LEMMA ShapeInit == Init => TypeOK /\ Shape
<1> SUFFICES ASSUME Init PROVE TypeOK /\ Shape
  OBVIOUS
<1>1. fut \in [Calls -> {"new", "pending"} \cup Outcomes]
  BY DEF Init
<1>2. seq \in [Calls -> Nat] /\ overtaken \in [Calls -> Nat]
  BY DEF Init
<1>3. credit \in 0..MaxCapacity /\ stops \in 0..MaxStops
  BY MaxCapacityIsMax, QueueAssumption DEF Init
<1>4. TypeOK
  BY <1>1, <1>2, <1>3, QueueAssumption DEF Init, TypeOK
<1>5. Shape
  BY QueueAssumption DEF Init, Shape, Owned
<1> QED
  BY <1>4, <1>5

LEMMA DispatchTypes ==
    ASSUME TypeOK, NEW c \in Calls, NEW W, HasToken, Dispatch(c, W)
    PROVE  /\ running' \subseteq Calls
           /\ credit' \in 0..MaxCapacity
           /\ burst' \in Nat
           /\ overtaken' \in [Calls -> Nat]
           /\ pc' = "get" /\ held' = NoCall /\ granted' = FALSE
<1>1. Refilled \in 0..MaxCapacity /\ Refilled >= 1
  BY RefilledBounds DEF HasToken
<1>2. credit' \in 0..MaxCapacity
  BY <1>1, MaxCapacityIsMax DEF Dispatch
<1>3. overtaken' \in [Calls -> Nat]
  BY DEF Dispatch, TypeOK
<1> QED
  BY <1>2, <1>3 DEF Dispatch, TypeOK

LEMMA AwaitTypes ==
    ASSUME TypeOK, NEW c \in Calls, AwaitToken(c)
    PROVE  /\ running' \subseteq Calls
           /\ credit' \in 0..MaxCapacity
           /\ burst' \in Nat
           /\ overtaken' \in [Calls -> Nat]
           /\ pc' = "bucket" /\ held' = c /\ granted' = FALSE
BY RefilledBounds DEF AwaitToken, TypeOK

LEMMA ShapeStep ==
    ASSUME TypeOK, Shape, [Next]_vars
    PROVE  TypeOK' /\ Shape'
<1> USE QueueAssumption
<1>1. ASSUME NEW c \in Calls, Submit(c)
      PROVE  TypeOK' /\ Shape'
  BY <1>1 DEF Submit, TypeOK, Shape, Owned, Outcomes
<1>2. ASSUME NEW c \in Calls, Abandon(c)
      PROVE  TypeOK' /\ Shape'
  BY <1>2 DEF Abandon, TypeOK, Shape, Owned, Outcomes
<1>3. ASSUME NEW c \in Calls, NEW o \in Outcomes, Finish(c, o)
      PROVE  TypeOK' /\ Shape'
  <2>1. TypeOK'
    <3>1. fut' \in [Calls -> {"new", "pending"} \cup Outcomes]
      BY <1>3 DEF Finish, TypeOK
    <3>2. hp' \in Nat
      BY <1>3 DEF Finish, HpAfter, MaxOf, TypeOK
    <3>3. permits' \in Nat
      BY <1>3 DEF Finish, Release, TypeOK
    <3>4. granted' \in BOOLEAN
      BY <1>3, Zenon DEF Finish, Release, TypeOK
    <3> QED
      BY <1>3, <3>1, <3>2, <3>3, <3>4 DEF Finish, TypeOK
  <2>2. Shape'
    BY <1>3 DEF Finish, Release, TypeOK, Shape, Owned, Outcomes
  <2> QED
    BY <2>1, <2>2
<1>4. ASSUME NEW c \in Calls, TakeDone(c)
      PROVE  TypeOK' /\ Shape'
  BY <1>4 DEF TakeDone, HpAfter, MaxOf, TypeOK, Shape, Owned
<1>5. ASSUME NEW c \in Calls, TakeAndWait(c)
      PROVE  TypeOK' /\ Shape'
  BY <1>5 DEF TakeAndWait, IsFirst, TypeOK, Shape, Owned
<1>6. ASSUME NEW c \in Calls, TakeWithSlot(c)
      PROVE  TypeOK' /\ Shape'
  <2>0. permits' \in Nat /\ queue' \subseteq Calls
    BY <1>6 DEF TakeWithSlot, TypeOK
  <2>1. CASE HasToken /\ Dispatch(c, queue \ {c})
    <3>1. TypeOK'
      BY <1>6, <2>0, <2>1, DispatchTypes DEF TakeWithSlot, TypeOK
    <3>2. Shape'
      BY <1>6, <2>1 DEF TakeWithSlot, Dispatch, IsFirst, TypeOK, Shape, Owned
    <3> QED
      BY <3>1, <3>2
  <2>2. CASE ~HasToken /\ AwaitToken(c)
    <3>1. TypeOK'
      BY <1>6, <2>0, <2>2, AwaitTypes DEF TakeWithSlot, TypeOK
    <3>2. Shape'
      BY <1>6, <2>2 DEF TakeWithSlot, AwaitToken, IsFirst, TypeOK, Shape, Owned
    <3> QED
      BY <3>1, <3>2
  <2> QED
    BY <1>6, <2>1, <2>2 DEF TakeWithSlot
<1>7. ASSUME SlotGranted
      PROVE  TypeOK' /\ Shape'
  <2>0. held \in Calls
    BY <1>7 DEF SlotGranted, TypeOK, Shape
  <2>1. CASE HasToken /\ Dispatch(held, queue)
    <3>1. TypeOK'
      BY <1>7, <2>0, <2>1, DispatchTypes DEF SlotGranted, TypeOK
    <3>2. Shape'
      BY <1>7, <2>0, <2>1 DEF SlotGranted, Dispatch, TypeOK, Shape, Owned
    <3> QED
      BY <3>1, <3>2
  <2>2. CASE ~HasToken /\ AwaitToken(held)
    <3>1. TypeOK'
      BY <1>7, <2>0, <2>2, AwaitTypes DEF SlotGranted, TypeOK
    <3>2. Shape'
      BY <1>7, <2>0, <2>2 DEF SlotGranted, AwaitToken, TypeOK, Shape, Owned
    <3> QED
      BY <3>1, <3>2
  <2> QED
    BY <1>7, <2>1, <2>2 DEF SlotGranted
<1>8. ASSUME TokenFound
      PROVE  TypeOK' /\ Shape'
  <2>0. held \in Calls
    BY <1>8 DEF TokenFound, TypeOK, Shape
  <2>1. TypeOK'
    BY <1>8, <2>0, DispatchTypes DEF TokenFound, TypeOK
  <2>2. Shape'
    BY <1>8, <2>0 DEF TokenFound, Dispatch, TypeOK, Shape, Owned
  <2> QED
    BY <2>1, <2>2
<1>9. ASSUME Accrue
      PROVE  TypeOK' /\ Shape'
  BY <1>9, MaxCapacityIsMax DEF Accrue, MinOf, TypeOK, Shape, Owned
<1>10. ASSUME NEW n \in Capacities, UpdateRate(n)
       PROVE  TypeOK' /\ Shape'
  BY <1>10 DEF UpdateRate, TypeOK, Shape, Owned
<1>11. ASSUME Start
       PROVE  TypeOK' /\ Shape'
  BY <1>11 DEF Start, TypeOK, Shape, Owned
<1>12. ASSUME Stop
       PROVE  TypeOK' /\ Shape'
  <2>1. TypeOK'
    <3>1. fut' \in [Calls -> {"new", "pending"} \cup Outcomes]
      BY <1>12 DEF Stop, TypeOK, Outcomes
    <3>2. permits' \in Nat
      BY <1>12 DEF Stop, SlotsOnCancel, TypeOK
    <3>3. stops' \in 0..MaxStops
      BY <1>12 DEF Stop, TypeOK
    <3> QED
      BY <1>12, <3>1, <3>2, <3>3 DEF Stop, TypeOK
  <2>2. Shape'
    BY <1>12 DEF Stop, TypeOK, Shape, Owned
  <2> QED
    BY <2>1, <2>2
<1>13. CASE UNCHANGED vars
  BY <1>13 DEF vars, TypeOK, Shape, Owned
<1> QED
  BY <1>1, <1>2, <1>3, <1>4, <1>5, <1>6, <1>7, <1>8, <1>9, <1>10, <1>11,
     <1>12, <1>13
  DEF Next, Processor, Take

(* Every variable keeps its type, and an item is in one place at a time.   *)
THEOREM TypeCorrect == Spec => [](TypeOK /\ Shape)
BY ShapeInit, ShapeStep, PTL DEF Spec

----------------------------------------------------------------------------
(* The burst bound.  BurstBound is not inductive: raising the capacity     *)
(* would lift the clamp.  The credit behind it is bounded by the tokens    *)
(* not yet spent.                                                          *)

BurstInv == burst + credit <= MaxCapacity

LEMMA BurstStep ==
    ASSUME TypeOK, Shape, BurstInv, [Next]_vars
    PROVE  BurstInv'
<1> USE MaxCapacityIsMax, RefilledBounds
<1>1. ASSUME NEW c, NEW W, Dispatch(c, W)
      PROVE  BurstInv'
  BY <1>1 DEF Dispatch, BurstInv, TypeOK
<1>2. ASSUME NEW c, AwaitToken(c)
      PROVE  BurstInv'
  BY <1>2 DEF AwaitToken, BurstInv, TypeOK
<1>3. CASE Accrue
  BY <1>3 DEF Accrue, MinOf, BurstInv, TypeOK
<1>4. CASE Processor
  <2>1. CASE SlotGranted \/ TokenFound
    BY <1>1, <1>2, <2>1 DEF SlotGranted, TokenFound
  <2>2. ASSUME NEW c \in Calls, Take(c)
        PROVE  BurstInv'
    BY <1>1, <1>2, <2>2
    DEF Take, TakeDone, TakeAndWait, TakeWithSlot, BurstInv
  <2> QED
    BY <1>4, <2>1, <2>2 DEF Processor
<1> QED
  BY <1>3, <1>4
  DEF Next, Submit, Abandon, Finish, UpdateRate, Start, Stop, vars, BurstInv

(* BurstBound for every set of capacities update_rate() may install: no    *)
(* sequence of rate changes lets more calls through than the largest.      *)
THEOREM BurstBounded == Spec => []BurstBound
<1>1. Init => BurstInv
  BY MaxCapacityIsMax, QueueAssumption DEF Init, BurstInv
<1>2. TypeOK /\ BurstInv => BurstBound
  BY RefilledBounds, MaxCapacityIsMax DEF TypeOK, BurstInv, BurstBound
<1> QED
  BY <1>1, <1>2, BurstStep, TypeCorrect, PTL DEF Spec

----------------------------------------------------------------------------
(* Slots.  Every slot is free, held by the processor or in use by a        *)
(* running call; a stop() adds at most one, and nothing ever removes one.  *)

SlotInv ==
    /\ NoSlotLost
    /\ permits + Cardinality(running) + Slot <= MaxConcurrent + stops

LEMMA RunningFinite ==
    ASSUME TypeOK
    PROVE  IsFiniteSet(running) /\ Cardinality(running) \in Nat
BY QueueAssumption, FS_Subset, FS_CardinalityType DEF TypeOK

LEMMA DispatchSlots ==
    ASSUME TypeOK, NEW c \in Calls, NEW W, c \notin running, Dispatch(c, W)
    PROVE  Cardinality(running') = Cardinality(running) + 1 /\ Slot' = 0
BY RunningFinite, FS_AddElement DEF Dispatch, Slot

LEMMA AwaitSlots ==
    ASSUME NEW c, AwaitToken(c)
    PROVE  Cardinality(running') = Cardinality(running) /\ Slot' = 1
BY DEF AwaitToken, Slot

LEMMA SlotStep ==
    ASSUME TypeOK, Shape, SlotInv, [Next]_vars
    PROVE  SlotInv'
<1> DEFINE Total == permits + Cardinality(running) + Slot
<1> USE QueueAssumption
<1>0. /\ Cardinality(running) \in Nat /\ IsFiniteSet(running)
      /\ Slot \in 0..1 /\ Total \in Nat
      /\ permits \in Nat /\ stops \in Nat
  BY RunningFinite DEF TypeOK, Slot
<1>1. ASSUME Total' = Total, stops' = stops
      PROVE  SlotInv'
  BY <1>1 DEF SlotInv, NoSlotLost
<1>2. ASSUME NEW c \in Calls, NEW o \in Outcomes, Finish(c, o)
      PROVE  SlotInv'
  <2>1. Cardinality(running') = Cardinality(running) - 1
    BY <1>0, <1>2, FS_RemoveElement DEF Finish
  <2>2. \/ permits' = permits + 1 /\ Slot' = Slot
        \/ permits' = permits /\ Slot' = Slot + 1
    BY <1>2 DEF Finish, Release, Slot, TypeOK
  <2>3. Total' = Total
    BY <1>0, <2>1, <2>2
  <2> QED
    BY <1>1, <1>2, <2>3 DEF Finish
<1>3. ASSUME NEW c \in Calls, TakeWithSlot(c)
      PROVE  SlotInv'
  <2>1. Slot = 0 /\ permits' = permits - 1 /\ stops' = stops /\ permits > 0
    BY <1>3 DEF TakeWithSlot, Slot
  <2>2. Cardinality(running') + Slot' = Cardinality(running) + 1
    BY <1>0, <1>3, DispatchSlots, AwaitSlots
    DEF TakeWithSlot, IsFirst, Shape
  <2>3. Cardinality(running') \in Nat /\ Slot' \in 0..1
    BY <1>0, <1>3, DispatchSlots, AwaitSlots
    DEF TakeWithSlot, IsFirst, Shape
  <2>4. Total' = Total
    BY <1>0, <2>1, <2>2, <2>3
  <2> QED
    BY <1>1, <2>1, <2>4
<1>4. ASSUME SlotGranted \/ TokenFound
      PROVE  SlotInv'
  <2>1. held \in Calls /\ held \notin running
    BY <1>4 DEF SlotGranted, TokenFound, TypeOK, Shape
  <2>2. Slot = 1 /\ permits' = permits /\ stops' = stops
    BY <1>4 DEF SlotGranted, TokenFound, Slot
  <2>3. \/ Dispatch(held, queue)
        \/ AwaitToken(held)
    BY <1>4 DEF SlotGranted, TokenFound
  <2>4. Cardinality(running') + Slot' = Cardinality(running) + 1
    BY <1>0, <2>1, <2>3, DispatchSlots, AwaitSlots
  <2>5. Cardinality(running') \in Nat /\ Slot' \in 0..1
    BY <1>0, <2>1, <2>3, DispatchSlots, AwaitSlots
  <2>6. Total' = Total
    BY <1>0, <2>2, <2>4, <2>5
  <2> QED
    BY <1>1, <2>2, <2>6
<1>5. ASSUME Stop
      PROVE  SlotInv'
  <2>1. Slot' = 0 /\ running' = running /\ stops' = stops + 1
    BY <1>5 DEF Stop, Slot
  <2>2. /\ permits' = permits + SlotsOnCancel
        /\ SlotsOnCancel \in {Slot, Slot + 1}
    BY <1>5 DEF Stop, Slot, SlotsOnCancel, TypeOK
  <2> QED
    BY <1>0, <2>1, <2>2 DEF SlotInv, NoSlotLost
<1>6. ASSUME NEW c \in Calls, TakeDone(c) \/ TakeAndWait(c)
      PROVE  SlotInv'
  <2>1. Total' = Total /\ stops' = stops
    BY <1>6 DEF TakeDone, TakeAndWait, Slot
  <2> QED
    BY <1>1, <2>1
<1>7. CASE Start
  <2>1. Total' = Total /\ stops' = stops
    BY <1>7 DEF Start, Slot, Shape
  <2> QED
    BY <1>1, <2>1
<1>8. ASSUME UNCHANGED <<pc, granted, permits, running, stops>>
      PROVE  SlotInv'
  BY <1>1, <1>8 DEF Slot
<1> QED
  BY <1>2, <1>3, <1>4, <1>5, <1>6, <1>7, <1>8
  DEF Next, Processor, Take, Submit, Abandon, Accrue, UpdateRate, vars

LEMMA SlotsKept == Spec => [](TypeOK /\ SlotInv)
<1>1. Init => SlotInv
  BY FS_EmptySet, QueueAssumption DEF Init, SlotInv, NoSlotLost, Slot
<1> QED
  BY <1>1, SlotStep, TypeCorrect, PTL DEF Spec

(* NoSlotLost: no interleaving of completions, rate changes and stops      *)
(* narrows the queue below MaxConcurrent.                                  *)
THEOREM NoSlotIsLost == Spec => []NoSlotLost
<1>1. SlotInv => NoSlotLost
  BY DEF SlotInv
<1> QED
  BY <1>1, SlotsKept, PTL

(* InFlightBound: each stop() widens the semaphore by at most one slot.    *)
THEOREM InFlightBounded == Spec => []InFlightBound
<1>1. TypeOK /\ SlotInv => InFlightBound
  BY RunningFinite, QueueAssumption DEF SlotInv, InFlightBound, Slot, TypeOK
<1> QED
  BY <1>1, SlotsKept, PTL

----------------------------------------------------------------------------
(* Where items go.  The processor moves an item along without losing it,   *)
(* or drops one whose future is done.                                      *)

LEMMA ProcessorOwned ==
    ASSUME TypeOK, Shape, Processor
    PROVE  /\ fut' = fut /\ stops' = stops
           /\ \/ Owned' = Owned /\ hp' = hp
              \/ \E c \in Owned : /\ fut[c] # "pending"
                                  /\ Owned' = Owned \ {c}
                                  /\ hp' = HpAfter(c)
<1> USE QueueAssumption
<1>1. ASSUME NEW c \in Calls, TakeDone(c)
      PROVE  /\ fut' = fut /\ stops' = stops /\ hp' = HpAfter(c)
             /\ c \in Owned /\ fut[c] # "pending" /\ Owned' = Owned \ {c}
  BY <1>1 DEF TakeDone, IsFirst, Shape, Owned, TypeOK
<1>2. ASSUME NEW c \in Calls, TakeAndWait(c)
      PROVE  fut' = fut /\ stops' = stops /\ Owned' = Owned /\ hp' = hp
  BY <1>2 DEF TakeAndWait, IsFirst, Shape, Owned, TypeOK
<1>3. ASSUME NEW c \in Calls, TakeWithSlot(c)
      PROVE  fut' = fut /\ stops' = stops /\ Owned' = Owned /\ hp' = hp
  BY <1>3
  DEF TakeWithSlot, Dispatch, AwaitToken, IsFirst, Shape, Owned, TypeOK
<1>4. ASSUME SlotGranted \/ TokenFound
      PROVE  fut' = fut /\ stops' = stops /\ Owned' = Owned /\ hp' = hp
  BY <1>4
  DEF SlotGranted, TokenFound, Dispatch, AwaitToken, Shape, Owned, TypeOK
<1> QED
  BY <1>1, <1>2, <1>3, <1>4 DEF Processor, Take

(* Every other step but Submit, Finish and Stop leaves the items alone.    *)
Elsewhere == UNCHANGED <<queue, held, running, hp, stops>>

LEMMA OwnedElsewhere ==
    ASSUME Elsewhere
    PROVE  Owned' = Owned /\ hp' = hp /\ stops' = stops
BY DEF Elsewhere, Owned

LEMMA FinishOwned ==
    ASSUME TypeOK, Shape, NEW c \in Calls, NEW o \in Outcomes, Finish(c, o)
    PROVE  /\ c \in Owned /\ Owned' = Owned \ {c} /\ hp' = HpAfter(c)
           /\ stops' = stops
BY QueueAssumption DEF Finish, Owned, Shape, TypeOK

----------------------------------------------------------------------------
(* The counter of urgent calls.                                            *)

LEMMA HighFinite ==
    ASSUME TypeOK
    PROVE  /\ HighCalls \subseteq Calls /\ IsFiniteSet(HighCalls)
           /\ Cardinality(HighCalls) \in Nat
<1>1. HighCalls \subseteq Calls
  BY DEF HighCalls, Owned, TypeOK
<1> QED
  BY <1>1, QueueAssumption, FS_Subset, FS_CardinalityType

LEMMA HpRemoved ==
    ASSUME TypeOK, HpCounts, NEW c \in Owned, Owned' = Owned \ {c},
           hp' = HpAfter(c), stops' = stops
    PROVE  HpCounts'
<1>0. /\ IsFiniteSet(HighCalls) /\ Cardinality(HighCalls) \in Nat
      /\ hp \in Nat
  BY HighFinite DEF TypeOK
<1>1. CASE High(c)
  <2>1. HighCalls' = HighCalls \ {c} /\ c \in HighCalls
    BY <1>1 DEF HighCalls
  <2>2. Cardinality(HighCalls') = Cardinality(HighCalls) - 1
    BY <1>0, <2>1, FS_RemoveElement
  <2>3. Cardinality(HighCalls) >= 1
    BY <1>0, <2>1, FS_EmptySet
  <2>4. hp' = hp - 1
    BY <1>0, <1>1, <2>3 DEF HpCounts, HpAfter, MaxOf
  <2> QED
    BY <1>0, <2>2, <2>4 DEF HpCounts
<1>2. CASE ~High(c)
  <2>1. HighCalls' = HighCalls /\ hp' = hp
    BY <1>2 DEF HighCalls, HpAfter
  <2> QED
    BY <2>1 DEF HpCounts
<1> QED
  BY <1>1, <1>2

LEMMA HpStep ==
    ASSUME TypeOK, Shape, HpCounts, [Next]_vars
    PROVE  HpCounts'
<1>0. /\ IsFiniteSet(HighCalls) /\ Cardinality(HighCalls) \in Nat
      /\ hp \in Nat /\ stops \in Nat
  BY HighFinite DEF TypeOK
<1>1. ASSUME Owned' = Owned, hp' = hp, stops' = stops
      PROVE  HpCounts'
  BY <1>1 DEF HpCounts, HighCalls
<1>2. ASSUME NEW c \in Calls, Submit(c)
      PROVE  HpCounts'
  <2>1. c \notin Owned /\ Owned' = Owned \cup {c} /\ stops' = stops
    BY <1>2 DEF Submit, Shape, Owned
  <2>2. CASE High(c)
    <3>1. HighCalls' = HighCalls \cup {c} /\ c \notin HighCalls /\ hp' = hp + 1
      BY <1>2, <2>1, <2>2 DEF Submit, HighCalls
    <3>2. Cardinality(HighCalls') = Cardinality(HighCalls) + 1
      BY <1>0, <3>1, FS_AddElement
    <3> QED
      BY <1>0, <2>1, <3>1, <3>2 DEF HpCounts
  <2>3. CASE ~High(c)
    <3>1. HighCalls' = HighCalls /\ hp' = hp
      BY <1>2, <2>1, <2>3 DEF Submit, HighCalls
    <3> QED
      BY <2>1, <3>1 DEF HpCounts
  <2> QED
    BY <2>2, <2>3
<1>3. ASSUME NEW c \in Calls, NEW o \in Outcomes, Finish(c, o)
      PROVE  HpCounts'
  BY <1>3, FinishOwned, HpRemoved
<1>4. CASE Processor
  BY <1>1, <1>4, ProcessorOwned, HpRemoved
<1>5. CASE Stop
  <2>1. HighCalls' \subseteq HighCalls /\ hp' = hp /\ stops' = stops + 1
    BY <1>5 DEF Stop, HighCalls, Owned
  <2>2. Cardinality(HighCalls') <= Cardinality(HighCalls)
    BY <1>0, <2>1, FS_Subset
  <2>3. Cardinality(HighCalls') \in Nat
    BY <1>0, <2>1, FS_Subset, FS_CardinalityType
  <2> QED
    BY <1>0, <2>1, <2>2, <2>3 DEF HpCounts
<1>6. CASE Elsewhere
  BY <1>1, <1>6, OwnedElsewhere
<1> QED
  BY <1>2, <1>3, <1>4, <1>5, <1>6
  DEF Next, Abandon, Accrue, UpdateRate, Start, vars, Elsewhere

(* HpCounts: has_high_priority_pending() misses no urgent call that waits, *)
(* is held or runs, and counts exactly these until a stop().               *)
THEOREM HpIsCounted == Spec => []HpCounts
<1>1. Init => HpCounts
  <2>1. Init => HighCalls = {}
    BY QueueAssumption DEF Init, HighCalls, Owned
  <2> QED
    BY <2>1, FS_EmptySet DEF Init, HpCounts
<1> QED
  BY <1>1, HpStep, TypeCorrect, PTL DEF Spec

----------------------------------------------------------------------------
(* Stranded callers: they wait for a future nobody will resolve.           *)

Stranded == {c \in Calls : fut[c] = "pending" /\ c \notin Owned}

LEMMA StrandedFinite ==
    /\ IsFiniteSet(Stranded) /\ Cardinality(Stranded) \in Nat
    /\ StrandedBound <=> Cardinality(Stranded) <= stops
BY QueueAssumption, FS_Subset, FS_CardinalityType DEF Stranded, StrandedBound

LEMMA StrandedShrinks ==
    ASSUME TypeOK, StrandedBound, stops' = stops, Stranded' \subseteq Stranded
    PROVE  StrandedBound'
<1>1. Cardinality(Stranded') <= Cardinality(Stranded)
  BY StrandedFinite, FS_Subset
<1>2. StrandedBound' <=> Cardinality(Stranded') <= stops'
  BY QueueAssumption DEF Stranded, StrandedBound
<1>3. Cardinality(Stranded') \in Nat
  BY StrandedFinite, FS_Subset, FS_CardinalityType
<1> QED
  BY <1>1, <1>2, <1>3, StrandedFinite DEF TypeOK

LEMMA StrandedStep ==
    ASSUME TypeOK, Shape, StrandedBound, [Next]_vars
    PROVE  StrandedBound'
<1>1. ASSUME NEW c \in Calls, Submit(c)
      PROVE  StrandedBound'
  <2>1. Stranded' \subseteq Stranded /\ stops' = stops
    BY <1>1 DEF Submit, Stranded, Owned, TypeOK
  <2> QED
    BY <2>1, StrandedShrinks
<1>2. ASSUME NEW c \in Calls, Abandon(c)
      PROVE  StrandedBound'
  <2>1. Stranded' \subseteq Stranded /\ stops' = stops
    BY <1>2 DEF Abandon, Stranded, Owned, TypeOK
  <2> QED
    BY <2>1, StrandedShrinks
<1>3. ASSUME NEW c \in Calls, NEW o \in Outcomes, Finish(c, o)
      PROVE  StrandedBound'
  <2>1. fut'[c] # "pending" /\ \A d \in Calls \ {c} : fut'[d] = fut[d]
    BY <1>3 DEF Finish, Outcomes, TypeOK
  <2>2. Stranded' \subseteq Stranded /\ stops' = stops
    BY <1>3, <2>1, FinishOwned DEF Stranded
  <2> QED
    BY <2>2, StrandedShrinks
<1>4. CASE Processor
  <2>1. Stranded' \subseteq Stranded /\ stops' = stops
    BY <1>4, ProcessorOwned DEF Stranded
  <2> QED
    BY <2>1, StrandedShrinks
<1>5. CASE Stop
  <2>1. Stranded' \subseteq Stranded \cup {held} /\ stops' = stops + 1
    BY <1>5 DEF Stop, Stranded, Owned, TypeOK
  <2>2. /\ IsFiniteSet(Stranded \cup {held})
        /\ Cardinality(Stranded \cup {held}) <= Cardinality(Stranded) + 1
    BY StrandedFinite, FS_AddElement
  <2>3. /\ Cardinality(Stranded') <= Cardinality(Stranded \cup {held})
        /\ Cardinality(Stranded') \in Nat
        /\ Cardinality(Stranded \cup {held}) \in Nat
    BY <2>1, <2>2, FS_Subset, FS_CardinalityType
  <2>4. Cardinality(Stranded') <= stops'
    BY <2>1, <2>2, <2>3, StrandedFinite DEF TypeOK
  <2> QED
    BY <2>4 DEF Stranded, StrandedBound
<1>6. CASE Elsewhere /\ fut' = fut
  <2>1. Stranded' \subseteq Stranded /\ stops' = stops
    BY <1>6, OwnedElsewhere DEF Stranded
  <2> QED
    BY <2>1, StrandedShrinks
<1> QED
  BY <1>1, <1>2, <1>3, <1>4, <1>5, <1>6
  DEF Next, Accrue, UpdateRate, Start, vars, Elsewhere

(* StrandedBound: a stop() leaves at most one caller waiting for a future  *)
(* that no task of the queue will resolve, and nothing else leaves any.    *)
THEOREM StrandedBounded == Spec => []StrandedBound
<1>1. Init => StrandedBound
  <2>1. Init => Stranded = {} /\ stops = 0
    BY DEF Init, Stranded
  <2> QED
    BY <2>1, StrandedFinite, FS_EmptySet
<1> QED
  BY <1>1, StrandedStep, TypeCorrect, PTL DEF Spec

----------------------------------------------------------------------------
(* Overtaking.  An item the processor takes is the most urgent one waiting *)
(* at that moment, so a call can only be overtaken by an item taken before *)
(* the call came; once that has happened, every later item held is at      *)
(* least as urgent.                                                        *)

OvertakenInv ==
    /\ BoundedOvertaking
    /\ \A c \in Calls : fut[c] = "new" => overtaken[c] = 0
    /\ \A c \in queue : overtaken[c] > 0 /\ held # NoCall
                           => Prio[held] <= Prio[c]

\* What dispatching c does to the history of the calls waiting in W.
LEMMA DispatchOvertakes ==
    ASSUME TypeOK, NEW c \in Calls, NEW W \in SUBSET Calls, Dispatch(c, W)
    PROVE  \A d \in Calls :
             overtaken'[d] = IF d \in W /\ Prio[d] < Prio[c]
                               THEN overtaken[d] + 1 ELSE overtaken[d]
BY DEF Dispatch

LEMMA FirstIsMostUrgent ==
    ASSUME TypeOK, NEW c \in Calls, IsFirst(c)
    PROVE  \A d \in queue : Prio[c] <= Prio[d] /\ ~(Prio[d] < Prio[c])
BY QueueAssumption DEF IsFirst, Before, TypeOK

LEMMA OvertakenStep ==
    ASSUME TypeOK, Shape, OvertakenInv, [Next]_vars
    PROVE  OvertakenInv'
<1> USE QueueAssumption
<1>1. ASSUME NEW c \in Calls, Submit(c)
      PROVE  OvertakenInv'
  BY <1>1 DEF Submit, OvertakenInv, BoundedOvertaking, TypeOK
<1>2. ASSUME NEW c \in Calls, Abandon(c)
      PROVE  OvertakenInv'
  BY <1>2 DEF Abandon, OvertakenInv, BoundedOvertaking, TypeOK
<1>3. ASSUME NEW c \in Calls, NEW o \in Outcomes, Finish(c, o)
      PROVE  OvertakenInv'
  <2>1. \A d \in Calls : fut'[d] = "new" => fut[d] = "new"
    BY <1>3 DEF Finish, Outcomes, TypeOK
  <2> QED
    BY <1>3, <2>1 DEF Finish, OvertakenInv, BoundedOvertaking
<1>4. ASSUME NEW c \in Calls, TakeDone(c)
      PROVE  OvertakenInv'
  BY <1>4 DEF TakeDone, OvertakenInv, BoundedOvertaking, TypeOK
<1>5. ASSUME NEW c \in Calls, TakeAndWait(c)
      PROVE  OvertakenInv'
  BY <1>5, FirstIsMostUrgent
  DEF TakeAndWait, OvertakenInv, BoundedOvertaking, TypeOK
<1>6. ASSUME NEW c \in Calls, TakeWithSlot(c)
      PROVE  OvertakenInv'
  <2>1. /\ \A d \in queue : Prio[c] <= Prio[d] /\ ~(Prio[d] < Prio[c])
        /\ queue' \subseteq queue /\ fut' = fut /\ queue \subseteq Calls
    BY <1>6, FirstIsMostUrgent DEF TakeWithSlot, TypeOK
  <2>2. CASE Dispatch(c, queue \ {c})
    <3>1. \A d \in Calls : overtaken'[d] = overtaken[d]
      BY <2>1, <2>2, DispatchOvertakes DEF TypeOK
    <3>2. held' = NoCall
      BY <2>2 DEF Dispatch
    <3> QED
      BY <2>1, <3>1, <3>2 DEF OvertakenInv, BoundedOvertaking
  <2>3. CASE AwaitToken(c)
    BY <2>1, <2>3 DEF AwaitToken, OvertakenInv, BoundedOvertaking
  <2> QED
    BY <1>6, <2>2, <2>3 DEF TakeWithSlot
<1>7. ASSUME SlotGranted \/ TokenFound
      PROVE  OvertakenInv'
  <2>1. /\ held \in Calls /\ queue' = queue /\ fut' = fut
        /\ queue \subseteq Calls /\ overtaken \in [Calls -> Nat]
        /\ \A d \in queue : fut[d] # "new"
    BY <1>7 DEF SlotGranted, TokenFound, TypeOK, Shape, Owned
  <2>2. CASE Dispatch(held, queue)
    <3>1. \A d \in queue : overtaken'[d] <= 1
      BY <2>1, <2>2, DispatchOvertakes DEF OvertakenInv, BoundedOvertaking
    <3>2. \A d \in Calls : fut[d] = "new" => overtaken'[d] = 0
      BY <2>1, <2>2, DispatchOvertakes DEF OvertakenInv
    <3>3. held' = NoCall
      BY <2>2 DEF Dispatch
    <3> QED
      BY <2>1, <3>1, <3>2, <3>3 DEF OvertakenInv, BoundedOvertaking
  <2>3. CASE AwaitToken(held)
    BY <2>1, <2>3 DEF AwaitToken, OvertakenInv, BoundedOvertaking
  <2> QED
    BY <1>7, <2>2, <2>3 DEF SlotGranted, TokenFound
<1>8. CASE Stop
  <2>1. \A d \in Calls : fut'[d] = "new" => fut[d] = "new"
    BY <1>8 DEF Stop, TypeOK
  <2> QED
    BY <1>8, <2>1 DEF Stop, OvertakenInv, BoundedOvertaking
<1>9. CASE UNCHANGED <<queue, held, fut, overtaken>>
  BY <1>9 DEF OvertakenInv, BoundedOvertaking
<1> QED
  BY <1>1, <1>2, <1>3, <1>4, <1>5, <1>6, <1>7, <1>8, <1>9
  DEF Next, Processor, Take, Accrue, UpdateRate, Start, vars

(* BoundedOvertaking: whatever is submitted and in whatever order calls    *)
(* finish, a waiting call sees at most one less urgent dispatch.           *)
THEOREM OvertakingBounded == Spec => []BoundedOvertaking
<1>1. Init => OvertakenInv
  BY DEF Init, OvertakenInv, BoundedOvertaking
<1>2. OvertakenInv => BoundedOvertaking
  BY DEF OvertakenInv
<1> QED
  BY <1>1, <1>2, OvertakenStep, TypeCorrect, PTL DEF Spec
=============================================================================
