--------------------------- MODULE ProfileStreak ---------------------------
(***************************************************************************)
(* The downloads of stock profiles (backend/app/services/                  *)
(* stock_profile_service.py): batches of concurrent requests under a       *)
(* semaphore, up to three attempts each, and a streak of 429 answers that  *)
(* all of them share and that gives the whole collection up.               *)
(*                                                                         *)
(* Items differ in nothing that matters here, so a state counts them.      *)
(***************************************************************************)
EXTENDS Integers

CONSTANTS Collectors,   \* the collections looked at
          Items,        \* number of boards or symbols, two batches' worth
          StreakLimit   \* _MAX_429_STREAK

\* A collection: permits of its semaphore, attempts per item, batch size and
\* whether it keeps a streak.
ConceptBoards == [sem |-> 3, attempts |-> 3, batch |-> 20, streak |-> TRUE]
HkProfiles == [sem |-> 5, attempts |-> 3, batch |-> 10, streak |-> TRUE]
UsProfiles == [sem |-> 10, attempts |-> 3, batch |-> 20, streak |-> TRUE]
CnProfiles == UsProfiles
\* The functions for at most 50 items start all of them at once.
CnInfoBatch == [sem |-> 3, attempts |-> 2, batch |-> 50, streak |-> FALSE]
UsBatch == [sem |-> 5, attempts |-> 2, batch |-> 50, streak |-> FALSE]
HkBatch == UsBatch

Attempts == 1..3

ASSUME StreakAssumption ==
    /\ Items \in Nat /\ StreakLimit \in Nat \ {0}
    /\ \A c \in Collectors : /\ {c.sem, c.batch} \subseteq Nat \ {0}
                             /\ c.attempts \in Attempts /\ c.streak \in BOOLEAN

VARIABLES collector,  \* the collection of this behaviour
          left,       \* items of later batches
          waiting,    \* items of this batch that wait for the semaphore
          asking,     \* requests under way, by attempt
          resting,    \* items that sleep after a 429, by attempt
          streak,     \* rate_limit_streak
          aborted,    \* abort_event
          late        \* requests sent after the abort

psVars == <<collector, left, waiting, asking, resting, streak, aborted, late>>

Total(f) == f[1] + f[2] + f[3]
Holders == Total(asking) + Total(resting)
Sent == late' = IF aborted THEN late + 1 ELSE late

PsInit ==
    /\ collector \in Collectors
    /\ left = Items /\ waiting = 0
    /\ asking = [a \in Attempts |-> 0] /\ resting = [a \in Attempts |-> 0]
    /\ streak = 0 /\ aborted = FALSE /\ late = 0

\* gather() over the next batch; an item of an aborted collection returns.
BatchBegins ==
    /\ left > 0 /\ waiting = 0 /\ Holders = 0
    /\ LET n == IF left < collector.batch THEN left ELSE collector.batch
       IN left' = left - n /\ waiting' = IF aborted THEN 0 ELSE n
    /\ UNCHANGED <<collector, asking, resting, streak, aborted, late>>

\* Mutant: the event is not looked at again once the semaphore is had.
TakePermitUnchecked ==
    /\ waiting > 0 /\ Holders < collector.sem
    /\ waiting' = waiting - 1
    /\ asking' = [asking EXCEPT ![1] = @ + 1] /\ Sent
    /\ UNCHANGED <<collector, left, resting, streak, aborted>>

TakePermit ==
    /\ waiting > 0 /\ Holders < collector.sem
    /\ waiting' = waiting - 1
    /\ IF aborted THEN UNCHANGED <<asking, late>>
                  ELSE asking' = [asking EXCEPT ![1] = @ + 1] /\ Sent
    /\ UNCHANGED <<collector, left, resting, streak, aborted>>

\* An answer, with or without data, resets the streak.
Answered(a) ==
    /\ asking[a] > 0
    /\ asking' = [asking EXCEPT ![a] = @ - 1]
    /\ streak' = 0
    /\ UNCHANGED <<collector, left, waiting, resting, aborted, late>>

\* Any other error ends the item and leaves the streak alone.
Failed(a) ==
    /\ asking[a] > 0
    /\ asking' = [asking EXCEPT ![a] = @ - 1]
    /\ UNCHANGED <<collector, left, waiting, resting, streak, aborted, late>>

RateLimited(a) ==
    /\ asking[a] > 0
    /\ asking' = [asking EXCEPT ![a] = @ - 1]
    /\ \/ /\ collector.streak
          /\ streak' = streak + 1
          /\ aborted' = (aborted \/ streak + 1 >= StreakLimit)
          /\ resting' = IF streak + 1 >= StreakLimit THEN resting
                        ELSE [resting EXCEPT ![a] = @ + 1]
       \/ /\ ~collector.streak
          /\ resting' = IF a = collector.attempts THEN resting
                        ELSE [resting EXCEPT ![a] = @ + 1]
          /\ UNCHANGED <<streak, aborted>>
    /\ UNCHANGED <<collector, left, waiting, late>>

\* After its sleep an item asks again, whether or not it was aborted meanwhile,
\* or gives its permit back after the last attempt.
WakeUp(a) ==
    /\ resting[a] > 0
    /\ resting' = [resting EXCEPT ![a] = @ - 1]
    /\ IF a < collector.attempts
       THEN asking' = [asking EXCEPT ![a + 1] = @ + 1] /\ Sent
       ELSE UNCHANGED <<asking, late>>
    /\ UNCHANGED <<collector, left, waiting, streak, aborted>>

PsNext == \/ BatchBegins \/ TakePermit
          \/ \E a \in Attempts : Answered(a) \/ Failed(a) \/ RateLimited(a)
                                 \/ WakeUp(a)

PsSpec == PsInit /\ [][PsNext]_psVars

\* A collection that meets nothing but 429 answers gives up: the streak passes
\* its limit by the requests that were under way at most, and once it is given
\* up only items that already had a permit send what attempts they have left,
\* also when a late success sets the streak back.
GivesUp ==
    /\ streak <= StreakLimit + collector.sem - 1
    /\ late <= (collector.sem - 1) * (collector.attempts - 1)
=============================================================================
