-------------------------------- MODULE MCJobs -------------------------------
\* Two kinds of background work on small instances: the collection jobs under
\* their lock and the downloads of profiles under their semaphore.  They share
\* nothing, so a behaviour is one or the other and a state belongs to one.
EXTENDS JobRunner, ProfileStreak, TLC

CONSTANTS w1, w2

MCKinds == {Northbound(2), EarningsCalendar, BackfillMacro, MarketProfiles}
MCCollectors == {ConceptBoards, HkProfiles, CnInfoBatch, UsBatch}
Interchangeable == Permutations({w1, w2})

\* One of the two does its work while the other has not begun.
JrRests == JrInit /\ kind = BackfillMacro
PsRests == PsInit /\ collector = ConceptBoards

Init == (JrInit /\ PsRests) \/ (JrRests /\ PsInit)
Next == \/ PsRests /\ JrNext /\ UNCHANGED psVars
        \/ JrRests /\ PsNext /\ UNCHANGED jrVars
Spec == Init /\ [][Next]_<<jrVars, psVars>>
=============================================================================
