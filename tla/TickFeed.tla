------------------------------ MODULE TickFeed ------------------------------
(***************************************************************************)
(* What a subscriber of the real-time feed is promised: ticks arrive in    *)
(* the order in which they were published and none arrives twice.  Ticks   *)
(* may be lost: backend/app/ws/redis_fanout.py keeps nothing for those     *)
(* who were not listening.                                                 *)
(***************************************************************************)
EXTENDS Naturals, Sequences

VARIABLES published,  \* number of ticks published so far
          seen        \* the ticks the subscriber received, by their numbers

feedVars == <<published, seen>>

FeedInit == published = 0 /\ seen = <<>>

Publish == published' = published + 1 /\ UNCHANGED seen

Newest == IF seen = <<>> THEN 0 ELSE seen[Len(seen)]

Deliver == /\ \E n \in (Newest + 1)..published : seen' = Append(seen, n)
           /\ UNCHANGED published

FeedSpec == FeedInit /\ [][Publish \/ Deliver]_feedVars
=============================================================================
