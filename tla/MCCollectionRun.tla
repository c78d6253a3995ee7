-------------------------- MODULE MCCollectionRun --------------------------
(* Small instances of CollectionRun. *)
EXTENDS CollectionRun, TLC

CONSTANTS s1, s2, c1, c2, w1, w2

MCSymbols == {s1, s2}
MCStored == {s1}
MCRuns == {c1, c2}
MCWorkers == {w1, w2}
MCHome == c1 :> w1 @@ c2 :> w2
=============================================================================
