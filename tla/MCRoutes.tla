------------------------------ MODULE MCRoutes ------------------------------
(* The router of one process and an administrator on a small instance. *)
EXTENDS StockRouter

CONSTANTS k1, p1

MCRows == {NoRow, [primary |-> k1, extras |-> <<>>]}
MCNoKeys == <<>>
=============================================================================
