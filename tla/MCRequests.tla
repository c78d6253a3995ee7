----------------------------- MODULE MCRequests -----------------------------
(* The modules behind a request, each from its own initial states while the
   others rest: the runs of one configuration. *)
EXTENDS StockRouter, Executors, RefreshTokens, UpsertTables, Rotator

CONSTANTS k1, k2, p1, ta, tb, a6, b6, a4

MCRows == {NoRow, [primary |-> k1, extras |-> <<k2>>], [primary |-> NoKey, extras |-> <<k1, k2>>]}
MCNoKeys == <<>>
MCApiCalls == {<<ta, 1>>, <<ta, 2>>, <<tb, 1>>}
MCPrefixes == {[base |-> 4, len |-> 1]}
Full == EnvProviders \union {"yfinance", "akshare", "finnhub"}

AkRest == AkInit /\ row = NoRow
SrRest == router = [p \in Processes |-> NoRouter] /\ req = NoRequest /\ stored = <<>>
UpRest == /\ op = UpsertBars /\ batch = <<>> /\ before = [k \in RowKeys |-> Absent]
          /\ table = before /\ added = 0 /\ next = 1 /\ tx = [rows |-> before, added |-> 0]
          /\ try = [at |-> "idle", left |-> 0, whole |-> TRUE]

allVars == <<routerVars, exVars, rtVars, upVars, roVars>>

\* Which part of the system moves; a part starts from rest or its own states.
VARIABLE part

KeysPart == part = "keys" /\ AkInit /\ row # NoRow /\ SrRest /\ ExInit /\ RtInit /\ UpRest
RoutingPart == /\ part = "routing" /\ AkInit /\ req = NoRequest /\ stored = <<>>
               /\ router \in [Processes -> {NoRouter, Full, Full \ {"finnhub"}}]
               /\ ExInit /\ RtInit /\ UpRest
OtherParts == /\ AkRest /\ SrRest /\ ExInit /\ RtInit
              /\ \/ part \in {"executors", "tokens", "rotator"} /\ UpRest
                 \/ part = "upserts" /\ UpInit

KeysNext == (AkNext /\ UNCHANGED srVars) \/ ResetRouter
RoutingNext == Requesting \/ Asking \/ StoredExpires

Init == RoInit /\ (KeysPart \/ RoutingPart \/ OtherParts)
Next == /\ UNCHANGED part
        /\ \/ /\ (part = "keys" /\ KeysNext) \/ (part = "routing" /\ RoutingNext)
              /\ UNCHANGED <<exVars, rtVars, upVars, roVars>>
           \/ part = "executors" /\ ExNext /\ UNCHANGED <<routerVars, rtVars, upVars, roVars>>
           \/ part = "tokens" /\ RtNext /\ UNCHANGED <<routerVars, exVars, upVars, roVars>>
           \/ part = "upserts" /\ UpNext /\ UNCHANGED <<routerVars, exVars, rtVars, roVars>>
           \/ part = "rotator" /\ RoNext /\ UNCHANGED <<routerVars, exVars, rtVars, upVars>>

Spec == Init /\ [][Next]_<<part, allVars>> /\ ExFair
=============================================================================
