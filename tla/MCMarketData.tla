---------------------------- MODULE MCMarketData ----------------------------
(* Small instances of what brings quotes, history and lists to a reader:       *)
(* Upstream, QuoteStream, HistoryCache and SymbolLists.  They share only the   *)
(* ticks in Redis: in a behaviour one of the four moves, the others rest.      *)
EXTENDS Upstream, QuoteStream, HistoryCache, SymbolLists, TLC

CONSTANTS sx, sy, sz, r1, r2, r3, p1, p2, b1, b2

MCRequests == {{1}, {2, 3}}
MCPages == {{sx, sy}, {sy, sz}, {}}
MCLists == {MarketSymbols, IndexConstituents, ExchangeRates}

\* What rests is in one initial state.
UpRests == UpInit /\ provider = "yfinance"
QsRests == QsInit /\ page = {}
HcRests == HcInit /\ layer = 3 /\ \A r \in Callers : req[r].p = p1
SlRests == SlInit /\ list = ExchangeRates

Init == \/ UpInit /\ QsRests /\ HcRests /\ SlRests
        \/ UpRests /\ QsInit /\ HcRests /\ SlRests
        \/ UpRests /\ QsRests /\ HcInit /\ SlRests
        \/ UpRests /\ QsRests /\ HcRests /\ SlInit
Next == \/ QsRests /\ HcRests /\ SlRests /\ UpNext /\ UNCHANGED <<qsVars, hcVars, slVars>>
        \/ UpRests /\ HcRests /\ SlRests /\ QsNext /\ UNCHANGED <<upVars, hcVars, slVars>>
        \/ UpRests /\ QsRests /\ SlRests /\ HcNext /\ UNCHANGED <<upVars, qsVars, slVars>>
        \/ UpRests /\ QsRests /\ HcRests /\ SlNext /\ UNCHANGED <<upVars, qsVars, hcVars>>
Spec == Init /\ [][Next]_<<upVars, qsVars, hcVars, slVars>> /\ SlFair
=============================================================================
