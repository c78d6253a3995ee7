---------------------------- MODULE StockRouter ----------------------------
(***************************************************************************)
(* The router of a process (backend/app/services/stock_router.py): it is   *)
(* built at the first request for the providers that have a key then,      *)
(* until reset_router() forgets it.  A request asks the providers of a     *)
(* market one after another until one answers, one provider, or all at     *)
(* once.  Adapters take their keys from ApiKeys.                           *)
(***************************************************************************)
EXTENDS ApiKeys, ProviderCalls

CONSTANTS EnvProviders,  \* of tiingo, massive and tushare, those with a key
          NoRouter       \* _router is None

ASSUME EnvAssumption == EnvProviders \subseteq {"tiingo", "massive", "tushare"}

VARIABLES router,  \* per process: the optional providers of its router
          req,     \* the request looked at
          stored   \* the answer looked at in Redis, if it is there

srVars == <<router, req, stored>>
routerVars == <<srVars, akVars>>

NoRequest == [at |-> "none"]

\* is_available(): Tiingo, Massive and Tushare read the environment or one key.
Available(p) == {"yfinance", "akshare"} \union EnvProviders
                \union (IF PrimaryOf(p) # NoKey THEN {"finnhub"} ELSE {})

\* The router an empty _router is replaced by; there is no await in between.
Router(p) == IF router[p] = NoRouter THEN Available(p) ELSE router[p]

\* _routing, over the optional providers the router was built with.
Routing(m, have) ==
    LET Optional(p) == IF p \in have THEN <<p>> ELSE <<>>
    IN CASE m = US -> <<"yfinance">> \o Optional("massive") \o Optional("finnhub")
                      \o Optional("tiingo")
         [] m = Metal -> <<"yfinance">>
         [] m = HK -> <<"akshare", "yfinance">>
         [] OTHER -> <<"akshare">> \o Optional("tushare") \o <<"yfinance">>

Chained == {"quote", "history", "intraday", "info", "financials"}

\* get_news_fanout(): every provider that is available and supports the market.
NewsCandidates(p, m, have) == {q \in have : q \in Available(p) /\ m \in Supported[q]}

\* search() of one market; metals are found in a table.
Searched(m) == IF m = US THEN {"yfinance"} ELSE IF m = Metal THEN {} ELSE {"akshare"}

\* get_market_context(): indices and the northbound flow, side by side.
ContextParts == {"yfinance", "akshare"}
ContextOp(q) == IF q = "yfinance" THEN "indices" ELSE "flow"

\* The methods that only one provider has are asked of it directly.
Extended == UNION {DOMAIN AdapterTable[US][q] : q \in Providers} \ (Chained \union {"search", "news"})
OwnersOf(op) == {q \in Providers : op \in DOMAIN AdapterTable[US][q]}

\* A request: providers still to ask, in order or all at once, the calls under
\* way, and what became of the providers asked.
Request(p, op, m, left, inOrder) ==
    [at |-> "open", by |-> p, op |-> op, market |-> m, left |-> left, inOrder |-> inOrder,
     calls |-> {}, tries |-> 0, answered |-> {}, excused |-> {}, raised |-> FALSE,
     due |-> {q \in ToSet(left) : m \in Method(q, IF op = "context" THEN ContextOp(q) ELSE op, m).serves}]

OpOf(q) == IF req.op = "context" THEN ContextOp(q) ELSE req.op
CallOf(q) == Method(q, OpOf(q), req.market)

SrInit == /\ AkInit /\ router = [p \in Processes |-> NoRouter]
          /\ req = NoRequest /\ stored = <<>>

-----------------------------------------------------------------------------
(* Requests *)

Opens(p, r) ==
    /\ req = NoRequest /\ req' = r
    /\ router' = [router EXCEPT ![p] = Router(p)]
    /\ UNCHANGED <<stored, akVars>>

GetRouted(p, op, m) == Opens(p, Request(p, op, m, Routing(m, Router(p)), TRUE))
GetNews(p, m) ==
    Opens(p, Request(p, "news", m, SetToSeq(NewsCandidates(p, m, Router(p))), FALSE))
Search(p, m) == Opens(p, Request(p, "search", m, SetToSeq(Searched(m)), FALSE))
GetMarketContext(p) == Opens(p, Request(p, "context", US, SetToSeq(ContextParts), FALSE))
\* get_provider_by_name() and the delegating methods.
GetExtended(p, op) ==
    \E q \in OwnersOf(op) \intersect Router(p) : Opens(p, Request(p, op, US, <<q>>, TRUE))

\* Whom the request asks next: the head of the list when nobody is being asked,
\* or anybody of a fan-out.
Turn == IF req.inOrder THEN (IF req.calls = {} THEN {Head(req.left)} ELSE {})
        ELSE ToSet(req.left)
Without(q) == IF q \in ToSet(req.left)
              THEN RemoveAt(req.left, CHOOSE i \in DOMAIN req.left : req.left[i] = q)
              ELSE req.left

\* Mutant: an exception or a None ends the request.
NothingFromLast(q, excuse) ==
    req' = [req EXCEPT !.left = IF req.inOrder THEN <<>> ELSE Without(q),
                       !.calls = {c \in @ : c.provider # q},
                       !.excused = @ \union excuse, !.tries = 0]

\* _try_providers(): None and every Exception move on to the next provider.
NothingFrom(q, excuse) ==
    req' = [req EXCEPT !.left = Without(q), !.calls = {c \in @ : c.provider # q},
                       !.excused = @ \union excuse, !.tries = 0]
AnswerFrom(q) ==
    req' = [req EXCEPT !.left = IF req.inOrder THEN <<>> ELSE Without(q),
                       !.calls = {c \in @ : c.provider # q}, !.answered = @ \union {q}, !.tries = 0]

Sent(q, k) == req' = [req EXCEPT !.left = Without(q),
                                 !.calls = @ \union {[provider |-> q, key |-> k]}]

\* The adapter answers without its source: nothing for this market or without
\* a key, or something it knows.
Declines(q) ==
    /\ q \in Turn
    /\ req.market \notin CallOf(q).serves \/ q \notin Available(req.by)
    /\ NothingFrom(q, {q})
Knows(q) ==
    /\ q \in Turn
    /\ YfKnown(q, req.op, req.market) \/ (CallOf(q).stores # {} /\ stored = <<q, OpOf(q)>>)
    /\ AnswerFrom(q)

\* Its source is called, with the next key where it needs one.
Calls(q) ==
    /\ q \in Turn /\ req.market \in CallOf(q).serves /\ q \in Available(req.by)
    /\ ~YfKnown(q, req.op, req.market) /\ stored # <<q, OpOf(q)>>
    /\ IF CallOf(q).pooled THEN \E k \in Keys : TakeKey(req.by, k) /\ Sent(q, k)
       ELSE UNCHANGED poolVars /\ Sent(q, NoKey)
    /\ UNCHANGED <<router, stored, adminVars>>

\* No key is left for it; a call with attempts left waits and tries again.
FindsNoKey(q) ==
    /\ q \in Turn /\ req.market \in CallOf(q).serves /\ q \in Available(req.by)
    /\ CallOf(q).pooled /\ NoKeyLeft(req.by)
    /\ IF req.tries + 1 < CallOf(q).tries THEN req' = [req EXCEPT !.tries = @ + 1]
       ELSE NothingFrom(q, IF \A k \in ToSet(KeysOf(req.by)) : ~KeyAvailable(req.by, k)
                           THEN {q} ELSE {})
    /\ UNCHANGED <<router, stored, adminVars>>

\* The source's answer.  A 429 rests the key; an adapter may call once more.
Returns(c, outcome) ==
    LET q == c.provider
        m == CallOf(q)
        again == outcome \in m.again /\ req.tries + 1 < m.tries
    IN /\ outcome = "limited" => m.pooled
       /\ IF outcome = "limited" THEN MarkKeyRateLimited(req.by, c.key) ELSE UNCHANGED poolVars
       /\ CASE again -> req' = [req EXCEPT !.left = <<q>> \o @, !.calls = @ \ {c}, !.tries = @ + 1]
            [] ~again /\ outcome \in {"data"} \union m.blank -> AnswerFrom(q)
            [] OTHER -> NothingFrom(q, {q})
       /\ stored' = IF ~again /\ outcome \in m.stores THEN <<q, OpOf(q)>> ELSE stored
       /\ UNCHANGED <<router, adminVars>>

\* The executor is replaced: the thread's future is cancelled, and neither the
\* adapter nor the router catches that.
CallCancelled(c) ==
    /\ req' = [req EXCEPT !.left = <<>>, !.calls = {}, !.raised = TRUE]
    /\ UNCHANGED <<router, stored, akVars>>

RequestEnds ==
    /\ req.at = "open" /\ req.left = <<>> /\ req.calls = {}
    /\ req' = [req EXCEPT !.at = "ended"]
    /\ UNCHANGED <<router, stored, akVars>>

\* Its caller has the answer.
RequestForgotten == req.at = "ended" /\ req' = NoRequest /\ UNCHANGED <<router, stored, akVars>>

StoredExpires == stored # <<>> /\ stored' = <<>> /\ UNCHANGED <<router, req, akVars>>

-----------------------------------------------------------------------------
\* update_provider() forgets its process' router, after the signal.
ResetRouter ==
    /\ admin.at = "published" /\ admin' = Idle
    /\ router' = [router EXCEPT ![admin.by] = NoRouter]
    /\ UNCHANGED <<req, stored, row, updates, losses, loaded, signal, listening, poolVars>>

Asking ==
    \/ req.at = "open" /\ req.left # <<>> /\ \E q \in Providers :
          \/ (Declines(q) \/ Knows(q)) /\ UNCHANGED <<router, stored, akVars>>
          \/ Calls(q) \/ FindsNoKey(q)
    \/ req.at = "open" /\ \E c \in req.calls :
          \/ \E o \in Outcomes : Returns(c, o)
          \/ CallCancelled(c)
    \/ RequestEnds \/ RequestForgotten

Requesting == \E p \in Processes :
    \/ \E m \in Markets : \/ \E op \in Chained : GetRouted(p, op, m)
                          \/ GetNews(p, m)
                          \/ Search(p, m)
    \/ GetMarketContext(p)
    \/ \E op \in Extended : GetExtended(p, op)

SrNext ==
    \/ Requesting
    \/ Asking
    \/ StoredExpires
    \/ ResetRouter
    \/ AkNext /\ UNCHANGED srVars

\* A request that ends with nothing, and any fan-out, has heard of every provider
\* that serves its market: each answered, failed, or had no key it could use.
EveryProviderHadItsChance ==
    req.at = "ended" /\ ~req.raised /\ (req.answered = {} \/ ~req.inOrder)
        => req.due \subseteq req.answered \union req.excused

\* The routes of a process are those of the keys it has, once no change of them
\* is under way.  The code: "Reset StockRouter so it picks up newly
\* enabled/disabled providers".
RoutesFollowKeys ==
    admin = Idle /\ (\A p \in Processes : ~signal[p])
        => \A p \in Processes : router[p] \in {NoRouter, Available(p)}

SrSpec == SrInit /\ [][SrNext]_routerVars
=============================================================================
