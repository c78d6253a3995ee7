--------------------------- MODULE ProviderCalls ---------------------------
(***************************************************************************)
(* What a call of a provider adapter does (backend/app/providers): which   *)
(* markets it serves, whether it takes a key from the pool, what of it is  *)
(* kept in Redis, and which outcomes of its source it turns into an answer *)
(* without content instead of None.  How a call waits for a thread is the  *)
(* matter of ProviderQueue and Executors; the fields of an answer are left *)
(* out.                                                                    *)
(***************************************************************************)
EXTENDS Integers, Sequences

US == "us"
HK == "hk"
Shares == {"sh", "sz"}
Metal == "metal"
Markets == {US, HK, Metal} \union Shares

\* What the source does with a call: it answers, has nothing, fails in the
\* thread, says 429, or is not back when the wait for the thread ends.
Failures == {"empty", "error", "timeout"}
Outcomes == {"data", "limited"} \union Failures

\* `serves`: the markets it calls its source for, elsewhere it is None at once;
\* `pooled`: takes a key from the pool; `stores`: outcomes kept in Redis;
\* `blank`: outcomes answered by something that is not None; `again`: outcomes
\* after which it makes another of its `tries` calls.
Plain(ms) == [serves |-> ms, pooled |-> FALSE, stores |-> {}, blank |-> {},
              again |-> {}, tries |-> 1]
Stored(ms) == [Plain(ms) EXCEPT !.stores = {"data"}]
Pooled(ms) == [Plain(ms) EXCEPT !.pooled = TRUE]

\* A method the adapter does not have: DataProvider returns None or [].
Unimplemented == Plain({})

-----------------------------------------------------------------------------
(* yfinance *)

YfQuote == Plain(Markets)
YfHistory == Plain(Markets)
YfSearch == Plain(Markets)
YfInfo == Plain(Markets)
\* The metals' descriptions are a table of the program.
YfKnown(p, op, m) == p = "yfinance" /\ op = "info" /\ m = Metal
YfFinancials == Plain(Markets \ {Metal})
YfAnalystRatings == Stored(Markets)
\* {"financials": None, "analyst": None} for every failure.
YfFundamentalsBundle == [Plain(Markets \ {Metal}) EXCEPT !.blank = Failures]
YfTechnicalInfo == Stored(Markets)
YfInstitutionalHolders == Stored(Markets)
\* A dictionary whatever fails; only an index that has data is kept.
YfMarketIndices == [Stored(Markets) EXCEPT !.blank = Failures]
YfNews == Plain(Markets)
YfSectorIndustry == Plain(Markets)
YfInsiderTransactions == Plain(Markets)
YfInsiderPurchases == Plain(Markets)
YfOptionsSentiment == Plain(Markets)
YfOptionsChain == Plain(Markets)
YfUpgradesDowngrades == Plain(Markets)
YfEarningsDates == Plain(Markets)
YfValuationMeasures == Plain(Markets)
YfShortInterest == Plain(Markets)

YFinance ==
    [quote |-> YfQuote, history |-> YfHistory, intraday |-> YfHistory,
     search |-> YfSearch, info |-> YfInfo, financials |-> YfFinancials,
     news |-> YfNews, analyst |-> YfAnalystRatings, bundle |-> YfFundamentalsBundle,
     technical |-> YfTechnicalInfo, institutional |-> YfInstitutionalHolders,
     indices |-> YfMarketIndices, industry |-> YfSectorIndustry,
     insiders |-> YfInsiderTransactions, purchases |-> YfInsiderPurchases,
     sentiment |-> YfOptionsSentiment, options |-> YfOptionsChain,
     upgrades |-> YfUpgradesDowngrades, earnings |-> YfEarningsDates,
     measures |-> YfValuationMeasures, shorts |-> YfShortInterest]

-----------------------------------------------------------------------------
(* AKShare *)

AkQuoteCn == Plain(Shares)
AkQuoteHk == Plain({HK})
AkHistoryCn == Plain(Shares)
\* No bar in the range asked for is an answer with no bars.
AkHistoryHk == [Plain({HK}) EXCEPT !.blank = {"empty"}]
AkSearchCn == Plain(Shares)
AkSearchHk == Plain({HK})
AkInfo == Plain(Shares)
AkFinancials == Plain(Shares)
\* Eight quarters that fail or hold nothing are "not held by any fund".
AkFundHoldings ==
    [Stored(Markets) EXCEPT !.blank = {"empty", "error"}, !.stores = @ \union {"empty", "error"}]
AkNorthboundHolding ==
    [Stored(Markets) EXCEPT !.blank = {"empty"}, !.stores = @ \union {"empty"}]
AkNorthboundFlow == Stored(Markets)
AkIndustrySectors == Stored(Markets)
AkStockIndustry == Stored(Markets)
AkSectorHistory == Stored(Markets)
AkNews == Plain(Markets)
AkMarginTrading == Plain(Markets)
AkStockConnectFlow == Plain(Markets)
AkShareholderCount == Plain(Markets)
AkDragonTiger == Plain(Markets)
AkBlockTrades == Plain(Markets)

\* get_hk_stock_history() asks AKShare and, given None, yfinance.
AkHkStockHistory == [Stored(Markets) EXCEPT !.again = {"empty", "error"}, !.tries = 2]

\* A method that turns to one of two calls by the market.
ByMarket(m, cn, hk) == IF m \in cn.serves THEN cn ELSE hk

AKShare(m) ==
    [quote |-> ByMarket(m, AkQuoteCn, AkQuoteHk),
     history |-> ByMarket(m, AkHistoryCn, AkHistoryHk), intraday |-> AkHistoryCn,
     search |-> ByMarket(m, AkSearchCn, AkSearchHk), info |-> AkInfo,
     financials |-> AkFinancials, news |-> AkNews, funds |-> AkFundHoldings,
     northbound |-> AkNorthboundHolding, flow |-> AkNorthboundFlow,
     sectors |-> AkIndustrySectors, stock_industry |-> AkStockIndustry,
     sector_history |-> AkSectorHistory, hk_history |-> AkHkStockHistory,
     margin |-> AkMarginTrading, connect |-> AkStockConnectFlow,
     holders |-> AkShareholderCount, dragon |-> AkDragonTiger, blocks |-> AkBlockTrades]

-----------------------------------------------------------------------------
(* Finnhub: every call first takes a key from the pool *)

FhQuote == Pooled({US})
FhHistory == Pooled({US})
FhSearch == Pooled(Markets)
FhInfo == Pooled({US})
FhNews == Pooled({US})
FhPeers == Pooled(Markets)
\* The thread takes a key for each of its attempts.
FhValuationSeries == [Pooled(Markets) EXCEPT !.again = {"limited"}, !.tries = 3]
FhInsiderSentiment == Pooled(Markets)
FhEarningsSurprises == Pooled(Markets)
FhRecommendationTrends == Pooled(Markets)
FhSecFinancials == Pooled(Markets)
FhEarningsCalendar == Pooled(Markets)
FhEconomicIndicator == Pooled(Markets)
FhUsSpending == Pooled(Markets)
FhLobbying == Pooled(Markets)

Finnhub ==
    [quote |-> FhQuote, history |-> FhHistory, intraday |-> FhHistory,
     search |-> FhSearch, info |-> FhInfo, news |-> FhNews, peers |-> FhPeers,
     series |-> FhValuationSeries, mspr |-> FhInsiderSentiment,
     surprises |-> FhEarningsSurprises, trends |-> FhRecommendationTrends,
     sec |-> FhSecFinancials, calendar |-> FhEarningsCalendar,
     economy |-> FhEconomicIndicator, spending |-> FhUsSpending, lobbying |-> FhLobbying]

-----------------------------------------------------------------------------
(* Tiingo, Massive and Tushare: one key each *)

TiQuote == Plain({US})
TiHistory == Plain({US})
TiSearch == Plain(Markets)
TiInfo == Stored({US})
TiFinancials == Stored({US})
TiStatements == Stored(Markets)
TiNews == Plain({US})

Tiingo ==
    [quote |-> TiQuote, history |-> TiHistory, search |-> TiSearch, info |-> TiInfo,
     financials |-> TiFinancials, statements |-> TiStatements, news |-> TiNews]

MaQuote == Plain({US})
MaHistory == Plain({US})
MaSearch == Plain(Markets)
MaInfo == Stored({US})
MaNews == Plain({US})

Massive ==
    [quote |-> MaQuote, history |-> MaHistory, intraday |-> MaHistory,
     search |-> MaSearch, info |-> MaInfo, news |-> MaNews]

TuQuote == Plain(Shares)
\* Its news are of the whole market, whatever the symbol.
TuNews == Plain(Markets)
Tushare == [quote |-> TuQuote, news |-> TuNews]

-----------------------------------------------------------------------------
Adapters(m) ==
    [yfinance |-> YFinance, akshare |-> AKShare(m), finnhub |-> Finnhub,
     tiingo |-> Tiingo, massive |-> Massive, tushare |-> Tushare]
Providers == {"yfinance", "akshare", "finnhub", "tiingo", "massive", "tushare"}

AdapterTable == [m \in Markets |-> Adapters(m)]
Method(p, op, m) ==
    IF op \in DOMAIN AdapterTable[m][p] THEN AdapterTable[m][p][op] ELSE Unimplemented

\* supported_markets
Supported ==
    [yfinance |-> Markets, akshare |-> {HK} \union Shares, finnhub |-> {US},
     tiingo |-> {US}, massive |-> {US}, tushare |-> Shares]
=============================================================================
