------------------------------ MODULE Upstream ------------------------------
(***************************************************************************)
(* The upstream collectors of one provider in backend/app/ws/upstream/:    *)
(* the registry (collector_service.py), the orchestrators that spread      *)
(* symbols over several connections (yfinance_orchestrator.py, which adds  *)
(* connections, and finnhub_orchestrator.py, which has one per API key)    *)
(* and their shards (base.py), which reconnect and subscribe again.        *)
(*                                                                         *)
(* An action is the code between two suspensions.  A call suspends at the  *)
(* orchestrator's lock when it is taken, in a send to an open connection   *)
(* and while it stops a shard; building shards only creates tasks.         *)
(***************************************************************************)
EXTENDS Integers, Sequences, FiniteSets

CONSTANTS Providers,     \* the orchestrators looked at, of "yfinance", "finnhub"
          UpSymbols,     \* symbols, as numbers: sorted() is their order
          Requests,      \* the sets of symbols asked for at once
          ShardCap,      \* SYMBOLS_PER_SHARD, SYMBOLS_PER_KEY
          ConnLimit,     \* symbols Yahoo takes on one connection, about 100
          KeyCounts,     \* the numbers of finnhub keys there may be
          MaxAsks,       \* bound on calls of start_collector()
          MaxCollectors, \* bound on collectors these calls create
          MaxUpMishaps   \* bound on lost connections, stop_collector(), reloads

ASSUME UpstreamAssumption ==
    /\ Providers \subseteq {"yfinance", "finnhub"}
    /\ UpSymbols \subseteq Nat /\ IsFiniteSet(UpSymbols)
    /\ Requests \subseteq (SUBSET UpSymbols) \ {{}}
    /\ ShardCap \in Nat \ {0} /\ ConnLimit \in Nat
    /\ KeyCounts \subseteq Nat /\ KeyCounts # {}
    /\ {MaxAsks, MaxCollectors, MaxUpMishaps} \subseteq Nat

\* The calls, numbered in the order in which they begin.
Asks == 1..MaxAsks

VARIABLES provider,  \* the provider this behaviour is about
          registry,  \* collector in _collectors, 0 for none
          coll,      \* the collectors created so far, in order
          ask,       \* each call of start_collector()
          stopping,  \* the call of stop_collector(): collector and shard
          keyCount,  \* number of keys in the pool
          upMishaps  \* lost connections, stops and reloads so far

upVars == <<provider, registry, coll, ask, stopping, keyCount, upMishaps>>

\* Who has the lock of an orchestrator: a call, nobody, or a reload.
Nobody == 0
Reload == -1
NoAsk == [pc |-> "idle", syms |-> {}, on |-> 0]

-----------------------------------------------------------------------------
(* A shard: one connection and its _run_loop. *)

\* conn: "down" while _connected is false, "open", "stale" when the socket is
\* closed but the loop has not noticed or is connecting again, "off" stopped.
\* hello: _on_connected has not sent the symbols yet.
Shard(S) == [syms |-> S, conn |-> "down", server |-> {}, hello |-> FALSE]

Connected(s) == s.conn \in {"open", "stale"}
Running(c) == \E i \in DOMAIN coll[c].shards : coll[c].shards[i].conn # "off"
IsConnected(c) == \E i \in DOMAIN coll[c].shards : Connected(coll[c].shards[i])

\* subscribe_symbols() of a shard: it keeps the symbols, then sends them.
Subscribed(s, S) ==
    [s EXCEPT !.syms = @ \cup S,
              !.server = IF s.conn = "open" THEN @ \cup S ELSE @]

InShard(c, i, s) == coll' = [coll EXCEPT ![c].shards[i] = s]

\* Mutant: only a connection that was noticed to be lost says hello again.
ConnectWithoutHello(c, i) ==
    LET s == coll[c].shards[i] IN
    /\ s.conn = "down" \/ (s.conn = "stale" /\ ~(s.hello /\ s.syms # {}))
    /\ InShard(c, i, [s EXCEPT !.conn = "open", !.server = {},
                               !.hello = s.conn = "down"])
    /\ UNCHANGED <<provider, registry, ask, stopping, keyCount, upMishaps>>

Connect(c, i) ==
    LET s == coll[c].shards[i] IN
    /\ s.conn = "down" \/ (s.conn = "stale" /\ ~(s.hello /\ s.syms # {}))
    /\ InShard(c, i, [s EXCEPT !.conn = "open", !.server = {}, !.hello = TRUE])
    /\ UNCHANGED <<provider, registry, ask, stopping, keyCount, upMishaps>>

OnConnected(c, i) ==
    LET s == coll[c].shards[i] IN
    /\ s.conn = "open" /\ s.hello
    /\ InShard(c, i, [s EXCEPT !.server = @ \cup s.syms, !.hello = FALSE])
    /\ UNCHANGED <<provider, registry, ask, stopping, keyCount, upMishaps>>

\* The connection closes, normally or not; the loop learns of it later.
Dropped(c, i) ==
    LET s == coll[c].shards[i] IN
    /\ s.conn = "open" /\ upMishaps < MaxUpMishaps
    /\ InShard(c, i, [s EXCEPT !.conn = "stale", !.server = {}])
    /\ upMishaps' = upMishaps + 1
    /\ UNCHANGED <<provider, registry, ask, stopping, keyCount>>

\* The loop takes the exception of a receive, a send or a new connection.
RunLoopFails(c, i) ==
    LET s == coll[c].shards[i] IN
    /\ s.conn = "stale"
    /\ InShard(c, i, [s EXCEPT !.conn = "down", !.hello = FALSE])
    /\ UNCHANGED <<provider, registry, ask, stopping, keyCount, upMishaps>>

-----------------------------------------------------------------------------
(* The orchestrators. *)

\* Chunks of n of the sorted symbols, k of them, the last ones maybe empty: a
\* symbol's place in sorted(S), and the symbols of chunk i.
Place(S, s) == Cardinality({t \in S : t <= s})
Chunk(S, n, i) == {s \in S : (i - 1) * n < Place(S, s) /\ Place(S, s) <= i * n}
Chunks(S, n, k) == [i \in 1..k |-> Shard(Chunk(S, n, i))]

CeilDiv(a, b) == (a + b - 1) \div b
AtLeastOne(n) == IF n < 1 THEN 1 ELSE n
AtMostCap(n) == IF n > ShardCap THEN ShardCap ELSE n

BuildShards(S) ==
    Chunks(S, ShardCap, AtLeastOne(CeilDiv(Cardinality(S), ShardCap)))

ShardSymbols(S, k) ==
    IF k = 0 THEN <<>>
    ELSE Chunks(S, AtMostCap(CeilDiv(Cardinality(S), k)), k)

\* The collector that start() leaves behind; without a key it starts nothing.
Started(S) ==
    LET none == provider = "finnhub" /\ keyCount = 0
    IN [all |-> IF none THEN {} ELSE S,
        shards |-> IF provider = "yfinance" THEN BuildShards(S)
                                            ELSE ShardSymbols(S, keyCount),
        started |-> ~none, lock |-> Nobody, reload |-> "none"]

\* _find_least_loaded(): the first of the shards with the fewest symbols, if it
\* has room; a set of one shard, or of none when all are full.
Load(s) == Cardinality(s.syms)
LeastLoaded(shards) ==
    {i \in DOMAIN shards :
       /\ Load(shards[i]) < ShardCap
       /\ \A j \in DOMAIN shards : \/ Load(shards[i]) < Load(shards[j])
                                   \/ Load(shards[i]) = Load(shards[j]) /\ i <= j}

\* Collector x after symbols S went to shard i.
Assigned(x, i, S) == [x EXCEPT !.all = @ \cup S,
                               !.shards[i] = Subscribed(@, S)]

\* Call a, which has the lock of collector c, after a send on connection i: it
\* waits for the send, fails on a closed connection, or is not sent at all.
AfterSend(a, c, x, i, rest) ==
    LET conn == x.shards[i].conn IN
    \/ /\ conn = "open"
       /\ coll' = [coll EXCEPT ![c] = [x EXCEPT !.lock = a]]
       /\ ask' = [ask EXCEPT ![a].pc = "sending", ![a].on = c, ![a].syms = rest]
    \/ /\ conn = "stale"
       /\ coll' = [coll EXCEPT ![c] = [x EXCEPT !.lock = Nobody]]
       /\ ask' = [ask EXCEPT ![a] = [NoAsk EXCEPT !.pc = "failed"]]
    \/ /\ conn \in {"down", "off"} /\ rest = {}
       /\ coll' = [coll EXCEPT ![c] = [x EXCEPT !.lock = Nobody]]
       /\ ask' = [ask EXCEPT ![a] = [NoAsk EXCEPT !.pc = "done"]]
    \/ /\ conn \in {"down", "off"} /\ rest # {}
       /\ coll' = [coll EXCEPT ![c] = [x EXCEPT !.lock = a]]
       /\ ask' = [ask EXCEPT ![a].pc = "next", ![a].on = c, ![a].syms = rest]

NothingNew(a, c) ==
    /\ coll' = [coll EXCEPT ![c].lock = Nobody]
    /\ ask' = [ask EXCEPT ![a] = [NoAsk EXCEPT !.pc = "done"]]

\* yfinance: no count changes while the loop over the symbols runs, so all the
\* new ones go to one shard, which is a new one when all are full.
AssignBatch(a, c, new) ==
    LET x == coll[c]
        least == LeastLoaded(x.shards)
        last == Len(x.shards) + 1
    IN \/ \E i \in least : AfterSend(a, c, Assigned(x, i, new), i, {})
       \/ /\ least = {}
          /\ AfterSend(a, c, Assigned([x EXCEPT !.shards = Append(@, Shard({}))], last, new),
                       last, {})

\* Mutant: symbols that are subscribed already are not filtered out.
NewSymbolsAll(c, S) == S

NewSymbols(c, S) == S \ coll[c].all

\* The body of subscribe_symbols(): what is left of S, in any order.
Subscribe(a, c, S) ==
    LET x == coll[c]
        new == NewSymbols(c, S)
        least == LeastLoaded(x.shards) IN
    \/ new = {} /\ NothingNew(a, c)
    \/ new # {} /\ provider = "yfinance" /\ AssignBatch(a, c, new)
    \/ new # {} /\ provider = "finnhub" /\ least = {} /\ NothingNew(a, c)
    \/ /\ new # {} /\ provider = "finnhub"
       /\ \E i \in least, s \in new : AfterSend(a, c, Assigned(x, i, {s}), i, new \ {s})

LockFree(c) == /\ coll[c].lock = Nobody
               /\ coll[c].reload # "wait"
               /\ \A a \in Asks : ~(ask[a].pc = "lock" /\ ask[a].on = c)

\* start_collector() on behalf of a client: a registered collector with a
\* connection takes the symbols, anything else is replaced by a new collector.
StartCollector(a, S) ==
    /\ ask[a].pc = "idle" /\ \A b \in 1..(a - 1) : ask[b].pc # "idle"
    /\ \/ /\ registry # 0 /\ IsConnected(registry)
          /\ \/ LockFree(registry) /\ Subscribe(a, registry, S)
             \/ /\ ~LockFree(registry)
                /\ ask' = [ask EXCEPT ![a] = [pc |-> "lock", syms |-> S,
                                              on |-> registry]]
                /\ UNCHANGED coll
          /\ UNCHANGED registry
       \/ /\ ~(registry # 0 /\ IsConnected(registry))
          /\ Len(coll) < MaxCollectors
          /\ coll' = Append(coll, Started(S))
          /\ registry' = Len(coll) + 1
          /\ ask' = [ask EXCEPT ![a].pc = "done"]
    /\ UNCHANGED <<provider, stopping, keyCount, upMishaps>>

\* A call goes on: with the lock, or after a send, with the next symbol.
SubscribeGoesOn(a) ==
    LET c == ask[a].on IN
    /\ \/ ask[a].pc = "lock" /\ coll[c].lock = Nobody
       \/ ask[a].pc \in {"sending", "next"}
    /\ Subscribe(a, c, ask[a].syms)
    /\ UNCHANGED <<provider, registry, stopping, keyCount, upMishaps>>

\* The connection closes during a send, which raises.
SendFails(a) ==
    /\ ask[a].pc = "sending"
    /\ \E i \in DOMAIN coll[ask[a].on].shards :
         coll[ask[a].on].shards[i].conn \in {"stale", "down", "off"}
    /\ coll' = [coll EXCEPT ![ask[a].on].lock = Nobody]
    /\ ask' = [ask EXCEPT ![a] = [NoAsk EXCEPT !.pc = "failed"]]
    /\ UNCHANGED <<provider, registry, stopping, keyCount, upMishaps>>

-----------------------------------------------------------------------------
(* stop_collector() and the reload of the keys. *)

Stopped(s) == [s EXCEPT !.conn = "off", !.server = {}, !.hello = FALSE]

StopCollector ==
    /\ registry # 0 /\ stopping.on = 0 /\ upMishaps < MaxUpMishaps
    /\ stopping' = [on |-> registry, shard |-> 1]
    /\ registry' = 0
    /\ upMishaps' = upMishaps + 1
    /\ UNCHANGED <<provider, coll, ask, keyCount>>

\* stop() of the orchestrator takes no lock: it stops shard by shard, then
\* forgets them; the next collector may be started meanwhile.
StopShard ==
    LET c == stopping.on
        i == stopping.shard IN
    /\ c # 0
    /\ \/ /\ i <= Len(coll[c].shards)
          /\ InShard(c, i, Stopped(coll[c].shards[i]))
          /\ stopping' = [stopping EXCEPT !.shard = i + 1]
       \/ /\ i > Len(coll[c].shards)
          /\ coll' = [coll EXCEPT ![c].shards = <<>>, ![c].started = FALSE]
          /\ stopping' = [on |-> 0, shard |-> 1]
    /\ UNCHANGED <<provider, registry, ask, keyCount, upMishaps>>

\* The callbacks are awaited, so one reload ends before the next begins.
ReloadKeys(n) ==
    /\ provider = "finnhub" /\ n # keyCount /\ upMishaps < MaxUpMishaps
    /\ keyCount' = n
    /\ upMishaps' = upMishaps + 1
    /\ \A c \in DOMAIN coll : coll[c].reload = "none"
    /\ coll' = [c \in DOMAIN coll |->
                  IF coll[c].started THEN [coll[c] EXCEPT !.reload = "wait"]
                                     ELSE coll[c]]
    /\ UNCHANGED <<provider, registry, ask, stopping>>

\* _on_keys_changed() under the lock: all connections stop, then the symbols
\* are spread over the new keys.
OnKeysChanged(c) ==
    LET x == coll[c] IN
    /\ \/ /\ x.reload = "wait" /\ x.lock = Nobody
          /\ coll' = [coll EXCEPT ![c].lock = Reload, ![c].reload = "stop"]
       \/ /\ x.reload = "stop"
          /\ \E i \in DOMAIN x.shards :
               /\ x.shards[i].conn # "off"
               /\ \A j \in 1..(i - 1) : x.shards[j].conn = "off"
               /\ InShard(c, i, Stopped(x.shards[i]))
       \/ /\ x.reload = "stop"
          /\ \A i \in DOMAIN x.shards : x.shards[i].conn = "off"
          /\ coll' = [coll EXCEPT ![c].shards = ShardSymbols(x.all, keyCount),
                                  ![c].lock = Nobody, ![c].reload = "none"]
    /\ UNCHANGED <<provider, registry, ask, stopping, keyCount, upMishaps>>

-----------------------------------------------------------------------------
UpInit ==
    /\ provider \in Providers
    /\ registry = 0
    /\ coll = <<>>
    /\ ask = [a \in Asks |-> NoAsk]
    /\ stopping = [on |-> 0, shard |-> 1]
    /\ keyCount \in IF provider = "finnhub" THEN KeyCounts ELSE {0}
    /\ upMishaps = 0

RunLoop(c, i) == Connect(c, i) \/ OnConnected(c, i) \/ RunLoopFails(c, i)

AnyRunLoop == \E c \in DOMAIN coll : \E i \in DOMAIN coll[c].shards :
                RunLoop(c, i)
AnyCall == (\E a \in Asks : SubscribeGoesOn(a)) \/ StopShard
           \/ (\E c \in DOMAIN coll : OnKeysChanged(c))

UpNext ==
    \/ \E a \in Asks, S \in Requests : StartCollector(a, S)
    \/ \E a \in Asks : SendFails(a)
    \/ StopCollector
    \/ \E n \in KeyCounts : ReloadKeys(n)
    \/ \E c \in DOMAIN coll : \E i \in DOMAIN coll[c].shards : Dropped(c, i)
    \/ AnyRunLoop \/ AnyCall

UpSpec == UpInit /\ [][UpNext]_upVars

-----------------------------------------------------------------------------
(* Properties. *)

Held(x) == UNION {x.shards[i].syms : i \in DOMAIN x.shards}

Placed(x) ==
    /\ \A i, j \in DOMAIN x.shards : i # j => x.shards[i].syms \cap x.shards[j].syms = {}
    /\ provider = "finnhub" => \A i \in DOMAIN x.shards : Load(x.shards[i]) <= ShardCap
    /\ Held(x) \subseteq x.all
    /\ x.all # Held(x) =>
         /\ provider = "finnhub"
         /\ \A i \in DOMAIN x.shards : Load(x.shards[i]) = ShardCap

\* The registered collector, between two calls and during one, has every symbol
\* on one shard only, and leaves one out only with finnhub and when every key is
\* full; a finnhub key never has more than its cap.
SymbolsArePlaced == registry # 0 => Placed(coll[registry])

\* "Yahoo WS limits each connection to ~100 symbol subscriptions": what stands at
\* the head of yfinance_orchestrator.py and the margin of 80 is for.  It fails,
\* since AssignBatch puts a whole request on a shard with room for one symbol.
WithinConnection ==
    registry # 0 => \A i \in DOMAIN coll[registry].shards :
                      Load(coll[registry].shards[i]) <= ConnLimit

\* A connection that is up and has said hello is subscribed upstream to exactly
\* the symbols of its shard, whatever was asked for while it was reconnecting.
InSync ==
    \A c \in DOMAIN coll : \A i \in DOMAIN coll[c].shards :
      LET s == coll[c].shards[i]
      IN s.conn = "open" /\ ~s.hello => s.server = s.syms
=============================================================================
