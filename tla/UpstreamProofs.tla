--------------------------- MODULE UpstreamProofs ---------------------------
(***************************************************************************)
(* InSync and SymbolsArePlaced for any symbols, requests, cap and number   *)
(* of keys.  What a connection was sent is always of its shard, and all of *)
(* it once it said hello; a symbol goes to a shard when it is new, so      *)
(* shards stay disjoint, and the chunks that shards begin with partition   *)
(* the symbols unless all of them are full.                                *)
(***************************************************************************)
EXTENDS Upstream, FiniteSetTheorems, FunctionTheorems, TLAPS

(* Places and chunks *)

LEMMA Rounding ==
    ASSUME NEW a \in Nat, NEW b \in Nat \ {0}
    PROVE  /\ CeilDiv(a, b) \in Nat
           /\ a <= CeilDiv(a, b) * b
           /\ a > 0 => (CeilDiv(a, b) - 1) * b < a
  <1>1. (a + b - 1) \div b \in Nat OBVIOUS
  <1>2. b * ((a + b - 1) \div b) <= a + b - 1 /\ a + b - 1 < b * ((a + b - 1) \div b) + b
    OBVIOUS
  <1> QED BY <1>1, <1>2 DEF CeilDiv

LEMMA FiniteSymbols ==
    ASSUME NEW S \in SUBSET UpSymbols
    PROVE  IsFiniteSet(S) /\ Cardinality(S) \in Nat /\ S \subseteq Nat
  BY UpstreamAssumption, FS_Subset, FS_CardinalityType

\* The places of the symbols are 1..Cardinality(S), each taken once.
LEMMA PlacesAreTaken ==
    ASSUME NEW S \in SUBSET UpSymbols
    PROVE  [s \in S |-> Place(S, s)] \in Bijection(S, 1..Cardinality(S))
  <1> DEFINE f == [s \in S |-> Place(S, s)]
             T(s) == {t \in S : t <= s}
             n == Cardinality(S)
  <1>1. IsFiniteSet(S) /\ n \in Nat /\ S \subseteq Nat BY FiniteSymbols
  <1>2. ASSUME NEW s \in S
        PROVE  Place(S, s) \in 1..n /\ T(s) \subseteq S /\ IsFiniteSet(T(s)) /\ s \in T(s)
    <2>1. T(s) \subseteq S /\ s \in T(s) BY <1>1
    <2>2. IsFiniteSet(T(s)) /\ Cardinality(T(s)) <= n /\ Cardinality(T(s)) \in Nat
      BY <2>1, <1>1, FS_Subset, FS_CardinalityType
    <2>3. Cardinality(T(s)) # 0 BY <2>1, <2>2, FS_EmptySet
    <2> QED BY <2>1, <2>2, <2>3, <1>1 DEF Place
  <1>3. ASSUME NEW s \in S, NEW t \in S, s < t PROVE Place(S, s) < Place(S, t)
    <2>0. s \in Nat /\ t \in Nat BY <1>1
    <2>b. \A u \in S : u \in Nat /\ (u <= s => u <= t) BY <2>0, <1>1, <1>3
    <2>c. t <= t /\ ~(t <= s) BY <2>0, <1>3
    <2>1. T(s) \subseteq T(t) /\ t \in T(t) /\ t \notin T(s) BY <2>b, <2>c
    <2>2. IsFiniteSet(T(t)) BY <1>2
    <2>a. Cardinality(T(s)) \in Nat /\ Cardinality(T(t)) \in Nat BY <1>2, FS_CardinalityType
    <2>3. Cardinality(T(s)) < Cardinality(T(t)) BY <2>1, <2>2, <2>a, FS_Subset
    <2> QED BY <2>3 DEF Place
  <1>4. f \in [S -> 1..n] BY <1>2
  <1>5. ASSUME NEW s \in S, NEW t \in S, f[s] = f[t] PROVE s = t
    <2>0. Place(S, s) \in 1..n /\ Place(S, t) \in 1..n BY <1>2
    <2>1. Place(S, s) = Place(S, t) /\ Place(S, s) \in Nat BY <1>5, <2>0, <1>1
    <2>2. s \in Nat /\ t \in Nat BY <1>1
    <2> QED BY <2>1, <2>2, <1>3
  <1>6. f \in Injection(S, 1..n) BY <1>4, <1>5, Fun_IsInj
  <1>7. IsFiniteSet(1..n) /\ Cardinality(1..n) = n BY <1>1, FS_Interval
  <1> HIDE DEF f
  <1>8. f \in Surjection(S, 1..n) BY <1>6, <1>7, FS_Injection
  <1> QED BY <1>6, <1>8 DEF Bijection, f

LEMMA Places ==
    ASSUME NEW S \in SUBSET UpSymbols
    PROVE  /\ \A s \in S : Place(S, s) \in 1..Cardinality(S)
           /\ \A s, t \in S : Place(S, s) = Place(S, t) => s = t
           /\ \A r \in 1..Cardinality(S) : \E s \in S : Place(S, s) = r
  <1> DEFINE f == [s \in S |-> Place(S, s)]
             T == 1..Cardinality(S)
  <1>1. f \in Bijection(S, T) BY PlacesAreTaken
  <1>2. \A s \in S : f[s] = Place(S, s) OBVIOUS
  <1> HIDE DEF f, T
  <1>3. f \in [S -> T] /\ \A s, t \in S : f[s] = f[t] => s = t
    BY <1>1, Fun_BijectionProperties
  <1>4. \A r \in T : \E s \in S : f[s] = r BY <1>1, Fun_BijectionProperties
  <1> QED BY <1>2, <1>3, <1>4 DEF T

\* A chunk has as many symbols as there are places in it.
LEMMA ChunkSize ==
    ASSUME NEW S \in SUBSET UpSymbols, NEW n \in Nat, NEW i \in Nat \ {0}
    PROVE  /\ Chunk(S, n, i) \subseteq S
           /\ IsFiniteSet(Chunk(S, n, i))
           /\ Cardinality(Chunk(S, n, i)) \in Nat
           /\ Cardinality(Chunk(S, n, i)) <= n
           /\ i * n <= Cardinality(S) => Cardinality(Chunk(S, n, i)) = n
  <1> DEFINE C == Chunk(S, n, i)
             lo == (i - 1) * n
             hi == i * n
             R == (lo + 1)..hi
             g == [s \in C |-> Place(S, s)]
  <1>1. lo \in Nat /\ hi \in Nat /\ hi = lo + n OBVIOUS
  <1>2. C = {s \in S : lo < Place(S, s) /\ Place(S, s) <= hi} BY DEF Chunk
  <1>3. C \subseteq S /\ IsFiniteSet(C) /\ Cardinality(C) \in Nat
    BY <1>2, FiniteSymbols, FS_Subset, FS_CardinalityType
  <1> HIDE DEF lo, hi, C
  <1>4. IsFiniteSet(R) /\ Cardinality(R) = n BY <1>1, FS_Interval
  <1>5. \A s \in C : Place(S, s) \in R /\ Place(S, s) \in Nat BY <1>1, <1>2, Places, FiniteSymbols
  <1>6. g \in [C -> R] /\ \A s, t \in C : g[s] = g[t] => s = t BY <1>3, <1>5, Places
  <1>7. ASSUME hi <= Cardinality(S) PROVE \A r \in R : \E s \in C : g[s] = r
    <2> TAKE r \in R
    <2>1. r \in 1..Cardinality(S) /\ lo < r /\ r <= hi BY <1>1, <1>7, FiniteSymbols
    <2>2. PICK s \in S : Place(S, s) = r BY <2>1, Places
    <2> QED BY <2>1, <2>2, <1>2
  <1> HIDE DEF g, R
  <1>8. g \in Injection(C, R) BY <1>6, Fun_IsInj
  <1>9. Cardinality(C) <= n BY <1>4, <1>8, FS_Injection
  <1>10. ASSUME hi <= Cardinality(S) PROVE Cardinality(C) = n
    <2>1. g \in Surjection(C, R) BY <1>6, <1>7, <1>10, Fun_IsSurj
    <2> QED BY <2>1, <1>4, <1>8, FS_Injection
  <1> QED BY <1>3, <1>9, <1>10 DEF C, hi

LEMMA ChunksAreDisjoint ==
    ASSUME NEW S \in SUBSET UpSymbols, NEW n \in Nat, NEW i \in Nat, NEW j \in Nat, i # j
    PROVE  Chunk(S, n, i) \cap Chunk(S, n, j) = {}
  <1>1. ASSUME NEW a \in Nat, NEW b \in Nat, a < b PROVE a * n <= (b - 1) * n
    <2>1. (b - 1) * n = a * n + (b - 1 - a) * n OBVIOUS
    <2>2. b - 1 - a \in Nat BY <1>1
    <2>3. (b - 1 - a) * n \in Nat BY <2>2
    <2> QED BY <2>1, <2>3
  <1>2. \A s \in S : Place(S, s) \in Nat BY Places, FiniteSymbols
  <1>3. (i - 1) * n \in Int /\ (j - 1) * n \in Int /\ i * n \in Int /\ j * n \in Int OBVIOUS
  <1>4. CASE i < j
    <2>1. i * n <= (j - 1) * n BY <1>1, <1>4
    <2> QED BY <2>1, <1>2, <1>3 DEF Chunk
  <1>5. CASE j < i
    <2>1. j * n <= (i - 1) * n BY <1>1, <1>5
    <2> QED BY <2>1, <1>2, <1>3 DEF Chunk
  <1> QED BY <1>4, <1>5

\* With room for all of them every symbol is in a chunk.
LEMMA ChunksCover ==
    ASSUME NEW S \in SUBSET UpSymbols, NEW n \in Nat, NEW k \in Nat, Cardinality(S) <= k * n
    PROVE  S \subseteq UNION {Chunk(S, n, i) : i \in 1..k}
  <1> SUFFICES ASSUME NEW s \in S PROVE \E i \in 1..k : s \in Chunk(S, n, i) OBVIOUS
  <1> DEFINE r == Place(S, s)
             i == CeilDiv(r, n)
  <1>1. r \in Nat /\ r > 0 /\ r <= k * n BY Places, FiniteSymbols
  <1>2. n # 0 BY <1>1
  <1> HIDE DEF r
  <1>3. i \in Nat /\ r <= i * n /\ (i - 1) * n < r BY <1>1, <1>2, Rounding
  <1> HIDE DEF i
  <1>4. i # 0 BY <1>1, <1>3
  <1>5. i <= k
    <2> SUFFICES ASSUME k < i PROVE FALSE BY <1>3
    <2>1. (i - 1) * n = k * n + (i - 1 - k) * n BY <1>3
    <2>2. i - 1 - k \in Nat BY <1>3
    <2>3. (i - 1 - k) * n \in Nat BY <2>2
    <2> QED BY <2>1, <2>3, <1>1, <1>3
  <1> QED BY <1>3, <1>4, <1>5 DEF Chunk, r

-----------------------------------------------------------------------------
(* The invariant *)

Shards == [syms : SUBSET UpSymbols, conn : {"down", "open", "stale", "off"},
           server : SUBSET UpSymbols, hello : BOOLEAN]
\* Only finnhub collectors are told of new keys.
ReloadStates == IF provider = "finnhub" THEN {"none", "wait", "stop"} ELSE {"none"}
Collectors == [all : SUBSET UpSymbols, shards : Seq(Shards), started : BOOLEAN,
               lock : Asks \union {Nobody, Reload}, reload : ReloadStates]
Calls == [pc : {"idle", "lock", "sending", "next", "done", "failed"},
          syms : SUBSET UpSymbols, on : Nat]

\* What was sent is of the shard, and all of it once it said hello.
Synced(s) == s.server \subseteq s.syms /\ (s.conn = "open" /\ ~s.hello => s.server = s.syms)
AllSynced(x) == \A i \in DOMAIN x.shards : Synced(x.shards[i])

\* A call has a collector while it goes on.
CallOk(c) ==
    c.pc \in {"lock", "sending", "next"} => c.on \in DOMAIN coll

UpInv ==
    /\ provider \in Providers /\ keyCount \in Nat
    /\ coll \in Seq(Collectors)
    /\ \A c \in DOMAIN coll : AllSynced(coll[c])
    /\ registry \in 0..Len(coll)
    /\ stopping \in [on : Nat, shard : Nat \ {0}]
    /\ stopping.on # 0 => stopping.on \in DOMAIN coll /\ stopping.on # registry
    /\ registry # 0 => Placed(coll[registry])
    /\ ask \in [Asks -> Calls]
    /\ \A a \in Asks : CallOk(ask[a])

LEMMA UpInitially == UpInit => UpInv
  <1> SUFFICES ASSUME UpInit PROVE UpInv OBVIOUS
  <1>1. keyCount \in Nat /\ provider \in Providers BY UpstreamAssumption DEF UpInit
  <1>2. coll = <<>> /\ coll \in Seq(Collectors) /\ DOMAIN coll = {} /\ Len(coll) = 0
    BY DEF UpInit
  <1>3. ask \in [Asks -> Calls] BY DEF UpInit, NoAsk, Calls
  <1>4. \A a \in Asks : CallOk(ask[a]) BY DEF UpInit, NoAsk, CallOk
  <1>5. registry = 0 /\ stopping = [on |-> 0, shard |-> 1] BY DEF UpInit
  <1> QED BY <1>1, <1>2, <1>3, <1>4, <1>5 DEF UpInv

-----------------------------------------------------------------------------
(* New shards *)

LEMMA ChunksAreShards ==
    ASSUME NEW S \in SUBSET UpSymbols, NEW n \in Nat, NEW k \in Nat
    PROVE  /\ Chunks(S, n, k) \in Seq(Shards)
           /\ DOMAIN Chunks(S, n, k) = 1..k
           /\ \A i \in 1..k : Chunks(S, n, k)[i].syms = Chunk(S, n, i)
           /\ \A i \in 1..k : Synced(Chunks(S, n, k)[i])
  <1>1. \A i \in 1..k : Chunk(S, n, i) \subseteq UpSymbols BY DEF Chunk
  <1>2. \A i \in 1..k : Shard(Chunk(S, n, i)) \in Shards /\ Synced(Shard(Chunk(S, n, i)))
    BY <1>1 DEF Shard, Shards, Synced
  <1>3. \A i \in 1..k : Chunks(S, n, k)[i] = Shard(Chunk(S, n, i)) BY DEF Chunks
  <1>4. Chunks(S, n, k) \in [1..k -> Shards] BY <1>2 DEF Chunks
  <1> QED BY <1>2, <1>3, <1>4 DEF Shard

\* A collector all of whose shards are chunks of its symbols, with room for all
\* of them or, with finnhub, every chunk full.
LEMMA ChunksArePlaced ==
    ASSUME NEW S \in SUBSET UpSymbols, NEW n \in 0..ShardCap, NEW k \in Nat,
           NEW x \in Collectors, x.all = S, x.shards = Chunks(S, n, k),
           Cardinality(S) <= k * n \/ (provider = "finnhub" /\ n = ShardCap /\ k * n <= Cardinality(S))
    PROVE  Placed(x)
  <1>0. ShardCap \in Nat /\ n \in Nat BY UpstreamAssumption
  <1>a. /\ DOMAIN Chunks(S, n, k) = 1..k
        /\ \A i \in 1..k : Chunks(S, n, k)[i].syms = Chunk(S, n, i)
    BY <1>0, ChunksAreShards
  <1>1. DOMAIN x.shards = 1..k /\ \A i \in 1..k : x.shards[i].syms = Chunk(S, n, i)
    BY <1>a
  <1>2. \A i \in 1..k : /\ Chunk(S, n, i) \subseteq S
                        /\ Cardinality(Chunk(S, n, i)) \in Nat
                        /\ Cardinality(Chunk(S, n, i)) <= n
    BY <1>0, ChunkSize
  <1>3. \A i, j \in 1..k : i # j => Chunk(S, n, i) \cap Chunk(S, n, j) = {}
    BY <1>0, ChunksAreDisjoint
  <1>4. \A i \in 1..k : Load(x.shards[i]) <= ShardCap
    BY <1>0, <1>1, <1>2 DEF Load
  <1>5. Held(x) = UNION {Chunk(S, n, i) : i \in 1..k} BY <1>1 DEF Held
  <1>6. Held(x) \subseteq S BY <1>2, <1>5
  <1>7. CASE Cardinality(S) <= k * n
    <2>1. S \subseteq Held(x) BY <1>0, <1>5, <1>7, ChunksCover
    <2> QED BY <2>1, <1>1, <1>3, <1>4, <1>6 DEF Placed
  <1>8. CASE provider = "finnhub" /\ n = ShardCap /\ k * n <= Cardinality(S)
    <2>1. ASSUME NEW i \in 1..k PROVE Cardinality(Chunk(S, n, i)) = n
      <3>1. k * n = i * n + (k - i) * n /\ (k - i) * n \in Nat BY <1>0
      <3>2. i * n <= Cardinality(S) BY <3>1, <1>0, <1>8, FiniteSymbols
      <3>3. i \in Nat \ {0} OBVIOUS
      <3> QED BY <3>2, <3>3, <1>0, ChunkSize
    <2>2. \A i \in 1..k : Load(x.shards[i]) = ShardCap BY <2>1, <1>1, <1>8 DEF Load
    <2> QED BY <2>2, <1>1, <1>3, <1>4, <1>6, <1>8 DEF Placed
  <1> QED BY <1>7, <1>8

LEMMA ShardsArePlaced ==
    ASSUME NEW S \in SUBSET UpSymbols, NEW x \in Collectors, x.all = S,
           \/ provider = "yfinance" /\ x.shards = BuildShards(S)
           \/ provider = "finnhub" /\ keyCount \in Nat /\ x.shards = ShardSymbols(S, keyCount)
    PROVE  Placed(x) /\ AllSynced(x)
  <1> DEFINE m == Cardinality(S)
  <1>0. ShardCap \in Nat \ {0} /\ m \in Nat BY UpstreamAssumption, FiniteSymbols
  <1>1. CASE provider = "yfinance"
    <2> DEFINE q == CeilDiv(m, ShardCap)
               k == AtLeastOne(q)
    <2>1. q \in Nat /\ m <= q * ShardCap BY <1>0, Rounding
    <2> HIDE DEF q
    <2>2. k \in Nat /\ q <= k BY <2>1 DEF AtLeastOne
    <2> HIDE DEF k
    <2>3. k * ShardCap = q * ShardCap + (k - q) * ShardCap /\ (k - q) * ShardCap \in Nat
      BY <1>0, <2>1, <2>2
    <2>4. m <= k * ShardCap BY <1>0, <2>1, <2>2, <2>3
    <2>5. x.shards = Chunks(S, ShardCap, k) BY <1>1 DEF BuildShards, k, q
    <2>6. Placed(x) BY <1>0, <2>2, <2>4, <2>5, ChunksArePlaced
    <2>7. AllSynced(x) BY <1>0, <2>2, <2>5, ChunksAreShards DEF AllSynced
    <2> QED BY <2>6, <2>7
  <1>2. CASE provider = "finnhub" /\ keyCount = 0
    <2>1. x.shards = <<>> BY <1>2 DEF ShardSymbols
    <2>2. Held(x) = {} /\ DOMAIN x.shards = {} BY <2>1 DEF Held
    <2> QED BY <2>2, <1>2 DEF Placed, AllSynced
  <1>3. CASE provider = "finnhub" /\ keyCount # 0
    <2> DEFINE q == CeilDiv(m, keyCount)
               n == AtMostCap(q)
    <2>0. keyCount \in Nat \ {0} BY <1>3
    <2>1. q \in Nat /\ m <= q * keyCount /\ (m > 0 => (q - 1) * keyCount < m)
      BY <1>0, <2>0, Rounding
    <2>2. x.shards = Chunks(S, n, keyCount) BY <1>3 DEF ShardSymbols
    <2> HIDE DEF q
    <2>3. n \in 0..ShardCap BY <1>0, <2>1 DEF AtMostCap
    <2>4. m <= keyCount * n \/ (n = ShardCap /\ keyCount * n <= m)
      <3>1. CASE q <= ShardCap BY <3>1, <1>0, <2>0, <2>1 DEF AtMostCap
      <3>2. CASE q > ShardCap
        <4>1. n = ShardCap BY <3>2, <1>0, <2>1 DEF AtMostCap
        <4>2. m > 0
          <5> SUFFICES ASSUME m = 0 PROVE FALSE BY <1>0
          <5>1. q = 0 BY <2>0 DEF q, CeilDiv
          <5> QED BY <5>1, <3>2, <1>0
        <4>3. (q - 1) * keyCount = ShardCap * keyCount + (q - 1 - ShardCap) * keyCount
          BY <1>0, <2>0, <2>1
        <4>4. (q - 1 - ShardCap) * keyCount \in Nat BY <1>0, <2>0, <2>1, <3>2
        <4>5. ShardCap * keyCount \in Nat /\ keyCount * n = ShardCap * keyCount
          BY <1>0, <2>0, <4>1
        <4> QED BY <4>1, <4>2, <4>3, <4>4, <4>5, <1>0, <2>1
      <3> QED BY <3>1, <3>2, <1>0, <2>1
    <2> HIDE DEF n
    <2>5. Placed(x) BY <1>3, <2>0, <2>2, <2>3, <2>4, ChunksArePlaced
    <2>6. AllSynced(x) BY <1>0, <2>0, <2>2, <2>3, ChunksAreShards DEF AllSynced
    <2> QED BY <2>5, <2>6
  <1> QED BY <1>1, <1>2, <1>3

-----------------------------------------------------------------------------
(* Steps of the collectors *)

\* What a step on one collector leaves: a stop may go on or end.
Steady == /\ UNCHANGED <<provider, registry, keyCount>>
          /\ stopping' \in [on : {0, stopping.on}, shard : Nat \ {0}]

LEMMA CollectorType ==
    ASSUME UpInv, NEW c \in DOMAIN coll
    PROVE  coll[c] \in Collectors /\ coll[c].shards \in Seq(Shards) /\ AllSynced(coll[c])
  <1>1. coll[c] \in Collectors BY DEF UpInv
  <1> QED BY <1>1 DEF UpInv, Collectors

\* The invariant after a step, said without primes inside its parts.
LEMMA UpKept ==
    ASSUME UpInv, provider' = provider, keyCount' \in Nat,
           coll' \in Seq(Collectors), DOMAIN coll \subseteq DOMAIN coll',
           \A d \in DOMAIN coll' : AllSynced(coll'[d]),
           registry' \in 0..Len(coll'), registry' # 0 => Placed(coll'[registry']),
           stopping' \in [on : Nat, shard : Nat \ {0}],
           stopping'.on # 0 => stopping'.on \in DOMAIN coll' /\ stopping'.on # registry',
           ask' \in [Asks -> Calls], \A a \in Asks : CallOk(ask'[a])
    PROVE  UpInv'
  <1>1. Collectors' = Collectors BY DEF Collectors, ReloadStates
  <1>2. registry' # 0 => Placed(coll[registry])' BY DEF Placed, Held, Load
  <1>3. \A d \in DOMAIN coll' : AllSynced(coll[d])' BY DEF AllSynced, Synced
  <1>4. \A a \in Asks : CallOk(ask[a])' BY DEF CallOk
  <1> QED BY <1>1, <1>2, <1>3, <1>4 DEF UpInv

\* One collector changes and stays what it has to be.
LEMMA CollectorChanges ==
    ASSUME UpInv, NEW c \in DOMAIN coll, NEW x \in Collectors,
           coll' = [coll EXCEPT ![c] = x], AllSynced(x),
           c = registry => Placed(x), Steady,
           ask' \in [Asks -> Calls], \A a \in Asks : CallOk(ask'[a])
    PROVE  UpInv'
  <1>1. /\ coll' \in Seq(Collectors) /\ DOMAIN coll' = DOMAIN coll /\ Len(coll') = Len(coll)
        /\ coll'[c] = x /\ \A d \in DOMAIN coll : d # c => coll'[d] = coll[d]
    BY DEF UpInv
  <1>2. \A d \in DOMAIN coll' : AllSynced(coll'[d]) BY <1>1 DEF UpInv
  <1>3. registry # 0 => registry \in DOMAIN coll BY DEF UpInv
  <1>4. registry # 0 => Placed(coll'[registry]) BY <1>1, <1>3 DEF UpInv
  <1>5. /\ provider' = provider /\ keyCount' \in Nat /\ registry' = registry
        /\ registry' \in 0..Len(coll')
    BY <1>1 DEF UpInv, Steady
  <1>6. /\ stopping' \in [on : Nat, shard : Nat \ {0}]
        /\ stopping'.on # 0 => stopping'.on \in DOMAIN coll' /\ stopping'.on # registry'
    BY <1>1, <1>5 DEF UpInv, Steady
  <1> QED BY <1>1, <1>2, <1>4, <1>5, <1>6, UpKept

\* One shard changes and keeps its symbols.
LEMMA ShardChanges ==
    ASSUME UpInv, NEW c \in DOMAIN coll, NEW i \in DOMAIN coll[c].shards, NEW s \in Shards,
           InShard(c, i, s), s.syms = coll[c].shards[i].syms, Synced(s),
           Steady, UNCHANGED ask
    PROVE  UpInv'
  <1> DEFINE sh == [coll[c].shards EXCEPT ![i] = s]
             x == [coll[c] EXCEPT !.shards = sh]
  <1>1. coll[c] \in Collectors /\ coll[c].shards \in Seq(Shards) BY CollectorType
  <1>2. /\ sh \in Seq(Shards) /\ DOMAIN sh = DOMAIN coll[c].shards /\ sh[i] = s
        /\ \A j \in DOMAIN sh : j # i => sh[j] = coll[c].shards[j]
    BY <1>1
  <1>3. coll' = [coll EXCEPT ![c] = x] BY <1>1 DEF InShard, UpInv, Collectors
  <1> HIDE DEF sh
  <1>4. x \in Collectors /\ x.shards = sh /\ x.all = coll[c].all BY <1>1, <1>2 DEF Collectors
  <1> HIDE DEF x
  <1>5. AllSynced(x) BY <1>2, <1>4 DEF UpInv, AllSynced
  <1>6. \A j \in DOMAIN sh : sh[j].syms = coll[c].shards[j].syms BY <1>2
  <1>7. Placed(coll[c]) => Placed(x)
    <2>1. Held(x) = Held(coll[c]) BY <1>2, <1>4, <1>6 DEF Held
    <2> QED BY <2>1, <1>2, <1>4, <1>6 DEF Placed, Load
  <1>8. c = registry => Placed(x) BY <1>7, <1>1 DEF UpInv
  <1>9. ask' \in [Asks -> Calls] /\ \A a \in Asks : CallOk(ask'[a]) BY DEF UpInv
  <1> QED BY <1>3, <1>4, <1>5, <1>8, <1>9, CollectorChanges

\* A connection comes, says hello, is lost, is found lost.
LEMMA RunLoopKeeps ==
    ASSUME UpInv, NEW c \in DOMAIN coll, NEW i \in DOMAIN coll[c].shards,
           RunLoop(c, i) \/ Dropped(c, i)
    PROVE  UpInv'
  <1> DEFINE s == coll[c].shards[i]
  <1>1. s \in Shards /\ Synced(s) BY CollectorType DEF AllSynced
  <1>2. Steady /\ UNCHANGED ask
    BY DEF RunLoop, Connect, OnConnected, RunLoopFails, Dropped, Steady, UpInv
  <1>3. PICK t \in Shards : InShard(c, i, t) /\ t.syms = s.syms /\ Synced(t)
    <2>1. CASE Connect(c, i)
      <3> DEFINE t == [s EXCEPT !.conn = "open", !.server = {}, !.hello = TRUE]
      <3>1. t \in Shards /\ t.syms = s.syms /\ Synced(t) BY <1>1 DEF Shards, Synced
      <3> QED BY <3>1, <2>1 DEF Connect
    <2>2. CASE OnConnected(c, i)
      <3> DEFINE t == [s EXCEPT !.server = @ \cup s.syms, !.hello = FALSE]
      <3>1. s.server \cup s.syms = s.syms BY <1>1 DEF Synced
      <3>2. t = [s EXCEPT !.server = s.syms, !.hello = FALSE] BY <3>1, <1>1 DEF Shards
      <3>3. t \in Shards /\ t.syms = s.syms /\ Synced(t) BY <3>2, <1>1 DEF Shards, Synced
      <3> QED BY <3>3, <2>2 DEF OnConnected
    <2>3. CASE Dropped(c, i)
      <3> DEFINE t == [s EXCEPT !.conn = "stale", !.server = {}]
      <3>1. t \in Shards /\ t.syms = s.syms /\ Synced(t) BY <1>1 DEF Shards, Synced
      <3> QED BY <3>1, <2>3 DEF Dropped
    <2>4. CASE RunLoopFails(c, i)
      <3> DEFINE t == [s EXCEPT !.conn = "down", !.hello = FALSE]
      <3>1. t \in Shards /\ t.syms = s.syms /\ Synced(t) BY <1>1 DEF Shards, Synced
      <3> QED BY <3>1, <2>4 DEF RunLoopFails
    <2> QED BY <2>1, <2>2, <2>3, <2>4 DEF RunLoop
  <1> QED BY <1>2, <1>3, ShardChanges

\* Whatever else a collector records, its shards and symbols count.
LEMMA SameShards ==
    ASSUME NEW x, NEW y, x.shards = y.shards, x.all = y.all
    PROVE  (Placed(x) => Placed(y)) /\ (AllSynced(x) => AllSynced(y))
  BY DEF Placed, Held, AllSynced

-----------------------------------------------------------------------------
(* Symbols are assigned *)

LEMMA SubscribedShard ==
    ASSUME NEW s \in Shards, Synced(s), NEW S \in SUBSET UpSymbols
    PROVE  /\ Subscribed(s, S) \in Shards /\ Synced(Subscribed(s, S))
           /\ Subscribed(s, S).syms = s.syms \cup S
  <1> DEFINE more == s.syms \cup S
             sent == IF s.conn = "open" THEN s.server \cup S ELSE s.server
  <1>1. Subscribed(s, S) = [s EXCEPT !.syms = more, !.server = sent]
    BY DEF Subscribed, Shards
  <1>2. more \in SUBSET UpSymbols /\ sent \in SUBSET UpSymbols BY DEF Shards
  <1>3. sent \subseteq more /\ (s.conn = "open" /\ ~s.hello => sent = more) BY DEF Synced
  <1> HIDE DEF more, sent
  <1>4. [s EXCEPT !.syms = more, !.server = sent] \in Shards BY <1>2 DEF Shards
  <1> QED BY <1>1, <1>3, <1>4 DEF Shards, Synced, more

\* Collector y is x with the symbols S, on shard i.
Takes(y, x, i, S) ==
    /\ y.all = x.all \cup S /\ DOMAIN y.shards = DOMAIN x.shards
    /\ \A j \in DOMAIN x.shards :
         y.shards[j].syms = IF j = i THEN x.shards[i].syms \cup S ELSE x.shards[j].syms

LEMMA AssignedCollector ==
    ASSUME NEW x \in Collectors, AllSynced(x), NEW i \in DOMAIN x.shards,
           NEW S \in SUBSET UpSymbols
    PROVE  /\ Assigned(x, i, S) \in Collectors /\ AllSynced(Assigned(x, i, S))
           /\ Takes(Assigned(x, i, S), x, i, S)
  <1> DEFINE t == Subscribed(x.shards[i], S)
             sh == [x.shards EXCEPT ![i] = t]
             more == x.all \cup S
  <1>1. x.shards \in Seq(Shards) BY DEF Collectors
  <1>2. x.shards[i] \in Shards /\ Synced(x.shards[i]) BY <1>1 DEF AllSynced
  <1>3. t \in Shards /\ Synced(t) /\ t.syms = x.shards[i].syms \cup S BY <1>2, SubscribedShard
  <1>4. Assigned(x, i, S) = [x EXCEPT !.all = more, !.shards = sh]
    BY DEF Assigned, Collectors
  <1>5. more \in SUBSET UpSymbols BY DEF Collectors
  <1> HIDE DEF t
  <1>6. /\ sh \in Seq(Shards) /\ DOMAIN sh = DOMAIN x.shards /\ sh[i] = t
        /\ \A j \in DOMAIN x.shards : j # i => sh[j] = x.shards[j]
    BY <1>1, <1>3
  <1> HIDE DEF sh, more
  <1>7. /\ [x EXCEPT !.all = more, !.shards = sh] \in Collectors
        /\ [x EXCEPT !.all = more, !.shards = sh].shards = sh
        /\ [x EXCEPT !.all = more, !.shards = sh].all = more
    BY <1>5, <1>6 DEF Collectors
  <1>8. \A j \in DOMAIN sh : Synced(sh[j]) BY <1>3, <1>6 DEF AllSynced
  <1> QED BY <1>3, <1>4, <1>6, <1>7, <1>8 DEF AllSynced, more, Takes

LEMMA AssignedIsPlaced ==
    ASSUME NEW x \in Collectors, AllSynced(x), Placed(x), NEW i \in DOMAIN x.shards,
           NEW S \in SUBSET UpSymbols, S \cap x.all = {}, Load(x.shards[i]) < ShardCap,
           provider = "finnhub" => Cardinality(S) = 1
    PROVE  Placed(Assigned(x, i, S))
  <1> DEFINE y == Assigned(x, i, S)
             D == DOMAIN x.shards
             old == x.shards[i].syms
  <1>1. /\ y.all = x.all \cup S /\ DOMAIN y.shards = D
        /\ \A j \in D : y.shards[j].syms = IF j = i THEN old \cup S ELSE x.shards[j].syms
    <2>1. Takes(Assigned(x, i, S), x, i, S) BY AssignedCollector
    <2> QED BY <2>1 DEF Takes
  <1> HIDE DEF y
  <1>d. x.shards[i] \in Shards
    <2>1. x.shards \in Seq(Shards) BY DEF Collectors
    <2> QED BY <2>1
  <1>e. old \subseteq UpSymbols BY <1>d DEF Shards
  <1>f. /\ IsFiniteSet(old) /\ Cardinality(old) \in Nat
        /\ IsFiniteSet(S) /\ Cardinality(S) \in Nat
    BY <1>e, FiniteSymbols
  <1>g. ShardCap \in Nat /\ Load(x.shards[i]) = Cardinality(old) BY UpstreamAssumption DEF Load
  <1>2. Held(x) = x.all
    <2>1. Load(x.shards[i]) # ShardCap BY <1>f, <1>g
    <2> QED BY <2>1 DEF Placed
  <1>3. \A j \in D : x.shards[j].syms \cap S = {} BY <1>2 DEF Held
  <1>4. Held(y) = y.all
    <2>1. \A j \in D : y.shards[j].syms \subseteq Held(x) \cup S BY <1>1 DEF Held
    <2>2. \A j \in D : x.shards[j].syms \subseteq y.shards[j].syms BY <1>1
    <2>3. S \subseteq y.shards[i].syms BY <1>1
    <2> QED BY <2>1, <2>2, <2>3, <1>1, <1>2 DEF Held
  <1>5. \A j, k \in D : j # k => y.shards[j].syms \cap y.shards[k].syms = {}
    BY <1>1, <1>3 DEF Placed
  <1>6. Load(y.shards[i]) = Load(x.shards[i]) + Cardinality(S) /\ Load(x.shards[i]) \in Nat
    <2>1. old \cap S = {} BY <1>3
    <2>4. y.shards[i].syms = old \cup S BY <1>1
    <2> HIDE DEF old
    <2>2. Cardinality(old \cap S) = 0 BY <2>1, FS_EmptySet
    <2>3. Cardinality(old \cup S) = Cardinality(old) + Cardinality(S) - Cardinality(old \cap S)
      BY <1>f, FS_Union
    <2> QED BY <2>2, <2>3, <2>4, <1>f, <1>g DEF Load
  <1>7. provider = "finnhub" => Load(y.shards[i]) <= ShardCap BY <1>6, <1>g
  <1>8. provider = "finnhub" => \A j \in D : Load(y.shards[j]) <= ShardCap
    BY <1>1, <1>7 DEF Placed, Load
  <1> QED BY <1>1, <1>4, <1>5, <1>8 DEF Placed, y

\* A shard without symbols is added.
LEMMA AddedShard ==
    ASSUME NEW x \in Collectors, AllSynced(x)
    PROVE  LET y == [x EXCEPT !.shards = Append(@, Shard({}))]
               last == Len(x.shards) + 1
           IN /\ y \in Collectors /\ AllSynced(y) /\ y.all = x.all
              /\ last \in DOMAIN y.shards /\ Load(y.shards[last]) = 0
              /\ Placed(x) /\ provider = "yfinance" => Placed(y)
  <1> DEFINE last == Len(x.shards) + 1
             sh == Append(x.shards, Shard({}))
             y == [x EXCEPT !.shards = sh]
  <1>1. x.shards \in Seq(Shards) BY DEF Collectors
  <1>2. Shard({}) \in Shards /\ Synced(Shard({})) /\ Shard({}).syms = {}
    BY DEF Shard, Shards, Synced
  <1>3. /\ sh \in Seq(Shards) /\ DOMAIN sh = DOMAIN x.shards \cup {last} /\ last \in DOMAIN sh
        /\ last \notin DOMAIN x.shards
        /\ sh[last] = Shard({}) /\ \A j \in DOMAIN x.shards : sh[j] = x.shards[j]
    BY <1>1, <1>2
  <1>4. y = [x EXCEPT !.shards = Append(@, Shard({}))] BY DEF Collectors
  <1> HIDE DEF sh, last
  <1>5. y \in Collectors /\ y.all = x.all /\ y.shards = sh BY <1>3 DEF Collectors
  <1> HIDE DEF y
  <1>6. AllSynced(y) BY <1>2, <1>3, <1>5 DEF AllSynced
  <1>7. Load(y.shards[last]) = 0 BY <1>2, <1>3, <1>5, FS_EmptySet DEF Load
  <1>8. ASSUME Placed(x), provider = "yfinance" PROVE Placed(y)
    <2>1. x.all = Held(x) BY <1>8 DEF Placed
    <2>2. Held(y) = Held(x) BY <1>2, <1>3, <1>5 DEF Held
    <2>3. \A j, k \in DOMAIN y.shards : j # k => y.shards[j].syms \cap y.shards[k].syms = {}
      BY <1>2, <1>3, <1>5, <1>8 DEF Placed
    <2> QED BY <1>8, <2>1, <2>2, <2>3, <1>5 DEF Placed
  <1> QED BY <1>3, <1>4, <1>5, <1>6, <1>7, <1>8 DEF last

-----------------------------------------------------------------------------
(* Calls *)

\* A call after a send, with a collector that is what it has to be.
LEMMA AfterSendKeeps ==
    ASSUME UpInv, NEW a \in Asks, NEW c \in DOMAIN coll, NEW x \in Collectors, NEW i,
           NEW rest \in SUBSET UpSymbols,
           AllSynced(x), c = registry => Placed(x), AfterSend(a, c, x, i, rest),
           Steady
    PROVE  UpInv'
  <1>1. PICK l \in Asks \union {Nobody, Reload} :
           coll' = [coll EXCEPT ![c] = [x EXCEPT !.lock = l]]
    BY DEF AfterSend
  <1>2. PICK e \in Calls : ask' = [ask EXCEPT ![a] = e] /\ CallOk(e)
    <2>1. ask[a] \in Calls /\ c \in Nat BY DEF UpInv
    <2>2. ASSUME NEW q \in {"sending", "next"},
                 ask' = [ask EXCEPT ![a].pc = q, ![a].on = c, ![a].syms = rest]
          PROVE  \E e \in Calls : ask' = [ask EXCEPT ![a] = e] /\ CallOk(e)
      <3> DEFINE e == [ask[a] EXCEPT !.pc = q, !.on = c, !.syms = rest]
      <3>1. e \in Calls /\ e.on = c /\ e.syms = rest BY <2>1 DEF Calls
      <3>2. ask' = [ask EXCEPT ![a] = e] BY <2>2 DEF UpInv
      <3>3. CallOk(e) BY <3>1 DEF CallOk
      <3> QED BY <3>1, <3>2, <3>3
    <2>3. ASSUME NEW q \in {"failed", "done"}, ask' = [ask EXCEPT ![a] = [NoAsk EXCEPT !.pc = q]]
          PROVE  \E e \in Calls : ask' = [ask EXCEPT ![a] = e] /\ CallOk(e)
      <3> DEFINE e == [NoAsk EXCEPT !.pc = q]
      <3>1. e \in Calls /\ CallOk(e) BY DEF NoAsk, Calls, CallOk
      <3> QED BY <3>1, <2>3
    <2> QED BY <2>2, <2>3 DEF AfterSend
  <1> DEFINE y == [x EXCEPT !.lock = l]
  <1>3. y \in Collectors /\ y.shards = x.shards /\ y.all = x.all BY DEF Collectors
  <1>4. AllSynced(y) /\ (c = registry => Placed(y)) BY <1>3, SameShards
  <1>5. ask' \in [Asks -> Calls] /\ \A b \in Asks : CallOk(ask'[b]) BY <1>2 DEF UpInv
  <1> QED BY <1>1, <1>3, <1>4, <1>5, CollectorChanges

\* A call ends and gives the lock back.
LEMMA CallEnds ==
    ASSUME UpInv, NEW a \in Asks, NEW c \in DOMAIN coll, NEW q \in {"done", "failed"},
           coll' = [coll EXCEPT ![c].lock = Nobody],
           ask' = [ask EXCEPT ![a] = [NoAsk EXCEPT !.pc = q]], Steady
    PROVE  UpInv'
  <1> DEFINE y == [coll[c] EXCEPT !.lock = Nobody]
             e == [NoAsk EXCEPT !.pc = q]
  <1>1. coll[c] \in Collectors /\ AllSynced(coll[c]) BY CollectorType
  <1>2. y \in Collectors /\ y.shards = coll[c].shards /\ y.all = coll[c].all
    BY <1>1 DEF Collectors
  <1>3. coll' = [coll EXCEPT ![c] = y] /\ ask' = [ask EXCEPT ![a] = e] BY DEF UpInv
  <1>4. c # 0 /\ (c = registry => Placed(coll[c])) BY DEF UpInv
  <1> HIDE DEF y
  <1>5. AllSynced(y) /\ (c = registry => Placed(y)) BY <1>1, <1>2, <1>4, SameShards
  <1>6. e \in Calls /\ CallOk(e) BY DEF NoAsk, Calls, CallOk
  <1> HIDE DEF e
  <1>7. ask' \in [Asks -> Calls] /\ \A b \in Asks : CallOk(ask'[b]) BY <1>3, <1>6 DEF UpInv
  <1> QED BY <1>2, <1>3, <1>5, <1>7, CollectorChanges

LEMMA SubscribeKeeps ==
    ASSUME UpInv, NEW a \in Asks, NEW c \in DOMAIN coll, NEW S \in SUBSET UpSymbols,
           Subscribe(a, c, S), Steady
    PROVE  UpInv'
  <1> DEFINE x == coll[c]
             new == NewSymbols(c, S)
             last == Len(x.shards) + 1
             y == [x EXCEPT !.shards = Append(@, Shard({}))]
  <1>1. x \in Collectors /\ AllSynced(x) /\ (c = registry => Placed(x))
    BY CollectorType DEF UpInv
  <1>2. new \subseteq S /\ new \cap x.all = {} BY DEF NewSymbols
  <1>3. provider = "yfinance" \/ provider = "finnhub" BY UpstreamAssumption DEF UpInv
  <1>4. CASE NothingNew(a, c) BY <1>4, CallEnds DEF NothingNew
  <1>5. ASSUME new # {}, provider = "yfinance", NEW i \in LeastLoaded(x.shards),
               AfterSend(a, c, Assigned(x, i, new), i, {})
        PROVE  UpInv'
    <2>1. i \in DOMAIN x.shards /\ Load(x.shards[i]) < ShardCap BY DEF LeastLoaded
    <2>3. Assigned(x, i, new) \in Collectors /\ AllSynced(Assigned(x, i, new))
      BY <1>1, <1>2, <2>1, AssignedCollector
    <2>4. c = registry => Placed(Assigned(x, i, new))
      BY <1>1, <1>2, <1>5, <2>1, AssignedIsPlaced
    <2> HIDE DEF x, new
    <2> QED BY <1>5, <2>3, <2>4, AfterSendKeeps
  <1>6. ASSUME new # {}, provider = "yfinance",
               AfterSend(a, c, Assigned(y, last, new), last, {})
        PROVE  UpInv'
    <2>1. /\ y \in Collectors /\ AllSynced(y) /\ y.all = x.all
          /\ last \in DOMAIN y.shards /\ Load(y.shards[last]) = 0
          /\ Placed(x) => Placed(y)
      BY <1>1, <1>6, AddedShard
    <2>3. Load(y.shards[last]) < ShardCap BY <2>1, UpstreamAssumption
    <2> HIDE DEF y, last
    <2>4. Assigned(y, last, new) \in Collectors /\ AllSynced(Assigned(y, last, new))
      BY <1>2, <2>1, AssignedCollector
    <2>5. c = registry => Placed(Assigned(y, last, new))
      BY <1>1, <1>2, <1>6, <2>1, <2>3, AssignedIsPlaced
    <2> HIDE DEF x, new
    <2> QED BY <1>6, <2>4, <2>5, AfterSendKeeps
  <1>7. ASSUME provider = "finnhub", NEW i \in LeastLoaded(x.shards), NEW s \in new,
               AfterSend(a, c, Assigned(x, i, {s}), i, new \ {s})
        PROVE  UpInv'
    <2>1. i \in DOMAIN x.shards /\ Load(x.shards[i]) < ShardCap BY DEF LeastLoaded
    <2>2. {s} \subseteq UpSymbols /\ {s} \cap x.all = {} /\ Cardinality({s}) = 1
      BY <1>2, FS_Singleton
    <2>3. Assigned(x, i, {s}) \in Collectors /\ AllSynced(Assigned(x, i, {s}))
      BY <1>1, <2>1, <2>2, AssignedCollector
    <2>4. c = registry => Placed(Assigned(x, i, {s}))
      BY <1>1, <1>7, <2>1, <2>2, AssignedIsPlaced
    <2>5. new \ {s} \subseteq UpSymbols BY <1>2
    <2> HIDE DEF x, new
    <2> QED BY <1>7, <2>3, <2>4, <2>5, AfterSendKeeps
  <1> HIDE DEF new, x, y, last
  <1> QED BY <1>3, <1>4, <1>5, <1>6, <1>7 DEF Subscribe, AssignBatch, new, x, y, last

-----------------------------------------------------------------------------
(* Collectors come and go *)

LEMMA NewShards ==
    ASSUME NEW S \in SUBSET UpSymbols
    PROVE  /\ BuildShards(S) \in Seq(Shards)
           /\ \A k \in Nat : ShardSymbols(S, k) \in Seq(Shards)
  <1>1. ShardCap \in Nat \ {0} /\ Cardinality(S) \in Nat
    BY UpstreamAssumption, FiniteSymbols
  <1>2. CeilDiv(Cardinality(S), ShardCap) \in Nat BY <1>1, Rounding
  <1>3. AtLeastOne(CeilDiv(Cardinality(S), ShardCap)) \in Nat BY <1>2 DEF AtLeastOne
  <1>4. BuildShards(S) \in Seq(Shards) BY <1>1, <1>3, ChunksAreShards DEF BuildShards
  <1>5. ASSUME NEW k \in Nat PROVE ShardSymbols(S, k) \in Seq(Shards)
    <2>1. CASE k = 0 BY <2>1 DEF ShardSymbols
    <2>2. CASE k # 0
      <3>1. CeilDiv(Cardinality(S), k) \in Nat BY <1>1, <2>2, Rounding
      <3>2. AtMostCap(CeilDiv(Cardinality(S), k)) \in Nat BY <1>1, <3>1 DEF AtMostCap
      <3> QED BY <2>2, <3>2, ChunksAreShards DEF ShardSymbols
    <2> QED BY <2>1, <2>2
  <1> QED BY <1>4, <1>5

LEMMA StartedCollector ==
    ASSUME UpInv, NEW S \in SUBSET UpSymbols
    PROVE  Started(S) \in Collectors /\ Placed(Started(S)) /\ AllSynced(Started(S))
  <1> DEFINE x == Started(S)
  <1>1. provider \in {"yfinance", "finnhub"} /\ keyCount \in Nat
    BY UpstreamAssumption DEF UpInv
  <1>2. /\ x.all \in SUBSET UpSymbols /\ x.lock = Nobody /\ x.reload = "none"
        /\ x.started \in BOOLEAN
        /\ \/ provider = "yfinance" /\ x.all = S /\ x.shards = BuildShards(S)
           \/ provider = "finnhub" /\ x.shards = ShardSymbols(x.all, keyCount)
    BY <1>1 DEF Started, ShardSymbols
  <1>3. x.shards \in Seq(Shards) BY <1>1, <1>2, NewShards
  <1>4. x = [all |-> x.all, shards |-> x.shards, started |-> x.started,
             lock |-> x.lock, reload |-> x.reload]
    BY DEF Started
  <1> HIDE DEF x
  <1>5. "none" \in ReloadStates BY DEF ReloadStates
  <1>6. x \in Collectors BY <1>2, <1>3, <1>4, <1>5 DEF Collectors
  <1>7. Placed(x) /\ AllSynced(x) BY <1>1, <1>2, <1>6, ShardsArePlaced
  <1> QED BY <1>6, <1>7 DEF x

LEMMA StartKeeps ==
    ASSUME UpInv, NEW a \in Asks, NEW S \in Requests, StartCollector(a, S)
    PROVE  UpInv'
  <1>1. S \in SUBSET UpSymbols BY UpstreamAssumption
  <1>2. ASSUME registry # 0, registry' = registry, UNCHANGED <<provider, stopping, keyCount>>
        PROVE  registry \in DOMAIN coll /\ Steady
    BY <1>2 DEF UpInv, Steady
  <1>3. CASE registry # 0 /\ registry' = registry /\ Subscribe(a, registry, S)
    BY <1>1, <1>2, <1>3, SubscribeKeeps DEF StartCollector
  <1>4. CASE /\ registry # 0 /\ UNCHANGED <<registry, coll>>
             /\ ask' = [ask EXCEPT ![a] = [pc |-> "lock", syms |-> S, on |-> registry]]
    <2> DEFINE e == [pc |-> "lock", syms |-> S, on |-> registry]
    <2>1. registry \in DOMAIN coll /\ registry \in Nat /\ Steady
      BY <1>2, <1>4 DEF StartCollector, UpInv
    <2>2. e \in Calls /\ CallOk(e) BY <1>1, <2>1 DEF Calls, CallOk
    <2>3. ask' = [ask EXCEPT ![a] = e] BY <1>4
    <2> HIDE DEF e
    <2>4. ask' \in [Asks -> Calls] /\ \A b \in Asks : CallOk(ask'[b]) BY <2>2, <2>3 DEF UpInv
    <2>5. coll' = [coll EXCEPT ![registry] = coll[registry]] BY <1>4 DEF UpInv
    <2>6. coll[registry] \in Collectors /\ AllSynced(coll[registry]) BY <2>1, CollectorType
    <2>7. Placed(coll[registry]) BY <1>4 DEF UpInv
    <2> QED BY <2>1, <2>4, <2>5, <2>6, <2>7, CollectorChanges
  <1>5. CASE /\ coll' = Append(coll, Started(S)) /\ registry' = Len(coll) + 1
             /\ ask' = [ask EXCEPT ![a].pc = "done"]
    <2> DEFINE x == Started(S)
    <2>1. x \in Collectors /\ Placed(x) /\ AllSynced(x) BY <1>1, StartedCollector
    <2>2. coll' = Append(coll, x) BY <1>5
    <2> HIDE DEF x
    <2>3. /\ coll' \in Seq(Collectors) /\ Len(coll') = Len(coll) + 1 /\ Len(coll) \in Nat
          /\ DOMAIN coll \subseteq DOMAIN coll' /\ coll'[registry'] = x
          /\ \A d \in DOMAIN coll' : d # registry' => d \in DOMAIN coll /\ coll'[d] = coll[d]
      BY <1>5, <2>1, <2>2 DEF UpInv
    <2>4. \A d \in DOMAIN coll' : AllSynced(coll'[d]) BY <2>1, <2>3 DEF UpInv
    <2>5. registry' \in 0..Len(coll') /\ registry' \notin DOMAIN coll BY <1>5, <2>3 DEF UpInv
    <2>6. /\ provider' = provider /\ keyCount' \in Nat
          /\ stopping' \in [on : Nat, shard : Nat \ {0}]
          /\ stopping'.on # 0 => stopping'.on \in DOMAIN coll' /\ stopping'.on # registry'
      BY <2>3, <2>5 DEF UpInv, StartCollector
    <2>7. ask[a] \in Calls /\ CallOk(ask[a]) BY DEF UpInv
    <2> DEFINE e == [ask[a] EXCEPT !.pc = "done"]
    <2>8. e \in Calls /\ e.syms = ask[a].syms /\ e.pc = "done" BY <2>7 DEF Calls
    <2>9. ask' = [ask EXCEPT ![a] = e] BY <1>5 DEF UpInv
    <2> HIDE DEF e
    <2>10. CallOk(e) BY <2>7, <2>8 DEF CallOk
    <2>11. ask' \in [Asks -> Calls] /\ \A b \in Asks : CallOk(ask'[b])
      BY <2>8, <2>9, <2>10 DEF UpInv
    <2> QED BY <2>1, <2>3, <2>4, <2>5, <2>6, <2>11, UpKept
  <1> QED BY <1>3, <1>4, <1>5 DEF StartCollector

LEMMA GoesOnKeeps ==
    ASSUME UpInv, NEW a \in Asks, SubscribeGoesOn(a) \/ SendFails(a)
    PROVE  UpInv'
  <1>1. ask[a] \in Calls /\ CallOk(ask[a]) BY DEF UpInv
  <1>2. ask[a].on \in DOMAIN coll BY <1>1 DEF CallOk, SubscribeGoesOn, SendFails
  <1>4. ask[a].syms \in SUBSET UpSymbols BY <1>1 DEF Calls
  <1>5. Steady BY DEF SubscribeGoesOn, SendFails, Steady, UpInv
  <1>6. CASE SubscribeGoesOn(a)
    BY <1>2, <1>4, <1>5, <1>6, SubscribeKeeps DEF SubscribeGoesOn
  <1>7. CASE SendFails(a) BY <1>2, <1>5, <1>7, CallEnds DEF SendFails
  <1> QED BY <1>6, <1>7

LEMMA StoppedShard ==
    ASSUME UpInv, NEW c \in DOMAIN coll, NEW i \in DOMAIN coll[c].shards,
           InShard(c, i, Stopped(coll[c].shards[i])), Steady, UNCHANGED ask
    PROVE  UpInv'
  <1> DEFINE s == coll[c].shards[i]
  <1>1. s \in Shards BY CollectorType
  <1>2. Stopped(s) \in Shards /\ Stopped(s).syms = s.syms /\ Synced(Stopped(s))
    BY <1>1 DEF Stopped, Shards, Synced
  <1> QED BY <1>2, ShardChanges

LEMMA StopKeeps ==
    ASSUME UpInv, StopCollector \/ StopShard
    PROVE  UpInv'
  <1> DEFINE c == stopping.on
             i == stopping.shard
  <1>1. ask \in [Asks -> Calls] /\ \A a \in Asks : CallOk(ask[a]) BY DEF UpInv
  <1>2. CASE StopCollector
    <2>1. registry \in DOMAIN coll /\ registry \in Nat BY <1>2 DEF UpInv, StopCollector
    <2>2. /\ UNCHANGED <<provider, keyCount, coll, ask>> /\ registry' = 0
          /\ stopping' = [on |-> registry, shard |-> 1]
      BY <1>2 DEF StopCollector
    <2>3. /\ stopping' \in [on : Nat, shard : Nat \ {0}]
          /\ stopping'.on \in DOMAIN coll' /\ stopping'.on # registry'
      BY <2>1, <2>2, <1>2 DEF StopCollector
    <2>4. /\ keyCount' \in Nat /\ coll' \in Seq(Collectors) /\ registry' \in 0..Len(coll')
          /\ \A d \in DOMAIN coll' : AllSynced(coll'[d])
      BY <2>2 DEF UpInv
    <2> QED BY <1>1, <2>2, <2>3, <2>4, UpKept
  <1>3. CASE StopShard
    <2>1. c \in DOMAIN coll /\ c # registry /\ i \in Nat \ {0} BY <1>3 DEF UpInv, StopShard
    <2>2. coll[c] \in Collectors /\ coll[c].shards \in Seq(Shards) BY <2>1, CollectorType
    <2>3. UNCHANGED <<provider, registry, keyCount, ask>> BY <1>3 DEF StopShard
    <2>4. CASE /\ i <= Len(coll[c].shards) /\ InShard(c, i, Stopped(coll[c].shards[i]))
               /\ stopping' = [stopping EXCEPT !.shard = i + 1]
      <3>1. i \in DOMAIN coll[c].shards BY <2>1, <2>2, <2>4
      <3>2. Steady BY <2>1, <2>3, <2>4 DEF Steady, UpInv
      <3> HIDE DEF c, i
      <3> QED BY <2>1, <2>3, <2>4, <3>1, <3>2, StoppedShard
    <2>5. CASE /\ coll' = [coll EXCEPT ![c].shards = <<>>, ![c].started = FALSE]
               /\ stopping' = [on |-> 0, shard |-> 1]
      <3> DEFINE x == [coll[c] EXCEPT !.shards = <<>>, !.started = FALSE]
      <3>1. coll' = [coll EXCEPT ![c] = x] BY <2>1, <2>5 DEF UpInv
      <3>3. Steady BY <2>3, <2>5 DEF Steady
      <3> HIDE DEF c
      <3>4. <<>> \in Seq(Shards) /\ DOMAIN <<>> = {} OBVIOUS
      <3>5. x \in Collectors /\ x.shards = <<>> BY <2>2, <3>4 DEF Collectors
      <3> HIDE DEF x
      <3>2. x \in Collectors /\ AllSynced(x) BY <3>4, <3>5 DEF AllSynced
      <3> QED BY <1>1, <2>1, <2>3, <3>1, <3>2, <3>3, CollectorChanges
    <2> QED BY <1>3, <2>4, <2>5 DEF StopShard
  <1> QED BY <1>2, <1>3

LEMMA ReloadKeeps ==
    ASSUME UpInv, NEW n \in KeyCounts, ReloadKeys(n)
    PROVE  UpInv'
  <1> DEFINE x(c) == IF coll[c].started THEN [coll[c] EXCEPT !.reload = "wait"] ELSE coll[c]
  <1>1. provider = "finnhub" /\ n \in Nat /\ UNCHANGED <<provider, registry, ask, stopping>>
    BY UpstreamAssumption DEF ReloadKeys
  <1>2. ASSUME NEW c \in DOMAIN coll
        PROVE  x(c) \in Collectors /\ x(c).shards = coll[c].shards /\ x(c).all = coll[c].all
    <2>1. coll[c] \in Collectors BY CollectorType
    <2>2. "wait" \in ReloadStates BY <1>1 DEF ReloadStates
    <2> QED BY <2>1, <2>2 DEF Collectors
  <1>3. coll' = [c \in DOMAIN coll |-> x(c)] BY DEF ReloadKeys
  <1> HIDE DEF x
  <1>4. /\ coll' \in Seq(Collectors) /\ DOMAIN coll' = DOMAIN coll /\ Len(coll') = Len(coll)
        /\ \A c \in DOMAIN coll : coll'[c] = x(c)
    <2>1. DOMAIN coll = 1..Len(coll) /\ Len(coll) \in Nat BY DEF UpInv
    <2>2. coll' \in [1..Len(coll) -> Collectors] BY <1>2, <1>3, <2>1
    <2> QED BY <1>3, <2>1, <2>2
  <1>5. \A d \in DOMAIN coll' : AllSynced(coll'[d])
    BY <1>2, <1>4, SameShards DEF UpInv
  <1>6. registry' # 0 => Placed(coll'[registry'])
    <2>1. registry # 0 => registry \in DOMAIN coll /\ Placed(coll[registry]) BY DEF UpInv
    <2> QED BY <1>1, <1>2, <1>4, <2>1, SameShards
  <1>7. keyCount' \in Nat BY <1>1 DEF ReloadKeys
  <1>8. /\ registry' \in 0..Len(coll') /\ stopping' \in [on : Nat, shard : Nat \ {0}]
        /\ stopping'.on # 0 => stopping'.on \in DOMAIN coll' /\ stopping'.on # registry'
        /\ ask' \in [Asks -> Calls] /\ \A a \in Asks : CallOk(ask'[a])
    BY <1>1, <1>4 DEF UpInv
  <1> QED BY <1>1, <1>4, <1>5, <1>6, <1>7, <1>8, UpKept

LEMMA KeysChangedKeeps ==
    ASSUME UpInv, NEW c \in DOMAIN coll, OnKeysChanged(c)
    PROVE  UpInv'
  <1> DEFINE x == coll[c]
  <1>1. x \in Collectors /\ AllSynced(x) /\ (c = registry => Placed(x)) /\ keyCount \in Nat
    <2>1. c # 0 BY DEF UpInv
    <2> QED BY <2>1, CollectorType DEF UpInv
  <1>2. Steady /\ UNCHANGED ask BY DEF OnKeysChanged, Steady, UpInv
  <1>3. ask' \in [Asks -> Calls] /\ \A a \in Asks : CallOk(ask'[a]) BY <1>2 DEF UpInv
  <1>4. provider = "finnhub"
    <2>1. x.reload \in ReloadStates /\ x.reload # "none" BY <1>1 DEF OnKeysChanged, Collectors
    <2> QED BY <2>1 DEF ReloadStates
  <1>5. CASE coll' = [coll EXCEPT ![c].lock = Reload, ![c].reload = "stop"]
    <2> DEFINE y == [x EXCEPT !.lock = Reload, !.reload = "stop"]
    <2>1. coll' = [coll EXCEPT ![c] = y] BY <1>5 DEF UpInv
    <2>2. "stop" \in ReloadStates BY <1>4 DEF ReloadStates
    <2>3. y \in Collectors /\ y.shards = x.shards /\ y.all = x.all BY <1>1, <2>2 DEF Collectors
    <2> HIDE DEF x, y
    <2>4. AllSynced(y) /\ (c = registry => Placed(y)) BY <1>1, <2>3, SameShards
    <2> QED BY <1>2, <1>3, <2>1, <2>3, <2>4, CollectorChanges
  <1>6. CASE \E i \in DOMAIN x.shards : InShard(c, i, Stopped(x.shards[i]))
    BY <1>2, <1>6, StoppedShard
  <1>7. CASE coll' = [coll EXCEPT ![c].shards = ShardSymbols(x.all, keyCount),
                                  ![c].lock = Nobody, ![c].reload = "none"]
    <2> DEFINE sh == ShardSymbols(x.all, keyCount)
               y == [x EXCEPT !.shards = sh, !.lock = Nobody, !.reload = "none"]
    <2>1. coll' = [coll EXCEPT ![c] = y] BY <1>7 DEF UpInv
    <2>2. x.all \in SUBSET UpSymbols BY <1>1 DEF Collectors
    <2>3. sh \in Seq(Shards) BY <1>1, <2>2, NewShards
    <2>4. "none" \in ReloadStates BY DEF ReloadStates
    <2> HIDE DEF sh
    <2>5. y \in Collectors /\ y.shards = sh /\ y.all = x.all BY <1>1, <2>3, <2>4 DEF Collectors
    <2> HIDE DEF x, y
    <2>6. Placed(y) /\ AllSynced(y) BY <1>1, <1>4, <2>2, <2>5, ShardsArePlaced DEF sh
    <2> QED BY <1>2, <1>3, <2>1, <2>5, <2>6, CollectorChanges
  <1> QED BY <1>5, <1>6, <1>7 DEF OnKeysChanged

-----------------------------------------------------------------------------
(* The theorems *)

LEMMA UpStep == UpInv /\ [UpNext]_upVars => UpInv'
  <1> SUFFICES ASSUME UpInv, [UpNext]_upVars PROVE UpInv' OBVIOUS
  <1>1. CASE UNCHANGED upVars BY <1>1, UpKept DEF upVars, UpInv
  <1>2. CASE \E a \in Asks, S \in Requests : StartCollector(a, S) BY <1>2, StartKeeps
  <1>3. CASE \E a \in Asks : SubscribeGoesOn(a) \/ SendFails(a) BY <1>3, GoesOnKeeps
  <1>4. CASE StopCollector \/ StopShard BY <1>4, StopKeeps
  <1>5. CASE \E n \in KeyCounts : ReloadKeys(n) BY <1>5, ReloadKeeps
  <1>6. CASE \E c \in DOMAIN coll : \E i \in DOMAIN coll[c].shards :
               RunLoop(c, i) \/ Dropped(c, i)
    BY <1>6, RunLoopKeeps
  <1>7. CASE \E c \in DOMAIN coll : OnKeysChanged(c) BY <1>7, KeysChangedKeeps
  <1> QED BY <1>1, <1>2, <1>3, <1>4, <1>5, <1>6, <1>7 DEF UpNext, AnyRunLoop, AnyCall

\* What the registry, the shards and the calls under way always satisfy.
THEOREM UpInvariant == UpSpec => []UpInv
  <1> QED BY UpInitially, UpStep, PTL DEF UpSpec

\* A connection that has said hello is subscribed to exactly the symbols of its
\* shard, however connections, calls, stops and reloads interleave.
THEOREM InSyncHolds == UpSpec => []InSync
  <1>1. UpInv => InSync BY DEF UpInv, AllSynced, Synced, InSync
  <1> QED BY <1>1, UpInvariant, PTL

\* The registered collector has every symbol on one shard only and leaves symbols
\* out only with finnhub when every key is full; a finnhub key never has more
\* than its cap.  A yfinance shard has no such bound.
THEOREM SymbolsArePlacedHolds == UpSpec => []SymbolsArePlaced
  <1>1. UpInv => SymbolsArePlaced BY DEF UpInv, SymbolsArePlaced
  <1> QED BY <1>1, UpInvariant, PTL
=============================================================================
