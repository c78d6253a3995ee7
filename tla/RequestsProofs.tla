--------------------------- MODULE RequestsProofs ---------------------------
(***************************************************************************)
(* What lies behind a request, for any sizes: the exchange of tokens, the  *)
(* rotator and its tunnels, the pool of keys and the routes that draw on   *)
(* it, the tables that batches are written to.                             *)
(*                                                                         *)
(* Tokens: a tab has one exchange at a time, a token it claimed is either  *)
(* behind it or is the one its exchange still carries, and an answer under *)
(* way brings a token that is nowhere else yet.                            *)
(***************************************************************************)
EXTENDS StockRouter, RefreshTokens, UpsertTables, Rotator,
        FiniteSetTheorems, FunctionTheorems, TLAPS

Posts == [by : ApiCalls, token : Nat \ {0}, at : {"sent", "granted", "refused", "failed"}, new : Nat]
Claims == [token : Nat \ {0}, by : Tabs \union {"logout"}]

\* What is stored, claimed and carried has been issued.
Numbered ==
    /\ issued \in Nat \ {0} /\ store \in [access : Nat, refresh : Nat]
    /\ posts \subseteq Posts /\ claims \subseteq Claims
    /\ store.refresh <= issued
    /\ \A p \in posts : p.token <= issued /\ p.new <= issued
    /\ \A c \in claims : c.token <= issued
    /\ \A p \in posts : p.at = "granted" => p.new # None

OneExchange == \A p, q \in posts : Tab(p.by) = Tab(q.by) => p = q

\* A granted token is not stored, claimed or sent before it reaches its page.
AnswersAreNew ==
    \A p \in posts : p.at = "granted" =>
        /\ p.new # store.refresh
        /\ \A c \in claims : c.token # p.new
        /\ \A q \in posts : q.token # p.new /\ (q.at = "granted" /\ q # p => q.new # p.new)

\* A token a tab claimed is not stored any more, or its exchange is not over.
SpentIsGone ==
    \A c \in claims : c.by \in Tabs /\ c.token \notin lost =>
        \/ store.refresh # c.token
        \/ \E p \in posts : Tab(p.by) = c.by /\ p.token = c.token /\ p.at \in {"granted", "failed"}

\* A token that was sent and not granted was not claimed by the tab before.
SentIsUnspent ==
    \A p \in posts : p.at \in {"sent", "refused"} =>
        p.token \in lost \/ [token |-> p.token, by |-> Tab(p.by)] \notin claims

RtInv == Numbered /\ OneExchange /\ AnswersAreNew /\ SpentIsGone /\ SentIsUnspent

state == <<store, issued, claims, posts, lost>>

LEMMA TabOfPost == ASSUME Numbered, NEW p \in posts
                   PROVE Tab(p.by) \in Tabs /\ Tab(p.by) # "logout"
  BY TokensAssumption DEF Numbered, Posts, Tab

LEMMA Unchanged == RtInv /\ UNCHANGED state => RtInv'
  BY DEF RtInv, Numbered, OneExchange, AnswersAreNew, SpentIsGone, SentIsUnspent, state

-----------------------------------------------------------------------------
(* The steps that change the state, one lemma each *)

\* Tokens are forgotten: nothing claimed is stored.
LEMMA Forgotten ==
    ASSUME RtInv, ClearTokens, UNCHANGED <<issued, claims, posts, lost>> PROVE RtInv'
  <1>1. Numbered' BY DEF RtInv, Numbered, ClearTokens, None, Posts
  <1>2. OneExchange' /\ SentIsUnspent' BY DEF RtInv, OneExchange, SentIsUnspent
  <1>3. AnswersAreNew' BY DEF RtInv, AnswersAreNew, ClearTokens, Numbered, None
  <1>4. SpentIsGone' BY DEF RtInv, SpentIsGone, ClearTokens, Numbered, None, Claims
  <1> QED BY <1>1, <1>2, <1>3, <1>4 DEF RtInv

\* An exchange begins with the stored token: the tab has none under way, so it
\* has not claimed that token.
LEMMA Started ==
    ASSUME RtInv, NEW c \in ApiCalls, PostsOf(Tab(c)) = {}, store.refresh # None,
           posts' = posts \union {[by |-> c, token |-> store.refresh, at |-> "sent", new |-> None]},
           UNCHANGED <<store, issued, claims, lost>>
    PROVE RtInv'
  <1> DEFINE q == [by |-> c, token |-> store.refresh, at |-> "sent", new |-> None]
  <1>0. /\ posts' = posts \union {q} /\ q \in Posts /\ q.by = c /\ q.token = store.refresh
        /\ q.at = "sent" /\ q.new = None
    BY DEF RtInv, Numbered, Posts, None
  <1>a. \A p \in posts : Tab(p.by) # Tab(c) BY DEF PostsOf
  <1> HIDE DEF q
  <1>1. Numbered' BY <1>0 DEF RtInv, Numbered, None
  <1>2. OneExchange' BY <1>0, <1>a DEF RtInv, OneExchange
  <1>3. AnswersAreNew' BY <1>0 DEF RtInv, AnswersAreNew, Numbered
  <1>4. SpentIsGone' BY <1>0 DEF RtInv, SpentIsGone
  <1>5. SentIsUnspent'
    <2>1. q.token \in lost \/ [token |-> q.token, by |-> Tab(q.by)] \notin claims
      <3> SUFFICES ASSUME q.token \notin lost, [token |-> q.token, by |-> Tab(c)] \in claims
                   PROVE FALSE
        BY <1>0
      <3>1. Tab(c) \in Tabs BY TokensAssumption DEF Tab
      <3> QED BY <3>1, <1>0, <1>a DEF RtInv, SpentIsGone
    <2> QED BY <2>1, <1>0 DEF RtInv, SentIsUnspent
  <1> QED BY <1>1, <1>2, <1>3, <1>4, <1>5 DEF RtInv

\* A post that is answered without a claim.
LEMMA Answered ==
    ASSUME RtInv, NEW p \in posts, p.at = "sent", NEW a \in {"refused", "failed"},
           posts' = (posts \ {p}) \union {[p EXCEPT !.at = a]},
           UNCHANGED <<store, issued, claims, lost>>
    PROVE RtInv'
  <1> DEFINE q == [p EXCEPT !.at = a]
  <1>0. /\ posts' = (posts \ {p}) \union {q} /\ q \in Posts /\ q.by = p.by /\ q.token = p.token
        /\ q.at = a /\ q.new = p.new /\ a # "granted"
    BY DEF RtInv, Numbered, Posts
  <1> HIDE DEF q
  <1>1. Numbered' BY <1>0 DEF RtInv, Numbered
  <1>2. OneExchange' BY <1>0 DEF RtInv, OneExchange
  <1>3. AnswersAreNew' BY <1>0 DEF RtInv, AnswersAreNew
  <1>4. SpentIsGone' BY <1>0 DEF RtInv, SpentIsGone
  <1>5. SentIsUnspent' BY <1>0 DEF RtInv, SentIsUnspent
  <1> QED BY <1>1, <1>2, <1>3, <1>4, <1>5 DEF RtInv

\* A post that claims its token, and is granted another or fails after that.
LEMMA ClaimedFirst ==
    ASSUME RtInv, NEW p \in posts, p.at = "sent", ~Claimed(p.token),
           claims' = claims \union {[token |-> p.token, by |-> Tab(p.by)]},
           NEW q \in Posts, posts' = (posts \ {p}) \union {q}, q.by = p.by, q.token = p.token,
           \/ q.at = "granted" /\ q.new = issued + 1 /\ issued' = issued + 1
           \/ q.at = "failed" /\ q.new = p.new /\ issued' = issued,
           UNCHANGED <<store, lost>>
    PROVE RtInv'
  <1> DEFINE d == [token |-> p.token, by |-> Tab(p.by)]
  <1>0. claims' = claims \union {d} /\ d.token = p.token /\ d.by = Tab(p.by) /\ d \in Claims
    BY TabOfPost DEF RtInv, Numbered, Posts, Claims
  <1> HIDE DEF d
  <1>1. Numbered'
    <2>0. issued \in Nat \ {0} /\ issued' \in Nat \ {0} /\ issued <= issued'
      BY DEF RtInv, Numbered
    <2>1. posts' \subseteq Posts /\ claims' \subseteq Claims BY <1>0 DEF RtInv, Numbered
    <2>2. store.refresh <= issued' /\ store \in [access : Nat, refresh : Nat]
      BY <2>0 DEF RtInv, Numbered
    <2>3. \A c \in claims' : c.token <= issued'
      BY <1>0, <2>0 DEF RtInv, Numbered, Claims, Posts
    <2>4. \A r \in posts' : r.token <= issued' /\ r.new <= issued'
      BY <2>0 DEF RtInv, Numbered, Posts
    <2>5. \A r \in posts' : r.at = "granted" => r.new # None
      BY <2>0 DEF RtInv, Numbered, None
    <2> QED BY <2>0, <2>1, <2>2, <2>3, <2>4, <2>5 DEF Numbered
  <1>2. OneExchange' BY DEF RtInv, OneExchange
  <1>3. AnswersAreNew'
    <2> SUFFICES ASSUME NEW r \in posts', r.at = "granted"
                 PROVE /\ r.new # store.refresh
                       /\ \A c \in claims' : c.token # r.new
                       /\ \A s \in posts' : s.token # r.new /\ (s.at = "granted" /\ s # r => s.new # r.new)
      BY DEF AnswersAreNew
    <2>1. CASE r = q
      BY <2>1, <1>0 DEF RtInv, Numbered, Claims, Posts
    <2>2. CASE r # q
      <3>1. r \in posts /\ r.new <= issued /\ r.new \in Nat BY <2>2 DEF RtInv, Numbered, Posts
      <3>2. r.new # p.token /\ r.new # store.refresh /\ \A c \in claims : c.token # r.new
        BY <3>1 DEF RtInv, AnswersAreNew
      <3> QED BY <3>1, <3>2, <1>0 DEF RtInv, AnswersAreNew, Numbered
    <2> QED BY <2>1, <2>2
  <1>4. SpentIsGone'
    <2> SUFFICES ASSUME NEW c \in claims', c.by \in Tabs, c.token \notin lost, store.refresh = c.token
                 PROVE \E r \in posts' : Tab(r.by) = c.by /\ r.token = c.token /\ r.at \in {"granted", "failed"}
      BY DEF SpentIsGone
    <2>1. CASE c = d BY <2>1, <1>0
    <2>2. CASE c # d
      <3>1. c \in claims BY <2>2, <1>0
      <3>2. PICK r \in posts : Tab(r.by) = c.by /\ r.token = c.token /\ r.at \in {"granted", "failed"}
        BY <3>1 DEF RtInv, SpentIsGone
      <3> QED BY <3>2
    <2> QED BY <2>1, <2>2
  <1>5. SentIsUnspent'
    <2> SUFFICES ASSUME NEW r \in posts', r.at \in {"sent", "refused"}, r.token \notin lost,
                        [token |-> r.token, by |-> Tab(r.by)] \in claims'
                 PROVE FALSE
      BY DEF SentIsUnspent
    <2>1. r \in posts /\ r # p BY DEF Posts
    <2>2. Tab(r.by) # Tab(p.by) BY <2>1 DEF RtInv, OneExchange
    <2>3. [token |-> r.token, by |-> Tab(r.by)] \in claims BY <1>0, <2>2
    <2> QED BY <2>1, <2>3 DEF RtInv, SentIsUnspent
  <1> QED BY <1>1, <1>2, <1>3, <1>4, <1>5 DEF RtInv

\* The new token is stored and the exchange is over.
LEMMA Delivered ==
    ASSUME RtInv, NEW p \in posts, p.at = "granted", SetTokens(p.new),
           posts' = posts \ {p}, UNCHANGED <<issued, claims, lost>>
    PROVE RtInv'
  <1>0. store' = [access |-> p.new, refresh |-> p.new] /\ p.new \in Nat /\ p.new <= issued
    BY DEF RtInv, Numbered, Posts, SetTokens
  <1>1. Numbered' BY <1>0 DEF RtInv, Numbered
  <1>2. OneExchange' BY DEF RtInv, OneExchange
  <1>3. AnswersAreNew' BY <1>0 DEF RtInv, AnswersAreNew
  <1>4. SpentIsGone' BY <1>0 DEF RtInv, SpentIsGone, AnswersAreNew
  <1>5. SentIsUnspent' BY DEF RtInv, SentIsUnspent
  <1> QED BY <1>1, <1>2, <1>3, <1>4, <1>5 DEF RtInv

LEMMA Failed ==
    ASSUME RtInv, NEW p \in posts, ClearTokens,
           posts' = posts \ {p}, UNCHANGED <<issued, claims, lost>>
    PROVE RtInv'
  <1>1. Numbered' BY DEF RtInv, Numbered, ClearTokens, None
  <1>2. OneExchange' BY DEF RtInv, OneExchange
  <1>3. AnswersAreNew' BY DEF RtInv, AnswersAreNew, ClearTokens, Numbered, None
  <1>4. SpentIsGone' BY DEF RtInv, SpentIsGone, ClearTokens, Numbered, None, Claims
  <1>5. SentIsUnspent' BY DEF RtInv, SentIsUnspent
  <1> QED BY <1>1, <1>2, <1>3, <1>4, <1>5 DEF RtInv

LEMMA SignedIn == ASSUME RtInv, Login PROVE RtInv'
  <1>0. /\ store' = [access |-> issued + 1, refresh |-> issued + 1] /\ issued' = issued + 1
        /\ UNCHANGED <<claims, posts, lost>>
    BY DEF Login, Issues, SetTokens
  <1>1. Numbered' BY <1>0 DEF RtInv, Numbered, Posts, Claims
  <1>2. OneExchange' /\ SentIsUnspent' BY <1>0 DEF RtInv, OneExchange, SentIsUnspent
  <1>3. AnswersAreNew' BY <1>0 DEF RtInv, AnswersAreNew, Numbered, Posts
  <1>4. SpentIsGone' BY <1>0 DEF RtInv, SpentIsGone, Numbered, Claims
  <1> QED BY <1>1, <1>2, <1>3, <1>4 DEF RtInv

LEMMA Revoked == ASSUME RtInv, NEW t \in Tabs, Logout(t) PROVE RtInv'
  <1> DEFINE d == [token |-> store.refresh, by |-> "logout"]
  <1>0. /\ claims' = claims \/ claims' = claims \union {d}
        /\ d.token = store.refresh /\ d.by = "logout" /\ d.by \notin Tabs /\ d \in Claims
        /\ UNCHANGED <<store, issued, posts, lost>>
    BY TokensAssumption DEF Logout, RtInv, Numbered, Claims, None
  <1> HIDE DEF d
  <1>1. Numbered' BY <1>0 DEF RtInv, Numbered
  <1>2. OneExchange' BY <1>0 DEF RtInv, OneExchange
  <1>3. AnswersAreNew' BY <1>0 DEF RtInv, AnswersAreNew
  <1>4. SpentIsGone' BY <1>0 DEF RtInv, SpentIsGone
  <1>5. SentIsUnspent'
    <2> SUFFICES ASSUME NEW p \in posts, p.at \in {"sent", "refused"}, p.token \notin lost,
                        [token |-> p.token, by |-> Tab(p.by)] \in claims'
                 PROVE FALSE
      BY <1>0 DEF SentIsUnspent
    <2>1. Tab(p.by) # "logout" BY TabOfPost DEF RtInv
    <2>2. [token |-> p.token, by |-> Tab(p.by)] \in claims BY <1>0, <2>1
    <2> QED BY <2>2 DEF RtInv, SentIsUnspent
  <1> QED BY <1>1, <1>2, <1>3, <1>4, <1>5 DEF RtInv

\* What a page leaves behind counts as lost, claimed or not.
LEMMA Reloaded == ASSUME RtInv, NEW t \in Tabs, ReloadPage(t) PROVE RtInv'
  <1>0. /\ posts' \subseteq posts /\ lost' = lost \union {p.token : p \in PostsOf(t)}
        /\ \A p \in posts : p \in posts' \/ p.token \in lost'
        /\ claims \subseteq claims' /\ UNCHANGED <<store, issued>>
        /\ \A c \in claims' : c \in claims \/ (\E p \in posts : c = [token |-> p.token, by |-> t]
                                                       /\ p.token \in lost')
    BY DEF ReloadPage, PostsOf
  <1>1. Numbered' BY <1>0 DEF RtInv, Numbered, Posts, Claims
  <1>2. OneExchange' BY <1>0 DEF RtInv, OneExchange
  <1>3. AnswersAreNew' BY <1>0 DEF RtInv, AnswersAreNew
  <1>4. SpentIsGone' BY <1>0 DEF RtInv, SpentIsGone
  <1>5. SentIsUnspent' BY <1>0 DEF RtInv, SentIsUnspent
  <1> QED BY <1>1, <1>2, <1>3, <1>4, <1>5 DEF RtInv

-----------------------------------------------------------------------------
LEMMA Initially == RtInit => RtInv
  BY DEF RtInit, RtInv, Numbered, OneExchange, AnswersAreNew, SpentIsGone, SentIsUnspent, None

LEMMA Step == RtInv /\ [RtNext]_rtVars => RtInv'
  <1> SUFFICES ASSUME RtInv, [RtNext]_rtVars PROVE RtInv'
    OBVIOUS
  <1>1. CASE \E c \in ApiCalls : SendCall(c) \/ CallAnswered(c)
    BY <1>1, Unchanged DEF SendCall, CallAnswered, state
  <1>2. ASSUME NEW c \in ApiCalls, Unauthorized(c) PROVE RtInv'
    <2>1. CASE PostsOf(Tab(c)) # {}
      BY <1>2, <2>1, Unchanged DEF Unauthorized, RefreshAccessToken, state
    <2>2. CASE PostsOf(Tab(c)) = {} /\ store.refresh # None
      BY <1>2, <2>2, Started DEF Unauthorized, RefreshAccessToken, Starts
    <2>3. CASE PostsOf(Tab(c)) = {} /\ store.refresh = None
      BY <1>2, <2>3, Forgotten DEF Unauthorized, RefreshAccessToken
    <2> QED BY <2>1, <2>2, <2>3
  <1>3. ASSUME NEW t \in Tabs, Logout(t) \/ LoggedOut(t) \/ ReloadPage(t) PROVE RtInv'
    BY <1>3, Revoked, Forgotten, Reloaded DEF LoggedOut
  <1>4. ASSUME NEW p \in posts, Refresh(p) PROVE RtInv'
    <2>1. CASE Claimed(p.token)
      BY <1>4, <2>1, Answered DEF Refresh
    <2>2. CASE ~Claimed(p.token) /\ issued' = issued + 1
      <3> DEFINE q == [by |-> p.by, token |-> p.token, at |-> "granted", new |-> issued + 1]
      <3>1. /\ q \in Posts /\ q.by = p.by /\ q.token = p.token /\ q.at = "granted"
            /\ q.new = issued + 1
        BY DEF RtInv, Numbered, Posts
      <3>2. posts' = (posts \ {p}) \union {q}
        BY <1>4, <2>2 DEF Refresh, RtInv, Numbered
      <3> HIDE DEF q
      <3> QED BY <1>4, <2>2, <3>1, <3>2, ClaimedFirst DEF Refresh
    <2>3. CASE ~Claimed(p.token) /\ issued' = issued
      <3> DEFINE q == [p EXCEPT !.at = "failed"]
      <3>1. /\ q \in Posts /\ q.by = p.by /\ q.token = p.token /\ q.at = "failed"
            /\ q.new = p.new
        BY DEF RtInv, Numbered, Posts
      <3>2. posts' = (posts \ {p}) \union {q}
        BY <1>4, <2>3 DEF Refresh, Issues, RtInv, Numbered
      <3> HIDE DEF q
      <3> QED BY <1>4, <2>3, <3>1, <3>2, ClaimedFirst DEF Refresh
    <2> QED BY <1>4, <2>1, <2>2, <2>3 DEF Refresh, Issues
  <1>5. ASSUME NEW p \in posts, RefreshUnavailable(p) PROVE RtInv'
    BY <1>5, Answered DEF RefreshUnavailable
  <1>6. ASSUME NEW p \in posts, Refreshed(p) PROVE RtInv'
    BY <1>6, Delivered DEF Refreshed
  <1>7. ASSUME NEW p \in posts, PutOut(p) PROVE RtInv'
    BY <1>7, Failed DEF PutOut
  <1>8. CASE (\E n \in fresh : Expire(n)) \/ UNCHANGED rtVars
    BY <1>8, Unchanged DEF Expire, rtVars, state
  <1>9. CASE Login
    BY <1>9, SignedIn
  <1> QED BY <1>1, <1>2, <1>3, <1>4, <1>5, <1>6, <1>7, <1>8, <1>9 DEF RtNext

\* The inductive invariant of the tokens of client.ts and core/auth.py: they are
\* numbered as issued; a tab has one exchange under way; an answer under way
\* brings a token that is not yet stored, claimed or sent; a token a tab claimed is
\* no longer stored unless its exchange is not over; a token sent or refused was
\* not claimed by the same tab.  Tokens lost with a page are excepted in the last
\* two.
THEOREM TokensInvariant == RtSpec => []RtInv
  <1> QED BY Initially, Step, PTL DEF RtSpec

\* A tab is refused a token only because of another tab, a logout or a page
\* that went away, whatever the tabs, the calls and the number of exchanges
\* (refreshPromise of client.ts, claim_refresh_jti() of core/auth.py).
THEOREM NeverRefusedItsOwnHolds == RtSpec => []NeverRefusedItsOwn
  <1>1. RtInv => NeverRefusedItsOwn
    BY DEF RtInv, SentIsUnspent, NeverRefusedItsOwn
  <1> QED BY <1>1, TokensInvariant, PTL

-----------------------------------------------------------------------------
(* The addresses of the rotator. *)

\* The library has 2^n as the number of subsets of n elements.
LEMMA PowerOfTwo ==
    ASSUME NEW n \in Nat
    PROVE  2^n \in Nat \ {0} /\ 2^(n + 1) = 2 * 2^n
  <1> DEFINE S == SUBSET (1..n)
             T == SUBSET (1..(n + 1))
             W == {A \cup {n + 1} : A \in S}
             f == [A \in S |-> A \cup {n + 1}]
  <1>1. /\ IsFiniteSet(1..n) /\ Cardinality(1..n) = n
        /\ IsFiniteSet(1..(n + 1)) /\ Cardinality(1..(n + 1)) = n + 1
    BY FS_Interval
  <1>2. /\ IsFiniteSet(S) /\ Cardinality(S) = 2^n
        /\ Cardinality(T) = 2^(n + 1)
    BY <1>1, FS_SUBSET
  <1>3. /\ 2^n \in Nat /\ 2^n # 0
    <2>1. Cardinality(S) \in Nat BY <1>2, FS_CardinalityType
    <2>2. {} \in S OBVIOUS
    <2>3. Cardinality(S) # 0 BY <1>2, <2>2, FS_EmptySet
    <2> QED BY <1>2, <2>1, <2>3
  <1>4. IsFiniteSet(W) /\ Cardinality(W) = 2^n
    <2>1. f \in Bijection(S, W)
      <3>1. f \in Injection(S, W)
        <4>1. f \in [S -> W] OBVIOUS
        <4>2. ASSUME NEW A \in S, NEW B \in S, f[A] = f[B] PROVE A = B
          <5>1. A \cup {n + 1} = B \cup {n + 1} BY <4>2
          <5>2. n + 1 \notin A /\ n + 1 \notin B OBVIOUS
          <5> QED BY <5>1, <5>2
        <4> QED BY <4>1, <4>2 DEF Injection, IsInjective
      <3>2. f \in Surjection(S, W)
        BY DEF Surjection
      <3> QED BY <3>1, <3>2 DEF Bijection
    <2>2. ExistsBijection(S, W) BY <2>1 DEF ExistsBijection
    <2> QED BY <1>2, <2>2, FS_Bijection
  <1>5. T = S \cup W
    <2>1. ASSUME NEW A \in T PROVE A \in S \cup W
      <3>1. CASE n + 1 \in A
        <4> DEFINE B == A \ {n + 1}
        <4>1. B \in S BY <2>1
        <4>2. A = B \cup {n + 1} BY <3>1
        <4> HIDE DEF B
        <4> QED BY <4>1, <4>2
      <3>2. CASE n + 1 \notin A
        BY <2>1, <3>2
      <3> QED BY <3>1, <3>2
    <2>2. ASSUME NEW A \in S PROVE A \in T /\ A \cup {n + 1} \in T
      OBVIOUS
    <2>3. ASSUME NEW A \in W PROVE A \in T
      <3>1. PICK B \in S : A = B \cup {n + 1} BY <2>3
      <3> QED BY <2>2, <3>1
    <2> HIDE DEF S, T, W
    <2> QED BY <2>1, <2>2, <2>3
  <1>6. S \cap W = {}
    <2>1. \A A \in S : n + 1 \notin A OBVIOUS
    <2>2. ASSUME NEW A \in W PROVE n + 1 \in A
      <3>1. PICK B \in S : A = B \cup {n + 1} OBVIOUS
      <3> QED BY <3>1
    <2> QED BY <2>1, <2>2
  <1>7. Cardinality(S \cap W) = 0
    <2>1. Cardinality({}) = 0 BY FS_EmptySet
    <2> QED BY <1>6, <2>1
  <1> HIDE DEF S, T, W
  <1>8. Cardinality(S \cup W) = 2^n + 2^n - 0
    BY <1>2, <1>4, <1>7, FS_Union
  <1>9. 2^(n + 1) = 2^n + 2^n BY <1>2, <1>3, <1>5, <1>8
  <1> QED BY <1>3, <1>9

\* An address of the pool is in the network and not the network's own.
LEMMA PoolIsInPrefix ==
    ASSUME NEW p \in [base : Nat, len : 0..Width], NEW r \in Nat
    PROVE  /\ PoolAddress(p, r) \in Int /\ Network(p) \in Int /\ Hosts(p) \in Int
           /\ p.len < Width => /\ 0 < PoolAddress(p, r) - Network(p)
                              /\ PoolAddress(p, r) - Network(p) < Hosts(p)
  <1> DEFINE H == Hosts(p)
             N == Network(p)
             a == PoolAddress(p, r)
  <1>1. Width \in Nat /\ Width - p.len \in Nat BY RotatorAssumption
  <1>2. H \in Nat \ {0} BY <1>1, PowerOfTwo DEF Hosts
  <1>3. N \in Int /\ r % H \in 0..(H - 1)
    BY <1>2 DEF Network
  <1>4. a = IF N % 2 = 1 THEN N ELSE N + (IF r % H = 0 THEN 1 ELSE r % H)
    BY DEF PoolAddress
  <1>5. a \in Int BY <1>3, <1>4
  <1>6. ASSUME p.len < Width PROVE 0 < a - N /\ a - N < H
    <2> DEFINE h == 2^(Width - p.len - 1)
    <2>1. Width - p.len - 1 \in Nat /\ (Width - p.len - 1) + 1 = Width - p.len
      BY <1>1, <1>6
    <2>2. h \in Nat \ {0} /\ H = 2 * h
      BY <2>1, PowerOfTwo DEF Hosts
    <2> DEFINE q == p.base \div H
    <2>3. p.base \in Nat /\ q \in Nat /\ N = H * q
      BY <1>2 DEF Network
    <2> HIDE DEF h, q, H, N, a
    <2> DEFINE x == h * q
    <2>4. x \in Nat /\ N = 2 * x
      BY <2>2, <2>3
    <2> HIDE DEF x
    <2>5. N % 2 = 0 BY <2>4
    <2> QED BY <1>2, <1>3, <1>4, <2>2, <2>5
  <1> QED BY <1>2, <1>3, <1>5, <1>6

-----------------------------------------------------------------------------
(* A connection through the rotator. *)

Resolving == {"none", "head", "lookup", "connecting"}
ConnPlaces == Resolving \cup {"opening", "tunnel", "closed"}
Addresses == V6 \cup V4

\* Source addresses are of the prefix, what is left of a resolved name has no
\* IPv6 address behind an IPv4 one, and what is connected is its head.
Routed ==
    /\ prefix \in PrefixArgs
    /\ \A a \in sources : /\ a \in Int
                          /\ prefix.len < Width => /\ 0 < a - Network(prefix)
                                                  /\ a - Network(prefix) < Hosts(prefix)
    /\ conn \in [at : ConnPlaces, method : {"none", "connect", "plain"},
                 left : Seq(Addresses), via : Addresses \cup {NoAddress},
                 source : sources \cup {NoAddress}]
    /\ conn.at # "none" => sources # {}
    /\ conn.at \in Resolving => conn.via = NoAddress
    /\ conn.at = "connecting" \/ conn.via \in V6 => conn.source \in sources
    /\ \A i, j \in DOMAIN conn.left :
         i < j /\ conn.left[i] \in V4 => conn.left[j] \in V4
    /\ conn.via # NoAddress => conn.left # <<>> /\ conn.via = conn.left[1]

LEMMA RoutedInitially == RoInit => Routed
  BY RotatorAssumption DEF RoInit, Routed, ConnPlaces, Resolving, Addresses

LEMMA PoolIsRouted == ASSUME Routed, Listen PROVE Routed'
  <1>1. \A p \in PrefixArgs : p \in [base : Nat, len : 0..Width]
    <2>1. 2^Width \in Nat BY PowerOfTwo, RotatorAssumption
    <2> QED BY <2>1, RotatorAssumption
  <1>2. prefix \in [base : Nat, len : 0..Width] BY <1>1 DEF Routed
  <1>3. 2^Width \in Nat BY PowerOfTwo, RotatorAssumption
  <1>4. ASSUME NEW a \in sources'
        PROVE  /\ a \in Int
               /\ prefix.len < Width => /\ 0 < a - Network(prefix)
                                       /\ a - Network(prefix) < Hosts(prefix)
    <2>1. PICK r \in [1..PoolSize -> 0..(2^Width - 1)] :
                 sources' = {PoolAddress(prefix, r[i]) : i \in 1..PoolSize}
      BY DEF Listen, GeneratePool
    <2>2. PICK i \in 1..PoolSize : a = PoolAddress(prefix, r[i]) BY <2>1
    <2>3. r[i] \in Nat BY <1>3
    <2> QED BY <1>2, <2>2, <2>3, PoolIsInPrefix
  <1>5. conn.at = "none" /\ conn.source = NoAddress /\ conn.via \notin V6
    BY RotatorAssumption DEF Routed, Listen, Resolving
  <1> QED BY <1>4, <1>5 DEF Routed, Listen, Network, Hosts, Resolving

\* Where the handler is and what it read of the head matter little.
LEMMA MovesOn ==
    ASSUME Routed, UNCHANGED hostVars, NEW x \in ConnPlaces,
           NEW m \in {"none", "connect", "plain"},
           conn' = [conn EXCEPT !.at = x, !.method = m],
           sources # {}, x # "connecting", x \in Resolving => conn.at \in Resolving
    PROVE  Routed'
  BY DEF Routed, hostVars, Network, Hosts

LEMMA HandlerIsRouted ==
    ASSUME Routed,
           \/ Accept \/ ReadHead \/ RefuseHead \/ GiveUp \/ Open \/ OpenFails
           \/ \E w \in Ways : CopyEnds(w) \/ CopyFails(w)
    PROVE  Routed'
  <1>1. sources # {} /\ UNCHANGED hostVars
    BY DEF Routed, Accept, ReadHead, RefuseHead, GiveUp, Open, OpenFails, CopyEnds, CopyFails
  <1>2. conn.method \in {"none", "connect", "plain"} /\ conn = [conn EXCEPT !.method = @]
    BY DEF Routed
  <1>3. CASE ReadHead
    BY <1>1, <1>3, MovesOn DEF ReadHead, ConnPlaces, Resolving
  <1>4. CASE ~ReadHead
    <2>1. PICK x \in {"head", "tunnel", "closed"} :
             /\ conn' = [conn EXCEPT !.at = x]
             /\ x = "head" => conn.at = "none"
      BY <1>4 DEF Accept, RefuseHead, GiveUp, Open, OpenFails, CopyEnds, CopyFails, Goto
    <2>2. conn' = [conn EXCEPT !.at = x, !.method = conn.method]
      BY <2>1 DEF Routed
    <2> QED BY <1>1, <1>2, <2>1, <2>2, MovesOn DEF ConnPlaces, Resolving
  <1> QED BY <1>3, <1>4

LEMMA LookupIsRouted == ASSUME Routed, Lookup PROVE Routed'
  <1>1. PICK q \in Answers, source \in sources : \E s \in Sorted(q) :
           conn' = [conn EXCEPT !.at = "connecting", !.left = s, !.source = source]
    BY DEF Lookup
  <1>2. PICK s \in Sorted(q) :
           conn' = [conn EXCEPT !.at = "connecting", !.left = s, !.source = source]
    BY <1>1
  <1>3. s \in Seq(Addresses)
    BY <1>2 DEF Sorted, Answers, Addresses
  <1>4. \A i, j \in DOMAIN s : i < j /\ s[i] \in V4 => s[j] \in V4
    <2>1. SUFFICES ASSUME NEW i \in DOMAIN s, NEW j \in DOMAIN s, i < j, s[i] \in V4
                   PROVE  s[j] \in V4
      OBVIOUS
    <2>2. s[j] \in V6 \cup V4 BY <1>3 DEF Addresses
    <2>3. Ahead(q, s[i], s[j]) BY <1>2, <2>1 DEF Sorted
    <2> QED BY <2>1, <2>2, <2>3, RotatorAssumption DEF Ahead
  <1> QED BY <1>2, <1>3, <1>4, RotatorAssumption
          DEF Lookup, Routed, hostVars, Network, Hosts, ConnPlaces, Resolving

LEMMA ConnectIsRouted == ASSUME Routed, ConnectFails \/ Connects PROVE Routed'
  <1>1. conn.left \in Seq(Addresses) /\ conn.left # <<>> BY DEF Routed, ConnectFails, Connects
  <1>2. CASE ConnectFails
    <2> DEFINE t == Tail(conn.left)
    <2>1. /\ t \in Seq(Addresses) /\ Len(t) = Len(conn.left) - 1
          /\ \A i \in DOMAIN t : t[i] = conn.left[i + 1]
      BY <1>1
    <2>2. \A i, j \in DOMAIN t : i < j /\ t[i] \in V4 => t[j] \in V4
      BY <1>1, <2>1 DEF Routed
    <2> HIDE DEF t
    <2>3. conn' = [conn EXCEPT !.left = t] /\ conn.at = "connecting" /\ UNCHANGED hostVars
      BY <1>2 DEF ConnectFails, t
    <2>4. conn'.via = NoAddress BY <2>3 DEF Routed, Resolving
    <2> QED BY <2>1, <2>2, <2>3, <2>4, RotatorAssumption
            DEF Routed, hostVars, Network, Hosts, ConnPlaces, Resolving
  <1>3. CASE Connects
    <2>1. Head(conn.left) = conn.left[1] /\ conn.left[1] \in V6 \cup V4
      BY <1>1 DEF Addresses
    <2> QED BY <1>1, <1>3, <2>1, RotatorAssumption
        DEF Connects, Routed, hostVars, Network, Hosts, ConnPlaces, Resolving, Addresses
  <1> QED BY <1>2, <1>3

LEMMA RoutedStep == Routed /\ [RoNext]_roVars => Routed'
  <1> SUFFICES ASSUME Routed, [RoNext]_roVars PROVE Routed'
    OBVIOUS
  <1>1. CASE \/ UNCHANGED roVars
             \/ \E w \in Ways : Send(w) \/ EndStream(w) \/ CopyReads(w) \/ CopyWrites(w)
    <2>1. UNCHANGED <<hostVars, conn>>
      BY <1>1 DEF roVars, Send, EndStream, CopyReads, CopyWrites
    <2> QED BY <2>1 DEF Routed, hostVars, Network, Hosts
  <1> QED BY <1>1, PoolIsRouted, HandlerIsRouted, LookupIsRouted, ConnectIsRouted DEF RoNext

THEOREM RoutedAlways == RoSpec => []Routed
  BY RoutedInitially, RoutedStep, PTL DEF RoSpec

\* For any addresses, prefix and pool: requests leave from addresses of the
\* prefix, and over IPv4 only after every IPv6 address has failed.
THEOREM RotatedFirstHolds == RoSpec => []RotatedFirst
  <1>1. ASSUME Routed PROVE RotatedFirst
    <2>1. conn.via \in V4 => \A i \in DOMAIN conn.left : conn.left[i] \in V4
      <3> SUFFICES ASSUME conn.via \in V4, NEW i \in DOMAIN conn.left
                   PROVE  conn.left[i] \in V4
        OBVIOUS
      <3>1. conn.via # NoAddress BY RotatorAssumption
      <3> QED BY <1>1, <3>1 DEF Routed
    <2> QED BY <1>1, <2>1 DEF Routed, RotatedFirst
  <1>2. Routed => RotatedFirst BY <1>1
  <1> QED BY <1>2, RoutedAlways, PTL

-----------------------------------------------------------------------------
(* The streams of a tunnel. *)

\* What was written (g), is held (b) and unread (u) makes up the n chunks that
\* were sent, in their order, behind the s chunks that are none.
Flow(g, b, u, n, s) ==
    /\ g \in Seq(Nat) /\ b \in Seq(Nat) /\ u \in Seq(Nat) /\ n \in Nat
    /\ s \in {0, 1} /\ s <= Len(g)
    /\ n = Len(g) - s + Len(b) + Len(u)
    /\ \A i \in 1..Len(g) : g[i] = i - s
    /\ \A i \in 1..Len(b) : b[i] = Len(g) - s + i
    /\ \A i \in 1..Len(u) : u[i] = Len(g) - s + Len(b) + i

LEMMA FlowGrows ==
    ASSUME NEW g, NEW b, NEW u, NEW n, NEW s, Flow(g, b, u, n, s)
    PROVE  Flow(g, b, Append(u, n + 1), n + 1, s)
  <1> DEFINE v == Append(u, n + 1)
  <1>1. /\ v \in Seq(Nat) /\ Len(v) = Len(u) + 1
        /\ v[Len(u) + 1] = n + 1 /\ \A i \in 1..Len(u) : v[i] = u[i]
    BY DEF Flow
  <1> HIDE DEF v
  <1>2. ASSUME NEW i \in 1..Len(v) PROVE v[i] = Len(g) - s + Len(b) + i
    <2>1. i \in 1..Len(u) \/ i = Len(u) + 1 BY <1>1 DEF Flow
    <2> QED BY <1>1, <2>1 DEF Flow
  <1>3. n + 1 = Len(g) - s + Len(b) + Len(v) BY <1>1 DEF Flow
  <1>4. Flow(g, b, v, n + 1, s) BY <1>1, <1>2, <1>3 DEF Flow
  <1> QED BY <1>4 DEF v

LEMMA FlowReads ==
    ASSUME NEW g, NEW b, NEW u, NEW n, NEW s, Flow(g, b, u, n, s), u # <<>>
    PROVE  Flow(g, Append(b, Head(u)), Tail(u), n, s)
  <1> DEFINE c == Append(b, Head(u))
             v == Tail(u)
  <1>1. /\ v \in Seq(Nat) /\ Len(v) = Len(u) - 1
        /\ \A i \in 1..Len(v) : v[i] = u[i + 1]
        /\ Head(u) = Len(g) - s + Len(b) + 1 /\ Head(u) \in Nat
    BY DEF Flow
  <1>2. /\ c \in Seq(Nat) /\ Len(c) = Len(b) + 1
        /\ c[Len(b) + 1] = Head(u) /\ \A i \in 1..Len(b) : c[i] = b[i]
    BY <1>1 DEF Flow
  <1> HIDE DEF c, v
  <1>3. ASSUME NEW i \in 1..Len(c) PROVE c[i] = Len(g) - s + i
    <2>1. i \in 1..Len(b) \/ i = Len(b) + 1 BY <1>2 DEF Flow
    <2>2. Len(g) \in Nat /\ Len(b) \in Nat /\ s \in Nat BY DEF Flow
    <2>3. ASSUME i \in 1..Len(b) PROVE b[i] = Len(g) - s + i BY <2>3 DEF Flow
    <2>4. Head(u) = Len(g) - s + (Len(b) + 1) BY <1>1, <2>2
    <2>5. CASE i \in 1..Len(b) BY <1>2, <2>3, <2>5
    <2>6. CASE i = Len(b) + 1 BY <1>2, <2>4, <2>6
    <2> QED BY <2>1, <2>5, <2>6
  <1>4. ASSUME NEW i \in 1..Len(v) PROVE v[i] = Len(g) - s + Len(c) + i
    <2>1. i + 1 \in 1..Len(u) /\ v[i] = u[i + 1] BY <1>1 DEF Flow
    <2>2. u[i + 1] = Len(g) - s + Len(b) + (i + 1) BY <2>1 DEF Flow
    <2>3. Len(g) \in Nat /\ Len(b) \in Nat /\ s \in Nat BY DEF Flow
    <2> QED BY <1>2, <2>1, <2>2, <2>3
  <1>5. n = Len(g) - s + Len(c) + Len(v) BY <1>1, <1>2 DEF Flow
  <1>6. Flow(g, c, v, n, s) BY <1>1, <1>2, <1>3, <1>4, <1>5 DEF Flow
  <1> QED BY <1>6 DEF c, v

LEMMA FlowWrites ==
    ASSUME NEW g, NEW b, NEW u, NEW n, NEW s, Flow(g, b, u, n, s), b # <<>>
    PROVE  Flow(Append(g, Head(b)), Tail(b), u, n, s)
  <1> DEFINE h == Append(g, Head(b))
             c == Tail(b)
  <1>1. /\ c \in Seq(Nat) /\ Len(c) = Len(b) - 1
        /\ \A i \in 1..Len(c) : c[i] = b[i + 1]
        /\ Head(b) = Len(g) - s + 1 /\ Head(b) \in Nat
    BY DEF Flow
  <1>2. /\ h \in Seq(Nat) /\ Len(h) = Len(g) + 1
        /\ h[Len(g) + 1] = Head(b) /\ \A i \in 1..Len(g) : h[i] = g[i]
    BY <1>1 DEF Flow
  <1> HIDE DEF c, h
  <1>3. ASSUME NEW i \in 1..Len(h) PROVE h[i] = i - s
    <2>1. i \in 1..Len(g) \/ i = Len(g) + 1 BY <1>2 DEF Flow
    <2>2. Len(g) \in Nat /\ s \in Nat BY DEF Flow
    <2>3. ASSUME i \in 1..Len(g) PROVE g[i] = i - s BY <2>3 DEF Flow
    <2> QED BY <1>1, <1>2, <2>1, <2>2, <2>3
  <1>4. ASSUME NEW i \in 1..Len(c) PROVE c[i] = Len(h) - s + i
    <2>1. i + 1 \in 1..Len(b) /\ c[i] = b[i + 1] BY <1>1 DEF Flow
    <2>2. b[i + 1] = Len(g) - s + (i + 1) BY <2>1 DEF Flow
    <2>3. Len(g) \in Nat /\ s \in Nat BY DEF Flow
    <2> QED BY <1>2, <2>1, <2>2, <2>3
  <1>5. \A i \in 1..Len(u) : u[i] = Len(h) - s + Len(c) + i BY <1>1, <1>2 DEF Flow
  <1>6. n = Len(h) - s + Len(c) + Len(u) /\ s <= Len(h) BY <1>1, <1>2 DEF Flow
  <1>7. Flow(h, c, u, n, s) BY <1>1, <1>2, <1>3, <1>4, <1>5, <1>6 DEF Flow
  <1> QED BY <1>7 DEF c, h

LEMMA FlowOpens ==
    ASSUME NEW u, NEW n, Flow(<<>>, <<>>, u, n, 0)
    PROVE  Flow(<<0>>, <<>>, u, n, 1)
  BY DEF Flow

\* The head of a plain request is no chunk.
Opened(w) == w = "up" /\ conn.method = "plain" /\ got[w] # <<>>
Start(w) == IF Opened(w) THEN 1 ELSE 0

Flows(w) ==
    /\ Flow(got[w], buf[w], unread[w], sent[w], Start(w))
    /\ conn.at \notin {"tunnel", "closed"} => got[w] = <<>> /\ buf[w] = <<>>
    /\ conn.at = "tunnel" /\ w = "up" /\ conn.method = "plain" => got[w] # <<>>

EndedWell(w) == ended.way = w /\ ended.how = "eof"

Streams ==
    /\ DOMAIN sent = Ways /\ DOMAIN unread = Ways /\ DOMAIN buf = Ways
    /\ DOMAIN got = Ways /\ DOMAIN eof = Ways
    /\ \A w \in Ways : Flows(w)
    /\ \A w \in Ways : EndedWell(w) => conn.at = "closed" /\ Done(w)

LEMMA StreamsInitially == RoInit => Streams
  <1> SUFFICES ASSUME RoInit PROVE Streams
    OBVIOUS
  <1>1. ASSUME NEW w \in Ways PROVE Flows(w)
    BY DEF RoInit, Flows, Flow, Start, Opened
  <1> QED BY <1>1 DEF RoInit, Streams, EndedWell

\* While nothing flows, the handler goes on.
LEMMA HandlerGoesOn ==
    ASSUME Streams, Routed,
           \/ Listen \/ Accept \/ ReadHead \/ RefuseHead \/ Lookup \/ GiveUp
           \/ Connects \/ ConnectFails \/ OpenFails
    PROVE  Streams'
  <1>1. UNCHANGED streamVars
    BY DEF Listen, Accept, ReadHead, RefuseHead, Lookup, GiveUp, Connects, ConnectFails,
           OpenFails
  <1>2. conn' = conn \/ (conn.at \notin {"tunnel", "closed"} /\ conn'.at # "tunnel")
    BY DEF Routed, Listen, Accept, ReadHead, RefuseHead, Lookup, GiveUp, Connects,
           ConnectFails, OpenFails, Goto
  <1>3. CASE conn' = conn
    BY <1>1, <1>3 DEF Streams, streamVars, Flows, Start, Opened, Done, EndedWell
  <1>4. CASE conn.at \notin {"tunnel", "closed"} /\ conn'.at # "tunnel"
    <2>1. ASSUME NEW w \in Ways PROVE Flows(w)'
      <3>1. Flows(w) /\ got[w] = <<>> BY <1>4 DEF Streams, Flows
      <3>2. Start(w) = 0 /\ Start(w)' = 0 BY <1>1, <3>1 DEF Start, Opened, streamVars
      <3> QED BY <1>1, <1>4, <3>1, <3>2 DEF Flows, streamVars
    <2>2. \A w \in Ways : ~EndedWell(w)'
      BY <1>1, <1>4 DEF Streams, streamVars, EndedWell
    <2> QED BY <1>1, <2>1, <2>2 DEF Streams, streamVars
  <1> QED BY <1>2, <1>3, <1>4

\* A copy ends and the tunnel with it, whichever way it went.
LEMMA TunnelCloses ==
    ASSUME Streams, Routed, NEW w \in Ways, CopyEnds(w) \/ CopyFails(w)
    PROVE  Streams'
  <1>1. /\ UNCHANGED <<sent, eof, unread, buf, got>>
        /\ conn'.at = "closed" /\ conn'.method = conn.method /\ conn.at = "tunnel"
    BY DEF CopyEnds, CopyFails, Goto, Routed
  <1>2. ASSUME NEW v \in Ways PROVE Flows(v)'
    <2>1. Flows(v) BY DEF Streams
    <2> QED BY <1>1, <2>1 DEF Flows, Start, Opened
  <1>3. ASSUME NEW v \in Ways, EndedWell(v)' PROVE Done(v)'
    <2>1. CopyEnds(w) /\ v = w BY <1>3 DEF CopyEnds, CopyFails, EndedWell
    <2> QED BY <1>1, <2>1 DEF CopyEnds, Done
  <1> QED BY <1>1, <1>2, <1>3 DEF Streams

\* A step of one way leaves the other as it is.
LEMMA OneWayFlows ==
    ASSUME Streams, NEW w \in Ways, UNCHANGED <<conn, ended>>,
           /\ DOMAIN sent' = Ways /\ DOMAIN unread' = Ways /\ DOMAIN buf' = Ways
           /\ DOMAIN got' = Ways /\ DOMAIN eof' = Ways,
           \A v \in Ways : v # w => /\ sent'[v] = sent[v] /\ unread'[v] = unread[v]
                                   /\ buf'[v] = buf[v] /\ got'[v] = got[v]
                                   /\ eof'[v] = eof[v],
           Flows(w)', conn.at = "closed" /\ Done(w) => Done(w)'
    PROVE  Streams'
  <1>1. ASSUME NEW v \in Ways, v # w PROVE Flows(v)' /\ (Done(v) => Done(v)')
    <2>1. Flows(v) BY DEF Streams
    <2>2. /\ sent'[v] = sent[v] /\ unread'[v] = unread[v] /\ buf'[v] = buf[v]
          /\ got'[v] = got[v] /\ eof'[v] = eof[v]
      BY <1>1
    <2> QED BY <2>1, <2>2 DEF Flows, Start, Opened, Done
  <1>2. \A v \in Ways : EndedWell(v)' <=> EndedWell(v) BY DEF EndedWell
  <1> QED BY <1>1, <1>2 DEF Streams

LEMMA SendsMore == ASSUME Streams, NEW w \in Ways, Send(w) PROVE Streams'
  <1>1. Flows(w) /\ ~Done(w) BY DEF Streams, Send, Done
  <1>2. /\ sent' = [sent EXCEPT ![w] = @ + 1] /\ sent'[w] = sent[w] + 1
        /\ unread' = [unread EXCEPT ![w] = Append(@, sent'[w])]
        /\ unread'[w] = Append(unread[w], sent[w] + 1)
        /\ UNCHANGED <<conn, eof, buf, got, ended>>
    BY DEF Send, Streams
  <1>3. Flows(w)' BY <1>1, <1>2, FlowGrows DEF Flows, Start, Opened
  <1> QED BY <1>1, <1>2, <1>3, OneWayFlows DEF Streams

LEMMA EndsStream == ASSUME Streams, NEW w \in Ways, EndStream(w) PROVE Streams'
  <1>1. Flows(w) BY DEF Streams
  <1>2. /\ eof' = [eof EXCEPT ![w] = TRUE]
        /\ UNCHANGED <<conn, sent, unread, buf, got, ended>>
    BY DEF EndStream
  <1>3. Flows(w)' BY <1>1, <1>2 DEF Flows, Start, Opened
  <1>4. Done(w) => Done(w)' BY <1>2 DEF Done, Streams
  <1> QED BY <1>2, <1>3, <1>4, OneWayFlows DEF Streams

LEMMA ReadsChunk == ASSUME Streams, NEW w \in Ways, CopyReads(w) PROVE Streams'
  <1>1. Flows(w) /\ unread[w] # <<>> /\ ~Done(w) /\ conn.at = "tunnel"
    BY DEF Streams, CopyReads, Done
  <1>2. /\ buf' = [buf EXCEPT ![w] = Append(@, Head(unread[w]))]
        /\ unread' = [unread EXCEPT ![w] = Tail(@)]
        /\ buf'[w] = Append(buf[w], Head(unread[w])) /\ unread'[w] = Tail(unread[w])
        /\ UNCHANGED <<conn, sent, eof, got, ended>>
    BY DEF CopyReads, Streams
  <1>3. Flows(w)' BY <1>1, <1>2, FlowReads DEF Flows, Start, Opened
  <1> QED BY <1>1, <1>2, <1>3, OneWayFlows DEF Streams

LEMMA WritesChunk == ASSUME Streams, NEW w \in Ways, CopyWrites(w) PROVE Streams'
  <1>1. Flows(w) /\ buf[w] # <<>> /\ ~Done(w) /\ conn.at = "tunnel"
    BY DEF Streams, CopyWrites, Done
  <1>2. /\ got' = [got EXCEPT ![w] = Append(@, Head(buf[w]))]
        /\ buf' = [buf EXCEPT ![w] = Tail(@)]
        /\ got'[w] = Append(got[w], Head(buf[w])) /\ buf'[w] = Tail(buf[w])
        /\ UNCHANGED <<conn, sent, eof, unread, ended>>
    BY DEF CopyWrites, Streams
  <1>3. Flow(got'[w], buf'[w], unread[w], sent[w], Start(w))
    BY <1>1, <1>2, FlowWrites DEF Flows
  <1>4. got'[w] # <<>>
    <2>1. got[w] \in Seq(Nat) /\ Head(buf[w]) \in Nat BY <1>1 DEF Flows, Flow
    <2> QED BY <1>2, <2>1
  <1>5. Start(w)' = Start(w) BY <1>1, <1>2, <1>4 DEF Flows, Start, Opened
  <1>6. Flows(w)' BY <1>1, <1>2, <1>3, <1>4, <1>5 DEF Flows
  <1> QED BY <1>1, <1>2, <1>6, OneWayFlows DEF Streams

\* The tunnel opens, with the head of a plain request in front.
LEMMA TunnelOpens == ASSUME Streams, Routed, Open PROVE Streams'
  <1>1. /\ conn'.at = "tunnel" /\ conn'.method = conn.method /\ conn.at = "opening"
        /\ UNCHANGED <<sent, eof, unread, buf, ended>>
    BY DEF Open, Goto, Routed
  <1>2. ASSUME NEW w \in Ways PROVE Flows(w)'
    <2>1. Flows(w) /\ got[w] = <<>> /\ buf[w] = <<>> /\ Start(w) = 0
      BY <1>1 DEF Streams, Flows, Start, Opened
    <2>2. Flow(<<>>, <<>>, unread[w], sent[w], 0) BY <2>1 DEF Flows
    <2>3. CASE w = "up" /\ conn.method = "plain"
      <3>1. got' = [got EXCEPT !["up"] = Append(@, 0)] BY <2>3 DEF Open
      <3>2. got'[w] = Append(<<>>, 0) BY <2>1, <2>3, <3>1 DEF Streams
      <3>3. got'[w] = <<0>> /\ got'[w] # <<>> BY <3>2
      <3>4. Start(w)' = 1 BY <1>1, <2>3, <3>3 DEF Start, Opened
      <3> QED BY <1>1, <2>1, <2>2, <3>3, <3>4, FlowOpens DEF Flows
    <2>4. CASE ~(w = "up" /\ conn.method = "plain")
      <3>1. got'[w] = got[w] BY <2>4 DEF Open, Streams
      <3>2. Start(w)' = 0 BY <1>1, <2>4 DEF Start, Opened
      <3> QED BY <1>1, <2>1, <2>2, <2>4, <3>1, <3>2 DEF Flows
    <2> QED BY <2>3, <2>4
  <1>3. DOMAIN got' = Ways BY DEF Open, Streams
  <1>4. \A w \in Ways : ~EndedWell(w)' BY <1>1 DEF Streams, EndedWell
  <1> QED BY <1>1, <1>2, <1>3, <1>4 DEF Streams

LEMMA StreamsStep == Streams /\ Routed /\ [RoNext]_roVars => Streams'
  <1> SUFFICES ASSUME Streams, Routed, [RoNext]_roVars PROVE Streams'
    OBVIOUS
  <1>1. CASE UNCHANGED roVars
    BY <1>1 DEF roVars, streamVars, Streams, Flows, Start, Opened, Done, EndedWell
  <1> QED BY <1>1, HandlerGoesOn, TunnelCloses, SendsMore, EndsStream, ReadsChunk,
             WritesChunk, TunnelOpens DEF RoNext

\* For any number of chunks and any buffer: what comes out of a tunnel is what
\* went in, and a copy that ended it has delivered all of its stream.
THEOREM StreamsAreWholeHolds == RoSpec => []StreamsAreWhole
  <1>1. ASSUME Streams PROVE StreamsAreWhole
    <2>1. ASSUME NEW w \in Ways
          PROVE  LET opened == w = "up" /\ conn.method = "plain" /\ got[w] # <<>>
                     start == IF opened THEN 1 ELSE 0
                 IN  /\ opened => got[w][1] = 0
                     /\ \A i \in (start + 1)..Len(got[w]) : got[w][i] = i - start
                     /\ ended = [way |-> w, how |-> "eof"] => Len(got[w]) = sent[w] + start
      <3>1. Flows(w) BY <1>1 DEF Streams
      <3>2. ended = [way |-> w, how |-> "eof"] => Done(w) BY <1>1 DEF Streams, EndedWell
      <3>3. /\ \A i \in 1..Len(got[w]) : got[w][i] = i - Start(w)
            /\ Len(got[w]) \in Nat /\ Start(w) \in {0, 1}
            /\ Done(w) => Len(got[w]) = sent[w] + Start(w)
        BY <3>1 DEF Flows, Flow, Done
      <3>4. Opened(w) => got[w][1] = 0
        <4>1. got[w] # <<>> /\ got[w] \in Seq(Nat) => 1 \in 1..Len(got[w]) OBVIOUS
        <4> QED BY <3>1, <3>3, <4>1 DEF Opened, Start, Flows, Flow
      <3> QED BY <3>2, <3>3, <3>4 DEF Start, Opened
    <2> QED BY <2>1 DEF StreamsAreWhole
  <1>2. Streams => StreamsAreWhole BY <1>1
  <1> QED BY <1>2, RoutedAlways, StreamsInitially, StreamsStep, PTL DEF RoSpec

-----------------------------------------------------------------------------
(***************************************************************************)
(* KeyBudget for any processes, keys, rows, limit and window.  Of the      *)
(* calls of a key, those before the last `count` and one more are not      *)
(* later than the start of the window, and those a limit further back not  *)
(* later than a window before that, where the window before it started.    *)
(***************************************************************************)
InBudget(u, s) ==
    /\ u.count <= Limit /\ u.since <= clock
    /\ u.count = 0 => clock - u.since >= Window
    /\ \A i \in 1..Len(s) :
          /\ s[i] <= clock
          /\ i <= Len(s) - u.count + 1 => s[i] <= u.since
          /\ i <= Len(s) - u.count - (Limit - 1) => s[i] <= u.since - Window
    /\ \A i, j \in 1..Len(s) : j - i >= 2 * Limit - 1 => s[j] - s[i] >= Window

Paced ==
    /\ clock \in Int
    /\ usage \in [Processes -> [Keys -> [count : Nat, since : Int]]]
    /\ taken \in [Processes -> [Keys -> Seq(Int)]]
    /\ \A p \in Processes, k \in Keys : InBudget(usage[p][k], taken[p][k])

LEMMA PacedInitially == AkInit => Paced
  BY KeysAssumption DEF AkInit, Paced, InBudget

\* One more call of a key, for which its window has room or which starts one.
LEMMA OneMoreCall ==
    ASSUME clock \in Int, NEW u \in [count : Nat, since : Int], NEW s \in Seq(Int),
           InBudget(u, s), clock - u.since >= Window \/ u.count < Limit
    PROVE  InBudget(Recorded(u), Append(s, clock))
  <1> DEFINE z == Append(s, clock)
             v == Recorded(u)
             n == Len(s)
             c == u.count
             t == u.since
  <1>1. n \in Nat /\ Len(z) = n + 1 /\ z[n + 1] = clock OBVIOUS
  <1>2. \A i \in 1..n : z[i] = s[i] /\ s[i] \in Int OBVIOUS
  <1>3. Limit \in Nat /\ Limit >= 1 /\ Window \in Nat /\ c \in Nat /\ t \in Int
    BY KeysAssumption
  <1>4. c <= Limit /\ t <= clock /\ (c = 0 => clock - t >= Window) BY DEF InBudget
  <1>5. \A i \in 1..n : /\ z[i] \in Int /\ z[i] <= clock
                        /\ i <= n - c + 1 => z[i] <= t
                        /\ i <= n - c - (Limit - 1) => z[i] <= t - Window
    BY <1>2 DEF InBudget
  <1>6. \A i, j \in 1..n : j - i >= 2 * Limit - 1 => z[j] - z[i] >= Window
    BY <1>2 DEF InBudget
  <1>7. v = IF clock - t >= Window THEN [count |-> 1, since |-> clock]
            ELSE [count |-> c + 1, since |-> t]
    BY DEF Recorded
  <1>8. clock - t >= Window \/ c < Limit OBVIOUS
  <1> SUFFICES InBudget(v, z) OBVIOUS
  <1> HIDE DEF z, v, n, c, t
  <1>9. v.count \in 1..Limit /\ v.since \in Int /\ v.since <= clock
    BY <1>3, <1>4, <1>7, <1>8
  \* The calls so far, seen from the window that the call is counted in.
  <1>10. ASSUME NEW i \in 1..n
         PROVE  /\ i <= n + 1 - v.count + 1 => z[i] <= v.since
                /\ i <= n + 1 - v.count - (Limit - 1) => z[i] <= v.since - Window
    <2>1. CASE clock - t >= Window
      <3>1. v.count = 1 /\ v.since = clock BY <2>1, <1>7
      <3>2. z[i] <= clock BY <1>5
      <3>3. ASSUME i <= n - (Limit - 1) PROVE z[i] <= clock - Window
        <4>1. i <= n - c + 1 BY <3>3, <1>1, <1>3, <1>4
        <4>2. z[i] <= t /\ z[i] \in Int BY <4>1, <1>5
        <4> QED BY <4>2, <2>1, <1>3
      <3> QED BY <3>1, <3>2, <3>3, <1>1, <1>3
    <2>2. CASE clock - t < Window
      <3>1. v.count = c + 1 /\ v.since = t BY <2>2, <1>3, <1>7
      <3>2. /\ i <= n - c + 1 => z[i] <= t
            /\ i <= n - c - (Limit - 1) => z[i] <= t - Window
        BY <1>5
      <3> QED BY <3>1, <3>2, <1>1, <1>3
    <2> QED BY <2>1, <2>2, <1>3
  <1>11. ASSUME NEW i \in 1..(n + 1)
         PROVE  /\ z[i] <= clock
                /\ i <= n + 1 - v.count + 1 => z[i] <= v.since
                /\ i <= n + 1 - v.count - (Limit - 1) => z[i] <= v.since - Window
    <2>1. CASE i \in 1..n BY <2>1, <1>5, <1>10
    <2>2. CASE i = n + 1
      <3>1. z[i] <= clock BY <2>2, <1>1
      <3>2. ~(i <= n + 1 - v.count - (Limit - 1)) BY <2>2, <1>1, <1>3, <1>9
      <3>3. ASSUME i <= n + 1 - v.count + 1 PROVE z[i] <= v.since
        <4>1. v.count = 1 BY <3>3, <2>2, <1>1, <1>9, <1>3
        <4>2. v.since = clock BY <4>1, <1>3, <1>4, <1>7
        <4> QED BY <4>2, <3>1
      <3> QED BY <3>1, <3>2, <3>3
    <2> QED BY <2>1, <2>2, <1>1
  <1>12. ASSUME NEW i \in 1..(n + 1), NEW j \in 1..(n + 1), j - i >= 2 * Limit - 1
         PROVE  z[j] - z[i] >= Window
    <2>0. i \in 1..n BY <1>12, <1>1, <1>3
    <2>1. CASE j \in 1..n BY <2>0, <2>1, <1>12, <1>6
    <2>2. CASE j = n + 1
      <3>1. i <= n + 1 - v.count - (Limit - 1)
        <4>1. i <= n + 2 - 2 * Limit BY <2>2, <1>12, <1>1, <1>3
        <4>2. v.count <= Limit BY <1>9, <1>3
        <4> QED BY <4>1, <4>2, <1>1, <1>3, <1>9
      <3>2. z[i] <= v.since - Window /\ z[i] \in Int BY <3>1, <2>0, <1>10, <1>5
      <3> QED BY <3>2, <2>2, <1>1, <1>3, <1>9
    <2> QED BY <2>1, <2>2, <1>1
  <1>13. v.count <= Limit /\ v.since <= clock /\ v.count # 0 BY <1>9, <1>3
  <1>14. Len(z) = n + 1 BY <1>1
  <1>15. \A i \in 1..Len(z) :
            /\ z[i] <= clock
            /\ i <= Len(z) - v.count + 1 => z[i] <= v.since
            /\ i <= Len(z) - v.count - (Limit - 1) => z[i] <= v.since - Window
    <2> TAKE i \in 1..Len(z)
    <2>1. i \in 1..(n + 1) BY <1>14
    <2>2. /\ z[i] <= clock
          /\ i <= n + 1 - v.count + 1 => z[i] <= v.since
          /\ i <= n + 1 - v.count - (Limit - 1) => z[i] <= v.since - Window
      BY <2>1, <1>11
    <2>3. v.count \in Int /\ Limit \in Int /\ n \in Int BY <1>1, <1>3, <1>9
    <2> HIDE DEF z
    <2> QED BY <2>2, <2>3, <1>14
  <1>16. \A i, j \in 1..Len(z) : j - i >= 2 * Limit - 1 => z[j] - z[i] >= Window
    BY ONLY <1>12, <1>14, Zenon
  <1> QED BY ONLY <1>13, <1>15, <1>16, Zenon DEF InBudget

LEMMA TakesInBudget ==
    ASSUME Paced, NEW p \in Processes, NEW k \in Keys, TakeKey(p, k) PROVE Paced'
  <1>1. PICK i \in Usable(p) :
           /\ k = KeysOf(p)[i]
           /\ usage' = [usage EXCEPT ![p][k] = Recorded(@)]
           /\ taken' = [taken EXCEPT ![p][k] = Append(@, clock)]
           /\ clock' = clock
    BY DEF TakeKey
  <1>2. clock - usage[p][k].since >= Window \/ usage[p][k].count < Limit
    BY <1>1 DEF Usable, KeyAvailable
  <1>3. InBudget(Recorded(usage[p][k]), Append(taken[p][k], clock))
    BY <1>2, OneMoreCall DEF Paced
  <1>4. usage'[p][k] = Recorded(usage[p][k]) /\ taken'[p][k] = Append(taken[p][k], clock)
    BY <1>1 DEF Paced
  <1>5. \A q \in Processes, l \in Keys : <<q, l>> # <<p, k>> =>
           usage'[q][l] = usage[q][l] /\ taken'[q][l] = taken[q][l]
    BY <1>1 DEF Paced
  <1>6. Recorded(usage[p][k]) \in [count : Nat, since : Int] BY DEF Paced, Recorded
  <1>7. Append(taken[p][k], clock) \in Seq(Int) BY DEF Paced
  <1>8. usage' \in [Processes -> [Keys -> [count : Nat, since : Int]]]
    BY <1>1, <1>6 DEF Paced
  <1>9. taken' \in [Processes -> [Keys -> Seq(Int)]] BY <1>1, <1>7 DEF Paced
  <1>10. ASSUME NEW q \in Processes, NEW l \in Keys
         PROVE  InBudget(usage[q][l], taken[q][l])'
    <2>0. usage'[q][l] = IF <<q, l>> = <<p, k>> THEN Recorded(usage[p][k]) ELSE usage[q][l]
      BY <1>4, <1>5
    <2>1. taken'[q][l] = IF <<q, l>> = <<p, k>> THEN Append(taken[p][k], clock) ELSE taken[q][l]
      BY <1>4, <1>5
    <2>2. InBudget(usage'[q][l], taken'[q][l]) BY <1>3, <2>0, <2>1 DEF Paced
    <2> QED BY <2>2, <1>1 DEF InBudget
  <1> QED BY <1>1, <1>8, <1>9, <1>10 DEF Paced

\* Time passes, or neither the calls nor the windows change.
LEMMA StaysInBudget ==
    ASSUME Paced, clock' = clock \/ clock' = clock + 1, UNCHANGED <<usage, taken>> PROVE Paced'
  <1>1. clock \in Int /\ clock' \in Int /\ clock <= clock' BY DEF Paced
  <1>2. ASSUME NEW p \in Processes, NEW k \in Keys
        PROVE  InBudget(usage[p][k], taken[p][k])'
    <2> DEFINE u == usage[p][k]
               s == taken[p][k]
    <2>1. InBudget(u, s) /\ u.since \in Int /\ Window \in Nat BY KeysAssumption DEF Paced
    <2>2. \A i \in 1..Len(s) : s[i] \in Int BY DEF Paced
    <2>3. \A i \in 1..Len(s) : s[i] <= clock' BY <1>1, <2>1, <2>2 DEF InBudget
    <2>4. u.since <= clock' /\ (u.count = 0 => clock' - u.since >= Window)
      BY <1>1, <2>1 DEF InBudget
    <2> QED BY <2>1, <2>3, <2>4 DEF InBudget
  <1> QED BY <1>1, <1>2 DEF Paced

LEMMA PacedKeyStep == Paced /\ [AkNext]_akVars => Paced'
  <1> SUFFICES ASSUME Paced, [AkNext]_akVars PROVE Paced' OBVIOUS
  <1>1. CASE UNCHANGED <<clock, usage, taken>> BY <1>1, StaysInBudget
  <1>2. ASSUME NEW p \in Processes, NEW k \in Keys, TakeKey(p, k) PROVE Paced'
    BY <1>2, TakesInBudget
  <1>3. CASE Tick BY <1>3, StaysInBudget DEF Tick
  <1>4. ASSUME NEW p \in Processes, NEW k \in Keys, MarkKeyRateLimited(p, k) PROVE Paced'
    BY <1>4, StaysInBudget DEF MarkKeyRateLimited
  <1>5. CASE PublishReload \/ UNCHANGED akVars
    BY <1>1, <1>5 DEF PublishReload, akVars, poolVars
  <1>6. ASSUME NEW p \in Processes,
               \/ UpdateProvider(p) \/ LoadApiKeys(p)
               \/ SubscriberFails(p) \/ SubscriberReturns(p)
        PROVE  Paced'
    BY <1>1, <1>6 DEF UpdateProvider, LoadApiKeys, SubscriberFails, SubscriberReturns, poolVars
  <1> QED BY <1>2, <1>3, <1>4, <1>5, <1>6 DEF AkNext

\* A request only takes keys, or rests one.

-----------------------------------------------------------------------------
(***************************************************************************)
(* EveryProviderHadItsChance for any processes, keys and routes: a provider *)
(* a request owes a call is still to be asked, being asked, or dealt with, *)
(* as long as the request goes on.                                         *)
(***************************************************************************)
Ops == Chained \union Extended \union {"news", "search", "context"}
Requests ==
    [at : {"open", "ended"}, by : Processes, op : Ops, market : Markets,
     left : Seq(Providers), inOrder : BOOLEAN,
     calls : SUBSET [provider : Providers, key : Keys \union {NoKey}], tries : Nat,
     answered : SUBSET Providers, excused : SUBSET Providers, raised : BOOLEAN,
     due : SUBSET Providers]

Asked(r) == ToSet(r.left) \union {c.provider : c \in r.calls}

\* A provider that is due has been dealt with or is still to be.
Covered(r) ==
    ~r.raised /\ (r.answered = {} \/ ~r.inOrder)
        => r.due \subseteq r.answered \union r.excused \union Asked(r)

Owed ==
    /\ router \in [Processes -> (SUBSET Providers) \union {NoRouter}]
    /\ req # NoRequest => req \in Requests /\ Covered(req)
    /\ req.at = "ended" => Asked(req) = {}

\* What a concatenation holds.
LEMMA ConcatSet ==
    ASSUME NEW S, NEW a \in Seq(S), NEW b \in Seq(S)
    PROVE  /\ a \o b \in Seq(S)
           /\ ToSet(a \o b) = ToSet(a) \union ToSet(b)
  <1>1. /\ a \o b \in Seq(S) /\ Len(a \o b) = Len(a) + Len(b)
        /\ Len(a) \in Nat /\ Len(b) \in Nat
        /\ DOMAIN a = 1..Len(a) /\ DOMAIN b = 1..Len(b) /\ DOMAIN (a \o b) = 1..Len(a \o b)
    OBVIOUS
  <1>2. \A j \in 1..Len(a) : (a \o b)[j] = a[j] OBVIOUS
  <1>3. \A j \in 1..Len(b) : (a \o b)[Len(a) + j] = b[j] OBVIOUS
  <1>4. ASSUME NEW x \in ToSet(a \o b) PROVE x \in ToSet(a) \union ToSet(b)
    <2>1. PICK j \in 1..(Len(a) + Len(b)) : x = (a \o b)[j] BY <1>1, <1>4 DEF ToSet
    <2>2. CASE j \in 1..Len(a) BY <2>1, <2>2, <1>1, <1>2 DEF ToSet
    <2>3. CASE j \notin 1..Len(a)
      <3>1. j - Len(a) \in 1..Len(b) /\ Len(a) + (j - Len(a)) = j BY <2>1, <2>3, <1>1
      <3>2. x = b[j - Len(a)] BY <3>1, <2>1, <1>3
      <3> QED BY <3>1, <3>2, <1>1 DEF ToSet
    <2> QED BY <2>2, <2>3
  <1>5. ASSUME NEW x \in ToSet(a) PROVE x \in ToSet(a \o b)
    <2>1. PICK j \in 1..Len(a) : x = a[j] BY <1>1, <1>5 DEF ToSet
    <2>2. j \in 1..Len(a \o b) BY <1>1
    <2> QED BY <2>1, <2>2, <1>1, <1>2 DEF ToSet
  <1>6. ASSUME NEW x \in ToSet(b) PROVE x \in ToSet(a \o b)
    <2>1. PICK j \in 1..Len(b) : x = b[j] BY <1>1, <1>6 DEF ToSet
    <2>2. Len(a) + j \in 1..Len(a \o b) BY <1>1
    <2> QED BY <2>1, <2>2, <1>1, <1>3 DEF ToSet
  <1> QED BY <1>1, <1>4, <1>5, <1>6

\* RemoveAt takes one element away and keeps the others.
LEMMA RemovedOne ==
    ASSUME NEW S, NEW s \in Seq(S), NEW i \in DOMAIN s
    PROVE  /\ RemoveAt(s, i) \in Seq(S)
           /\ ToSet(RemoveAt(s, i)) \subseteq ToSet(s)
           /\ ToSet(s) \subseteq ToSet(RemoveAt(s, i)) \union {s[i]}
  <1> DEFINE n == Len(s)
             a == SubSeq(s, 1, i - 1)
             b == SubSeq(s, i + 1, n)
  <1>1. n \in Nat /\ i \in 1..n /\ DOMAIN s = 1..n OBVIOUS
  <1>2. a \in Seq(S) /\ DOMAIN a = 1..(i - 1) /\ \A j \in 1..(i - 1) : a[j] = s[j] BY <1>1
  <1>3. b \in Seq(S) /\ DOMAIN b = 1..(n - i) /\ \A j \in 1..(n - i) : b[j] = s[i + j] BY <1>1
  <1>4. RemoveAt(s, i) \in Seq(S) /\ ToSet(RemoveAt(s, i)) = ToSet(a) \union ToSet(b)
    BY <1>2, <1>3, ConcatSet DEF RemoveAt
  <1> HIDE DEF a, b, n
  <1>5. ToSet(a) \subseteq ToSet(s)
    BY <1>1, <1>2 DEF ToSet
  <1>6. ToSet(b) \subseteq ToSet(s)
    <2> SUFFICES ASSUME NEW j \in 1..(n - i) PROVE b[j] \in ToSet(s) BY <1>3 DEF ToSet
    <2>1. i + j \in 1..n BY <1>1
    <2> QED BY <2>1, <1>1, <1>3 DEF ToSet
  <1>7. ASSUME NEW j \in 1..n, j # i PROVE s[j] \in ToSet(a) \union ToSet(b)
    <2>1. CASE j < i
      <3>1. j \in 1..(i - 1) BY <2>1, <1>1
      <3> QED BY <3>1, <1>2 DEF ToSet
    <2>2. CASE j > i
      <3>1. j - i \in 1..(n - i) /\ i + (j - i) = j BY <2>2, <1>1
      <3> QED BY <3>1, <1>3 DEF ToSet
    <2> QED BY <2>1, <2>2, <1>7, <1>1
  <1>8. ASSUME NEW x \in ToSet(s) PROVE x \in ToSet(a) \union ToSet(b) \union {s[i]}
    BY <1>1, <1>7, <1>8 DEF ToSet
  <1> QED BY <1>4, <1>5, <1>6, <1>8

\* A list of a set of providers is a sequence of them.
LEMMA ListOfProviders ==
    ASSUME NEW S \in SUBSET Providers PROVE SetToSeq(S) \in Seq(Providers)
  <1>1. IsFiniteSet(Providers)
    <2> DEFINE f == [i \in 1..6 |-> CASE i = 1 -> "yfinance" [] i = 2 -> "akshare"
                                      [] i = 3 -> "finnhub" [] i = 4 -> "tiingo"
                                      [] i = 5 -> "massive" [] i = 6 -> "tushare"]
    <2>1. f \in [1..6 -> Providers] BY DEF Providers
    <2>2. /\ f[1] = "yfinance" /\ f[2] = "akshare" /\ f[3] = "finnhub"
          /\ f[4] = "tiingo" /\ f[5] = "massive" /\ f[6] = "tushare"
      OBVIOUS
    <2> HIDE DEF f
    <2>3. \A p \in Providers : \E i \in 1..6 : f[i] = p BY <2>2 DEF Providers
    <2>4. f \in Surjection(1..6, Providers) BY <2>1, <2>3, Fun_IsSurj
    <2>5. ExistsSurjection(1..6, Providers) BY <2>4 DEF ExistsSurjection
    <2> QED BY <2>5, FS_NatSurjection
  <1>2. IsFiniteSet(S) BY <1>1, FS_Subset
  <1>3. Cardinality(S) \in Nat /\ Bijection(1..Cardinality(S), S) # {}
    BY <1>2, FS_CardinalityType DEF ExistsBijection
  <1>4. PICK f \in [1..Cardinality(S) -> S] : IsInjective(f)
    BY <1>3 DEF Bijection, Injection
  <1>5. SetToSeq(S) \in [1..Cardinality(S) -> S] BY <1>4 DEF SetToSeq
  <1> QED BY <1>3, <1>5

LEMMA RoutesAreLists ==
    ASSUME NEW m, NEW have PROVE Routing(m, have) \in Seq(Providers)
  <1> DEFINE Optional(p) == IF p \in have THEN <<p>> ELSE <<>>
  <1>1. \A p \in Providers : Optional(p) \in Seq(Providers) /\ <<p>> \in Seq(Providers) OBVIOUS
  <1>2. {"yfinance", "akshare", "finnhub", "tiingo", "massive", "tushare"} = Providers
    BY DEF Providers
  <1>3. \A a, b \in Seq(Providers) : a \o b \in Seq(Providers) OBVIOUS
  <1>4. <<"akshare", "yfinance">> \in Seq(Providers) BY <1>2
  <1>5. <<"yfinance">> \o Optional("massive") \o Optional("finnhub") \o Optional("tiingo")
           \in Seq(Providers)
    BY <1>1, <1>2, <1>3
  <1>6. <<"akshare">> \o Optional("tushare") \o <<"yfinance">> \in Seq(Providers)
    BY <1>1, <1>2, <1>3
  <1> QED BY <1>1, <1>2, <1>4, <1>5, <1>6 DEF Routing

LEMMA RoutersAreProviders ==
    ASSUME Owed, NEW p \in Processes
    PROVE  Available(p) \subseteq Providers /\ Router(p) \subseteq Providers
  BY EnvAssumption DEF Owed, Available, Router, Providers

\* A provider leaves the list, another stays on it.
LEMMA WithoutOne ==
    ASSUME NEW r \in Requests, req = r, NEW q
    PROVE  /\ Without(q) \in Seq(Providers)
           /\ ToSet(r.left) \subseteq ToSet(Without(q)) \union {q}
           /\ ToSet(Without(q)) \subseteq ToSet(r.left)
  <1>1. r.left \in Seq(Providers) BY DEF Requests
  <1>2. CASE q \in ToSet(r.left)
    <2> DEFINE i == CHOOSE i \in DOMAIN r.left : r.left[i] = q
    <2>1. i \in DOMAIN r.left /\ r.left[i] = q BY <1>2 DEF ToSet
    <2>2. Without(q) = RemoveAt(r.left, i) BY <1>2 DEF Without
    <2> HIDE DEF i
    <2> QED BY <1>1, <2>1, <2>2, RemovedOne
  <1>3. CASE q \notin ToSet(r.left) BY <1>1, <1>3 DEF Without
  <1> QED BY <1>2, <1>3

\* The router is built from what is available.
LEMMA OpensOwed ==
    ASSUME Owed, NEW p \in Processes, NEW o \in Ops, NEW m \in Markets,
           NEW left \in Seq(Providers), NEW inOrder \in BOOLEAN,
           Opens(p, Request(p, o, m, left, inOrder))
    PROVE  Owed'
  <1> DEFINE r == Request(p, o, m, left, inOrder)
  <1>1. router' \in [Processes -> (SUBSET Providers) \union {NoRouter}]
    BY RoutersAreProviders DEF Owed, Opens
  <1>2. req' = r BY DEF Opens
  <1>3. /\ r.due \subseteq ToSet(left) /\ r.left = left /\ r.at = "open"
        /\ r.calls = {} /\ r.raised = FALSE
    BY DEF Request
  <1>4. ToSet(left) \subseteq Providers BY DEF ToSet
  <1>5. r \in Requests
    <2> DEFINE D == r.due
    <2>1. D \subseteq Providers BY <1>3, <1>4
    <2>2. r = [at |-> "open", by |-> p, op |-> o, market |-> m, left |-> left,
               inOrder |-> inOrder, calls |-> {}, tries |-> 0, answered |-> {},
               excused |-> {}, raised |-> FALSE, due |-> D]
      BY DEF Request
    <2> HIDE DEF D, r
    <2> QED BY <2>1, <2>2 DEF Requests
  <1>6. Covered(r) BY <1>3 DEF Covered, Asked
  <1> HIDE DEF r
  <1> QED BY <1>1, <1>2, <1>3, <1>5, <1>6 DEF Owed

\* The request goes on with fewer to ask, and the router stays.
LEMMA GoesOnOwed ==
    ASSUME Owed, req.at = "open", UNCHANGED router, NEW r \in Requests, req' = r,
           r.at = "open", Covered(r)
    PROVE  Owed'
  BY DEF Owed, NoRequest

LEMMA OpenRequest == ASSUME Owed, req.at = "open" PROVE req \in Requests /\ Covered(req)
  BY DEF Owed, NoRequest

LEMMA NothingOwed ==
    ASSUME Owed, req.at = "open", UNCHANGED router, NEW q \in Providers, NothingFrom(q, {q})
    PROVE  Owed'
  <1> DEFINE r == [req EXCEPT !.left = Without(q), !.calls = {c \in @ : c.provider # q},
                              !.excused = @ \union {q}, !.tries = 0]
  <1>0. req \in Requests /\ Covered(req) BY OpenRequest
  <1>1. req' = r BY DEF NothingFrom
  <1>2. /\ Without(q) \in Seq(Providers)
        /\ ToSet(req.left) \subseteq ToSet(Without(q)) \union {q}
    BY <1>0, WithoutOne
  <1>3. r \in Requests BY <1>0, <1>2 DEF Requests
  <1>4. /\ r.left = Without(q) /\ r.calls = {c \in req.calls : c.provider # q}
        /\ r.excused = req.excused \union {q} /\ r.at = "open" /\ r.due = req.due
        /\ r.answered = req.answered /\ r.inOrder = req.inOrder /\ r.raised = req.raised
    BY <1>0 DEF Requests
  <1> HIDE DEF r
  <1>5. Covered(r) BY <1>0, <1>2, <1>4 DEF Covered, Asked
  <1> QED BY <1>1, <1>3, <1>4, <1>5, GoesOnOwed

LEMMA AnswerOwed ==
    ASSUME Owed, req.at = "open", UNCHANGED router, NEW q \in Providers, AnswerFrom(q)
    PROVE  Owed'
  <1> DEFINE rest == IF req.inOrder THEN <<>> ELSE Without(q)
             r == [req EXCEPT !.left = rest, !.calls = {c \in @ : c.provider # q},
                              !.answered = @ \union {q}, !.tries = 0]
  <1>0. req \in Requests /\ Covered(req) BY OpenRequest
  <1>1. req' = r BY DEF AnswerFrom
  <1>2. /\ rest \in Seq(Providers)
        /\ ~req.inOrder => ToSet(req.left) \subseteq ToSet(rest) \union {q}
    BY <1>0, WithoutOne
  <1> HIDE DEF rest
  <1>3. r \in Requests BY <1>0, <1>2 DEF Requests
  <1>4. /\ r.left = rest /\ r.calls = {c \in req.calls : c.provider # q}
        /\ r.excused = req.excused /\ r.at = "open" /\ r.due = req.due
        /\ r.answered = req.answered \union {q} /\ r.inOrder = req.inOrder
        /\ r.raised = req.raised
    BY <1>0 DEF Requests
  <1> HIDE DEF r
  <1>5. CASE req.inOrder BY <1>4, <1>5, <1>1, <1>3, GoesOnOwed DEF Covered
  <1>6. CASE ~req.inOrder
    <2>1. Covered(r) BY <1>0, <1>2, <1>4, <1>6 DEF Covered, Asked
    <2> QED BY <2>1, <1>1, <1>3, <1>4, GoesOnOwed
  <1> QED BY <1>5, <1>6

LEMMA SentOwed ==
    ASSUME Owed, req.at = "open", UNCHANGED router, NEW q \in Providers,
           NEW k \in Keys \union {NoKey}, Sent(q, k)
    PROVE  Owed'
  <1> DEFINE all == req.calls \union {[provider |-> q, key |-> k]}
             r == [req EXCEPT !.left = Without(q), !.calls = all]
  <1>0. req \in Requests /\ Covered(req) BY OpenRequest
  <1>1. req' = r BY <1>0 DEF Sent, Requests
  <1>2. /\ Without(q) \in Seq(Providers)
        /\ ToSet(req.left) \subseteq ToSet(Without(q)) \union {q}
    BY <1>0, WithoutOne
  <1>3. r \in Requests
    <2>1. all \subseteq [provider : Providers, key : Keys \union {NoKey}]
      BY <1>0 DEF Requests
    <2> HIDE DEF all
    <2> QED BY <1>0, <1>2, <2>1 DEF Requests
  <1>4. /\ r.left = Without(q) /\ r.calls = req.calls \union {[provider |-> q, key |-> k]}
        /\ r.excused = req.excused /\ r.at = "open" /\ r.due = req.due
        /\ r.answered = req.answered /\ r.inOrder = req.inOrder /\ r.raised = req.raised
    BY <1>0 DEF Requests
  <1> HIDE DEF r
  <1>5. Asked(req) \subseteq Asked(r)
    <2>1. \A c \in req.calls : c.provider \in Asked(r) BY <1>4 DEF Asked
    <2>2. q \in Asked(r)
      <3>1. [provider |-> q, key |-> k] \in r.calls BY <1>4
      <3> QED BY <3>1 DEF Asked
    <2> QED BY <2>1, <2>2, <1>2, <1>4 DEF Asked
  <1>6. Covered(r) BY <1>0, <1>4, <1>5 DEF Covered
  <1> QED BY <1>1, <1>3, <1>4, <1>6, GoesOnOwed

\* No key can be used where none was left.
LEMMA NoKeyOwed ==
    ASSUME Owed, req.at = "open", NEW q \in Providers, FindsNoKey(q)
    PROVE  Owed'
  <1>0. req \in Requests /\ Covered(req) BY OpenRequest
  <1>1. UNCHANGED router BY DEF FindsNoKey
  <1>2. \A k \in ToSet(KeysOf(req.by)) : ~KeyAvailable(req.by, k)
    BY DEF FindsNoKey, NoKeyLeft, Usable, ToSet
  <1>3. CASE req' = [req EXCEPT !.tries = @ + 1]
    <2> DEFINE r == [req EXCEPT !.tries = @ + 1]
    <2>1. r \in Requests BY <1>0 DEF Requests
    <2>2. Covered(r) /\ r.at = "open" BY <1>0 DEF Covered, Asked, Requests
    <2> QED BY <2>1, <2>2, <1>1, <1>3, GoesOnOwed
  <1>4. CASE req' # [req EXCEPT !.tries = @ + 1]
    <2>1. NothingFrom(q, {q}) BY <1>2, <1>4 DEF FindsNoKey
    <2> QED BY <2>1, <1>1, NothingOwed
  <1> QED BY <1>3, <1>4

LEMMA ReturnOwed ==
    ASSUME Owed, req.at = "open", NEW c \in req.calls, NEW o \in Outcomes, Returns(c, o)
    PROVE  Owed'
  <1>0. req \in Requests /\ Covered(req) BY OpenRequest
  <1>1. UNCHANGED router BY DEF Returns
  <1>2. c.provider \in Providers BY <1>0 DEF Requests
  <1>3. CASE req' = [req EXCEPT !.left = <<c.provider>> \o @, !.calls = @ \ {c}, !.tries = @ + 1]
    <2> DEFINE one == <<c.provider>>
               rest == one \o req.left
               others == req.calls \ {c}
               more == req.tries + 1
               r == [req EXCEPT !.left = rest, !.calls = others, !.tries = more]
    <2>0. req' = r BY <1>0, <1>3 DEF Requests
    <2>1. req.left \in Seq(Providers) /\ one \in Seq(Providers)
      BY <1>0, <1>2 DEF Requests
    <2>3. c.provider \in ToSet(one) BY DEF ToSet
    <2>a. others \subseteq [provider : Providers, key : Keys \union {NoKey}] /\ more \in Nat
      BY <1>0 DEF Requests
    <2>b. \A d \in req.calls : d # c => d \in others OBVIOUS
    <2> HIDE DEF one
    <2>2. rest \in Seq(Providers) /\ ToSet(rest) = ToSet(one) \union ToSet(req.left)
      BY <2>1, ConcatSet
    <2> HIDE DEF rest, others, more
    <2>4. r \in Requests BY <1>0, <2>2, <2>a DEF Requests
    <2>5. /\ r.left = rest /\ r.calls = others
          /\ r.excused = req.excused /\ r.at = "open" /\ r.due = req.due
          /\ r.answered = req.answered /\ r.inOrder = req.inOrder /\ r.raised = req.raised
      BY <1>0 DEF Requests
    <2> HIDE DEF r
    <2>6. Covered(r) BY <1>0, <2>2, <2>3, <2>5, <2>b DEF Covered, Asked
    <2> QED BY <2>0, <2>4, <2>5, <2>6, <1>1, GoesOnOwed
  <1>4. CASE AnswerFrom(c.provider) BY <1>1, <1>2, <1>4, AnswerOwed
  <1>5. CASE NothingFrom(c.provider, {c.provider}) BY <1>1, <1>2, <1>5, NothingOwed
  <1> QED BY <1>3, <1>4, <1>5 DEF Returns

LEMMA CancelledOwed ==
    ASSUME Owed, req.at = "open", NEW c \in req.calls, CallCancelled(c)
    PROVE  Owed'
  <1> DEFINE r == [req EXCEPT !.left = <<>>, !.calls = {}, !.raised = TRUE]
  <1>0. req \in Requests BY OpenRequest
  <1>a. <<>> \in Seq(Providers) OBVIOUS
  <1>b. {} \subseteq [provider : Providers, key : Keys \union {NoKey}] OBVIOUS
  <1>c. r \in Requests BY <1>0, <1>a, <1>b DEF Requests
  <1>1. r \in Requests /\ r.at = "open" /\ r.raised = TRUE BY <1>0, <1>c DEF Requests
  <1>2. req' = r /\ UNCHANGED router BY DEF CallCancelled
  <1> HIDE DEF r
  <1> QED BY <1>1, <1>2, GoesOnOwed DEF Covered

LEMMA EndsOwed == ASSUME Owed, RequestEnds \/ RequestForgotten PROVE Owed'
  <1>1. CASE RequestEnds
    <2> DEFINE r == [req EXCEPT !.at = "ended"]
    <2>0. req \in Requests /\ Covered(req) /\ req.left = <<>> /\ req.calls = {}
      BY <1>1, OpenRequest DEF RequestEnds
    <2>1. r \in Requests BY <2>0 DEF Requests
    <2>2. /\ r.left = <<>> /\ r.calls = {}
          /\ r.excused = req.excused /\ r.due = req.due
          /\ r.answered = req.answered /\ r.inOrder = req.inOrder /\ r.raised = req.raised
      BY <2>0 DEF Requests
    <2>3. req' = r /\ UNCHANGED router BY <1>1 DEF RequestEnds
    <2> HIDE DEF r
    <2>4. Covered(r) BY <2>0, <2>2 DEF Covered, Asked
    <2>5. Asked(r) = {} BY <2>2 DEF Asked, ToSet
    <2> QED BY <2>1, <2>3, <2>4, <2>5 DEF Owed
  <1>2. CASE RequestForgotten BY <1>2 DEF RequestForgotten, Owed, NoRequest
  <1> QED BY <1>1, <1>2

LEMMA AskingOwed == ASSUME Owed, Asking PROVE Owed'
  <1>1. CASE RequestEnds \/ RequestForgotten BY <1>1, EndsOwed
  <1>2. ASSUME NEW q \in Providers, req.at = "open",
               Declines(q) \/ Knows(q), UNCHANGED router
        PROVE  Owed'
    BY <1>2, NothingOwed, AnswerOwed DEF Declines, Knows
  <1>3. ASSUME NEW q \in Providers, req.at = "open", Calls(q) PROVE Owed'
    BY <1>3, SentOwed DEF Calls
  <1>4. ASSUME NEW c \in req.calls, req.at = "open",
               CallCancelled(c) \/ \E o \in Outcomes : Returns(c, o)
        PROVE  Owed'
    BY <1>4, ReturnOwed, CancelledOwed
  <1> QED BY <1>1, <1>2, <1>3, <1>4, NoKeyOwed DEF Asking

LEMMA RequestingOwed == ASSUME Owed, Requesting PROVE Owed'
  <1>1. ASSUME NEW p \in Processes, NEW m \in Markets, NEW o \in Chained, GetRouted(p, o, m)
        PROVE  Owed'
    <2>1. Routing(m, Router(p)) \in Seq(Providers) BY RoutesAreLists
    <2> QED BY <1>1, <2>1, OpensOwed DEF GetRouted, Ops
  <1>2. ASSUME NEW p \in Processes, NEW m \in Markets, GetNews(p, m) PROVE Owed'
    <2>1. NewsCandidates(p, m, Router(p)) \subseteq Providers
      BY RoutersAreProviders DEF NewsCandidates
    <2>2. SetToSeq(NewsCandidates(p, m, Router(p))) \in Seq(Providers)
      BY <2>1, ListOfProviders
    <2> QED BY <1>2, <2>2, OpensOwed DEF GetNews, Ops
  <1>3. ASSUME NEW p \in Processes, NEW m \in Markets, Search(p, m) PROVE Owed'
    <2>1. Searched(m) \subseteq Providers BY DEF Searched, Providers
    <2>2. SetToSeq(Searched(m)) \in Seq(Providers) BY <2>1, ListOfProviders
    <2> QED BY <1>3, <2>2, OpensOwed DEF Search, Ops
  <1>4. ASSUME NEW p \in Processes, GetMarketContext(p) PROVE Owed'
    <2>1. ContextParts \subseteq Providers BY DEF ContextParts, Providers
    <2>2. SetToSeq(ContextParts) \in Seq(Providers) BY <2>1, ListOfProviders
    <2> QED BY <1>4, <2>2, OpensOwed DEF GetMarketContext, Ops, Markets
  <1>5. ASSUME NEW p \in Processes, NEW o \in Extended, GetExtended(p, o) PROVE Owed'
    <2>1. PICK q \in Providers : Opens(p, Request(p, o, US, <<q>>, TRUE))
      BY <1>5 DEF GetExtended, OwnersOf
    <2>2. <<q>> \in Seq(Providers) /\ US \in Markets BY DEF Markets
    <2> QED BY <2>1, <2>2, OpensOwed DEF Ops
  <1> QED BY <1>1, <1>2, <1>3, <1>4, <1>5 DEF Requesting

LEMMA OwedInitially == SrInit => Owed
  BY DEF SrInit, Owed, NoRequest

LEMMA OwedStep == Owed /\ [SrNext]_routerVars => Owed'
  <1> SUFFICES ASSUME Owed, [SrNext]_routerVars PROVE Owed' OBVIOUS
  <1>1. CASE UNCHANGED <<router, req>> BY <1>1 DEF Owed, Covered, Asked
  <1>2. CASE Requesting BY <1>2, RequestingOwed
  <1>3. CASE Asking BY <1>3, AskingOwed
  <1>4. CASE StoredExpires \/ (AkNext /\ UNCHANGED srVars) \/ UNCHANGED routerVars
    BY <1>1, <1>4 DEF StoredExpires, srVars, routerVars
  <1>5. CASE ResetRouter
    BY <1>5 DEF ResetRouter, Owed, Covered, Asked
  <1> QED BY <1>2, <1>3, <1>4, <1>5 DEF SrNext

\* The types and the coverage of the providers hold in every reachable state.
THEOREM OwedAlways == SrSpec => []Owed
  <1> QED BY OwedInitially, OwedStep, PTL DEF SrSpec

\* A request that ends with nothing, and any fan-out, has asked every provider
\* that serves its market, or found that it could not.
THEOREM EveryProviderHadItsChanceHolds == SrSpec => []EveryProviderHadItsChance
  <1>1. Owed => EveryProviderHadItsChance
    <2> SUFFICES ASSUME Owed, req.at = "ended", ~req.raised, req.answered = {} \/ ~req.inOrder
                 PROVE  req.due \subseteq req.answered \union req.excused
      BY DEF EveryProviderHadItsChance
    <2> QED BY DEF Owed, Covered, NoRequest
  <1> QED BY <1>1, OwedAlways, PTL

\* A request only takes keys, or rests one.
LEMMA PacedRequest == ASSUME Owed, Paced, Asking PROVE Paced'
  <1>1. CASE UNCHANGED poolVars BY <1>1, StaysInBudget DEF poolVars
  <1>2. CASE RequestEnds \/ RequestForgotten
    BY <1>1, <1>2 DEF RequestEnds, RequestForgotten, akVars, poolVars
  <1>3. ASSUME NEW q \in Providers, req.at = "open",
               \/ (Declines(q) \/ Knows(q)) /\ UNCHANGED akVars
               \/ Calls(q) \/ FindsNoKey(q)
        PROVE  Paced'
    <2>1. req.by \in Processes BY <1>3, OpenRequest DEF Requests
    <2>2. ASSUME NEW k \in Keys, TakeKey(req.by, k) PROVE Paced' BY <2>1, <2>2, TakesInBudget
    <2> QED BY <1>1, <1>3, <2>2 DEF Calls, FindsNoKey, NoKeyLeft, akVars, poolVars
  <1>4. ASSUME NEW c \in req.calls, CallCancelled(c) \/ \E o \in Outcomes : Returns(c, o)
        PROVE  Paced'
    BY <1>1, <1>4, StaysInBudget
    DEF CallCancelled, Returns, MarkKeyRateLimited, akVars, poolVars
  <1> QED BY <1>2, <1>3, <1>4 DEF Asking

LEMMA PacedStep == Owed /\ Paced /\ [SrNext]_routerVars => Paced'
  <1> SUFFICES ASSUME Owed, Paced, [SrNext]_routerVars PROVE Paced' OBVIOUS
  <1>1. CASE UNCHANGED akVars BY <1>1, PacedKeyStep
  <1>2. CASE Requesting
    BY <1>1, <1>2 DEF Requesting, GetRouted, GetNews, Search, GetMarketContext, GetExtended, Opens
  <1>3. CASE Asking BY <1>3, PacedRequest
  <1>4. CASE StoredExpires \/ UNCHANGED routerVars
    BY <1>1, <1>4 DEF StoredExpires, routerVars
  <1>5. CASE ResetRouter BY <1>5, StaysInBudget DEF ResetRouter, poolVars
  <1>6. CASE AkNext BY <1>6, PacedKeyStep
  <1> QED BY <1>2, <1>3, <1>4, <1>5, <1>6 DEF SrNext

LEMMA PacedKeepsBudget == Paced => KeyBudget
  <1> SUFFICES ASSUME Paced, NEW p \in Processes, NEW k \in Keys
               PROVE  \A i, j \in DOMAIN taken[p][k] :
                         j - i >= 2 * Limit - 1 => taken[p][k][j] - taken[p][k][i] >= Window
    BY DEF KeyBudget
  <1>1. DOMAIN taken[p][k] = 1..Len(taken[p][k]) BY DEF Paced
  <1>2. InBudget(usage[p][k], taken[p][k]) BY DEF Paced
  <1> QED BY <1>1, <1>2 DEF InBudget

\* A process makes at most two windows' calls but one with a key in the length
\* of a window: of the keys alone, and with the requests that take them.
THEOREM KeyBudgetAlone == AkSpec => []KeyBudget
  <1>1. Paced => KeyBudget BY PacedKeepsBudget
  <1>2. AkSpec => []Paced BY PacedInitially, PacedKeyStep, PTL DEF AkSpec
  <1> QED BY <1>1, <1>2, PTL

THEOREM KeyBudgetHolds == SrSpec => []KeyBudget
  <1>1. Paced => KeyBudget BY PacedKeepsBudget
  <1>2. SrInit => Paced BY PacedInitially DEF SrInit
  <1>3. SrSpec => []Paced BY <1>2, PacedStep, OwedAlways, PTL DEF SrSpec
  <1> QED BY <1>1, <1>3, PTL

-----------------------------------------------------------------------------
(* Batches of rows *)

Fates == {"store", "add", "skip", "raise"}
Cells == News \union {Null, Absent, Old}

\* How an upsert writes is known: a unit has records, a record has a fate.
Described(o) == o.unit \in Nat \ {0} /\ \A m \in Unkeyed : o.fate[m] \in Fates

LEMMA UpsertsAreDescribed == \A o \in Upserts : Described(o)
  <1>1. ASSUME NEW c, NEW u \in Nat \ {0}, NEW f, NEW m \in Fates, NEW n \in Fates
        PROVE  Described(Writes(c, u, f, m, n))
    BY DEF Writes, Described, Unkeyed, Fates, Missing, Malformed, Partial
  <1>2. ASSUME NEW c, NEW m \in Fates, NEW n \in Fates PROVE Described(Each(c, m, n))
    BY <1>1 DEF Each
  <1>3. ASSUME NEW n \in Fates PROVE Described(Together(n))
    BY <1>1, UpsertAssumption DEF Together, Fates
  <1>4. ASSUME NEW c, NEW f, NEW m \in Fates PROVE Described(Chunks(c, f, m))
    BY <1>1, UpsertAssumption DEF Chunks
  <1>5. ASSUME NEW c, NEW m \in Fates, NEW n \in Fates PROVE Described(Adding(Each(c, m, n)))
    <2> DEFINE w == Each(c, m, n)
    <2>1. w.unit = 1 /\ w.fate \in [Unkeyed -> Fates]
      BY DEF Each, Writes, Unkeyed, Fates, Missing, Malformed, Partial
    <2>2. Adding(w).unit = w.unit /\ Adding(w).fate = [w.fate EXCEPT ![Partial] = "add"]
      BY DEF Adding, Each, Writes
    <2> QED BY <2>1, <2>2 DEF Described, Fates
  <1> QED
    BY <1>2, <1>3, <1>4, <1>5
    DEF Upserts, Fates, UpsertValuation, UpsertInsiderSentiment, UpsertInsiderTransactions,
        UpsertEarningsSurprises, UpsertRecommendationTrends, UpsertUpgradesDowngrades,
        UpsertSecFinancials, UpsertEarningsCalendar, UpsertOptionsSentiment,
        UpsertShortInterest, UpsertEconomicIndicators, UpsertMacroDaily,
        UpsertCnAlternative, UpsertFundamental, UpsertAnalystRating, UpsertNorthbound,
        UpsertInstitutionalHolders, UpsertFundHolding, UpsertBars, SaveStockList,
        SaveProfilesToDb

\* A row of which no record says anything is as it was, or new without a value.
Kept(t) ==
    \A k \in RowKeys : (\A i \in DOMAIN batch : ~Says(i, k)) =>
      \/ t[k] = before[k]
      \/ before[k] = Absent /\ t[k] = Null /\ \E i \in DOMAIN batch : IsFor(i, k)

\* The first n records are written: the last of them to say something of a row
\* was heard, and there is a row for each of them.
Told(t, n) ==
    \A k \in RowKeys, i \in 1..n :
      /\ Says(i, k) /\ (\A j \in 1..n : j > i => ~Says(j, k)) => t[k] = batch[i].value
      /\ IsFor(i, k) /\ (\A j \in DOMAIN batch : ~Says(j, k)) => t[k] # Absent

RowTypes ==
    /\ Described(op) /\ batch \in Seq(Records) /\ before \in [RowKeys -> Cells]
    /\ table \in [RowKeys -> Cells] /\ added \in Nat
    /\ tx \in [rows : [RowKeys -> Cells], added : Nat]
    /\ next \in Nat \ {0}
    /\ try \in [at : {"idle", "writing", "done", "failed"}, left : Nat, whole : BOOLEAN]

RowsInv ==
    /\ RowTypes /\ Kept(table) /\ Kept(tx.rows)
    /\ try.at = "writing" /\ try.whole =>
         /\ next <= Len(batch) + 1 /\ Told(tx.rows, next - 1)
         /\ next = Len(batch) + 1 => table = tx.rows
    /\ try.at = "done" => Told(table, Len(batch))

LEMMA RowsInitially == UpInit => RowsInv
  <1> SUFFICES ASSUME UpInit PROVE RowsInv OBVIOUS
  <1>1. Described(op) BY UpsertsAreDescribed DEF UpInit
  <1>2. batch \in Seq(Records) BY DEF UpInit
  <1>3. before \in [RowKeys -> Cells] BY DEF UpInit, Cells
  <1>4. /\ table = before /\ added = 0 /\ tx = [rows |-> before, added |-> 0] /\ next = 1
        /\ try = [at |-> "idle", left |-> MaxTries, whole |-> TRUE] /\ MaxTries \in Nat
    BY UpsertAssumption DEF UpInit
  <1>5. RowTypes BY <1>1, <1>2, <1>3, <1>4 DEF RowTypes
  <1> QED BY <1>4, <1>5 DEF RowsInv, Kept

LEMMA RecordType ==
    ASSUME RowTypes, NEW i \in DOMAIN batch
    PROVE  /\ batch[i].key \in RowKeys /\ batch[i].value \in News \union {Null}
           /\ Fate(batch[i]) \in Fates /\ batch[i].value # Absent
  <1>1. batch[i] \in Records BY DEF RowTypes
  <1>2. batch[i].key \in RowKeys /\ batch[i].value \in News \union {Null}
    BY <1>1 DEF Records, RowKeys
  <1>3. batch[i].value # Absent BY <1>2, UpsertAssumption DEF Null, Absent
  <1> QED BY <1>2, <1>3 DEF Fate, Fates, RowTypes, Described, RowKeys

\* One more record is written.
LEMMA RecordTold ==
    ASSUME RowTypes, next \in DOMAIN batch, Fate(batch[next]) # "raise", Kept(tx.rows)
    PROVE  LET t == AfterRecord(batch[next])
           IN /\ t \in [rows : [RowKeys -> Cells], added : Nat] /\ Kept(t.rows)
              /\ Told(tx.rows, next - 1) => Told(t.rows, next)
  <1> DEFINE r == batch[next]
             t == AfterRecord(r)
             old == tx.rows
             new == t.rows
  <1>0. /\ r.key \in RowKeys /\ r.value \in News \union {Null} /\ Fate(r) \in Fates
        /\ next \in Nat /\ old \in [RowKeys -> Cells]
    BY RecordType DEF RowTypes
  <1>1. CASE Fate(r) # "store"
    <2>1. t \in [rows : [RowKeys -> Cells], added : Nat] /\ new = old
      <3>1. CASE Fate(r) = "add" BY <1>1, <3>1 DEF AfterRecord, RowTypes
      <3>2. CASE Fate(r) = "skip" BY <1>1, <3>2 DEF AfterRecord, RowTypes
      <3> QED BY <1>0, <1>1, <3>1, <3>2 DEF Fates
    <2> HIDE DEF t
    <2>2. \A k : ~IsFor(next, k) /\ ~Says(next, k) BY <1>1 DEF IsFor, Says
    <2>3. ASSUME Told(old, next - 1) PROVE Told(new, next)
      <3>1. \A i \in 1..next : i = next \/ i \in 1..(next - 1) BY <1>0
      <3>2. \A j \in 1..(next - 1) : j \in 1..next BY <1>0
      <3> QED BY <2>1, <2>2, <2>3, <3>1, <3>2 DEF Told
    <2> QED BY <2>1, <2>3 DEF t
  <1>2. CASE Fate(r) = "store"
    <2> DEFINE v == OnConflict(old[r.key], r.value)
    <2>1. t = [tx EXCEPT !.rows = [old EXCEPT ![r.key] = v]] BY <1>2 DEF AfterRecord, RowTypes
    <2>2. v \in Cells BY <1>0 DEF OnConflict, Cells
    <2>3. \A k : IsFor(next, k) <=> k = r.key BY <1>2 DEF IsFor
    <2>4. Says(next, r.key) => v = r.value BY DEF Says, OnConflict
    <2>5. ~Says(next, r.key) => v = IF old[r.key] = Absent THEN Null ELSE old[r.key]
      BY <1>2, <2>3 DEF Says, OnConflict
    <2> HIDE DEF v
    <2> DEFINE changed == [old EXCEPT ![r.key] = v]
    <2>a. changed \in [RowKeys -> Cells] BY <2>2, <1>0
    <2>b. tx \in [rows : [RowKeys -> Cells], added : Nat] BY DEF RowTypes
    <2> HIDE DEF t, changed
    <2>c. t \in [rows : [RowKeys -> Cells], added : Nat] /\ new = changed
      BY <2>1, <2>a, <2>b DEF changed
    <2>6. t \in [rows : [RowKeys -> Cells], added : Nat] /\ new = [old EXCEPT ![r.key] = v]
      BY <2>c DEF changed
    <2>7. new[r.key] = v /\ \A k \in RowKeys : k # r.key => new[k] = old[k] BY <2>6, <1>0
    <2> HIDE DEF r, old
    <2>8. Kept(new)
      <3> SUFFICES ASSUME NEW k \in RowKeys, \A i \in DOMAIN batch : ~Says(i, k)
                   PROVE  \/ new[k] = before[k]
                          \/ /\ before[k] = Absent /\ new[k] = Null
                             /\ \E i \in DOMAIN batch : IsFor(i, k)
        BY DEF Kept
      <3>1. \/ old[k] = before[k]
            \/ /\ before[k] = Absent /\ old[k] = Null
               /\ \E i \in DOMAIN batch : IsFor(i, k)
        BY DEF Kept, old
      <3>2. CASE k # r.key BY <2>7, <3>1, <3>2
      <3>3. CASE k = r.key
        BY <2>3, <2>5, <2>7, <3>1, <3>3 DEF Null, Absent
      <3> QED BY <3>2, <3>3
    <2>9. ASSUME Told(old, next - 1) PROVE Told(new, next)
      <3> SUFFICES ASSUME NEW k \in RowKeys, NEW i \in 1..next
                   PROVE  /\ Says(i, k) /\ (\A j \in 1..next : j > i => ~Says(j, k))
                               => new[k] = batch[i].value
                          /\ IsFor(i, k) /\ (\A j \in DOMAIN batch : ~Says(j, k))
                               => new[k] # Absent
        BY DEF Told
      <3>1. CASE k # r.key
        <4>1. ~IsFor(next, k) /\ ~Says(next, k) BY <2>3, <3>1 DEF Says
        <4>2. i = next \/ i \in 1..(next - 1) BY <1>0
        <4>3. \A j \in 1..(next - 1) : j \in 1..next BY <1>0
        <4> QED BY <2>7, <2>9, <3>1, <4>1, <4>2, <4>3 DEF Told
      <3>2. CASE k = r.key /\ Says(next, r.key)
        <4>1. i = next \/ next > i BY <1>0
        <4>2. next \in 1..next /\ next \in DOMAIN batch BY <1>0
        <4> QED BY <2>4, <2>7, <3>2, <4>1, <4>2 DEF r
      <3>3. CASE k = r.key /\ ~Says(next, r.key)
        <4>1. new[k] = IF old[k] = Absent THEN Null ELSE old[k] BY <2>5, <2>7, <3>3
        <4>2. new[k] # Absent BY <4>1 DEF Null, Absent
        <4>3. ASSUME Says(i, k), \A j \in 1..next : j > i => ~Says(j, k)
              PROVE  new[k] = batch[i].value
          <5>1. i \in 1..(next - 1) BY <1>0, <3>3, <4>3
          <5>2. \A j \in 1..(next - 1) : j > i => ~Says(j, k) BY <1>0, <4>3
          <5>3. old[k] = batch[i].value BY <2>9, <4>3, <5>1, <5>2 DEF Told
          <5>4. i \in DOMAIN batch BY <5>1, <1>0 DEF RowTypes
          <5> QED BY <4>1, <5>3, <5>4, RecordType
        <4> QED BY <4>2, <4>3
      <3> QED BY <3>1, <3>2, <3>3
    <2> QED BY <2>6, <2>8, <2>9 DEF r, old, t
  <1> QED BY <1>1, <1>2

\* The invariant after a step, said without primes inside its parts.
LEMMA RowsKept ==
    ASSUME UNCHANGED <<op, batch, before>>, RowTypes', Kept(table'), Kept(tx'.rows),
           try'.at = "writing" /\ try'.whole =>
             /\ next' <= Len(batch) + 1 /\ Told(tx'.rows, next' - 1)
             /\ next' = Len(batch) + 1 => table' = tx'.rows,
           try'.at = "done" => Told(table', Len(batch))
    PROVE  RowsInv'
  <1>1. Kept(table)' /\ Kept(tx.rows)' BY DEF Kept, Says, IsFor, Fate
  <1>2. Told(tx'.rows, next' - 1) => Told(tx.rows, next - 1)' BY DEF Told, Says, IsFor, Fate
  <1>3. Told(table', Len(batch)) => Told(table, Len(batch))'
    BY DEF Told, Says, IsFor, Fate
  <1> QED BY <1>1, <1>2, <1>3 DEF RowsInv

LEMMA RowsStep == RowsInv /\ [UpNext]_upVars => RowsInv'
  <1> SUFFICES ASSUME RowsInv, [UpNext]_upVars PROVE RowsInv' OBVIOUS
  <1>0. /\ RowTypes /\ Kept(table) /\ Kept(tx.rows)
        /\ Len(batch) \in Nat /\ DOMAIN batch = 1..Len(batch)
    BY DEF RowsInv, RowTypes
  <1>1. CASE TryStarts
    <2>1. /\ UNCHANGED <<op, before, table, added, batch>> /\ next' = 1
          /\ tx' = [rows |-> table, added |-> added]
          /\ try' = [at |-> "writing", left |-> try.left - 1, whole |-> TRUE]
          /\ try.left > 0
      BY <1>1 DEF TryStarts
    <2>2. RowTypes' BY <1>0, <2>1 DEF RowTypes, Described
    <2>3. Told(tx'.rows, next' - 1) BY <2>1 DEF Told
    <2> QED BY <1>0, <2>1, <2>2, <2>3, RowsKept
  <1>2. CASE RecordWritten
    <2> DEFINE t == AfterRecord(batch[next])
    <2>0. next \in Nat \ {0} BY <1>0 DEF RowTypes
    <2>e. next <= Len(batch) /\ Fate(batch[next]) # "raise" BY <1>2, Zenon DEF RecordWritten
    <2>1. next \in DOMAIN batch /\ next \in Nat /\ Fate(batch[next]) # "raise"
      BY <1>0, <2>0, <2>e
    <2>2. /\ t \in [rows : [RowKeys -> Cells], added : Nat] /\ Kept(t.rows)
          /\ Told(tx.rows, next - 1) => Told(t.rows, next)
      BY <1>0, <2>1, RecordTold
    <2>3. /\ UNCHANGED <<op, before, batch, try>> /\ next' = next + 1 /\ tx' = t
          /\ \/ table' = t.rows /\ added' = t.added
             \/ UNCHANGED <<table, added>> /\ next # Len(batch)
          /\ try.at = "writing"
      BY <1>2 DEF RecordWritten
    <2> HIDE DEF t
    <2>a. t.rows \in [RowKeys -> Cells] /\ t.added \in Nat BY <2>2
    <2>b. table' \in [RowKeys -> Cells] /\ added' \in Nat BY <1>0, <2>3, <2>a DEF RowTypes
    <2>c. next' \in Nat \ {0} /\ tx' \in [rows : [RowKeys -> Cells], added : Nat]
      BY <2>1, <2>2, <2>3
    <2>d. Described(op)' BY <1>0, <2>3 DEF RowTypes, Described
    <2>4. RowTypes' BY <1>0, <2>3, <2>b, <2>c, <2>d DEF RowTypes
    <2>5. Kept(table') BY <1>0, <2>2, <2>3
    <2>6. next' <= Len(batch) + 1 /\ (next' = Len(batch) + 1 => table' = tx'.rows)
      BY <1>0, <2>1, <2>3
    <2>7. try.whole => Told(tx'.rows, next' - 1)
      <3>1. next' - 1 = next BY <2>1, <2>3
      <3> QED BY <2>2, <2>3, <3>1 DEF RowsInv
    <2> QED BY <2>2, <2>3, <2>4, <2>5, <2>6, <2>7, RowsKept
  <1>3. CASE UnitFails
    <2>1. /\ UNCHANGED <<op, before, table, added, batch>>
          /\ tx' = [rows |-> table, added |-> added]
          /\ \/ /\ next' = ((next - 1) \div op.unit + 1) * op.unit + 1
                /\ try' = [try EXCEPT !.whole = FALSE]
             \/ UNCHANGED next /\ try' = [try EXCEPT !.at = "failed"]
      BY <1>3 DEF UnitFails
    <2>2. next' \in Nat \ {0}
      <3>1. op.unit \in Nat \ {0} /\ next \in Nat \ {0} BY <1>0 DEF RowTypes, Described
      <3>2. (next - 1) \div op.unit \in Nat BY <3>1
      <3>3. ((next - 1) \div op.unit + 1) * op.unit \in Nat BY <3>1, <3>2
      <3> QED BY <2>1, <3>1, <3>3
    <2>3. /\ try' \in [at : {"idle", "writing", "done", "failed"}, left : Nat, whole : BOOLEAN]
          /\ ~(try'.at = "writing" /\ try'.whole) /\ try'.at # "done"
      BY <1>0, <1>3, <2>1 DEF RowTypes, UnitFails
    <2>4. RowTypes' BY <1>0, <2>1, <2>2, <2>3 DEF RowTypes, Described
    <2> QED BY <1>0, <2>1, <2>3, <2>4, RowsKept
  <1>4. CASE TryEnds
    <2>1. /\ UNCHANGED <<op, before, table, added, tx, batch, next>>
          /\ try' = [try EXCEPT !.at = IF try.whole THEN "done" ELSE "failed"]
          /\ try.at = "writing" /\ next > Len(batch)
      BY <1>4 DEF TryEnds
    <2>2. RowTypes' /\ try'.at # "writing" /\ (try'.at = "done" => try.whole)
      BY <1>0, <2>1 DEF RowTypes, Described
    <2>3. try.whole => next - 1 = Len(batch) BY <1>0, <2>1 DEF RowsInv, RowTypes
    <2>4. try.whole => Told(table, Len(batch))
      <3>1. try.whole => next = Len(batch) + 1 BY <1>0, <2>3 DEF RowTypes
      <3> QED BY <2>1, <2>3, <3>1 DEF RowsInv
    <2> QED BY <1>0, <2>1, <2>2, <2>4, RowsKept
  <1>5. CASE UNCHANGED upVars
    <2>1. UNCHANGED <<op, before, table, added, tx, batch, next, try>> BY <1>5 DEF upVars
    <2>2. RowTypes' BY <1>0, <2>1 DEF RowTypes, Described
    <2> QED BY <1>0, <2>1, <2>2, RowsKept DEF RowsInv
  <1> QED BY <1>1, <1>2, <1>3, <1>4, <1>5 DEF UpNext

\* Whatever failed in the middle and was run again, for any batch and table: a
\* try that writes its whole batch leaves the rows that have a whole key as one
\* try on the first table would.  Rows without a part of it are not counted.
THEOREM RetryConvergesHolds == UpSpec => []RetryConverges
  <1>1. RowsInv => RetryConverges
    <2> SUFFICES ASSUME RowsInv, try.at = "done", NEW k \in RowKeys
                 PROVE  /\ \A i \in DOMAIN batch : LastWord(i, k) => table[k] = batch[i].value
                        /\ (\A i \in DOMAIN batch : ~Says(i, k)) =>
                             table[k] = IF /\ before[k] = Absent
                                           /\ \E i \in DOMAIN batch : IsFor(i, k)
                                        THEN Null ELSE before[k]
      BY DEF RetryConverges
    <2>1. Kept(table) /\ Told(table, Len(batch)) BY DEF RowsInv
    <2>2. DOMAIN batch = 1..Len(batch) BY DEF RowsInv, RowTypes
    <2>3. ASSUME NEW i \in DOMAIN batch, LastWord(i, k) PROVE table[k] = batch[i].value
      BY <2>1, <2>2, <2>3 DEF Told, LastWord
    <2>4. ASSUME \A i \in DOMAIN batch : ~Says(i, k)
          PROVE  table[k] = IF before[k] = Absent /\ \E i \in DOMAIN batch : IsFor(i, k)
                            THEN Null ELSE before[k]
      <3>1. \/ table[k] = before[k]
            \/ /\ before[k] = Absent /\ table[k] = Null
               /\ \E i \in DOMAIN batch : IsFor(i, k)
        BY <2>1, <2>4 DEF Kept
      <3>2. (\E i \in DOMAIN batch : IsFor(i, k)) => table[k] # Absent
        BY <2>1, <2>2, <2>4 DEF Told
      <3> QED BY <3>1, <3>2
    <2> QED BY <2>3, <2>4
  <1>2. UpSpec => []RowsInv BY RowsInitially, RowsStep, PTL DEF UpSpec
  <1> QED BY <1>1, <1>2, PTL
=============================================================================
