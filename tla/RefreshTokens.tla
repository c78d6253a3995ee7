--------------------------- MODULE RefreshTokens ---------------------------
(***************************************************************************)
(* The tokens of a signed-in user (frontend/src/api/client.ts, api/auth.py *)
(* and core/auth.py).  The tabs of a browser share one access and one      *)
(* refresh token in local storage; a call that is answered 401 has its tab *)
(* exchange the refresh token, which the server accepts once, and is sent  *)
(* again; calls of one tab share the exchange.  A failed exchange forgets  *)
(* the tokens and goes to the login page.                                  *)
(***************************************************************************)
EXTENDS Integers, FiniteSets

CONSTANTS Tabs,
          ApiCalls,   \* the calls made: pairs of a tab and a name
          MaxTokens,  \* bound on the pairs of tokens issued
          MaxFaults   \* bound on failing servers, disabled users and closed pages

ASSUME TokensAssumption ==
    /\ {MaxTokens, MaxFaults} \subseteq Nat
    /\ \A c \in ApiCalls : c[1] \in Tabs
    /\ "logout" \notin Tabs

None == 0             \* no token; the others are numbered as they are issued

VARIABLES store,    \* local storage: the tokens' numbers
          issued, faults,
          fresh,    \* access tokens that have not expired
          claims,   \* the denylist in Redis: token and who claimed it
          call,     \* per call: step and the access token sent
          posts,    \* POST /auth/refresh under way, one per refreshPromise
          leaving,  \* tabs that wait for their logout's answer
          lost      \* history: refresh tokens sent by a page that is gone

rtVars == <<store, issued, faults, fresh, claims, call, posts, leaving, lost>>

IdleCall == [at |-> "idle", token |-> None]
Tab(c) == c[1]
Claimed(n) == \E c \in claims : c.token = n
PostsOf(t) == {p \in posts : Tab(p.by) = t}

RtInit ==
    /\ store = [access |-> 1, refresh |-> 1] /\ issued = 1 /\ faults = 0 /\ fresh = {1}
    /\ claims = {} /\ posts = {} /\ leaving = {} /\ lost = {}
    /\ call = [c \in ApiCalls |-> IdleCall]

\* _issue_tokens(): number n.
Issues(n) == n <= MaxTokens /\ issued' = n /\ fresh' = fresh \union {n}
SetTokens(n) == store' = [access |-> n, refresh |-> n]
\* clearTokens() and the way to the login page.
ClearTokens == store' = [access |-> None, refresh |-> None]
Fault == faults < MaxFaults /\ faults' = faults + 1
Waiters(t) == {c \in ApiCalls : Tab(c) = t /\ call[c].at = "waiting"}
\* What the calls that share an exchange do when it is over.
Settle(t, r) == [c \in ApiCalls |-> IF c \in Waiters(t) THEN r ELSE call[c]]

-----------------------------------------------------------------------------
(* Calls *)

\* The request interceptor sends the token that is stored now.
SendCall(c) ==
    /\ call[c].at = "idle" /\ store.access # None
    /\ call' = [call EXCEPT ![c] = [at |-> "sent", token |-> store.access]]
    /\ UNCHANGED <<store, issued, faults, fresh, claims, posts, leaving, lost>>

\* An answer that needs no exchange: success, or 401 for a call sent twice.
CallAnswered(c) ==
    /\ \/ call[c].at \in {"sent", "again"} /\ call[c].token \in fresh
       \/ call[c].at = "again" /\ call[c].token \notin fresh
    /\ call' = [call EXCEPT ![c] = IdleCall]
    /\ UNCHANGED <<store, issued, faults, fresh, claims, posts, leaving, lost>>

\* 401: refreshAccessToken() joins the tab's exchange or starts one.
Wait(c) == call' = [call EXCEPT ![c] = [at |-> "waiting", token |-> None]]
Starts(c) == /\ posts' = posts \union {[by |-> c, token |-> store.refresh, at |-> "sent",
                                          new |-> None]}
                /\ Wait(c) /\ UNCHANGED store

\* Mutant: every 401 starts an exchange of its own.
EachItsOwn(c) == IF store.refresh = None
                    THEN UNCHANGED posts /\ ClearTokens /\ call' = [call EXCEPT ![c] = IdleCall]
                    ELSE Starts(c)

RefreshAccessToken(c) ==
    CASE PostsOf(Tab(c)) # {} -> Wait(c) /\ UNCHANGED <<posts, store>>
      [] PostsOf(Tab(c)) = {} /\ store.refresh # None -> Starts(c)
      [] OTHER -> UNCHANGED posts /\ ClearTokens /\ call' = [call EXCEPT ![c] = IdleCall]

Unauthorized(c) ==
    /\ call[c].at = "sent" /\ call[c].token \notin fresh
    /\ RefreshAccessToken(c)
    /\ UNCHANGED <<issued, faults, fresh, claims, leaving, lost>>

-----------------------------------------------------------------------------
(* The server *)

\* refresh() claims the token with SET NX and then looks the user up.
Refresh(p) ==
    /\ p.at = "sent"
    /\ \/ /\ Claimed(p.token) /\ UNCHANGED <<claims, issued, fresh, faults>>
          /\ posts' = (posts \ {p}) \union {[p EXCEPT !.at = "refused"]}
       \/ /\ ~Claimed(p.token) /\ claims' = claims \union {[token |-> p.token, by |-> Tab(p.by)]}
          /\ \/ /\ Issues(issued + 1) /\ UNCHANGED faults
                /\ posts' = (posts \ {p}) \union {[by |-> p.by, token |-> p.token, at |-> "granted",
                                                 new |-> issued + 1]}
             \/ /\ Fault /\ UNCHANGED <<issued, fresh>>     \* the user is disabled
                /\ posts' = (posts \ {p}) \union {[p EXCEPT !.at = "failed"]}
    /\ UNCHANGED <<store, call, leaving, lost>>

\* Redis does not answer: 503, and nothing is claimed.
RefreshUnavailable(p) ==
    /\ p.at = "sent" /\ Fault
    /\ posts' = (posts \ {p}) \union {[p EXCEPT !.at = "failed"]}
    /\ UNCHANGED <<store, issued, fresh, claims, call, leaving, lost>>

\* The answer reaches its page: the tokens are stored, the promise is dropped
\* and its calls go on, all in one turn of the page's event loop.
Refreshed(p) ==
    /\ p.at = "granted"
    /\ posts' = posts \ {p} /\ SetTokens(p.new)
    /\ call' = Settle(Tab(p.by), [at |-> "again", token |-> p.new])
    /\ UNCHANGED <<issued, faults, fresh, claims, leaving, lost>>
PutOut(p) ==
    /\ p.at \in {"refused", "failed"}
    /\ posts' = posts \ {p} /\ ClearTokens /\ call' = Settle(Tab(p.by), IdleCall)
    /\ UNCHANGED <<issued, faults, fresh, claims, leaving, lost>>

\* An access token expires.
Expire(n) ==
    /\ n \in fresh /\ fresh' = fresh \ {n}
    /\ UNCHANGED <<store, issued, faults, claims, call, posts, leaving, lost>>

-----------------------------------------------------------------------------
(* Pages *)

Login ==
    /\ store.refresh = None /\ Issues(issued + 1) /\ SetTokens(issued + 1)
    /\ UNCHANGED <<faults, claims, call, posts, leaving, lost>>

\* logout(): the server claims the token if it can, then the tab forgets it.
Logout(t) ==
    /\ t \notin leaving /\ store.refresh # None /\ leaving' = leaving \union {t}
    /\ claims' = IF Claimed(store.refresh) THEN claims
                 ELSE claims \union {[token |-> store.refresh, by |-> "logout"]}
    /\ UNCHANGED <<store, issued, faults, fresh, call, posts, lost>>
LoggedOut(t) ==
    /\ t \in leaving /\ leaving' = leaving \ {t} /\ ClearTokens
    /\ UNCHANGED <<issued, faults, fresh, claims, call, posts, lost>>

\* A page is closed or loaded again, and what it waits for with it; the server
\* may have taken its exchange.
ReloadPage(t) ==
    /\ Fault
    /\ call' = [c \in ApiCalls |-> IF Tab(c) = t THEN IdleCall ELSE call[c]]
    /\ posts' = posts \ PostsOf(t) /\ leaving' = leaving \ {t}
    /\ lost' = lost \union {p.token : p \in PostsOf(t)}
    /\ \/ UNCHANGED claims
       \/ claims' = claims \union {[token |-> p.token, by |-> t] :
                                   p \in {q \in PostsOf(t) : q.at = "sent" /\ ~Claimed(q.token)}}
    /\ UNCHANGED <<store, issued, fresh>>

RtNext ==
    \/ \E c \in ApiCalls : SendCall(c) \/ CallAnswered(c) \/ Unauthorized(c)
    \/ \E t \in Tabs : Logout(t) \/ LoggedOut(t) \/ ReloadPage(t)
    \/ \E p \in posts : Refresh(p) \/ RefreshUnavailable(p) \/ Refreshed(p) \/ PutOut(p)
    \/ \E n \in fresh : Expire(n)
    \/ Login

RtSpec == RtInit /\ [][RtNext]_rtVars

-----------------------------------------------------------------------------
\* A tab is refused a token only because another tab exchanged it first, a
\* logout revoked it, or the page that exchanged it was gone before the answer:
\* never because two of its own calls were answered 401 together or one after
\* the other.
NeverRefusedItsOwn ==
    \A p \in posts : p.at = "refused" =>
        p.token \in lost \/ [token |-> p.token, by |-> Tab(p.by)] \notin claims
=============================================================================
