----------------------------- MODULE QuoteStream -----------------------------
(***************************************************************************)
(* The way of a tick from Redis to a browser page: the fan-out task        *)
(* (backend/app/ws/redis_fanout.py), the sessions and subscriptions of one *)
(* worker (manager.py, endpoints.py) and the browser's socket, with its    *)
(* reconnects, under a page that follows a set of symbols                  *)
(* (frontend/src/api/websocket.ts, hooks/useRealtimeQuotes.ts).            *)
(*                                                                         *)
(* Nothing is awaited under the manager's lock, so each of its operations  *)
(* is one step; a broadcast awaits every single send.                      *)
(***************************************************************************)
EXTENDS Integers, Sequences, FiniteSets

CONSTANTS Symbols,       \* symbols a page may follow
          Pages,         \* the sets of symbols pages follow
          MaxSubs,       \* max_subscriptions of a session
          DefaultSubs,   \* the 50 that stands for it without a session
          MaxSessions,   \* bound on connections of the browser
          MaxPages,      \* bound on changes of the page
          MaxTicks,      \* bound on published ticks
          MaxGaps        \* bound on Redis failures

ASSUME StreamAssumption ==
    /\ IsFiniteSet(Symbols)
    /\ Pages \subseteq SUBSET Symbols
    /\ {MaxSubs, DefaultSubs} \subseteq Nat \ {0}
    /\ {MaxSessions, MaxPages, MaxTicks, MaxGaps} \subseteq Nat

Sids == 1..MaxSessions
NoEvent == [n |-> 0, sym |-> "none"]

VARIABLES
  sid,        \* browser: its newest connection, 0 before the first
  link,       \* browser: "closed", "opening" or "open"
  status,     \* browser: connectionStatus of the store
  page,       \* browser: symbols of the page
  dirty,      \* browser: the page's effect is due to run
  held,       \* browser: what the last effect subscribed and will unsubscribe
  pending,    \* browser: the stored quote subscription, {} for none
  pages,      \* browser: changes of the page so far
  seen,       \* browser: the ticks received, by their numbers
  toServer,   \* messages of each connection not yet handled
  toBrowser,  \* events sent to each connection and not yet received
  loop,       \* endpoint of each connection: "none", "running", "ended"
  conns,      \* manager: _connections (and _session_meta)
  subs,       \* manager: _symbol_subs
  published,  \* ticks published to Redis
  channel,    \* ticks in the fan-out task's pubsub
  listening,  \* the fan-out task is subscribed
  gaps,       \* Redis failures so far
  event,      \* the tick being broadcast, or NoEvent
  targets,    \* sessions it is still to be sent to
  dead        \* sessions that could not be sent to

browser == <<sid, link, status, page, dirty, held, pending, pages, seen>>
wires == <<toServer, toBrowser>>
manager == <<loop, conns, subs>>
fanout == <<published, channel, listening, gaps, event, targets, dead>>
qsVars == <<browser, wires, manager, fanout>>

-----------------------------------------------------------------------------
(* The browser. *)

Msg(type, S) == [type |-> type, syms |-> S]

\* send(): only an open socket sends; what is queued otherwise is stored, and
\* of what is stored only subscriptions are ever sent again.
Sent(q, m) == IF link = "open" THEN Append(q, m) ELSE q

OpenSocket ==
    /\ link = "closed" /\ sid < MaxSessions
    /\ link' = "opening"
    /\ sid' = sid + 1
    /\ UNCHANGED <<status, page, dirty, held, pending, pages, seen, wires,
                   manager, fanout>>

\* onclose, then connect() after a delay.  The server may still get some of
\* what was sent.
LinkLost ==
    /\ link = "open" /\ sid < MaxSessions
    /\ link' = "closed"
    /\ status' = "reconnecting"
    /\ dirty' = (dirty \/ status # "reconnecting")
    /\ \E k \in 0..Len(toServer[sid]) :
         toServer' = [toServer EXCEPT ![sid] = SubSeq(@, 1, k)]
    /\ toBrowser' = [toBrowser EXCEPT ![sid] = <<>>]
    /\ UNCHANGED <<sid, page, held, pending, pages, seen, manager, fanout>>

\* The "connected" event sends the stored subscription again.
HandleConnected ==
    /\ link = "open" /\ toBrowser[sid] # <<>>
    /\ Head(toBrowser[sid]) = NoEvent
    /\ toBrowser' = [toBrowser EXCEPT ![sid] = Tail(@)]
    /\ status' = "connected" /\ dirty' = TRUE
    /\ toServer' = IF pending = {} THEN toServer
                   ELSE [toServer EXCEPT ![sid] =
                           Append(@, Msg("subscribe", pending))]
    /\ UNCHANGED <<sid, link, page, held, pending, pages, seen, manager,
                   fanout>>

HandleTick ==
    /\ link = "open" /\ toBrowser[sid] # <<>>
    /\ Head(toBrowser[sid]) # NoEvent
    /\ seen' = Append(seen, Head(toBrowser[sid]).n)
    /\ toBrowser' = [toBrowser EXCEPT ![sid] = Tail(@)]
    /\ UNCHANGED <<sid, link, status, page, dirty, held, pending, pages,
                   toServer, manager, fanout>>

ChangePage(S) ==
    /\ pages < MaxPages /\ S # page
    /\ page' = S /\ dirty' = TRUE
    /\ pages' = pages + 1
    /\ UNCHANGED <<sid, link, status, held, pending, seen, wires, manager,
                   fanout>>

\* Mutant: the clean-up of the last effect runs after the new subscription.
RunEffectCleanupLast ==
    LET now == IF status = "connected" THEN page ELSE {}
        after == IF now = {} THEN toServer[sid]
                 ELSE Sent(toServer[sid], Msg("subscribe", now))
    IN
    /\ dirty /\ sid # 0
    /\ dirty' = FALSE
    /\ held' = now
    /\ pending' = IF now = {} THEN pending ELSE now
    /\ toServer' = [toServer EXCEPT ![sid] =
                      IF held = {} THEN after
                      ELSE Sent(after, Msg("unsubscribe", held))]
    /\ UNCHANGED <<sid, link, status, page, pages, seen, toBrowser, manager,
                   fanout>>

\* The effect's clean-up unsubscribes what it had, then it subscribes again.
RunEffect ==
    LET now == IF status = "connected" THEN page ELSE {}
        afterCleanup == IF held = {} THEN toServer[sid]
                        ELSE Sent(toServer[sid], Msg("unsubscribe", held))
    IN
    /\ dirty /\ sid # 0
    /\ dirty' = FALSE
    /\ held' = now
    /\ pending' = IF now = {} THEN pending ELSE now
    /\ toServer' = [toServer EXCEPT ![sid] =
                      IF now = {} THEN afterCleanup
                      ELSE Sent(afterCleanup, Msg("subscribe", now))]
    /\ UNCHANGED <<sid, link, status, page, pages, seen, toBrowser, manager,
                   fanout>>

-----------------------------------------------------------------------------
(* The endpoint of a connection and the connection manager. *)

SubsOf(s) == {sym \in Symbols : s \in subs[sym]}
Without(S) == [sym \in Symbols |-> subs[sym] \ S]

\* manager.connect(), then the "connected" event.
Accept ==
    /\ link = "opening"
    /\ link' = "open"
    /\ loop' = [loop EXCEPT ![sid] = "running"]
    /\ conns' = conns \cup {sid}
    /\ toBrowser' = [toBrowser EXCEPT ![sid] = <<NoEvent>>]
    /\ UNCHANGED <<sid, status, page, dirty, held, pending, pages, seen,
                   toServer, subs, fanout>>

\* subscribe_quotes(): in the order of the list until the limit is reached, and
\* with the default limit when the session was cleaned up before its endpoint.
SubscribeQuotes(s, S) ==
    LET limit == IF s \in conns THEN MaxSubs ELSE DefaultSubs
        have == Cardinality(SubsOf(s)) IN
    \E acc \in SUBSET S :
      /\ IF have + Cardinality(S \ SubsOf(s)) <= limit
         THEN acc = S
         ELSE /\ acc \subseteq S
              /\ have < limit => have + Cardinality(acc \ SubsOf(s)) = limit
              /\ have >= limit => acc = {}
      /\ subs' = [sym \in Symbols |->
                    IF sym \in acc THEN subs[sym] \cup {s} ELSE subs[sym]]

HandleMessage(s) ==
    /\ loop[s] = "running" /\ toServer[s] # <<>>
    /\ LET m == Head(toServer[s]) IN
         \/ m.type = "subscribe" /\ SubscribeQuotes(s, m.syms)
         \/ /\ m.type = "unsubscribe"
            /\ subs' = [sym \in Symbols |->
                          IF sym \in m.syms THEN subs[sym] \ {s} ELSE subs[sym]]
    /\ toServer' = [toServer EXCEPT ![s] = Tail(@)]
    /\ UNCHANGED <<browser, toBrowser, loop, conns, fanout>>

\* Mutant: a session that was cleaned up already is not cleaned up again.
DisconnectRegistered(s) ==
    /\ loop[s] = "running" /\ toServer[s] = <<>>
    /\ s # sid \/ link # "open"
    /\ loop' = [loop EXCEPT ![s] = "ended"]
    /\ conns' = conns \ {s}
    /\ subs' = IF s \in conns THEN Without({s}) ELSE subs
    /\ UNCHANGED <<browser, wires, fanout>>

\* The receive raises WebSocketDisconnect: the finally block disconnects.
Disconnect(s) ==
    /\ loop[s] = "running" /\ toServer[s] = <<>>
    /\ s # sid \/ link # "open"
    /\ loop' = [loop EXCEPT ![s] = "ended"]
    /\ conns' = conns \ {s}
    /\ subs' = Without({s})
    /\ UNCHANGED <<browser, wires, fanout>>

-----------------------------------------------------------------------------
(* Redis and the fan-out task. *)

PublishTick(sym) ==
    /\ published < MaxTicks
    /\ published' = published + 1
    /\ channel' = IF listening
                  THEN Append(channel, [n |-> published + 1, sym |-> sym])
                  ELSE channel
    /\ UNCHANGED <<browser, wires, manager, listening, gaps, event, targets,
                   dead>>

\* get_message() raises: what was in the pubsub is gone, as is what is
\* published until the task has subscribed again.
RedisFails ==
    /\ listening /\ event = NoEvent /\ gaps < MaxGaps
    /\ gaps' = gaps + 1
    /\ listening' = FALSE
    /\ channel' = <<>>
    /\ UNCHANGED <<browser, wires, manager, published, event, targets, dead>>

Resubscribe ==
    /\ ~listening
    /\ listening' = TRUE
    /\ UNCHANGED <<browser, wires, manager, published, channel, gaps, event,
                   targets, dead>>

\* broadcast_to_symbol() takes the sessions of the symbol as they are now.
Broadcast ==
    /\ listening /\ event = NoEvent /\ channel # <<>>
    /\ channel' = Tail(channel)
    /\ event' = Head(channel)
    /\ targets' = subs[Head(channel).sym]
    /\ dead' = {}
    /\ UNCHANGED <<browser, wires, manager, published, listening, gaps>>

\* Mutant: a session is sent the tick again and again.
SendToAgain(s) ==
    /\ s \in targets
    /\ targets' \in {targets, targets \ {s}}
    /\ \/ /\ s \in conns /\ s = sid /\ link = "open"
          /\ toBrowser' = [toBrowser EXCEPT ![s] = Append(@, event)]
          /\ UNCHANGED dead
       \/ /\ s \notin conns
          /\ dead' = dead \cup {s}
          /\ UNCHANGED toBrowser
    /\ UNCHANGED <<browser, toServer, manager, published, channel, listening,
                   gaps, event>>

\* _send_to(): fails without a session; a connection that was lost takes it or
\* fails.
SendTo(s) ==
    /\ s \in targets
    /\ targets' = targets \ {s}
    /\ \/ /\ s \in conns /\ s = sid /\ link = "open"
          /\ toBrowser' = [toBrowser EXCEPT ![s] = Append(@, event)]
          /\ UNCHANGED dead
       \/ /\ s \in conns /\ (s # sid \/ link # "open")
          /\ dead' \in {dead, dead \cup {s}}
          /\ UNCHANGED toBrowser
       \/ /\ s \notin conns
          /\ dead' = dead \cup {s}
          /\ UNCHANGED toBrowser
    /\ UNCHANGED <<browser, toServer, manager, published, channel, listening,
                   gaps, event>>

\* _cleanup_dead(), while the endpoints of the dead may still be running.
CleanupDead ==
    /\ event # NoEvent /\ targets = {}
    /\ conns' = conns \ dead
    /\ subs' = Without(dead)
    /\ event' = NoEvent /\ dead' = {}
    /\ UNCHANGED <<browser, wires, loop, published, channel, listening, gaps,
                   targets>>

-----------------------------------------------------------------------------
QsInit ==
    /\ sid = 0 /\ link = "closed" /\ status = "disconnected"
    /\ page \in Pages /\ dirty = TRUE /\ held = {} /\ pending = {}
    /\ pages = 0 /\ seen = <<>>
    /\ toServer = [s \in Sids |-> <<>>]
    /\ toBrowser = [s \in Sids |-> <<>>]
    /\ loop = [s \in Sids |-> "none"]
    /\ conns = {}
    /\ subs = [sym \in Symbols |-> {}]
    /\ published = 0 /\ channel = <<>> /\ listening = TRUE /\ gaps = 0
    /\ event = NoEvent /\ targets = {} /\ dead = {}

Browser == \/ OpenSocket \/ LinkLost \/ HandleConnected \/ HandleTick \/ RunEffect
           \/ \E S \in Pages : ChangePage(S)
Endpoint == Accept \/ \E s \in Sids : HandleMessage(s) \/ Disconnect(s)
Fanout == \/ RedisFails \/ Resubscribe \/ Broadcast \/ CleanupDead
          \/ \E sym \in Symbols : PublishTick(sym)
          \/ \E s \in Sids : SendTo(s)

QsNext == Browser \/ Endpoint \/ Fanout

QsSpec == QsInit /\ [][QsNext]_qsVars

-----------------------------------------------------------------------------
(* Properties. *)

\* A connection whose endpoint has ended leaves neither a session nor an entry
\* behind, also when it was cleaned up under a running endpoint; a session that
\* is registered keeps its limit.
SessionsAreForgotten ==
    /\ \A s \in Sids : loop[s] # "running" => s \notin conns /\ SubsOf(s) = {}
    /\ \A s \in conns : Cardinality(SubsOf(s)) <= MaxSubs

\* When the browser is connected and nothing is on its way, the server sends it
\* the symbols of its page, unless its session is full, whatever reconnects and
\* changes of page there were.
Settled == /\ link = "open" /\ status = "connected" /\ ~dirty
           /\ toServer[sid] = <<>> /\ toBrowser[sid] = <<>>
PageIsFollowed ==
    Settled => \/ page \subseteq SubsOf(sid)
               \/ Cardinality(SubsOf(sid)) >= MaxSubs

\* The browser gets ticks in order and none twice, across reconnects.
Feed == INSTANCE TickFeed WITH published <- published, seen <- seen
InOrder == Feed!FeedSpec
=============================================================================
