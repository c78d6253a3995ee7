------------------------- MODULE QuoteStreamProofs -------------------------
(***************************************************************************)
(* Proofs for any symbols, pages, connections, ticks and failures: a       *)
(* connection leaves nothing behind and keeps its limit, what the browser  *)
(* receives implements TickFeed, and a page at rest is followed.           *)
(*                                                                         *)
(* Order rests on one chain of bounds: what the page has seen, what waits  *)
(* on its connection, the tick being broadcast and what waits in Redis     *)
(* come in the order of their numbers, and the tick being broadcast may    *)
(* only go to connections that existed when the broadcast began.           *)
(*                                                                         *)
(* A page is followed because the message its effect sent last, until the  *)
(* server has handled it, subscribes to all of it.                         *)
(***************************************************************************)
EXTENDS QuoteStream, FiniteSetTheorems, SequenceTheorems, TLAPS

Ticks == [n : Nat \ {0}, sym : Symbols]
Events == Ticks \cup {NoEvent}
Msgs == [type : {"subscribe", "unsubscribe"}, syms : SUBSET Symbols]

BrowserTypes ==
    /\ sid \in 0..MaxSessions /\ link \in {"closed", "opening", "open"}
    /\ link # "closed" => sid \in Sids
    /\ page \in SUBSET Symbols /\ held \in SUBSET Symbols
    /\ pending \in SUBSET Symbols
    /\ seen \in Seq(Nat)
    /\ toServer \in [Sids -> Seq(Msgs)]

ServerTypes ==
    /\ toBrowser \in [Sids -> Seq(Events)]
    /\ loop \in [Sids -> {"none", "running", "ended"}]
    /\ conns \in SUBSET Sids
    /\ subs \in [Symbols -> SUBSET Sids]
    /\ published \in Nat /\ channel \in Seq(Ticks)
    /\ event \in Events
    /\ targets \in SUBSET Sids /\ dead \in SUBSET Sids

\* Only a connection with a running endpoint is registered, and none is before
\* it was accepted.
Registered ==
    /\ \A s \in conns : loop[s] = "running"
    /\ \A sym \in Symbols : \A s \in subs[sym] : loop[s] = "running"
    /\ \A s \in Sids : s > sid => loop[s] = "none"
    /\ link = "opening" => loop[sid] = "none"

Limited == \A s \in conns : Cardinality(SubsOf(s)) <= MaxSubs

SessionsInv == BrowserTypes /\ ServerTypes /\ Registered /\ Limited

-----------------------------------------------------------------------------
(* Sessions *)

LEMMA SymbolsOfASession ==
    ASSUME NEW s
    PROVE  /\ SubsOf(s) \subseteq Symbols /\ IsFiniteSet(SubsOf(s))
           /\ Cardinality(SubsOf(s)) \in Nat
  <1>1. SubsOf(s) \subseteq Symbols BY DEF SubsOf
  <1>2. IsFiniteSet(SubsOf(s))
    BY <1>1, StreamAssumption, FS_Subset DEF StreamAssumption
  <1> QED BY <1>1, <1>2, FS_CardinalityType

\* A session that is left with fewer symbols keeps its limit.
LEMMA FewerSymbols ==
    ASSUME NEW S, NEW T, IsFiniteSet(T), S \subseteq T, Cardinality(T) <= MaxSubs
    PROVE  Cardinality(S) <= MaxSubs
  <1>1. Cardinality(S) <= Cardinality(T) /\ Cardinality(S) \in Nat
    BY FS_Subset, FS_CardinalityType
  <1>2. Cardinality(T) \in Nat /\ MaxSubs \in Nat
    BY FS_CardinalityType, StreamAssumption DEF StreamAssumption
  <1> QED BY <1>1, <1>2

\* What subscribe_quotes() accepts fits below the limit.
LEMMA AcceptedFits ==
    ASSUME NEW H, NEW A, NEW limit \in Nat, IsFiniteSet(H), IsFiniteSet(A),
           Cardinality(H) + Cardinality(A \ H) <= limit
    PROVE  Cardinality(H \cup A) <= limit
  <1>1. IsFiniteSet(A \ H) BY FS_Difference
  <1>2. H \cup A = H \cup (A \ H) /\ H \cap (A \ H) = {}
    OBVIOUS
  <1>3. Cardinality(H \cup (A \ H))
          = Cardinality(H) + Cardinality(A \ H) - Cardinality(H \cap (A \ H))
    BY <1>1, FS_Union
  <1>4. Cardinality(H \cap (A \ H)) = 0 BY <1>2, FS_EmptySet
  <1>5. Cardinality(H) \in Nat /\ Cardinality(A \ H) \in Nat
    BY <1>1, FS_CardinalityType
  <1>6. Cardinality(H \cup (A \ H)) <= limit BY <1>3, <1>4, <1>5
  <1> QED BY <1>2, <1>6

LEMMA SessionsInitially == QsInit => SessionsInv
  <1> SUFFICES ASSUME QsInit PROVE SessionsInv
    OBVIOUS
  <1>1. BrowserTypes
    BY StreamAssumption DEF QsInit, BrowserTypes, StreamAssumption
  <1>2. ServerTypes
    BY DEF QsInit, ServerTypes, Events
  <1>3. Registered /\ Limited
    BY DEF QsInit, Registered, Limited
  <1> QED BY <1>1, <1>2, <1>3 DEF SessionsInv

LEMMA Sends ==
    ASSUME NEW q \in Seq(Msgs), NEW S \in SUBSET Symbols,
           NEW type \in {"subscribe", "unsubscribe"}
    PROVE  /\ Msg(type, S) \in Msgs
           /\ Sent(q, Msg(type, S)) \in Seq(Msgs)
           /\ Append(q, Msg(type, S)) \in Seq(Msgs)
  <1>1. Msg(type, S) \in Msgs BY DEF Msg, Msgs
  <1> QED BY <1>1 DEF Sent

LEMMA SendsOn ==
    ASSUME BrowserTypes, NEW s \in Sids, NEW q \in Seq(Msgs)
    PROVE  [toServer EXCEPT ![s] = q] \in [Sids -> Seq(Msgs)]
  BY DEF BrowserTypes

LEMMA BrowserTypesKept == SessionsInv /\ [QsNext]_qsVars => BrowserTypes'
  <1> SUFFICES ASSUME SessionsInv, [QsNext]_qsVars PROVE BrowserTypes'
    OBVIOUS
  <1>0. BrowserTypes /\ ServerTypes BY DEF SessionsInv
  <1>1. CASE OpenSocket
    BY <1>0, <1>1, StreamAssumption
    DEF OpenSocket, BrowserTypes, Sids, StreamAssumption, wires
  <1>2. CASE LinkLost
    <2>1. sid \in Sids BY <1>0, <1>2 DEF LinkLost, BrowserTypes
    <2>2. PICK k \in 0..Len(toServer[sid]) :
            toServer' = [toServer EXCEPT ![sid] = SubSeq(@, 1, k)]
      BY <1>2 DEF LinkLost
    <2>3. SubSeq(toServer[sid], 1, k) \in Seq(Msgs)
      <3>1. toServer[sid] \in Seq(Msgs) BY <1>0, <2>1 DEF BrowserTypes
      <3>2. \A i \in 1..k : toServer[sid][i] \in Msgs
        BY <2>2, <3>1, ElementOfSeq, LenProperties
      <3> QED BY <3>1, <3>2, SubSeqProperties
    <2>4. toServer' \in [Sids -> Seq(Msgs)]
      BY <1>0, <2>1, <2>2, <2>3, SendsOn
    <2> QED BY <1>0, <1>2, <2>4 DEF LinkLost, BrowserTypes
  <1>3. CASE HandleConnected
    <2>1. sid \in Sids BY <1>0, <1>3 DEF HandleConnected, BrowserTypes
    <2>2. toServer[sid] \in Seq(Msgs) /\ pending \in SUBSET Symbols
      BY <1>0, <2>1 DEF BrowserTypes
    <2>3. Append(toServer[sid], Msg("subscribe", pending)) \in Seq(Msgs)
      BY <2>2, Sends
    <2>4. toServer' \in [Sids -> Seq(Msgs)]
      BY <1>0, <1>3, <2>1, <2>3, SendsOn DEF HandleConnected, BrowserTypes
    <2> QED BY <1>0, <1>3, <2>4 DEF HandleConnected, BrowserTypes
  <1>4. CASE HandleTick
    <2>1. sid \in Sids BY <1>0, <1>4 DEF HandleTick, BrowserTypes
    <2>2. toBrowser[sid] \in Seq(Events) /\ toBrowser[sid] # <<>>
      BY <1>0, <1>4, <2>1 DEF HandleTick, ServerTypes
    <2>3. Head(toBrowser[sid]) \in Events BY <2>2, HeadTailProperties
    <2>4. Head(toBrowser[sid]).n \in Nat
      BY <2>3 DEF Events, Ticks, NoEvent
    <2>5. seen' \in Seq(Nat)
      BY <1>0, <1>4, <2>4 DEF HandleTick, BrowserTypes
    <2> QED BY <1>0, <1>4, <2>5 DEF HandleTick, BrowserTypes
  <1>5. CASE RunEffect
    <2>1. sid \in Sids
      BY <1>0, <1>5 DEF RunEffect, BrowserTypes, Sids
    <2> DEFINE now == IF status = "connected" THEN page ELSE {}
               cleaned == IF held = {} THEN toServer[sid]
                          ELSE Sent(toServer[sid], Msg("unsubscribe", held))
               after == IF now = {} THEN cleaned
                        ELSE Sent(cleaned, Msg("subscribe", now))
    <2>2. toServer[sid] \in Seq(Msgs) /\ held \in SUBSET Symbols
      BY <1>0, <2>1 DEF BrowserTypes
    <2>3. now \in SUBSET Symbols BY <1>0 DEF BrowserTypes
    <2>4. cleaned \in Seq(Msgs) BY <2>2, Sends
    <2>5. after \in Seq(Msgs)
      <3> HIDE DEF cleaned, now
      <3> QED BY <2>3, <2>4, Sends
    <2>6. toServer' = [toServer EXCEPT ![sid] = after]
      BY <1>5 DEF RunEffect
    <2>7. toServer' \in [Sids -> Seq(Msgs)]
      <3> HIDE DEF after
      <3> QED BY <1>0, <2>1, <2>5, <2>6, SendsOn
    <2>8. held' \in SUBSET Symbols /\ pending' \in SUBSET Symbols
      BY <1>0, <1>5, <2>3 DEF RunEffect, BrowserTypes
    <2> QED BY <1>0, <1>5, <2>7, <2>8 DEF RunEffect, BrowserTypes
  <1>6. ASSUME NEW S \in Pages, ChangePage(S) PROVE BrowserTypes'
    BY <1>0, <1>6, StreamAssumption
    DEF ChangePage, BrowserTypes, StreamAssumption, wires
  <1>7. CASE Accept
    BY <1>0, <1>7 DEF Accept, BrowserTypes
  <1>8. ASSUME NEW s \in Sids, HandleMessage(s) PROVE BrowserTypes'
    <2>1. toServer[s] \in Seq(Msgs) /\ toServer[s] # <<>>
      BY <1>0, <1>8 DEF BrowserTypes, HandleMessage
    <2>2. Tail(toServer[s]) \in Seq(Msgs) BY <2>1, HeadTailProperties
    <2>3. toServer' \in [Sids -> Seq(Msgs)]
      BY <1>0, <1>8, <2>2, SendsOn DEF HandleMessage
    <2> QED BY <1>0, <1>8, <2>3 DEF HandleMessage, BrowserTypes, browser
  <1>9. CASE UNCHANGED <<browser, toServer>>
    BY <1>0, <1>9 DEF BrowserTypes, browser
  <1> QED
    BY <1>1, <1>2, <1>3, <1>4, <1>5, <1>6, <1>7, <1>8, <1>9
    DEF QsNext, Browser, Endpoint, Fanout, Disconnect, PublishTick, RedisFails,
        Resubscribe, Broadcast, SendTo, CleanupDead, wires, qsVars

LEMMA MessageHandled ==
    ASSUME ServerTypes, NEW s \in Sids, HandleMessage(s)
    PROVE  /\ subs' \in [Symbols -> SUBSET Sids]
           /\ \A sym \in Symbols : subs'[sym] \subseteq subs[sym] \cup {s}
  <1>1. CASE \E S \in {Head(toServer[s]).syms} : SubscribeQuotes(s, S)
    <2>1. PICK acc : subs' = [sym \in Symbols |->
                        IF sym \in acc THEN subs[sym] \cup {s} ELSE subs[sym]]
      BY <1>1 DEF SubscribeQuotes
    <2> QED BY <2>1 DEF ServerTypes
  <1>2. CASE subs' = [sym \in Symbols |->
               IF sym \in Head(toServer[s]).syms THEN subs[sym] \ {s} ELSE subs[sym]]
    BY <1>2 DEF ServerTypes
  <1> QED BY <1>1, <1>2 DEF HandleMessage

LEMMA ServerTypesKept == SessionsInv /\ [QsNext]_qsVars => ServerTypes'
  <1> SUFFICES ASSUME SessionsInv, [QsNext]_qsVars PROVE ServerTypes'
    OBVIOUS
  <1>0. BrowserTypes /\ ServerTypes BY DEF SessionsInv
  <1> DEFINE queue == toBrowser[sid]
  <1>1. ASSUME NEW s \in Sids, NEW q \in Seq(Events)
        PROVE  [toBrowser EXCEPT ![s] = q] \in [Sids -> Seq(Events)]
    BY <1>0 DEF ServerTypes
  <1>2. CASE LinkLost
    <2>1. sid \in Sids BY <1>0, <1>2 DEF LinkLost, BrowserTypes
    <2>2. toBrowser' \in [Sids -> Seq(Events)]
      BY <1>1, <1>2, <2>1, EmptySeq DEF LinkLost
    <2> QED BY <1>0, <1>2, <2>2 DEF LinkLost, ServerTypes, manager, fanout
  <1>3. CASE HandleConnected \/ HandleTick
    <2>1. sid \in Sids /\ queue # <<>> /\ toBrowser' = [toBrowser EXCEPT ![sid] = Tail(@)]
      BY <1>0, <1>3 DEF HandleConnected, HandleTick, BrowserTypes
    <2>2. queue \in Seq(Events) BY <1>0, <2>1 DEF ServerTypes
    <2>3. Tail(queue) \in Seq(Events) BY <2>1, <2>2, HeadTailProperties
    <2>4. toBrowser' \in [Sids -> Seq(Events)] BY <1>1, <2>1, <2>3
    <2> QED BY <1>0, <1>3, <2>4
            DEF HandleConnected, HandleTick, ServerTypes, manager, fanout
  <1>4. CASE Accept
    <2>1. sid \in Sids BY <1>0, <1>4 DEF Accept, BrowserTypes
    <2>2. <<NoEvent>> \in Seq(Events) BY DEF Events
    <2>3. toBrowser' \in [Sids -> Seq(Events)] BY <1>1, <1>4, <2>1, <2>2 DEF Accept
    <2> QED BY <1>0, <1>4, <2>1, <2>3 DEF Accept, ServerTypes, fanout
  <1>5. ASSUME NEW s \in Sids, HandleMessage(s) PROVE ServerTypes'
    BY <1>0, <1>5, MessageHandled DEF HandleMessage, ServerTypes, fanout
  <1>6. ASSUME NEW s \in Sids, Disconnect(s) PROVE ServerTypes'
    BY <1>0, <1>6 DEF Disconnect, Without, ServerTypes, wires, fanout
  <1>7. ASSUME NEW sym \in Symbols, PublishTick(sym) PROVE ServerTypes'
    <2>1. [n |-> published + 1, sym |-> sym] \in Ticks
      BY <1>0 DEF ServerTypes, Ticks
    <2>2. channel' \in Seq(Ticks)
      BY <1>0, <1>7, <2>1 DEF PublishTick, ServerTypes
    <2> QED BY <1>0, <1>7, <2>2 DEF PublishTick, ServerTypes, wires, manager
  <1>8. CASE RedisFails \/ Resubscribe
    BY <1>0, <1>8, EmptySeq DEF RedisFails, Resubscribe, ServerTypes, wires, manager
  <1>9. CASE Broadcast
    <2>1. channel \in Seq(Ticks) /\ channel # <<>>
      BY <1>0, <1>9 DEF Broadcast, ServerTypes
    <2>2. Head(channel) \in Ticks /\ Tail(channel) \in Seq(Ticks)
      BY <2>1, HeadTailProperties
    <2>3. subs[Head(channel).sym] \in SUBSET Sids
      BY <1>0, <2>2 DEF ServerTypes, Ticks
    <2> QED BY <1>0, <1>9, <2>2, <2>3 DEF Broadcast, ServerTypes, Events, wires, manager
  <1>10. ASSUME NEW s \in Sids, SendTo(s) PROVE ServerTypes'
    <2>1. toBrowser' \in [Sids -> Seq(Events)]
      <3>1. Append(toBrowser[s], event) \in Seq(Events)
        BY <1>0 DEF ServerTypes
      <3>2. toBrowser' = toBrowser
            \/ toBrowser' = [toBrowser EXCEPT ![s] = Append(toBrowser[s], event)]
        BY <1>10 DEF SendTo
      <3> QED BY <1>0, <1>1, <3>1, <3>2 DEF ServerTypes
    <2>2. dead' \in SUBSET Sids /\ targets' \in SUBSET Sids
      BY <1>0, <1>10 DEF SendTo, ServerTypes
    <2> QED BY <1>0, <1>10, <2>1, <2>2 DEF SendTo, ServerTypes, manager
  <1>11. CASE CleanupDead
    BY <1>0, <1>11 DEF CleanupDead, Without, ServerTypes, Events, wires
  <1>12. CASE UNCHANGED <<wires, manager, fanout>>
    BY <1>0, <1>12 DEF ServerTypes, wires, manager, fanout
  <1>13. CASE RunEffect \/ OpenSocket \/ \E S \in Pages : ChangePage(S)
    BY <1>0, <1>13 DEF RunEffect, OpenSocket, ChangePage, ServerTypes, wires,
                       manager, fanout
  <1> QED
    BY <1>2, <1>3, <1>4, <1>5, <1>6, <1>7, <1>8, <1>9, <1>10, <1>11, <1>12, <1>13
    DEF QsNext, Browser, Endpoint, Fanout, qsVars

LEMMA RegisteredKept == SessionsInv /\ [QsNext]_qsVars => Registered'
  <1> SUFFICES ASSUME SessionsInv, [QsNext]_qsVars PROVE Registered'
    OBVIOUS
  <1>0. BrowserTypes /\ ServerTypes /\ Registered BY DEF SessionsInv
  <1>1. CASE OpenSocket
    <2>1. /\ sid \in Nat /\ sid' = sid + 1 /\ sid' \in Sids
          /\ UNCHANGED <<loop, conns, subs>>
      BY <1>0, <1>1, StreamAssumption
      DEF OpenSocket, BrowserTypes, Sids, StreamAssumption, manager
    <2>2. \A s \in Sids : s \in Nat BY DEF Sids
    <2>3. sid' > sid /\ \A s \in Sids : s > sid' => s > sid BY <2>1, <2>2
    <2> QED BY <1>0, <2>1, <2>3 DEF Registered
  <1>2. CASE Accept
    <2>1. /\ sid \in Sids /\ loop' = [loop EXCEPT ![sid] = "running"]
          /\ conns' = conns \cup {sid} /\ subs' = subs /\ sid' = sid
          /\ link' = "open" /\ loop \in [Sids -> {"none", "running", "ended"}]
      BY <1>0, <1>2 DEF Accept, BrowserTypes, ServerTypes
    <2>2. conns \in SUBSET Sids /\ subs \in [Symbols -> SUBSET Sids]
      BY <1>0 DEF ServerTypes
    <2> QED BY <1>0, <2>1, <2>2 DEF Registered, Sids
  <1>3. ASSUME NEW s \in Sids, HandleMessage(s) PROVE Registered'
    <2>1. \A sym \in Symbols : subs'[sym] \subseteq subs[sym] \cup {s}
      BY <1>0, <1>3, MessageHandled
    <2>2. loop[s] = "running" /\ UNCHANGED <<sid, link, loop, conns>>
      BY <1>3 DEF HandleMessage, browser
    <2> QED BY <1>0, <2>1, <2>2 DEF Registered
  <1>4. ASSUME NEW s \in Sids, Disconnect(s) PROVE Registered'
    <2>1. /\ loop' = [loop EXCEPT ![s] = "ended"] /\ loop[s] = "running"
          /\ conns' = conns \ {s} /\ subs' = [sym \in Symbols |-> subs[sym] \ {s}]
          /\ UNCHANGED <<sid, link>>
      BY <1>4 DEF Disconnect, Without, browser
    <2>2. /\ loop \in [Sids -> {"none", "running", "ended"}]
          /\ conns \in SUBSET Sids /\ subs \in [Symbols -> SUBSET Sids]
          /\ sid \in 0..MaxSessions
      BY <1>0 DEF ServerTypes, BrowserTypes
    <2>3. \A t \in Sids : loop'[t] = IF t = s THEN "ended" ELSE loop[t]
      BY <2>1, <2>2
    <2>4. ~(s > sid) /\ (link = "opening" => s # sid)
      BY <1>0, <2>1 DEF Registered
    <2>5. link = "opening" => sid \in Sids BY <1>0 DEF BrowserTypes
    <2> QED BY <1>0, <2>1, <2>2, <2>3, <2>4, <2>5 DEF Registered
  <1>5. CASE CleanupDead
    BY <1>0, <1>5 DEF CleanupDead, Without, Registered, browser
  <1>6. CASE LinkLost
    BY <1>0, <1>6 DEF LinkLost, Registered, manager
  <1>7. CASE UNCHANGED <<sid, link, manager>>
    BY <1>0, <1>7 DEF Registered, manager
  <1> QED
    BY <1>1, <1>2, <1>3, <1>4, <1>5, <1>6, <1>7
    DEF QsNext, Browser, Endpoint, Fanout, HandleConnected, HandleTick, RunEffect,
        ChangePage, PublishTick, RedisFails, Resubscribe, Broadcast, SendTo, manager,
        browser, qsVars

\* subscribe_quotes() keeps a registered session below its limit.
LEMMA SubscriptionFits ==
    ASSUME SessionsInv, NEW s \in conns, NEW S \in SUBSET Symbols,
           SubscribeQuotes(s, S)
    PROVE  Cardinality(SubsOf(s)') <= MaxSubs
  <1> DEFINE H == SubsOf(s)
  <1>1. PICK acc \in SUBSET S :
          /\ IF Cardinality(H) + Cardinality(S \ H) <= MaxSubs
             THEN acc = S
             ELSE /\ Cardinality(H) < MaxSubs =>
                       Cardinality(H) + Cardinality(acc \ H) = MaxSubs
                  /\ Cardinality(H) >= MaxSubs => acc = {}
          /\ subs' = [sym \in Symbols |->
                        IF sym \in acc THEN subs[sym] \cup {s} ELSE subs[sym]]
    BY DEF SubscribeQuotes
  <1>2. SubsOf(s)' = H \cup acc
    <2>1. \A sym \in Symbols :
            s \in subs'[sym] <=> sym \in acc \/ s \in subs[sym]
      BY <1>1
    <2> QED BY <2>1 DEF SubsOf
  <1>3. IsFiniteSet(H) /\ Cardinality(H) \in Nat BY SymbolsOfASession
  <1>4. IsFiniteSet(acc)
    BY <1>1, StreamAssumption, FS_Subset DEF StreamAssumption
  <1>5. MaxSubs \in Nat BY StreamAssumption DEF StreamAssumption
  <1>6. CASE Cardinality(H) + Cardinality(acc \ H) <= MaxSubs
    <2> HIDE DEF H
    <2> QED BY <1>2, <1>3, <1>4, <1>5, <1>6, AcceptedFits
  <1>7. CASE acc = {}
    <2>1. SubsOf(s)' = H BY <1>2, <1>7
    <2> QED BY <2>1 DEF SessionsInv, Limited
  <1>8. Cardinality(acc \ H) \in Nat
    BY <1>4, FS_Difference, FS_CardinalityType
  <1> QED
    <2> HIDE DEF H
    <2>1. \/ Cardinality(H) + Cardinality(acc \ H) <= MaxSubs
          \/ acc = {}
      <3>1. CASE Cardinality(H) + Cardinality(S \ H) <= MaxSubs
        <4>1. acc = S BY <1>1, <3>1
        <4> QED BY <3>1, <4>1
      <3>2. CASE ~(Cardinality(H) + Cardinality(S \ H) <= MaxSubs)
        <4>1. CASE Cardinality(H) < MaxSubs
          <5>1. Cardinality(H) + Cardinality(acc \ H) = MaxSubs
            BY <1>1, <3>2, <4>1
          <5> QED BY <5>1, <1>5
        <4>2. CASE Cardinality(H) >= MaxSubs
          BY <1>1, <3>2, <4>2
        <4> QED BY <4>1, <4>2, <1>3, <1>5
      <3> QED BY <3>1, <3>2
    <2> QED BY <2>1, <1>6, <1>7

\* Whoever is not in the message keeps the symbols it had.
LEMMA MessageOfOthers ==
    ASSUME ServerTypes, NEW s \in Sids, HandleMessage(s), NEW t, t # s
    PROVE  SubsOf(t)' = SubsOf(t)
  <1>1. CASE \E S \in {Head(toServer[s]).syms} : SubscribeQuotes(s, S)
    <2>1. PICK acc : subs' = [sym \in Symbols |->
                        IF sym \in acc THEN subs[sym] \cup {s} ELSE subs[sym]]
      BY <1>1 DEF SubscribeQuotes
    <2> QED BY <2>1 DEF ServerTypes, SubsOf
  <1>2. CASE subs' = [sym \in Symbols |->
               IF sym \in Head(toServer[s]).syms THEN subs[sym] \ {s} ELSE subs[sym]]
    BY <1>2 DEF ServerTypes, SubsOf
  <1> QED BY <1>1, <1>2 DEF HandleMessage

LEMMA LimitedKept == SessionsInv /\ [QsNext]_qsVars => Limited'
  <1> SUFFICES ASSUME SessionsInv, [QsNext]_qsVars PROVE Limited'
    OBVIOUS
  <1>0. BrowserTypes /\ ServerTypes /\ Registered /\ Limited BY DEF SessionsInv
  <1>1. ASSUME NEW t \in conns, SubsOf(t)' \subseteq SubsOf(t)
        PROVE  Cardinality(SubsOf(t)') <= MaxSubs
    BY <1>0, <1>1, FewerSymbols, SymbolsOfASession DEF Limited
  <1>2. CASE Accept
    <2>1. sid \in Sids /\ loop[sid] = "none" /\ subs' = subs /\ conns' = conns \cup {sid}
      BY <1>0, <1>2 DEF Accept, BrowserTypes, Registered
    <2>2. SubsOf(sid) = {} BY <1>0, <2>1 DEF Registered, SubsOf
    <2>3. \A t : SubsOf(t)' = SubsOf(t) BY <2>1 DEF SubsOf
    <2>4. 0 <= MaxSubs BY StreamAssumption DEF StreamAssumption
    <2>5. ASSUME NEW t \in conns' PROVE Cardinality(SubsOf(t)') <= MaxSubs
      <3>1. CASE t \in conns BY <1>0, <2>3, <3>1 DEF Limited
      <3>2. CASE t = sid
        <4>1. SubsOf(t)' = {} BY <2>2, <2>3, <3>2
        <4> QED BY <4>1, <2>4, FS_EmptySet
      <3> QED BY <2>1, <3>1, <3>2
    <2> QED BY <2>5 DEF Limited
  <1>3. ASSUME NEW s \in Sids, HandleMessage(s) PROVE Limited'
    <2> SUFFICES ASSUME NEW t \in conns' PROVE Cardinality(SubsOf(t)') <= MaxSubs
      BY DEF Limited
    <2>1. conns' = conns BY <1>3 DEF HandleMessage
    <2>2. CASE t # s BY <1>0, <1>3, <2>1, <2>2, MessageOfOthers, <1>1
    <2>3. CASE t = s
      <3>1. toServer[s] \in Seq(Msgs) /\ toServer[s] # <<>>
        BY <1>0, <1>3 DEF BrowserTypes, HandleMessage
      <3>2. Head(toServer[s]).syms \in SUBSET Symbols
        <4>1. Head(toServer[s]) \in Msgs BY <3>1, HeadTailProperties
        <4> QED BY <4>1 DEF Msgs
      <3>3. CASE SubscribeQuotes(s, Head(toServer[s]).syms)
        BY <2>1, <2>3, <3>2, <3>3, SubscriptionFits
      <3>4. CASE subs' = [sym \in Symbols |->
               IF sym \in Head(toServer[s]).syms THEN subs[sym] \ {s} ELSE subs[sym]]
        <4>1. SubsOf(t)' \subseteq SubsOf(t)
          BY <1>0, <3>4 DEF SubsOf, ServerTypes
        <4> QED BY <2>1, <4>1, <1>1
      <3> QED BY <1>3, <3>3, <3>4 DEF HandleMessage
    <2> QED BY <2>2, <2>3
  <1>4. ASSUME NEW S, subs' = Without(S), conns' \subseteq conns PROVE Limited'
    <2>1. \A t : SubsOf(t)' \subseteq SubsOf(t)
      BY <1>0, <1>4 DEF Without, SubsOf, ServerTypes
    <2> QED BY <1>4, <2>1, <1>1 DEF Limited
  <1>5. ASSUME NEW s \in Sids, Disconnect(s) PROVE Limited'
    BY <1>4, <1>5 DEF Disconnect
  <1>6. CASE CleanupDead
    BY <1>4, <1>6 DEF CleanupDead
  <1>7. CASE UNCHANGED <<conns, subs>>
    <2>1. \A t : SubsOf(t)' = SubsOf(t) BY <1>7 DEF SubsOf
    <2> QED BY <1>0, <1>7, <2>1 DEF Limited
  <1> QED
    BY <1>2, <1>3, <1>5, <1>6, <1>7
    DEF QsNext, Browser, Endpoint, Fanout, OpenSocket, LinkLost, HandleConnected,
        HandleTick, RunEffect, ChangePage, PublishTick, RedisFails, Resubscribe,
        Broadcast, SendTo, manager, qsVars

THEOREM SessionsInvariant == QsSpec => []SessionsInv
  <1>1. SessionsInv /\ [QsNext]_qsVars => SessionsInv'
    BY BrowserTypesKept, ServerTypesKept, RegisteredKept, LimitedKept DEF SessionsInv
  <1> QED BY <1>1, SessionsInitially, PTL DEF QsSpec

\* For any connections and symbols: an ended connection leaves neither a session
\* nor a subscription, and no session passes its limit.
THEOREM SessionsAreForgottenHolds == QsSpec => []SessionsAreForgotten
  <1>1. SessionsInv => SessionsAreForgotten
    BY DEF SessionsInv, Registered, Limited, SessionsAreForgotten, SubsOf
  <1> QED BY <1>1, SessionsInvariant, PTL

-----------------------------------------------------------------------------
(* Order *)

Latest == IF seen = <<>> THEN 0 ELSE seen[Len(seen)]
Wire == toBrowser[sid]

Rising(q) == \A i, j \in 1..Len(q) : i < j => q[i].n < q[j].n
UpTo(q, k) == \A i \in 1..Len(q) : q[i].n <= k
Behind(q, k) == \A i \in 1..Len(q) : q[i].n < k
Beyond(q, k) == \A i \in 1..Len(q) : q[i].n > k
Fresh(q, k) == \A i \in 1..Len(q) : q[i] = NoEvent \/ q[i].n > k
Apart(q, c) == \A i \in 1..Len(q), j \in 1..Len(c) : q[i].n < c[j].n

FanoutOrder ==
    /\ Rising(channel) /\ UpTo(channel, published) /\ Beyond(channel, event.n)
    /\ event.n <= published
    /\ targets # {} => event \in Ticks
    /\ \A s \in targets : ~(s > sid)

PageOrder ==
    /\ Latest <= published /\ Beyond(channel, Latest)
    /\ sid \in targets => Latest < event.n

WireOrder ==
    link = "open" =>
      /\ Rising(Wire) /\ UpTo(Wire, published) /\ Fresh(Wire, Latest)
      /\ Apart(Wire, channel)
      /\ sid \in targets => Behind(Wire, event.n)

OrderInv == FanoutOrder /\ PageOrder /\ WireOrder

\* Numbers of events, and of the latest tick seen.
LEMMA Numbers ==
    /\ \A e \in Events : e.n \in Nat
    /\ \A q \in Seq(Events) : \A i \in 1..Len(q) : q[i] \in Events /\ q[i].n \in Nat
    /\ BrowserTypes => Latest \in Nat
  <1>1. \A e \in Events : e.n \in Nat BY DEF Events, Ticks, NoEvent
  <1>2. \A q \in Seq(Events) : \A i \in 1..Len(q) : q[i] \in Events
    BY ElementOfSeq
  <1>3. ASSUME BrowserTypes PROVE Latest \in Nat
    <2>1. seen \in Seq(Nat) BY <1>3 DEF BrowserTypes
    <2>2. CASE seen = <<>> BY <2>2 DEF Latest
    <2>3. CASE seen # <<>>
      <3>1. Len(seen) \in 1..Len(seen) BY <2>1, <2>3, EmptySeq, LenProperties
      <3> QED BY <2>1, <2>3, <3>1, ElementOfSeq DEF Latest
    <2> QED BY <2>2, <2>3
  <1> QED BY <1>1, <1>2, <1>3

LEMMA TicksAreEvents == ASSUME NEW q \in Seq(Ticks) PROVE q \in Seq(Events)
  <1>1. Ticks \subseteq Events BY DEF Events
  <1> QED BY <1>1, SeqMonotonic

\* The rest of a queue keeps what the queue had, and lies beyond its head.
LEMMA RestOfQueue ==
    ASSUME NEW q \in Seq(Events), q # <<>>
    PROVE  /\ Tail(q) \in Seq(Events) /\ Head(q) = q[1] /\ 1 \in 1..Len(q)
           /\ \A i \in 1..Len(Tail(q)) : i + 1 \in 1..Len(q) /\ Tail(q)[i] = q[i + 1]
           /\ Rising(q) => Rising(Tail(q)) /\ Beyond(Tail(q), Head(q).n)
           /\ \A k : UpTo(q, k) => UpTo(Tail(q), k)
           /\ \A k : Behind(q, k) => Behind(Tail(q), k)
           /\ \A k : Beyond(q, k) => Beyond(Tail(q), k)
  <1>1. Tail(q) \in Seq(Events) /\ Len(Tail(q)) = Len(q) - 1
    BY HeadTailProperties
  <1>2. Len(q) \in Nat /\ Len(q) > 0 BY EmptySeq
  <1>3. \A i \in 1..Len(Tail(q)) : i + 1 \in 1..Len(q) /\ Tail(q)[i] = q[i + 1]
    BY <1>1, <1>2, HeadTailProperties
  <1>4. Head(q) = q[1] /\ 1 \in 1..Len(q) BY <1>2
  <1>5. ASSUME Rising(q) PROVE Rising(Tail(q)) /\ Beyond(Tail(q), Head(q).n)
    <2>1. ASSUME NEW i \in 1..Len(Tail(q)), NEW j \in 1..Len(Tail(q)), i < j
          PROVE  Tail(q)[i].n < Tail(q)[j].n
      <3>1. i + 1 < j + 1 BY <1>1, <1>2, <2>1
      <3> QED BY <3>1, <1>3, <1>5 DEF Rising
    <2>2. ASSUME NEW i \in 1..Len(Tail(q)) PROVE Tail(q)[i].n > Head(q).n
      <3>1. 1 < i + 1 BY <1>1, <1>2
      <3>2. q[1].n < q[i + 1].n BY <3>1, <1>3, <1>4, <1>5 DEF Rising
      <3>3. q[1].n \in Nat /\ q[i + 1].n \in Nat BY <1>3, <1>4, Numbers
      <3> QED BY <3>2, <3>3, <1>3, <1>4
    <2> QED BY <2>1, <2>2 DEF Rising, Beyond
  <1>6. \A k : UpTo(q, k) => UpTo(Tail(q), k) BY <1>3 DEF UpTo
  <1>7. \A k : Behind(q, k) => Behind(Tail(q), k) BY <1>3 DEF Behind
  <1>8. \A k : Beyond(q, k) => Beyond(Tail(q), k) BY <1>3 DEF Beyond
  <1> QED BY <1>1, <1>3, <1>4, <1>5, <1>6, <1>7, <1>8

LEMMA LongerQueue ==
    ASSUME NEW q \in Seq(Events), NEW e \in Events
    PROVE  /\ Append(q, e) \in Seq(Events)
           /\ \A i \in 1..Len(Append(q, e)) :
                \/ i \in 1..Len(q) /\ Append(q, e)[i] = q[i]
                \/ i = Len(q) + 1 /\ Append(q, e)[i] = e
           /\ Rising(q) /\ Behind(q, e.n) => Rising(Append(q, e))
  <1>1. Len(q) \in Nat /\ Len(Append(q, e)) = Len(q) + 1 /\ Append(q, e) \in Seq(Events)
    OBVIOUS
  <1>2. \A i \in 1..Len(Append(q, e)) :
          \/ i \in 1..Len(q) /\ Append(q, e)[i] = q[i]
          \/ i = Len(q) + 1 /\ Append(q, e)[i] = e
    BY <1>1
  <1>3. ASSUME Rising(q), Behind(q, e.n),
               NEW i \in 1..Len(Append(q, e)), NEW j \in 1..Len(Append(q, e)), i < j
        PROVE  Append(q, e)[i].n < Append(q, e)[j].n
    <2>1. i \in 1..Len(q) /\ Append(q, e)[i] = q[i] BY <1>1, <1>2, <1>3
    <2> QED BY <1>2, <1>3, <2>1 DEF Rising, Behind
  <1> QED BY <1>1, <1>2, <1>3 DEF Rising

LEMMA OrderInitially == QsInit => OrderInv
  <1> SUFFICES ASSUME QsInit PROVE OrderInv
    OBVIOUS
  <1>1. FanoutOrder
    BY DEF QsInit, FanoutOrder, Rising, UpTo, Beyond, NoEvent
  <1>2. PageOrder
    BY DEF QsInit, PageOrder, Latest, Beyond
  <1>3. WireOrder BY DEF QsInit, WireOrder
  <1> QED BY <1>1, <1>2, <1>3 DEF OrderInv

Known == SessionsInv /\ OrderInv

\* The browser's own steps leave the fan-out alone and send nothing its way.
LEMMA OrderOfReading ==
    ASSUME Known, link = "open", Wire # <<>>,
           toBrowser' = [toBrowser EXCEPT ![sid] = Tail(@)],
           UNCHANGED <<sid, link, manager, fanout>>,
           \/ seen' = seen /\ Head(Wire) = NoEvent
           \/ seen' = Append(seen, Head(Wire).n) /\ Head(Wire) # NoEvent
    PROVE  OrderInv' /\ (seen' # seen => Head(Wire).n \in (Latest + 1)..published)
  <1>0. BrowserTypes /\ ServerTypes /\ FanoutOrder /\ PageOrder /\ WireOrder
    BY DEF Known, SessionsInv, OrderInv
  <1>1. sid \in Sids /\ Wire \in Seq(Events)
    BY <1>0 DEF BrowserTypes, ServerTypes, Wire
  <1>2. Wire' = Tail(Wire) BY <1>0, <1>1 DEF ServerTypes, Wire
  <1>3. /\ Rising(Wire) /\ UpTo(Wire, published) /\ Fresh(Wire, Latest)
        /\ Apart(Wire, channel) /\ (sid \in targets => Behind(Wire, event.n))
    BY <1>0 DEF WireOrder
  <1>4. FanoutOrder'
    BY <1>0 DEF FanoutOrder, fanout
  <1>5. /\ channel' = channel /\ event' = event /\ targets' = targets
        /\ published' = published
    BY DEF fanout
  <1>6. /\ Head(Wire) = Wire[1] /\ 1 \in 1..Len(Wire) /\ Head(Wire).n \in Nat
        /\ \A i \in 1..Len(Tail(Wire)) :
             i + 1 \in 1..Len(Wire) /\ Tail(Wire)[i] = Wire[i + 1]
    BY <1>1, RestOfQueue, Numbers
  <1>7. Rising(Wire') /\ UpTo(Wire', published) /\ Beyond(Wire', Head(Wire).n)
    BY <1>1, <1>2, <1>3, RestOfQueue
  <1>8. Apart(Wire', channel) /\ (sid \in targets => Behind(Wire', event.n))
    BY <1>2, <1>3, <1>6 DEF Apart, Behind
  <1>9. CASE seen' = seen
    <2>1. Latest' = Latest BY <1>9 DEF Latest
    <2>2. Fresh(Wire', Latest) BY <1>2, <1>3, <1>6 DEF Fresh
    <2>3. PageOrder' BY <1>0, <1>5, <2>1 DEF PageOrder
    <2>4. WireOrder' BY <1>5, <1>7, <1>8, <2>1, <2>2 DEF WireOrder
    <2> QED BY <1>4, <1>9, <2>3, <2>4 DEF OrderInv
  <1>10. CASE seen' = Append(seen, Head(Wire).n) /\ Head(Wire) # NoEvent
    <2>1. Latest' = Head(Wire).n
      <3>1. seen \in Seq(Nat) BY <1>0 DEF BrowserTypes
      <3>2. seen' # <<>> /\ seen'[Len(seen')] = Head(Wire).n
        BY <1>6, <1>10, <3>1
      <3> QED BY <3>2 DEF Latest
    <2>2. Fresh(Wire', Head(Wire).n) BY <1>7 DEF Fresh, Beyond
    <2>3. /\ Head(Wire).n <= published /\ Head(Wire).n > Latest
          /\ sid \in targets => Head(Wire).n < event.n
      BY <1>3, <1>6, <1>10 DEF UpTo, Fresh, Behind
    <2>4. Beyond(channel, Head(Wire).n)
      <3>1. \A j \in 1..Len(channel) : Wire[1].n < channel[j].n
        BY <1>3, <1>6 DEF Apart
      <3>2. \A j \in 1..Len(channel) : channel[j].n \in Nat
        BY <1>0, TicksAreEvents, Numbers DEF ServerTypes
      <3> QED BY <1>6, <3>1, <3>2 DEF Beyond
    <2>5. PageOrder' BY <1>5, <2>1, <2>3, <2>4 DEF PageOrder
    <2>6. WireOrder' BY <1>5, <1>7, <1>8, <2>1, <2>2 DEF WireOrder
    <2>7. Latest \in Nat /\ published \in Nat
      BY <1>0, Numbers DEF ServerTypes
    <2>8. Head(Wire).n \in (Latest + 1)..published
      BY <1>6, <2>3, <2>7
    <2> QED BY <1>4, <2>5, <2>6, <2>8 DEF OrderInv
  <1> QED BY <1>9, <1>10

\* A connection that is not open promises nothing, and a new one is no target.
LEMMA OrderOfOpening == Known /\ OpenSocket => OrderInv'
  <1> SUFFICES ASSUME Known, OpenSocket PROVE OrderInv'
    OBVIOUS
  <1>0. BrowserTypes /\ ServerTypes /\ FanoutOrder /\ PageOrder
    BY DEF Known, SessionsInv, OrderInv
  <1>1. /\ sid' = sid + 1 /\ sid \in Nat /\ sid' > sid /\ link' = "opening"
        /\ UNCHANGED <<seen, published, channel, event, targets>>
    BY <1>0 DEF OpenSocket, BrowserTypes, fanout
  <1>2. \A s \in targets : s \in Nat /\ s <= sid
    BY <1>0, <1>1 DEF FanoutOrder, ServerTypes, Sids
  <1>3. FanoutOrder'
    <2>1. \A s \in targets' : ~(s > sid') BY <1>1, <1>2
    <2> QED BY <1>0, <1>1, <2>1 DEF FanoutOrder
  <1>4. PageOrder'
    <2>1. sid' \notin targets' BY <1>1, <1>2
    <2>2. Latest' = Latest BY <1>1 DEF Latest
    <2> QED BY <1>0, <1>1, <2>1, <2>2 DEF PageOrder
  <1>5. WireOrder' BY <1>1 DEF WireOrder
  <1> QED BY <1>3, <1>4, <1>5 DEF OrderInv

LEMMA OrderOfAccepting == Known /\ Accept => OrderInv'
  <1> SUFFICES ASSUME Known, Accept PROVE OrderInv'
    OBVIOUS
  <1>0. BrowserTypes /\ ServerTypes /\ FanoutOrder /\ PageOrder
    BY DEF Known, SessionsInv, OrderInv
  <1>1. UNCHANGED <<sid, seen, published, channel, event, targets>>
    BY DEF Accept, fanout
  <1>2. Latest' = Latest BY <1>1 DEF Latest
  <1>3. FanoutOrder' /\ PageOrder'
    BY <1>0, <1>1, <1>2 DEF FanoutOrder, PageOrder
  <1>4. Wire' = <<NoEvent>> /\ sid \in Sids
    BY <1>0, <1>1 DEF Accept, Wire, BrowserTypes, ServerTypes
  <1>5. Len(Wire') = 1 /\ Wire'[1] = NoEvent /\ NoEvent.n = 0
    BY <1>4 DEF NoEvent
  <1>6. \A i \in 1..Len(Wire') : i = 1 /\ Wire'[i].n = 0 /\ Wire'[i] = NoEvent
    BY <1>5
  <1>7. Rising(Wire') /\ Fresh(Wire', Latest) BY <1>6 DEF Rising, Fresh
  <1>8. UpTo(Wire', published) BY <1>0, <1>6 DEF UpTo, ServerTypes
  <1>9. Apart(Wire', channel)
    <2>1. \A j \in 1..Len(channel) : channel[j] \in Ticks
      BY <1>0, ElementOfSeq DEF ServerTypes
    <2>2. \A j \in 1..Len(channel) : channel[j].n > 0 BY <2>1 DEF Ticks
    <2> QED BY <1>6, <2>2 DEF Apart
  <1>10. sid \in targets => Behind(Wire', event.n)
    BY <1>0, <1>6 DEF Behind, FanoutOrder, Ticks
  <1>11. WireOrder' BY <1>1, <1>2, <1>7, <1>8, <1>9, <1>10 DEF WireOrder
  <1> QED BY <1>3, <1>11 DEF OrderInv

LEMMA OrderOfPublishing ==
    ASSUME Known, NEW sym \in Symbols, PublishTick(sym) PROVE OrderInv'
  <1>0. BrowserTypes /\ ServerTypes /\ FanoutOrder /\ PageOrder /\ WireOrder
    BY DEF Known, SessionsInv, OrderInv
  <1> DEFINE tick == [n |-> published + 1, sym |-> sym]
  <1>1. /\ UNCHANGED <<sid, link, seen, event, targets, toBrowser>>
        /\ published' = published + 1 /\ published \in Nat
        /\ channel' = channel \/ channel' = Append(channel, tick)
    BY <1>0 DEF PublishTick, browser, wires, ServerTypes
  <1>2. Latest' = Latest /\ Wire' = Wire BY <1>1 DEF Latest, Wire
  <1>3. channel \in Seq(Events) /\ tick \in Events /\ tick.n = published + 1
    <2>1. channel \in Seq(Events) BY <1>0, TicksAreEvents DEF ServerTypes
    <2>2. tick \in Ticks /\ tick.n = published + 1 BY <1>1 DEF Ticks
    <2> QED BY <2>1, <2>2 DEF Events
  <1>4. /\ \A i \in 1..Len(channel) : channel[i].n \in Nat
        /\ event.n \in Nat /\ Latest \in Nat
    BY <1>0, <1>3, Numbers DEF ServerTypes
  <1>5. Behind(channel, tick.n) /\ UpTo(channel, published + 1)
    BY <1>0, <1>1, <1>3, <1>4 DEF FanoutOrder, UpTo, Behind
  <1>6. \A i \in 1..Len(channel') :
          \/ i \in 1..Len(channel) /\ channel'[i] = channel[i]
          \/ channel'[i].n = published + 1
    BY <1>1, <1>3, LongerQueue
  <1>7. Rising(channel')
    BY <1>0, <1>1, <1>3, <1>5, LongerQueue DEF FanoutOrder
  <1>8. UpTo(channel', published')
    BY <1>1, <1>5, <1>6 DEF UpTo
  <1>9. Beyond(channel', event.n) /\ Beyond(channel', Latest)
    <2>1. event.n < published + 1 /\ Latest < published + 1
      BY <1>0, <1>1, <1>4 DEF FanoutOrder, PageOrder
    <2>2. Beyond(channel, event.n) /\ Beyond(channel, Latest)
      BY <1>0 DEF FanoutOrder, PageOrder
    <2>3. \A i \in 1..Len(channel') :
            /\ channel'[i].n > event.n
            /\ channel'[i].n > Latest
      BY <1>1, <1>4, <1>6, <2>1, <2>2 DEF Beyond
    <2> QED BY <2>3 DEF Beyond
  <1>10. FanoutOrder'
    BY <1>0, <1>1, <1>4, <1>7, <1>8, <1>9 DEF FanoutOrder
  <1>11. PageOrder'
    BY <1>0, <1>1, <1>2, <1>4, <1>9 DEF PageOrder
  <1>12. CASE link = "open"
    <2>1. Wire \in Seq(Events) BY <1>0, <1>12 DEF BrowserTypes, ServerTypes, Wire
    <2>2. \A i \in 1..Len(Wire) : Wire[i].n \in Nat BY <2>1, Numbers
    <2>3. UpTo(Wire, published) /\ Apart(Wire, channel)
      BY <1>0, <1>12 DEF WireOrder
    <2>4. \A i \in 1..Len(Wire) : Wire[i].n <= published + 1 /\ Wire[i].n < published + 1
      BY <1>1, <2>2, <2>3 DEF UpTo
    <2>5. UpTo(Wire, published + 1) BY <2>4 DEF UpTo
    <2>6. Apart(Wire, channel') BY <1>6, <2>3, <2>4 DEF Apart
    <2>7. WireOrder' BY <1>0, <1>1, <1>2, <1>12, <2>5, <2>6 DEF WireOrder
    <2> QED BY <1>10, <1>11, <2>7 DEF OrderInv
  <1>13. CASE link # "open"
    <2>1. WireOrder' BY <1>1, <1>13 DEF WireOrder
    <2> QED BY <1>10, <1>11, <2>1 DEF OrderInv
  <1> QED BY <1>12, <1>13

LEMMA OrderOfBroadcasting == Known /\ Broadcast => OrderInv'
  <1> SUFFICES ASSUME Known, Broadcast PROVE OrderInv'
    OBVIOUS
  <1>0. /\ BrowserTypes /\ ServerTypes /\ Registered
        /\ FanoutOrder /\ PageOrder /\ WireOrder
    BY DEF Known, SessionsInv, OrderInv
  <1>1. /\ UNCHANGED <<sid, link, seen, published, toBrowser>>
        /\ channel # <<>> /\ channel' = Tail(channel) /\ event' = Head(channel)
        /\ targets' = subs[Head(channel).sym]
    BY DEF Broadcast, browser, wires
  <1>2. Latest' = Latest /\ Wire' = Wire BY <1>1 DEF Latest, Wire
  <1>3. channel \in Seq(Ticks) /\ channel \in Seq(Events)
    BY <1>0, TicksAreEvents DEF ServerTypes
  <1>4. Head(channel) \in Ticks BY <1>1, <1>3, HeadTailProperties
  <1>5. /\ Head(channel) = channel[1] /\ 1 \in 1..Len(channel)
        /\ \A i \in 1..Len(Tail(channel)) :
             i + 1 \in 1..Len(channel) /\ Tail(channel)[i] = channel[i + 1]
        /\ Rising(channel) => /\ Rising(Tail(channel))
                              /\ Beyond(Tail(channel), Head(channel).n)
        /\ UpTo(channel, published) => UpTo(Tail(channel), published)
        /\ Beyond(channel, Latest) => Beyond(Tail(channel), Latest)
    BY <1>1, <1>3, RestOfQueue
  <1>6. \A s \in targets' : ~(s > sid)
    <2>1. targets' \in SUBSET Sids /\ \A s \in targets' : loop[s] = "running"
      BY <1>0, <1>1, <1>4 DEF ServerTypes, Registered, Ticks
    <2> QED BY <1>0, <2>1 DEF Registered
  <1>7. FanoutOrder'
    BY <1>0, <1>1, <1>4, <1>5, <1>6 DEF FanoutOrder, UpTo
  <1>8. Latest < Head(channel).n
    <2>1. channel[1].n > Latest /\ channel[1].n \in Nat /\ Latest \in Nat
      BY <1>0, <1>3, <1>5, Numbers DEF PageOrder, Beyond
    <2> QED BY <1>5, <2>1
  <1>9. PageOrder'
    BY <1>0, <1>1, <1>2, <1>5, <1>8 DEF PageOrder
  <1>10. WireOrder'
    <2> SUFFICES ASSUME link = "open" PROVE WireOrder'
      BY <1>1 DEF WireOrder
    <2>1. Apart(Wire, channel) BY <1>0 DEF WireOrder
    <2>2. Apart(Wire, Tail(channel)) BY <1>5, <2>1 DEF Apart
    <2>3. Behind(Wire, Head(channel).n) BY <1>5, <2>1 DEF Apart, Behind
    <2> QED BY <1>0, <1>1, <1>2, <2>2, <2>3 DEF WireOrder
  <1> QED BY <1>7, <1>9, <1>10 DEF OrderInv

\* A target gets the tick once: it is none any more.
LEMMA OrderOfSending ==
    ASSUME Known, NEW s \in Sids, SendTo(s) PROVE OrderInv'
  <1>0. BrowserTypes /\ ServerTypes /\ FanoutOrder /\ PageOrder /\ WireOrder
    BY DEF Known, SessionsInv, OrderInv
  <1>1. /\ UNCHANGED <<sid, link, seen, published, channel, event>>
        /\ s \in targets /\ targets' = targets \ {s}
    BY DEF SendTo, browser
  <1>2. Latest' = Latest BY <1>1 DEF Latest
  <1>3. FanoutOrder' /\ PageOrder'
    BY <1>0, <1>1, <1>2 DEF FanoutOrder, PageOrder
  <1>4. CASE toBrowser' = toBrowser
    <2>1. Wire' = Wire BY <1>1, <1>4 DEF Wire
    <2>2. WireOrder' BY <1>0, <1>1, <1>2, <2>1 DEF WireOrder
    <2> QED BY <1>3, <2>2 DEF OrderInv
  <1>5. CASE /\ s = sid /\ link = "open"
             /\ toBrowser' = [toBrowser EXCEPT ![s] = Append(@, event)]
    <2>1. Wire \in Seq(Events) /\ Wire' = Append(Wire, event) /\ event \in Events
      BY <1>0, <1>1, <1>5 DEF Wire, ServerTypes
    <2>2. /\ Rising(Wire) /\ UpTo(Wire, published) /\ Fresh(Wire, Latest)
          /\ Apart(Wire, channel) /\ Behind(Wire, event.n)
      BY <1>0, <1>1, <1>5 DEF WireOrder
    <2>3. Latest < event.n /\ event.n <= published /\ Beyond(channel, event.n)
      BY <1>0, <1>1, <1>5 DEF PageOrder, FanoutOrder
    <2>4. \A i \in 1..Len(Wire') :
            \/ i \in 1..Len(Wire) /\ Wire'[i] = Wire[i]
            \/ Wire'[i] = event
      BY <2>1, LongerQueue
    <2>5. Rising(Wire') BY <2>1, <2>2, LongerQueue
    <2>6. UpTo(Wire', published) BY <2>2, <2>3, <2>4 DEF UpTo
    <2>7. event.n > Latest
      BY <1>0, <2>1, <2>3, Numbers
    <2>8. Fresh(Wire', Latest) BY <2>2, <2>4, <2>7 DEF Fresh
    <2>9. \A j \in 1..Len(channel) : event.n < channel[j].n
      <3>1. \A j \in 1..Len(channel) : channel[j].n \in Nat
        BY <1>0, TicksAreEvents, Numbers DEF ServerTypes
      <3>2. event.n \in Nat BY <2>1, Numbers
      <3> QED BY <2>3, <3>1, <3>2 DEF Beyond
    <2>10. Apart(Wire', channel) BY <2>2, <2>4, <2>9 DEF Apart
    <2>11. WireOrder'
      BY <1>1, <1>2, <1>5, <2>5, <2>6, <2>8, <2>10 DEF WireOrder
    <2> QED BY <1>3, <2>11 DEF OrderInv
  <1> QED BY <1>4, <1>5 DEF SendTo

\* What else happens takes ticks or targets away, or closes the connection.
LEMMA OrderOfLosing ==
    ASSUME Known,
           UNCHANGED <<sid, seen, published>>,
           link' # "open" \/ (link' = link /\ toBrowser' = toBrowser),
           channel' = channel \/ channel' = <<>>,
           UNCHANGED <<event, targets>> \/ (event' = NoEvent /\ targets' = targets
                                             /\ targets = {})
    PROVE  OrderInv'
  <1>0. BrowserTypes /\ ServerTypes /\ FanoutOrder /\ PageOrder /\ WireOrder
    BY DEF Known, SessionsInv, OrderInv
  <1>1. Latest' = Latest BY DEF Latest
  <1>2. /\ Rising(channel') /\ UpTo(channel', published)
        /\ Beyond(channel', Latest) /\ Beyond(channel', event.n)
    BY <1>0 DEF FanoutOrder, PageOrder, Rising, UpTo, Beyond
  <1>3. Beyond(channel', event'.n) /\ event'.n <= published
    <2>1. CASE event' = event BY <1>0, <1>2, <2>1 DEF FanoutOrder
    <2>2. CASE event' = NoEvent
      <3>1. NoEvent.n = 0 BY DEF NoEvent
      <3>2. \A j \in 1..Len(channel) : channel[j] \in Ticks
        BY <1>0, ElementOfSeq DEF ServerTypes
      <3>3. Beyond(channel, 0) BY <3>2 DEF Ticks, Beyond
      <3>4. Beyond(channel', 0) BY <3>3 DEF Beyond
      <3> QED BY <1>0, <2>2, <3>1, <3>4 DEF ServerTypes
    <2> QED BY <2>1, <2>2
  <1>4. FanoutOrder'
    BY <1>0, <1>2, <1>3 DEF FanoutOrder
  <1>5. PageOrder'
    BY <1>0, <1>1, <1>2 DEF PageOrder
  <1>6. WireOrder'
    <2>1. CASE link' # "open" BY <2>1 DEF WireOrder
    <2>2. CASE link = "open" /\ link' = link /\ toBrowser' = toBrowser
      <3>1. Wire' = Wire BY <2>2 DEF Wire
      <3>2. Apart(Wire, channel') BY <1>0, <2>2 DEF WireOrder, Apart
      <3> QED BY <1>0, <1>1, <2>2, <3>1, <3>2 DEF WireOrder
    <2> QED BY <2>1, <2>2
  <1> QED BY <1>4, <1>5, <1>6 DEF OrderInv

\* Every step keeps the order and is one of TickFeed, or invisible to it.
LEMMA OrderStep ==
    Known /\ [QsNext]_qsVars => OrderInv' /\ [Feed!Publish \/ Feed!Deliver]_Feed!feedVars
  <1> SUFFICES ASSUME Known, [QsNext]_qsVars
               PROVE  OrderInv' /\ [Feed!Publish \/ Feed!Deliver]_Feed!feedVars
    OBVIOUS
  <1> USE DEF Feed!feedVars
  <1>1. CASE OpenSocket
    BY <1>1, OrderOfOpening DEF OpenSocket, fanout
  <1>2. CASE LinkLost
    <2>1. OrderInv' BY <1>2, OrderOfLosing DEF LinkLost, fanout
    <2> QED BY <1>2, <2>1 DEF LinkLost, fanout
  <1>3. CASE HandleConnected
    <2>1. OrderInv' BY <1>3, OrderOfReading DEF HandleConnected, Wire
    <2> QED BY <1>3, <2>1 DEF HandleConnected, fanout
  <1>4. CASE HandleTick
    <2>1. /\ seen' = Append(seen, Head(Wire).n) /\ Head(Wire) # NoEvent
          /\ published' = published
      BY <1>4 DEF HandleTick, Wire, fanout
    <2>2. /\ OrderInv'
          /\ seen' # seen => Head(Wire).n \in (Latest + 1)..published
      BY <1>4, <2>1, OrderOfReading DEF HandleTick, Wire
    <2>3. CASE seen' # seen
      <3>1. Head(Wire).n \in (Feed!Newest + 1)..published
        BY <2>2, <2>3 DEF Latest, Feed!Newest
      <3>2. Feed!Deliver BY <2>1, <3>1 DEF Feed!Deliver
      <3> QED BY <2>2, <3>2
    <2>4. CASE seen' = seen BY <2>1, <2>2, <2>4
    <2> QED BY <2>3, <2>4
  <1>5. ASSUME NEW sym \in Symbols, PublishTick(sym)
        PROVE  OrderInv' /\ [Feed!Publish \/ Feed!Deliver]_Feed!feedVars
    <2>1. Feed!Publish BY <1>5 DEF PublishTick, Feed!Publish, browser
    <2> QED BY <1>5, <2>1, OrderOfPublishing
  <1>6. CASE Accept
    BY <1>6, OrderOfAccepting DEF Accept, fanout
  <1>7. CASE Broadcast
    BY <1>7, OrderOfBroadcasting DEF Broadcast, browser
  <1>8. ASSUME NEW s \in Sids, SendTo(s)
        PROVE  OrderInv' /\ [Feed!Publish \/ Feed!Deliver]_Feed!feedVars
    BY <1>8, OrderOfSending DEF SendTo, browser
  <1>9. CASE RedisFails \/ Resubscribe \/ CleanupDead
    <2>1. OrderInv'
      BY <1>9, OrderOfLosing DEF RedisFails, Resubscribe, CleanupDead, browser, wires
    <2> QED BY <1>9, <2>1 DEF RedisFails, Resubscribe, CleanupDead, browser
  <1>10. CASE UNCHANGED <<sid, link, seen, toBrowser, fanout>>
    <2>1. OrderInv' BY <1>10, OrderOfLosing DEF fanout
    <2> QED BY <1>10, <2>1 DEF fanout
  <1> QED
    BY <1>1, <1>2, <1>3, <1>4, <1>5, <1>6, <1>7, <1>8, <1>9, <1>10
    DEF QsNext, Browser, Endpoint, Fanout, RunEffect, ChangePage, HandleMessage,
        Disconnect, browser, wires, qsVars

THEOREM OrderInvariant == QsSpec => []OrderInv
  <1>1. SessionsInv /\ OrderInv /\ [QsNext]_qsVars => OrderInv'
    BY OrderStep DEF Known
  <1> QED BY <1>1, OrderInitially, SessionsInvariant, PTL DEF QsSpec

\* For any connections, reconnects, failures and ticks, the way of a tick to the
\* page implements TickFeed: in order, none twice.
THEOREM InOrderHolds == QsSpec => InOrder
  <1>1. QsInit => Feed!FeedInit BY DEF QsInit, Feed!FeedInit
  <1>2. SessionsInv /\ OrderInv /\ [QsNext]_qsVars
          => [Feed!Publish \/ Feed!Deliver]_Feed!feedVars
    BY OrderStep DEF Known
  <1> QED BY <1>1, <1>2, OrderInvariant, SessionsInvariant, PTL
          DEF QsSpec, InOrder, Feed!FeedSpec

-----------------------------------------------------------------------------
(* The page *)

LastOf(q) == q[Len(q)]
FollowsPage == page \subseteq SubsOf(sid) \/ Cardinality(SubsOf(sid)) >= MaxSubs

\* The session of an open connection is registered and not given up as dead.
Alive ==
    /\ \A s \in targets \cup dead : loop[s] # "none"
    /\ link = "open" => sid \in conns /\ sid \notin dead
    /\ status = "connected" => link = "open"

\* After the effect the subscription of the page is the last message, until it
\* was handled.
OnItsWay ==
    status = "connected" /\ ~dirty /\ page # {} =>
      IF toServer[sid] = <<>> THEN FollowsPage
                              ELSE LastOf(toServer[sid]) = Msg("subscribe", page)

FollowInv == Alive /\ OnItsWay

LEMMA FollowInitially == QsInit => FollowInv
  BY DEF QsInit, FollowInv, Alive, OnItsWay

LEMMA AliveKept == SessionsInv /\ Alive /\ [QsNext]_qsVars => Alive'
  <1> SUFFICES ASSUME SessionsInv, Alive, [QsNext]_qsVars PROVE Alive'
    OBVIOUS
  <1>0. BrowserTypes /\ ServerTypes /\ Registered BY DEF SessionsInv
  <1>1. CASE Accept
    <2>1. /\ sid \in Sids /\ loop[sid] = "none" /\ link = "opening"
          /\ loop' = [loop EXCEPT ![sid] = "running"]
          /\ loop \in [Sids -> {"none", "running", "ended"}]
          /\ conns' = conns \cup {sid} /\ UNCHANGED <<sid, targets, dead, status>>
      BY <1>0, <1>1 DEF Accept, BrowserTypes, ServerTypes, Registered, fanout
    <2> QED BY <2>1 DEF Alive
  <1>2. ASSUME NEW s \in Sids, Disconnect(s) PROVE Alive'
    <2>1. /\ loop' = [loop EXCEPT ![s] = "ended"] /\ conns' = conns \ {s}
          /\ loop \in [Sids -> {"none", "running", "ended"}]
          /\ s # sid \/ link # "open"
          /\ UNCHANGED <<sid, link, status, targets, dead>>
      BY <1>0, <1>2 DEF Disconnect, ServerTypes, browser, fanout
    <2> QED BY <2>1 DEF Alive
  <1>3. CASE Broadcast
    <2>1. channel \in Seq(Ticks) /\ channel # <<>> BY <1>0, <1>3 DEF Broadcast, ServerTypes
    <2>2. Head(channel).sym \in Symbols
      <3>1. Head(channel) \in Ticks BY <2>1, HeadTailProperties
      <3> QED BY <3>1 DEF Ticks
    <2>3. /\ targets' = subs[Head(channel).sym] /\ dead' = {}
          /\ UNCHANGED <<sid, link, status, loop, conns>>
      BY <1>3 DEF Broadcast, browser, manager
    <2>4. \A s \in targets' : loop[s] = "running" BY <1>0, <2>2, <2>3 DEF Registered
    <2> QED BY <2>3, <2>4 DEF Alive
  <1>4. ASSUME NEW s \in Sids, SendTo(s) PROVE Alive'
    <2>1. /\ s \in targets /\ targets' \subseteq targets /\ dead' \subseteq dead \cup {s}
          /\ UNCHANGED <<sid, link, status, loop, conns>>
      BY <1>4 DEF SendTo, browser, manager
    <2>2. link = "open" => sid \notin dead'
      <3> SUFFICES ASSUME link = "open" PROVE sid \notin dead' OBVIOUS
      <3>1. sid \in conns /\ sid \notin dead BY DEF Alive
      <3>2. CASE s = sid BY <1>4, <3>1, <3>2 DEF SendTo
      <3> QED BY <2>1, <3>1, <3>2
    <2> QED BY <2>1, <2>2 DEF Alive
  <1>5. CASE CleanupDead
    BY <1>5 DEF CleanupDead, Alive, browser
  <1>6. CASE OpenSocket \/ LinkLost
    BY <1>6 DEF OpenSocket, LinkLost, Alive, manager, fanout
  <1>7. CASE HandleConnected
    BY <1>7 DEF HandleConnected, Alive, manager, fanout
  <1>8. CASE UNCHANGED <<sid, link, status, loop, conns, targets, dead>>
    BY <1>8 DEF Alive
  <1> QED
    BY <1>1, <1>2, <1>3, <1>4, <1>5, <1>6, <1>7, <1>8
    DEF QsNext, Browser, Endpoint, Fanout, HandleTick, RunEffect, ChangePage,
        HandleMessage, PublishTick, RedisFails, Resubscribe, manager, fanout,
        browser, qsVars

\* A subscription of a registered session brings all its symbols or fills it.
LEMMA SubscriptionFollows ==
    ASSUME NEW s \in conns, NEW S \in SUBSET Symbols, SubscribeQuotes(s, S),
           subs \in [Symbols -> SUBSET Sids]
    PROVE  S \subseteq SubsOf(s)' \/ Cardinality(SubsOf(s)') >= MaxSubs
  <1> DEFINE H == SubsOf(s)
  <1>1. PICK acc \in SUBSET S :
          /\ IF Cardinality(H) + Cardinality(S \ H) <= MaxSubs
             THEN acc = S
             ELSE /\ Cardinality(H) < MaxSubs =>
                       Cardinality(H) + Cardinality(acc \ H) = MaxSubs
                  /\ Cardinality(H) >= MaxSubs => acc = {}
          /\ subs' = [sym \in Symbols |->
                        IF sym \in acc THEN subs[sym] \cup {s} ELSE subs[sym]]
    BY DEF SubscribeQuotes
  <1>2. SubsOf(s)' = H \cup acc
    <2>1. \A sym \in Symbols :
            s \in subs'[sym] <=> sym \in acc \/ s \in subs[sym]
      BY <1>1
    <2> QED BY <2>1 DEF SubsOf
  <1>3. IsFiniteSet(H) /\ Cardinality(H) \in Nat BY SymbolsOfASession
  <1>4. IsFiniteSet(acc)
    BY <1>1, StreamAssumption, FS_Subset DEF StreamAssumption
  <1>5. MaxSubs \in Nat BY StreamAssumption DEF StreamAssumption
  <1> HIDE DEF H
  <1>6. CASE acc = S BY <1>2, <1>6
  <1>7. CASE Cardinality(H) >= MaxSubs /\ acc = {}
    <2>1. SubsOf(s)' = H BY <1>2, <1>7
    <2> QED BY <2>1, <1>7
  <1>8. CASE Cardinality(H) + Cardinality(acc \ H) = MaxSubs
    <2>1. IsFiniteSet(acc \ H) /\ H \cap (acc \ H) = {} /\ H \cup (acc \ H) = H \cup acc
      BY <1>4, FS_Difference
    <2>2. Cardinality(H \cup (acc \ H))
            = Cardinality(H) + Cardinality(acc \ H) - Cardinality(H \cap (acc \ H))
      BY <1>3, <2>1, FS_Union
    <2>3. Cardinality(H \cap (acc \ H)) = 0 BY <2>1, FS_EmptySet
    <2>4. Cardinality(acc \ H) \in Nat BY <2>1, FS_CardinalityType
    <2>5. Cardinality(H \cup (acc \ H)) = MaxSubs BY <1>3, <1>8, <2>2, <2>3, <2>4
    <2>6. Cardinality(SubsOf(s)') = MaxSubs BY <1>2, <2>1, <2>5
    <2> QED BY <1>5, <2>6
  <1> QED BY <1>1, <1>3, <1>5, <1>6, <1>7, <1>8

\* The rest of a queue has the same last message, unless the head was the last.
LEMMA LastOfRest ==
    ASSUME NEW q \in Seq(Msgs), q # <<>>
    PROVE  IF Tail(q) = <<>> THEN LastOf(q) = Head(q) ELSE LastOf(Tail(q)) = LastOf(q)
  <1>1. Len(q) \in Nat \ {0} /\ Tail(q) \in Seq(Msgs) /\ Len(Tail(q)) = Len(q) - 1
    BY EmptySeq, HeadTailProperties
  <1>2. CASE Tail(q) = <<>>
    <2>1. Len(q) = 1 BY <1>1, <1>2
    <2> QED BY <1>2, <2>1 DEF LastOf
  <1>3. CASE Tail(q) # <<>>
    <2>1. Len(Tail(q)) \in 1..Len(Tail(q)) BY <1>1, <1>3, EmptySeq
    <2>2. Tail(q)[Len(Tail(q))] = q[Len(Tail(q)) + 1] BY <1>1, <2>1, HeadTailProperties
    <2> QED BY <1>1, <1>3, <2>2 DEF LastOf
  <1> QED BY <1>2, <1>3

LEMMA OnItsWayKept ==
    SessionsInv /\ Alive /\ OnItsWay /\ [QsNext]_qsVars => OnItsWay'
  <1> SUFFICES ASSUME SessionsInv, Alive, OnItsWay, [QsNext]_qsVars,
                      status' = "connected", ~dirty', page' # {}
               PROVE  IF toServer'[sid'] = <<>> THEN FollowsPage'
                      ELSE LastOf(toServer'[sid']) = Msg("subscribe", page')
    BY DEF OnItsWay
  <1>0. BrowserTypes /\ ServerTypes /\ Registered BY DEF SessionsInv
  <1>1. ASSUME UNCHANGED <<sid, status, dirty, page, toServer>>, SubsOf(sid)' = SubsOf(sid)
        PROVE  IF toServer'[sid'] = <<>> THEN FollowsPage'
               ELSE LastOf(toServer'[sid']) = Msg("subscribe", page')
    BY <1>1 DEF OnItsWay, FollowsPage
  <1>2. CASE RunEffect
    <2> DEFINE cleaned == IF held = {} THEN toServer[sid]
                          ELSE Sent(toServer[sid], Msg("unsubscribe", held))
    <2>1. status = "connected" /\ page' = page /\ sid' = sid BY <1>2 DEF RunEffect
    <2>2. link = "open" /\ sid \in Sids BY <1>0, <2>1 DEF Alive, BrowserTypes
    <2>3. toServer[sid] \in Seq(Msgs) /\ held \in SUBSET Symbols /\ page \in SUBSET Symbols
      BY <1>0, <2>2 DEF BrowserTypes
    <2>4. cleaned \in Seq(Msgs) BY <2>3, Sends
    <2>5. Msg("subscribe", page) \in Msgs BY <2>3, Sends
    <2>6. toServer' = [toServer EXCEPT ![sid] = Sent(cleaned, Msg("subscribe", page))]
      BY <1>2, <2>1 DEF RunEffect
    <2> HIDE DEF cleaned
    <2>7. Sent(cleaned, Msg("subscribe", page)) = Append(cleaned, Msg("subscribe", page))
      BY <2>2 DEF Sent
    <2>8. toServer'[sid] = Append(cleaned, Msg("subscribe", page))
      BY <1>0, <2>2, <2>6, <2>7 DEF BrowserTypes
    <2>9. LastOf(toServer'[sid]) = Msg("subscribe", page) /\ toServer'[sid] # <<>>
      BY <2>4, <2>5, <2>8 DEF LastOf
    <2> QED BY <2>1, <2>9
  <1>3. ASSUME NEW s \in Sids, HandleMessage(s)
        PROVE  IF toServer'[sid'] = <<>> THEN FollowsPage'
               ELSE LastOf(toServer'[sid']) = Msg("subscribe", page')
    <2>1. /\ UNCHANGED <<sid, link, status, dirty, page, conns>>
          /\ toServer' = [toServer EXCEPT ![s] = Tail(@)]
      BY <1>3 DEF HandleMessage, browser
    <2>2. sid \in Sids /\ sid \in conns BY <1>0, <2>1 DEF Alive, BrowserTypes
    <2>3. CASE s # sid
      <3>1. SubsOf(sid)' = SubsOf(sid) /\ toServer'[sid] = toServer[sid]
        BY <1>0, <1>3, <2>1, <2>2, <2>3, MessageOfOthers DEF BrowserTypes, SubsOf
      <3> QED BY <2>1, <3>1 DEF OnItsWay, FollowsPage
    <2>4. CASE s = sid
      <3> DEFINE q == toServer[sid]
      <3>1. q \in Seq(Msgs) /\ q # <<>> /\ toServer'[sid] = Tail(q)
        BY <1>0, <1>3, <2>1, <2>2, <2>4 DEF HandleMessage, BrowserTypes
      <3>2. LastOf(q) = Msg("subscribe", page) BY <2>1, <3>1 DEF OnItsWay
      <3> HIDE DEF q
      <3>3. CASE Tail(q) # <<>> BY <2>1, <3>1, <3>2, <3>3, LastOfRest
      <3>4. CASE Tail(q) = <<>>
        <4>0. PICK P \in SUBSET Symbols : P = page BY <1>0 DEF BrowserTypes
        <4>1. Head(q) = Msg("subscribe", P) BY <3>1, <3>2, <3>4, <4>0, LastOfRest
        <4>2. SubscribeQuotes(s, P) BY <1>3, <2>4, <4>1 DEF HandleMessage, Msg, q
        <4>3. s \in conns /\ subs \in [Symbols -> SUBSET Sids]
          BY <1>0, <2>2, <2>4 DEF ServerTypes
        <4>4. P \subseteq SubsOf(s)' \/ Cardinality(SubsOf(s)') >= MaxSubs
          BY <4>2, <4>3, SubscriptionFollows
        <4> QED BY <2>1, <2>4, <3>1, <3>4, <4>0, <4>4 DEF FollowsPage, SubsOf
      <3> QED BY <3>3, <3>4
    <2> QED BY <2>3, <2>4
  <1>4. ASSUME NEW S, sid \notin S, subs' = Without(S),
               UNCHANGED <<sid, status, dirty, page, toServer>>
        PROVE  IF toServer'[sid'] = <<>> THEN FollowsPage'
               ELSE LastOf(toServer'[sid']) = Msg("subscribe", page')
    <2>1. SubsOf(sid)' = SubsOf(sid) BY <1>0, <1>4 DEF SubsOf, Without, ServerTypes
    <2> QED BY <1>1, <1>4, <2>1
  <1>5. ASSUME NEW s \in Sids, Disconnect(s)
        PROVE  IF toServer'[sid'] = <<>> THEN FollowsPage'
               ELSE LastOf(toServer'[sid']) = Msg("subscribe", page')
    <2>1. link = "open" BY <1>5 DEF Disconnect, Alive, browser
    <2> QED BY <1>4, <1>5, <2>1 DEF Disconnect, browser, wires
  <1>6. CASE CleanupDead
    <2>1. sid \notin dead BY <1>6 DEF CleanupDead, Alive, browser
    <2> QED BY <1>4, <1>6, <2>1 DEF CleanupDead, browser, wires
  <1>7. CASE OpenSocket \/ LinkLost \/ Accept
    BY <1>7 DEF OpenSocket, LinkLost, Accept, Alive
  <1>8. CASE HandleConnected \/ \E S \in Pages : ChangePage(S)
    BY <1>8 DEF HandleConnected, ChangePage
  <1>9. CASE UNCHANGED <<sid, status, dirty, page, toServer, subs>>
    <2>1. SubsOf(sid)' = SubsOf(sid) BY <1>9 DEF SubsOf
    <2> QED BY <1>1, <1>9, <2>1
  <1> QED
    BY <1>2, <1>3, <1>5, <1>6, <1>7, <1>8, <1>9
    DEF QsNext, Browser, Endpoint, Fanout, HandleTick, PublishTick, RedisFails,
        Resubscribe, Broadcast, SendTo, manager, browser, wires, qsVars

LEMMA FollowInvariant == QsSpec => []FollowInv
  <1>1. SessionsInv /\ FollowInv /\ [QsNext]_qsVars => FollowInv'
    BY AliveKept, OnItsWayKept DEF FollowInv
  <1> QED BY <1>1, FollowInitially, SessionsInvariant, PTL DEF QsSpec

\* Whatever connections were lost and pages changed: once nothing is on its way,
\* the server sends the symbols of the page or the session is full.
THEOREM PageIsFollowedHolds == QsSpec => []PageIsFollowed
  <1>1. SessionsInv /\ FollowInv => PageIsFollowed
    <2> SUFFICES ASSUME FollowInv, Settled PROVE FollowsPage
      BY DEF PageIsFollowed, FollowsPage
    <2>1. CASE page = {} BY <2>1 DEF FollowsPage
    <2>2. CASE page # {} BY <2>2 DEF FollowInv, OnItsWay, Settled
    <2> QED BY <2>1, <2>2
  <1> QED BY <1>1, FollowInvariant, SessionsInvariant, PTL
=============================================================================
