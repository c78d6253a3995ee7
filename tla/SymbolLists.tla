---------------------------- MODULE SymbolLists ----------------------------
(***************************************************************************)
(* Lists kept in Redis for a day in front of a slower source, with a list  *)
(* built into the code to fall back on: the symbols of a market            *)
(* (backend/app/services/symbol_resolver.py) over the table that           *)
(* build_and_save_stock_list() of stock_list_persistence.py fills, the     *)
(* constituents of an index (index_constituents_service.py, hsi_service.py)*)
(* and the exchange rates (currency_service.py) over a remote service.     *)
(*                                                                         *)
(* The builds only add rows to the table, and a remote list only changes   *)
(* to a later one: a list is the number of changes it has seen, and 0 is   *)
(* the list to fall back on, also what an empty table comes to.            *)
(***************************************************************************)
EXTENDS Integers

CONSTANTS Lists,      \* the lists looked at
          Readers,    \* concurrent requests
          Builders,   \* concurrent builds of the stock list
          MaxChanges, \* bound on changes of the source
          MaxFailures \* bound on failed commands and queries

\* Whether the builds change the source, and whether the fallback is cached.
MarketSymbols == [built |-> TRUE, keeps |-> TRUE]
IndexConstituents == [built |-> FALSE, keeps |-> TRUE]
HsiConstituents == IndexConstituents
ExchangeRates == [built |-> FALSE, keeps |-> FALSE]

ASSUME ListAssumption == {MaxChanges, MaxFailures} \subseteq Nat

NoList == -1
Fallback == 0

VARIABLES list,     \* the list of this behaviour
          source,   \* changes of the source so far
          cache,    \* the list in Redis, NoList when there is none
          reader,   \* requests: where each is and the list it has
          builder,  \* builds: where each is
          version,  \* the source's changes when the version was last set
          failures,
          settled   \* history: a build ended with no request under way, and
                    \* nothing has changed or failed since

slVars == <<list, source, cache, reader, builder, version, failures, settled>>

Failure == failures < MaxFailures /\ failures' = failures + 1

SlInit ==
    /\ list \in Lists
    /\ source = 0 /\ cache = NoList /\ version = 0
    /\ reader = [r \in Readers |-> [pc |-> "idle", got |-> NoList]]
    /\ builder = [b \in Builders |-> "idle"]
    /\ failures = 0 /\ settled = FALSE

-----------------------------------------------------------------------------
(* A request. *)

\* A cached list is the answer; an unreadable cache is a miss.
GetCached(r) ==
    /\ reader[r].pc = "idle"
    /\ \/ cache = NoList /\ reader' = [reader EXCEPT ![r].pc = "ask"]
          /\ UNCHANGED failures
       \/ cache # NoList /\ UNCHANGED <<reader, failures>>
       \/ reader' = [reader EXCEPT ![r].pc = "ask"] /\ Failure
    /\ UNCHANGED <<list, source, cache, builder, version, settled>>

\* A source that fails leaves the fallback, which the rates do not cache.
AskSource(r) ==
    /\ reader[r].pc = "ask"
    /\ \/ reader' = [reader EXCEPT ![r] = [pc |-> "store", got |-> source]]
          /\ UNCHANGED failures
       \/ /\ reader' = [reader EXCEPT ![r] =
                          [pc |-> IF list.keeps THEN "store" ELSE "idle",
                           got |-> IF list.keeps THEN Fallback ELSE NoList]]
          /\ Failure
    /\ UNCHANGED <<list, source, cache, builder, version, settled>>

Store(r) ==
    /\ reader[r].pc = "store"
    /\ reader' = [reader EXCEPT ![r] = [pc |-> "idle", got |-> NoList]]
    /\ \/ cache' = reader[r].got /\ UNCHANGED failures
       \/ UNCHANGED cache /\ Failure
    /\ UNCHANGED <<list, source, builder, version, settled>>

-----------------------------------------------------------------------------
(* A build, which the scheduler and two endpoints start on any worker. *)

BuildStarts(b) ==
    /\ list.built /\ builder[b] = "idle" /\ source < MaxChanges
    /\ builder' = [builder EXCEPT ![b] = "save"]
    /\ UNCHANGED <<list, source, cache, reader, version, failures, settled>>

\* Nothing fetched, or less than half of what there is.
BuildRefused(b) ==
    /\ builder[b] = "save"
    /\ builder' = [builder EXCEPT ![b] = "idle"]
    /\ UNCHANGED <<list, source, cache, reader, version, failures, settled>>

\* A chunk is one transaction; more may follow, and one that fails ends it all.
SaveChunk(b) ==
    /\ builder[b] = "save" /\ source < MaxChanges
    /\ source' = source + 1 /\ settled' = FALSE
    /\ \E last \in BOOLEAN :
         builder' = [builder EXCEPT ![b] = IF last THEN "version" ELSE @]
    /\ UNCHANGED <<list, cache, reader, version, failures>>

SaveFails(b) ==
    /\ builder[b] = "save" /\ Failure
    /\ builder' = [builder EXCEPT ![b] = "idle"]
    /\ UNCHANGED <<list, source, cache, reader, version, settled>>

SetVersion(b) ==
    /\ builder[b] = "version"
    /\ builder' = [builder EXCEPT ![b] = "invalidate"]
    /\ \/ version' = source /\ UNCHANGED failures
       \/ UNCHANGED version /\ Failure
    /\ UNCHANGED <<list, source, cache, reader, settled>>

\* Mutant: only the version is set.
InvalidateNot(b) ==
    /\ builder[b] = "invalidate"
    /\ builder' = [builder EXCEPT ![b] = "idle"]
    /\ settled' = (\A r \in Readers : reader[r].pc = "idle")
    /\ UNCHANGED <<list, source, cache, reader, version, failures>>

Invalidate(b) ==
    /\ builder[b] = "invalidate"
    /\ builder' = [builder EXCEPT ![b] = "idle"]
    /\ \/ /\ cache' = NoList /\ UNCHANGED failures
          /\ settled' = (\A r \in Readers : reader[r].pc = "idle")
       \/ UNCHANGED <<cache, settled>> /\ Failure
    /\ UNCHANGED <<list, source, reader, version>>

-----------------------------------------------------------------------------
\* A remote list changes by itself.
SourceChanges ==
    /\ ~list.built /\ source < MaxChanges /\ source' = source + 1
    /\ settled' = FALSE
    /\ UNCHANGED <<list, cache, reader, builder, version, failures>>

\* Mutant: the list is stored without a time to live.
ExpireNever ==
    /\ FALSE
    /\ UNCHANGED slVars

Expire ==
    /\ cache # NoList /\ cache' = NoList
    /\ UNCHANGED <<list, source, reader, builder, version, failures, settled>>

SlNext ==
    \/ \E r \in Readers : GetCached(r) \/ AskSource(r) \/ Store(r)
    \/ \E b \in Builders :
         \/ BuildStarts(b) \/ BuildRefused(b) \/ SaveChunk(b) \/ SaveFails(b)
         \/ SetVersion(b) \/ Invalidate(b)
    \/ SourceChanges \/ Expire

SlSpec == SlInit /\ [][SlNext]_slVars

\* Redis lets keys expire, and a request ends by itself.
SlFair == /\ WF_slVars(Expire)
          /\ \A r \in Readers : WF_slVars(AskSource(r) \/ Store(r))

-----------------------------------------------------------------------------
(* Properties. *)

\* After a build that ended with no request under way and until the next one
\* saves a chunk, nobody is served an older list of symbols, as long as nothing
\* failed: whoever may put a list into the cache has read the table since.
InvalidationHolds ==
    settled /\ failures = 0 => cache \in {NoList, source}

\* Once the source stays as it is, an older list or a fallback that is cached
\* after a failure is gone in the end, also one that a slow request stores late.
StaleListsGo == <>[](cache \in {NoList, source})
=============================================================================
