------------------------------ MODULE ApiKeys ------------------------------
(***************************************************************************)
(* The keys of the providers (backend/app/core/api_keys.py): an            *)
(* administrator changes a row of provider_configs and publishes a signal  *)
(* on which every process reads the rows again; get_next_api_key() hands   *)
(* the keys of one provider, Finnhub, out in turn, within a limit per key  *)
(* and window and past keys that rest after a 429.  Counters and keys are  *)
(* in the memory of each process.                                          *)
(***************************************************************************)
EXTENDS Integers, FiniteSets, Sequences, SequencesExt

CONSTANTS Processes,   \* the processes of the backend
          Keys,        \* Finnhub keys
          NoKey,       \* no key
          EnvKey,      \* FINNHUB_API_KEY
          EnvKeys,     \* FINNHUB_API_KEYS, a sequence
          Rows,        \* what provider_configs may say of Finnhub
          Limit,       \* _RATE_LIMITS: calls of a key in a window
          Window,      \* length of the window, and of a rest, in ticks
          Horizon,     \* bound on the clock
          MaxUpdates,  \* bound on the administrator's changes
          MaxLosses    \* bound on broken subscriptions

ASSUME KeysAssumption ==
    /\ NoKey \notin Keys /\ EnvKey \in Keys \union {NoKey} /\ EnvKeys \in Seq(Keys)
    /\ \A r \in Rows : r.primary \in Keys \union {NoKey} /\ r.extras \in Seq(Keys)
    /\ {Limit, Window} \subseteq Nat \ {0} /\ {Horizon, MaxUpdates, MaxLosses} \subseteq Nat

VARIABLES row,       \* the committed row: its key and its extra keys
          admin,     \* step of the update under way and its process
          updates, losses,
          loaded,    \* _api_keys and _api_key_pools of each process
          signal,    \* a reload signal waits for the process
          listening, \* the process' subscription is up
          clock,     \* time.monotonic()
          cursor,    \* _api_key_index
          usage,     \* _key_usage: calls of the window and its start
          cooldown,  \* _key_cooldown: end of the key's rest
          taken      \* history: per process and key, the ticks of the calls it served

akVars == <<row, admin, updates, losses, loaded, signal, listening, clock, cursor,
            usage, cooldown, taken>>
adminVars == <<row, admin, updates, losses, loaded, signal, listening>>
poolVars == <<clock, cursor, usage, cooldown, taken>>

NoRow == [primary |-> NoKey, extras |-> <<>>]
Idle == [at |-> "idle"]

\* The pool of a row: its key, then the extra keys not named yet.
PoolOf(r) ==
    FoldLeft(LAMBDA ks, k : IF k \in {ks[i] : i \in DOMAIN ks} THEN ks ELSE Append(ks, k),
             IF r.primary = NoKey THEN <<>> ELSE <<r.primary>>, r.extras)

\* get_api_keys(): a pool of the row counts only if it has more than one key.
KeysOf(p) ==
    LET r == loaded[p]
    IN CASE Len(PoolOf(r)) > 1 -> PoolOf(r)
         [] r.primary # NoKey -> <<r.primary>>
         [] EnvKeys # <<>> -> EnvKeys
         [] EnvKey # NoKey -> <<EnvKey>>
         [] OTHER -> <<>>

\* get_api_key(), which is_available() asks: it knows no pool.
PrimaryOf(p) == IF loaded[p].primary # NoKey THEN loaded[p].primary ELSE EnvKey

AkInit ==
    /\ row \in Rows /\ loaded = [p \in Processes |-> row]
    /\ admin = Idle /\ updates = 0 /\ losses = 0
    /\ signal = [p \in Processes |-> FALSE] /\ listening = [p \in Processes |-> TRUE]
    /\ clock = 0 /\ cursor = [p \in Processes |-> 0]
    /\ usage = [p \in Processes |-> [k \in Keys |-> [count |-> 0, since |-> -Window]]]
    /\ cooldown = [p \in Processes |-> [k \in Keys |-> 0]]
    /\ taken = [p \in Processes |-> [k \in Keys |-> <<>>]]

-----------------------------------------------------------------------------
(* The rows and their readers *)

\* update_provider() commits the row ...
UpdateProvider(p) ==
    /\ admin = Idle /\ updates < MaxUpdates
    /\ \E r \in Rows \ {row} : row' = r
    /\ admin' = [at |-> "committed", by |-> p] /\ updates' = updates + 1
    /\ UNCHANGED <<losses, loaded, signal, listening, poolVars>>

\* ... and publishes the signal to whoever listens; Redis may refuse it.
PublishReload ==
    /\ admin.at = "committed" /\ admin' = [admin EXCEPT !.at = "published"]
    /\ \/ signal' = [p \in Processes |-> signal[p] \/ listening[p]] /\ UNCHANGED losses
       \/ losses < MaxLosses /\ losses' = losses + 1 /\ UNCHANGED signal
    /\ UNCHANGED <<row, updates, loaded, listening, poolVars>>

\* load_api_keys_from_db() on a signal; a query that fails leaves the keys alone.
LoadApiKeys(p) ==
    /\ signal[p] /\ signal' = [signal EXCEPT ![p] = FALSE]
    /\ \/ loaded' = [loaded EXCEPT ![p] = row] /\ UNCHANGED losses
       \/ losses < MaxLosses /\ losses' = losses + 1 /\ UNCHANGED loaded
    /\ UNCHANGED <<row, admin, updates, listening, poolVars>>

\* _redis_key_subscriber() loses its connection and what was under way; after
\* five seconds it subscribes again, and reads nothing.
SubscriberFails(p) ==
    /\ listening[p] /\ losses < MaxLosses /\ losses' = losses + 1
    /\ listening' = [listening EXCEPT ![p] = FALSE]
    /\ signal' = [signal EXCEPT ![p] = FALSE]
    /\ UNCHANGED <<row, admin, updates, loaded, poolVars>>
SubscriberReturns(p) ==
    /\ ~listening[p] /\ listening' = [listening EXCEPT ![p] = TRUE]
    /\ UNCHANGED <<row, admin, updates, losses, loaded, signal, poolVars>>

-----------------------------------------------------------------------------
(* The pool *)

\* Mutant: one call more than the limit.
KeyAvailableOneMore(p, k) ==
    /\ clock >= cooldown[p][k]
    /\ clock - usage[p][k].since >= Window \/ usage[p][k].count <= Limit

\* _is_key_available()
KeyAvailable(p, k) ==
    /\ clock >= cooldown[p][k]
    /\ clock - usage[p][k].since >= Window \/ usage[p][k].count < Limit

\* _record_usage()
Recorded(u) == IF clock - u.since >= Window THEN [count |-> 1, since |-> clock]
               ELSE [u EXCEPT !.count = @ + 1]

\* Positions of the keys that may be used, and the turn of a position: how many
\* keys are tried before it, from the cursor on and round.
Usable(p) == LET ks == KeysOf(p) IN {i \in DOMAIN ks : KeyAvailable(p, ks[i])}
Turns(p, i) == (i - 1 - cursor[p]) % Len(KeysOf(p))

\* get_next_api_key() returns k ...
TakeKey(p, k) ==
    \E i \in Usable(p) :
       /\ \A j \in Usable(p) : Turns(p, i) <= Turns(p, j)
       /\ k = KeysOf(p)[i]
       /\ cursor' = [cursor EXCEPT ![p] = i]
       /\ usage' = [usage EXCEPT ![p][k] = Recorded(@)]
       /\ taken' = [taken EXCEPT ![p][k] = Append(@, clock)]
       /\ UNCHANGED <<clock, cooldown>>

\* ... or None and changes nothing.
NoKeyLeft(p) == Usable(p) = {} /\ UNCHANGED poolVars

\* mark_key_rate_limited(), for the 429 of a call.
MarkKeyRateLimited(p, k) ==
    /\ cooldown' = [cooldown EXCEPT ![p][k] = clock + Window]
    /\ UNCHANGED <<clock, cursor, usage, taken>>

Tick ==
    /\ clock < Horizon /\ clock' = clock + 1
    /\ UNCHANGED <<adminVars, cursor, usage, cooldown, taken>>

AkNext ==
    \/ PublishReload
    \/ Tick
    \/ \E p \in Processes :
          \/ UpdateProvider(p) \/ LoadApiKeys(p)
          \/ SubscriberFails(p) \/ SubscriberReturns(p)
          \/ \E k \in Keys : (TakeKey(p, k) \/ MarkKeyRateLimited(p, k)) /\ UNCHANGED adminVars

AkSpec == AkInit /\ [][AkNext]_akVars

-----------------------------------------------------------------------------
\* A window starts at its first call, not at a call before it, so two of them
\* can meet; whatever the rotation, the reloads of the keys and the rests, a
\* process makes at most two windows' calls but one with a key in the length of
\* a window: a call is a window after the one that comes 2 * Limit - 1 before it.
KeyBudget ==
    \A p \in Processes, k \in Keys : \A i, j \in DOMAIN taken[p][k] :
        j - i >= 2 * Limit - 1 => taken[p][k][j] - taken[p][k][i] >= Window
=============================================================================
