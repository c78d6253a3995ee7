---------------------------- MODULE HistoryCache ----------------------------
(***************************************************************************)
(* Requests for the history of one symbol at one resolution: get_history() *)
(* of backend/app/api/public/stock.py over HistoryCacheService             *)
(* (backend/app/services/history_cache_service.py).  A request reads a     *)
(* file with a time to live (layer 2) or the table of daily bars (layer    *)
(* 3); who misses asks the provider under a Redis lock, the others wait.   *)
(* append_bars() and cleanup_expired_cache_files() have no caller.         *)
(*                                                                         *)
(* A write of the file is a temporary file of a fixed name, its content    *)
(* and a rename; two writers may share an inode.  A content is whole and   *)
(* fresh, whole and stale, or torn; which bars it has is left out.         *)
(***************************************************************************)
EXTENDS Integers, FiniteSets

CONSTANTS Callers,      \* the requests, by names
          Processes,
          MaxStale,     \* bound on expiries of the file
          MaxFaults     \* bound on crashes, lost locks and failed commands

ASSUME HistoryAssumption ==
    /\ IsFiniteSet(Callers) /\ "none" \notin Callers
    /\ {MaxStale, MaxFaults} \subseteq Nat

Inodes == 1..(Cardinality(Callers) + 2)
None == 0

VARIABLES layer,    \* where this resolution is kept, 2 or 3
          req,      \* requests: process, where each is, inode it writes
          path,     \* inode of the cache file, or None
          tmp,      \* inode of the temporary file, or None
          data,     \* content of every inode
          table,    \* the table has daily bars of the symbol
          holder,   \* the request in the lock key, "none" for no key
          faults,
          overlap,  \* history: two fetches wrote at a time
          stale,    \* history: number of expiries
          saved     \* history: number of files written under the lock

hcVars == <<layer, req, path, tmp, data, table, holder, faults, overlap, stale,
            saved>>
file == <<path, tmp, data>>
history == <<overlap, stale, saved>>

Writing == {"write", "rename"}
At(r, pc) == req[r].pc = pc
Goto(r, pc) == req' = [req EXCEPT ![r].pc = pc]
Fault == faults < MaxFaults /\ faults' = faults + 1
Content == IF path = None THEN "none" ELSE data[path]
\* _read_cache() answers for a whole and fresh file only.
Hit == IF layer = 2 THEN Content = "fresh" ELSE table

HcInit ==
    /\ layer \in {2, 3}
    /\ req \in [Callers -> {[pc |-> "idle", p |-> p, fd |-> None] :
                               p \in Processes}]
    /\ path = None /\ tmp = None /\ data = [i \in Inodes |-> "torn"]
    /\ table = FALSE /\ holder = "none" /\ faults = 0
    /\ overlap = FALSE /\ stale = 0 /\ saved = 0

\* The cache first; a table that cannot be read counts as a miss.
GetHistory(r) ==
    /\ At(r, "idle") /\ Goto(r, IF Hit THEN "done" ELSE "lock")
    /\ UNCHANGED <<layer, file, table, holder, faults, history>>

\* SET NX; without Redis the provider is asked without the lock.
LockedFetch(r) ==
    /\ At(r, "lock")
    /\ \/ /\ holder = "none" /\ holder' = r
          /\ Goto(r, IF layer = 2 THEN "check" ELSE "ask") /\ UNCHANGED faults
       \/ /\ holder # "none"
          /\ Goto(r, "wait") /\ UNCHANGED <<holder, faults>>
       \/ /\ holder' \in IF holder = "none" THEN {"none", r} ELSE {holder}
          /\ Goto(r, "alone") /\ Fault
    /\ UNCHANGED <<layer, file, table, history>>

\* Mutant: who gets the lock does not look at the file again.
DoubleCheckSkipped(r) ==
    /\ At(r, "check") /\ Goto(r, "ask")
    /\ UNCHANGED <<layer, file, table, holder, faults, history>>

DoubleCheck(r) ==
    /\ At(r, "check") /\ Goto(r, IF Hit THEN "release" ELSE "ask")
    /\ UNCHANGED <<layer, file, table, holder, faults, history>>

\* The provider's bars are written; without any, or of layer 3, they are not.
FetchFromProvider(r) ==
    /\ At(r, "ask")
    /\ \/ layer = 2 /\ Goto(r, "open")
       \/ Goto(r, "release")
    /\ UNCHANGED <<layer, file, table, holder, faults, history>>

\* write_bytes() empties the temporary file, or makes it.
Unused == CHOOSE i \in Inodes : i \notin {path, tmp} \cup {req[q].fd : q \in Callers}

\* Mutant: the file itself is written.
OpenTmpInPlace(r) ==
    /\ At(r, "open")
    /\ LET i == IF path # None THEN path ELSE Unused
       IN /\ path' = i /\ tmp' = i /\ data' = [data EXCEPT ![i] = "torn"]
          /\ req' = [req EXCEPT ![r].pc = "write", ![r].fd = i]
    /\ overlap' = (overlap \/ \E q \in Callers : req[q].pc \in Writing)
    /\ UNCHANGED <<layer, table, holder, faults, stale, saved>>

OpenTmp(r) ==
    /\ At(r, "open")
    /\ LET i == IF tmp # None THEN tmp ELSE Unused
       IN /\ tmp' = i /\ data' = [data EXCEPT ![i] = "torn"]
          /\ req' = [req EXCEPT ![r].pc = "write", ![r].fd = i]
    /\ overlap' = (overlap \/ \E q \in Callers : req[q].pc \in Writing)
    /\ UNCHANGED <<layer, path, table, holder, faults, stale, saved>>

\* Over another's content that was longer its end stays behind.
WriteTmp(r) ==
    /\ At(r, "write")
    /\ \E c \in {"fresh"} \cup (IF data[req[r].fd] = "torn" THEN {} ELSE {"torn"}) :
         data' = [data EXCEPT ![req[r].fd] = c]
    /\ req' = [req EXCEPT ![r].pc = "rename", ![r].fd = None]
    /\ UNCHANGED <<layer, path, tmp, table, holder, faults, history>>

\* What another one renamed is not there any more, which is only logged.
Rename(r) ==
    /\ At(r, "rename") /\ Goto(r, "release")
    /\ IF tmp = None THEN UNCHANGED <<path, saved>>
                     ELSE path' = tmp /\ saved' = saved + 1
    /\ tmp' = None
    /\ UNCHANGED <<layer, data, table, holder, faults, overlap, stale>>

\* A failed write is logged, and the bars are answered all the same.
WriteFails(r) ==
    /\ req[r].pc \in {"open"} \cup Writing
    /\ req' = [req EXCEPT ![r].pc = "release", ![r].fd = None] /\ Fault
    /\ UNCHANGED <<layer, file, table, holder, history>>

\* Compare and delete; then the bars, or the provider once more without any.
Release(r) ==
    /\ At(r, "release")
    /\ \/ holder' = (IF holder = r THEN "none" ELSE holder) /\ UNCHANGED faults
       \/ UNCHANGED holder /\ Fault
    /\ Goto(r, "done")
    /\ UNCHANGED <<layer, file, table, history>>

\* Ten looks at the file or the table, then the provider without the lock.
Wait(r) ==
    /\ At(r, "wait")
    /\ Goto(r, "done")
    /\ UNCHANGED <<layer, file, table, holder, faults, history>>

FetchAlone(r) ==
    /\ At(r, "alone") /\ Goto(r, "done")
    /\ UNCHANGED <<layer, file, table, holder, faults, history>>

-----------------------------------------------------------------------------
(* The surroundings. *)

Crash(p) ==
    /\ \E r \in Callers : req[r].p = p /\ ~At(r, "done") /\ ~At(r, "idle")
    /\ req' = [r \in Callers |->
                 IF req[r].p = p /\ ~At(r, "idle")
                 THEN [req[r] EXCEPT !.pc = "done", !.fd = None] ELSE req[r]]
    /\ Fault
    /\ UNCHANGED <<layer, file, table, holder, history>>

\* The lock key lives 60 s, or 120 s for layer 3, whatever its owner does.
LockExpires ==
    /\ holder # "none" /\ holder' = "none"
    /\ \/ At(holder, "done") /\ UNCHANGED faults
       \/ ~At(holder, "done") /\ Fault
    /\ UNCHANGED <<layer, req, file, table, history>>

FileExpires ==
    /\ Content = "fresh" /\ stale < MaxStale
    /\ data' = [data EXCEPT ![path] = "stale"]
    /\ stale' = stale + 1
    /\ UNCHANGED <<layer, req, path, tmp, table, holder, faults, overlap, saved>>

\* The collection stores the symbol.
TableFills ==
    /\ layer = 3 /\ ~table /\ table' = TRUE
    /\ UNCHANGED <<layer, req, file, holder, faults, history>>

HcNext ==
    \/ \E r \in Callers :
         \/ GetHistory(r) \/ LockedFetch(r) \/ DoubleCheck(r)
         \/ FetchFromProvider(r) \/ OpenTmp(r) \/ WriteTmp(r) \/ Rename(r)
         \/ WriteFails(r) \/ Release(r) \/ Wait(r) \/ FetchAlone(r)
    \/ \E p \in Processes : Crash(p)
    \/ LockExpires \/ FileExpires \/ TableFills

HcSpec == HcInit /\ [][HcNext]_hcVars

-----------------------------------------------------------------------------
(* Properties. *)

\* Wherever a write breaks off, the cache file is whole, unless two fetches
\* wrote it at a time because one outlived its lock.
TornOnlyByOverlap == Content = "torn" => overlap

\* While nothing fails, at most one file is written under the lock to begin with
\* and one more for every time it expires, however many requests miss together.
\* It counts files: a fetch that returns no bars, one of layer 3 and one of a
\* request that waited in vain write none.
FetchedOnce == faults = 0 => saved <= stale + 1
=============================================================================
