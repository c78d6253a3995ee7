---------------------------- MODULE CachesProofs ----------------------------
(***************************************************************************)
(* Proofs about the caches, for any requests, processes and faults.        *)
(*                                                                         *)
(* HistoryCache: the cache file is torn only after two fetches wrote it at *)
(* a time, and while nothing fails it is written under the lock once, and  *)
(* once more each time it expires.  Until writers overlap there is one of  *)
(* them, and the temporary file has what it has written so far (Quiet).    *)
(* Until something fails the lock is held by whoever works under it, so    *)
(* writers do not overlap, and who looked at the file under the lock finds *)
(* it as it was (Locked).                                                  *)
(*                                                                         *)
(* SymbolLists: after a build that ended with no request under way, and    *)
(* while nothing fails, every list that is cached, and every list a        *)
(* request is about to cache, is the source's (SlInv).                     *)
(***************************************************************************)
EXTENDS HistoryCache, SymbolLists, FiniteSetTheorems, TLAPS

Pcs == {"idle", "lock", "check", "ask", "open", "write", "rename", "release",
        "wait", "alone", "done"}
UnderLock == {"check", "ask", "open", "write", "rename", "release"}
Missed == {"ask", "open", "write", "rename"}

Quiet ==
    /\ req \in [Callers -> [pc : Pcs, p : Processes, fd : Inodes \cup {None}]]
    /\ path \in Inodes \cup {None} /\ tmp \in Inodes \cup {None}
    /\ data \in [Inodes -> {"fresh", "stale", "torn"}]
    /\ path # None => path # tmp /\ data[path] # "torn"
    /\ \A r \in Callers :
         /\ req[r].fd # None => req[r].pc = "write"
         /\ req[r].pc = "write" => /\ tmp # None /\ req[r].fd = tmp
                                   /\ data[tmp] = "torn"
         /\ req[r].pc = "rename" => tmp # None /\ data[tmp] = "fresh"
    /\ \A r, q \in Callers :
         req[r].pc \in Writing /\ req[q].pc \in Writing => r = q

Locked ==
    /\ ~overlap /\ layer \in {2, 3} /\ saved \in Nat /\ stale \in Nat
    /\ \A r \in Callers : req[r].pc \in UnderLock <=> holder = r
    /\ \A r \in Callers :
         /\ req[r].pc \in {"check", "open", "write", "rename"} => layer = 2
         /\ layer = 2 /\ req[r].pc \in Missed => Content # "fresh"
    /\ IF Content = "fresh" THEN saved <= stale + 1 ELSE saved <= stale

HcInv == /\ faults \in Nat /\ overlap \in BOOLEAN
         /\ ~overlap => Quiet
         /\ faults = 0 => Locked

LEMMA HcInitially == HcInit => HcInv
  <1> SUFFICES ASSUME HcInit PROVE HcInv
    OBVIOUS
  <1>1. ASSUME NEW r \in Callers
        PROVE  /\ req[r].pc = "idle" /\ req[r].fd = None
               /\ req[r] \in [pc : Pcs, p : Processes, fd : Inodes \cup {None}]
    BY DEF HcInit, Pcs
  <1>2. Quiet
    BY <1>1 DEF HcInit, Quiet, Writing, None
  <1>3. Locked
    BY <1>1, HistoryAssumption DEF HcInit, Locked, UnderLock, Missed, Content,
                                   HistoryAssumption
  <1> QED BY <1>2, <1>3 DEF HcInit, HcInv

\* Once writers have overlapped, something had failed.
LEMMA OverlapStays == HcInv /\ overlap /\ [HcNext]_hcVars => HcInv'
  <1> SUFFICES ASSUME HcInv, overlap, [HcNext]_hcVars PROVE HcInv'
    OBVIOUS
  <1>1. faults \in Nat /\ faults # 0 BY DEF HcInv, Locked
  <1>2. faults' = faults \/ faults' = faults + 1
    BY DEF HcNext, hcVars, GetHistory, LockedFetch, DoubleCheck, FetchFromProvider,
           OpenTmp, WriteTmp, Rename, WriteFails, Release, Wait, FetchAlone, Crash,
           LockExpires, FileExpires, TableFills, Fault
  <1>3. overlap' = TRUE
    BY DEF HcNext, hcVars, history, GetHistory, LockedFetch, DoubleCheck,
           FetchFromProvider, OpenTmp, WriteTmp, Rename, WriteFails, Release, Wait,
           FetchAlone, Crash, LockExpires, FileExpires, TableFills
  <1> QED BY <1>1, <1>2, <1>3 DEF HcInv

\* A request goes on to x, with the descriptor d.
GoesOn(r, x, d) ==
    req' = [req EXCEPT ![r].pc = x, ![r].fd = d]

LEMMA WhereRequestsAre ==
    ASSUME Quiet, NEW r \in Callers, NEW x \in Pcs, NEW d \in Inodes \cup {None},
           GoesOn(r, x, d)
    PROVE  /\ req' \in [Callers -> [pc : Pcs, p : Processes, fd : Inodes \cup {None}]]
           /\ req'[r].pc = x /\ req'[r].fd = d
           /\ \A q \in Callers : q # r => req'[q] = req[q]
  BY DEF Quiet, GoesOn

LEMMA GotoGoesOn ==
    ASSUME Quiet, NEW r \in Callers, req[r].pc # "write", NEW x \in Pcs, Goto(r, x)
    PROVE  /\ req' \in [Callers -> [pc : Pcs, p : Processes, fd : Inodes \cup {None}]]
           /\ req'[r].pc = x /\ req'[r].fd = None
           /\ \A q \in Callers : q # r => req'[q] = req[q]
  BY DEF Quiet, Goto

\* A step that leaves the file alone and starts no writing.
Walks(r, x) ==
    /\ req[r].pc # "write" /\ Goto(r, x) /\ x \in Pcs \ Writing
    /\ UNCHANGED <<layer, file, history>>

LEMMA WalkIsQuiet ==
    ASSUME Quiet, NEW r \in Callers, NEW x, Walks(r, x) PROVE Quiet'
  <1>1. /\ req' \in [Callers -> [pc : Pcs, p : Processes, fd : Inodes \cup {None}]]
        /\ req'[r].pc = x /\ req'[r].fd = None
        /\ \A q \in Callers : q # r => req'[q] = req[q]
    BY GotoGoesOn DEF Walks
  <1>2. x # "write" /\ x # "rename" BY DEF Walks, Writing
  <1>3. path' = path /\ tmp' = tmp /\ data' = data BY DEF Walks, file
  <1> QED BY <1>1, <1>2, <1>3 DEF Quiet, Writing

\* Under the lock or not under it, a step that keeps to its side keeps Locked,
\* unless it goes to the provider.
LEMMA WalkIsLocked ==
    ASSUME Quiet, Locked, NEW r \in Callers, NEW x, Walks(r, x),
           \A q \in Callers : q # r => (holder' = q <=> holder = q),
           x \in UnderLock <=> holder' = r,
           x \in {"check", "open"} => layer = 2,
           x \in Missed /\ layer = 2 => Content # "fresh"
    PROVE  Locked'
  <1>1. /\ req'[r].pc = x /\ \A q \in Callers : q # r => req'[q] = req[q]
    BY GotoGoesOn DEF Walks
  <1>2. /\ Content' = Content /\ layer' = layer
        /\ overlap' = overlap /\ saved' = saved /\ stale' = stale
    BY DEF Walks, file, history, Content
  <1>3. x # "write" /\ x # "rename" BY DEF Walks, Writing
  <1>4. \A q \in Callers : req'[q].pc \in UnderLock <=> holder' = q
    BY <1>1 DEF Locked
  <1>5. \A q \in Callers :
          /\ req'[q].pc \in {"check", "open", "write", "rename"} => layer = 2
          /\ layer = 2 /\ req'[q].pc \in Missed => Content # "fresh"
    BY <1>1, <1>3 DEF Locked
  <1> QED BY <1>2, <1>4, <1>5 DEF Locked

Kept == (~overlap' => Quiet') /\ (faults' = 0 => Locked')

LEMMA Walking ==
    ASSUME Quiet, faults \in Nat, faults = 0 => Locked, NEW r \in Callers,
           \/ GetHistory(r) \/ LockedFetch(r) \/ DoubleCheck(r)
           \/ FetchFromProvider(r) \/ Release(r) \/ Wait(r) \/ FetchAlone(r)
    PROVE  Kept
  <1> USE DEF At
  <1>0. r # "none" /\ ("none" \notin Callers)
    BY HistoryAssumption DEF HistoryAssumption
  <1>1. ASSUME NEW x \in Pcs \ (UnderLock \cup Writing), Walks(r, x),
               req[r].pc \notin UnderLock, holder' = holder, faults' = faults
        PROVE  Kept
    <2>1. Quiet' BY <1>1, WalkIsQuiet
    <2>2. ASSUME faults' = 0 PROVE Locked'
      <3>1. Locked /\ holder # r BY <1>1, <2>2 DEF Locked
      <3>2. x \notin UnderLock /\ x \notin Missed /\ x \notin {"check", "open"}
        BY DEF UnderLock, Missed, Writing
      <3> QED BY <1>1, <3>1, <3>2, WalkIsLocked
    <2> QED BY <2>1, <2>2 DEF Kept
  <1>2. ASSUME NEW x \in Pcs \ Writing, Walks(r, x), faults' = faults + 1
        PROVE  Kept
    BY <1>2, WalkIsQuiet DEF Kept
  <1>3. CASE GetHistory(r)
    BY <1>1, <1>3 DEF GetHistory, Walks, Pcs, UnderLock, Writing
  <1>4. CASE Wait(r) \/ FetchAlone(r)
    BY <1>1, <1>4 DEF Wait, FetchAlone, Walks, Pcs, UnderLock, Writing
  <1>5. CASE LockedFetch(r)
    <2>1. CASE holder # "none" /\ Goto(r, "wait") /\ UNCHANGED <<holder, faults>>
      BY <1>1, <1>5, <2>1 DEF LockedFetch, Walks, Pcs, UnderLock, Writing
    <2>2. CASE Goto(r, "alone") /\ Fault
      BY <1>2, <1>5, <2>2 DEF LockedFetch, Walks, Pcs, Writing, Fault
    <2>3. CASE /\ holder = "none" /\ holder' = r /\ UNCHANGED faults
               /\ Goto(r, IF layer = 2 THEN "check" ELSE "ask")
      <3> DEFINE x == IF layer = 2 THEN "check" ELSE "ask"
      <3>1. Walks(r, x) /\ x \in UnderLock
        BY <1>5, <2>3 DEF LockedFetch, Walks, Pcs, Writing, UnderLock
      <3>2. Quiet' BY <3>1, WalkIsQuiet
      <3>3. \A q \in Callers : q # r => (holder' = q <=> holder = q)
        BY <2>3, <1>0
      <3>4. ASSUME faults' = 0 PROVE Locked'
        <4>1. Locked BY <2>3, <3>4
        <4>2. x \in Missed /\ layer = 2 => Content # "fresh"
          BY DEF Missed
        <4>3. x \in {"check", "open"} => layer = 2 OBVIOUS
        <4> HIDE DEF x
        <4> QED BY <2>3, <3>1, <3>3, <4>1, <4>2, <4>3, WalkIsLocked
      <3> QED BY <3>2, <3>4 DEF Kept
    <2> QED BY <1>5, <2>1, <2>2, <2>3 DEF LockedFetch
  <1>6. ASSUME NEW x \in UnderLock \ Writing, Walks(r, x), holder' = holder,
               faults' = faults, req[r].pc \in UnderLock,
               x \in {"check", "open"} => layer = 2,
               faults = 0 /\ x \in Missed /\ layer = 2 => Content # "fresh"
        PROVE  Kept
    <2>1. Quiet' BY <1>6, WalkIsQuiet
    <2>2. ASSUME faults' = 0 PROVE Locked'
      <3>1. Locked /\ holder = r BY <1>6, <2>2 DEF Locked
      <3> QED BY <1>6, <2>2, <3>1, WalkIsLocked
    <2> QED BY <2>1, <2>2 DEF Kept
  <1>7. CASE DoubleCheck(r)
    <2> DEFINE x == IF Hit THEN "release" ELSE "ask"
    <2>1. /\ Walks(r, x) /\ x \in UnderLock \ Writing /\ holder' = holder
          /\ faults' = faults /\ req[r].pc \in UnderLock /\ x \notin {"check", "open"}
      BY <1>7 DEF DoubleCheck, Walks, Pcs, UnderLock, Writing
    <2>2. x \in Missed /\ layer = 2 => Content # "fresh"
      BY DEF Missed, Hit
    <2> HIDE DEF x
    <2> QED BY <1>6, <2>1, <2>2
  <1>8. CASE FetchFromProvider(r)
    <2>1. CASE layer = 2 /\ Goto(r, "open")
      <3>1. /\ Walks(r, "open") /\ "open" \in UnderLock \ Writing /\ holder' = holder
            /\ faults' = faults /\ req[r].pc \in UnderLock
        BY <1>8, <2>1 DEF FetchFromProvider, Walks, Pcs, UnderLock, Writing
      <3>2. faults = 0 => Content # "fresh"
        BY <1>8, <2>1 DEF FetchFromProvider, Locked, Missed
      <3> QED BY <1>6, <2>1, <3>1, <3>2
    <2>2. CASE Goto(r, "release")
      <3>1. /\ Walks(r, "release") /\ "release" \in UnderLock \ Writing
            /\ holder' = holder /\ faults' = faults /\ req[r].pc \in UnderLock
            /\ "release" \notin Missed
        BY <1>8, <2>2 DEF FetchFromProvider, Walks, Pcs, UnderLock, Writing, Missed
      <3> QED BY <1>6, <3>1
    <2> QED BY <1>8, <2>1, <2>2 DEF FetchFromProvider
  <1>9. CASE Release(r)
    <2>1. Walks(r, "done") /\ "done" \in Pcs \ Writing /\ "done" \notin UnderLock
          /\ "done" \notin Missed
      BY <1>9 DEF Release, Walks, Pcs, Writing, UnderLock, Missed
    <2>2. CASE Fault BY <1>2, <2>1, <2>2 DEF Fault
    <2>3. CASE holder' = (IF holder = r THEN "none" ELSE holder) /\ UNCHANGED faults
      <3>1. Quiet' BY <2>1, WalkIsQuiet
      <3>2. \A q \in Callers : q # r => (holder' = q <=> holder = q)
        BY <2>3, <1>0
      <3>3. holder' # r BY <2>3, <1>0
      <3>4. ASSUME faults' = 0 PROVE Locked'
        BY <2>1, <2>3, <3>2, <3>3, <3>4, WalkIsLocked
      <3> QED BY <3>1, <3>4 DEF Kept
    <2> QED BY <1>9, <2>2, <2>3 DEF Release
  <1> QED BY <1>3, <1>4, <1>5, <1>7, <1>8, <1>9

-----------------------------------------------------------------------------
(* Writing *)

LEMMA UnusedInodes ==
    ASSUME Quiet, NEW r \in Callers, \A q \in Callers : req[q].fd = None
    PROVE  /\ Unused \in Inodes /\ Unused # None
           /\ Unused # path /\ Unused # tmp
  <1>1. Cardinality(Callers) \in Nat /\ Cardinality(Callers) # 0
    BY HistoryAssumption, FS_CardinalityType, FS_EmptySet DEF HistoryAssumption
  <1>2. 1 \in Inodes /\ 2 \in Inodes /\ 3 \in Inodes
    BY <1>1 DEF Inodes
  <1>3. \E i \in Inodes : i # path /\ i # tmp BY <1>2
  <1>4. \A i \in Inodes : i # None BY <1>1 DEF Inodes, None
  <1>5. \E i \in Inodes : i \notin {path, tmp} \cup {req[q].fd : q \in Callers}
    BY <1>3, <1>4
  <1> QED BY <1>4, <1>5 DEF Unused

LEMMA Opening ==
    ASSUME Quiet, faults \in Nat, overlap \in BOOLEAN, faults = 0 => Locked,
           NEW r \in Callers, OpenTmp(r)
    PROVE  Kept
  <1>1. /\ req[r].pc = "open" /\ faults' = faults /\ path' = path /\ layer' = layer
        /\ holder' = holder /\ saved' = saved /\ stale' = stale
        /\ overlap' = (overlap \/ \E q \in Callers : req[q].pc \in Writing)
    BY DEF OpenTmp, At
  <1>2. CASE \E q \in Callers : req[q].pc \in Writing
    <2>1. overlap' = TRUE BY <1>1, <1>2
    <2>2. PICK q \in Callers : req[q].pc \in Writing BY <1>2
    <2>3. faults # 0
      <3> SUFFICES ASSUME faults = 0 PROVE FALSE
        OBVIOUS
      <3>1. holder = r BY <1>1 DEF Locked, UnderLock
      <3>2. holder = q BY <2>2 DEF Locked, UnderLock, Writing
      <3> QED BY <1>1, <2>2, <3>1, <3>2 DEF Writing
    <2> QED BY <1>1, <2>1, <2>3 DEF Kept
  <1>3. CASE \A q \in Callers : req[q].pc \notin Writing
    <2>1. \A q \in Callers : req[q].fd = None BY <1>3 DEF Quiet, Writing
    <2> DEFINE i == IF tmp # None THEN tmp ELSE Unused
    <2>2. tmp' = i /\ data' = [data EXCEPT ![i] = "torn"] /\ GoesOn(r, "write", i)
      BY DEF OpenTmp, GoesOn
    <2>3. i \in Inodes /\ i # None /\ i # path
      BY <2>1, UnusedInodes DEF Quiet
    <2> HIDE DEF i
    <2>4. /\ req' \in [Callers -> [pc : Pcs, p : Processes, fd : Inodes \cup {None}]]
          /\ req'[r].pc = "write" /\ req'[r].fd = i
          /\ \A q \in Callers : q # r => req'[q] = req[q]
      BY <2>2, <2>3, WhereRequestsAre DEF Pcs
    <2>5. /\ data' \in [Inodes -> {"fresh", "stale", "torn"}] /\ data'[i] = "torn"
          /\ path # None => data'[path] = data[path]
      BY <2>2, <2>3 DEF Quiet
    <2>6. Quiet'
      BY <1>1, <1>3, <2>1, <2>2, <2>3, <2>4, <2>5 DEF Quiet, Writing
    <2>7. Content' = Content BY <1>1, <2>5 DEF Content
    <2>8. ASSUME faults' = 0 PROVE Locked'
      <3>1. Locked BY <1>1, <2>8
      <3>2. \A q \in Callers : req'[q].pc \in UnderLock <=> holder = q
        BY <1>1, <2>4, <3>1 DEF Locked, UnderLock
      <3>3. \A q \in Callers :
              /\ req'[q].pc \in {"check", "open", "write", "rename"} => layer = 2
              /\ layer = 2 /\ req'[q].pc \in Missed => Content # "fresh"
        BY <1>1, <2>4, <3>1 DEF Locked, Missed
      <3> QED BY <1>1, <1>3, <2>7, <3>1, <3>2, <3>3 DEF Locked
    <2> QED BY <2>6, <2>8 DEF Kept
  <1> QED BY <1>2, <1>3

LEMMA WritingOn ==
    ASSUME Quiet, faults \in Nat, faults = 0 => Locked, NEW r \in Callers, WriteTmp(r)
    PROVE  Kept
  <1>1. /\ req[r].pc = "write" /\ UNCHANGED <<layer, path, tmp, holder, faults>>
        /\ UNCHANGED <<overlap, stale, saved>>
    BY DEF WriteTmp, At, history
  <1>2. tmp # None /\ req[r].fd = tmp /\ data[tmp] = "torn" /\ tmp \in Inodes
    BY <1>1 DEF Quiet
  <1>3. data' = [data EXCEPT ![tmp] = "fresh"] /\ GoesOn(r, "rename", None)
    BY <1>2 DEF WriteTmp, GoesOn
  <1>4. /\ req' \in [Callers -> [pc : Pcs, p : Processes, fd : Inodes \cup {None}]]
        /\ req'[r].pc = "rename" /\ req'[r].fd = None
        /\ \A q \in Callers : q # r => req'[q] = req[q]
    BY <1>3, WhereRequestsAre DEF Pcs
  <1>5. /\ data' \in [Inodes -> {"fresh", "stale", "torn"}] /\ data'[tmp] = "fresh"
        /\ path # None => data'[path] = data[path]
    BY <1>2, <1>3 DEF Quiet
  <1>6. \A q \in Callers : q # r => req[q].pc \notin Writing
    BY <1>1 DEF Quiet, Writing
  <1>7. Quiet'
    BY <1>1, <1>2, <1>4, <1>5, <1>6 DEF Quiet, Writing
  <1>8. Content' = Content BY <1>1, <1>5 DEF Content
  <1>9. ASSUME faults' = 0 PROVE Locked'
    <2>1. Locked BY <1>1, <1>9
    <2>2. \A q \in Callers : req'[q].pc \in UnderLock <=> holder = q
      BY <1>1, <1>4, <2>1 DEF Locked, UnderLock
    <2>3. \A q \in Callers :
            /\ req'[q].pc \in {"check", "open", "write", "rename"} => layer = 2
            /\ layer = 2 /\ req'[q].pc \in Missed => Content # "fresh"
      BY <1>1, <1>4, <2>1 DEF Locked, Missed
    <2> QED BY <1>1, <1>8, <2>1, <2>2, <2>3 DEF Locked
  <1> QED BY <1>7, <1>9 DEF Kept

LEMMA Renaming ==
    ASSUME Quiet, faults \in Nat, faults = 0 => Locked, NEW r \in Callers, Rename(r)
    PROVE  Kept
  <1>1. /\ req[r].pc = "rename" /\ UNCHANGED <<layer, data, holder, faults>>
        /\ UNCHANGED <<overlap, stale>> /\ tmp' = None
    BY DEF Rename, At
  <1>2. tmp # None /\ tmp \in Inodes /\ data[tmp] = "fresh" BY <1>1 DEF Quiet
  <1>3. path' = tmp /\ saved' = saved + 1 BY <1>2 DEF Rename
  <1>4. /\ req' \in [Callers -> [pc : Pcs, p : Processes, fd : Inodes \cup {None}]]
        /\ req'[r].pc = "release" /\ req'[r].fd = None
        /\ \A q \in Callers : q # r => req'[q] = req[q]
    BY <1>1, GotoGoesOn DEF Rename, Pcs
  <1>5. \A q \in Callers : q # r => req[q].pc \notin Writing
    BY <1>1 DEF Quiet, Writing
  <1>6. Quiet'
    BY <1>1, <1>2, <1>3, <1>4, <1>5 DEF Quiet, Writing
  <1>7. Content' = "fresh" BY <1>1, <1>2, <1>3 DEF Content
  <1>8. ASSUME faults' = 0 PROVE Locked'
    <2>1. Locked BY <1>1, <1>8
    <2>2. layer = 2 /\ Content # "fresh" /\ saved <= stale /\ holder = r
      BY <1>1, <2>1 DEF Locked, Missed, UnderLock
    <2>3. saved' <= stale + 1 /\ saved' \in Nat
      BY <1>3, <2>1, <2>2 DEF Locked
    <2>4. \A q \in Callers : q # r => req'[q].pc \notin UnderLock
      BY <1>4, <2>1, <2>2 DEF Locked
    <2>5. \A q \in Callers : req'[q].pc \in UnderLock <=> holder = q
      BY <1>4, <2>2, <2>4 DEF UnderLock
    <2>6. \A q \in Callers : req'[q].pc \notin Missed
      BY <1>4, <2>4 DEF UnderLock, Missed
    <2> QED BY <1>1, <1>7, <2>1, <2>2, <2>3, <2>5, <2>6 DEF Locked
  <1> QED BY <1>6, <1>8 DEF Kept

-----------------------------------------------------------------------------
(* Faults and surroundings *)

LEMMA Failing ==
    ASSUME Quiet, faults \in Nat,
           \/ \E r \in Callers : WriteFails(r)
           \/ \E p \in Processes : Crash(p)
    PROVE  Kept
  <1>1. faults' = faults + 1 /\ UNCHANGED <<path, tmp, data>>
    BY DEF WriteFails, Crash, Fault, file
  <1>2. ASSUME NEW r \in Callers, WriteFails(r) PROVE Quiet'
    <2>1. GoesOn(r, "release", None) BY <1>2 DEF WriteFails, GoesOn
    <2>2. /\ req' \in [Callers -> [pc : Pcs, p : Processes, fd : Inodes \cup {None}]]
          /\ req'[r].pc = "release" /\ req'[r].fd = None
          /\ \A q \in Callers : q # r => req'[q] = req[q]
      BY <2>1, WhereRequestsAre DEF Pcs
    <2> QED BY <1>1, <2>2 DEF Quiet, Writing
  <1>3. ASSUME NEW p \in Processes, Crash(p) PROVE Quiet'
    <2>1. req' = [r \in Callers |->
                    IF req[r].p = p /\ ~At(r, "idle")
                    THEN [req[r] EXCEPT !.pc = "done", !.fd = None] ELSE req[r]]
      BY <1>3 DEF Crash
    <2>2. \A r \in Callers :
            \/ req'[r] = req[r]
            \/ /\ req'[r].pc = "done" /\ req'[r].fd = None
               /\ req'[r] \in [pc : Pcs, p : Processes, fd : Inodes \cup {None}]
      BY <2>1 DEF Quiet, Pcs
    <2>3. req' \in [Callers -> [pc : Pcs, p : Processes, fd : Inodes \cup {None}]]
      BY <2>1, <2>2 DEF Quiet
    <2> QED BY <1>1, <2>2, <2>3 DEF Quiet, Writing
  <1>4. Quiet' BY <1>2, <1>3
  <1> QED BY <1>1, <1>4 DEF Kept

LEMMA Expiring ==
    ASSUME Quiet, faults \in Nat, faults = 0 => Locked, FileExpires
    PROVE  Kept
  <1>1. /\ UNCHANGED <<layer, req, path, tmp, holder, faults, overlap, saved>>
        /\ Content = "fresh" /\ data' = [data EXCEPT ![path] = "stale"]
        /\ stale' = stale + 1
    BY DEF FileExpires
  <1>2. path # None BY <1>1 DEF Content
  <1>3. /\ data' \in [Inodes -> {"fresh", "stale", "torn"}] /\ data'[path] = "stale"
        /\ tmp # None => data'[tmp] = data[tmp]
    BY <1>1, <1>2 DEF Quiet
  <1>4. Quiet' BY <1>1, <1>2, <1>3 DEF Quiet
  <1>5. Content' = "stale" BY <1>1, <1>2, <1>3 DEF Content
  <1>6. ASSUME faults' = 0 PROVE Locked'
    <2>1. Locked BY <1>1, <1>6
    <2>2. saved <= stale' /\ stale' \in Nat BY <1>1, <2>1 DEF Locked
    <2> QED BY <1>1, <1>5, <2>1, <2>2 DEF Locked
  <1> QED BY <1>4, <1>6 DEF Kept

LEMMA LockGoes ==
    ASSUME Quiet, faults \in Nat, faults = 0 => Locked, LockExpires
    PROVE  Kept
  <1>1. UNCHANGED <<layer, req, path, tmp, data, overlap, stale, saved>>
    BY DEF LockExpires, file, history
  <1>2. Quiet' BY <1>1 DEF Quiet
  <1>3. ASSUME faults' = 0 PROVE Locked'
    <2>1. faults = 0 /\ At(holder, "done") /\ holder' = "none"
      BY <1>3 DEF LockExpires, Fault
    <2>2. holder \notin Callers
      BY <2>1 DEF Locked, At, UnderLock
    <2>3. Content' = Content BY <1>1 DEF Content
    <2> QED BY <1>1, <2>1, <2>2, <2>3, HistoryAssumption DEF Locked, HistoryAssumption
  <1> QED BY <1>2, <1>3 DEF Kept

LEMMA HcStep == HcInv /\ [HcNext]_hcVars => HcInv'
  <1> SUFFICES ASSUME HcInv, [HcNext]_hcVars, ~overlap PROVE HcInv'
    BY OverlapStays DEF HcInv
  <1>1. Quiet /\ faults \in Nat /\ overlap \in BOOLEAN /\ (faults = 0 => Locked)
    BY DEF HcInv
  <1>2. faults' \in Nat /\ overlap' \in BOOLEAN
    <2>1. faults' = faults \/ faults' = faults + 1
      BY DEF Fault, HcNext, hcVars, history, GetHistory, LockedFetch, DoubleCheck,
          FetchFromProvider, OpenTmp, WriteTmp, Rename, WriteFails, Release, Wait,
          FetchAlone, Crash, LockExpires, FileExpires, TableFills
    <2>2. CASE \E r \in Callers : OpenTmp(r)
      <3>1. overlap' = (overlap \/ \E q \in Callers : req[q].pc \in Writing)
        BY <2>2 DEF OpenTmp
      <3> QED BY <1>1, <2>1, <3>1
    <2>3. CASE ~\E r \in Callers : OpenTmp(r)
      <3>1. overlap' = overlap
        BY <2>3 DEF HcNext, hcVars, history, GetHistory, LockedFetch, DoubleCheck,
          FetchFromProvider, OpenTmp, WriteTmp, Rename, WriteFails, Release, Wait,
          FetchAlone, Crash, LockExpires, FileExpires, TableFills
      <3> QED BY <1>1, <2>1, <3>1
    <2> QED BY <2>2, <2>3
  <1>3. CASE TableFills \/ UNCHANGED hcVars
    <2>1. UNCHANGED <<layer, req, path, tmp, data, holder, faults, overlap, stale, saved>>
      BY <1>3 DEF TableFills, hcVars, file, history
    <2>2. Content' = Content BY <2>1 DEF Content
    <2> QED BY <1>1, <1>2, <2>1, <2>2 DEF HcInv, Quiet, Locked
  <1>4. CASE HcNext /\ ~TableFills
    <2>1. Kept
      BY <1>1, <1>4, Walking, Opening, WritingOn, Renaming, Failing, Expiring, LockGoes
      DEF HcNext
    <2> QED BY <1>2, <2>1 DEF Kept, HcInv
  <1> QED BY <1>3, <1>4

THEOREM HistoryInvariant == HcSpec => []HcInv
  BY HcInitially, HcStep, PTL DEF HcSpec

\* For any requests, processes and faults: wherever a write breaks off, the file
\* is whole unless two fetches wrote it at a time.
THEOREM TornOnlyByOverlapHolds == HcSpec => []TornOnlyByOverlap
  <1>1. HcInv => TornOnlyByOverlap
    BY DEF HcInv, Quiet, TornOnlyByOverlap, Content
  <1> QED BY <1>1, HistoryInvariant, PTL

\* For any requests: while nothing fails, the file is written under the lock at
\* most once, and once more for every time it expires.
THEOREM FetchedOnceHolds == HcSpec => []FetchedOnce
  <1>1. ASSUME HcInv PROVE FetchedOnce
    <2> SUFFICES ASSUME faults = 0 PROVE saved <= stale + 1
      BY DEF FetchedOnce
    <2>1. Locked BY <1>1 DEF HcInv
    <2> QED BY <2>1 DEF Locked
  <1>2. HcInv => FetchedOnce BY <1>1
  <1> QED BY <1>2, HistoryInvariant, PTL

-----------------------------------------------------------------------------
(* Lists in front of a slower source. *)

SlTypes ==
    /\ source \in Nat /\ failures \in Nat
    /\ reader \in [Readers -> [pc : {"idle", "ask", "store"}, got : {NoList} \cup Nat]]

\* Whoever is about to store a list read it since the build ended.
SlInv ==
    /\ SlTypes
    /\ settled /\ failures = 0 =>
         /\ cache \in {NoList, source}
         /\ \A r \in Readers : reader[r].pc = "store" => reader[r].got = source

LEMMA SlInitially == SlInit => SlInv
  <1> SUFFICES ASSUME SlInit PROVE SlInv
    OBVIOUS
  <1>1. SlTypes BY DEF SlInit, SlTypes
  <1>2. ~settled BY DEF SlInit
  <1> QED BY <1>1, <1>2 DEF SlInv

\* A request reads the source while it does not change, or fails.
LEMMA RequestKeepsLists ==
    ASSUME SlInv, NEW r \in Readers, GetCached(r) \/ AskSource(r) \/ Store(r)
    PROVE  SlInv'
  <1>1. /\ failures' \in Nat /\ (failures' = failures \/ failures' # 0)
        /\ UNCHANGED <<source, settled>>
    BY DEF SlInv, SlTypes, GetCached, AskSource, Store, Failure
  <1>2. reader' \in [Readers -> [pc : {"idle", "ask", "store"}, got : {NoList} \cup Nat]]
    BY DEF SlInv, SlTypes, GetCached, AskSource, Store, Fallback
  <1>3. ASSUME settled', failures' = 0
        PROVE  /\ cache' \in {NoList, source'}
               /\ \A q \in Readers : reader'[q].pc = "store" => reader'[q].got = source'
    <2>1. settled /\ failures = 0 /\ failures' = failures BY <1>1, <1>3
    <2>2. ~Failure BY <2>1 DEF Failure
    <2>3. /\ cache \in {NoList, source}
          /\ \A q \in Readers : reader[q].pc = "store" => reader[q].got = source
      BY <2>1 DEF SlInv
    <2>4. CASE GetCached(r)
      BY <1>1, <2>2, <2>3, <2>4 DEF GetCached, SlInv, SlTypes
    <2>5. CASE AskSource(r)
      BY <1>1, <2>2, <2>3, <2>5 DEF AskSource, SlInv, SlTypes
    <2>6. CASE Store(r)
      BY <1>1, <2>2, <2>3, <2>6 DEF Store, SlInv, SlTypes
    <2> QED BY <2>4, <2>5, <2>6
  <1> QED BY <1>1, <1>2, <1>3 DEF SlInv, SlTypes

\* A chunk that is saved ends the promise, and the last command of a build
\* renews it when no request is under way.
LEMMA BuildKeepsLists ==
    ASSUME SlInv, NEW b \in Builders,
           \/ BuildStarts(b) \/ BuildRefused(b) \/ SaveChunk(b) \/ SaveFails(b)
           \/ SetVersion(b) \/ Invalidate(b)
    PROVE  SlInv'
  <1>1. CASE BuildStarts(b) \/ BuildRefused(b)
    BY <1>1 DEF SlInv, SlTypes, BuildStarts, BuildRefused
  <1>2. CASE SaveChunk(b)
    BY <1>2 DEF SlInv, SlTypes, SaveChunk
  <1>3. CASE SaveFails(b) \/ SetVersion(b)
    BY <1>3 DEF SlInv, SlTypes, SaveFails, SetVersion, Failure
  <1>4. CASE Invalidate(b)
    <2>1. CASE Failure /\ UNCHANGED settled
      BY <1>4, <2>1 DEF SlInv, SlTypes, Invalidate, Failure
    <2>2. CASE /\ cache' = NoList /\ UNCHANGED failures
               /\ settled' = (\A r \in Readers : reader[r].pc = "idle")
      <3>1. settled' => \A r \in Readers : reader[r].pc # "store"
        BY <2>2
      <3> QED BY <1>4, <2>2, <3>1 DEF SlInv, SlTypes, Invalidate
    <2> QED BY <1>4, <2>1, <2>2 DEF Invalidate
  <1> QED BY <1>1, <1>2, <1>3, <1>4

LEMMA SlStep == SlInv /\ [SlNext]_slVars => SlInv'
  <1> SUFFICES ASSUME SlInv, [SlNext]_slVars PROVE SlInv'
    OBVIOUS
  <1>1. CASE SourceChanges
    BY <1>1 DEF SlInv, SlTypes, SourceChanges
  <1>2. CASE Expire
    BY <1>2 DEF SlInv, SlTypes, Expire
  <1>3. CASE UNCHANGED slVars
    BY <1>3 DEF SlInv, SlTypes, slVars
  <1> QED BY <1>1, <1>2, <1>3, RequestKeepsLists, BuildKeepsLists DEF SlNext

\* For any requests and builds, however they interleave: after a build that
\* ended with no request under way nobody is served an older list of symbols
\* until the next chunk is saved, as long as nothing failed.
THEOREM InvalidationHoldsAlways == SlSpec => []InvalidationHolds
  <1>1. SlInv => InvalidationHolds BY DEF SlInv, InvalidationHolds
  <1> QED BY <1>1, SlInitially, SlStep, PTL DEF SlSpec
=============================================================================
