----------------------------- MODULE JobsProofs -----------------------------
(***************************************************************************)
(* The properties of the collection jobs for any kinds of job, workers,    *)
(* tasks, items and mishaps.                                               *)
(*                                                                         *)
(* JobRunner: exclusion rests on the lock alone (Held); the record, the    *)
(* sums and the breaker are about one task at a time (Sound, Honest), so   *)
(* that a step has only to leave the task it moves in order.               *)
(*                                                                         *)
(* ProfileStreak: two quantities never grow.  Once the streak is at its    *)
(* limit, every 429 answer that adds to it ends an item, so the streak and *)
(* the permits in use together stay where they were (Streaking).  Once the *)
(* collection is given up no item starts, so what has been sent since and  *)
(* what the items with a permit may still send stay below what they had    *)
(* left then (Spending).                                                   *)
(***************************************************************************)
EXTENDS JobRunner, ProfileStreak, TLAPS

Places == {"idle", "acquire", "ended"} \cup Inside
Statuses == {"none", "orphan", "running", "completed", "failed"}

TaskRecord ==
    [pc : Places, w : Workers \cup {"none"}, todo : Nat, flying : Nat, fails : Nat,
     stored : Nat, rows : Nat, upserted : Nat, run : Statuses, final : BOOLEAN,
     lost : BOOLEAN, callback : BOOLEAN]

\* A task's local variables: nothing is counted before the work, rows are added
\* up or still to be, a completed record says everything is done, and the
\* failures in a row and the calls in flight stay below the limit and a batch.
Sound(x) ==
    /\ x \in TaskRecord
    /\ x.pc \in {"idle", "acquire", "create", "start"} =>
         x.rows = 0 /\ x.stored = 0 /\ x.upserted = 0 /\ x.flying = 0 /\ x.fails = 0
    /\ x.pc \in {"start", "work"} => x.upserted + x.rows = x.stored
    /\ x.run = "completed" => x.pc \in {"finally", "clear", "release", "ended"}
    /\ x.pc = "complete" \/ (x.run = "completed" /\ x.pc # "ended") =>
         x.todo = 0 /\ x.flying = 0 /\ x.rows = 0 /\ x.upserted = x.stored
    /\ x.final => x.pc \in {"finally", "clear", "release"}
    /\ x.pc = "create" => kind.record
    /\ kind.breaker => x.fails + x.flying < Limit + kind.batch

\* Its record is open only where somebody will close it.
Honest(x) ==
    /\ x.run = "running" => kind.record /\ x.pc \in Body \cup {"finally"}
    /\ x.pc = "finally" /\ x.final => x.run # "running"

Orderly(x) == Sound(x) /\ (~faulty => Honest(x))

Held == \A t \in Tasks : task[t].pc \in Inside /\ ~task[t].lost => lock = t

JrTypes == /\ kind \in Kinds /\ kind.batch \in Nat \ {0} /\ Limit \in Nat \ {0}
           /\ Units \in Nat \ {0} /\ faulty \in BOOLEAN
           /\ lock \in Tasks \cup {NoTask} /\ NoTask \notin Tasks
           /\ DOMAIN task = Tasks /\ task = [t \in Tasks |-> task[t]]

JrInv == JrTypes /\ (\A t \in Tasks : Orderly(task[t])) /\ Held

LEMMA JrInitially == JrInit => JrInv
  <1> SUFFICES ASSUME JrInit PROVE JrInv
    OBVIOUS
  <1>1. JrTypes
    <2>1. task = [t \in Tasks |-> NotStarted] /\ kind \in Kinds /\ lock = NoTask /\ faulty = FALSE
      BY DEF JrInit
    <2>2. NoTask \notin Tasks BY JobAssumption DEF Tasks, NoTask
    <2>3. DOMAIN task = Tasks /\ task = [t \in Tasks |-> task[t]] BY <2>1
    <2> QED BY <2>1, <2>2, <2>3, JobAssumption DEF JrTypes
  <1>2. ASSUME NEW t \in Tasks PROVE Orderly(task[t])
    <2>1. task[t] = NotStarted BY DEF JrInit
    <2>2. Sound(NotStarted)
      BY <1>1, JobAssumption DEF Sound, TaskRecord, NotStarted, JrTypes, Places, Statuses, Inside, Body
    <2> QED BY <2>1, <2>2 DEF Orderly, Honest, NotStarted
  <1>3. Held BY DEF JrInit, Held, NotStarted, Inside, Body
  <1> QED BY <1>1, <1>2, <1>3 DEF JrInv

-----------------------------------------------------------------------------
(* A step that moves one task, and leaves it in order. *)

LEMMA OneMoves ==
    ASSUME JrInv, NEW t \in Tasks, NEW y, Becomes(t, y), UNCHANGED kind,
           faulty' \in BOOLEAN, faulty => faulty',
           lock' \in Tasks \cup {NoTask},
           Sound(y), ~faulty' => Honest(y),
           y.pc \in Inside /\ ~y.lost => lock' = t,
           \A u \in Tasks : u # t /\ lock = u => lock' = u
    PROVE  JrInv'
  <1>1. task' = [task EXCEPT ![t] = y] /\ kind' = kind BY DEF Becomes
  <1>2. JrTypes' BY <1>1 DEF JrInv, JrTypes
  <1>3. ASSUME NEW u \in Tasks PROVE Orderly(task[u])'
    <2>1. task'[u] = (IF u = t THEN y ELSE task[u]) BY <1>1 DEF JrInv, JrTypes
    <2>2. Sound(task'[u]) /\ (~faulty' => Honest(task'[u]))
      BY <2>1 DEF JrInv, Orderly
    <2> QED BY <1>1, <2>2 DEF Orderly, Sound, Honest
  <1>4. Held' BY <1>1 DEF JrInv, JrTypes, Held
  <1> QED BY <1>2, <1>3, <1>4 DEF JrInv

LEMMA FaultyGrows ==
    ASSUME JrInv, NoMishap \/ Fault PROVE faulty' \in BOOLEAN /\ (faulty => faulty')
  BY DEF JrInv, JrTypes, NoMishap, Fault

LEMMA OneEnds ==
    ASSUME JrInv, NEW t \in Tasks, End(t), UNCHANGED kind,
           faulty' \in BOOLEAN, faulty => faulty',
           lock' \in Tasks \cup {NoTask},
           ~faulty' => task[t].run # "running",
           \A u \in Tasks : u # t /\ lock = u => lock' = u
    PROVE  JrInv'
  <1> DEFINE y == Ended(task[t])
  <1>1. Sound(task[t]) BY DEF JrInv, Orderly
  <1>2. Becomes(t, y) BY DEF End, Becomes
  <1>3. /\ y.pc = "ended" /\ y.run = task[t].run /\ y.rows = 0 /\ y.stored = 0
        /\ y.upserted = 0 /\ y.flying = 0 /\ y.fails = 0 /\ y.final = FALSE
    BY DEF Ended, NotStarted
  <1>4. y \in TaskRecord
    BY <1>1 DEF Sound, TaskRecord, Ended, NotStarted, Places
  <1>5. Sound(y) BY <1>3, <1>4, 0 < Limit + kind.batch
                 DEF Sound, JrInv, JrTypes
  <1>6. ~faulty' => Honest(y) BY <1>3 DEF Honest
  <1>7. y.pc \notin Inside BY <1>3 DEF Inside, Body
  <1> HIDE DEF y
  <1> QED BY <1>2, <1>5, <1>6, <1>7, OneMoves

\* A task goes on somewhere else and nothing is lost by it.
LEMMA OneGoes ==
    ASSUME JrInv, NEW t \in Tasks, NEW where \in Inside \ {"create", "start", "complete"},
           Goto(t, where), UNCHANGED <<kind, lock>>,
           task[t].pc \in Inside \ {"create", "complete"},
           where = "work" => task[t].pc \in {"start", "work"},
           task[t].run = "completed" => where \in {"finally", "clear", "release"},
           task[t].final => where \in {"clear", "release"},
           faulty' \in BOOLEAN, faulty => faulty',
           ~faulty' /\ task[t].run = "running" => where \in Body \cup {"finally"}
    PROVE  JrInv'
  <1> DEFINE y == [task[t] EXCEPT !.pc = where]
  <1>1. Sound(task[t]) /\ (~faulty => Honest(task[t])) BY DEF JrInv, Orderly
  <1>2. Becomes(t, y) BY DEF Goto, Becomes
  <1>3. y \in TaskRecord BY <1>1 DEF Sound, TaskRecord, Places
  <1>4. /\ y.pc = where
        /\ y.run = task[t].run /\ y.rows = task[t].rows /\ y.stored = task[t].stored
        /\ y.upserted = task[t].upserted /\ y.flying = task[t].flying
        /\ y.fails = task[t].fails /\ y.final = task[t].final /\ y.lost = task[t].lost
        /\ y.todo = task[t].todo
    BY <1>1 DEF Sound, TaskRecord
  <1>5. Sound(y) BY <1>1, <1>3, <1>4 DEF Sound, Inside, Body
  <1>6. ~faulty' => Honest(y) BY <1>1, <1>4 DEF Honest
  <1>7. y.pc \in Inside /\ ~y.lost => lock' = t BY <1>4 DEF JrInv, Held
  <1>8. lock' \in Tasks \cup {NoTask} BY DEF JrInv, JrTypes
  <1> HIDE DEF y
  <1> QED BY <1>2, <1>5, <1>6, <1>7, <1>8, OneMoves

-----------------------------------------------------------------------------
(* The steps of a task, one lemma each. *)

LEMMA Starts ==
    ASSUME JrInv, NEW w \in Workers, NEW t \in Tasks, NEW c \in BOOLEAN,
           Next1(t), UNCHANGED <<kind, lock>>, NoMishap,
           Becomes(t, [task[t] EXCEPT !.pc = "acquire", !.w = w, !.callback = c])
    PROVE  JrInv'
  <1> DEFINE y == [task[t] EXCEPT !.pc = "acquire", !.w = w, !.callback = c]
  <1>1. Sound(task[t]) /\ (~faulty => Honest(task[t])) BY DEF JrInv, Orderly
  <1>2. task[t].pc = "idle" BY DEF Next1
  <1>3. y \in TaskRecord BY <1>1 DEF Sound, TaskRecord, Places
  <1>4. y = [task[t] EXCEPT !.pc = "acquire", !.w = w, !.callback = c] OBVIOUS
  <1>5. Sound(y) BY <1>1, <1>2, <1>3 DEF Sound, TaskRecord
  <1>6. faulty' = faulty BY DEF NoMishap
  <1>7. ~faulty' => Honest(y) BY <1>1, <1>2, <1>6 DEF Honest, Sound, TaskRecord, Body
  <1>8. y.pc \notin Inside BY <1>1 DEF Inside, Body, Sound, TaskRecord
  <1>9. lock' \in Tasks \cup {NoTask} /\ faulty' \in BOOLEAN BY <1>6 DEF JrInv, JrTypes
  <1> HIDE DEF y
  <1> QED BY <1>4, <1>5, <1>6, <1>7, <1>8, <1>9, OneMoves

LEMMA Acquires == ASSUME JrInv, NEW t \in Tasks, AcquireLock(t) PROVE JrInv'
  <1>1. Sound(task[t]) /\ (~faulty => Honest(task[t])) BY DEF JrInv, Orderly
  <1>2. task[t].pc = "acquire" /\ UNCHANGED kind BY DEF AcquireLock
  <1>3. CASE lock = NoTask /\ lock' = t /\ Goto(t, FirstStep) /\ NoMishap
    <2> DEFINE y == [task[t] EXCEPT !.pc = FirstStep]
    <2>1. Becomes(t, y) BY <1>3 DEF Goto, Becomes
    <2>2. FirstStep \in {"create", "start"} /\ (FirstStep = "create" => kind.record)
      BY DEF FirstStep
    <2>3. y \in TaskRecord BY <1>1, <2>2 DEF Sound, TaskRecord, Places, Inside, Body
    <2>4. /\ y.pc = FirstStep
          /\ y.run = task[t].run /\ y.rows = task[t].rows /\ y.stored = task[t].stored
          /\ y.upserted = task[t].upserted /\ y.flying = task[t].flying
          /\ y.fails = task[t].fails /\ y.final = task[t].final /\ y.todo = task[t].todo
      BY <1>1 DEF Sound, TaskRecord
    <2>5. Sound(y) BY <1>1, <1>2, <2>2, <2>3, <2>4, 0 + 0 = 0 DEF Sound
    <2>6. faulty' = faulty BY <1>3 DEF NoMishap
    <2>7. ~faulty' => Honest(y)
      BY <1>1, <1>2, <2>2, <2>4, <2>6 DEF Honest, Body
    <2>8. \A u \in Tasks : lock # u BY <1>3 DEF JrInv, JrTypes
    <2>9. faulty' \in BOOLEAN BY <2>6 DEF JrInv, JrTypes
    <2> HIDE DEF y
    <2> QED BY <1>2, <1>3, <2>1, <2>5, <2>6, <2>7, <2>8, <2>9, OneMoves
  <1>4. CASE /\ End(t) /\ (NoMishap \/ Fault)
             /\ lock' \in (IF lock = NoTask THEN {NoTask, t} ELSE {lock})
    <2>1. task[t].run = "running" => faulty BY <1>1, <1>2 DEF Honest, Body
    <2>2. lock' \in Tasks \cup {NoTask} /\ (\A u \in Tasks : u # t /\ lock = u => lock' = u)
      BY <1>4 DEF JrInv, JrTypes
    <2> QED BY <1>2, <1>4, <2>1, <2>2, FaultyGrows, OneEnds
  <1> QED BY <1>3, <1>4 DEF AcquireLock

LEMMA Creates == ASSUME JrInv, NEW t \in Tasks, CreateRun(t) PROVE JrInv'
  <1>1. Sound(task[t]) BY DEF JrInv, Orderly
  <1>2. PICK r \in {"running", "none", "orphan"} :
          Becomes(t, [task[t] EXCEPT !.pc = "start", !.run = r])
    BY DEF CreateRun
  <1>3. task[t].pc = "create" /\ UNCHANGED <<kind, lock>> /\ (NoMishap \/ Fault)
    BY DEF CreateRun
  <1> DEFINE y == [task[t] EXCEPT !.pc = "start", !.run = r]
  <1>4. y \in TaskRecord BY <1>1 DEF Sound, TaskRecord, Places, Inside, Body, Statuses
  <1>5. /\ y.pc = "start" /\ y.run = r /\ y.rows = task[t].rows /\ y.stored = task[t].stored
        /\ y.upserted = task[t].upserted /\ y.flying = task[t].flying
        /\ y.fails = task[t].fails /\ y.final = task[t].final /\ y.lost = task[t].lost
    BY <1>1 DEF Sound, TaskRecord
  <1>6. Sound(y) BY <1>1, <1>3, <1>4, <1>5, 0 + 0 = 0 DEF Sound
  <1>7. Honest(y) BY <1>1, <1>3, <1>5 DEF Honest, Sound, Body
  <1>8. y.pc \in Inside /\ ~y.lost => lock' = t
    BY <1>3, <1>5 DEF JrInv, Held, Inside
  <1>9. lock' \in Tasks \cup {NoTask} /\ Becomes(t, y) BY <1>2, <1>3 DEF JrInv, JrTypes
  <1> HIDE DEF y
  <1> QED BY <1>3, <1>6, <1>7, <1>8, <1>9, FaultyGrows, OneMoves

\* The calls of the next batch fit under the breaker's limit, which was looked
\* at before any of them is made.
LEMMA BatchFits ==
    ASSUME JrTypes, NEW x \in TaskRecord, x.pc = "work", x.flying = 0,
           x.upserted + x.rows = x.stored, x.run # "completed", ~x.final,
           kind.breaker => x.fails < Limit + kind.batch
    PROVE  /\ Sound(NextBatch(x))
           /\ NextBatch(x).run = x.run /\ NextBatch(x).pc = "work"
           /\ NextBatch(x).final = x.final /\ NextBatch(x).lost = x.lost
  <1> DEFINE n == Smaller(x.todo, kind.batch)
             fl == IF kind.breaker /\ x.fails >= Limit THEN 0 ELSE n
             y == [x EXCEPT !.todo = @ - n, !.flying = fl]
  <1>1. x.todo \in Nat /\ kind.batch \in Nat /\ x.fails \in Nat /\ Limit \in Nat
    BY DEF TaskRecord, JrTypes
  <1>2. n \in Nat /\ n <= x.todo /\ n <= kind.batch BY <1>1 DEF Smaller
  <1>3. fl \in Nat /\ (kind.breaker => x.fails + fl < Limit + kind.batch)
    BY <1>1, <1>2
  <1>4. x.todo - n \in Nat BY <1>1, <1>2
  <1>5. NextBatch(x) = y BY DEF NextBatch
  <1> HIDE DEF n, fl
  <1>6. y \in TaskRecord BY <1>3, <1>4 DEF TaskRecord
  <1>7. /\ y.pc = "work" /\ y.run = x.run /\ y.rows = x.rows /\ y.stored = x.stored
        /\ y.upserted = x.upserted /\ y.flying = fl /\ y.fails = x.fails
        /\ y.final = x.final /\ y.lost = x.lost
    BY DEF TaskRecord
  <1> HIDE DEF y
  <1>8. Sound(y) BY <1>3, <1>6, <1>7 DEF Sound
  <1> QED BY <1>5, <1>7, <1>8

LEMMA StartsWork == ASSUME JrInv, NEW t \in Tasks, StartWork(t) PROVE JrInv'
  <1> DEFINE x == [task[t] EXCEPT !.pc = "work"]
             y == NextBatch(x)
  <1>1. Sound(task[t]) /\ (~faulty => Honest(task[t])) /\ JrTypes BY DEF JrInv, Orderly
  <1>2. /\ task[t].pc = "start" /\ UNCHANGED <<kind, lock>> /\ faulty' = faulty
        /\ Becomes(t, y)
    BY DEF StartWork, NoMishap
  <1>3. x \in TaskRecord BY <1>1 DEF Sound, TaskRecord, Places, Inside, Body
  <1>4. /\ x.pc = "work" /\ x.run = task[t].run /\ x.rows = task[t].rows
        /\ x.stored = task[t].stored /\ x.upserted = task[t].upserted
        /\ x.flying = task[t].flying /\ x.fails = task[t].fails
        /\ x.final = task[t].final /\ x.lost = task[t].lost
    BY <1>1 DEF Sound, TaskRecord
  <1> HIDE DEF x
  <1>5. x.upserted + x.rows = x.stored /\ x.flying = 0 /\ x.run # "completed" /\ ~x.final
    BY <1>1, <1>2, <1>4 DEF Sound
  <1>6. kind.breaker => x.fails < Limit + kind.batch
    BY <1>1, <1>2, <1>4 DEF Sound, JrTypes
  <1>7. Sound(y) /\ y.run = x.run /\ y.pc = "work" /\ y.final = x.final /\ y.lost = x.lost
    BY <1>1, <1>3, <1>4, <1>5, <1>6, BatchFits
  <1> HIDE DEF y
  <1>8. ~faulty' => Honest(y) BY <1>1, <1>2, <1>4, <1>7 DEF Honest, Body
  <1>9. /\ y.pc \in Inside /\ ~y.lost => lock' = t
        /\ lock' \in Tasks \cup {NoTask} /\ faulty' \in BOOLEAN
    BY <1>2, <1>4, <1>7 DEF JrInv, JrTypes, Held, Inside, Body
  <1> QED BY <1>2, <1>7, <1>8, <1>9, OneMoves

LEMMA Stores == ASSUME JrInv, NEW t \in Tasks, Stored(t) PROVE JrInv'
  <1> DEFINE y == [task[t] EXCEPT !.flying = @ - 1, !.fails = 0, !.stored = @ + 1,
                                  !.rows = @ + 1]
  <1>1. Sound(task[t]) /\ (~faulty => Honest(task[t])) BY DEF JrInv, Orderly
  <1>2. /\ task[t].pc = "work" /\ task[t].flying > 0 /\ UNCHANGED <<kind, lock>>
        /\ faulty' = faulty /\ Becomes(t, y)
    BY DEF Stored, NoMishap
  <1>3. /\ task[t] \in TaskRecord /\ task[t].flying \in Nat /\ task[t].fails \in Nat
        /\ task[t].upserted \in Nat /\ task[t].rows \in Nat /\ task[t].stored \in Nat
    BY <1>1 DEF Sound, TaskRecord
  <1>4. y \in TaskRecord
    <2>1. task[t].flying - 1 \in Nat /\ task[t].stored + 1 \in Nat /\ task[t].rows + 1 \in Nat
      BY <1>2, <1>3
    <2> QED BY <1>3, <2>1 DEF TaskRecord
  <1>5. /\ y.pc = "work" /\ y.run = task[t].run /\ y.rows = task[t].rows + 1
        /\ y.stored = task[t].stored + 1 /\ y.upserted = task[t].upserted
        /\ y.flying = task[t].flying - 1 /\ y.fails = 0
        /\ y.final = task[t].final /\ y.lost = task[t].lost
    BY <1>2, <1>3 DEF TaskRecord
  <1> HIDE DEF y
  <1>6. y.upserted + y.rows = y.stored BY <1>1, <1>2, <1>3, <1>5 DEF Sound
  <1>7. kind.breaker => y.fails + y.flying < Limit + kind.batch
    BY <1>1, <1>3, <1>5 DEF Sound, JrInv, JrTypes
  <1>8. Sound(y) BY <1>1, <1>2, <1>4, <1>5, <1>6, <1>7 DEF Sound
  <1>9. ~faulty' => Honest(y) BY <1>1, <1>2, <1>5 DEF Honest
  <1>10. /\ y.pc \in Inside /\ ~y.lost => lock' = t
         /\ lock' \in Tasks \cup {NoTask} /\ faulty' \in BOOLEAN
    BY <1>2, <1>5 DEF JrInv, JrTypes, Held
  <1> QED BY <1>2, <1>8, <1>9, <1>10, OneMoves

LEMMA GetsNothing == ASSUME JrInv, NEW t \in Tasks, Empty(t) PROVE JrInv'
  <1>1. Sound(task[t]) /\ (~faulty => Honest(task[t])) BY DEF JrInv, Orderly
  <1>2. /\ task[t].pc = "work" /\ task[t].flying > 0 /\ UNCHANGED <<kind, lock>>
        /\ faulty' = faulty
    BY DEF Empty, NoMishap
  <1>3. PICK f \in IF kind.breaker THEN {task[t].fails + 1, 1} ELSE {0} :
          Becomes(t, [task[t] EXCEPT !.flying = @ - 1, !.fails = f,
                                     !.pc = IF kind.fatal THEN "fail" ELSE @])
    BY DEF Empty
  <1> DEFINE where == IF kind.fatal THEN "fail" ELSE task[t].pc
             y == [task[t] EXCEPT !.flying = @ - 1, !.fails = f, !.pc = where]
  <1>4. /\ task[t] \in TaskRecord /\ task[t].flying \in Nat /\ task[t].fails \in Nat
    BY <1>1 DEF Sound, TaskRecord
  <1>5. where \in {"fail", "work"} /\ f \in Nat /\ task[t].flying - 1 \in Nat
    BY <1>2, <1>3, <1>4
  <1>6. Becomes(t, y) BY <1>3
  <1> HIDE DEF where
  <1>7. y \in TaskRecord BY <1>4, <1>5 DEF TaskRecord, Places, Inside, Body
  <1>8. /\ y.pc = where /\ y.run = task[t].run /\ y.rows = task[t].rows
        /\ y.stored = task[t].stored /\ y.upserted = task[t].upserted
        /\ y.flying = task[t].flying - 1 /\ y.fails = f
        /\ y.final = task[t].final /\ y.lost = task[t].lost
    BY <1>4 DEF TaskRecord
  <1> HIDE DEF y
  <1>9. kind.breaker => y.fails + y.flying < Limit + kind.batch
    BY <1>1, <1>2, <1>3, <1>4, <1>8 DEF Sound, JrInv, JrTypes
  <1>10. Sound(y) BY <1>1, <1>2, <1>5, <1>7, <1>8, <1>9 DEF Sound
  <1>11. ~faulty' => Honest(y) BY <1>1, <1>2, <1>5, <1>8 DEF Honest, Body
  <1>12. /\ y.pc \in Inside /\ ~y.lost => lock' = t
         /\ lock' \in Tasks \cup {NoTask} /\ faulty' \in BOOLEAN
    BY <1>2, <1>8 DEF JrInv, JrTypes, Held, Inside, Body
  <1> QED BY <1>2, <1>6, <1>10, <1>11, <1>12, OneMoves

LEMMA EndsBatch == ASSUME JrInv, NEW t \in Tasks, EndBatch(t) PROVE JrInv'
  <1> DEFINE x == [task[t] EXCEPT !.upserted = @ + task[t].rows, !.rows = 0]
             z == [x EXCEPT !.pc = AfterWork]
  <1>1. Sound(task[t]) /\ (~faulty => Honest(task[t])) /\ JrTypes BY DEF JrInv, Orderly
  <1>2. /\ x.pc = "work" /\ x.flying = 0 /\ UNCHANGED <<kind, lock>> /\ (NoMishap \/ Fault)
        /\ Becomes(t, IF x.todo = 0 THEN z ELSE NextBatch(x))
    BY DEF EndBatch
  <1>3. /\ task[t] \in TaskRecord /\ task[t].upserted \in Nat /\ task[t].rows \in Nat
        /\ task[t].stored \in Nat
    BY <1>1 DEF Sound, TaskRecord
  <1>4. x \in TaskRecord
    <2>1. task[t].upserted + task[t].rows \in Nat BY <1>3
    <2> QED BY <1>3, <2>1 DEF TaskRecord
  <1>5. /\ x.pc = task[t].pc /\ x.run = task[t].run /\ x.rows = 0
        /\ x.stored = task[t].stored /\ x.upserted = task[t].upserted + task[t].rows
        /\ x.flying = task[t].flying /\ x.fails = task[t].fails /\ x.todo = task[t].todo
        /\ x.final = task[t].final /\ x.lost = task[t].lost
    BY <1>3 DEF TaskRecord
  <1>6. /\ AfterWork \in {"complete", "clear", "release"}
        /\ (AfterWork # "complete" => ~kind.record)
    BY DEF AfterWork, AfterBody
  <1>7. z \in TaskRecord BY <1>4, <1>6 DEF TaskRecord, Places, Inside, Body
  <1>8. /\ z.pc = AfterWork /\ z.run = x.run /\ z.rows = 0 /\ z.stored = x.stored
        /\ z.upserted = x.upserted /\ z.flying = x.flying /\ z.fails = x.fails
        /\ z.todo = x.todo /\ z.final = x.final /\ z.lost = x.lost
    BY <1>4, <1>5 DEF TaskRecord
  <1> HIDE DEF x, z
  <1>9. x.upserted + x.rows = x.stored /\ x.run # "completed" /\ ~x.final
    BY <1>1, <1>2, <1>3, <1>5 DEF Sound
  <1>10. kind.breaker => x.fails < Limit + kind.batch /\ x.fails + 0 < Limit + kind.batch
    <2>1. x.fails \in Nat BY <1>4 DEF TaskRecord
    <2> QED BY <1>1, <1>2, <1>5, <2>1 DEF Sound
  <1>11. lock' \in Tasks \cup {NoTask} /\ (x.lost \/ lock' = t)
    BY <1>2, <1>5 DEF JrInv, JrTypes, Held, Inside, Body
  <1>12. CASE x.todo = 0
    <2>1. x.upserted = x.stored BY <1>3, <1>5, <1>9
    <2>2. Sound(z)
      BY <1>2, <1>6, <1>7, <1>8, <1>9, <1>10, <1>12, <2>1 DEF Sound
    <2>3. ~faulty' => Honest(z)
      BY <1>1, <1>2, <1>5, <1>6, <1>8, <1>9, FaultyGrows DEF Honest, Body
    <2> QED BY <1>2, <1>8, <1>11, <1>12, <2>2, <2>3, FaultyGrows, OneMoves
  <1>13. CASE x.todo # 0
    <2> DEFINE y == NextBatch(x)
    <2>1. Sound(y) /\ y.run = x.run /\ y.pc = "work" /\ y.final = x.final /\ y.lost = x.lost
      BY <1>1, <1>2, <1>4, <1>9, <1>10, BatchFits
    <2>2. Becomes(t, y) BY <1>2, <1>13
    <2> HIDE DEF y
    <2>3. ~faulty' => Honest(y)
      BY <1>1, <1>2, <1>5, <2>1, FaultyGrows DEF Honest
    <2> QED BY <1>2, <1>11, <2>1, <2>2, <2>3, FaultyGrows, OneMoves
  <1> QED BY <1>12, <1>13

LEMMA Raises == ASSUME JrInv, NEW t \in Tasks, Raise(t) PROVE JrInv'
  <1>1. Sound(task[t]) /\ (~faulty => Honest(task[t])) BY DEF JrInv, Orderly
  <1>2. task[t].pc \in {"start", "work"} /\ UNCHANGED <<kind, lock>> BY DEF Raise
  <1>3. CASE Goto(t, IF kind.record THEN "fail" ELSE AfterBody) /\ NoMishap
    <2> DEFINE where == IF kind.record THEN "fail" ELSE AfterBody
    <2>1. /\ where \in {"fail", "clear", "release"} /\ (where # "fail" => ~kind.record)
      BY DEF AfterBody
    <2>2. faulty' = faulty /\ faulty' \in BOOLEAN BY <1>3 DEF NoMishap, JrInv, JrTypes
    <2>3. task[t].run # "completed" /\ ~task[t].final BY <1>1, <1>2 DEF Sound
    <2>4. ~faulty' /\ task[t].run = "running" => where \in Body \cup {"finally"}
      BY <1>1, <2>1, <2>2 DEF Honest, Body
    <2>5. where \in Inside \ {"create", "start", "complete"} /\ where # "work"
      BY <2>1 DEF Inside, Body
    <2>6. task[t].pc \in Inside \ {"create", "complete"} BY <1>2 DEF Inside, Body
    <2>7. Goto(t, where) BY <1>3
    <2> HIDE DEF where
    <2> QED BY <1>2, <2>2, <2>3, <2>4, <2>5, <2>6, <2>7, OneGoes
  <1>4. CASE End(t) /\ Fault
    <2>1. lock' \in Tasks \cup {NoTask} /\ lock' = lock BY <1>2 DEF JrInv, JrTypes
    <2> QED BY <1>2, <1>4, <2>1, FaultyGrows, OneEnds DEF Fault
  <1> QED BY <1>3, <1>4 DEF Raise

LEMMA Closes ==
    ASSUME JrInv, NEW t \in Tasks, CompleteRun(t) \/ FailRun(t) PROVE JrInv'
  <1>1. Sound(task[t]) /\ (~faulty => Honest(task[t])) BY DEF JrInv, Orderly
  <1>2. PICK step \in {"complete", "fail"}, status \in {"completed", "failed"} :
          CloseRun(t, step, status) /\ (status = "completed" => step = "complete")
    BY DEF CompleteRun, FailRun
  <1>3. task[t].pc = step /\ UNCHANGED <<kind, lock>> /\ (NoMishap \/ Fault)
    BY <1>2 DEF CloseRun
  <1>4. PICK r \in {task[t].run, IF task[t].run \in {"none", "orphan"} THEN task[t].run ELSE status},
             f \in {TRUE, task[t].final} :
          /\ Becomes(t, [task[t] EXCEPT !.run = r, !.pc = "finally", !.final = f])
          /\ (~faulty' => f = TRUE /\ r = (IF task[t].run \in {"none", "orphan"} THEN task[t].run ELSE status))
    <2> DEFINE closed == IF task[t].run \in {"none", "orphan"} THEN task[t].run ELSE status
    <2>0. task[t] \in TaskRecord BY <1>1 DEF Sound
    <2>1. CASE /\ Becomes(t, [Closed(task[t], status) EXCEPT !.pc = "finally", !.final = TRUE])
               /\ NoMishap
      <3>1. [Closed(task[t], status) EXCEPT !.pc = "finally", !.final = TRUE]
            = [task[t] EXCEPT !.run = closed, !.pc = "finally", !.final = TRUE]
        BY <2>0 DEF Closed, TaskRecord
      <3> QED BY <2>1, <3>1
    <2>2. CASE /\ \E x \in {task[t], Closed(task[t], status)} : Becomes(t, [x EXCEPT !.pc = "finally"])
               /\ Fault
      <3>1. [task[t] EXCEPT !.pc = "finally"]
            = [task[t] EXCEPT !.run = task[t].run, !.pc = "finally", !.final = task[t].final]
        BY <2>0 DEF TaskRecord
      <3>2. [Closed(task[t], status) EXCEPT !.pc = "finally"]
            = [task[t] EXCEPT !.run = closed, !.pc = "finally", !.final = task[t].final]
        BY <2>0 DEF Closed, TaskRecord
      <3>3. faulty' BY <2>2 DEF Fault
      <3> QED BY <2>2, <3>1, <3>2, <3>3
    <2> QED BY <1>2, <2>1, <2>2 DEF CloseRun
  <1> DEFINE y == [task[t] EXCEPT !.run = r, !.pc = "finally", !.final = f]
  <1>5. y \in TaskRecord
    BY <1>1, <1>2 DEF Sound, TaskRecord, Places, Inside, Statuses
  <1>6. /\ y.pc = "finally" /\ y.run = r /\ y.rows = task[t].rows /\ y.stored = task[t].stored
        /\ y.upserted = task[t].upserted /\ y.flying = task[t].flying
        /\ y.fails = task[t].fails /\ y.todo = task[t].todo
        /\ y.final = f /\ y.lost = task[t].lost
    BY <1>1 DEF Sound, TaskRecord
  <1>7. y = [task[t] EXCEPT !.run = r, !.pc = "finally", !.final = f] OBVIOUS
  <1> HIDE DEF y
  <1>8. r = "completed" => task[t].pc = "complete"
    BY <1>1, <1>2, <1>3, <1>4 DEF Sound
  <1>9. Sound(y) BY <1>1, <1>5, <1>6, <1>8 DEF Sound
  <1>10. ~faulty' => Honest(y)
    BY <1>1, <1>2, <1>3, <1>4, <1>6 DEF Honest, Fault, NoMishap
  <1>11. (y.lost \/ lock' = t) /\ lock' \in Tasks \cup {NoTask}
    BY <1>3, <1>6 DEF JrInv, JrTypes, Held, Inside, Body
  <1> QED BY <1>3, <1>4, <1>7, <1>9, <1>10, <1>11, FaultyGrows, OneMoves

LEMMA Finishes == ASSUME JrInv, NEW t \in Tasks, Finally(t) PROVE JrInv'
  <1>1. Sound(task[t]) /\ (~faulty => Honest(task[t])) /\ task[t] \in TaskRecord
    BY DEF JrInv, Orderly, Sound
  <1>2. task[t].pc = "finally" /\ UNCHANGED <<kind, lock>> BY DEF Finally
  <1> DEFINE r == IF task[t].final \/ task[t].run \in {"none", "orphan"} THEN task[t].run
                  ELSE "failed"
  <1>3. CASE /\ Becomes(t, [IF task[t].final THEN task[t] ELSE Closed(task[t], "failed")
                              EXCEPT !.pc = "clear"])
             /\ NoMishap
    <2> DEFINE y == [task[t] EXCEPT !.run = r, !.pc = "clear"]
    <2>1. [IF task[t].final THEN task[t] ELSE Closed(task[t], "failed") EXCEPT !.pc = "clear"] = y
      BY <1>1 DEF Closed, TaskRecord
    <2>2. Becomes(t, y) BY <1>3, <2>1
    <2>3. y \in TaskRecord BY <1>1 DEF TaskRecord, Places, Inside, Statuses
    <2>4. /\ y.pc = "clear" /\ y.run = r /\ y.rows = task[t].rows /\ y.stored = task[t].stored
          /\ y.upserted = task[t].upserted /\ y.flying = task[t].flying
          /\ y.fails = task[t].fails /\ y.todo = task[t].todo
          /\ y.final = task[t].final /\ y.lost = task[t].lost
      BY <1>1 DEF TaskRecord
    <2> HIDE DEF y
    <2>5. Sound(y) BY <1>1, <1>2, <2>3, <2>4 DEF Sound
    <2>6. faulty' = faulty /\ faulty' \in BOOLEAN BY <1>3 DEF NoMishap, JrInv, JrTypes
    <2>7. ~faulty' => Honest(y) BY <1>1, <1>2, <2>4, <2>6 DEF Honest
    <2>8. (y.lost \/ lock' = t) /\ lock' \in Tasks \cup {NoTask}
      BY <1>2, <2>4 DEF JrInv, JrTypes, Held, Inside
    <2> QED BY <1>2, <2>2, <2>5, <2>6, <2>7, <2>8, OneMoves
  <1>4. CASE Goto(t, "clear") /\ Fault
    <2>1. faulty' = TRUE BY <1>4 DEF Fault
    <2> QED BY <1>2, <1>4, <2>1, OneGoes DEF Inside, Body
  <1> QED BY <1>3, <1>4 DEF Finally

LEMMA ClearsProgress == ASSUME JrInv, NEW t \in Tasks, ClearProgress(t) PROVE JrInv'
  <1>1. task[t].pc = "clear" /\ Goto(t, "release") /\ UNCHANGED <<kind, lock>> /\ (NoMishap \/ Fault)
    BY DEF ClearProgress
  <1>2. ~faulty' => task[t].run # "running"
    BY <1>1, FaultyGrows DEF JrInv, Orderly, Honest, Body
  <1> QED BY <1>1, <1>2, FaultyGrows, OneGoes DEF Inside, Body

LEMMA ReleasesLock == ASSUME JrInv, NEW t \in Tasks, ReleaseLock(t) PROVE JrInv'
  <1>1. /\ task[t].pc = "release" /\ End(t) /\ UNCHANGED kind /\ (NoMishap \/ Fault)
        /\ lock' = lock \/ (lock = t /\ lock' = NoTask)
    BY DEF ReleaseLock
  <1>2. ~faulty' => task[t].run # "running"
    BY <1>1, FaultyGrows DEF JrInv, Orderly, Honest, Body
  <1>3. lock' \in Tasks \cup {NoTask} /\ (\A u \in Tasks : u # t /\ lock = u => lock' = u)
    BY <1>1 DEF JrInv, JrTypes
  <1> QED BY <1>1, <1>2, <1>3, FaultyGrows, OneEnds

LEMMA IsCancelled == ASSUME JrInv, NEW t \in Tasks, Cancel(t) PROVE JrInv'
  <1>1. Sound(task[t]) /\ (~faulty => Honest(task[t])) /\ task[t] \in TaskRecord /\ JrTypes
    BY DEF JrInv, Orderly, Sound
  <1>2. UNCHANGED kind BY DEF Cancel
  <1>3. CASE /\ task[t].pc \in Body
             /\ \E y \in IF task[t].pc = "complete" THEN {task[t], Closed(task[t], "completed")}
                                                    ELSE {task[t]} :
                  Becomes(t, [y EXCEPT !.pc = AfterBody, !.flying = 0])
             /\ UNCHANGED lock /\ NoMishap
    <2>1. PICK r \in {task[t].run} \cup
                     (IF task[t].pc = "complete" /\ task[t].run \notin {"none", "orphan"}
                      THEN {"completed"} ELSE {}) :
            Becomes(t, [task[t] EXCEPT !.run = r, !.pc = AfterBody, !.flying = 0])
      <3>1. [task[t] EXCEPT !.pc = AfterBody, !.flying = 0]
            = [task[t] EXCEPT !.run = task[t].run, !.pc = AfterBody, !.flying = 0]
        BY <1>1 DEF TaskRecord
      <3>2. [Closed(task[t], "completed") EXCEPT !.pc = AfterBody, !.flying = 0]
            = [task[t] EXCEPT !.run = IF task[t].run \in {"none", "orphan"} THEN task[t].run
                                      ELSE "completed",
                              !.pc = AfterBody, !.flying = 0]
        BY <1>1 DEF TaskRecord, Closed
      <3> QED BY <1>3, <3>1, <3>2
    <2> DEFINE y == [task[t] EXCEPT !.run = r, !.pc = AfterBody, !.flying = 0]
    <2>2. /\ AfterBody \in {"finally", "clear", "release"}
          /\ (AfterBody # "finally" => ~kind.record)
      BY DEF AfterBody
    <2>3. y \in TaskRecord BY <1>1, <2>2 DEF TaskRecord, Places, Inside, Statuses
    <2>4. /\ y.pc = AfterBody /\ y.run = r /\ y.rows = task[t].rows /\ y.stored = task[t].stored
          /\ y.upserted = task[t].upserted /\ y.flying = 0
          /\ y.fails = task[t].fails /\ y.todo = task[t].todo
          /\ y.final = task[t].final /\ y.lost = task[t].lost
      BY <1>1 DEF TaskRecord
    <2>5. Becomes(t, y) BY <2>1
    <2> HIDE DEF y
    <2>6. task[t].fails \in Nat /\ task[t].flying \in Nat BY <1>1 DEF TaskRecord
    <2>7. kind.breaker => y.fails + y.flying < Limit + kind.batch
      BY <1>1, <2>4, <2>6 DEF Sound, JrTypes
    <2>8. y.run = "completed" => task[t].pc = "complete"
      BY <1>1, <1>3, <2>1, <2>4 DEF Sound, Body
    <2>9. ~task[t].final BY <1>1, <1>3 DEF Sound, Body
    <2>10. Sound(y)
      BY <1>1, <2>2, <2>3, <2>4, <2>7, <2>8, <2>9 DEF Sound
    <2>11. faulty' = faulty /\ faulty' \in BOOLEAN BY <1>3 DEF NoMishap, JrInv, JrTypes
    <2>12. ~faulty' => Honest(y) BY <1>1, <2>1, <2>2, <2>4, <2>9, <2>11 DEF Honest
    <2>13. (y.lost \/ lock' = t) /\ lock' \in Tasks \cup {NoTask}
      BY <1>3, <2>4 DEF JrInv, JrTypes, Held, Inside
    <2> QED BY <1>2, <1>3, <2>5, <2>10, <2>11, <2>12, <2>13, OneMoves
  <1>4. CASE /\ End(t) /\ Fault
             /\ lock' \in IF task[t].pc = "acquire" /\ lock = NoTask THEN {NoTask, t} ELSE {lock}
    <2>1. faulty' = TRUE BY <1>4 DEF Fault
    <2>2. lock' \in Tasks \cup {NoTask} /\ (\A u \in Tasks : u # t /\ lock = u => lock' = u)
      BY <1>4 DEF JrInv, JrTypes
    <2> QED BY <1>2, <1>4, <2>1, <2>2, OneEnds
  <1> QED BY <1>3, <1>4 DEF Cancel

-----------------------------------------------------------------------------
(* The other steps *)

\* What a task's place and counts need is not changed by its callback or by the
\* loss of its lock.
LEMMA MarksMatterNot ==
    ASSUME NEW x, Sound(x), NEW b \in BOOLEAN
    PROVE  /\ Sound([x EXCEPT !.callback = b]) /\ Sound([x EXCEPT !.lost = b])
           /\ Honest(x) => Honest([x EXCEPT !.callback = b]) /\ Honest([x EXCEPT !.lost = b])
  <1>1. x \in TaskRecord BY DEF Sound
  <1> DEFINE y == [x EXCEPT !.callback = b]
             z == [x EXCEPT !.lost = b]
  <1>2. y \in TaskRecord /\ z \in TaskRecord BY <1>1 DEF TaskRecord
  <1>3. \A v \in {y, z} :
          /\ v.pc = x.pc /\ v.run = x.run /\ v.rows = x.rows /\ v.stored = x.stored
          /\ v.upserted = x.upserted /\ v.flying = x.flying /\ v.fails = x.fails
          /\ v.todo = x.todo /\ v.final = x.final
    BY <1>1 DEF TaskRecord
  <1> HIDE DEF y, z
  <1>4. Sound(y) BY <1>2, <1>3 DEF Sound
  <1>5. Sound(z) BY <1>2, <1>3 DEF Sound
  <1>6. Honest(x) => Honest(y) /\ Honest(z) BY <1>3 DEF Honest
  <1> QED BY <1>4, <1>5, <1>6 DEF y, z

LEMMA CleansUp == ASSUME JrInv, NEW t \in Tasks, Cleanup(t) PROVE JrInv'
  <1> DEFINE y == [task[t] EXCEPT !.callback = FALSE]
  <1>1. Sound(task[t]) /\ (~faulty => Honest(task[t])) BY DEF JrInv, Orderly
  <1>2. task[t].pc = "ended" /\ Becomes(t, y) /\ UNCHANGED <<kind, lock>> /\ faulty' = faulty
    BY DEF Cleanup, NoMishap
  <1>3. Sound(y) /\ (~faulty' => Honest(y)) BY <1>1, <1>2, MarksMatterNot
  <1>4. y.pc \notin Inside BY <1>1, <1>2 DEF Sound, TaskRecord, Inside, Body
  <1>5. lock' \in Tasks \cup {NoTask} /\ faulty' \in BOOLEAN BY <1>2 DEF JrInv, JrTypes
  <1> HIDE DEF y
  <1> QED BY <1>2, <1>3, <1>4, <1>5, OneMoves

LEMMA LosesLock == ASSUME JrInv, LoseLock PROVE JrInv'
  <1>1. lock \in Tasks /\ lock' = NoTask /\ UNCHANGED <<kind, faulty>>
    BY DEF LoseLock, JrInv, JrTypes
  <1> DEFINE b == task[lock].lost \/ Live(lock)
             y == [task[lock] EXCEPT !.lost = b]
  <1>2. Sound(task[lock]) /\ (~faulty => Honest(task[lock])) BY <1>1 DEF JrInv, Orderly
  <1>3. Becomes(lock, y) BY DEF LoseLock, Becomes
  <1>4. b \in BOOLEAN OBVIOUS
  <1>5. Sound(y) /\ (~faulty' => Honest(y)) BY <1>1, <1>2, <1>4, MarksMatterNot
  <1>6. y.pc = task[lock].pc /\ y.lost = b BY <1>2 DEF Sound, TaskRecord
  <1>7. y.pc \in Inside => y.lost BY <1>6 DEF Live
  <1>8. faulty' \in BOOLEAN /\ lock' \in Tasks \cup {NoTask} BY <1>1 DEF JrInv, JrTypes
  <1> HIDE DEF y
  <1> QED BY <1>1, <1>3, <1>5, <1>7, <1>8, OneMoves

LEMMA Crashes == ASSUME JrInv, NEW w \in Workers, Crash(w) PROVE JrInv'
  <1>1. /\ faulty' = TRUE /\ UNCHANGED <<kind, lock>>
        /\ task' = [t \in Tasks |-> IF task[t].w = w
                                    THEN [Ended(task[t]) EXCEPT !.callback = FALSE] ELSE task[t]]
    BY DEF Crash, Fault
  <1>2. JrTypes' BY <1>1 DEF JrInv, JrTypes
  <1>3. ASSUME NEW x, Sound(x)
        PROVE  /\ Sound([Ended(x) EXCEPT !.callback = FALSE])
               /\ [Ended(x) EXCEPT !.callback = FALSE].pc = "ended"
    <2> DEFINE y == [Ended(x) EXCEPT !.callback = FALSE]
    <2>1. y \in TaskRecord BY <1>3 DEF Sound, TaskRecord, Ended, NotStarted, Places
    <2>2. /\ y.pc = "ended" /\ y.rows = 0 /\ y.stored = 0
          /\ y.upserted = 0 /\ y.flying = 0 /\ y.fails = 0 /\ y.final = FALSE
      BY DEF Ended, NotStarted
    <2> HIDE DEF y
    <2>3. Sound(y) BY <2>1, <2>2, 0 < Limit + kind.batch DEF Sound, JrInv, JrTypes
    <2> QED BY <2>2, <2>3 DEF y
  <1>4. ASSUME NEW t \in Tasks
        PROVE  /\ Orderly(task[t])'
               /\ (task'[t].pc \in Inside /\ ~task'[t].lost => lock' = t)
    <2>1. task'[t] = (IF task[t].w = w THEN [Ended(task[t]) EXCEPT !.callback = FALSE] ELSE task[t])
      BY <1>1
    <2>2. Sound(task[t]) BY DEF JrInv, Orderly
    <2>3. Sound(task'[t]) BY <1>3, <2>1, <2>2
    <2>4. Orderly(task[t])' BY <1>1, <2>3 DEF Orderly, Sound
    <2>5. task'[t].pc \in Inside => task'[t] = task[t]
      BY <1>3, <2>1, <2>2 DEF Inside, Body
    <2> QED BY <1>1, <2>4, <2>5 DEF JrInv, Held
  <1> QED BY <1>2, <1>4 DEF JrInv, Held

LEMMA Stutters == ASSUME JrInv, UNCHANGED <<kind, task, lock, faulty>> PROVE JrInv'
  BY DEF JrInv, JrTypes, Orderly, Sound, Honest, Held

LEMMA JrStep == JrInv /\ [JrNext]_jrVars => JrInv'
  <1> SUFFICES ASSUME JrInv, [JrNext]_jrVars PROVE JrInv'
    OBVIOUS
  <1>1. CASE UNCHANGED jrVars \/ ExpireProgress
    BY <1>1, Stutters DEF jrVars, ExpireProgress, NoMishap
  <1>2. CASE LoseLock BY <1>2, LosesLock
  <1>3. CASE \E w \in Workers : Crash(w) BY <1>3, Crashes
  <1>4. ASSUME NEW t \in Tasks, NEW w \in Workers, Trigger(w, t) \/ Schedule(w, t) PROVE JrInv'
    <2>1. CASE Trigger(w, t)
      <3>1. Becomes(t, [task[t] EXCEPT !.pc = "acquire", !.w = w, !.callback = TRUE])
        BY <2>1 DEF Trigger
      <3> QED BY <2>1, <3>1, Starts DEF Trigger
    <2>2. CASE Schedule(w, t)
      <3>1. task[t] \in TaskRecord /\ task[t].callback \in BOOLEAN
        BY DEF JrInv, Orderly, Sound, TaskRecord
      <3>2. Becomes(t, [task[t] EXCEPT !.pc = "acquire", !.w = w]) BY <2>2 DEF Schedule
      <3>3. [task[t] EXCEPT !.pc = "acquire", !.w = w]
            = [task[t] EXCEPT !.pc = "acquire", !.w = w, !.callback = task[t].callback]
        BY <3>1 DEF TaskRecord
      <3> QED BY <2>2, <3>1, <3>2, <3>3, Starts DEF Schedule
    <2> QED BY <1>4, <2>1, <2>2
  <1>5. ASSUME NEW t \in Tasks, Step(t) PROVE JrInv'
    BY <1>5, Acquires, Creates, StartsWork, Stores, GetsNothing, EndsBatch, Raises, Closes,
       Finishes, ClearsProgress, ReleasesLock
    DEF Step
  <1> QED BY <1>1, <1>2, <1>3, <1>4, <1>5, CleansUp, IsCancelled DEF JrNext

THEOREM JobsInvariant == JrSpec => []JrInv
  BY JrInitially, JrStep, PTL DEF JrSpec

-----------------------------------------------------------------------------
(* The properties *)

\* For any number of tasks and workers: of two tasks inside the frame of a job,
\* whatever the registry knows of them, one has lost its lock.
THEOREM JobsAreExclusiveHolds == JrSpec => []JobsAreExclusive
  <1>1. JrInv => JobsAreExclusive
    BY DEF JrInv, Held, JobsAreExclusive
  <1> QED BY <1>1, JobsInvariant, PTL

\* For any kind of job: a task that ended leaves no record open unless a command
\* failed or it was cut short, and a completed record counts all that was stored.
THEOREM JobsAreRecordedHolds == JrSpec => []JobsAreRecorded
  <1>1. JrInv => JobsAreRecorded
    BY DEF JrInv, Orderly, Sound, Honest, Body, JobsAreRecorded
  <1> QED BY <1>1, JobsInvariant, PTL

\* For any limit and size of a batch: failures in a row may pass the limit, but by
\* less than a batch.
THEOREM BreakerHoldsAlways == JrSpec => []BreakerHolds
  <1>1. ASSUME JrInv, NEW t \in Tasks, kind.breaker
        PROVE  task[t].fails < Limit + kind.batch
    <2>1. Sound(task[t]) BY <1>1 DEF JrInv, Orderly
    <2>2. task[t].fails \in Nat /\ task[t].flying \in Nat BY <2>1 DEF Sound, TaskRecord
    <2> QED BY <1>1, <2>1, <2>2 DEF Sound, JrInv, JrTypes
  <1>2. JrInv => BreakerHolds BY <1>1 DEF BreakerHolds
  <1> QED BY <1>2, JobsInvariant, PTL

\* A step changes the progress shown of a task at work only if it is the task's
\* own, as long as no lock was lost.
LEMMA ProgressIsOnesOwn ==
    ASSUME JrInv, [JrNext]_jrVars, NEW t \in Tasks, progress = t, task[t].pc \in Inside,
           task'[t].pc = task[t].pc, \A u \in Tasks : ~task[u].lost
    PROVE  progress' = t
  <1>1. lock = t BY DEF JrInv, Held
  <1>2. ASSUME NEW u \in Tasks, task[u].pc \in Inside PROVE u = t
    BY <1>1, <1>2 DEF JrInv, Held
  <1>3. ASSUME NEW u \in Tasks, EndBatch(u) PROVE progress' = t
    <2>1. task[u].pc = "work"
      <3>1. task[u] \in TaskRecord BY DEF JrInv, Orderly, Sound
      <3>2. [task[u] EXCEPT !.upserted = @ + task[u].rows, !.rows = 0].pc = task[u].pc
        BY <3>1 DEF TaskRecord
      <3> QED BY <1>3, <3>2 DEF EndBatch
    <2>2. u = t BY <1>2, <2>1 DEF Inside, Body
    <2> QED BY <1>3, <2>2 DEF EndBatch
  <1>4. ASSUME NEW u \in Tasks, ClearProgress(u) PROVE progress' = t
    <2>1. u = t /\ task'[t].pc = "release"
      <3>1. u = t BY <1>2, <1>4 DEF ClearProgress, Inside
      <3>2. DOMAIN task = Tasks /\ task[t] \in TaskRecord BY DEF JrInv, JrTypes, Orderly, Sound
      <3> QED BY <1>4, <3>1, <3>2 DEF ClearProgress, Goto, TaskRecord
    <2> QED BY <1>4, <2>1 DEF ClearProgress
  <1>5. CASE ExpireProgress BY <1>5 DEF ExpireProgress, Inside, Body
  <1>6. CASE LoseLock \/ UNCHANGED jrVars \/ \E w \in Workers : Crash(w)
    BY <1>6 DEF LoseLock, jrVars, Crash
  <1>7. ASSUME NEW u \in Tasks,
               Cancel(u) \/ Cleanup(u) \/ \E w \in Workers : Trigger(w, u) \/ Schedule(w, u)
        PROVE  progress' = t
    BY <1>7 DEF Cancel, Cleanup, Trigger, Schedule
  <1>8. ASSUME NEW u \in Tasks, Step(u), ~EndBatch(u), ~ClearProgress(u) PROVE progress' = t
    BY <1>8 DEF Step, AcquireLock, CreateRun, StartWork, Stored, Empty, Raise, CompleteRun,
                FailRun, CloseRun, Finally, ReleaseLock
  <1>9. ASSUME NEW u \in Tasks, Step(u) PROVE progress' = t
    BY <1>3, <1>4, <1>8, <1>9
  <1> QED BY <1>5, <1>6, <1>7, <1>9 DEF JrNext

\* For any number of tasks and workers: as long as no lock was lost, the progress
\* shown of a task at work is taken away by nobody else.
THEOREM OthersKeepProgressHolds == JrSpec => OthersKeepProgress
  <1>1. JrInv /\ [JrNext]_jrVars =>
          [\A t \in Tasks :
             /\ progress = t /\ task[t].pc \in Inside /\ task'[t].pc = task[t].pc
             /\ \A u \in Tasks : ~task[u].lost
             => progress' = t]_jrVars
    BY ProgressIsOnesOwn
  <1> QED BY <1>1, JobsInvariant, PTL DEF JrSpec, OthersKeepProgress

-----------------------------------------------------------------------------
(* A streak of refused downloads. *)

\* Items with a permit that are at attempt a.
At(a) == asking[a] + resting[a]

\* Requests the items with a permit may still send.
AttemptsLeft == IF collector.attempts = 1 THEN 0
                ELSE IF collector.attempts = 2 THEN At(1)
                ELSE 2 * At(1) + At(2)

\* The most the others may have left when one item gives the collection up.
Most == (collector.sem - 1) * (collector.attempts - 1)

PsTypes ==
    /\ collector \in Collectors
    /\ left \in Nat /\ waiting \in Nat
    /\ asking \in [Attempts -> Nat] /\ resting \in [Attempts -> Nat]
    /\ streak \in Nat /\ late \in Nat /\ aborted \in BOOLEAN

PermitsKept == Holders <= collector.sem

Streaking == \/ streak < StreakLimit
             \/ aborted /\ streak + Holders <= StreakLimit - 1 + collector.sem

Spending ==
    IF aborted
    THEN late + AttemptsLeft <= Most
    ELSE late = 0

PsInv == PsTypes /\ PermitsKept /\ Streaking /\ Spending

\* What the proofs below use of a collection, spelt out for the solver.
Facts ==
    /\ collector.sem \in Nat /\ collector.sem > 0
    /\ collector.batch \in Nat /\ collector.batch > 0
    /\ \/ collector.attempts = 1 \/ collector.attempts = 2
       \/ collector.attempts = 3
    /\ StreakLimit \in Nat /\ StreakLimit > 0 /\ Items \in Nat
    /\ asking[1] \in Nat /\ asking[2] \in Nat /\ asking[3] \in Nat
    /\ resting[1] \in Nat /\ resting[2] \in Nat /\ resting[3] \in Nat
    /\ streak \in Nat /\ late \in Nat /\ aborted \in BOOLEAN

LEMMA CollectorFacts == PsTypes => Facts
  BY StreakAssumption DEF Facts, PsTypes, Attempts

LEMMA MostIsNat == Facts => Most \in Nat
  <1> SUFFICES ASSUME Facts PROVE Most \in Nat
    OBVIOUS
  <1>1. collector.sem - 1 \in Nat /\ collector.attempts - 1 \in Nat
    BY DEF Facts
  <1> QED BY <1>1 DEF Most

\* What is sent since and what is left make room for each other.
LEMMA Trade ==
    ASSUME NEW n \in Int, NEW m \in Int, NEW k \in Int, NEW l \in Int,
           NEW o \in Int, n + m <= k, o + l <= n + m
    PROVE  o + l <= k
  OBVIOUS

LEMMA PsInitially == PsInit => PsInv
  <1> SUFFICES ASSUME PsInit PROVE PsInv
    OBVIOUS
  <1>1. PsTypes BY StreakAssumption DEF PsInit, PsTypes
  <1>2. Holders = 0 BY DEF PsInit, Holders, Total, Attempts
  <1> QED BY <1>1, <1>2, CollectorFacts
          DEF PsInv, Facts, PsInit, PermitsKept, Streaking, Spending

\* The next batch finds no permit in use.
LEMMA Begins == PsInv /\ BatchBegins => PsInv'
  <1> SUFFICES ASSUME PsInv, BatchBegins PROVE PsInv'
    OBVIOUS
  <1>1. PsTypes'
    BY CollectorFacts DEF Facts, PsInv, PsTypes, BatchBegins
  <1> QED BY <1>1 DEF PsInv, BatchBegins, PermitsKept, Streaking, Spending,
                      Holders, Total, AttemptsLeft, At, Most

\* A permit is given only below the limit of the semaphore, and to no item of a
\* collection that was given up.
LEMMA Takes == PsInv /\ TakePermit => PsInv'
  <1> SUFFICES ASSUME PsInv, TakePermit PROVE PsInv'
    OBVIOUS
  <1>0. Facts /\ PermitsKept /\ Streaking /\ Spending
    BY CollectorFacts DEF PsInv
  <1>t. PsTypes BY DEF PsInv
  <1>1. PsTypes'
    BY <1>0, <1>t DEF Facts, PsTypes, TakePermit, Sent, Attempts
  <1>2. CASE aborted
    <2>1. UNCHANGED <<collector, asking, resting, streak, aborted, late>>
      BY <1>2 DEF TakePermit
    <2> QED BY <1>0, <1>1, <2>1 DEF PsInv, PermitsKept, Streaking, Spending,
                                Holders, Total, AttemptsLeft, At, Most
  <1>3. CASE ~aborted
    <2>1. /\ asking'[1] = asking[1] + 1 /\ asking'[2] = asking[2]
          /\ asking'[3] = asking[3]
      BY <1>3, <1>t DEF TakePermit, PsTypes, Attempts
    <2>2. /\ resting' = resting /\ streak' = streak /\ aborted' = aborted
          /\ collector' = collector /\ late' = late /\ Holders < collector.sem
      BY <1>3 DEF TakePermit, Sent
    <2>3. PermitsKept'
      BY <1>0, <2>1, <2>2 DEF Facts, PermitsKept, Holders, Total
    <2> QED BY <1>0, <1>1, <1>3, <2>2, <2>3 DEF PsInv, Streaking, Spending
  <1> QED BY <1>2, <1>3

\* How an item leaves: one request less under way at attempt a, and the streak
\* no longer than it was.
Leaves(a) == /\ asking[a] > 0
             /\ asking' = [asking EXCEPT ![a] = @ - 1]
             /\ UNCHANGED <<collector, left, waiting, resting, aborted, late>>
             /\ streak' \in {0, streak}

LEMMA Leave == ASSUME PsInv, NEW a \in Attempts, Leaves(a) PROVE PsInv'
  <1>0. Facts /\ PermitsKept /\ Streaking /\ Spending
    BY CollectorFacts DEF PsInv
  <1>t. PsTypes BY DEF PsInv
  <1>1. PsTypes'
    BY <1>0, <1>t DEF Facts, PsTypes, Leaves, Attempts
  <1>2. /\ asking'[1] = IF a = 1 THEN asking[1] - 1 ELSE asking[1]
        /\ asking'[2] = IF a = 2 THEN asking[2] - 1 ELSE asking[2]
        /\ asking'[3] = IF a = 3 THEN asking[3] - 1 ELSE asking[3]
        /\ asking[a] > 0 /\ (a = 1 \/ a = 2 \/ a = 3)
    BY <1>0, <1>t DEF Facts, PsTypes, Leaves, Attempts
  <1>3. /\ resting' = resting /\ collector' = collector /\ late' = late
        /\ aborted' = aborted /\ (streak' = 0 \/ streak' = streak)
    BY <1>0, <1>t DEF Facts, Leaves
  <1>4. Holders \in Nat
    BY <1>0 DEF Facts, Holders, Total
  <1>5. Holders' = Holders - 1
    BY <1>0, <1>2, <1>3 DEF Facts, Holders, Total
  <1>6. PermitsKept' /\ Streaking'
    BY <1>0, <1>3, <1>4, <1>5 DEF Facts, PermitsKept, Streaking
  <1>7. /\ late + AttemptsLeft' <= late + AttemptsLeft
        /\ AttemptsLeft \in Int /\ AttemptsLeft' \in Int
    BY <1>0, <1>2, <1>3 DEF Facts, AttemptsLeft, At
  <1>8. CASE aborted
    <2>1. late + AttemptsLeft <= Most /\ Most \in Int /\ late \in Int
      BY <1>0, <1>8, MostIsNat DEF Spending, Facts
    <2>2. late + AttemptsLeft' <= Most
      BY <2>1, <1>7, Trade
    <2>3. Spending' BY <1>3, <1>8, <2>2 DEF Spending, Most
    <2> QED BY <1>1, <1>6, <2>3 DEF PsInv
  <1>9. CASE ~aborted
    <2>1. Spending' BY <1>0, <1>9, <1>3 DEF Facts, Spending
    <2> QED BY <1>1, <1>6, <2>1 DEF PsInv
  <1> QED BY <1>8, <1>9

\* A 429 answer that the item sleeps over: its attempt counts as left until it
\* has been sent.
Rests(a) == /\ asking[a] > 0
            /\ asking' = [asking EXCEPT ![a] = @ - 1]
            /\ resting' = [resting EXCEPT ![a] = @ + 1]
            /\ UNCHANGED <<collector, left, waiting, aborted, late>>
            /\ streak' = streak \/ (streak' = streak + 1 /\ streak' < StreakLimit)

LEMMA Rest == ASSUME PsInv, NEW a \in Attempts, Rests(a) PROVE PsInv'
  <1>0. Facts /\ PermitsKept /\ Streaking /\ Spending
    BY CollectorFacts DEF PsInv
  <1>t. PsTypes BY DEF PsInv
  <1>1. PsTypes'
    BY <1>0, <1>t DEF Facts, PsTypes, Rests, Attempts
  <1>2. /\ asking'[1] + resting'[1] = asking[1] + resting[1]
        /\ asking'[2] + resting'[2] = asking[2] + resting[2]
        /\ asking'[3] + resting'[3] = asking[3] + resting[3]
        /\ a = 1 \/ a = 2 \/ a = 3
    BY <1>0, <1>t DEF Facts, PsTypes, Rests, Attempts
  <1>3. /\ asking'[1] \in Nat /\ asking'[2] \in Nat /\ asking'[3] \in Nat
        /\ resting'[1] \in Nat /\ resting'[2] \in Nat /\ resting'[3] \in Nat
    BY <1>0, <1>1 DEF Facts, PsTypes, Attempts
  <1>4. Holders' = Holders BY <1>0, <1>2, <1>3 DEF Facts, Holders, Total
  <1>5. AttemptsLeft' = AttemptsLeft BY <1>0, <1>2, <1>3 DEF Facts, AttemptsLeft, At, Rests
  <1>6. /\ collector' = collector /\ late' = late /\ aborted' = aborted
        /\ streak' = streak \/ streak' < StreakLimit
    BY DEF Rests
  <1>7. PermitsKept' /\ Streaking' /\ Spending'
    BY <1>0, <1>4, <1>5, <1>6 DEF PermitsKept, Streaking, Spending, Most
  <1> QED BY <1>1, <1>7 DEF PsInv

\* The 429 answer that reaches the limit, and those that come after it: the item
\* gives its permit back.
LEMMA Abort ==
    ASSUME PsInv, NEW a \in Attempts, RateLimited(a), collector.streak,
           streak + 1 >= StreakLimit
    PROVE  PsInv'
  <1>0. Facts /\ PermitsKept /\ Streaking /\ Spending
    BY CollectorFacts DEF PsInv
  <1>t. PsTypes BY DEF PsInv
  <1>1. PsTypes'
    BY <1>0, <1>t DEF Facts, PsTypes, RateLimited, Attempts
  <1>2. /\ asking'[1] = IF a = 1 THEN asking[1] - 1 ELSE asking[1]
        /\ asking'[2] = IF a = 2 THEN asking[2] - 1 ELSE asking[2]
        /\ asking'[3] = IF a = 3 THEN asking[3] - 1 ELSE asking[3]
        /\ asking[a] > 0 /\ (a = 1 \/ a = 2 \/ a = 3)
    BY <1>0, <1>t DEF Facts, PsTypes, RateLimited, Attempts
  <1>3. /\ resting' = resting /\ collector' = collector /\ late' = late
        /\ aborted' = TRUE /\ streak' = streak + 1 /\ streak \in Nat /\ late \in Nat
    BY <1>0, <1>t DEF Facts, RateLimited, PsTypes
  <1>4. Holders \in Nat
    BY <1>0 DEF Facts, Holders, Total
  <1>5. Holders' = Holders - 1
    BY <1>0, <1>2, <1>3 DEF Facts, Holders, Total
  <1>6. PermitsKept' /\ Streaking'
    BY <1>0, <1>3, <1>4, <1>5 DEF Facts, PermitsKept, Streaking
  <1>7. Most \in Int /\ Most' = Most
    BY <1>0, <1>3, MostIsNat DEF Most
  <1>8. CASE aborted
    <2>1. /\ late + AttemptsLeft' <= late + AttemptsLeft
          /\ AttemptsLeft \in Int /\ AttemptsLeft' \in Int
      BY <1>0, <1>2, <1>3 DEF Facts, AttemptsLeft, At
    <2>2. late + AttemptsLeft <= Most /\ late \in Int
      BY <1>0, <1>8 DEF Spending, Facts
    <2>3. late + AttemptsLeft' <= Most
      BY <1>7, <2>1, <2>2, Trade
    <2>4. Spending' BY <1>3, <1>7, <2>3 DEF Spending
    <2> QED BY <1>1, <1>6, <2>4 DEF PsInv
  <1>9. CASE ~aborted
    <2>1. late = 0 BY <1>0, <1>9 DEF Spending
    <2>2. /\ At(1)' \in Nat /\ At(2)' \in Nat
      BY <1>0, <1>2, <1>3 DEF Facts, At
    <2>3. At(1)' + At(2)' <= collector.sem - 1
      BY <1>0, <1>2, <1>3 DEF Facts, PermitsKept, Holders, Total, At
    <2>4. 0 + AttemptsLeft' <= Most
      <3>1. CASE collector.attempts = 1
        BY <1>0, <1>3, <2>2, <2>3, <3>1 DEF Facts, AttemptsLeft, Most
      <3>2. CASE collector.attempts = 2
        BY <1>0, <1>3, <2>2, <2>3, <3>2 DEF Facts, AttemptsLeft, Most
      <3>3. CASE collector.attempts = 3
        BY <1>0, <1>3, <2>2, <2>3, <3>3 DEF Facts, AttemptsLeft, Most
      <3> QED BY <1>0, <3>1, <3>2, <3>3 DEF Facts
    <2>5. late' + AttemptsLeft' <= Most
      BY <1>3, <2>1, <2>4
    <2>6. Spending' BY <1>3, <1>7, <2>5 DEF Spending
    <2> QED BY <1>1, <1>6, <2>6 DEF PsInv
  <1> QED BY <1>8, <1>9

\* Waking up, an item sends the attempt it had left, or leaves.
LEMMA Wakes == ASSUME PsInv, NEW a \in Attempts, WakeUp(a) PROVE PsInv'
  <1>0. Facts /\ PermitsKept /\ Streaking /\ Spending
    BY CollectorFacts DEF PsInv
  <1>t. PsTypes BY DEF PsInv
  <1>1. PsTypes'
    BY <1>0, <1>t DEF Facts, PsTypes, WakeUp, Sent, Attempts
  <1>2. /\ resting'[1] = IF a = 1 THEN resting[1] - 1 ELSE resting[1]
        /\ resting'[2] = IF a = 2 THEN resting[2] - 1 ELSE resting[2]
        /\ resting'[3] = IF a = 3 THEN resting[3] - 1 ELSE resting[3]
        /\ resting[a] > 0 /\ (a = 1 \/ a = 2 \/ a = 3)
    BY <1>0, <1>t DEF Facts, PsTypes, WakeUp, Attempts
  <1>3. /\ collector' = collector /\ aborted' = aborted /\ streak' = streak
        /\ late \in Nat /\ aborted \in BOOLEAN /\ streak \in Nat
    BY <1>0, <1>t DEF Facts, WakeUp, PsTypes
  <1>4. Most \in Int /\ Most' = Most
    BY <1>0, <1>3, MostIsNat DEF Most
  <1>5. CASE a < collector.attempts
    <2>1. /\ asking'[1] = asking[1]
          /\ asking'[2] = IF a = 1 THEN asking[2] + 1 ELSE asking[2]
          /\ asking'[3] = IF a = 2 THEN asking[3] + 1 ELSE asking[3]
          /\ a # 3
      BY <1>0, <1>t, <1>2, <1>5 DEF Facts, PsTypes, WakeUp, Attempts
    <2>2. late' = IF aborted THEN late + 1 ELSE late
      BY <1>5 DEF WakeUp, Sent
    <2>3. Holders' = Holders
      BY <1>0, <1>2, <2>1 DEF Facts, Holders, Total
    <2>4. PermitsKept' /\ Streaking'
      BY <1>0, <1>3, <2>3 DEF PermitsKept, Streaking
    <2>5. /\ (late + 1) + AttemptsLeft' <= late + AttemptsLeft
          /\ AttemptsLeft' \in Int /\ AttemptsLeft \in Int
      BY <1>0, <1>2, <1>3, <1>5, <2>1 DEF Facts, AttemptsLeft, At
    <2>6. CASE aborted
      <3>1. late + AttemptsLeft <= Most /\ late \in Int /\ late + 1 \in Int
        BY <1>0, <2>6 DEF Facts, Spending
      <3>2. (late + 1) + AttemptsLeft' <= Most
        BY <1>4, <2>5, <3>1, Trade
      <3>3. late' + AttemptsLeft' <= Most BY <2>2, <2>6, <3>2
      <3>4. Spending' BY <1>3, <1>4, <2>6, <3>3 DEF Spending
      <3> QED BY <1>1, <2>4, <3>4 DEF PsInv
    <2>7. CASE ~aborted
      <3>1. Spending' BY <1>0, <1>3, <2>2, <2>7 DEF Spending
      <3> QED BY <1>1, <2>4, <3>1 DEF PsInv
    <2> QED BY <2>6, <2>7
  <1>6. CASE ~(a < collector.attempts)
    <2>1. asking' = asking /\ late' = late BY <1>6 DEF WakeUp
    <2>2. Holders \in Nat BY <1>0 DEF Facts, Holders, Total
    <2>3. Holders' = Holders - 1
      BY <1>0, <1>2, <2>1 DEF Facts, Holders, Total
    <2>4. AttemptsLeft' = AttemptsLeft
      BY <1>0, <1>2, <1>3, <1>6, <2>1 DEF Facts, AttemptsLeft, At
    <2>5. PermitsKept' /\ Streaking'
      BY <1>0, <1>3, <2>2, <2>3 DEF Facts, PermitsKept, Streaking
    <2>6. Spending' BY <1>0, <1>3, <1>4, <2>1, <2>4 DEF Spending
    <2> QED BY <1>1, <2>5, <2>6 DEF PsInv
  <1> QED BY <1>5, <1>6

LEMMA PsStep == PsInv /\ [PsNext]_psVars => PsInv'
  <1> SUFFICES ASSUME PsInv, [PsNext]_psVars PROVE PsInv'
    OBVIOUS
  <1>0. Facts BY CollectorFacts DEF PsInv
  <1>1. CASE BatchBegins BY <1>1, Begins
  <1>2. CASE TakePermit BY <1>2, Takes
  <1>3. ASSUME NEW a \in Attempts, Answered(a) \/ Failed(a) PROVE PsInv'
    <2>1. Leaves(a) BY <1>3 DEF Answered, Failed, Leaves
    <2> QED BY <2>1, Leave
  <1>4. ASSUME NEW a \in Attempts, RateLimited(a) PROVE PsInv'
    <2>1. CASE collector.streak /\ streak + 1 >= StreakLimit
      BY <1>4, <2>1, Abort
    <2>2. CASE collector.streak /\ ~(streak + 1 >= StreakLimit)
      <3>1. Rests(a)
        BY <1>4, <2>2, <1>0 DEF Facts, RateLimited, Rests
      <3> QED BY <3>1, Rest
    <2>3. CASE ~collector.streak /\ a = collector.attempts
      <3>1. Leaves(a) BY <1>4, <2>3 DEF RateLimited, Leaves
      <3> QED BY <3>1, Leave
    <2>4. CASE ~collector.streak /\ a # collector.attempts
      <3>1. Rests(a) BY <1>4, <2>4, <1>0 DEF Facts, RateLimited, Rests
      <3> QED BY <3>1, Rest
    <2> QED BY <2>1, <2>2, <2>3, <2>4
  <1>5. ASSUME NEW a \in Attempts, WakeUp(a) PROVE PsInv'
    BY <1>5, Wakes
  <1>6. CASE UNCHANGED psVars
    BY <1>6 DEF psVars, PsInv, PsTypes, PermitsKept, Streaking, Spending,
                Holders, Total, AttemptsLeft, At, Most
  <1> QED BY <1>1, <1>2, <1>3, <1>4, <1>5, <1>6 DEF PsNext

THEOREM StreakInvariant == PsSpec => []PsInv
  BY PsInitially, PsStep, PTL DEF PsSpec

\* For any number of items, any semaphore and any limit: a collection that meets
\* 429 answers gives up, and sends no more than what the items with a permit had
\* left when it did.
THEOREM GivesUpHolds == PsSpec => []GivesUp
  <1>1. ASSUME PsInv PROVE GivesUp
    <2> USE CollectorFacts, <1>1 DEF PsInv, Facts
    <2>1. streak \in Nat /\ late \in Nat /\ Holders \in Nat
      BY DEF PsTypes, Holders, Total
    <2>2. streak <= StreakLimit + collector.sem - 1
      BY <2>1 DEF Streaking
    <2>3. AttemptsLeft \in Nat BY DEF AttemptsLeft, At
    <2>4. Most \in Nat BY MostIsNat
    <2>5. aborted => late + AttemptsLeft <= Most BY DEF Spending
    <2>6. ~aborted => late = 0 BY DEF Spending
    <2>7. late <= Most BY <2>1, <2>3, <2>4, <2>5, <2>6
    <2> QED BY <2>2, <2>7 DEF GivesUp, Most
  <1>2. PsInv => GivesUp BY <1>1
  <1> QED BY <1>2, StreakInvariant, PTL
=============================================================================
