---- MODULE TaskQueueProofs ----
(* Theorems about the posting protocol of fc::thread, for any number of
   posters and tasks. *)
EXTENDS TaskQueue, FiniteSetTheorems, TLAPS

\* What the program counters say about the locals they guard.
Control ==
  /\ \A p \in Actors : ppc[p] = "cas" => ptask[p] \in AllTasks
  /\ ppc[Worker] = "cas" => \/ wpc = "running" /\ wtask # QuitTask
                            \/ wpc = "recheck"
  /\ wpc = "running" <=> wtask # NoTask
  /\ wpc \in {"locked", "recheck", "prewait"} => locked

IInv == TypeOK /\ Control /\ OneHome /\ NoLostWakeup /\ WaitCoversSchedule

\* The elements of a stack after a push.
LEMMA PushElements ==
  ASSUME NEW S, NEW s \in Seq(S), NEW x \in S
  PROVE  /\ <<x>> \o s \in Seq(S)
         /\ DOMAIN (<<x>> \o s) = 1..(Len(s) + 1) /\ (<<x>> \o s)[1] = x
         /\ \A i \in 2..(Len(s) + 1) : i - 1 \in DOMAIN s /\ (<<x>> \o s)[i] = s[i - 1]
         /\ \A i \in DOMAIN s : i + 1 \in 1..(Len(s) + 1) /\ (<<x>> \o s)[i + 1] = s[i]
OBVIOUS

\* Pushing x adds x, and nothing else, to what a stack holds.
LEMMA PushRange ==
  ASSUME NEW S, NEW s \in Seq(S), NEW x \in S
  PROVE  \A r : r = <<x>> \o s => \A y : y \in Range(r) <=> y \in Range(s) \/ y = x
<1> TAKE r
<1> HAVE r = <<x>> \o s
<1> DEFINE n == Len(s) + 1
<1>1. /\ DOMAIN r = 1..n /\ r[1] = x
      /\ \A i \in 2..n : i - 1 \in DOMAIN s /\ r[i] = s[i - 1]
      /\ \A i \in DOMAIN s : i + 1 \in 1..n /\ r[i + 1] = s[i]
      /\ n \in Nat \ {0}
  BY PushElements
<1> HIDE DEF n
<1>2. \A y \in Range(r) : y \in Range(s) \/ y = x BY <1>1 DEF Range
<1>3. \A y \in Range(s) : y \in Range(r) BY <1>1 DEF Range
<1>4. x \in Range(r) BY <1>1 DEF Range
<1> QED  BY <1>2, <1>3, <1>4

\* A stack without duplicates that did not hold x has none after x is pushed.
LEMMA PushInjective ==
  ASSUME NEW S, NEW s \in Seq(S), NEW x \in S, x \notin Range(s), IsInjective(s)
  PROVE  \A r : r = <<x>> \o s => IsInjective(r)
<1> TAKE r
<1> HAVE r = <<x>> \o s
<1> DEFINE n == Len(s) + 1
<1>1. /\ DOMAIN r = 1..n /\ r[1] = x
      /\ \A i \in 2..n : i - 1 \in DOMAIN s /\ r[i] = s[i - 1]
      /\ n \in Nat \ {0}
  BY PushElements
<1> HIDE DEF n
<1>2. \A i \in 2..n : r[i] # x BY <1>1 DEF Range
<1>3. ASSUME NEW i \in 2..n, NEW j \in 2..n, r[i] = r[j] PROVE i = j BY <1>1, <1>3 DEF IsInjective
<1> QED  BY <1>1, <1>2, <1>3 DEF IsInjective

\* The positions of the stack that hold a due task are finitely many, and those
\* before i are no more than those before n.
LEMMA DueAtFacts ==
  ASSUME NEW n \in Nat, NEW i \in 1..n
  PROVE  /\ Cardinality(DueAt(1, n)) \in Nat
         /\ Cardinality(DueAt(1, i)) \in Nat
         /\ Cardinality(DueAt(1, i)) <= Cardinality(DueAt(1, n))
<1>1. IsFiniteSet(1..n) BY FS_Interval
<1>3. IsFiniteSet(DueAt(1, n)) BY <1>1, FS_Subset DEF DueAt
<1> QED BY <1>3, FS_Subset, FS_CardinalityType DEF DueAt

\* The numbers Move hands out are natural numbers: nothing goes below zero.
LEMMA MoveNumbers ==
  ASSUME TypeOK, Move
  PROVE  postedNum' \in [AllTasks -> Nat] /\ nextNum' \in Nat
<1> DEFINE n     == Len(inQueue)
           ready == {t \in Inbox : Due(t)}
           base  == nextNum + Cardinality(DueAt(1, n))
           sched == {t \in schQueue : Due(t)}
           at(t) == CHOOSE i \in 1..n : inQueue[i] = t
<1>1. n \in Nat /\ DOMAIN inQueue = 1..n BY DEF TypeOK
<1>2. PICK order \in SchedOrders(sched) :
        /\ postedNum' = [t \in AllTasks |->
              IF t \in ready THEN base - Cardinality(DueAt(1, at(t)))
              ELSE IF t \in sched THEN base + order[t] - 1 ELSE postedNum[t]]
        /\ nextNum' = base + Cardinality(sched)
  BY DEF Move
<1>3. IsFiniteSet(sched) /\ Cardinality(sched) \in Nat
  BY FiniteAssumption, FS_Subset, FS_CardinalityType DEF TypeOK
<1>4. Cardinality(DueAt(1, n)) \in Nat
  <2>1. CASE n = 0 BY <2>1, FS_EmptySet DEF DueAt
  <2>2. CASE n # 0 BY <2>2, <1>1, DueAtFacts
  <2> QED  BY <2>1, <2>2
<1>5. base \in Nat /\ base >= Cardinality(DueAt(1, n)) BY <1>4 DEF TypeOK
<1>6. ASSUME NEW t \in ready
      PROVE  base - Cardinality(DueAt(1, at(t))) \in Nat
  <2>1. at(t) \in 1..n BY <1>1 DEF Inbox, Range
  <2>2. /\ Cardinality(DueAt(1, at(t))) \in Nat
        /\ Cardinality(DueAt(1, at(t))) <= Cardinality(DueAt(1, n))
    <3> HIDE DEF at, n
    <3> QED  BY <2>1, <1>1, DueAtFacts
  <2> HIDE DEF at, n, base
  <2> QED  BY <2>2, <1>4, <1>5
<1>7. ASSUME NEW t \in sched
      PROVE  base + order[t] - 1 \in Nat
  <2>1. order[t] \in 1..Cardinality(sched) BY <1>2 DEF SchedOrders
  <2> HIDE DEF base, sched
  <2> QED  BY <2>1, <1>3, <1>5
<1>8. postedNum \in [AllTasks -> Nat] BY DEF TypeOK
<1> HIDE DEF base, sched, ready, n, at
<1> QED  BY <1>2, <1>3, <1>5, <1>6, <1>7, <1>8

\* The initial values lie in their domains.
LEMMA TypeInit == Init => TypeOK /\ Control
<1>1. ASSUME Init PROVE TypeOK
  <2>1. inQueue = <<>> /\ <<>> \in Seq(AllTasks) BY <1>1 DEF Init
  <2>2. 0 \in 0..MaxTime /\ Never \in 0..Never BY TimeAssumption DEF Never
  <2> QED  BY <1>1, <2>1, <2>2 DEF Init, TypeOK, Stages
<1>2. ASSUME Init PROVE Control BY <1>2 DEF Init, Control, Actors
<1> QED  BY <1>1, <1>2

\* Every step of a poster, of the worker or of the clock keeps the domains and
\* the facts about the program counters.
LEMMA TypeStep == TypeOK /\ Control /\ [Next]_vars => TypeOK' /\ Control'
<1> SUFFICES ASSUME TypeOK, Control, [Next]_vars PROVE TypeOK' /\ Control' OBVIOUS
<1> USE WorkerAssumption, TaskAssumption, TimeAssumption
<1>1. ASSUME NEW p \in Actors, Async(p) PROVE TypeOK' /\ Control'
  <2>1. \E t \in AllTasks, w \in 0..MaxTime : Prepare(p, t, w) BY <1>1 DEF Async, AllTasks
  <2>2. TypeOK' BY <1>1, <2>1 DEF TypeOK, Async, Prepare, queueVars, workerVars, Top, Never, Stages
  <2>3. Control' BY <1>1, <2>1 DEF TypeOK, Control, Async, Prepare, workerVars, Actors
  <2> QED  BY <2>2, <2>3
<1>2. ASSUME NEW p \in Actors, Push(p) PROVE TypeOK' /\ Control'
  <2>1. inQueue' \in Seq(AllTasks) BY <1>2, PushElements DEF Push, Control, TypeOK
  <2>2. TypeOK' BY <1>2, <2>1 DEF TypeOK, Push, Return, taskVars, workerVars, Never, Stages
  <2>3. Control' BY <1>2 DEF TypeOK, Control, Push, Return, workerVars, Actors
  <2> QED  BY <2>2, <2>3
<1>3. ASSUME NEW p \in Actors, Retry(p) PROVE TypeOK' /\ Control'
  BY <1>3 DEF TypeOK, Control, Retry, queueVars, taskVars, workerVars, Top, Never, Stages, Actors
<1>4. ASSUME NEW p \in Actors, Notify(p) PROVE TypeOK' /\ Control'
  BY <1>4 DEF TypeOK, Control, Notify, Return, Wakened, queueVars, taskVars, Never, Stages, Actors
<1>5. ASSUME NEW p \in Actors, Join(p) PROVE TypeOK' /\ Control'
  BY <1>5 DEF TypeOK, Control, Join, queueVars, taskVars, workerVars, Never, Stages, Actors
<1>6. ASSUME Poke PROVE TypeOK' /\ Control'
  BY <1>6 DEF TypeOK, Control, Poke, Wakened, queueVars, taskVars, posterVars, Never, Stages, Actors
<1>7. ASSUME NEW t \in Tasks, Cancel(t) PROVE TypeOK' /\ Control'
  BY <1>7 DEF TypeOK, Control, Cancel, queueVars, workerVars, posterVars, Never, Stages, Actors, AllTasks
<1>8. ASSUME Move PROVE TypeOK' /\ Control'
  <2>1. pqueue' \in SUBSET AllTasks /\ schQueue' \in SUBSET AllTasks /\ inQueue' = <<>>
    BY <1>8 DEF Move, TypeOK, Inbox, Range
  <2>4. <<>> \in Seq(AllTasks) OBVIOUS
  <2>5. TypeOK' BY <2>1, <1>8, MoveNumbers, <2>4 DEF TypeOK, Never, Stages, Move, posterVars
  <2> QED BY <1>8, <2>5 DEF Control, Actors, TypeOK, Move, posterVars
<1>9. ASSUME Dispatch PROVE TypeOK' /\ Control'
  BY <1>9 DEF TypeOK, Control, Dispatch, First, posterVars, Never, Stages, Actors
<1>10. ASSUME Finish PROVE TypeOK' /\ Control'
  BY <1>10 DEF TypeOK, Control, Finish, queueVars, posterVars, Never, Stages, Actors
<1>11. ASSUME RunQuit PROVE TypeOK' /\ Control'
  BY <1>11 DEF TypeOK, Control, RunQuit, posterVars, Never, Stages, Actors
<1>12. ASSUME DropCanceled PROVE TypeOK' /\ Control'
  BY <1>12 DEF TypeOK, Control, DropCanceled, posterVars, Never, Stages, Actors
<1>13. ASSUME Lock PROVE TypeOK' /\ Control'
  BY <1>13 DEF TypeOK, Control, Lock, queueVars, taskVars, posterVars, Never, Stages, Actors
<1>14. ASSUME SkipWait PROVE TypeOK' /\ Control'
  BY <1>14 DEF TypeOK, Control, SkipWait, queueVars, taskVars, posterVars, Never, Stages, Actors
<1>15. ASSUME IdleGuard PROVE TypeOK' /\ Control'
  <2>1. deadline' \in 0..Never BY <1>15 DEF IdleGuard, TypeOK, Never
  <2>2. CASE UNCHANGED <<result, when, posterVars>>
    BY <1>15, <2>1, <2>2 DEF TypeOK, Control, IdleGuard, queueVars, posterVars, Stages, Actors
  <2>3. CASE \E t \in IdleTasks : Prepare(Worker, t, 0)
    BY <2>3, <1>15, <2>1 DEF AllTasks, TypeOK, IdleGuard, Prepare, Top, queueVars, Stages,
       Actors, Control
  <2> QED  BY <1>15, <2>2, <2>3 DEF IdleGuard
<1>16. ASSUME Recheck PROVE TypeOK' /\ Control'
  <2>1. deadline' \in 0..Never /\ wpc' \in Stages /\ locked' \in BOOLEAN
    <3>1. CASE inQueue # <<>>
      <4>2. Never \in 0..Never BY DEF Never
      <4> QED BY <1>16, <3>1, <4>2 DEF Stages, Recheck
    <3>2. CASE inQueue = <<>> BY <1>16, <3>2 DEF Recheck, TypeOK, Never, Stages
    <3> QED  BY <3>1, <3>2
  <2>3. TypeOK' BY <2>1, <1>16 DEF TypeOK, queueVars, taskVars, posterVars, Recheck
  <2>4. Control' BY <1>16 DEF Control, Recheck, posterVars, Actors
  <2> QED  BY <2>3, <2>4
<1>17. ASSUME Wait PROVE TypeOK' /\ Control'
  BY <1>17 DEF TypeOK, Control, Wait, queueVars, taskVars, posterVars, Never, Stages, Actors
<1>18. ASSUME WakeTimeout PROVE TypeOK' /\ Control'
  BY <1>18 DEF TypeOK, Control, WakeTimeout, queueVars, taskVars, posterVars, Never, Stages, Actors
<1>19. ASSUME Resume PROVE TypeOK' /\ Control'
  BY <1>19 DEF TypeOK, Control, Resume, queueVars, taskVars, posterVars, Never, Stages, Actors
<1>20. ASSUME Tick PROVE TypeOK' /\ Control'
  BY <1>20 DEF TypeOK, Control, Tick, queueVars, taskVars, workerVars, posterVars, Never, Stages, Actors
<1>21. ASSUME UNCHANGED vars PROVE TypeOK' /\ Control'
  BY <1>21 DEF vars, TypeOK, Control, queueVars, taskVars, workerVars, posterVars, Never, Stages, Actors
<1> QED BY <1>1, <1>2, <1>3, <1>4, <1>5, <1>6, <1>7, <1>8, <1>9, <1>10, <1>11, <1>12, <1>13, <1>14,
     <1>15, <1>16, <1>17, <1>18, <1>19, <1>20, <1>21
  DEF Next, WorkerStep, PostStep

\* A type-correct task pointer set stays in AllTasks.
LEMMA HomeInit == Init => OneHome
<1> SUFFICES ASSUME Init PROVE OneHome OBVIOUS
<1> QED BY DEF Init, OneHome, IsInjective, InHand, Inbox, Running, Range

\* A step that neither pushes nor takes from a queue keeps every task at home.
LEMMA HomeKept ==
  ASSUME OneHome, UNCHANGED <<inQueue, pqueue, schQueue, result, wtask>>,
         \A p \in Actors : ppc'[p] = "cas" <=> ppc[p] = "cas",
         \A p \in Actors : ppc[p] = "cas" => ptask'[p] = ptask[p]
  PROVE  OneHome'
<1>1. InHand' = InHand BY DEF InHand
<1>2. Inbox' = Inbox /\ Running' = Running BY DEF Inbox, Running
<1>3. ASSUME NEW p \in Actors, NEW q \in Actors, ppc'[p] = "cas", ppc'[q] = "cas",
             ptask'[p] = ptask'[q]
      PROVE  p = q
  BY <1>3 DEF OneHome
<1> QED  BY <1>1, <1>2, <1>3 DEF OneHome

\* A task that async() creates is in its poster's hand only.
LEMMA HomePrepare ==
  ASSUME TypeOK, Control, OneHome, NEW p \in Actors, NEW t \in AllTasks, NEW w,
         Prepare(p, t, w), UNCHANGED <<inQueue, pqueue, schQueue, wtask>>
  PROVE  OneHome'
<1>1. InHand' = InHand \cup {t} BY DEF InHand, Prepare, TypeOK
<1>2. Inbox' = Inbox /\ Running' = Running BY DEF Inbox, Running
<1>3. t \notin InHand \cup Inbox \cup pqueue \cup schQueue \cup Running BY DEF OneHome, Prepare
<1>5. ASSUME NEW a \in Actors, NEW b \in Actors, ppc'[a] = "cas", ppc'[b] = "cas",
             ptask'[a] = ptask'[b]
      PROVE  a = b
  BY <1>3, <1>5 DEF OneHome, Prepare, TypeOK, InHand
<1> QED BY <1>1, <1>2, <1>3, <1>5 DEF OneHome, Prepare, TypeOK

\* A push moves the task from the hand to the stack.
LEMMA HomePush ==
  ASSUME TypeOK, Control, OneHome, NEW p \in Actors, Push(p)
  PROVE  OneHome'
<1> DEFINE x == ptask[p]
<1>1. x \in AllTasks /\ x \in InHand BY DEF Push, Control, InHand
<1>2. /\ ppc' \in [Actors -> {"idle", "cas", "notify", "join"}] /\ ppc'[p] # "cas"
      /\ \A q \in Actors \ {p} : ppc'[q] = ppc[q] /\ ptask'[q] = ptask[q]
  BY DEF Push, Return, TypeOK
<1>3. \A q \in Actors \ {p} : ppc[q] = "cas" => ptask[q] # x BY DEF OneHome, Push
<1>4. InHand' = InHand \ {x} BY <1>2, <1>3 DEF InHand
<1>5. /\ Inbox' = Inbox \cup {x} /\ IsInjective(inQueue')
  <2>1. inQueue' = <<x>> \o inQueue /\ inQueue \in Seq(AllTasks) BY DEF Push, TypeOK
  <2> HIDE DEF x
  <2>3. Range(inQueue') = Range(inQueue) \cup {x} BY <1>1, <2>1, PushRange
  <2>4. IsInjective(inQueue') BY <1>1, <2>1, PushInjective DEF OneHome, Inbox
  <2> QED  BY <2>3, <2>4 DEF Inbox
<1> HIDE DEF x
<1> QED BY <1>1, <1>4, <1>5, <1>2 DEF OneHome, Push, taskVars, workerVars, Running

\* A drain moves every task of the stack to one of the heaps.
LEMMA HomeMove ==
  ASSUME TypeOK, OneHome, Move
  PROVE  OneHome'
<1>2. pqueue' \cup schQueue' = Inbox \cup pqueue \cup schQueue /\ pqueue' \cap schQueue' = {}
  <2> DEFINE moved == {t \in Inbox : Due(t)} \cup {t \in schQueue : Due(t)}
  <2> QED BY DEF Move, OneHome
<1>3. UNCHANGED <<result, ppc, ptask>> BY DEF Move, posterVars
<1> QED BY <1>2, <1>3 DEF OneHome, IsInjective, Move, Inbox, InHand, Running, Range, posterVars

\* Settling the tasks of a set D that leave the heaps or the worker's hands.
LEMMA HomeSettle ==
  ASSUME TypeOK, OneHome, NEW D,
         UNCHANGED <<inQueue, ppc, ptask>>,
         pqueue' \cup schQueue' \cup Running' = (pqueue \cup schQueue \cup Running) \ D,
         D \subseteq pqueue \cup schQueue \cup Running,
         pqueue' \cap (schQueue' \cup Running') = {},
         schQueue' \cap Running' = {},
         \A t \in AllTasks : IF t \in D THEN result'[t] # "pending"
                             ELSE result'[t] = result[t]
  PROVE  OneHome'
<1>1. Inbox' = Inbox /\ InHand' = InHand BY DEF Inbox, InHand
<1>4. IsInjective(inQueue') BY DEF OneHome, IsInjective
<1> QED BY <1>1, <1>4 DEF OneHome

\* The task taken from the heap runs, or is settled if it was cancelled.
LEMMA HomeDispatch ==
  ASSUME TypeOK, Control, OneHome, Dispatch
  PROVE  OneHome'
<1>1. PICK t \in pqueue :
        /\ pqueue' = pqueue \ {t}
        /\ IF t \in canceled
           THEN result' = [result EXCEPT ![t] = "exception"] /\ wtask' = NoTask
           ELSE wtask' = t /\ result' = result
  BY DEF Dispatch
<1>2. /\ UNCHANGED <<inQueue, schQueue, ppc, ptask>>
      /\ Running = {} /\ wtask = NoTask /\ t \in AllTasks /\ t # NoTask
  BY TaskAssumption DEF Dispatch, posterVars, Control, Running, TypeOK
<1>3. t \notin schQueue BY DEF OneHome
<1>4. CASE t \in canceled
  <2>1. Running' = {}  BY <1>1, <1>4 DEF Running
  <2>2. \A u \in AllTasks : IF u \in {t} THEN result'[u] # "pending" ELSE result'[u] = result[u]
    BY <1>1, <1>4 DEF TypeOK
  <2>3. /\ pqueue' \cup schQueue' \cup Running' = (pqueue \cup schQueue \cup Running) \ {t}
        /\ {t} \subseteq pqueue \cup schQueue \cup Running
        /\ pqueue' \cap (schQueue' \cup Running') = {} /\ schQueue' \cap Running' = {}
    BY <1>1, <1>2, <1>3, <2>1 DEF OneHome
  <2> QED  BY <1>2, <2>2, <2>3, HomeSettle
<1>5. CASE t \notin canceled
  <2>1. Running' = {t}  BY <1>1, <1>2, <1>5 DEF Running
  <2> QED BY <1>2, <1>1, <1>5, <1>3, <2>1, HomeSettle DEF OneHome
<1> QED  BY <1>4, <1>5

\* The end of a task settles it.
LEMMA HomeFinish ==
  ASSUME TypeOK, Control, OneHome, Finish
  PROVE  OneHome'
<1>1. /\ wtask \in AllTasks /\ Running = {wtask} /\ Running' = {}
      /\ UNCHANGED <<inQueue, pqueue, schQueue, ppc, ptask>>
  BY DEF Finish, Control, TypeOK, Running, queueVars, posterVars
<1>2. \A u \in AllTasks : IF u \in {wtask} THEN result'[u] # "pending" ELSE result'[u] = result[u]
  BY <1>1 DEF Finish, TypeOK
<1>3. /\ pqueue' \cup schQueue' \cup Running' = (pqueue \cup schQueue \cup Running) \ {wtask}
      /\ {wtask} \subseteq pqueue \cup schQueue \cup Running
      /\ pqueue' \cap (schQueue' \cup Running') = {} /\ schQueue' \cap Running' = {}
  BY <1>1 DEF OneHome
<1> QED  BY <1>1, <1>2, <1>3, HomeSettle

\* quit() settles the tasks of both heaps and itself.
LEMMA HomeRunQuit ==
  ASSUME TypeOK, Control, OneHome, RunQuit
  PROVE  OneHome'
<1> DEFINE D == pqueue \cup schQueue \cup Running
<1>3. /\ pqueue' \cup schQueue' \cup Running' = (pqueue \cup schQueue \cup Running) \ D
      /\ pqueue' \cap (schQueue' \cup Running') = {} /\ schQueue' \cap Running' = {}
  BY TaskAssumption DEF RunQuit, Running, posterVars, AllTasks
<1> QED BY TaskAssumption, <1>3, HomeSettle DEF RunQuit, Running, posterVars, AllTasks

\* process_canceled_tasks() settles what it removes.
LEMMA HomeDropCanceled ==
  ASSUME TypeOK, OneHome, DropCanceled
  PROVE  OneHome'
<1> DEFINE D == schQueue \cap canceled
<1>3. /\ pqueue' \cup schQueue' \cup Running' = (pqueue \cup schQueue \cup Running) \ D
      /\ pqueue' \cap (schQueue' \cup Running') = {} /\ schQueue' \cap Running' = {}
  BY DEF OneHome, DropCanceled, Running, posterVars
<1> QED BY <1>3, HomeSettle DEF DropCanceled, Running, posterVars

\* Every step keeps every unsettled task in one place.
LEMMA HomeStep == TypeOK /\ Control /\ OneHome /\ [Next]_vars => OneHome'
<1> SUFFICES ASSUME TypeOK, Control, OneHome, [Next]_vars PROVE OneHome' OBVIOUS
<1>1. ASSUME NEW p \in Actors, Async(p) PROVE OneHome'
  BY <1>1, TimeAssumption, HomePrepare DEF Async, AllTasks, queueVars, workerVars
<1>2. ASSUME NEW p \in Actors, Push(p) PROVE OneHome' BY <1>2, HomePush
<1>3. ASSUME NEW p \in Actors, Retry(p) PROVE OneHome'
  BY <1>3, HomeKept DEF Retry, queueVars, taskVars, workerVars
<1>4. ASSUME NEW p \in Actors, Notify(p) PROVE OneHome'
  BY <1>4, HomeKept DEF Notify, Return, TypeOK, queueVars, taskVars
<1>5. ASSUME NEW p \in Actors, Join(p) PROVE OneHome'
  BY <1>5, HomeKept DEF Join, TypeOK, queueVars, taskVars, workerVars
<1>6. CASE Poke BY <1>6, HomeKept DEF Poke, queueVars, taskVars, posterVars
<1>7. ASSUME NEW t \in Tasks, Cancel(t) PROVE OneHome'
  BY <1>7, HomeKept DEF Cancel, queueVars, workerVars, posterVars
<1>8. CASE Move          BY <1>8, HomeMove
<1>9. CASE Dispatch      BY <1>9, HomeDispatch
<1>10. CASE Finish       BY <1>10, HomeFinish
<1>11. CASE RunQuit      BY <1>11, HomeRunQuit
<1>12. CASE DropCanceled BY <1>12, HomeDropCanceled
<1>13. CASE Lock         BY <1>13, HomeKept DEF Lock, queueVars, taskVars, posterVars
<1>14. CASE SkipWait     BY <1>14, HomeKept DEF SkipWait, queueVars, taskVars, posterVars
<1>15. CASE IdleGuard
  BY <1>15, HomeKept, HomePrepare DEF IdleGuard, queueVars, posterVars, Actors, AllTasks
<1>16. CASE Recheck      BY <1>16, HomeKept DEF Recheck, queueVars, taskVars, posterVars
<1>17. CASE Wait         BY <1>17, HomeKept DEF Wait, queueVars, taskVars, posterVars
<1>18. CASE WakeTimeout  BY <1>18, HomeKept DEF WakeTimeout, queueVars, taskVars, posterVars
<1>19. CASE Resume       BY <1>19, HomeKept DEF Resume, queueVars, taskVars, posterVars
<1>20. CASE Tick         BY <1>20, HomeKept DEF Tick, queueVars, taskVars, workerVars, posterVars
<1>21. CASE UNCHANGED vars BY <1>21, HomeKept DEF vars, queueVars, taskVars, workerVars, posterVars
<1> QED BY <1>1, <1>2, <1>3, <1>4, <1>5, <1>6, <1>7, <1>8, <1>9, <1>10, <1>11, <1>12, <1>13, <1>14,
     <1>15, <1>16, <1>17, <1>18, <1>19, <1>20, <1>21
  DEF Next, WorkerStep, PostStep

----
(* The wait. *)

\* No step takes away the signal a waiting worker needs.
LEMMA WakeupStep ==
  TypeOK /\ Control /\ NoLostWakeup /\ [Next]_vars => NoLostWakeup'
<1> SUFFICES ASSUME TypeOK, Control, NoLostWakeup, [Next]_vars,
                    wpc' \in {"prewait", "waiting"}, inQueue' # <<>>
             PROVE  \E p \in Posters : ppc'[p] = "notify"
  BY DEF NoLostWakeup
<1> USE WorkerAssumption DEF Actors
<1>1. ASSUME NEW p \in Actors, Async(p) PROVE \E q \in Posters : ppc'[q] = "notify"
  BY <1>1 DEF Async, Prepare, TypeOK, NoLostWakeup, queueVars, workerVars
<1>2. ASSUME NEW p \in Actors, Push(p) PROVE \E q \in Posters : ppc'[q] = "notify"
  BY <1>2 DEF Push, Control, workerVars, TypeOK, Top, NoLostWakeup, Return
<1>3. ASSUME NEW p \in Actors, Retry(p) PROVE \E q \in Posters : ppc'[q] = "notify"
  BY <1>3 DEF Retry, NoLostWakeup, queueVars, workerVars
<1>4. ASSUME NEW p \in Actors, Notify(p) PROVE \E q \in Posters : ppc'[q] = "notify"
  BY <1>4 DEF Notify, Wakened, Control
<1>5. ASSUME NEW p \in Actors, Join(p) PROVE \E q \in Posters : ppc'[q] = "notify"
  BY <1>5 DEF Join, workerVars
<1>6. CASE Poke BY <1>6 DEF Poke, Wakened
<1>7. ASSUME NEW t \in Tasks, Cancel(t) PROVE \E q \in Posters : ppc'[q] = "notify"
  BY <1>7 DEF Cancel, NoLostWakeup, queueVars, workerVars, posterVars
<1>8. CASE Recheck BY <1>8 DEF Recheck, queueVars
<1>9. CASE Wait BY <1>9 DEF Wait, NoLostWakeup, queueVars, posterVars
<1>10. CASE Tick \/ UNCHANGED vars
  BY <1>10 DEF Tick, vars, NoLostWakeup, queueVars, workerVars, posterVars
<1>11. CASE \/ Move \/ Dispatch \/ Finish \/ RunQuit \/ DropCanceled \/ Lock
            \/ SkipWait \/ IdleGuard \/ WakeTimeout \/ Resume
  BY <1>11 DEF Move, Dispatch, Finish, RunQuit, DropCanceled, Lock, SkipWait, IdleGuard,
               WakeTimeout, Resume
<1> QED BY <1>1, <1>2, <1>3, <1>4, <1>5, <1>6, <1>7, <1>8, <1>9, <1>10, <1>11
  DEF Next, WorkerStep, PostStep

\* No step leaves a scheduled task due before the worker's wait ends.
LEMMA DeadlineStep ==
  TypeOK /\ OneHome /\ WaitCoversSchedule /\ [Next]_vars => WaitCoversSchedule'
<1> SUFFICES ASSUME TypeOK, OneHome, WaitCoversSchedule, [Next]_vars,
                    wpc' \in {"recheck", "prewait", "waiting"}, NEW t \in schQueue'
             PROVE  deadline' <= when'[t]
  BY DEF WaitCoversSchedule
\* A task being created is in no queue, so no queued task changes its time.
<1>1. ASSUME NEW p, NEW u, NEW w, Prepare(p, u, w), schQueue' = schQueue PROVE when'[t] = when[t]
  <2>1. t # u  BY <1>1 DEF Prepare, OneHome, TypeOK
  <2> QED  BY <1>1, <2>1 DEF Prepare, TypeOK
<1>2. ASSUME NEW p \in Actors, Async(p) PROVE deadline' <= when'[t]
  BY <1>2, <1>1 DEF Async, queueVars, workerVars, WaitCoversSchedule
<1>3. ASSUME NEW p \in Actors, PostStep(p) PROVE deadline' <= when'[t]
  BY <1>3 DEF PostStep, Push, Retry, Notify, Join, Wakened, workerVars, queueVars, taskVars,
     WaitCoversSchedule
<1>4. CASE IdleGuard BY <1>4, <1>1 DEF IdleGuard, queueVars
<1>5. CASE Recheck \/ Wait \/ Tick \/ UNCHANGED vars \/ \E u \in Tasks : Cancel(u)
  BY <1>5 DEF Recheck, Wait, Tick, Cancel, vars, WaitCoversSchedule, queueVars, taskVars, workerVars
<1>6. CASE \/ Move \/ Dispatch \/ Finish \/ RunQuit \/ DropCanceled \/ Lock
           \/ SkipWait \/ WakeTimeout \/ Resume \/ Poke
  BY <1>6 DEF Move, Dispatch, Finish, RunQuit, DropCanceled, Lock, SkipWait, WakeTimeout, Resume,
              Poke, Wakened
<1> QED  BY <1>2, <1>3, <1>4, <1>5, <1>6 DEF Next, WorkerStep

----
(* Settling. *)

\* Only a task at home is settled, and a task at home is pending.
LEMMA SettledStep ==
  ASSUME TypeOK, Control, OneHome, [Next]_vars, NEW t \in AllTasks,
         result[t] \in {"value", "exception"}
  PROVE  result'[t] = result[t]
<1>1. t \notin InHand \cup Inbox \cup pqueue \cup schQueue \cup Running BY DEF OneHome
<1>2. ASSUME NEW p \in Actors, Async(p) PROVE result'[t] = result[t]
  BY <1>2 DEF Async, Prepare, TypeOK
<1>3. ASSUME NEW p \in Actors, PostStep(p) PROVE result'[t] = result[t]
  BY <1>3 DEF PostStep, Push, Retry, Notify, Join, taskVars
<1>4. CASE Dispatch BY <1>1, <1>4 DEF Dispatch, TypeOK
<1>5. CASE Finish BY <1>1, <1>5 DEF Finish, Running, Control, TypeOK
<1>6. CASE RunQuit BY <1>1, <1>6, TaskAssumption DEF RunQuit, Running, AllTasks
<1>7. CASE DropCanceled BY <1>1, <1>7 DEF DropCanceled
<1>8. CASE IdleGuard BY <1>8 DEF IdleGuard, Prepare, TypeOK
<1>9. CASE Move \/ Lock \/ SkipWait \/ Recheck \/ Wait \/ WakeTimeout \/ Resume
  BY <1>9 DEF Move, Lock, SkipWait, Recheck, Wait, WakeTimeout, Resume, taskVars
<1>10. ASSUME NEW u \in Tasks, Cancel(u) PROVE result'[t] = result[t] BY <1>10 DEF Cancel
<1>11. CASE Poke \/ Tick \/ UNCHANGED vars BY <1>11 DEF Poke, Tick, vars, taskVars
<1> QED BY <1>2, <1>3, <1>4, <1>5, <1>6, <1>7, <1>8, <1>9, <1>10, <1>11 DEF Next, WorkerStep

----
(* The theorems. *)

\* The invariant holds at the start.
LEMMA InvInit == Init => IInv
<1> QED BY TypeInit, HomeInit DEF IInv, Init, NoLostWakeup, WaitCoversSchedule

\* The invariant is inductive.
LEMMA InvStep == IInv /\ [Next]_vars => IInv'
BY TypeStep, HomeStep, WakeupStep, DeadlineStep DEF IInv

\* The invariant holds in every reachable state.
LEMMA Invariance == Spec => []IInv
BY InvInit, InvStep, PTL DEF Spec

\* Every variable keeps its domain: in particular the numbers enqueue() hands
\* out by subtraction never fall below zero.
THEOREM TypeCorrect == Spec => []TypeOK
<1>1. IInv => TypeOK  BY DEF IInv
<1> QED  BY <1>1, Invariance, PTL

\* A worker asleep, or about to be, on a stack that is not empty always has a
\* notify_one coming: async_task() loses no wakeup, however many threads post.
THEOREM WakeupNeverLost == Spec => []NoLostWakeup
<1>1. IInv => NoLostWakeup  BY DEF IInv
<1> QED  BY <1>1, Invariance, PTL

\* A timed wait ends no later than the first scheduled task is due.
THEOREM WaitBounded == Spec => []WaitCoversSchedule
<1>1. IInv => WaitCoversSchedule  BY DEF IInv
<1> QED  BY <1>1, Invariance, PTL

\* Every unsettled task is in exactly one place, so the raw pointers that
\* async() hands to the thread are neither lost nor run and released twice.
THEOREM TasksHaveOneHome == Spec => []OneHome
<1>1. IInv => OneHome  BY DEF IInv
<1> QED  BY <1>1, Invariance, PTL

\* The value or the exception of a task is final: the worker, a cancellation and
\* quit() never settle the same task a second time.
THEOREM FuturesSettleOnce == Spec => SettledOnce
<1>1. IInv /\ [Next]_vars =>
         [\A t \in AllTasks : result[t] \in {"value", "exception"} => result'[t] = result[t]]_vars
  BY SettledStep DEF IInv
<1> QED  BY <1>1, Invariance, PTL DEF Spec, SettledOnce
====
