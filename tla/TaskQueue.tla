---- MODULE TaskQueue ----
(* The posting protocol of fc::thread: any OS thread pushes tasks on the lock-free stack
   task_in_queue, the worker thread drains it into its own heaps, runs what is due and sleeps on a
   condition variable when nothing is. Only the poster that found the stack empty wakes it. A task
   runs here in one stretch; its fibers belong to module Fibers. _prio is never set, so task_pqueue
   is ordered by posted number alone. A definition marked "Fault" is a broken variant of the one
   that follows, a mistake that a property would catch; no action uses it. *)
EXTENDS Integers, Sequences, FiniteSets, Functions

CONSTANTS Posters,     \* OS threads other than the worker
          Worker,      \* the thread that owns the queues
          Tasks,       \* tasks given to async() and schedule()
          IdleTasks,   \* tasks a thread_idle_notifier may return
          QuitTask,    \* the task that quit() posts
          NoTask,      \* the null task pointer
          MaxTime,     \* last instant of the bounded clock
          AllowQuit    \* whether quit() is called

AllTasks == Tasks \cup IdleTasks \cup {QuitTask}
Actors == Posters \cup {Worker}

ASSUME WorkerAssumption == Worker \notin Posters
ASSUME TaskAssumption == /\ NoTask \notin AllTasks
                         /\ QuitTask \notin Tasks \cup IdleTasks /\ Tasks \cap IdleTasks = {}
ASSUME TimeAssumption == MaxTime \in Nat
ASSUME QuitAssumption == AllowQuit \in BOOLEAN
ASSUME FiniteAssumption == IsFiniteSet(AllTasks)

VARIABLES
    clock,        \* time_point::now()
    inQueue,      \* task_in_queue with its _next chain, newest task first
    pqueue,       \* task_pqueue: due tasks that have not started
    schQueue,     \* task_sch_queue: tasks whose time has not come
    when,         \* _when of each task; 0 is time_point::min()
    postedNum,    \* _posted_num of each task
    nextNum,      \* next_posted_num
    canceled,     \* tasks whose promise has _canceled set
    result,       \* the promise of each task: none before create()
    done,         \* thread_d::done
    locked,       \* the worker holds task_ready_mutex
    deadline,     \* when the timed wait ends; MaxTime + 1 is never
    wpc, wtask,   \* where the worker is, and the task it runs
    ppc, ptask, stale   \* async_task(): where each actor is, its t and stale_head

taskVars == <<when, postedNum, nextNum, canceled, result>>
queueVars == <<inQueue, pqueue, schQueue>>
workerVars == <<locked, deadline, wpc, wtask>>
posterVars == <<ppc, ptask, stale>>
vars == <<clock, queueVars, taskVars, done, workerVars, posterVars>>

Inbox == Range(inQueue)
Top == IF inQueue = <<>> THEN NoTask ELSE inQueue[1]
Never == MaxTime + 1

\* The tasks an actor has created and not yet linked into task_in_queue.
InHand == {ptask[p] : p \in {q \in Actors : ppc[q] = "cas"}}

Init == /\ clock = 0 /\ inQueue = <<>> /\ pqueue = {} /\ schQueue = {}
        /\ when = [t \in AllTasks |-> 0] /\ postedNum = [t \in AllTasks |-> 0] /\ nextNum = 1
        /\ canceled = {} /\ result = [t \in AllTasks |-> "none"] /\ done = FALSE /\ locked = FALSE
        /\ deadline = Never /\ wpc = "top" /\ wtask = NoTask /\ ppc = [p \in Actors |-> "idle"]
        /\ ptask = [p \in Actors |-> NoTask] /\ stale = [p \in Actors |-> NoTask]

----
(* Posting: async_task() on the calling thread. *)

\* A task is created and the head of the stack is read.
Prepare(p, t, w) ==
  /\ ppc[p] = "idle" /\ result[t] = "none" /\ result' = [result EXCEPT ![t] = "pending"]
  /\ when' = [when EXCEPT ![t] = w] /\ ppc' = [ppc EXCEPT ![p] = "cas"]
  /\ ptask' = [ptask EXCEPT ![p] = t] /\ stale' = [stale EXCEPT ![p] = Top]

\* is_running() is read here and not again.  The worker itself posts only from
\* inside a task.
Async(p) ==
  /\ ~done
  /\ p = Worker => wpc = "running" /\ wtask # QuitTask
  /\ \/ \E t \in Tasks, w \in 0..MaxTime : Prepare(p, t, w)
     \/ AllowQuit /\ p # Worker /\ Prepare(p, QuitTask, 0)
  /\ UNCHANGED <<clock, queueVars, postedNum, nextNum, canceled, done, workerVars>>

\* The end of async_task(): its locals are gone, and quit() goes on to the join.
Return(p) ==
  /\ ppc' = [ppc EXCEPT ![p] = IF ptask[p] = QuitTask THEN "join" ELSE "idle"]
  /\ ptask' = [ptask EXCEPT ![p] = NoTask] /\ stale' = [stale EXCEPT ![p] = NoTask]

\* Fault: a plain store of the new head instead of the compare and exchange.
PushBlind(p) ==
  /\ ppc[p] = "cas"
  /\ inQueue' = <<ptask[p]>> \o (IF stale[p] = NoTask THEN <<>> ELSE inQueue)
  /\ IF p # Worker /\ stale[p] = NoTask
     THEN ppc' = [ppc EXCEPT ![p] = "notify"] /\ UNCHANGED <<ptask, stale>>
     ELSE Return(p)
  /\ UNCHANGED <<clock, pqueue, schQueue, taskVars, done, workerVars>>

\* compare_exchange_weak: the push, or another try with the head just read.
Push(p) ==
  /\ ppc[p] = "cas" /\ stale[p] = Top /\ inQueue' = <<ptask[p]>> \o inQueue
  /\ IF p # Worker /\ stale[p] = NoTask
     THEN ppc' = [ppc EXCEPT ![p] = "notify"] /\ UNCHANGED <<ptask, stale>>
     ELSE Return(p)
  /\ UNCHANGED <<clock, pqueue, schQueue, taskVars, done, workerVars>>

Retry(p) ==
  /\ ppc[p] = "cas" /\ stale[p] # Top /\ stale' = [stale EXCEPT ![p] = Top]
  /\ UNCHANGED <<clock, queueVars, taskVars, done, workerVars, ppc, ptask>>

Wakened == IF wpc = "waiting" THEN "woken" ELSE wpc

\* The poster of the first task locks the mutex and signals.
Notify(p) ==
  /\ ppc[p] = "notify" /\ ~locked /\ wpc' = Wakened /\ Return(p)
  /\ UNCHANGED <<clock, queueVars, taskVars, done, locked, deadline, wtask>>

\* quit() from another thread joins the worker.
Join(p) ==
  /\ ppc[p] = "join" /\ wpc = "exited" /\ ppc' = [ppc EXCEPT ![p] = "idle"]
  /\ UNCHANGED <<clock, queueVars, taskVars, done, workerVars, ptask, stale>>

Poke ==
  /\ ~locked /\ wpc = "waiting" /\ wpc' = Wakened
  /\ UNCHANGED <<clock, queueVars, taskVars, done, locked, deadline, wtask, posterVars>>

\* A holder of the future cancels a task that has not started.
Cancel(t) ==
  /\ t \in Inbox \cup pqueue \cup schQueue
  /\ \A p \in Actors : ppc[p] = "notify" => ptask[p] # t
  /\ canceled' = canceled \cup {t}
  /\ UNCHANGED <<clock, queueVars, when, postedNum, nextNum, result, done,
                 workerVars, posterVars>>

----
(* The worker: process_tasks() with the fiber branches left out. *)

Due(t) == when[t] <= clock

\* Positions of the stack, newest first, whose task is due now.
DueAt(i, n) == {j \in i..n : Due(inQueue[j])}

\* Scheduled tasks that became due, in the order their heap releases them.
SchedOrders(D) ==
  {f \in [D -> 1..Cardinality(D)] :
      /\ \A a, b \in D : f[a] = f[b] => a = b
      /\ \A a, b \in D : f[a] < f[b] => when[a] <= when[b]}

\* move_newly_scheduled_tasks_to_task_pqueue(): the stack is taken in one
\* exchange, the oldest due task gets the smallest number, then the scheduled
\* tasks whose time has come follow.
Move ==
  /\ wpc = "top" /\ ~done
  /\ LET n     == Len(inQueue)
         ready == {t \in Inbox : Due(t)}
         base  == nextNum + Cardinality(DueAt(1, n))
         sched == {t \in schQueue : Due(t)}
     IN \E order \in SchedOrders(sched) :
          /\ postedNum' = [t \in AllTasks |->
                IF t \in ready
                THEN base - Cardinality(DueAt(1, CHOOSE i \in 1..n : inQueue[i] = t))
                ELSE IF t \in sched THEN base + order[t] - 1 ELSE postedNum[t]]
          /\ nextNum' = base + Cardinality(sched) /\ pqueue' = pqueue \cup ready \cup sched
          /\ schQueue' = (schQueue \cup Inbox) \ (ready \cup sched)
  /\ inQueue' = <<>> /\ wpc' = "pick"
  /\ UNCHANGED <<clock, when, canceled, result, done, locked, deadline, wtask, posterVars>>

\* Fault: the heap's comparator the wrong way round.
FirstNewest(t) == t \in pqueue /\ \A u \in pqueue : postedNum[t] >= postedNum[u]

\* The front of the heap.
First(t) == t \in pqueue /\ \A u \in pqueue : postedNum[t] <= postedNum[u]

\* Fault: the task that runs stays in the heap.
DispatchKeeps ==
  /\ wpc = "pick"
  /\ \E t \in pqueue : First(t) /\ wtask' = t
  /\ wpc' = "running"
  /\ UNCHANGED <<clock, queueVars, taskVars, done, locked, deadline, posterVars>>

\* run_next_task(): a cancelled task only throws.
Dispatch ==
  /\ wpc = "pick"
  /\ \E t \in pqueue :
        /\ First(t) /\ pqueue' = pqueue \ {t}
        /\ IF t \in canceled
           THEN /\ result' = [result EXCEPT ![t] = "exception"]
                /\ wpc' = "top" /\ wtask' = NoTask
           ELSE /\ wpc' = "running"
                /\ wtask' = t /\ result' = result
  /\ UNCHANGED <<clock, inQueue, schQueue, when, postedNum, nextNum, canceled, done,
                 locked, deadline, posterVars>>

Finish ==
  /\ wpc = "running" /\ wtask # QuitTask /\ ppc[Worker] = "idle"
  /\ \E r \in {"value", "exception"} : result' = [result EXCEPT ![wtask] = r]
  /\ wpc' = "top" /\ wtask' = NoTask
  /\ UNCHANGED <<clock, queueVars, when, postedNum, nextNum, canceled, done, locked,
                 deadline, posterVars>>

\* quit() on the worker: the tasks of the two heaps get an exception and the
\* loop ends.  What is still in task_in_queue is not looked at.
RunQuit ==
  /\ wpc = "running" /\ wtask = QuitTask /\ done' = TRUE
  /\ result' = [t \in AllTasks |->
        CASE t = QuitTask -> "value"
          [] t \in pqueue \cup schQueue -> "exception"
          [] OTHER -> result[t]]
  /\ pqueue' = {} /\ schQueue' = {} /\ wtask' = NoTask /\ wpc' = "exited"
  /\ UNCHANGED <<clock, inQueue, when, postedNum, nextNum, canceled, locked, deadline,
                 posterVars>>

\* process_canceled_tasks(): only when nothing is ready to run.
DropCanceled ==
  LET dropped == schQueue \cap canceled
  IN /\ wpc = "pick"
     /\ pqueue = {} /\ dropped # {}
     /\ result' = [t \in AllTasks |-> IF t \in dropped THEN "exception" ELSE result[t]]
     /\ schQueue' = schQueue \ dropped /\ wpc' = "top"
     /\ UNCHANGED <<clock, inQueue, pqueue, when, postedNum, nextNum, canceled, done,
                    locked, deadline, wtask, posterVars>>

Lock ==
  /\ wpc = "pick" /\ pqueue = {} /\ schQueue \cap canceled = {} /\ locked' = TRUE
  /\ wpc' = "locked"
  /\ UNCHANGED <<clock, queueVars, taskVars, done, deadline, wtask, posterVars>>

HasNextTask == inQueue # <<>> \/ \E t \in schQueue : Due(t)

\* has_next_task() says there is work after all.
SkipWait ==
  /\ wpc = "locked" /\ HasNextTask /\ locked' = FALSE /\ wpc' = "top"
  /\ UNCHANGED <<clock, queueVars, taskVars, done, deadline, wtask, posterVars>>

\* Fault: the scheduled tasks are not asked for the time of the earliest.
IdleGuardForever ==
  /\ wpc = "locked" /\ ~HasNextTask /\ deadline' = Never /\ wpc' = "recheck"
  /\ UNCHANGED <<clock, queueVars, taskVars, done, locked, wtask, posterVars>>

\* check_for_timeouts() fixes how long to wait; then the idle notifier is asked,
\* and may return a task, which is pushed like any other but without a signal.
IdleGuard ==
  /\ wpc = "locked" /\ ~HasNextTask
  /\ IF schQueue = {} THEN deadline' = Never
     ELSE \E t \in schQueue : /\ \A u \in schQueue : when[t] <= when[u]
                              /\ deadline' = when[t]
  /\ wpc' = "recheck"
  /\ \/ UNCHANGED <<result, when, posterVars>>
     \/ \E t \in IdleTasks : Prepare(Worker, t, 0)
  /\ UNCHANGED <<clock, queueVars, postedNum, nextNum, canceled, done, locked, wtask>>

\* Fault: the queue is not read again under the mutex.
RecheckSkipped ==
  /\ wpc = "recheck" /\ ppc[Worker] = "idle" /\ wpc' = "prewait"
  /\ UNCHANGED <<clock, queueVars, taskVars, done, locked, deadline, wtask, posterVars>>

\* task_in_queue is read once more under the mutex.
Recheck ==
  /\ wpc = "recheck" /\ ppc[Worker] = "idle"
  /\ IF inQueue # <<>>
     THEN locked' = FALSE /\ wpc' = "top" /\ deadline' = Never
     ELSE locked' = locked /\ wpc' = "prewait" /\ deadline' = deadline
  /\ UNCHANGED <<clock, queueVars, taskVars, done, wtask, posterVars>>

Wait ==
  /\ wpc = "prewait" /\ locked' = FALSE /\ wpc' = "waiting"
  /\ UNCHANGED <<clock, queueVars, taskVars, done, deadline, wtask, posterVars>>

WakeTimeout ==
  /\ wpc = "waiting" /\ deadline <= clock /\ wpc' = "woken"
  /\ UNCHANGED <<clock, queueVars, taskVars, done, locked, deadline, wtask, posterVars>>

\* The wait returns holding the mutex, and the lock scope ends.
Resume ==
  /\ wpc = "woken" /\ wpc' = "top" /\ deadline' = Never
  /\ UNCHANGED <<clock, queueVars, taskVars, done, locked, wtask, posterVars>>

Tick ==
  /\ clock < MaxTime /\ clock' = clock + 1
  /\ UNCHANGED <<queueVars, taskVars, done, workerVars, posterVars>>

WorkerStep == \/ Move \/ Dispatch \/ Finish \/ RunQuit \/ DropCanceled \/ Lock
              \/ SkipWait \/ IdleGuard \/ Recheck \/ Wait \/ WakeTimeout \/ Resume

PostStep(p) == Push(p) \/ Retry(p) \/ Notify(p) \/ Join(p)

Next == \/ WorkerStep
        \/ \E p \in Actors : Async(p) \/ PostStep(p)
        \/ \E t \in Tasks : Cancel(t)
        \/ Poke
        \/ Tick

Spec == Init /\ [][Next]_vars

\* The OS schedules every thread, and time passes.  Nobody is obliged to post,
\* to cancel or to poke.
FairSpec == /\ Spec /\ WF_vars(WorkerStep)
            /\ \A p \in Actors : WF_vars(PostStep(p))
            /\ WF_vars(Tick)
----
(* Properties. *)

Stages == {"top", "pick", "running", "locked", "recheck", "prewait", "waiting",
           "woken", "exited"}

\* The domain of every variable of the posting protocol (thread_d's members and
\* the locals of async_task()).
TypeOK == /\ clock \in 0..MaxTime /\ inQueue \in Seq(AllTasks) /\ pqueue \in SUBSET AllTasks
          /\ schQueue \in SUBSET AllTasks /\ when \in [AllTasks -> 0..MaxTime]
          /\ postedNum \in [AllTasks -> Nat] /\ nextNum \in Nat /\ canceled \in SUBSET AllTasks
          /\ result \in [AllTasks -> {"none", "pending", "value", "exception"}] /\ done \in BOOLEAN
          /\ locked \in BOOLEAN /\ deadline \in 0..Never /\ wpc \in Stages
          /\ wtask \in AllTasks \cup {NoTask}
          /\ ppc \in [Actors -> {"idle", "cas", "notify", "join"}]
          /\ ptask \in [Actors -> AllTasks \cup {NoTask}]
          /\ stale \in [Actors -> AllTasks \cup {NoTask}]

\* No lost wakeup: while the worker is in, or committed to, the wait of
\* process_tasks() with something in task_in_queue, the poster that found the
\* queue empty has its notify_one still to come.
NoLostWakeup ==
  wpc \in {"prewait", "waiting"} /\ inQueue # <<>> =>
      \E p \in Posters : ppc[p] = "notify"

\* A timed wait of process_tasks() never outlasts a scheduled task.
WaitCoversSchedule ==
  wpc \in {"recheck", "prewait", "waiting"} =>
      \A t \in schQueue : deadline <= when[t]

\* Where an unsettled task can be: held by its poster, in the stack, in one of
\* the two heaps, or running.
Running == IF wtask = NoTask THEN {} ELSE {wtask}

\* The raw task pointer is owned by exactly one of the queues until its promise
\* is settled: never by two (it would run and be released twice), never by none
\* (its future would never be ready).
OneHome ==
  /\ \A t \in AllTasks : result[t] = "pending" <=>
        t \in InHand \cup Inbox \cup pqueue \cup schQueue \cup Running
  /\ InHand \cap (Inbox \cup pqueue \cup schQueue \cup Running) = {}
  /\ Inbox \cap (pqueue \cup schQueue \cup Running) = {}
  /\ pqueue \cap (schQueue \cup Running) = {} /\ schQueue \cap Running = {}
  /\ IsInjective(inQueue)
  /\ \A p, q \in Actors : ppc[p] = "cas" /\ ppc[q] = "cas" /\ ptask[p] = ptask[q] => p = q

\* A promise is settled once: the future's value or exception is never replaced.
SettledOnce ==
  [][\A t \in AllTasks : result[t] \in {"value", "exception"} => result'[t] = result[t]]_vars

\* Every future of async() and schedule() becomes ready, unless the thread is
\* told to quit.
EveryTaskSettles ==
  \A t \in AllTasks :
      result[t] = "pending" ~> result[t] \in {"value", "exception"} \/ done

\* thread::quit(): "This method will cancel all pending tasks" (thread.hpp).
\* Once the worker is gone no posted task is left unsettled.
QuitCancelsAllPending == wpc = "exited" => Inbox = {}
====
