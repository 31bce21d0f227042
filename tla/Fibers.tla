---- MODULE Fibers ----
(* The scheduler inside one fc::thread: contexts (fibers) that run tasks, block on promises, sleep,
   yield, are cancelled and are unwound by quit(), while other OS threads post tasks, fulfil
   promises, cancel futures and ask the thread to quit. The inbox is the first-in first-out queue of
   Mailbox. ready_heap and task_pqueue are one sequence, runq, in the order of next_posted_num. A
   task whose wait or sleep throws does not catch the exception. A definition marked "Fault" is a
   broken variant of the one that follows it. *)
EXTENDS Integers, Sequences, FiniteSets, SequencesExt

CONSTANTS Ctxs,        \* contexts the thread may allocate
          Base,        \* the context exec() creates
          NoCtx,
          Tasks,       \* tasks; each is also the promise of its result
          NoTask,
          Proms,       \* promises fulfilled by other OS threads
          Ops,         \* what a task may do
          EnvOps,      \* what other OS threads may do
          Fuel,        \* operations a task performs at most
          MaxTime,     \* last instant of the bounded clock; one tick is 10 ms or more
          Prompt       \* no tick falls between a sleep's deadline and the switch

Never == MaxTime + 1
AllProms == Tasks \cup Proms
LOW == -1              \* _internal__priority_for_short_sleeps()

ASSUME CtxAssumption == Base \in Ctxs /\ NoCtx \notin Ctxs
ASSUME TaskAssumption == NoTask \notin Tasks /\ Tasks \cap Proms = {}
ASSUME FiniteAssumption == IsFiniteSet(Ctxs)
ASSUME BoundAssumption == Fuel \in Nat /\ MaxTime \in Nat /\ Prompt \in BOOLEAN

VARIABLES
    clock,      \* time_point::now()
    inbox,      \* task_in_queue, oldest first
    runq,       \* ready_heap and task_pqueue in posted order
    blocked,    \* the list blocked, newest first
    sleepers,   \* sleep_pqueue
    pt,         \* pt_head: contexts that can be reused, newest first
    free,       \* free_list
    current, stage, resched,   \* the running context and where it is
    done,
    at,         \* where a suspended context will continue
    cur,        \* cur_task of a context
    on,         \* the promises its pending wait was called with
    blocking,   \* blocking_prom
    required,   \* whether its blocking_prom entries are required
    resume,     \* resume_time
    prio, saved,    \* prio, and original_priority of a suspended start_next_fiber()
    canceled,   \* contexts with canceled set
    ready, exc, \* _ready and _exceptp of each promise
    waiters,    \* _blocked_fiber_count; _blocked_thread is this thread iff positive
    cancelReq,  \* tasks whose promise has _canceled set
    active,     \* _active_context of a task
    posted, fuel,
    envNotify,  \* promises another thread made ready and has yet to notify
    envFlag     \* the task and context task_base::cancel() on another thread has read

schedVars == <<runq, blocked, sleepers, blocking, ready, exc>>
ctxVars == <<at, cur, on, required, resume, prio, saved, canceled>>
taskVars == <<waiters, cancelReq, active, posted, fuel>>
flowVars == <<current, stage, resched, done, pt, free>>
envVars == <<envNotify, envFlag>>
vars == <<clock, inbox, schedVars, ctxVars, taskVars, flowVars, envVars>>

Entry(k, x) == [kind |-> k, of |-> x]

Init == /\ clock = 0 /\ inbox = <<>> /\ runq = <<>> /\ blocked = <<>> /\ sleepers = {}
        /\ pt = <<>> /\ free = {}
        /\ current = Base /\ stage = "loop" /\ resched = FALSE /\ done = FALSE
        /\ at = [c \in Ctxs |-> IF c = Base THEN "run" ELSE "unborn"]
        /\ cur = [c \in Ctxs |-> NoTask] /\ on = [c \in Ctxs |-> {}]
        /\ blocking = [c \in Ctxs |-> {}] /\ required = [c \in Ctxs |-> TRUE]
        /\ resume = [c \in Ctxs |-> Never]
        /\ prio = [c \in Ctxs |-> 0] /\ saved = [c \in Ctxs |-> 0] /\ canceled = {}
        /\ ready = [p \in AllProms |-> FALSE] /\ exc = [p \in AllProms |-> "none"]
        /\ waiters = [p \in AllProms |-> 0] /\ cancelReq = {} /\ active = [t \in Tasks |-> NoCtx]
        /\ posted = {} /\ fuel = [t \in Tasks |-> Fuel] /\ envNotify = {} /\ envFlag = {}

----
(* What one call on the scheduler may change several times is a record, so that the calls compose.
   *)

Sched == [runq |-> runq, blocked |-> blocked, sleepers |-> sleepers,
          blocking |-> blocking, ready |-> ready, exc |-> exc]

Become(S) == /\ runq' = S.runq /\ blocked' = S.blocked /\ sleepers' = S.sleepers
             /\ blocking' = S.blocking /\ ready' = S.ready /\ exc' = S.exc

MakeReady(S, cs) ==
  [S EXCEPT !.runq = @ \o [i \in DOMAIN cs |-> Entry("ctx", cs[i])]]

\* The elements of s that are in C, in their order.
Among(s, C) ==
  LET I == {i \in DOMAIN s : s[i] \in C}
  IN [k \in 1..Cardinality(I) |->
         s[CHOOSE i \in I : Cardinality({j \in I : j <= i}) = k]]

\* context::try_unblock()
TryUnblock(S, c, p) ==
  S.blocking[c] = {} \/ p \in S.blocking[c] \/ ~required[c]

\* Fault: the context that becomes ready stays on the blocked list.
NotifiedTwice(S, p) == MakeReady(S, Among(S.blocked, {c \in Ctxs : TryUnblock(S, c, p)}))

\* Fault: the search stops at the first context the promise releases.
NotifiedFirst(S, p) ==
  LET woken == Among(S.blocked, {c \in Ctxs : TryUnblock(S, c, p)})
  IN IF woken = <<>> THEN S
     ELSE MakeReady([S EXCEPT !.blocked = Among(@, Ctxs \ {woken[1]}),
                              !.sleepers = @ \ {woken[1]}], <<woken[1]>>)

\* thread::notify() on its own thread: every blocked context the promise releases leaves both lists
\* and becomes ready.
Notified(S, p) ==
  LET W == {c \in ToSet(S.blocked) : TryUnblock(S, c, p)}
  IN MakeReady([S EXCEPT
        !.blocked  = Among(@, Ctxs \ W),
        !.sleepers = @ \ W,
        !.blocking = [c \in Ctxs |-> IF c \in W \cap S.sleepers THEN {} ELSE @[c]]],
        Among(S.blocked, W))

\* promise_base::_set_value() called on this thread.
SetReady(S, p) ==
  IF S.ready[p] THEN S
  ELSE LET R == [S EXCEPT !.ready[p] = TRUE]
       IN IF waiters[p] > 0 THEN Notified(R, p) ELSE R

\* promise_base::set_exception(): the exception is stored before _ready is read.
SetException(S, p, e) == SetReady([S EXCEPT !.exc[p] = e], p)

\* The same for all a context is blocked on: a wait names at most two promises.
SetExceptions(S, ps, e) ==
  LET p == CHOOSE p \in ps : TRUE
      R == SetException(S, p, e)
  IN CASE ps = {}  -> S
       [] ps = {p} -> R
       [] OTHER    -> SetException(R, CHOOSE q \in ps : q # p, e)

\* Fault: only the sleep queue is searched.
CanceledAsleep(S) ==
  MakeReady([S EXCEPT !.sleepers = @ \ canceled], SetToSeq(S.sleepers \cap canceled))

\* thread_d::notify_task_has_been_canceled()
CanceledReleased(S) ==
  LET inReady == {c \in Ctxs : Entry("ctx", c) \in ToSet(S.runq)} \cup ToSet(S.blocked)
  IN MakeReady([S EXCEPT !.blocked = Among(@, Ctxs \ canceled), !.sleepers = @ \ canceled],
               Among(S.blocked, canceled) \o SetToSeq((S.sleepers \cap canceled) \ inReady))

ReadyAt == {i \in DOMAIN runq : runq[i].kind = "ctx"}
TaskAt == DOMAIN runq \ ReadyAt

\* The fronts of ready_heap and task_pqueue.
FrontReady(i) ==
  /\ i \in ReadyAt
  /\ \A j \in ReadyAt \ {i} : \/ prio[runq[i].of] > prio[runq[j].of]
                              \/ prio[runq[i].of] = prio[runq[j].of] /\ i < j
FrontTask(i) == i \in TaskAt /\ \A j \in TaskAt : i <= j

\* Fault: a sleeper is resumed in the instant it sleeps until.
ExpiredAtOnce(c) == c \in sleepers /\ resume[c] <= clock

Expired(c) == c \in sleepers /\ resume[c] < clock
NoneExpired == \A c \in Ctxs : ~Expired(c)
Dormant == {c \in Ctxs : at[c] = "unborn"}

----
(* process_tasks() on the current context. *)

\* move_newly_scheduled_tasks_to_task_pqueue()
Move == /\ stage = "loop"
        /\ ~done \/ blocked # <<>>
        /\ runq' = runq \o inbox /\ inbox' = <<>> /\ stage' = "pick"
        /\ UNCHANGED <<clock, blocked, sleepers, blocking, ready, exc, ctxVars, taskVars,
                       current, resched, done, pt, free, envVars>>

\* A context leaves process_tasks(): exec() returns on the base context, any other switches away for
\* good.
Leave == /\ IF current = Base
            THEN stage' = "exited" /\ free' = free
            ELSE stage' = "switch" /\ free' = free \cup {current}
         /\ resched' = FALSE

LoopEnd == /\ stage = "loop" /\ done /\ blocked = <<>> /\ Leave
           /\ at' = [at EXCEPT ![current] = "dead"]
           /\ UNCHANGED <<clock, inbox, schedVars, cur, on, required, resume, prio, saved,
                          canceled, taskVars, current, done, pt, envVars>>

\* One round of check_for_timeouts(): the earliest sleeper whose time passed.
Expire == /\ stage \in {"pick", "switch"}
          /\ \E c \in sleepers :
                /\ Expired(c)
                /\ \A d \in sleepers : resume[c] <= resume[d]
                /\ LET S == [Sched EXCEPT !.sleepers = @ \ {c}]
                   IN Become(IF blocking[c] # {} THEN SetExceptions(S, blocking[c], "timeout")
                             ELSE IF c # current THEN MakeReady(S, <<c>>) ELSE S)
          /\ UNCHANGED <<clock, inbox, ctxVars, taskVars, flowVars, envVars>>

\* A task is due and no ready context goes before it.
TaskTurn(i) == /\ stage = "pick" /\ NoneExpired /\ FrontTask(i)
               /\ \A j \in ReadyAt : FrontReady(j) => prio[runq[j].of] < 0 \/ i < j

Without(i) == [Sched EXCEPT !.runq = RemoveAt(@, i)]

RunTask == \E i \in DOMAIN runq :
    LET t == runq[i].of
    IN /\ TaskTurn(i)
       /\ runq[i].kind = "task"
       /\ IF t \in cancelReq
          THEN /\ Become(SetException(Without(i), t, "canceled"))
               /\ stage' = "loop" /\ canceled' = canceled \ {current} /\ UNCHANGED <<cur, active>>
          ELSE /\ Become(Without(i))
               /\ cur' = [cur EXCEPT ![current] = t] /\ active' = [active EXCEPT ![t] = current]
               /\ stage' = "task" /\ UNCHANGED canceled
       /\ UNCHANGED <<clock, inbox, at, on, required, resume, prio, saved, waiters,
                      cancelReq, posted, fuel, current, resched, done, pt, free, envVars>>

\* The tasks the library posts to itself.
RunMessage == \E i \in DOMAIN runq :
    /\ TaskTurn(i)
    /\ \/ runq[i].kind = "notify" /\ Become(Notified(Without(i), runq[i].of))
       \/ runq[i].kind = "canceled" /\ Become(CanceledReleased(Without(i)))
    /\ canceled' = canceled \ {current} /\ stage' = "loop"
    /\ UNCHANGED <<clock, inbox, at, cur, on, required, resume, prio, saved, taskVars, current,
                   resched, done, pt, free, envVars>>

\* A ready context goes first: this one becomes reusable.
GoIdle == /\ stage = "pick" /\ NoneExpired /\ ReadyAt # {}
          /\ \A i \in DOMAIN runq : ~TaskTurn(i)
          /\ pt' = <<current>> \o pt /\ at' = [at EXCEPT ![current] = "idle"] /\ stage' = "switch"
          /\ resched' = FALSE
          /\ UNCHANGED <<clock, inbox, schedVars, cur, on, required, resume, prio, saved,
                         canceled, taskVars, current, done, free, envVars>>

\* Nothing to do: dead contexts are deleted, and the thread sleeps until a post.
IdleWake == /\ stage = "pick" /\ NoneExpired /\ runq = <<>>
            /\ inbox # <<>> \/ done
            /\ free' = {}
            /\ at' = [c \in Ctxs |-> IF c \in free THEN "unborn" ELSE at[c]]
            /\ stage' = "loop"
            /\ UNCHANGED <<clock, inbox, schedVars, cur, on, required, resume, prio, saved,
                           canceled, taskVars, current, resched, done, pt, envVars>>

----
(* start_next_fiber() *)

\* The context that runs next gets the low priority; the caller goes to the end of the ready list
\* with its own.
Handover(S, n) ==
  /\ Become(IF resched THEN MakeReady(S, <<current>>) ELSE S)
  /\ current' = n
  /\ prio' = IF resched THEN [prio EXCEPT ![n] = LOW] ELSE prio
  /\ saved' = [saved EXCEPT ![current] = prio[current]]

SwitchToReady == /\ stage = "switch" /\ NoneExpired
                 /\ \E i \in ReadyAt :
                      /\ FrontReady(i)
                      /\ IF runq[i].of = current
                         THEN /\ Become(Without(i))
                              /\ saved' = [saved EXCEPT ![current] = prio[current]]
                              /\ UNCHANGED <<current, prio>>
                         ELSE Handover(Without(i), runq[i].of)
                 /\ stage' = "resume"
                 /\ UNCHANGED <<clock, inbox, at, cur, on, required, resume, canceled, taskVars,
                                resched, done, pt, free, envVars>>

\* Every context is blocked: reuse an idle one, reinitialised, or make a new one.
SwitchToIdle ==
  /\ stage = "switch" /\ NoneExpired /\ ReadyAt = {}
  /\ IF pt # <<>>
     THEN /\ Handover([Sched EXCEPT !.blocking[Head(pt)] = {}], Head(pt))
          /\ at' = [at EXCEPT ![Head(pt)] = "run"] /\ canceled' = canceled \ {Head(pt)}
          /\ pt' = Tail(pt)
     ELSE LET n == CHOOSE c \in Dormant : TRUE
          IN /\ Dormant # {}
             /\ Handover(Sched, n) /\ at' = [at EXCEPT ![n] = "run"] /\ UNCHANGED <<canceled, pt>>
  /\ stage' = "loop"
  /\ UNCHANGED <<clock, inbox, cur, on, required, resume, taskVars, resched, done,
                 free, envVars>>

\* Fault: the task goes on naming the context that ran it.
EndTaskStillActive(S, t) ==
  /\ Become([S EXCEPT !.blocking[current] = {}]) /\ cur' = [cur EXCEPT ![current] = NoTask]
  /\ active' = active /\ canceled' = canceled \ {current} /\ stage' = "loop"

\* The end of a task, on the context that ran it; run_next_task() then
\* reinitialises the context.
EndTask(S, t) ==
  /\ Become([S EXCEPT !.blocking[current] = {}]) /\ cur' = [cur EXCEPT ![current] = NoTask]
  /\ active' = [active EXCEPT ![t] = NoCtx] /\ canceled' = canceled \ {current} /\ stage' = "loop"

\* The exception, if any, that the suspended call ends with.
Outcome(c) ==
  IF c \in canceled \/ done THEN "canceled"
  ELSE IF at[c] # "wait" THEN "none"
  ELSE IF \E p \in on[c] : ready[p] THEN exc[CHOOSE p \in on[c] : TRUE] ELSE "timeout"

\* Fault: a wait that throws does not leave the promise's waiters.
DequeuedOnValue(c) ==
  [p \in AllProms |-> IF at[c] = "wait" /\ p \in on[c] /\ Outcome(c) = "none"
                      THEN waiters[p] - 1 ELSE waiters[p]]

\* promise_base::_dequeue_thread(), also when the wait throws.
Dequeued(c) ==
  [p \in AllProms |-> IF at[c] = "wait" /\ p \in on[c] THEN waiters[p] - 1 ELSE waiters[p]]

\* A context continues inside the call that suspended it.
ResumeTask ==
  LET c == current
      S == [Sched EXCEPT !.sleepers = IF at[c] = "sleep" /\ c \notin canceled
                                      THEN @ \ {c} ELSE @,
                         !.blocking[c] = IF c \in canceled THEN @ ELSE @ \ on[c]]
  IN /\ stage = "resume"
     /\ at[c] \in {"wait", "any", "sleep", "yield"} /\ waiters' = Dequeued(c)
     /\ prio' = IF at[c] = "yield" THEN [prio EXCEPT ![c] = saved[c]] ELSE prio
     /\ IF Outcome(c) = "none"
        THEN Become(S) /\ stage' = "task" /\ UNCHANGED <<cur, active, canceled>>
        ELSE EndTask(SetException(S, cur[c], Outcome(c)), cur[c])
     /\ at' = [at EXCEPT ![c] = "run"] /\ on' = [on EXCEPT ![c] = {}]
     /\ resume' = [resume EXCEPT ![c] = Never]
     /\ UNCHANGED <<clock, inbox, required, saved, cancelReq, posted, fuel,
                    current, resched, done, pt, free, envVars>>

\* An idle context that quit() marked throws out of process_tasks().
ResumeIdle ==
  /\ stage = "resume" /\ at[current] = "idle" /\ current \in canceled /\ Leave
  /\ at' = [at EXCEPT ![current] = "dead"]
  /\ UNCHANGED <<clock, inbox, schedVars, cur, on, required, resume, prio, saved, canceled,
                 taskVars, current, done, pt, envVars>>
----
(* What a running task may do. *)

Do(op) == /\ op \in Ops /\ stage = "task" /\ fuel[cur[current]] > 0
          /\ fuel' = [fuel EXCEPT ![cur[current]] = @ - 1]

\* The context's own part of a call that suspends it.
Suspend(where, ps, until, again) ==
  /\ at' = [at EXCEPT ![current] = where] /\ on' = [on EXCEPT ![current] = ps]
  /\ resume' = [resume EXCEPT ![current] = until]
  /\ sleepers' = IF until = Never THEN sleepers ELSE sleepers \cup {current}
  /\ stage' = "switch" /\ resched' = again

\* The timeout of a wait is time_point::maximum() when the caller gives none.
Timeouts == IF "timed" \in Ops THEN (clock..MaxTime) \cup {Never} ELSE {Never}

\* future::wait() and wait_until(): the context joins the promise's waiters and the blocked list.
Wait == /\ Do("wait")
        /\ \E p \in AllProms \ {cur[current]}, until \in Timeouts :
             /\ ~ready[p] /\ waiters' = [waiters EXCEPT ![p] = @ + 1]
             /\ blocking' = [blocking EXCEPT ![current] = @ \cup {p}]
             /\ Suspend("wait", {p}, until, FALSE)
        /\ required' = [required EXCEPT ![current] = TRUE] /\ blocked' = <<current>> \o blocked
        /\ UNCHANGED <<clock, inbox, runq, ready, exc, cur, prio, saved, canceled, cancelReq,
                       active, posted, current, done, pt, free, envVars>>

\* wait_any_until(): the promises are told of no waiter.
WaitAny == /\ Do("any")
           /\ \E ps \in SUBSET (AllProms \ {cur[current]}), until \in Timeouts :
                /\ Cardinality(ps) = 2
                /\ \A p \in ps : ~ready[p]
                /\ blocking' = [blocking EXCEPT ![current] = @ \cup ps]
                /\ Suspend("any", ps, until, FALSE)
           /\ required' = [required EXCEPT ![current] = FALSE] /\ blocked' = <<current>> \o blocked
           /\ UNCHANGED <<clock, inbox, runq, ready, exc, waiters, cur, prio, saved, canceled,
                          cancelReq, active, posted, current, done, pt, free, envVars>>

\* A call that can be interrupted throws before it suspends.
Interrupted == current \in canceled

Throw == /\ Interrupted /\ EndTask(SetException(Sched, cur[current], "canceled"), cur[current])
         /\ UNCHANGED <<at, on, resume, resched>>

\* yield(), and a sleep of less than 10 ms.
Yield == /\ Do("yield")
         /\ \/ Throw
            \/ /\ ~Interrupted
               /\ Suspend("yield", {}, Never, TRUE)
               /\ UNCHANGED <<runq, blocked, blocking, ready, exc, cur, active, canceled>>
         /\ UNCHANGED <<clock, inbox, required, prio, saved, waiters, cancelReq, posted,
                        current, done, pt, free, envVars>>

\* sleep_until(): yield_until() of a time more than 10 ms away.
Sleep == /\ Do("sleep")
         /\ \/ Throw
            \/ /\ ~Interrupted
               /\ \E until \in (clock + 1)..MaxTime : Suspend("sleep", {}, until, FALSE)
               /\ blocking' = [blocking EXCEPT ![current] = {}]
               /\ UNCHANGED <<runq, blocked, ready, exc, cur, active, canceled>>
         /\ UNCHANGED <<clock, inbox, required, prio, saved, waiters, cancelReq, posted,
                        current, done, pt, free, envVars>>

\* task_base::cancel(): a running task has its context flagged and a message posted, another only
\* its promise's flag.
CancelTask(t) ==
  /\ cancelReq' = cancelReq \cup {t}
  /\ IF active[t] = NoCtx
     THEN UNCHANGED <<canceled, inbox>>
     ELSE /\ canceled' = canceled \cup {active[t]}
          /\ inbox' = Append(inbox, Entry("canceled", t))

Cancel == /\ Do("cancel")
          /\ \E t \in posted \ {cur[current]} : CancelTask(t)
          /\ UNCHANGED <<clock, schedVars, at, cur, on, required, resume, prio, saved, waiters,
                         active, posted, flowVars, envVars>>

Async == /\ Do("async")
         /\ \E t \in Tasks \ posted : /\ posted' = posted \cup {t}
                                      /\ inbox' = Append(inbox, Entry("task", t))
         /\ UNCHANGED <<clock, schedVars, ctxVars, waiters, cancelReq, active, flowVars, envVars>>

Finish == /\ stage = "task" /\ EndTask(SetReady(Sched, cur[current]), cur[current])
          /\ UNCHANGED <<clock, inbox, at, on, required, resume, prio, saved, waiters, cancelReq,
                         posted, fuel, current, resched, done, pt, free, envVars>>

----
(* quit() on the thread itself, as the task another thread posted. *)

RunQuit == \E i \in DOMAIN runq :
    /\ TaskTurn(i) /\ runq[i].kind = "quit" /\ Become(Without(i)) /\ done' = TRUE
    /\ stage' = "break"
    /\ UNCHANGED <<clock, inbox, ctxVars, taskVars, current, resched, pt, free, envVars>>

\* Only the newest blocked context is looked at: its next field is null.
BrokenPromises == SetExceptions(Sched, blocking[Head(blocked)], "canceled")

BreakPromises ==
  /\ stage = "break" /\ blocked # <<>> /\ Become(BrokenPromises)
  /\ UNCHANGED <<clock, inbox, ctxVars, taskVars, flowVars, envVars>>

\* notify() clears blocking_prom of a context also in the sleep queue, the vector
\* set_exception_on_blocking_promises() iterates over: undefined, the process may end there.
BreakUndefined ==
  /\ stage = "break" /\ blocked # <<>>
  /\ blocking[Head(blocked)] # {} /\ Head(blocked) \in sleepers \ BrokenPromises.sleepers
  /\ Become(BrokenPromises) /\ stage' = "crashed"
  /\ UNCHANGED <<clock, inbox, ctxVars, taskVars, current, resched, done, pt, free, envVars>>

\* The contexts quit() makes ready.
Poked == SetToSeq(sleepers) \o pt

\* No context is blocked any more: tasks that never started are cancelled, which wakes nobody,
\* sleeping and idle contexts become ready, and all that are ready are marked.  pt_head still points
\* at the first idle one.
CancelRest ==
  LET U == {t \in Tasks : Entry("task", t) \in ToSet(runq)}
      S == [Sched EXCEPT
               !.runq = Among(@, {Entry("ctx", c) : c \in Ctxs}), !.sleepers = {},
               !.ready = [p \in AllProms |-> p \in U \/ @[p]],
               !.exc = [p \in AllProms |-> IF p \in U THEN "canceled" ELSE @[p]]]
      R == MakeReady(S, Poked)
  IN /\ stage = "break"
     /\ blocked = <<>> /\ Become(R)
     /\ canceled' = canceled \cup {c \in Ctxs : Entry("ctx", c) \in ToSet(R.runq)}
     /\ at' = [at EXCEPT ![current] = "quit"] /\ stage' = "drain"
     /\ pt' = IF pt = <<>> THEN pt ELSE <<Head(pt)>>
     /\ UNCHANGED <<clock, inbox, cur, on, required, resume, prio, saved, taskVars, current,
                    resched, done, free, envVars>>

\* "switch to the next one and let them all quit"
Drain == /\ stage = "drain" /\ ReadyAt # {} /\ stage' = "switch" /\ resched' = TRUE
         /\ UNCHANGED <<clock, inbox, schedVars, ctxVars, taskVars, current, done, pt, free,
                        envVars>>

\* A cancellation that hits the context quit() runs on ends quit() itself.
ResumeQuit == /\ stage = "resume" /\ at[current] = "quit"
              /\ prio' = [prio EXCEPT ![current] = saved[current]]
              /\ canceled' = canceled \ {current}
              /\ IF current \in canceled
                 THEN stage' = "loop" /\ at' = [at EXCEPT ![current] = "run"]
                 ELSE stage' = "drain" /\ at' = at
              /\ UNCHANGED <<clock, inbox, schedVars, cur, on, required, resume, saved,
                             taskVars, current, resched, done, pt, free, envVars>>

QuitEnd == /\ stage = "drain" /\ ReadyAt = {} /\ free' = {}
           /\ at' = [c \in Ctxs |-> IF c \in free THEN "unborn"
                                    ELSE IF c = current THEN "run" ELSE at[c]]
           /\ canceled' = canceled \ {current} /\ stage' = "loop"
           /\ UNCHANGED <<clock, inbox, schedVars, cur, on, required, resume, prio, saved,
                          taskVars, current, resched, done, pt, envVars>>

----
(* Other OS threads, and time. *)

Env(op) ==
  /\ op \in EnvOps /\ stage # "crashed"
  /\ UNCHANGED <<clock, runq, blocked, sleepers, blocking, exc, at, cur, on, required, resume,
                 prio, saved, waiters, active, fuel, flowVars>>

EnvPost == /\ Env("post") /\ ~done
           /\ \E t \in Tasks \ posted : /\ posted' = posted \cup {t}
                                        /\ inbox' = Append(inbox, Entry("task", t))
           /\ UNCHANGED <<ready, canceled, cancelReq, envVars>>

\* _set_value() on another thread: _ready under the lock, and later _notify().
EnvSet == /\ Env("set")
          /\ \E p \in Proms : /\ ~ready[p]
                              /\ ready' = [ready EXCEPT ![p] = TRUE]
                              /\ envNotify' = envNotify \cup {p}
          /\ UNCHANGED <<inbox, canceled, cancelReq, posted, envFlag>>

EnvNotify == /\ Env("set")
             /\ \E p \in envNotify :
                   /\ envNotify' = envNotify \ {p}
                   /\ inbox' = IF waiters[p] > 0 /\ ~done
                               THEN Append(inbox, Entry("notify", p)) ELSE inbox
             /\ UNCHANGED <<ready, canceled, cancelReq, posted, envFlag>>

\* task_base::cancel() on another thread: sets the promise's flag and reads _active_context, without
\* the lock, for later.
EnvCancel == /\ Env("cancel") /\ envFlag = {}
             /\ \E t \in posted \ cancelReq :
                   /\ cancelReq' = cancelReq \cup {t}
                   /\ envFlag' = IF active[t] = NoCtx THEN {} ELSE {<<t, active[t]>>}
             /\ UNCHANGED <<inbox, ready, canceled, posted, envNotify>>

\* Fault: the thread is not told that a context was flagged.
EnvFlagSilent ==
  /\ Env("cancel")
  /\ \E f \in envFlag : canceled' = canceled \cup {f[2]}
  /\ envFlag' = {} /\ UNCHANGED <<inbox, ready, cancelReq, posted, envNotify>>

EnvFlag == /\ Env("cancel")
           /\ \E f \in envFlag :
                 /\ canceled' = canceled \cup {f[2]}
                 /\ inbox' = IF done THEN inbox ELSE Append(inbox, Entry("canceled", f[1]))
           /\ envFlag' = {} /\ UNCHANGED <<ready, cancelReq, posted, envNotify>>

EnvQuit == /\ Env("quit") /\ ~done
           /\ \A i \in DOMAIN inbox : inbox[i].kind # "quit"
           /\ \A i \in DOMAIN runq : runq[i].kind # "quit"
           /\ inbox' = Append(inbox, Entry("quit", NoTask))
           /\ UNCHANGED <<ready, canceled, cancelReq, posted, envVars>>

Tick == /\ clock < MaxTime
        /\ Prompt => ~(stage = "switch" /\ current \in sleepers)
        /\ clock' = clock + 1
        /\ UNCHANGED <<inbox, schedVars, ctxVars, taskVars, flowVars, envVars>>

SchedStep == \/ Move \/ LoopEnd \/ Expire \/ RunTask \/ RunMessage \/ GoIdle \/ IdleWake
             \/ SwitchToReady \/ SwitchToIdle \/ ResumeTask \/ ResumeIdle
             \/ RunQuit \/ BreakPromises \/ BreakUndefined
             \/ CancelRest \/ Drain \/ ResumeQuit \/ QuitEnd

TaskStep == Wait \/ WaitAny \/ Yield \/ Sleep \/ Cancel \/ Async \/ Finish

EnvStep == EnvPost \/ EnvSet \/ EnvNotify \/ EnvCancel \/ EnvFlag \/ EnvQuit

Next == SchedStep \/ TaskStep \/ EnvStep \/ Tick

Spec == Init /\ [][Next]_vars

\* The OS runs the thread, no task runs forever, a thread goes on with a set or cancel it began, and
\* time passes.
FairSpec == /\ Spec
            /\ WF_vars(SchedStep \/ Finish)
            /\ WF_vars(EnvNotify) /\ WF_vars(EnvFlag) /\ WF_vars(Tick)
----
(* Properties. *)

Entries == [kind : {"task", "notify", "canceled", "quit", "ctx"},
            of : AllProms \cup Ctxs \cup {NoTask}]

\* The domain of every variable of the scheduler (members of thread_d, context,
\* promise_base and task_base).
TypeOK == /\ clock \in 0..MaxTime /\ inbox \in Seq(Entries) /\ runq \in Seq(Entries)
          /\ blocked \in Seq(Ctxs) /\ sleepers \subseteq Ctxs
          /\ pt \in Seq(Ctxs) /\ free \subseteq Ctxs
          /\ current \in Ctxs /\ resched \in BOOLEAN /\ done \in BOOLEAN
          /\ stage \in {"loop", "pick", "task", "switch", "resume", "break", "drain",
                        "exited", "crashed"}
          /\ at \in [Ctxs -> {"unborn", "run", "idle", "wait", "any", "sleep", "yield",
                              "quit", "dead"}]
          /\ cur \in [Ctxs -> Tasks \cup {NoTask}]
          /\ on \in [Ctxs -> SUBSET AllProms] /\ blocking \in [Ctxs -> SUBSET AllProms]
          /\ required \in [Ctxs -> BOOLEAN] /\ resume \in [Ctxs -> 0..Never]
          /\ prio \in [Ctxs -> {0, LOW}] /\ saved \in [Ctxs -> {0, LOW}] /\ canceled \subseteq Ctxs
          /\ ready \in [AllProms -> BOOLEAN]
          /\ exc \in [AllProms -> {"none", "canceled", "timeout"}]
          /\ waiters \in [AllProms -> 0..Cardinality(Ctxs)]
          /\ cancelReq \subseteq Tasks /\ posted \subseteq Tasks
          /\ active \in [Tasks -> Ctxs \cup {NoCtx}] /\ fuel \in [Tasks -> 0..Fuel]
          /\ envNotify \subseteq AllProms /\ envFlag \subseteq Tasks \X Ctxs

Queued(c) == Cardinality({i \in ReadyAt : runq[i].of = c})

\* A suspended context is in exactly the list its way of suspending calls for, or once in the ready
\* heap; one that runs or was deleted in none: it is neither lost nor resumed twice.
FiberHasOneHome ==
  stage \notin {"exited", "crashed"} =>
      \A c \in Ctxs \ {current} :
          /\ Queued(c) <= 1 /\ Cardinality({i \in DOMAIN blocked : blocked[i] = c}) <= 1
          /\ c \in ToSet(blocked) => at[c] \in {"wait", "any"} /\ Queued(c) = 0
          /\ c \in sleepers => at[c] \in {"wait", "any", "sleep"} /\ Queued(c) = 0
          /\ CASE at[c] \in {"wait", "any"} -> c \in ToSet(blocked) \/ Queued(c) = 1
               [] at[c] = "sleep" -> c \in sleepers \/ Queued(c) = 1
               [] at[c] \in {"yield", "quit"} -> Queued(c) = 1
               [] at[c] = "idle" -> (c \in ToSet(pt)) # (Queued(c) = 1) \/ done
               [] at[c] = "dead" -> c \in free
               [] OTHER -> Queued(c) = 0

\* The notification of promise p is still on its way to this thread.
NotifyComing(p) == \/ p \in envNotify
                   \/ Contains(inbox, Entry("notify", p))
                   \/ Contains(runq, Entry("notify", p))

\* Until quit, a fiber blocked in future::wait() on a ready promise still has the promise's notify()
\* to come, however _set_value(), timeout and cancellation interleave.
WaiterIsNotified ==
  ~done => \A c \in ToSet(blocked) :
      at[c] = "wait" => \A p \in on[c] : ready[p] => NotifyComing(p)

\* _blocked_fiber_count counts the fibers inside wait_until() on the promise: only the last resets
\* _blocked_thread.
WaitersCounted ==
  \A p \in AllProms :
      waiters[p] = Cardinality({c \in Ctxs : at[c] = "wait" /\ p \in on[c]})

\* A running task that has been cancelled is told: its context is flagged or about to be, and while
\* it is blocked or asleep the message that releases it is on its way.
CancelIsDelivered ==
  ~done => \A t \in cancelReq :
      LET c == active[t]
      IN c # NoCtx =>
          /\ c \in canceled \/ <<t, c>> \in envFlag
          /\ c \in canceled /\ c \in ToSet(blocked) \cup sleepers /\ c # current =>
                \E q \in {inbox, runq} : \E i \in DOMAIN q : q[i].kind = "canceled"

\* A sleeping fiber leaves the sleep queue when its time has passed, it is cancelled or the thread
\* quits, not before.
SleepNotEarly ==
  [][\A c \in sleepers : at[c] = "sleep" /\ c \notin sleepers' =>
        resume[c] < clock \/ c \in canceled \/ done]_vars

\* After quit() has set done no task starts and no fiber starts to wait or sleep.
NothingNewAfterQuit ==
  [][done => /\ \A t \in Tasks : active[t] = NoCtx => active'[t] = NoCtx
             /\ \A c \in Ctxs : at'[c] \in {"wait", "any", "sleep", "yield"} => at'[c] = at[c]]_vars

\* A cancelled task settles, wherever it is, without anyone else's help.
CancelSettles == \A t \in Tasks : t \in cancelReq ~> ready[t]

\* A wait ends: when the promise is ready, or its timeout has passed.
WaitEnds ==
  \A c \in Ctxs : at[c] = "wait" /\ ((\E p \in on[c] : ready[p]) \/ resume[c] < clock)
                      ~> at[c] # "wait"

\* Under fairness of the thread nobody waits for ever, and every cancelled task settles.
FibersGoOn == CancelSettles /\ WaitEnds

\* _set_value(): "don't allow promise to be set more than once"; set_exception() goes through it.
PromiseSetOnce == [][\A p \in AllProms : ready[p] => exc'[p] = exc[p]]_vars

\* thread.hpp on wait_any(): "Wait until either f1 or f2 is ready."
WaitAnyEnds ==
  \A c \in Ctxs : at[c] = "any" /\ (\E p \in on[c] : ready[p]) ~> at[c] # "any"

\* task_base::cancel() never flags the fiber of another task, if called on the thread itself.  (On
\* another thread it may.)
CancelHitsItsTask ==
  ~done => \A c \in canceled : cur[c] # NoTask => cur[c] \in cancelReq

\* thread::quit(): "now that we have poked all fibers... switch to the next one and let them all
\* quit."  When exec() returns no task is left in a fiber.
QuitUnwindsAll == stage = "exited" => \A c \in Ctxs : cur[c] = NoTask
====
