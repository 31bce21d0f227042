---- MODULE FiberMutex ----
(* fc::mutex: a recursive lock for the fibers of several fc::threads. m_blist runs from the newest
   waiter to the owner; unlock() cuts the owner off, so that the oldest waiter is last, and asks
   that waiter's thread to make it ready. A fiber runs tasks that lock, may lock again, may yield
   inside and unlock as often. recursive_lock_count wraps at Wrap in place of 2^32, as without
   assertions. A definition marked "Fault" is a broken variant of the one that follows it. *)
EXTENDS Integers, Sequences, FiniteSets, SequencesExt

CONSTANTS Threads,
          Fibers,
          Home,        \* the thread of each fiber
          NoFiber,
          MaxDepth,    \* how often a task locks the mutex recursively
          Wrap,        \* recursive_lock_count is computed modulo Wrap
          MaxCancels   \* how many cancellations other threads ask for

ASSUME HomeAssumption == Home \in [Fibers -> Threads]
ASSUME NoFiberAssumption == NoFiber \notin Fibers
ASSUME DepthAssumption == MaxDepth \in Nat \ {0} /\ Wrap \in Nat /\ MaxDepth < Wrap
ASSUME CancelAssumption == MaxCancels \in Nat

VARIABLES
    blist,      \* m_blist by next_blocked_mutex: newest waiter first, owner last
    count,      \* recursive_lock_count
    current,    \* the fiber each thread runs
    ready,      \* ready_heap of each thread
    inbox,      \* the unblock() tasks posted to each thread
    pc,         \* where each fiber is
    depth,      \* locks the task of each fiber has not released yet
    canceled,   \* contexts with canceled set
    flagging,   \* contexts task_base::cancel() is about to flag
    cancels

threadVars == <<current, ready, inbox>>
cancelVars == <<canceled, flagging, cancels>>
vars == <<blist, count, threadVars, pc, depth, cancelVars>>

Init == /\ blist = <<>> /\ count = 0 /\ current = [h \in Threads |-> NoFiber]
        /\ ready = [h \in Threads |-> <<>>] /\ inbox = [h \in Threads |-> <<>>]
        /\ pc = [f \in Fibers |-> "out"] /\ depth = [f \in Fibers |-> 0] /\ canceled = {}
        /\ flagging = {} /\ cancels = 0

\* get_tail(): the last element owns the mutex; a context before it has its
\* next_blocked_mutex set.
Owner == IF blist = <<>> THEN NoFiber ELSE Last(blist)
Queued(f) == Contains(blist, f) /\ f # Owner

Running(f) == current[Home[f]] = f

----
(* lock() *)

\* A task starts on a context of a thread that runs nothing.
Begin(f) ==
  /\ current[Home[f]] = NoFiber /\ pc[f] = "out" /\ ~Contains(ready[Home[f]], f)
  /\ current' = [current EXCEPT ![Home[f]] = f] /\ pc' = [pc EXCEPT ![f] = "run"]
  /\ UNCHANGED <<blist, count, ready, inbox, depth, cancelVars>>

\* The mutex is free, or the caller's already, or the caller joins the list.
Lock(f) ==
  /\ Running(f) /\ pc[f] = "run" /\ depth[f] < MaxDepth
  /\ IF Owner \in {NoFiber, f}
     THEN /\ blist' = IF Owner = f THEN blist ELSE <<f>>
          /\ count' = (IF Owner = f THEN count + 1 ELSE 1) % Wrap
          /\ depth' = [depth EXCEPT ![f] = @ + 1] /\ pc' = pc
     ELSE /\ blist' = <<f>> \o blist
          /\ pc' = [pc EXCEPT ![f] = "queued"] /\ UNCHANGED <<count, depth>>
  /\ UNCHANGED <<threadVars, cancelVars>>

\* yield(false): throws if the context has been cancelled, else switches away.
YieldToWait(f) ==
  /\ Running(f) /\ pc[f] = "queued"
  /\ IF f \in canceled
     THEN /\ pc' = [pc EXCEPT ![f] = "cleanup"]
          /\ current' = current
     ELSE /\ pc' = [pc EXCEPT ![f] = "waiting"]
          /\ current' = [current EXCEPT ![Home[f]] = NoFiber]
  /\ UNCHANGED <<blist, count, ready, inbox, depth, cancelVars>>

\* A thread resumes its oldest ready context.  One that waited takes itself for the owner, with one
\* lock, unless it was cancelled; an entry of a context that has ended its task resumes nothing.
Switch(h) ==
  /\ current[h] = NoFiber /\ ready[h] # <<>>
  /\ LET f == Head(ready[h]) IN
     /\ current' = IF pc[f] = "out" THEN current ELSE [current EXCEPT ![h] = f]
     /\ CASE pc[f] = "out" -> UNCHANGED <<pc, count, depth>>
          [] pc[f] # "out" /\ f \in canceled ->
                /\ pc' = [pc EXCEPT ![f] = IF @ = "waiting" THEN "cleanup" ELSE "unwind"]
                /\ UNCHANGED <<count, depth>>
          [] OTHER ->
                /\ pc' = [pc EXCEPT ![f] = "run"]
                /\ count' = IF pc[f] = "waiting" THEN 1 ELSE count
                /\ depth' = IF pc[f] = "waiting" THEN [depth EXCEPT ![f] = @ + 1] ELSE depth
  /\ ready' = [ready EXCEPT ![h] = Tail(@)] /\ UNCHANGED <<blist, inbox, cancelVars>>

----
(* unlock() *)

\* thread_d::unblock(c), called by a fiber of thread h: on another thread it is
\* posted as a task.
Unblock(c, h) ==
  IF Home[c] = h
  THEN ready' = [ready EXCEPT ![h] = Append(@, c)] /\ inbox' = inbox
  ELSE inbox' = [inbox EXCEPT ![Home[c]] = Append(@, c)] /\ ready' = ready

Deliver(h) ==
  /\ current[h] = NoFiber /\ inbox[h] # <<>>
  /\ ready' = [ready EXCEPT ![h] = Append(@, Head(inbox[h]))]
  /\ inbox' = [inbox EXCEPT ![h] = Tail(@)]
  /\ UNCHANGED <<blist, count, current, pc, depth, cancelVars>>

\* Fault: the newest waiter is taken for the next owner.
ReleaseNewest(h) ==
  /\ count' = (count - 1) % Wrap
  /\ IF count' # 0 THEN UNCHANGED <<blist, ready, inbox>>
     ELSE IF Len(blist) < 2 THEN blist' = <<>> /\ UNCHANGED <<ready, inbox>>
     ELSE blist' = Front(blist) /\ Unblock(Head(blist), h)

\* Fault: the owner does not wake the fiber it hands the mutex to.
ReleaseSilent(h) ==
  /\ count' = (count - 1) % Wrap
  /\ blist' = IF count' # 0 THEN blist ELSE IF blist = <<>> THEN <<>> ELSE Front(blist)
  /\ UNCHANGED <<ready, inbox>>

\* The body of unlock(): at zero the oldest waiter becomes the owner and is made ready.
Release(h) ==
  /\ count' = (count - 1) % Wrap
  /\ IF count' # 0 THEN UNCHANGED <<blist, ready, inbox>>
     ELSE IF Len(blist) < 2 THEN blist' = <<>> /\ UNCHANGED <<ready, inbox>>
     ELSE blist' = Front(blist) /\ Unblock(Last(Front(blist)), h)

Unlock(f) ==
  /\ Running(f) /\ pc[f] \in {"run", "unwind"} /\ depth[f] > 0 /\ Release(Home[f])
  /\ depth' = [depth EXCEPT ![f] = @ - 1] /\ UNCHANGED <<current, pc, cancelVars>>

\* The task ends and its context is reinitialised.
EndTask(f) ==
  /\ pc' = [pc EXCEPT ![f] = "out"] /\ current' = [current EXCEPT ![Home[f]] = NoFiber]
  /\ canceled' = canceled \ {f}

End(f) ==
  /\ Running(f) /\ pc[f] \in {"run", "unwind"} /\ depth[f] = 0 /\ EndTask(f)
  /\ UNCHANGED <<blist, count, ready, inbox, depth, flagging, cancels>>

\* The owner yields inside its critical section; the yield of a cancelled task throws.
Yield(f) ==
  /\ Running(f) /\ pc[f] = "run"
  /\ IF f \in canceled
     THEN /\ pc' = [pc EXCEPT ![f] = "unwind"]
          /\ UNCHANGED <<current, ready>>
     ELSE /\ pc' = [pc EXCEPT ![f] = "yielded"]
          /\ current' = [current EXCEPT ![Home[f]] = NoFiber]
          /\ ready' = [ready EXCEPT ![Home[f]] = Append(@, f)]
  /\ UNCHANGED <<blist, count, inbox, depth, cancelVars>>

\* cleanup(): the wait of lock() threw; a waiter leaves the list, a new owner calls unlock().
Cleanup(f) ==
  /\ Running(f) /\ pc[f] = "cleanup"
  /\ IF Queued(f)
     THEN blist' = Remove(blist, f) /\ UNCHANGED <<count, ready, inbox>>
     ELSE Release(Home[f])
  /\ EndTask(f) /\ UNCHANGED <<depth, flagging, cancels>>

----
(* task_base::cancel() on a thread that runs none of the fibers. *)

\* A context that waits for a mutex is unblocked first and flagged later.
CancelUnblock(f) ==
  /\ cancels < MaxCancels /\ cancels' = cancels + 1 /\ pc[f] # "out"
  /\ flagging' = flagging \cup {f}
  /\ inbox' = IF Queued(f) THEN [inbox EXCEPT ![Home[f]] = Append(@, f)] ELSE inbox
  /\ UNCHANGED <<blist, count, current, ready, pc, depth, canceled>>

\* The flag; that it may hit the context's next task is module Fibers' subject.
CancelFlag(f) ==
  /\ f \in flagging /\ flagging' = flagging \ {f}
  /\ canceled' = IF pc[f] = "out" THEN canceled ELSE canceled \cup {f}
  /\ UNCHANGED <<blist, count, threadVars, pc, depth, cancels>>

FiberStep(f) == \/ Begin(f) \/ Lock(f) \/ YieldToWait(f) \/ Unlock(f) \/ End(f)
                \/ Yield(f) \/ Cleanup(f)

Next == \/ \E h \in Threads : Switch(h) \/ Deliver(h)
        \/ \E f \in Fibers : FiberStep(f) \/ CancelUnblock(f) \/ CancelFlag(f)

Spec == Init /\ [][Next]_vars
----
(* Properties. *)

\* The domain of every variable of the mutex and of the threads that use it.
TypeOK == /\ blist \in Seq(Fibers) /\ count \in 0..(Wrap - 1)
          /\ current \in [Threads -> Fibers \cup {NoFiber}] /\ ready \in [Threads -> Seq(Fibers)]
          /\ inbox \in [Threads -> Seq(Fibers)]
          /\ pc \in [Fibers -> {"out", "run", "queued", "waiting", "yielded", "unwind", "cleanup"}]
          /\ depth \in [Fibers -> 0..MaxDepth] /\ canceled \subseteq Fibers
          /\ flagging \subseteq Fibers /\ cancels \in 0..MaxCancels

\* Until a task is cancelled, at most one fiber of all threads holds the mutex; it is the last of
\* m_blist and recursive_lock_count counts its locks.
MutualExclusion ==
  cancels = 0 => \A f \in Fibers : depth[f] > 0 => f = Owner /\ count = depth[f]

\* Until a task is cancelled, a mutex handed over by unlock() is on its way: the new owner, still
\* inside lock(), is in its thread's ready list or posted to that thread, no other waiter is, and
\* nobody is there twice.
HandoverComing ==
  cancels = 0 => \A f \in Fibers :
      pc[f] \in {"queued", "waiting"} =>
          LET wakes == ready[Home[f]] \o inbox[Home[f]]
          IN IsInjective(wakes) /\ (Contains(wakes, f) <=> f = Owner)

\* mutex::unlock() asserts recursive_lock_count > 0: also when cleanup() calls it.
UnlockOfLocked == \A f \in Fibers : pc[f] = "cleanup" /\ ~Queued(f) => count > 0
====
