---- MODULE MCTaskQueue ----
(* TaskQueue on a small instance, and the mapping under which it implements
   Mailbox: the mailbox's fifo is the running task, then the due heap in
   posted order, then the stack from oldest to newest, of the tasks posted
   for now; its timed pool is every scheduled task wherever it is. *)
EXTENDS TaskQueue, SequencesExt

CONSTANTS p1, p2, w, t1, t2, t3, i1, quit, none

MCPosters2 == {p1, p2}
MCTasks2 == {t1, t2}
MCTasks3 == {t1, t2, t3}
MCIdle == {i1}
MCNoIdle == {}

Immediate(t) == when[t] = 0

Fifo == SelectSeq(SetToSeq(Running)
                  \o SetToSortSeq(pqueue, LAMBDA a, b : postedNum[a] < postedNum[b])
                  \o Reverse(inQueue), Immediate)

Timed == {[task |-> t, at |-> when[t]] :
             t \in {u \in Inbox \cup pqueue \cup schQueue \cup Running : ~Immediate(u)}}

Mail == INSTANCE Mailbox WITH Tasks <- AllTasks, Times <- 0..MaxTime,
                              fifo <- Fifo, timed <- Timed, stopped <- done

\* The lock-free stack, the two heaps and the wakeups implement the mailbox:
\* tasks posted for now run in the order their pushes took effect, none before
\* its time, a cancelled one never yields a value, none runs after the stop.
ImplementsMailbox == Mail!Spec
====
