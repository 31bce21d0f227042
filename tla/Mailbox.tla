---- MODULE Mailbox ----
(* What fc::thread promises to the callers of async() and schedule(): tasks posted for now run one
   at a time in the order they were posted, none before the time it is scheduled for, one cancelled
   before it started never yields a value, nothing runs after the thread was stopped, and every
   future is settled at most once. TaskQueue implements this module. *)
EXTENDS Integers, Sequences

CONSTANTS Tasks,      \* every task that can be posted
          Times       \* the times of the schedule

VARIABLES clock,      \* time_point::now()
          fifo,       \* tasks posted for now and not finished, oldest first
          timed,      \* [task, at] of the scheduled tasks not finished
          canceled,   \* tasks whose future was cancelled
          result,     \* what the future of each task holds
          stopped     \* the thread has quit

vars == <<clock, fifo, timed, canceled, result, stopped>>

Results == {"none", "pending", "value", "exception"}

Posted == {fifo[i] : i \in DOMAIN fifo} \cup {e.task : e \in timed}

Init == /\ clock = 0 /\ fifo = <<>> /\ timed = {} /\ canceled = {}
        /\ result = [t \in Tasks |-> "none"] /\ stopped = FALSE

Tick == /\ clock' \in Times /\ clock' > clock
        /\ UNCHANGED <<fifo, timed, canceled, result, stopped>>

\* The future is handed out before the task reaches the mailbox.
Create(t) == /\ result[t] = "none" /\ result' = [result EXCEPT ![t] = "pending"]
             /\ UNCHANGED <<clock, fifo, timed, canceled, stopped>>

Post(t) == /\ result[t] = "pending" /\ t \notin Posted /\ fifo' = Append(fifo, t)
           /\ UNCHANGED <<clock, timed, canceled, result, stopped>>

PostLater(t, w) == /\ result[t] = "pending" /\ t \notin Posted
                   /\ timed' = timed \cup {[task |-> t, at |-> w]}
                   /\ UNCHANGED <<clock, fifo, canceled, result, stopped>>

Cancel(t) == /\ t \in Posted /\ canceled' = canceled \cup {t}
             /\ UNCHANGED <<clock, fifo, timed, result, stopped>>

Settle(t) == /\ result[t] = "pending"
             /\ \E r \in {"value", "exception"} :
                   /\ t \in canceled => r = "exception"
                   /\ result' = [result EXCEPT ![t] = r]

Run == /\ ~stopped /\ fifo # <<>> /\ Settle(Head(fifo)) /\ fifo' = Tail(fifo)
       /\ UNCHANGED <<clock, timed, canceled, stopped>>

RunTimed == /\ ~stopped
            /\ \E e \in timed :
                  /\ e.at <= clock /\ Settle(e.task) /\ timed' = timed \ {e}
            /\ UNCHANGED <<clock, fifo, canceled, stopped>>

\* Cancelled tasks may be settled ahead of their time.
DropCanceled == /\ ~stopped
                /\ \E D \in SUBSET {e \in timed : e.task \in canceled} :
                      /\ timed' = timed \ D
                      /\ result' = [t \in Tasks |->
                            IF t \in {e.task : e \in D} THEN "exception" ELSE result[t]]
                /\ UNCHANGED <<clock, fifo, canceled, stopped>>

\* The task at the head asks the thread to stop.  Some of the posted tasks are
\* cancelled with it; the thread does not promise to cancel all of them.
Stop == /\ ~stopped /\ fifo # <<>>
        /\ \E S \in SUBSET (Posted \ {Head(fifo)}) :
              /\ fifo' = SelectSeq(Tail(fifo), LAMBDA t : t \notin S)
              /\ timed' = {e \in timed : e.task \notin S}
              /\ result' = [t \in Tasks |-> CASE t = Head(fifo) -> "value"
                                              [] t \in S -> "exception"
                                              [] OTHER -> result[t]]
        /\ stopped' = TRUE /\ UNCHANGED <<clock, canceled>>

Next == \/ Tick \/ Run \/ RunTimed \/ DropCanceled \/ Stop
        \/ \E t \in Tasks : \/ Create(t) \/ Post(t) \/ Cancel(t)
                            \/ \E w \in Times : PostLater(t, w)

Spec == Init /\ [][Next]_vars
====
