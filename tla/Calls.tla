---- MODULE Calls ----
(* What a remote call promises: it is issued once, answered while it is open, and returns once, with
   what it was answered or with a failure to send. Final answers (rpc::state) are the first;
   otherwise (json_connection) the last before the return counts. *)
CONSTANTS Callers,     \* the fibers that call
          Answers,     \* what a call may end with: a value, an error, the close
          Nothing,     \* no answer yet; what a caller has before its call returned
          Unsent,      \* what it gets when the request could not be written
          Final        \* an answer cannot be replaced

VARIABLES open,        \* the calls that wait
          answer,      \* what each open call would return now
          returned     \* what each call has returned

callVars == <<open, answer, returned>>

Init == /\ open = {} /\ answer = [c \in Callers |-> Nothing]
        /\ returned = [c \in Callers |-> Nothing]

Issue(c) == /\ c \notin open /\ returned[c] = Nothing /\ open' = open \cup {c}
            /\ UNCHANGED <<answer, returned>>

\* One message or one close may answer several calls at a time.
Give(C, a) == /\ \A c \in C : c \in open /\ (Final => answer[c] = Nothing)
              /\ answer' = [c \in Callers |-> IF c \in C THEN a ELSE answer[c]]
              /\ UNCHANGED <<open, returned>>

Return(c) == /\ c \in open /\ open' = open \ {c}
             /\ \/ answer[c] # Nothing /\ returned' = [returned EXCEPT ![c] = answer[c]]
                \/ returned' = [returned EXCEPT ![c] = Unsent]
             /\ answer' = [answer EXCEPT ![c] = Nothing]

Next == \/ \E c \in Callers : Issue(c) \/ Return(c)
        \/ \E C \in SUBSET Callers, a \in Answers : Give(C, a)

Spec == Init /\ [][Next]_callVars
====
