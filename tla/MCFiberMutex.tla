---- MODULE MCFiberMutex ----
(* FiberMutex with two fibers on one thread and one on another. *)
EXTENDS FiberMutex

CONSTANTS f1, f2, f3, h1, h2, none

MCFibers == {f1, f2, f3}
MCThreads == {h1, h2}
MCHome == [f \in MCFibers |-> IF f = f3 THEN h2 ELSE h1]
====
