---- MODULE Retainable ----
(* fc::retainable and fc::shared_ptr (include/fc/shared_ptr.hpp,
   src/shared_ptr.cpp): objects that count their references, and the
   variables of several threads that point to them.  retain() and
   release() are atomic, what a variable does with them is not.  A thread
   uses only variables of its own, and reads another one at rest. *)
EXTENDS Integers, FiniteSets

CONSTANTS Pointers,     \* variables of type shared_ptr, one to a thread
          Places,        \* places for objects
          Nothing

ASSUME RtAssumption == Nothing \notin Places /\ IsFiniteSet(Pointers)

VARIABLES ptr,      \* _ptr
          then,     \* what a call has still to do: release this object, then point to that
          refs,    \* _ref_count of an object
          alive     \* the object is there

rtVars == <<ptr, then, refs, alive>>

Rest == [do |-> "nothing"]
RtInit == /\ ptr = [p \in Pointers |-> Nothing] /\ then = [p \in Pointers |-> Rest]
          /\ refs = [o \in Places |-> 0] /\ alive = [o \in Places |-> FALSE]

AtRest(p) == then[p] = Rest

\* p is about to let go of what it points to and to point to o.
Replace(p, o) == then' = [then EXCEPT ![p] = [do |-> "release", to |-> o]]

Retain(o) == refs' = IF o = Nothing THEN refs ELSE [refs EXCEPT ![o] = @ + 1]

\* reset( new T ): a new object has one reference, which p takes over.
RtCreate(p, o) == /\ AtRest(p) /\ ~alive[o]
                  /\ alive' = [alive EXCEPT ![o] = TRUE] /\ refs' = [refs EXCEPT ![o] = 1]
                  /\ Replace(p, o) /\ UNCHANGED ptr

\* reset().
RtReset(p) == AtRest(p) /\ ptr[p] # Nothing /\ Replace(p, Nothing) /\ UNCHANGED <<ptr, refs, alive>>

\* Fault: the reference is counted after the old one is released.
RtCopyUncounted(p, q) == /\ AtRest(p) /\ AtRest(q) /\ ptr[p] # ptr[q]
                         /\ Replace(p, ptr[q]) /\ UNCHANGED <<ptr, refs, alive>>

\* operator=( const shared_ptr& ), reset( q.get(), true ); the copy constructor.
RtCopy(p, q) == /\ AtRest(p) /\ AtRest(q) /\ ptr[p] # ptr[q] /\ Retain(ptr[q]) /\ Replace(p, ptr[q])
                /\ UNCHANGED <<ptr, alive>>

\* operator=( shared_ptr&& ) swaps; so does the move constructor, with nothing.
RtMove(p, q) == /\ AtRest(p) /\ AtRest(q) /\ p # q
                /\ ptr' = [ptr EXCEPT ![p] = ptr[q], ![q] = ptr[p]]
                /\ UNCHANGED <<then, refs, alive>>

\* release(): who counts from one to none deletes.
RtRelease(p) ==
  LET o == ptr[p] IN
  /\ then[p].do = "release"
  /\ refs' = IF o = Nothing THEN refs ELSE [refs EXCEPT ![o] = @ - 1]
  /\ then' = [then EXCEPT ![p].do = IF o # Nothing /\ refs[o] = 1 THEN "delete" ELSE "point"]
  /\ UNCHANGED <<ptr, alive>>

RtDelete(p) == /\ then[p].do = "delete" /\ alive' = [alive EXCEPT ![ptr[p]] = FALSE]
               /\ then' = [then EXCEPT ![p].do = "point"] /\ UNCHANGED <<ptr, refs>>

RtPoint(p) == /\ then[p].do = "point"
              /\ ptr' = [ptr EXCEPT ![p] = then[p].to] /\ then' = [then EXCEPT ![p] = Rest]
              /\ UNCHANGED <<refs, alive>>

RtNext == \E p \in Pointers :
    \/ \E o \in Places : RtCreate(p, o)
    \/ RtReset(p) \/ RtRelease(p) \/ RtDelete(p) \/ RtPoint(p)
    \/ \E q \in Pointers : RtCopy(p, q) \/ RtMove(p, q)

RtSpec == RtInit /\ [][RtNext]_rtVars
----
(* Properties. *)

\* The references to an object: variables that have not let go of it, and calls
\* that will point to it.
References(o) == Cardinality({p \in Pointers : ptr[p] = o /\ then[p].do \in {"nothing", "release"}})
                 + Cardinality({p \in Pointers : ~AtRest(p) /\ then[p].to = o})

\* Each reference is counted, in the middle of a call too ...
ReferencesAreCounted == \A o \in Places : alive[o] /\ (\A p \in Pointers : then[p].do = "delete" => ptr[p] # o)
                                         => refs[o] = References(o) /\ refs[o] > 0

\* ... and whoever refers to an object, it is there, and one deletes it.
ReferredIsAlive ==
  /\ \A p \in Pointers : /\ ptr[p] # Nothing /\ then[p].do \in {"nothing", "release", "delete"} => alive[ptr[p]]
                         /\ ~AtRest(p) => then[p].to = Nothing \/ alive[then[p].to]
  /\ \A p, q \in Pointers : then[p].do = "delete" /\ then[q].do = "delete" /\ ptr[p] = ptr[q] => p = q

\* Objects live exactly as long as they are referred to.
ReferencesAreRight == ReferencesAreCounted /\ ReferredIsAlive
====
