---- MODULE Exceptions ----
(* fc::exception (include/fc/exception/exception.hpp, src/exception.cpp): classes with a code, a log
   each frame appends to, copies that a promise keeps and every waiter throws again, and the way
   over a variant to another process. *)
EXTENDS Naturals, Sequences

CONSTANTS Registered,   \* classes of FC_REGISTER_EXCEPTIONS, ...
          Unregistered, \* ... and of FC_DECLARE_EXCEPTION alone
          Stacks,       \* those who throw and wait
          MaxLog, NoException

Declared == Registered \cup Unregistered
Foreign == {"std", "other"}
StdCode == "std_exception_code"

ASSUME ExAssumption ==
  Declared \cap (Foreign \cup {"exception", "unhandled", StdCode, "none"}) = {} /\ Registered \cap Unregistered = {}

VARIABLES flying,       \* of each stack: what is thrown there
          held,         \* _exceptp of a promise
          wire          \* an exception as a variant

exVars == <<flying, held, wire>>

\* A class and its code have one name.  Ghosts: "thrown" is the class thrown first, "path" the
\* messages of the frames since.
Exc(class, code, log) ==
  [class |-> class, code |-> code, log |-> log, inner |-> "none",
   thrown |-> class, path |-> log]

IsFc(e) == e.class \notin Foreign

ExInit == flying = [s \in Stacks |-> NoException] /\ held = NoException /\ wire = NoException
----
(* exception and its classes. *)

\* append_log().
Appended(e, m) == [e EXCEPT !.log = Append(@, m), !.path = Append(@, m)]

\* exception_factory::rethrow(): the class its code is registered for.
Built(e) == [e EXCEPT !.class = IF e.code \in Registered THEN e.code ELSE "exception"]

\* dynamic_rethrow_exception(), which throws a copy.
Rethrown(e) ==
  IF e.inner # "none" THEN [Exc(e.inner, "none", <<>>) EXCEPT !.thrown = e.inner]
  ELSE IF e.class \in Declared /\ e.code = e.class THEN e ELSE Built(e)

\* to_variant(): neither the class nor a wrapped exception.
ToWire(e) == [e EXCEPT !.class = "exception", !.inner = "none"]

\* Fault: the messages are looked for under another name than "stack".
FromWireBare(v) == [v EXCEPT !.log = <<>>]

\* from_variant().
FromWire(v) == v
----
(* Frames. *)

Fly(s, e) == flying' = [flying EXCEPT ![s] = e]

\* FC_THROW_EXCEPTION, FC_ASSERT, and what other libraries throw.
Throw(s, class) ==
  /\ flying[s] = NoException
  /\ Fly(s, IF class \in Foreign THEN Exc(class, "none", <<>>) ELSE Exc(class, class, <<"thrown">>))
  /\ UNCHANGED <<held, wire>>

\* FC_RETHROW_EXCEPTIONS, FC_CAPTURE_AND_RETHROW, FC_LOG_AND_RETHROW.
Passed(e, m) ==
  IF IsFc(e) THEN Appended(e, m)
  ELSE [Exc("exception", StdCode, <<m>>) EXCEPT
           !.class = IF e.class = "std" THEN @ ELSE "unhandled",
           !.code = IF e.class = "std" THEN @ ELSE "unhandled",
           !.inner = IF e.class = "std" THEN @ ELSE e.class, !.thrown = e.class]

Frame(s) ==
  /\ flying[s] # NoException /\ Len(flying[s].log) < MaxLog
  /\ Fly(s, Passed(flying[s], s)) /\ UNCHANGED <<held, wire>>

\* FC_CAPTURE_AND_LOG.
Swallow(s) == flying[s] # NoException /\ Fly(s, NoException) /\ UNCHANGED <<held, wire>>

\* task_base::run_impl(): dynamic_copy_exception(), or unhandled_exception.
Wrapped(e) ==
  IF IsFc(e) THEN e
  ELSE [Exc("unhandled", "unhandled", <<"thrown">>) EXCEPT !.inner = e.class, !.thrown = e.class]

FinishTask(s) ==
  /\ flying[s] # NoException /\ held = NoException
  /\ held' = Wrapped(flying[s]) /\ Fly(s, NoException) /\ UNCHANGED wire

\* promise_base::_wait(), of every waiter.
Wait(s) ==
  /\ flying[s] = NoException /\ held # NoException
  /\ Fly(s, Rethrown(held)) /\ UNCHANGED <<held, wire>>

\* Whoever held the promise lets it go.
Forget == held # NoException /\ held' = NoException /\ UNCHANGED <<flying, wire>>

\* json_connection: the error of a call, and the error that comes back.
Send(s) ==
  /\ flying[s] # NoException /\ IsFc(flying[s])
  /\ wire' = ToWire(flying[s]) /\ Fly(s, NoException) /\ UNCHANGED held
ReceiveError ==
  /\ wire # NoException /\ held = NoException
  /\ held' = FromWire(wire) /\ wire' = NoException /\ UNCHANGED flying

ExNext ==
  \/ Forget \/ ReceiveError
  \/ \E s \in Stacks : \/ Swallow(s) \/ FinishTask(s) \/ Wait(s) \/ Send(s) \/ Frame(s)
                       \/ \E class \in Declared \cup Foreign : Throw(s, class)

ExSpec == ExInit /\ [][ExNext]_exVars
----
(* Properties. *)

\* A handler of a registered class catches it wherever it arrives, over promises and over the wire.
ClassIsRestored ==
  \A s \in Stacks : flying[s] # NoException =>
      /\ flying[s].thrown \in Registered => flying[s].class = flying[s].thrown
      /\ flying[s].class \in Registered => flying[s].thrown = flying[s].class

\* The log of an exception tells the frames it passed, those of no other waiter, and
\* in their order.
HistoryIsKept == \A s \in Stacks : flying[s] # NoException => flying[s].log = flying[s].path

\* What comes from other libraries is thrown as it was or says what it was by its code, and has no
\* class of its own.
ForeignIsMarked ==
  \A s \in Stacks : flying[s] # NoException /\ flying[s].thrown \in Foreign =>
      \/ flying[s].class = flying[s].thrown /\ flying[s].log = <<>>
      \/ flying[s].code \in {StdCode, "unhandled"} /\ flying[s].log # <<>>

\* An exception arrives as what it was thrown as, with its history.
ExceptionsArrive == ClassIsRestored /\ HistoryIsKept /\ ForeignIsMarked
====
