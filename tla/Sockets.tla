---- MODULE Sockets ----
(* Sockets of fibers (src/asio.cpp, include/fc/asio.hpp, src/network/tcp_socket.cpp,
   tcp_ssl_socket.cpp, udp_socket.cpp): a fiber starts an operation and waits for its promise;
   threads of asio perform it on the buffer of the fiber and run the handler that settles the
   promise. A buffer is shared with the handler, or lives as long as the fiber waits: which ends
   early when the fiber is cancelled. The acceptor of a tcp_server is opened again for another
   family. *)
EXTENDS FiniteSets

CONSTANTS Requests,
          Reads,        \* those that read; the others write
          SharedBuffers, \* those whose buffer is shared with the handler
          NoRequest

ASSUME SocketsAssumption ==
  Reads \subseteq Requests /\ SharedBuffers \subseteq Requests /\ NoRequest \notin Requests

VARIABLES sock,         \* open, closed, closing while ~impl waits, gone
          oper,         \* of each request: what asio does with it
          promised,     \* requests whose promise is ready
          fiber,        \* of each request: the fiber that waits
          inProgress,   \* _read_in_progress, _write_in_progress
          late,         \* ghost: requests whose buffer was used after the fiber had left
          acceptor,     \* of a tcp_server: its options
          reuseAddress  \* _reuse_address

skVars == <<sock, oper, promised, fiber, inProgress, late, acceptor, reuseAddress>>

KindOf(r) == IF r \in Reads THEN "read" ELSE "write"
Plain == [family |-> "v4", reuse |-> FALSE, listening |-> FALSE]

SkInit ==
  /\ sock = "closed" /\ oper = [r \in Requests |-> "unused"] /\ promised = {}
  /\ fiber = [r \in Requests |-> "none"] /\ inProgress = [k \in {"read", "write"} |-> NoRequest]
  /\ late = {} /\ acceptor = [Plain EXCEPT !.family = "none"] /\ reuseAddress = FALSE

serverVars == <<acceptor, reuseAddress>>
waitVars == <<inProgress, promised, late>>

\* asio ends what is pending with an error when the socket is closed.
Aborted == [r \in Requests |-> IF oper[r] = "pending" THEN "aborted" ELSE oper[r]]
----
\* open(), connect_to(), bind().
Open == sock = "closed" /\ sock' = "open" /\ UNCHANGED <<waitVars, oper, fiber, serverVars>>

\* readsome(), writesome(), receive_from(), send_to(): the last one of its kind is
\* remembered.
Start(r) ==
  /\ sock \in {"open", "closed"} /\ oper[r] = "unused"
  /\ oper' = [oper EXCEPT ![r] = IF sock = "open" THEN "pending" ELSE "aborted"]
  /\ fiber' = [fiber EXCEPT ![r] = "waiting"] /\ inProgress' = [inProgress EXCEPT ![KindOf(r)] = r]
  /\ UNCHANGED <<sock, promised, late, serverVars>>

\* Fault: the handler of a shared buffer is made without the buffer.
KeptByFiber(r) == FALSE

\* read_write_handler_with_buffer: the buffer lives as long as the handler.
KeptByHandler(r) == r \in SharedBuffers

\* A fiber goes when it is told, or is unwound because it was cancelled.
Away == {"left", "unwound"}

\* The reactor copies to or from the buffer.
Perform(r) ==
  /\ oper[r] = "pending" /\ oper' = [oper EXCEPT ![r] = "done"]
  /\ late' = IF ~KeptByHandler(r) /\ fiber[r] \in Away THEN late \cup {r} ELSE late
  /\ UNCHANGED <<sock, promised, fiber, inProgress, serverVars>>

\* read_write_handler, error_handler: a value or an exception, in any case one.
Handle(r) ==
  /\ oper[r] \in {"done", "aborted"} /\ oper' = [oper EXCEPT ![r] = "handled"]
  /\ promised' = promised \cup {r} /\ UNCHANGED <<sock, fiber, inProgress, late, serverVars>>

\* The fiber goes on, with what it waited for or because it was canceled.
Leave(r) ==
  /\ \/ fiber[r] = "waiting" /\ r \in promised /\ fiber' = [fiber EXCEPT ![r] = "left"]
     \/ fiber[r] = "canceled" /\ fiber' = [fiber EXCEPT ![r] = "unwound"]
  /\ UNCHANGED <<waitVars, sock, oper, serverVars>>

\* The fiber of any request may be cancelled: asio is not told of it.
CancelWaiter(r) ==
  /\ fiber[r] = "waiting" /\ fiber' = [fiber EXCEPT ![r] = "canceled"]
  /\ UNCHANGED <<waitVars, sock, oper, serverVars>>

\* close().
CloseSocket ==
  /\ sock = "open" /\ sock' = "closed" /\ oper' = Aborted
  /\ UNCHANGED <<waitVars, fiber, serverVars>>

Current == {inProgress[k] : k \in {"read", "write"}} \ {NoRequest}

\* ~impl() when nobody uses the socket any more: it is closed, ...
CloseAtLast ==
  /\ sock \in {"open", "closed"} /\ \A r \in Requests : fiber[r] \in {"none"} \cup Away
  /\ sock' = "closing" /\ oper' = Aborted /\ UNCHANGED <<waitVars, fiber, serverVars>>

\* ... and what is in progress waited for.
SocketGone ==
  /\ sock = "closing" /\ Current \subseteq promised
  /\ sock' = "gone" /\ UNCHANGED <<waitVars, oper, fiber, serverVars>>
----
\* tcp_server: impl is made by the first call of any of these.
SetReuse(enable) ==
  /\ acceptor' = [acceptor EXCEPT !.reuse = enable, !.family = IF @ = "none" THEN "v4" ELSE @]
  /\ reuseAddress' = enable /\ UNCHANGED <<waitVars, sock, oper, fiber>>

\* reopen_for_endpoint() of IPv6: a new acceptor with reuse_address as it was asked for.
Reopened == [Plain EXCEPT !.family = "v6", !.reuse = reuseAddress]

\* listen(); bind() may fail after the acceptor was opened again.
Listen(family, bound) ==
  /\ LET made == IF acceptor.family = "none" THEN Plain ELSE acceptor
         opened == IF family = "v6" THEN Reopened ELSE made
     IN acceptor' = [opened EXCEPT !.listening = @ \/ bound]
  /\ UNCHANGED <<waitVars, reuseAddress, sock, oper, fiber>>

\* tcp_server::close().
CloseServer ==
  /\ acceptor' = [Plain EXCEPT !.family = "none"] /\ reuseAddress' = FALSE
  /\ UNCHANGED <<waitVars, sock, oper, fiber>>

SkNext ==
  \/ Open \/ CloseSocket \/ CloseAtLast \/ SocketGone \/ CloseServer
  \/ \E r \in Requests : \/ Start(r) \/ Perform(r) \/ Handle(r) \/ Leave(r)
                         \/ CancelWaiter(r)
  \/ \E on \in BOOLEAN : SetReuse(on) \/ \E family \in {"v4", "v6"} : Listen(family, on)

SkSpec == SkInit /\ [][SkNext]_skVars
----
(* Properties. *)

\* No operation uses a buffer that is gone, but for one case, which the code leaves to its callers:
\* the fiber was cancelled in its wait and the buffer was its own. Who is told and goes, and whoever
\* shares the buffer with the handler, has nothing to fear.
BufferIsAlive == \A r \in late : r \notin SharedBuffers /\ fiber[r] = "unwound"

\* A fiber that waits will be told: asio works at its request, or has settled its
\* promise; a socket that is closed keeps nobody waiting.
WaiterIsServed ==
  \A r \in Requests : fiber[r] = "waiting" =>
      r \in promised \/ oper[r] \in {"done", "aborted"} \/ (oper[r] = "pending" /\ sock = "open")

\* When the destructor is through, no handler of what it had in progress will run.
DestructorWaits == sock = "gone" => \A r \in Current : oper[r] = "handled"

\* A server that listens reuses its address if that was the last wish, whatever
\* family it listens to.
ReuseIsKept == acceptor.reuse = reuseAddress

\* Whatever is cancelled or closed, shared buffers live as long as they are used, the others as long
\* as their fibers are not cancelled, and waits end.
SocketsServe == BufferIsAlive /\ WaiterIsServed /\ DestructorWaits /\ ReuseIsKept
====
