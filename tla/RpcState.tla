---- MODULE RpcState ----
(* fc::rpc::state (src/rpc/state.cpp) under websocket_api_connection (src/rpc/websocket_api.cpp): a
   call registers a promise under a number, sends the request, looks its promise up again and waits;
   a fiber of its own handles each message, in order; a reply settles the promise of its number and
   forgets it; ~state() fails what is left. The close of the socket fails nothing. OneThread is how
   the class has to be used: callers and handlers are fibers of one thread, so that nothing comes
   between sending a request and waiting. *)
EXTENDS Integers, Sequences, FiniteSets

CONSTANTS RpcCallers, NoCaller, MaxMessages, OneThread

ASSUME RsAssumption == /\ IsFiniteSet(RpcCallers) /\ NoCaller \notin RpcCallers
                       /\ MaxMessages \in Nat /\ OneThread \in BOOLEAN

VARIABLES nextRequest,   \* _next_id, from 1
          pending,       \* the keys of _awaiting
          promise,       \* every promise ever made, by request number
          rid, rpc, rgot,   \* a caller's number, place, and result
          net,           \* messages of the peer that no fiber has handled yet
          peerSent,      \* how many it has sent
          running,       \* local methods that have begun and not ended
          socket,        \* the connection sends
          stateGone      \* ~state() has run

rsVars == <<nextRequest, pending, promise, rid, rpc, rgot, net, peerSent, running, socket,
            stateGone>>

RpcAnswer(k, c) == [kind |-> k, of |-> c]
NoAnswer == RpcAnswer("nothing", NoCaller)
NotSent == RpcAnswer("unsent", NoCaller)
Lost == RpcAnswer("lost", NoCaller)
RpcClosed == RpcAnswer("closed", NoCaller)
RpcAnswers == {RpcAnswer(k, c) : k \in {"value", "error", "null"}, c \in RpcCallers}
              \cup {RpcClosed}

\* What the fibers of the thread may do while a caller is between two
\* statements of send_call(): nothing.
Between == {c \in RpcCallers : rpc[c] \in {"send", "look"}}
\* Fault: the fibers of other threads run in between.
OthersAlwaysRun(c) == TRUE

OthersRun(c) == OneThread => Between \subseteq {c}

RsInit == /\ nextRequest = 1 /\ pending = {} /\ promise = <<>> /\ rid = [c \in RpcCallers |-> 0]
          /\ rpc = [c \in RpcCallers |-> "idle"] /\ rgot = [c \in RpcCallers |-> NoAnswer]
          /\ net = <<>> /\ peerSent = 0 /\ running = 0 /\ socket = TRUE /\ stateGone = FALSE

\* start_remote_call().
Start(c) == /\ rpc[c] = "idle" /\ OthersRun(c) /\ ~stateGone
            /\ rid' = [rid EXCEPT ![c] = nextRequest] /\ nextRequest' = nextRequest + 1
            /\ pending' = pending \cup {nextRequest} /\ promise' = Append(promise, NoAnswer)
            /\ rpc' = [rpc EXCEPT ![c] = "send"]
            /\ UNCHANGED <<rgot, net, peerSent, running, socket, stateGone>>

\* send_message(): the assertion on its result leaves the entry behind.
SendRequest(c) ==
  /\ rpc[c] = "send" /\ OthersRun(c)
  /\ IF socket THEN rpc' = [rpc EXCEPT ![c] = "look"] /\ UNCHANGED rgot
     ELSE /\ rpc' = [rpc EXCEPT ![c] = "done"]
          /\ rgot' = [rgot EXCEPT ![c] = NotSent]
  /\ UNCHANGED <<nextRequest, pending, promise, rid, net, peerSent, running, socket, stateGone>>

\* wait_for_response() asserts that the request is still in _awaiting.
Look(c) ==
  /\ rpc[c] = "look" /\ OthersRun(c)
  /\ IF rid[c] \in pending THEN rpc' = [rpc EXCEPT ![c] = "wait"] /\ UNCHANGED rgot
     ELSE /\ rpc' = [rpc EXCEPT ![c] = "done"]
          /\ rgot' = [rgot EXCEPT ![c] = Lost]
  /\ UNCHANGED <<nextRequest, pending, promise, rid, net, peerSent, running, socket, stateGone>>

Resumed(c) == /\ rpc[c] = "wait" /\ promise[rid[c]] # NoAnswer /\ OthersRun(c)
             /\ rgot' = [rgot EXCEPT ![c] = promise[rid[c]]] /\ rpc' = [rpc EXCEPT ![c] = "done"]
             /\ UNCHANGED <<nextRequest, pending, promise, rid, net, peerSent, running, socket,
                            stateGone>>

Take(types) == /\ net # <<>> /\ net[1].type \in types /\ OthersRun(NoCaller) /\ ~stateGone
               /\ net' = SubSeq(net, 2, Len(net))

\* handle_reply(): an unknown number is an assertion that on_message() turns
\* into a string nobody sends; neither result nor error is a null result.
HandleResponse ==
  /\ Take({"value", "error", "null"})
  /\ LET m == net[1] IN
     IF m.id \in pending
     THEN /\ promise' = [promise EXCEPT ![m.id] = RpcAnswer(m.type, m.of)]
          /\ pending' = pending \ {m.id}
     ELSE UNCHANGED <<promise, pending>>
  /\ UNCHANGED <<nextRequest, rid, rpc, rgot, peerSent, running, socket, stateGone>>

\* on_message() of a request: local_call() may be suspended, and then sends the
\* result, or an error when the method throws, if the request had an id and the
\* socket lets it.
ReceiveCall == /\ Take({"method"}) /\ running' = running + 1
               /\ UNCHANGED <<nextRequest, pending, promise, rid, rpc, rgot, peerSent, socket,
                              stateGone>>

FinishCall == /\ running > 0 /\ OthersRun(NoCaller) /\ ~stateGone /\ running' = running - 1
              /\ UNCHANGED <<nextRequest, pending, promise, rid, rpc, rgot, net, peerSent,
                             socket, stateGone>>

\* What is no JSON object is an exception caught in on_message().
Garbage == /\ Take({"garbage"})
           /\ UNCHANGED <<nextRequest, pending, promise, rid, rpc, rgot, peerSent, running,
                          socket, stateGone>>

\* ~state(): close().
DestroyState == /\ ~stateGone /\ Between = {} /\ stateGone' = TRUE
                /\ promise' = [i \in DOMAIN promise |->
                                 IF i \in pending THEN RpcClosed ELSE promise[i]]
                /\ pending' = {}
                /\ UNCHANGED <<nextRequest, rid, rpc, rgot, net, peerSent, running, socket>>
----
(* The peer answers requests it got, in any order and more than once. *)

Asked == {c \in RpcCallers : rid[c] # 0 /\ rpc[c] # "send" /\ rgot[c] # NotSent}

PeerReplies == /\ peerSent < MaxMessages /\ socket
             /\ \E m \in {[type |-> t, id |-> rid[c], of |-> c] :
                            t \in {"value", "error", "null"}, c \in Asked}
                         \cup {[type |-> t, id |-> 0, of |-> NoCaller] :
                                  t \in {"method", "garbage"}} :
                   net' = Append(net, m)
             /\ peerSent' = peerSent + 1
             /\ UNCHANGED <<nextRequest, pending, promise, rid, rpc, rgot, running, socket,
                            stateGone>>

\* The closed signal only forwards to the api connection's own.
SocketCloses == /\ socket /\ socket' = FALSE
                /\ UNCHANGED <<nextRequest, pending, promise, rid, rpc, rgot, net, peerSent,
                               running, stateGone>>
----
HandleOne == HandleResponse \/ ReceiveCall \/ Garbage
CallStep(c) == SendRequest(c) \/ Look(c) \/ Resumed(c)

RsNext == \/ \E c \in RpcCallers : Start(c) \/ CallStep(c)
          \/ HandleOne \/ FinishCall \/ DestroyState \/ PeerReplies \/ SocketCloses

RsSpec == RsInit /\ [][RsNext]_rsVars

\* The thread runs its ready fibers.
RsFair == WF_rsVars(HandleOne) /\ \A c \in RpcCallers : WF_rsVars(CallStep(c))
----
(* Properties. *)

\* The domain of every variable of rpc::state, its callers and the socket.
RsTypeOK ==
  /\ Len(promise) = nextRequest - 1 /\ nextRequest <= Cardinality(RpcCallers) + 1
  /\ pending \subseteq DOMAIN promise
  /\ \A i \in DOMAIN promise : promise[i] \in RpcAnswers \cup {NoAnswer}
  /\ rid \in [RpcCallers -> 0..nextRequest - 1]
  /\ rpc \in [RpcCallers -> {"idle", "send", "look", "wait", "done"}]
  /\ rgot \in [RpcCallers -> RpcAnswers \cup {NoAnswer, NotSent, Lost}]
  /\ peerSent \in 0..MaxMessages /\ Len(net) <= peerSent /\ running \in 0..MaxMessages
  /\ socket \in BOOLEAN /\ stateGone \in BOOLEAN

\* The answer a call of rpc::state returns is the one to its own request.
RpcOwnAnswer ==
  \A c \in RpcCallers : rgot[c].kind \in {"value", "error", "null"} => rgot[c].of = c

\* A number is in _awaiting exactly as long as its promise is not settled, so
\* that handle_reply() and close() settle each promise once.
AwaitedIsUnsettled == \A i \in DOMAIN promise : i \in pending <=> promise[i] = NoAnswer

\* A call whose answer has arrived returns, and so does every call when the
\* state is destroyed, whatever local methods are suspended meanwhile.
AnsweredCallReturns ==
  \A c \in RpcCallers :
      (rpc[c] = "wait" /\ (stateGone \/ \E i \in DOMAIN net : net[i].id = rid[c]))
          ~> rpc[c] = "done"

RpcOpen == {c \in RpcCallers : rpc[c] \notin {"idle", "done"}}

RpcCalls == INSTANCE Calls WITH
    Final <- TRUE,
    Callers <- RpcCallers, Answers <- RpcAnswers, Nothing <- NoAnswer, Unsent <- NotSent,
    open <- RpcOpen,
    answer <- [c \in RpcCallers |-> IF c \in RpcOpen THEN promise[rid[c]] ELSE NoAnswer],
    returned <- rgot

\* A call of rpc::state, used from one thread, returns the first answer to it:
\* a second reply, the close or an unknown number changes nothing.
RpcImplementsCalls == RpcCalls!Spec
====
