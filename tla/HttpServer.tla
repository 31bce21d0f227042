---- MODULE HttpServer ----
(* http_server.cpp and http_connection.cpp: a server accepts connections in one fiber, answers each
   in a fiber of its own, and ends them all when it is destroyed; clients send one request after
   another on a connection, and any step of theirs may be canceled. A message is its head, which
   tells how much follows, and the bytes of its body. *)
EXTENDS Integers, Sequences, SequencesExt, FiniteSets

CONSTANTS
    Clients,
    Lengths,        \* the lengths of bodies that handlers set
    Pieces,         \* how many bytes a handler writes at a time
    Careless,       \* bound: the tasks whose handlers write too much, or twice nothing
    MaxBody,        \* bound: how many bytes of a body are sent
    MaxRequests,    \* bound: how many requests are made
    MaxConnections  \* bound: how many connections are made

ASSUME HttpAssumption == Lengths \subseteq Nat /\ Pieces \subseteq Nat /\ MaxBody \in Nat /\ MaxRequests \in Nat /\ MaxConnections \in Nat

VARIABLES
    conns,      \* the connections: what each side has to read, and which sides are open
    client,     \* per client: what it does, its connection (0: none, -1: a socket that
                \* is open but did not connect), its request and what it read
    requests,   \* how many requests were made
    replies,    \* what the last request returned, if one did
    listening,
    acceptor,   \* accept_loop(): [at, conn]
    tasks,      \* the fibers of handle_connection()
    inProgress, \* requests_in_progress: numbers of tasks
    destroyer   \* ~impl(): "none", "waiting" for the loop, "canceling", "ended"

htVars == <<conns, client, requests, replies, listening, acceptor, tasks, inProgress, destroyer>>

NewConnection == [toServer |-> <<>>, toClient |-> <<>>, clientOpen |-> TRUE, serverOpen |-> TRUE, waits |-> TRUE]
Resting == [at |-> "idle", conn |-> 0, req |-> 0, want |-> 0, body |-> <<>>, from |-> 0]
\* told: the length that the head told, -1 before it; inOrder: the next byte is where it belongs.
NewTask(k) == [conn |-> k, at |-> "queued", req |-> 0, length |-> 0, sent |-> 0, told |-> -1, inOrder |-> TRUE]

\* The domain of every variable.  A client's _sock is open; the server counts tasks it has begun.
HtTypeOK ==
  /\ \A c \in Clients :
        /\ client[c].at \in {"idle", "sending", "posting", "waiting", "reading"}
        /\ client[c].conn \in -1..Len(conns)
        /\ client[c].conn > 0 => conns[client[c].conn].clientOpen
  /\ acceptor.conn \in 0..Len(conns) /\ acceptor.at \in {"accepting", "accepted", "ended"}
  /\ inProgress \subseteq DOMAIN tasks
  /\ \A k \in DOMAIN tasks : tasks[k].at \in {"queued", "reading", "body", "handling", "done"}
  /\ destroyer \in {"none", "waiting", "canceling", "ended"}

HtInit ==
  /\ conns = <<>> /\ client = [c \in Clients |-> Resting] /\ requests = 0 /\ replies = {}
  /\ listening = TRUE /\ acceptor = [at |-> "accepting", conn |-> 0]
  /\ tasks = <<>> /\ inProgress = {} /\ destroyer = "none"

clientVars == <<client, requests, replies>>
serverVars == <<listening, acceptor, tasks, inProgress, destroyer>>
----
(* The client: connection::connect_to(), request() and parse_reply(). *)

\* A connection that is dropped by the client.
Dropped(C, k) == IF k > 0 THEN [C EXCEPT ![k].clientOpen = FALSE, ![k].toClient = <<>>] ELSE C

\* connect_to(), by its user or by request() when the socket is not open.
Connect(c) ==
  LET old == Dropped(conns, client[c].conn)
  IN  /\ client[c].at = "idle" /\ Len(conns) < MaxConnections
      /\ conns' = IF listening THEN Append(old, NewConnection) ELSE old
      /\ client' = [client EXCEPT ![c] = [Resting EXCEPT !.conn = IF listening THEN Len(conns) + 1 ELSE -1]]
      /\ UNCHANGED <<requests, replies>> /\ UNCHANGED serverVars

\* The head of the request, and whether a body follows.  A write to a connection that
\* the server closed may succeed.  Without a connection it fails, and the socket is
\* closed, so that the next request connects.
SendHead(c, posts) ==
  /\ client[c].at = "idle" /\ client[c].conn # 0 /\ requests < MaxRequests
  /\ requests' = requests + 1
  /\ IF client[c].conn = -1
     THEN client' = [client EXCEPT ![c] = Resting] /\ UNCHANGED conns
     ELSE /\ conns' = [conns EXCEPT ![client[c].conn].toServer = Append(@, [head |-> TRUE, req |-> requests + 1, posts |-> posts])]
          /\ client' = [client EXCEPT ![c].req = requests + 1, ![c].at = IF posts THEN "posting" ELSE "waiting"]
  /\ UNCHANGED replies /\ UNCHANGED serverVars

SendBody(c) ==
  /\ client[c].at = "posting"
  /\ conns' = [conns EXCEPT ![client[c].conn].toServer = Append(@, [head |-> FALSE, req |-> client[c].req, posts |-> FALSE])]
  /\ client' = [client EXCEPT ![c].at = "waiting"]
  /\ UNCHANGED <<requests, replies>> /\ UNCHANGED serverVars

\* wait_for_response = false: the connection is closed.
DoNotWait(c) ==
  /\ client[c].at = "waiting"
  /\ conns' = Dropped(conns, client[c].conn) /\ client' = [client EXCEPT ![c] = Resting]
  /\ UNCHANGED <<requests, replies>> /\ UNCHANGED serverVars

\* Fault: the socket stays open after a failure.
FailKeeps(c) ==
  /\ replies' = {[asked |-> client[c].req, ok |-> FALSE, from |-> 0, body |-> <<>>]}
  /\ client' = [client EXCEPT ![c] = [Resting EXCEPT !.conn = client[c].conn]] /\ UNCHANGED conns

\* A failure or a cancellation: the socket is closed, and the reply is an internal error, or an
\* exception is thrown.
Fail(c) ==
  /\ replies' = {[asked |-> client[c].req, ok |-> FALSE, from |-> 0, body |-> <<>>]}
  /\ conns' = Dropped(conns, client[c].conn) /\ client' = [client EXCEPT ![c] = Resting]

\* What is next to be read, the last step of parse_reply() included. Where bytes of the body
\* are expected, a head is taken for one.
Received(c, m) ==
  LET now == IF client[c].at = "waiting" THEN [client[c] EXCEPT !.from = m.req, !.want = m.length]
             ELSE [client[c] EXCEPT !.body = Append(@, m.byte)]
  IN  IF Len(now.body) = now.want
      THEN /\ replies' = {[asked |-> now.req, ok |-> TRUE, from |-> now.from, body |-> now.body]}
           /\ client' = [client EXCEPT ![c] = [Resting EXCEPT !.conn = now.conn]]
      ELSE client' = [client EXCEPT ![c] = [now EXCEPT !.at = "reading"]] /\ UNCHANGED replies

\* Bytes where a head should be are no status: the reply is not parsed.
ReadReply(c) ==
  LET k == client[c].conn
      m == conns[k].toClient[1]
  IN  /\ client[c].at \in {"waiting", "reading"}
      /\ IF conns[k].toClient # <<>>
         THEN IF client[c].at = "waiting" => m.head
              THEN Received(c, m) /\ conns' = [conns EXCEPT ![k].toClient = Tail(@)]
              ELSE Fail(c)
         ELSE ~conns[k].serverOpen /\ Fail(c)
      /\ UNCHANGED requests /\ UNCHANGED serverVars

\* The fiber is canceled, or a write finds the connection closed.
Interrupt(c) ==
  /\ client[c].at # "idle" /\ Fail(c) /\ UNCHANGED requests /\ UNCHANGED serverVars
----
(* The server: accept_loop() and handle_connection(). *)

\* What the kernel does: a waiting connection is given to the loop.
Arrive ==
  \E k \in DOMAIN conns :
      /\ acceptor.at = "accepting" /\ listening /\ conns[k].waits
      /\ \A j \in 1..k - 1 : ~conns[j].waits
      /\ conns' = [conns EXCEPT ![k].waits = FALSE] /\ acceptor' = [at |-> "accepted", conn |-> k]
      /\ UNCHANGED clientVars /\ UNCHANGED <<listening, tasks, inProgress, destroyer>>

\* The finished fibers are forgotten, and there is one more.
StartTask ==
  /\ acceptor.at = "accepted" /\ tasks' = Append(tasks, NewTask(acceptor.conn))
  /\ inProgress' = {k \in inProgress : tasks[k].at # "done"} \union {Len(tasks) + 1}
  /\ acceptor' = [at |-> "accepting", conn |-> 0]
  /\ UNCHANGED <<conns, listening, destroyer>> /\ UNCHANGED clientVars

\* accept() throws: the loop is over, and nobody is told.
AcceptFails ==
  /\ acceptor.at = "accepting" /\ acceptor' = [acceptor EXCEPT !.at = "ended"]
  /\ UNCHANGED <<conns, listening, tasks, inProgress, destroyer>> /\ UNCHANGED clientVars

TaskStep(k, new, C) ==
  /\ tasks' = [tasks EXCEPT ![k] = new] /\ conns' = C
  /\ UNCHANGED <<listening, acceptor, inProgress, destroyer>> /\ UNCHANGED clientVars

BeginTask(k) == tasks[k].at = "queued" /\ TaskStep(k, [tasks[k] EXCEPT !.at = "reading"], conns)

\* The connection of a task that ends is closed, whatever ended it, and its response is gone.
EndTask(k) == TaskStep(k, [tasks[k] EXCEPT !.at = "done", !.length = 0], [conns EXCEPT ![tasks[k].conn].serverOpen = FALSE])

\* read_request(): the head, and the body that it tells of.
ReadRequest(k) ==
  LET t == tasks[k]
      in == conns[t.conn].toServer
      rest == [conns EXCEPT ![t.conn].toServer = Tail(@)]
  IN  /\ t.at \in {"reading", "body"}
      /\ IF in # <<>>
         THEN IF t.at = "reading" /\ in[1].head
              THEN TaskStep(k, [t EXCEPT !.req = in[1].req, !.at = IF in[1].posts THEN "body" ELSE "handling"], rest)
              ELSE TaskStep(k, [t EXCEPT !.at = "handling"], rest)
         ELSE ~conns[t.conn].clientOpen /\ EndTask(k)

\* response::set_length(), at any time. Bound: once before the head is sent and once after.
SetLength(k, n) ==
  /\ tasks[k].at = "handling" /\ tasks[k].length = (IF tasks[k].told = -1 THEN 0 ELSE tasks[k].told)
  /\ n # tasks[k].length /\ TaskStep(k, [tasks[k] EXCEPT !.length = n], conns)

\* response::write(): before the first bytes, the head. Of what is too much the excess is sent
\* and not what there is room for, and that may reach behind the data; the head is sent again
\* where no byte followed it. A byte that is not the next one of the body has number 0. What is
\* written when the client has left is lost. Bound: once a head too many.
Write(k, n) ==
  LET t == tasks[k]
      len == IF t.sent + n > t.length THEN t.sent + n - t.length ELSE n
      again == t.sent = 0 /\ t.told # -1
      inOrder == t.inOrder /\ len = n /\ ~again
      head == IF t.sent = 0 THEN <<[head |-> TRUE, req |-> t.req, length |-> t.length, byte |-> 0]>> ELSE <<>>
      bytes == [i \in 1..len |-> [head |-> FALSE, req |-> t.req, length |-> 0,
                                  byte |-> IF t.inOrder /\ i <= n THEN t.sent + i ELSE 0]]
  IN  /\ t.at = "handling" /\ t.sent + len <= MaxBody
      /\ ~inOrder => k \in Careless /\ ~(again /\ ~t.inOrder)
      /\ TaskStep(k, [t EXCEPT !.sent = t.sent + len, !.told = IF t.sent = 0 THEN t.length ELSE @, !.inOrder = inOrder],
                  [conns EXCEPT ![t.conn].toClient = IF conns[t.conn].clientOpen THEN @ \o head \o bytes ELSE @])

\* The handler returns or throws; whether it wrote all it should is its own affair.
HandlerReturns(k) == tasks[k].at = "handling" /\ EndTask(k)

TaskRuns(k) == BeginTask(k) \/ ReadRequest(k) \/ HandlerReturns(k)
----
(* ~impl() *)

\* The acceptor is closed: whoever waits for it is refused.
DestroyServer ==
  /\ destroyer = "none" /\ destroyer' = "waiting" /\ listening' = FALSE
  /\ conns' = [k \in DOMAIN conns |-> IF conns[k].waits THEN [conns[k] EXCEPT !.serverOpen = FALSE, !.waits = FALSE]
                                      ELSE conns[k]]
  /\ UNCHANGED <<acceptor, tasks, inProgress>> /\ UNCHANGED clientVars

LoopIsOver ==
  /\ destroyer = "waiting" /\ acceptor.at = "ended" /\ destroyer' = "canceling"
  /\ UNCHANGED <<conns, listening, acceptor, tasks, inProgress>> /\ UNCHANGED clientVars

\* cancel_and_wait() of the next request: it ends where it waits.
CancelNext ==
  LET first == CHOOSE k \in inProgress : \A j \in inProgress : k <= j
  IN  /\ destroyer = "canceling" /\ inProgress # {}
      /\ tasks' = [tasks EXCEPT ![first].at = "done", ![first].length = 0]
      /\ conns' = [conns EXCEPT ![tasks[first].conn].serverOpen = FALSE]
      /\ inProgress' = inProgress \ {first}
      /\ UNCHANGED <<listening, acceptor, destroyer>> /\ UNCHANGED clientVars

AllCanceled ==
  /\ destroyer = "canceling" /\ inProgress = {} /\ destroyer' = "ended"
  /\ UNCHANGED <<conns, listening, acceptor, tasks, inProgress>> /\ UNCHANGED clientVars

DestroyStep == LoopIsOver \/ CancelNext \/ AllCanceled
----
ClientStep(c) == SendBody(c) \/ ReadReply(c)

HtNext ==
  \/ \E c \in Clients : Connect(c) \/ SendHead(c, TRUE) \/ SendHead(c, FALSE) \/ ClientStep(c) \/ DoNotWait(c) \/ Interrupt(c)
  \/ Arrive \/ StartTask \/ AcceptFails
  \/ \E k \in DOMAIN tasks : TaskRuns(k) \/ (\E n \in Lengths : SetLength(k, n)) \/ (\E n \in Pieces : Write(k, n))
  \/ DestroyServer \/ DestroyStep

HtSpec == HtInit /\ [][HtNext]_htVars
----
(* Properties. *)

\* A reply that a request returns is the reply to it, and its body is what its handler wrote, also
\* after an earlier request on the connection failed, was canceled or was closed by the server,
\* and whatever lengths handlers set, and when. The handler that wrote its head is not Careless:
\* one that writes more than it said, or twice nothing before the first byte.
ReplyIsOwn ==
  \A r \in replies :
      r.ok /\ (\A k \in DOMAIN tasks : tasks[k].req = r.from => tasks[k].inOrder) =>
          r.from = r.asked /\ r.body = [i \in DOMAIN r.body |-> i]

\* When the server is gone nothing of it runs, and no client waits for it.
EndedIsQuiet ==
  destroyer = "ended" =>
      /\ acceptor.at = "ended"
      /\ \A k \in DOMAIN tasks : tasks[k].at = "done"
      /\ \A k \in DOMAIN conns : ~conns[k].serverOpen

\* A request returns, if the loop that accepts goes on or the server is destroyed.
RequestReturns ==
  \A c \in Clients : client[c].at # "idle" ~> (client[c].at = "idle" \/ (acceptor.at = "ended" /\ listening))

\* The destructor returns, whatever the clients do.
DestructorReturns == destroyer = "waiting" ~> destroyer = "ended"

\* A request gets its own reply, and a server that is gone does nothing more.
RepliesAreOwn == HtTypeOK /\ ReplyIsOwn /\ EndedIsQuiet
====
