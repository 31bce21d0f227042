---- MODULE Websocket ----
(* websocket_server_base (src/network/http/websocket.cpp): handlers that
   websocketpp calls on the asio threads, one at a time for a connection,
   post their work to the thread of the server and wait for it; the
   destructor, a fiber of that thread, waits for the requests in progress,
   closes the connections there are and waits until the last has gone.  It
   is noexcept: an exception of it ends the process. *)
EXTENDS Integers, Sequences, FiniteSets

CONSTANTS Peers,        \* connections that may be made
          AsioThreads,  \* threads of default_io_context(): 8
          Backlog,      \* messages posted and not begun before a handler waits: 100
          MaxMessages   \* bounds what a peer sends

ASSUME WsAssumption == AsioThreads \in Nat \ {0} /\ Backlog \in Nat /\ MaxMessages \in Nat

VARIABLES life,         \* of each connection: away, shaking, open, closing, ended
          handler,      \* the handler of each connection that waits on an asio thread
          sent,         \* messages of each connection that were handled
          tasks,        \* the queue of _server_thread
          requests,     \* requests_in_progress that are not ready: <<connection, message>>
          awaited,      \* those the destructor found
          throttled,    \* connections whose message task waits for its delivery
          connections,  \* _connections
          pending,      \* _pending_messages
          closed,       \* _closed: none, pending, set
          missed,       \* ghost: connections that were being made when it closed all it found
          signals,      \* how often closed() was emitted for each connection
          late,         \* whether on_message() followed closed()
          end           \* the destructor: alive, stopped, waiting, gone, terminated

wsVars == <<life, handler, sent, tasks, requests, awaited, throttled, connections, pending, closed,
            missed, signals, late, end>>
peerVars == <<life, handler, sent, requests>>
destroyVars == <<awaited, missed, end>>
recordVars == <<throttled, closed, pending, connections, signals>>

WsInit == /\ life = [c \in Peers |-> "away"] /\ handler = [c \in Peers |-> "none"]
          /\ sent = [c \in Peers |-> 0] /\ tasks = <<>> /\ throttled = {}
          /\ connections = {} /\ pending = 0 /\ closed = "none" /\ missed = {}
          /\ requests = {} /\ awaited = {}
          /\ signals = [c \in Peers |-> 0] /\ late = FALSE /\ end = "alive"

Task(kind, c) == [kind |-> kind, conn |-> c]
Running == {c \in Peers : handler[c] # "none"}
----
(* The asio threads. *)

\* A peer connects while the server listens.
WsAccept(c) ==
  /\ end = "alive" /\ life[c] = "away" /\ life' = [life EXCEPT ![c] = "shaking"]
  /\ UNCHANGED <<recordVars, destroyVars, handler, sent, requests, tasks, late>>

\* A handler begins: it posts its task and waits for it.
Calls(c, kind) ==
  /\ Cardinality(Running) < AsioThreads /\ handler[c] = "none"
  /\ tasks' = Append(tasks, Task(kind, c)) /\ handler' = [handler EXCEPT ![c] = kind]

\* The handshake ends: a websocket, a request by HTTP, or a failure, which
\* posts nothing once the server has stopped to listen.
Shaken(c) ==
  /\ life[c] = "shaking"
  /\ \/ Calls(c, "open") /\ life' = [life EXCEPT ![c] = "open"] /\ UNCHANGED requests
     \/ Calls(c, "http") /\ requests' = requests \cup {<<c, 0>>} /\ UNCHANGED life
     \/ end = "alive" /\ Calls(c, "fail") /\ UNCHANGED <<life, requests>>
     \/ /\ end # "alive" /\ handler[c] = "none"
        /\ life' = [life EXCEPT ![c] = "ended"] /\ UNCHANGED <<handler, tasks, requests>>
  /\ UNCHANGED <<recordVars, destroyVars, sent, late>>

\* A message, which is ignored once the connection closes; _on_message() of it is posted to the asio
\* thread itself.
MessageComes(c) ==
  /\ life[c] = "open" /\ sent[c] < MaxMessages /\ Calls(c, "message")
  /\ sent' = [sent EXCEPT ![c] = @ + 1] /\ requests' = requests \cup {<<c, sent'[c]>>}
  /\ UNCHANGED <<recordVars, destroyVars, life, late>>

\* emplace_request(): _on_message() runs when a handler on its thread waits; if the answer to its own
\* is there at once, that is a later one, or none.
RequestRuns(r) ==
  /\ r \in requests /\ Running # {} /\ requests' = requests \ {r}
  /\ UNCHANGED <<recordVars, destroyVars, life, handler, sent, tasks, late>>

\* The peer closes, or the connection breaks.
PeerCloses(c) ==
  /\ life[c] = "open" /\ handler[c] = "none" /\ life' = [life EXCEPT ![c] = "closing"]
  /\ UNCHANGED <<recordVars, destroyVars, handler, sent, requests, tasks, late>>

\* The close handler, also when the close of the destructor is answered or timed out.
Closes(c) ==
  /\ life[c] = "closing" /\ Calls(c, "close")
  /\ UNCHANGED <<recordVars, destroyVars, life, sent, requests, late>>
----
(* The thread of the server.  A task runs until it ends or waits. *)

Lives == end \notin {"gone", "terminated"}
Runs(kind) == Lives /\ tasks # <<>> /\ Head(tasks).kind = kind
Conn == Head(tasks).conn

Returns(c) == handler' = [handler EXCEPT ![c] = "none"]
Ends(c) == Returns(c) /\ life' = [life EXCEPT ![c] = "ended"]

Opened == /\ Runs("open") /\ connections' = connections \cup {Conn} /\ Returns(Conn)
          /\ tasks' = Tail(tasks)
          /\ UNCHANGED <<destroyVars, life, sent, requests, throttled, pending, closed, signals, late>>

\* The message is to be delivered by a task of its own; with too many of those
\* this one, and the handler with it, waits until it has begun.
Message == /\ Runs("message") /\ pending' = pending + 1
           /\ tasks' = Append(Tail(tasks), Task("deliver", Conn))
           /\ IF pending' > Backlog
              THEN throttled' = throttled \cup {Conn} /\ UNCHANGED handler
              ELSE Returns(Conn) /\ UNCHANGED throttled
           /\ UNCHANGED <<destroyVars, life, sent, requests, connections, closed, signals, late>>

Deliver == /\ Runs("deliver")
           /\ pending' = IF pending > 0 THEN pending - 1 ELSE 0
           /\ late' = (late \/ signals[Conn] > 0)
           /\ tasks' = Tail(tasks)
           /\ UNCHANGED <<peerVars, destroyVars, throttled, connections, closed, signals>>

\* f.wait() returns: the last message of c has been delivered.
Unthrottled(c) ==
  /\ Lives /\ c \in throttled
  /\ \A i \in DOMAIN tasks : tasks[i] # Task("deliver", c)
  /\ throttled' = throttled \ {c} /\ Returns(c)
  /\ UNCHANGED <<destroyVars, life, sent, requests, tasks, connections, pending, closed, signals, late>>

\* The close handler and the fail handler: the last one tells the destructor.
Closed == /\ Runs("close") \/ Runs("fail")
          /\ signals' = IF Conn \in connections THEN [signals EXCEPT ![Conn] = @ + 1] ELSE signals
          /\ connections' = connections \ {Conn}
          /\ closed' = IF connections' = {} /\ closed # "none" THEN "set" ELSE closed
          /\ Ends(Conn) /\ tasks' = Tail(tasks)
          /\ UNCHANGED <<destroyVars, sent, requests, throttled, pending, late>>

\* The HTTP handler posts on_http(), which answers and emits closed().
Http == /\ \/ /\ Runs("http") /\ tasks' = Append(Tail(tasks), Task("on_http", Conn))
              /\ Ends(Conn) /\ UNCHANGED signals
           \/ /\ Runs("on_http") /\ tasks' = Tail(tasks)
              /\ signals' = [signals EXCEPT ![Conn] = @ + 1] /\ UNCHANGED <<handler, life>>
        /\ UNCHANGED <<destroyVars, sent, requests, throttled, connections, pending, closed, late>>
----
(* The destructor: a fiber of the same thread. *)

\* stop_listening(); then it cancels what it finds in requests_in_progress, and waits for it.
Stop == /\ end = "alive" /\ end' = "stopped" /\ awaited' = requests
        /\ UNCHANGED <<recordVars, peerVars, tasks, missed, late>>

\* Handshakes that have not ended, and websockets whose open handler waits for its task.
Coming == {c \in Peers : life[c] = "shaking" \/ handler[c] = "open"}

\* Fault: the destructor does not wait for the connections.
CountUnwaited ==
  /\ end = "stopped" /\ awaited \cap requests = {}
  /\ \A c \in connections : life[c] = "open"
  /\ closed' = IF connections = {} THEN "none" ELSE "pending"
  /\ life' = [c \in Peers |-> IF c \in connections THEN "closing" ELSE life[c]]
  /\ missed' = Coming /\ end' = "gone"
  /\ UNCHANGED <<awaited, handler, sent, requests, tasks, throttled, connections, pending, signals, late>>

\* _closed is made if there is a connection, and all of them are closed.
Count ==
  /\ end = "stopped" /\ awaited \cap requests = {}
  /\ \A c \in connections : life[c] = "open"
  /\ closed' = IF connections = {} THEN "none" ELSE "pending"
  /\ life' = [c \in Peers |-> IF c \in connections THEN "closing" ELSE life[c]]
  /\ missed' = Coming /\ end' = IF connections = {} THEN "gone" ELSE "waiting"
  /\ UNCHANGED <<awaited, handler, sent, requests, tasks, throttled, connections, pending, signals, late>>

\* close() throws if a connection that is found is closing already.
Refused ==
  /\ end = "stopped" /\ awaited \cap requests = {} /\ end' = "terminated"
  /\ \E c \in connections : life[c] = "closing"
  /\ UNCHANGED <<recordVars, peerVars, tasks, awaited, missed, late>>

Gone == /\ end = "waiting" /\ closed = "set" /\ end' = "gone"
        /\ UNCHANGED <<recordVars, peerVars, tasks, awaited, missed, late>>
----
ServerStep == \/ Opened \/ Message \/ Deliver \/ Closed \/ Http \/ Count \/ Refused \/ Gone
              \/ \E c \in Peers : Unthrottled(c)

PeerStep(c) == WsAccept(c) \/ Shaken(c) \/ MessageComes(c) \/ PeerCloses(c) \/ Closes(c)

\* A process that is terminated does nothing.
WsNext == /\ end # "terminated"
          /\ \/ \E c \in Peers : PeerStep(c)
             \/ \E r \in requests : RequestRuns(r)
             \/ ServerStep \/ Stop

WsSpec == WsInit /\ [][WsNext]_wsVars

\* What has begun to close does, and handshakes end.
AskedCloses(c) == end # "terminated" /\ (Shaken(c) \/ Closes(c))
----
(* Properties. *)

Kinds == {"open", "message", "http", "close", "fail"}

\* The domain of every variable.  Every message that waits for its delivery is
\* counted in _pending_messages, and nothing else.
WsTypeOK ==
  /\ life \in [Peers -> {"away", "shaking", "open", "closing", "ended"}]
  /\ handler \in [Peers -> Kinds \cup {"none"}] /\ sent \in [Peers -> 0..MaxMessages]
  /\ \A i \in DOMAIN tasks : tasks[i] \in [kind : Kinds \cup {"deliver", "on_http"}, conn : Peers]
  /\ requests \subseteq Peers \X (0..MaxMessages) /\ awaited \subseteq Peers \X (0..MaxMessages)
  /\ throttled \subseteq Peers /\ connections \subseteq Peers /\ missed \subseteq Peers
  /\ pending = Cardinality({i \in DOMAIN tasks : tasks[i].kind = "deliver"})
  /\ closed \in {"none", "pending", "set"} /\ signals \in [Peers -> 0..1]
  /\ late \in BOOLEAN /\ end \in {"alive", "stopped", "waiting", "gone", "terminated"}

\* The assert of the message handler: the connection is in _connections, and
\* none of its messages is delivered after closed().
MessagesWhileOpen ==
  /\ ~late
  /\ tasks # <<>> /\ Head(tasks).kind = "message" => Head(tasks).conn \in connections

\* No more messages wait for their delivery than there are asio threads, however many peers send:
\* what a handler posts next comes behind its message.  So with 8 threads the backlog of 100 is
\* never reached; the run takes that branch with a smaller one.
BacklogIsBounded == pending <= AsioThreads

\* When the destructor returns, nothing that uses the server is still to run on its thread or waits
\* on an asio thread, and every websocket was told; but for the connections that were being made when
\* it took its copy of the others (websocket.cpp:300), which it does not know.
NothingOutlivesServer ==
  end = "gone" =>
  /\ \A i \in DOMAIN tasks : tasks[i].kind = "on_http" \/ tasks[i].conn \in missed
  /\ throttled \cup Running \cup connections \subseteq missed
  /\ \A c \in Peers \ missed : life[c] \in {"away", "ended"}

\* A request that was not begun while its own handler waited.
LeftOver == {r \in requests : ~(handler[r[1]] \in {"message", "http"} /\ r[2] = sent[r[1]])}

\* The destructor ends once it has begun, in whatever state the connections are, but for two cases: a
\* connection that opens late is not closed and keeps it waiting, and a request that was left over on
\* an asio thread may never be begun.
ServerEnds ==
  end # "alive" ~> end \in {"gone", "terminated"} \/ missed # {} \/ awaited \cap LeftOver # {}

----
(* websocket_client_impl (src/network/http/websocket.cpp), one connection of it: fibers of the
   client's thread call connect() and the destructor, handlers run on asio threads, one at a time,
   and post their work to that thread. websocket_tls_client_impl has other handlers (tls = TRUE). *)

CONSTANTS MaxReceived   \* bounds the messages of the peer

ASSUME WcAssumption == MaxReceived \in Nat

VARIABLES tls,
          caller,       \* connect() and then the destructor
          peer,         \* the connection at the peer's end
          asio,         \* the handler in progress and where it is
          work,         \* the queue of _client_thread
          connected,    \* _connected
          down,         \* _closed
          connection,   \* whether _connection is set
          shutting,     \* _shutting_down
          received,     \* messages of the peer that were posted
          emitted,      \* how often closed() was
          refused       \* ghost: close() threw in the destructor

wcVars == <<tls, caller, peer, asio, work, connected, down, connection, shutting, received, emitted, refused>>
userVars == <<emitted, received, connected, tls, refused>>

WcInit == /\ tls \in BOOLEAN /\ caller = "out" /\ peer = "none" /\ asio = "idle" /\ work = <<>>
          /\ connected = "none" /\ down = "none" /\ connection = FALSE /\ shutting = FALSE
          /\ received = 0 /\ emitted = 0 /\ refused = FALSE
----
(* connect() of websocket_client and websocket_tls_client. *)

CallerGoes(from, to) == caller = from /\ caller' = to

Connect ==
  \/ /\ CallerGoes("out", "connecting") /\ connected' = "pending" /\ peer' = "dialled"
     /\ UNCHANGED <<tls, asio, work, down, connection, shutting, received, emitted, refused>>
  \/ /\ CallerGoes("connecting", IF connected = "value" THEN "connected" ELSE "failed")
     /\ connected # "pending"
     /\ UNCHANGED <<userVars, peer, asio, work, down, connection, shutting>>

\* The open handler: _connection, _closed, and then connect() may return.
OpenHandler ==
  \/ /\ peer = "dialled" /\ asio = "idle"
     /\ peer' = "open" /\ connection' = TRUE /\ asio' = "opening"
     /\ UNCHANGED <<userVars, caller, work, down, shutting>>
  \/ /\ asio = "opening" /\ asio' = "idle"
     /\ down' = "pending" /\ connected' = "value"
     /\ UNCHANGED <<tls, caller, peer, work, shutting, connection, received, emitted, refused>>
----
(* The other handlers. *)

\* Posts to the client's thread and waits for the task.
Post(kind, next) == work' = Append(work, kind) /\ asio' = next

MessageHandler ==
  /\ peer = "open" /\ asio = "idle" /\ received < MaxReceived /\ received' = received + 1
  /\ Post("message", "message")
  /\ UNCHANGED <<tls, caller, peer, connected, down, connection, shutting, emitted, refused>>

\* The peer closes the connection, or it breaks.
PeerEnds == /\ peer = "open" /\ asio = "idle" /\ peer' = "closing"
            /\ UNCHANGED <<userVars, caller, asio, work, down, connection, shutting>>

\* The connection has ended, or the close of the destructor is answered or timed
\* out.  With TLS the handler looks at _connection first.
CloseHandler ==
  /\ peer = "closing" /\ asio = "idle" /\ peer' = "closed"
  /\ IF tls /\ ~connection THEN UNCHANGED <<asio, work>> ELSE Post("close", "close")
  /\ UNCHANGED <<userVars, caller, down, connection, shutting>>

\* The handshake failed: connect() is told, then _closed is looked at.
FailHandler ==
  \/ /\ peer = "dialled" /\ asio = "idle"
     /\ peer' = "closed" /\ connected' = "exception" /\ asio' = "failing"
     /\ UNCHANGED <<tls, caller, work, down, connection, shutting, received, emitted, refused>>
  \/ /\ asio = "failing" /\ asio' = "idle"
     /\ UNCHANGED <<userVars, caller, peer, work, down, connection, shutting>>

\* Fault: the destructor is not told.
HandlerReturnsQuiet ==
  /\ asio \in {"message done", "close done"} /\ asio' = "idle"
  /\ UNCHANGED <<userVars, caller, peer, work, down, connection, shutting>>

\* A handler's wait is over; the close handler tells the destructor.
HandlerReturns ==
  /\ asio \in {"message done", "close done"} /\ asio' = "idle"
  /\ down' = IF asio = "close done" /\ down = "pending" THEN "set" ELSE down
  /\ UNCHANGED <<userVars, caller, peer, work, connection, shutting>>
----
(* The tasks of the client's thread. *)

Works(kind) == caller \notin {"gone", "terminated"} /\ work # <<>> /\ Head(work) = kind

\* on_message() of the connection, if it is still there: by a task of its own,
\* or at once with TLS.
ClientMessage ==
  /\ \/ Works("message") /\ asio' = "message done"
        /\ work' = IF tls THEN Tail(work) ELSE Append(Tail(work), "on_message")
     \/ Works("on_message") /\ work' = Tail(work) /\ UNCHANGED asio
  /\ UNCHANGED <<userVars, caller, peer, down, connection, shutting>>

\* closed() is emitted unless the destructor has dropped the connection.  With
\* TLS it is not while there is a _closed, which there is since the handshake.
ClientClosed ==
  /\ Works("close") /\ work' = Tail(work) /\ asio' = "close done"
  /\ emitted' = IF connection /\ (tls => ~shutting /\ down = "none") THEN emitted + 1 ELSE emitted
  /\ connection' = FALSE
  /\ UNCHANGED <<tls, caller, peer, connected, down, shutting, received, refused>>
----
\* The destructor closes the connection there is and waits for its handler; without TLS it drops it
\* before it waits.  close() throws if the connection is closing already: without TLS that is caught,
\* and nothing waited for; with TLS it ends the process.
DestroyClient ==
  \/ /\ caller \in {"connected", "failed"} /\ ~connection /\ caller' = "gone"
     /\ UNCHANGED <<userVars, peer, asio, work, down, connection, shutting>>
  \/ /\ caller \in {"connected", "failed"} /\ connection /\ shutting' = tls
     /\ IF peer = "open"
        THEN caller' = "closing" /\ peer' = "closing" /\ connection' = tls /\ UNCHANGED refused
        ELSE caller' = (IF tls THEN "terminated" ELSE "gone") /\ refused' = TRUE
             /\ UNCHANGED <<peer, connection>>
     /\ UNCHANGED <<tls, connected, received, emitted, asio, work, down>>
  \/ /\ CallerGoes("closing", "gone") /\ down = "set"
     /\ UNCHANGED <<userVars, peer, asio, work, down, connection, shutting>>
----
ClientStep == Connect \/ ClientMessage \/ ClientClosed \/ DestroyClient
AsioStep == /\ caller # "terminated"
            /\ OpenHandler \/ FailHandler \/ HandlerReturns \/ CloseHandler

WcNext == caller # "terminated" /\ (ClientStep \/ AsioStep \/ MessageHandler \/ PeerEnds)

WcSpec == WcInit /\ [][WcNext]_wcVars
----
(* Properties. *)

\* The domain of every variable: members of websocket_client_impl, the handler
\* that runs, and the tasks it has posted.  It waits for its own, and no longer.
WcTypeOK ==
  /\ tls \in BOOLEAN /\ connection \in BOOLEAN /\ shutting \in BOOLEAN /\ refused \in BOOLEAN
  /\ caller \in {"out", "connecting", "connected", "failed", "closing", "gone", "terminated"}
  /\ peer \in {"none", "dialled", "open", "closing", "closed"}
  /\ asio \in {"idle", "opening", "failing", "message", "close", "message done", "close done"}
  /\ \A i \in DOMAIN work : work[i] \in {"message", "on_message", "close"}
  /\ \A k \in {"message", "close"} : asio = k <=> \E i \in DOMAIN work : work[i] = k
  /\ connected \in {"none", "pending", "value", "exception"}
  /\ down \in {"none", "pending", "set"} /\ received \in 0..MaxReceived /\ emitted \in 0..1

\* The user of a plain connection that the peer has closed was told by closed(),
\* once; one that destroys the client itself is not told.
CloseIsEmitted ==
  ~tls => /\ peer = "closed" /\ asio = "idle" /\ caller = "connected" /\ connected = "value"
             => emitted = 1
          /\ emitted = 1 => ~connection

\* No task that uses the client is left on its thread when the destructor has returned, unless the
\* connection was closing when it began, so that close() threw and it did not wait
\* (websocket.cpp:440-447).  (The handler may be left: it reads _closed after its task, or after
\* connect() was told of a failure.)
NoTaskOutlivesClient == caller = "gone" /\ ~refused => work = <<>>

\* connect() returns, with a connection or an exception, once the handshake has
\* ended.
ConnectReturns == caller = "connecting" ~> caller # "connecting"
\* ~websocket_client_impl() returns, whatever the peer does meanwhile.
DestroyReturns == caller = "closing" ~> caller = "gone"

\* Neither a server nor a client leaves work behind, or takes it up when it is closed.
WebsocketIsGuarded ==
  /\ WsTypeOK /\ MessagesWhileOpen /\ BacklogIsBounded /\ NothingOutlivesServer
  /\ WcTypeOK /\ CloseIsEmitted /\ NoTaskOutlivesClient
====
