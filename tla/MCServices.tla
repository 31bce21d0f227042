---- MODULE MCServices ----
(* Components that have nothing to do with each other, on small instances: the first state chooses
   one, and the others stay as they are. *)
EXTENDS RateLimiting, FileMutex, CinBuffer, Websocket

CONSTANTS o1, o2, t1, t2, t3, t4, p1, p2, nobody, c1, c2

MCOperations == {o1, o2}
MCLockers == {t1, t2, t3, t4}
MCProcesses == {p1, p2}
MCHome == [t \in MCLockers |-> IF t = t4 THEN p2 ELSE p1]
MCPeers == {c1, c2}

VARIABLES subject, divided

servicesVars == <<rlVars, fmVars, cinVars, wsVars, wcVars, subject, divided>>

Subjects == {"division", "rate limiting", "file_mutex", "cin", "websocket server", "websocket client"}

ServicesInit ==
  /\ subject \in Subjects
  /\ IF subject = "division" THEN divided \in (0..9) \X [1..3 -> 0..4] ELSE divided = <<>>
  /\ RlInit /\ (subject # "rate limiting" => limit = 0)
  /\ FmInit /\ CinInit /\ WsInit
  /\ WcInit /\ (subject # "websocket client" => tls)

\* One step of each, while the others rest.
Rl(A) == subject = "rate limiting" /\ A
         /\ UNCHANGED <<fmVars, cinVars, wsVars, wcVars, subject, divided>>
Fm(A) == subject = "file_mutex" /\ A
         /\ UNCHANGED <<rlVars, cinVars, wsVars, wcVars, subject, divided>>
Cin(A) == subject = "cin" /\ A
          /\ UNCHANGED <<rlVars, fmVars, wsVars, wcVars, subject, divided>>
Ws(A) == subject = "websocket server" /\ A
         /\ UNCHANGED <<rlVars, fmVars, cinVars, wcVars, subject, divided>>
Wc(A) == subject = "websocket client" /\ A
         /\ UNCHANGED <<rlVars, fmVars, cinVars, wsVars, subject, divided>>

ServicesNext == \/ Rl(RlNext) \/ Fm(FmNext) \/ Cin(CinNext) \/ Ws(WsNext) \/ Wc(WcNext)

\* The loop of the rate limiter is run and time passes; a thread that has begun
\* an operation of file_mutex goes on; both sides of the buffer are run; so are
\* the threads of the server and of the client and the asio threads.
ServicesFair ==
  /\ WF_servicesVars(Rl(Iterate)) /\ WF_servicesVars(Rl(RlTick))
  /\ \A t \in Lockers : WF_servicesVars(Fm(FmGoesOn(t)))
  /\ WF_servicesVars(Cin(WriterStep)) /\ WF_servicesVars(Cin(ReaderStep))
  /\ WF_servicesVars(Ws(ServerStep))
  /\ \A c \in Peers : WF_servicesVars(Ws(AskedCloses(c)))
  /\ WF_servicesVars(Wc(ClientStep)) /\ WF_servicesVars(Wc(AsioStep))

\* process_pending_operations() divides the tokens it has fairly.
TokensAreShared == subject = "division" => DivisionIsFair(divided[1], divided[2])

ServicesSpec == ServicesInit /\ [][ServicesNext]_servicesVars /\ ServicesFair

\* Operations on rate-limited sockets share what the limit earns, and no more than that.
RatesAreShared == TokensAreShared /\ RlTypeOK /\ RateIsKept /\ ListsHoldWaiters

\* Whoever waits for one of the services is served in the end: an operation on a limited socket, a
\* writer behind readers, a reader of std::cin, and those that connect or destroy a websocket.
ServicesGoOn ==
  /\ QueuedIsStarted /\ WriterOvertakesReaders /\ WaitingIsRead
  /\ ServerEnds /\ ConnectReturns /\ DestroyReturns
====
