---- MODULE JsonConnection ----
(* fc::rpc::json_connection (src/rpc/json_connection.cpp): JSON-RPC over a
   pair of streams, all fibers on one thread.  Callers register a promise
   and write a request under _write_mutex; the read loop starts a fiber
   for each message; a reply settles the promise of its id, a call runs a
   local method, which may suspend, and writes its answer under the same
   mutex; the end of the input, a broken message, a reply without a number
   for its id and the destructor end in close(), which fails every promise
   of _awaiting.

   Values are told apart by the caller whose request the peer answered;
   messages by what handle_message() looks at.  The peer is any program
   that answers requests it has read, as often and in whatever order. *)
EXTENDS Integers, Sequences, FiniteSets

CONSTANTS Callers,     \* fibers that call or notify
          NoOne,
          MaxIn        \* how many messages the peer sends

ASSUME JcAssumption == IsFiniteSet(Callers) /\ NoOne \notin Callers \cup Nat /\ MaxIn \in Nat

VARIABLES nextId,      \* _next_id
          awaiting,    \* _awaiting: id -> promise
          op, cid, cpc, got,   \* a caller's operation, id, place, and result
          writer,      \* owner of _write_mutex
          out,         \* who wrote each half message to _out
          flushed,     \* how much of it the peer has
          in, sent,    \* the input not read yet; how many messages were sent
          loop,        \* the read loop
          handlers,    \* one [msg, stage] for each fc::async of handle_message
          outOk,       \* _out takes what is written to it
          dtor, last   \* the destructor's close(), and the handler it cancelled

jcVars == <<nextId, awaiting, op, cid, cpc, got, writer, out, flushed, in, sent,
            loop, handlers, outOk, dtor, last>>
callerVars == <<nextId, op, cid, cpc, got>>
wireVars == <<in, sent, loop, outOk, dtor, last>>

Answer(k, c) == [kind |-> k, of |-> c]
Nothing == Answer("nothing", NoOne)
Unsent == Answer("unsent", NoOne)
Closed == Answer("closed", NoOne)
Answers == {Answer(k, c) : k \in {"value", "error"}, c \in Callers} \cup {Closed}

Fresh == [ready |-> FALSE, value |-> NoOne, error |-> Nothing]
SetValue(p, c) == [p EXCEPT !.ready = TRUE, !.value = c]
SetException(p, e) == [p EXCEPT !.ready = TRUE, !.error = e]
Outcome(p) == IF p.error # Nothing THEN p.error ELSE Answer("value", p.value)

JcInit == /\ nextId = 0 /\ awaiting = <<>> /\ op = [c \in Callers |-> "none"]
          /\ cid = [c \in Callers |-> 0] /\ cpc = [c \in Callers |-> "idle"]
          /\ got = [c \in Callers |-> Nothing] /\ writer = NoOne /\ out = <<>> /\ flushed = 0
          /\ in = <<>> /\ sent = 0 /\ loop = "off" /\ handlers = <<>> /\ outOk = TRUE
          /\ dtor = "no" /\ last = 0
----
(* Callers. *)

\* async_call(): a number and a promise, before anything is written.
AsyncCall(c) ==
  /\ cpc[c] = "idle" /\ dtor = "no" /\ cid' = [cid EXCEPT ![c] = nextId] /\ nextId' = nextId + 1
  /\ awaiting' = [i \in DOMAIN awaiting \cup {nextId} |->
                     IF i = nextId THEN Fresh ELSE awaiting[i]]
  /\ op' = [op EXCEPT ![c] = "call"] /\ cpc' = [cpc EXCEPT ![c] = "lock"]
  /\ UNCHANGED <<got, writer, out, flushed, handlers, wireVars>>

\* notice(): no number; the overload with a list of arguments does not flush.
Notice(c) ==
  /\ cpc[c] = "idle" /\ dtor = "no"
  /\ \E n \in {"notice", "list"} : op' = [op EXCEPT ![c] = n]
  /\ cpc' = [cpc EXCEPT ![c] = "lock"]
  /\ UNCHANGED <<nextId, awaiting, cid, got, writer, out, flushed, handlers, wireVars>>

\* Fault: nobody locks.
OpenFrameUnlocked(who) == outOk /\ writer' = who /\ out' = Append(out, who)

\* Whoever writes a message locks, writes (and may be suspended), and unlocks.
OpenFrame(who) == outOk /\ writer = NoOne /\ writer' = who /\ out' = Append(out, who)
CloseFrame(who) == outOk /\ writer = who /\ writer' = NoOne /\ out' = Append(out, who)

BeginWrite(c) ==
  /\ cpc[c] = "lock" /\ OpenFrame(c) /\ cpc' = [cpc EXCEPT ![c] = "write"]
  /\ UNCHANGED <<nextId, awaiting, op, cid, got, flushed, handlers, wireVars>>

EndWrite(c) ==
  /\ cpc[c] = "write" /\ CloseFrame(c)
  /\ flushed' = IF op[c] = "list" THEN flushed ELSE Len(out')
  /\ cpc' = [cpc EXCEPT ![c] = IF op[c] = "call" THEN "wait" ELSE "done"]
  /\ UNCHANGED <<nextId, awaiting, op, cid, got, handlers, wireVars>>

\* The exception of the stream reaches the caller; its promise stays in _awaiting.
WriteFails(c) ==
  /\ ~outOk /\ cpc[c] \in {"lock", "write"} /\ writer \in {c, NoOne} /\ writer' = NoOne
  /\ cpc' = [cpc EXCEPT ![c] = "done"]
  /\ got' = [got EXCEPT ![c] = IF op[c] = "call" THEN Unsent ELSE Nothing]
  /\ UNCHANGED <<nextId, awaiting, op, cid, out, flushed, handlers, wireVars>>

\* Fault: the wait ends without the promise.
ResumeEarly(c) ==
  /\ cpc[c] = "wait" /\ got' = [got EXCEPT ![c] = Outcome(awaiting[cid[c]])]
  /\ cpc' = [cpc EXCEPT ![c] = "done"]
  /\ UNCHANGED <<nextId, awaiting, op, cid, writer, out, flushed, handlers, wireVars>>

\* future::wait() returns: what the promise holds by the time the fiber runs.
Resume(c) ==
  /\ cpc[c] = "wait" /\ awaiting[cid[c]].ready
  /\ got' = [got EXCEPT ![c] = Outcome(awaiting[cid[c]])] /\ cpc' = [cpc EXCEPT ![c] = "done"]
  /\ UNCHANGED <<nextId, awaiting, op, cid, writer, out, flushed, handlers, wireVars>>
----
(* The read loop and close(). *)

\* close(exception_ptr): every promise, whether it has its answer or not.
FailAll == awaiting' = [i \in DOMAIN awaiting |-> SetException(awaiting[i], Closed)]

Exec == /\ loop = "off" /\ dtor = "no" /\ loop' = "read"
        /\ UNCHANGED <<callerVars, awaiting, writer, out, flushed, in, sent, handlers, outOk, dtor, last>>

\* A whole message: its handler is queued behind those of earlier messages.
Read == /\ loop = "read" /\ dtor # "waitLoop" /\ in # <<>> /\ in[1].type \notin {"broken", "eof"}
        /\ in' = SubSeq(in, 2, Len(in))
        /\ handlers' = Append(handlers, [msg |-> in[1], stage |-> "queued"])
        /\ UNCHANGED <<callerVars, awaiting, writer, out, flushed, sent, loop, outOk, dtor, last>>

\* Fault: the end of file is the regular end of the loop.
LoopFailsQuietly ==
  /\ loop = "read"
  /\ \/ dtor = "waitLoop"
     \/ in # <<>> /\ in[1].type \in {"broken", "eof"}
  /\ loop' = "ended"
  /\ IF in # <<>> /\ in[1].type = "eof" THEN UNCHANGED awaiting ELSE FailAll
  /\ UNCHANGED <<callerVars, writer, out, flushed, in, sent, handlers, outOk, dtor, last>>

\* End of file, text that is no JSON, or the cancellation by the destructor.
LoopFails == /\ loop = "read"
             /\ \/ dtor = "waitLoop"
                \/ in # <<>> /\ in[1].type \in {"broken", "eof"}
             /\ loop' = "ended" /\ FailAll
             /\ UNCHANGED <<callerVars, writer, out, flushed, in, sent, handlers, outOk, dtor, last>>

\* A message is there when the loop is cancelled: it is taken without being
\* suspended, the loop sees the flag and leaves; close() is not called.
LoopLeaves == /\ loop = "read" /\ dtor = "waitLoop"
              /\ in # <<>> /\ in[1].type \notin {"broken", "eof"} /\ loop' = "ended"
              /\ in' = SubSeq(in, 2, Len(in))
              /\ handlers' = Append(handlers, [msg |-> in[1], stage |-> "queued"])
              /\ UNCHANGED <<callerVars, awaiting, writer, out, flushed, sent, outOk, dtor, last>>
----
(* handle_message(). *)

MyTurn(k) == /\ handlers[k].stage = "queued"
            /\ \A j \in 1..k - 1 : handlers[j].stage # "queued"
            /\ dtor # "gone" /\ (dtor = "waitLast" => k # last)   \* not one that is cancelled
Becomes(k, s) == handlers' = [handlers EXCEPT ![k].stage = s]

\* Of several members only "result" counts; an id nobody waits for is ignored;
\* with neither a result nor an error the promise is left as it is.
HandleReply(k) ==
  LET m == handlers[k].msg IN
  /\ MyTurn(k) /\ m.type \in {"result", "error", "neither"} /\ Becomes(k, "done")
  /\ awaiting' = IF m.id \notin DOMAIN awaiting THEN awaiting
                 ELSE [awaiting EXCEPT ![m.id] =
                          CASE m.type = "result" -> SetValue(@, m.of)
                            [] m.type = "error"  -> SetException(@, Answer("error", m.of))
                            [] OTHER             -> @]
  /\ UNCHANGED <<callerVars, writer, out, flushed, wireVars>>

\* as_int64() of the id throws: close(), while the read loop goes on.
HandleBadId(k) ==
  /\ MyTurn(k) /\ handlers[k].msg.type = "badid" /\ Becomes(k, "done") /\ FailAll
  /\ UNCHANGED <<callerVars, writer, out, flushed, wireVars>>

\* A method call, answered when it has an id and only then: an event is only logged.
StartMethod(k) == /\ MyTurn(k) /\ handlers[k].msg.type \in {"method", "event"}
                  /\ Becomes(k, "method")
                  /\ UNCHANGED <<callerVars, awaiting, writer, out, flushed, wireVars>>

EndMethod(k) == /\ handlers[k].stage = "method" /\ dtor # "gone"
                /\ Becomes(k, IF handlers[k].msg.type = "method" THEN "lock" ELSE "done")
                /\ UNCHANGED <<callerVars, awaiting, writer, out, flushed, wireVars>>

BeginReply(k) == /\ handlers[k].stage = "lock" /\ dtor # "gone" /\ OpenFrame(k)
                 /\ Becomes(k, "write") /\ UNCHANGED <<callerVars, awaiting, flushed, wireVars>>

EndReply(k) == /\ handlers[k].stage = "write" /\ dtor # "gone" /\ CloseFrame(k)
               /\ flushed' = Len(out') /\ Becomes(k, "done")
               /\ UNCHANGED <<callerVars, awaiting, wireVars>>

\* Sending the result fails, sending the error fails too: close().
ReplyFails(k) == /\ ~outOk /\ handlers[k].stage \in {"lock", "write"} /\ dtor # "gone"
                 /\ writer \in {k, NoOne} /\ writer' = NoOne /\ Becomes(k, "done") /\ FailAll
                 /\ UNCHANGED <<callerVars, out, flushed, wireVars>>

\* The destructor cancels its handler.  One that has not begun just ends, and the
\* method of one that has may throw (EndMethod).  The exception of a wait in
\* send_result() leads to send_error(), after what was written of the result;
\* that of a wait in send_error() leads to close().
HandlerCanceled ==
  /\ dtor = "waitLast"
  /\ \/ handlers[last].stage = "queued" /\ Becomes(last, "done") /\ UNCHANGED <<awaiting, writer>>
     \/ /\ handlers[last].stage = "write" /\ Becomes(last, "lock") /\ writer' = NoOne
        /\ Cardinality({i \in DOMAIN out : out[i] = last}) = 1 /\ UNCHANGED awaiting
     \/ /\ handlers[last].stage \in {"lock", "write"} /\ Becomes(last, "done") /\ FailAll
        /\ writer' = IF writer = last THEN NoOne ELSE writer
  /\ UNCHANGED <<callerVars, out, flushed, wireVars>>
----
(* json_connection::close(), from the destructor, which no fiber may run
   into while it is inside async_call() or notice(). *)

AfterLast == IF loop = "read" THEN "waitLoop" ELSE "gone"

\* _handle_message_future is the last handler started so far; when the loop is
\* to end, _out is closed as well.
Destroy ==
  /\ dtor = "no" /\ \A c \in Callers : cpc[c] \notin {"lock", "write"}
  /\ last' = Len(handlers)
  /\ dtor' = IF last' > 0 /\ handlers[last'].stage # "done" THEN "waitLast" ELSE AfterLast
  /\ outOk' = (outOk /\ dtor' # "waitLoop")
  /\ UNCHANGED <<callerVars, awaiting, writer, out, flushed, in, sent, loop, handlers>>

LastEnded ==
  /\ dtor = "waitLast" /\ handlers[last].stage = "done" /\ dtor' = AfterLast
  /\ outOk' = (outOk /\ dtor' # "waitLoop")
  /\ UNCHANGED <<callerVars, awaiting, writer, out, flushed, in, sent, loop, handlers, last>>

LoopEnded ==
  /\ dtor = "waitLoop" /\ loop = "ended" /\ dtor' = "gone"
  /\ UNCHANGED <<callerVars, awaiting, writer, out, flushed, in, sent, loop, handlers,
                 outOk, last>>
----
(* The peer and the stream. *)

\* The caller whose message ends at an even place of the flushed output.
Requested == {c \in Callers : op[c] = "call" /\ \E i \in 1..flushed : i % 2 = 0 /\ out[i] = c}

PeerMessages == {[type |-> t, id |-> cid[c], of |-> c] :
                    t \in {"result", "error", "neither"}, c \in Requested}
                \cup {[type |-> t, id |-> 0, of |-> NoOne] :
                         t \in {"method", "event", "badid", "broken", "eof"}}

PeerSends == /\ sent < MaxIn
             /\ \E m \in PeerMessages : in' = Append(in, m)
             /\ sent' = sent + 1
             /\ UNCHANGED <<callerVars, awaiting, writer, out, flushed, loop, handlers,
                            outOk, dtor, last>>

OutBreaks == /\ outOk /\ outOk' = FALSE
             /\ UNCHANGED <<callerVars, awaiting, writer, out, flushed, in, sent, loop,
                            handlers, dtor, last>>
----
Handle(k) == HandleReply(k) \/ HandleBadId(k) \/ StartMethod(k)
Send(c) == BeginWrite(c) \/ EndWrite(c) \/ WriteFails(c)

JcNext == \/ \E c \in Callers : AsyncCall(c) \/ Notice(c) \/ Send(c) \/ Resume(c)
          \/ \E k \in DOMAIN handlers :
                Handle(k) \/ EndMethod(k) \/ BeginReply(k) \/ EndReply(k) \/ ReplyFails(k)
          \/ Exec \/ Read \/ LoopFails \/ LoopLeaves \/ HandlerCanceled
          \/ Destroy \/ LastEnded \/ LoopEnded \/ PeerSends \/ OutBreaks

JcSpec == JcInit /\ [][JcNext]_jcVars

\* The thread runs its ready fibers; a method may run for ever, a peer be silent.
JcFair == /\ WF_jcVars(Read \/ LoopFails)
          /\ WF_jcVars(\E k \in DOMAIN handlers : Handle(k))
          /\ \A c \in Callers : WF_jcVars(Resume(c))
----
(* Properties. *)

\* The domain of every variable: members of json_connection_impl, locals of
\* its fibers, and the two streams.
JcTypeOK ==
  /\ nextId \in 0..Cardinality(Callers) /\ DOMAIN awaiting = 0..nextId - 1
  /\ \A i \in DOMAIN awaiting :
        awaiting[i] \in [ready : BOOLEAN, value : Callers \cup {NoOne},
                         error : Answers \cup {Nothing}]
  /\ op \in [Callers -> {"none", "call", "notice", "list"}] /\ cid \in [Callers -> 0..nextId]
  /\ cpc \in [Callers -> {"idle", "lock", "write", "wait", "done"}]
  /\ got \in [Callers -> Answers \cup {Nothing, Unsent}]
  /\ writer \in Callers \cup {NoOne} \cup DOMAIN handlers
  /\ flushed \in 0..Len(out) /\ sent \in 0..MaxIn /\ Len(in) <= sent
  /\ loop \in {"off", "read", "ended"} /\ outOk \in BOOLEAN
  /\ \A k \in DOMAIN handlers :
        handlers[k].stage \in {"queued", "method", "lock", "write", "done"}
  /\ dtor \in {"no", "waitLast", "waitLoop", "gone"} /\ last \in 0..Len(handlers)

\* A reply reaches the caller whose request it answers, whatever the order of
\* the replies and however often one is repeated.
OwnAnswer == \A c \in Callers : got[c].kind \in {"value", "error"} => got[c].of = c

\* _write_mutex: no message is written into the middle of another.
FramesWhole ==
  dtor = "no" => \A i \in DOMAIN out : i % 2 = 0 => out[i] = out[i - 1]

\* While a caller waits its request has left the buffer, although notice()
\* with a list of arguments leaves its message there.
WaitingIsFlushed == \A c \in Callers : cpc[c] = "wait" => c \in Requested

\* json_connection answers each method call with an id once and an event never.
AnsweredOnce ==
  dtor = "no" => \A k \in DOMAIN handlers :
      LET written == Cardinality({i \in DOMAIN out : out[i] = k}) IN
      IF handlers[k].msg.type = "method"
      THEN written <= 2 /\ (handlers[k].stage = "done" /\ outOk => written = 2)
      ELSE written = 0

Decides(m, c) == \/ m.type \in {"result", "error"} /\ m.id = cid[c]
                 \/ m.type \in {"broken", "eof", "badid"}
Incoming == {in[i] : i \in DOMAIN in}
            \cup {handlers[k].msg : k \in {j \in DOMAIN handlers : handlers[j].stage = "queued"}}

\* A call made while the loop reads returns once its reply, or whatever ends
\* the connection, has been sent: no suspended method call, no other message
\* and no closing of the loop in between leaves the caller waiting.
DecidedCallReturns ==
  \A c \in Callers :
      (cpc[c] = "wait" /\ loop = "read" /\ dtor = "no" /\ \E m \in Incoming : Decides(m, c))
          ~> (cpc[c] = "done" \/ dtor # "no")

JsonOpen == {c \in Callers : op[c] = "call" /\ cpc[c] # "done"}

JsonCalls == INSTANCE Calls WITH
    Final <- FALSE,
    open <- JsonOpen,
    answer <- [c \in Callers |-> IF c \in JsonOpen /\ awaiting[cid[c]].ready
                                 THEN Outcome(awaiting[cid[c]]) ELSE Nothing],
    returned <- got

\* A call of json_connection returns what was last put into its promise, and
\* puts nothing there itself.
JsonImplementsCalls == JsonCalls!Spec

\* The stream carries whole messages, and those of the callers that wait are among them.
MessagesAreWhole == FramesWhole /\ WaitingIsFlushed
====
