---- MODULE JsonConnectionProofs ----
(* Theorems about fc::rpc::json_connection, for any number of callers and
   of messages, whatever the peer repeats or reorders and whichever fiber
   is destroyed or fails in between.  A number is given to one call; what
   answers a number is on its way, or in a promise, for the caller who got
   that number. *)
EXTENDS JsonConnection, FiniteSetTheorems, SequenceTheorems, TLAPS

Replies == {"result", "error", "neither"}
Stages == {"queued", "method", "lock", "write", "done"}
Messages == [type : Replies, id : Nat, of : Callers]
            \cup [type : {"method", "event", "badid", "broken", "eof"}, id : {0}, of : {NoOne}]
Handlers == [msg : Messages, stage : Stages]

Errors == {Answer("error", c) : c \in Callers} \cup {Closed}
Promises == [ready : BOOLEAN, value : Callers \cup {NoOne}, error : Errors \cup {Nothing}]

\* A reply is for the number of the one it names.
Fits(m) == m.type \in Replies => m.of \in Callers /\ op[m.of] = "call" /\ m.id = cid[m.of]

MessagesFit ==
  /\ in \in Seq(Messages) /\ handlers \in Seq(Handlers)
  /\ \A j \in 1..Len(in) : Fits(in[j])
  /\ \A k \in 1..Len(handlers) : Fits(handlers[k].msg)

CallsAreNumbered ==
  /\ nextId \in Nat /\ cid \in [Callers -> Nat]
  /\ op \in [Callers -> {"none", "call", "notice", "list"}]
  /\ cpc \in [Callers -> {"idle", "lock", "write", "wait", "done"}]
  /\ \A c \in Callers : op[c] = "call" => cid[c] < nextId
  /\ \A c, d \in Callers : op[c] = "call" /\ op[d] = "call" /\ cid[c] = cid[d] => c = d
  /\ \A c \in Callers : /\ cpc[c] = "idle" <=> op[c] = "none"
                        /\ cpc[c] = "wait" => op[c] = "call"

\* A promise holds what was sent to its caller, or the close.
IsFor(p, c) == /\ p.ready /\ p.error = Nothing => p.value = c
               /\ p.error \in {Nothing, Closed, Answer("error", c)}

PromisesMatch ==
  /\ awaiting \in [0..nextId - 1 -> Promises]
  /\ \A c \in Callers : op[c] = "call" => IsFor(awaiting[cid[c]], c)

ResultsMatch ==
  \A c \in Callers : /\ got[c] \in {Nothing, Unsent, Closed, Answer("value", c), Answer("error", c)}
                     /\ cpc[c] # "done" => got[c] = Nothing
GotIsFunction == got \in [Callers -> Answers \cup {Nothing, Unsent}]

\* The destructor cancels a handler that was started.
LastIsHandler == dtor = "waitLast" => last \in 1..Len(handlers)

JcCore == LastIsHandler /\ MessagesFit /\ CallsAreNumbered /\ PromisesMatch /\ ResultsMatch /\ GotIsFunction
----
LEMMA KindsDiffer ==
  /\ Nothing.kind = "nothing" /\ Unsent.kind = "unsent" /\ Closed.kind = "closed"
  /\ \A k, c : Answer(k, c).kind = k /\ Answer(k, c).of = c
  /\ \A c \in Callers : Answer("value", c) \in Answers /\ Answer("error", c) \in Answers
  /\ Closed \in Answers /\ Nothing \notin Answers /\ Unsent \notin Answers
<1>2. \A a \in Answers : a.kind \in {"value", "error", "closed"}
  BY DEF Answers, Nothing, Unsent, Closed, Answer
<1>3. (\A c \in Callers : Answer("value", c) \in Answers /\ Answer("error", c) \in Answers) /\ Closed \in Answers
  BY DEF Answers
<1> QED BY <1>2, <1>3 DEF Nothing, Unsent, Closed, Answer

\* What promise_base does to a promise.
LEMMA PromiseSteps ==
  ASSUME NEW p \in Promises, NEW c \in Callers
  PROVE  /\ SetValue(p, c) \in Promises /\ SetException(p, Answer("error", c)) \in Promises
         /\ SetException(p, Closed) \in Promises
         /\ IsFor(p, c) => /\ IsFor(SetValue(p, c), c) /\ IsFor(SetException(p, Answer("error", c)), c)
                           /\ IsFor(SetException(p, Closed), c)
         /\ SetValue(p, c).ready /\ SetException(p, Answer("error", c)).ready /\ SetException(p, Closed).ready
  BY ZenonT(60), KindsDiffer DEF Promises, Errors, SetValue, SetException, IsFor

\* What a promise yields.
LEMMA OutcomeIsFor ==
  ASSUME NEW p \in Promises, NEW c \in Callers, IsFor(p, c), p.ready
  PROVE  Outcome(p) \in {Closed, Answer("value", c), Answer("error", c)} /\ Outcome(p) # Nothing /\ Outcome(p) \in Answers
  BY KindsDiffer DEF Promises, Outcome, IsFor

LEMMA JcStart == JcInit => JcCore
<1> SUFFICES ASSUME JcInit PROVE JcCore OBVIOUS
<1>2. MessagesFit BY EmptySeq DEF JcInit, MessagesFit
<1>3. CallsAreNumbered BY DEF JcInit, CallsAreNumbered
<1>4. PromisesMatch BY EmptySeq, SMT DEF JcInit, PromisesMatch
<1> QED BY <1>2, <1>3, <1>4 DEF JcCore, JcInit, ResultsMatch, GotIsFunction, LastIsHandler
----
(* Messages: those that arrive, and those that handlers have. *)

\* What fits after a step.
FitsNext(m) == m.type \in Replies => m.of \in Callers /\ op'[m.of] = "call" /\ m.id = cid'[m.of]

LEMMA CallsKeepNumbers ==
  ASSUME JcCore, [JcNext]_jcVars
  PROVE  \A c \in Callers : op[c] = "call" => op'[c] = "call" /\ cid'[c] = cid[c]
<1>1. CASE UNCHANGED <<op, cid>> BY <1>1
<1>2. ASSUME NEW c \in Callers, AsyncCall(c) \/ Notice(c)
      PROVE  \A d \in Callers : op[d] = "call" => op'[d] = "call" /\ cid'[d] = cid[d]
  BY <1>2 DEF AsyncCall, Notice, JcCore, CallsAreNumbered
<1> QED BY <1>1, <1>2 DEF JcNext, jcVars, callerVars, wireVars, Send, Handle, BeginWrite, EndWrite,
          WriteFails, Resume, HandleReply, HandleBadId, StartMethod, EndMethod, BeginReply, EndReply,
          ReplyFails, Exec, Read, LoopFails, LoopLeaves, HandlerCanceled, Destroy, LastEnded,
          LoopEnded, PeerSends, OutBreaks

\* What a handler has in hand does not change as it goes on.
LEMMA StageMoves ==
  ASSUME JcCore, NEW k \in DOMAIN handlers, NEW s \in Stages, Becomes(k, s)
  PROVE  /\ handlers' \in Seq(Handlers) /\ Len(handlers') = Len(handlers)
         /\ \A j \in 1..Len(handlers) : handlers'[j].msg = handlers[j].msg
<1>2. \A j \in 1..Len(handlers) : handlers[j] \in Handlers
  BY LenProperties, ElementOfSeq DEF JcCore, MessagesFit
<1> QED BY LenProperties, <1>2, ExceptSeq DEF Becomes, Handlers, JcCore, MessagesFit

LEMMA MessagesStayFit ==
  ASSUME JcCore, [JcNext]_jcVars
  PROVE  MessagesFit'
<1> USE DEF JcCore
<1>0. /\ in \in Seq(Messages) /\ handlers \in Seq(Handlers) /\ Len(in) \in Nat /\ Len(handlers) \in Nat
      /\ DOMAIN handlers = 1..Len(handlers)
      /\ \A j \in 1..Len(in) : in[j] \in Messages /\ FitsNext(in[j])
      /\ \A k \in 1..Len(handlers) : FitsNext(handlers[k].msg)
  BY ElementOfSeq, CallsKeepNumbers, LenProperties DEF MessagesFit, Fits, FitsNext
<1>1. CASE UNCHANGED <<in, handlers>> BY <1>0, <1>1 DEF MessagesFit, Fits, FitsNext
<1>2. CASE Read \/ LoopLeaves
  <2>1. in # <<>> /\ in' = SubSeq(in, 2, Len(in)) /\ handlers' = Append(handlers, [msg |-> in[1], stage |-> "queued"])
    BY <1>2 DEF Read, LoopLeaves
  <2> QED
    BY EmptySeq, TailIsSubSeq, HeadTailProperties, <1>0, <2>1, AppendProperties DEF MessagesFit,
      Fits, FitsNext, Handlers, Stages
<1>3. ASSUME NEW k \in DOMAIN handlers, NEW s \in Stages, Becomes(k, s), UNCHANGED in
      PROVE  MessagesFit'
  BY <1>3, StageMoves, <1>0 DEF MessagesFit, Fits, FitsNext
<1>4. CASE PeerSends
  BY <1>4, <1>0, AppendProperties DEF PeerSends, callerVars, PeerMessages, Requested, Messages,
     Replies, FitsNext, CallsAreNumbered, MessagesFit, Fits
<1>5. ASSUME NEW k \in DOMAIN handlers,
             Handle(k) \/ EndMethod(k) \/ BeginReply(k) \/ EndReply(k) \/ ReplyFails(k)
      PROVE  MessagesFit'
  BY <1>5, <1>3 DEF Handle, HandleReply, HandleBadId, StartMethod, EndMethod, BeginReply,
     EndReply, ReplyFails, wireVars, Stages
<1>6. CASE HandlerCanceled BY <1>0, <1>6, <1>3 DEF HandlerCanceled, LastIsHandler, wireVars, Stages
<1>7. ASSUME NEW c \in Callers, AsyncCall(c) \/ Notice(c) \/ Send(c) \/ Resume(c) PROVE MessagesFit'
  BY <1>1, <1>7 DEF AsyncCall, Notice, Send, BeginWrite, EndWrite, WriteFails, Resume, wireVars
<1>8. CASE Exec \/ LoopFails \/ Destroy \/ LastEnded \/ LoopEnded \/ OutBreaks
  BY <1>1, <1>8 DEF Exec, LoopFails, Destroy, LastEnded, LoopEnded, OutBreaks
<1>9. CASE UNCHANGED jcVars BY <1>1, <1>9 DEF jcVars
<1> QED BY <1>2, <1>4, <1>5, <1>6, <1>7, <1>8, <1>9 DEF JcNext

\* The handler the destructor cancels is one of those that were started.
LEMMA LastStays ==
  ASSUME JcCore, [JcNext]_jcVars
  PROVE  LastIsHandler'
<1> USE DEF JcCore, LastIsHandler
<1>0. handlers \in Seq(Handlers) /\ Len(handlers) \in Nat /\ DOMAIN handlers = 1..Len(handlers)
  BY LenProperties DEF MessagesFit
<1>1. CASE UNCHANGED <<dtor, last>> /\ Len(handlers') \in Nat /\ Len(handlers') >= Len(handlers)
  BY <1>0, <1>1
<1>2. CASE Destroy \/ LastEnded \/ LoopEnded
  BY <1>0, <1>2 DEF Destroy, LastEnded, LoopEnded, AfterLast
<1>3. CASE Read \/ LoopLeaves
  BY <1>3, EmptySeq, ElementOfSeq, <1>0, AppendProperties, <1>1 DEF Read, LoopLeaves,
     MessagesFit, Handlers, Stages
<1>4. ASSUME NEW k \in DOMAIN handlers,
             Handle(k) \/ EndMethod(k) \/ BeginReply(k) \/ EndReply(k) \/ ReplyFails(k)
      PROVE  LastIsHandler'
  BY <1>4, StageMoves, <1>0, <1>1 DEF Handle, HandleReply, HandleBadId, StartMethod, EndMethod,
     BeginReply, EndReply, ReplyFails, wireVars, Stages
<1>5. CASE HandlerCanceled BY <1>0, <1>5, StageMoves, <1>1 DEF HandlerCanceled, wireVars, Stages
<1>6. CASE UNCHANGED <<handlers, dtor, last>> BY <1>0, <1>1, <1>6
<1>7. ASSUME NEW c \in Callers, AsyncCall(c) \/ Notice(c) \/ Send(c) \/ Resume(c) PROVE LastIsHandler'
  BY <1>6, <1>7 DEF AsyncCall, Notice, Send, BeginWrite, EndWrite, WriteFails, Resume, wireVars
<1>8. CASE Exec \/ LoopFails \/ PeerSends \/ OutBreaks \/ UNCHANGED jcVars
  BY <1>6, <1>8 DEF Exec, LoopFails, PeerSends, OutBreaks, jcVars
<1> QED BY <1>2, <1>3, <1>4, <1>5, <1>7, <1>8 DEF JcNext
----
(* Calls and promises. *)

Calling == CallsAreNumbered /\ PromisesMatch /\ ResultsMatch /\ GotIsFunction

\* What a step does with calls and promises.
LEMMA StepKinds ==
  ASSUME JcCore, [JcNext]_jcVars
  PROVE  \/ \E c \in Callers : AsyncCall(c) \/ Notice(c) \/ Send(c) \/ Resume(c)
         \/ \E k \in DOMAIN handlers : HandleReply(k)
         \/ FailAll /\ UNCHANGED callerVars
         \/ UNCHANGED <<callerVars, awaiting>>
  BY DEF JcNext, jcVars, callerVars, Handle, HandleBadId, StartMethod, EndMethod, BeginReply, EndReply,
         ReplyFails, Exec, Read, LoopFails, LoopLeaves, HandlerCanceled, Destroy, LastEnded,
         LoopEnded, PeerSends, OutBreaks

\* async_call().
LEMMA AsyncCallKeeps ==
  ASSUME JcCore, NEW c \in Callers, AsyncCall(c)
  PROVE  Calling'
<1> USE DEF JcCore
<1>1. /\ cid' = [cid EXCEPT ![c] = nextId] /\ nextId' = nextId + 1 /\ op' = [op EXCEPT ![c] = "call"]
      /\ cpc' = [cpc EXCEPT ![c] = "lock"] /\ got' = got /\ op[c] = "none" /\ cpc[c] = "idle"
      /\ awaiting' = [i \in DOMAIN awaiting \cup {nextId} |-> IF i = nextId THEN Fresh ELSE awaiting[i]]
  BY DEF AsyncCall, CallsAreNumbered
<1>2. CallsAreNumbered' BY <1>1 DEF CallsAreNumbered
<1>6. ASSUME NEW d \in Callers, op'[d] = "call" PROVE IsFor(awaiting'[cid'[d]], d)
  BY <1>1, <1>6 DEF CallsAreNumbered, PromisesMatch, Fresh, Promises, IsFor
<1>7. PromisesMatch' BY <1>1, <1>6 DEF PromisesMatch, CallsAreNumbered, Fresh, Promises, IsFor
<1>8. ResultsMatch' /\ GotIsFunction' BY <1>1 DEF ResultsMatch, GotIsFunction, CallsAreNumbered
<1> QED BY <1>2, <1>7, <1>8 DEF Calling

\* notice().
LEMMA NoticeKeeps ==
  ASSUME JcCore, NEW c \in Callers, Notice(c)
  PROVE  Calling'
<1> USE DEF JcCore
<1>1. PICK n \in {"notice", "list"} : op' = [op EXCEPT ![c] = n] BY DEF Notice
<1>2. /\ cpc[c] = "idle" /\ op[c] = "none" /\ cpc' = [cpc EXCEPT ![c] = "lock"]
      /\ UNCHANGED <<nextId, awaiting, cid, got>>
  BY DEF Notice, CallsAreNumbered
<1>4. CallsAreNumbered' BY <1>1, <1>2 DEF CallsAreNumbered
<1>5. PromisesMatch' BY <1>2, <1>1 DEF PromisesMatch, CallsAreNumbered
<1>6. ResultsMatch' /\ GotIsFunction' BY <1>2 DEF ResultsMatch, GotIsFunction, CallsAreNumbered
<1> QED BY <1>4, <1>5, <1>6 DEF Calling

\* A caller writes, or is told that it cannot.
LEMMA SendKeeps ==
  ASSUME JcCore, NEW c \in Callers, Send(c)
  PROVE  Calling'
<1> USE DEF JcCore
<1>1. UNCHANGED <<nextId, awaiting, op, cid>> /\ cpc[c] \in {"lock", "write"}
  BY DEF Send, BeginWrite, EndWrite, WriteFails
<1>2. /\ \/ cpc' = [cpc EXCEPT ![c] = "write"]
         \/ cpc' = [cpc EXCEPT ![c] = IF op[c] = "call" THEN "wait" ELSE "done"]
         \/ cpc' = [cpc EXCEPT ![c] = "done"]
      /\ \/ got' = got
         \/ got' = [got EXCEPT ![c] = Unsent] /\ cpc' = [cpc EXCEPT ![c] = "done"]
         \/ got' = [got EXCEPT ![c] = Nothing]
  BY DEF Send, BeginWrite, EndWrite, WriteFails
<1>3. CallsAreNumbered' BY <1>1, <1>2 DEF CallsAreNumbered
<1>4. PromisesMatch' BY <1>1 DEF PromisesMatch
<1>5. GotIsFunction' BY <1>2 DEF GotIsFunction
<1>6. ResultsMatch' BY <1>1, <1>2 DEF ResultsMatch, GotIsFunction, CallsAreNumbered
<1> QED BY <1>3, <1>4, <1>5, <1>6 DEF Calling

\* The promise of a caller who waits.
LEMMA AwaitedPromise ==
  ASSUME JcCore, NEW c \in Callers, op[c] = "call"
  PROVE  cid[c] \in DOMAIN awaiting /\ awaiting[cid[c]] \in Promises /\ IsFor(awaiting[cid[c]], c)
<1>1. cid[c] \in 0..nextId - 1 BY DEF JcCore, CallsAreNumbered
<1> QED BY <1>1 DEF JcCore, PromisesMatch

\* future::wait() returns.
LEMMA ResumeKeeps ==
  ASSUME JcCore, NEW c \in Callers, Resume(c)
  PROVE  Calling'
<1> USE DEF JcCore
<1>3. CallsAreNumbered' /\ PromisesMatch' BY DEF CallsAreNumbered, PromisesMatch, Resume
<1>4. ResultsMatch' /\ GotIsFunction'
  BY AwaitedPromise, OutcomeIsFor DEF ResultsMatch, GotIsFunction, CallsAreNumbered, Resume
<1> QED BY <1>3, <1>4 DEF Calling

\* What a handler makes of the promise a reply is for.
LEMMA ReplySettles ==
  ASSUME JcCore, NEW k \in DOMAIN handlers, HandleReply(k)
  PROVE  LET m == handlers[k].msg IN
         /\ UNCHANGED callerVars /\ m.of \in Callers /\ op[m.of] = "call" /\ m.id = cid[m.of]
         /\ awaiting' = [awaiting EXCEPT ![m.id] =
                            CASE m.type = "result" -> SetValue(@, m.of)
                              [] m.type = "error"  -> SetException(@, Answer("error", m.of))
                              [] OTHER             -> @]
<1> DEFINE m == handlers[k].msg
<1>3. m.id \in DOMAIN awaiting
  BY LenProperties, AwaitedPromise DEF JcCore, MessagesFit, Fits, HandleReply, Replies
<1> QED BY LenProperties, <1>3 DEF HandleReply, JcCore, MessagesFit, Fits, Replies

LEMMA ReplyKeeps ==
  ASSUME JcCore, NEW k \in DOMAIN handlers, HandleReply(k)
  PROVE  Calling'
<1> USE DEF JcCore
<1> DEFINE m == handlers[k].msg
           p == awaiting[m.id]
           q == CASE m.type = "result" -> SetValue(p, m.of)
                  [] m.type = "error"  -> SetException(p, Answer("error", m.of))
                  [] OTHER             -> p
<1>1. /\ UNCHANGED callerVars /\ m.of \in Callers /\ op[m.of] = "call" /\ m.id = cid[m.of]
      /\ awaiting' = [awaiting EXCEPT ![m.id] = q]
  BY ReplySettles
<1>2. m.id \in DOMAIN awaiting /\ p \in Promises /\ IsFor(p, m.of) BY <1>1, AwaitedPromise
<1>3. q \in Promises /\ IsFor(q, m.of) BY <1>1, <1>2, PromiseSteps
<1> HIDE DEF q, p, m
<1>6. ASSUME NEW c \in Callers, op'[c] = "call" PROVE IsFor(awaiting'[cid'[c]], c)
  BY <1>1, <1>6, AwaitedPromise, <1>2, <1>3 DEF callerVars, CallsAreNumbered
<1> QED
  BY <1>1, <1>2, <1>3, <1>6 DEF PromisesMatch, Calling, callerVars, CallsAreNumbered, ResultsMatch,
    GotIsFunction

\* close().
LEMMA CloseKeeps ==
  ASSUME JcCore, FailAll, UNCHANGED callerVars
  PROVE  Calling'
<1> USE DEF JcCore
<1>2. \A p \in Promises : SetException(p, Closed) \in Promises /\ \A c \in Callers : IsFor(SetException(p, Closed), c)
  BY KindsDiffer DEF Promises, Errors, SetException, IsFor
<1> QED
  BY <1>2, AwaitedPromise DEF PromisesMatch, Calling, FailAll, callerVars, CallsAreNumbered,
    ResultsMatch, GotIsFunction

LEMMA JcStepKeeps == JcCore /\ [JcNext]_jcVars => JcCore'
<1> SUFFICES ASSUME JcCore, [JcNext]_jcVars PROVE Calling'
  BY MessagesStayFit, LastStays DEF JcCore, Calling
<1>1. CASE UNCHANGED <<callerVars, awaiting>>
  BY <1>1 DEF callerVars, JcCore, Calling, CallsAreNumbered, PromisesMatch, ResultsMatch, GotIsFunction
<1> QED BY <1>1, StepKinds, AsyncCallKeeps, NoticeKeeps, SendKeeps, ResumeKeeps, ReplyKeeps, CloseKeeps

LEMMA JcAlways == JcSpec => []JcCore
  BY JcStart, JcStepKeeps, PTL DEF JcSpec

\* A reply reaches the caller whose request it answers, whatever the order of the
\* replies and however often one is repeated.
THEOREM JsonAnswersOwn == JcSpec => []OwnAnswer
<1>1. JcCore => OwnAnswer BY KindsDiffer DEF JcCore, ResultsMatch, OwnAnswer
<1> QED BY <1>1, JcAlways, PTL
----
(* Refinement: json_connection implements Calls, with answers that a later
   one replaces until the caller has returned. *)

\* What the mapping makes of the promises.
Shown == [c \in Callers |-> IF c \in JsonOpen /\ awaiting[cid[c]].ready
                            THEN Outcome(awaiting[cid[c]]) ELSE Nothing]

LEMMA CallsStart == JcInit => JsonCalls!Init
  BY DEF JcInit, JsonCalls!Init, JsonOpen

LEMMA IssueIsMapped ==
  ASSUME JcCore, NEW c \in Callers, AsyncCall(c)
  PROVE  JsonCalls!Next
<1> USE DEF JcCore
<1>3. ASSUME NEW d \in Callers PROVE Shown'[d] = Shown[d]
  BY AwaitedPromise DEF Shown, Fresh, CallsAreNumbered, JsonOpen, AsyncCall
<1>4. Shown' = Shown BY <1>3 DEF Shown
<1>5. JsonCalls!Issue(c)
  BY <1>4 DEF JsonCalls!Issue, Shown, ResultsMatch, JsonOpen, CallsAreNumbered, AsyncCall
<1> QED BY <1>5 DEF JsonCalls!Next

\* Nothing that is shown changes.
LEMMA QuietIsMapped ==
  ASSUME UNCHANGED <<awaiting, cid, got>>, JsonOpen' = JsonOpen
  PROVE  UNCHANGED JsonCalls!callVars
  BY DEF JsonCalls!callVars

\* A call that returns, with what is shown or because it could not be sent.
LEMMA ReturnIsMapped ==
  ASSUME JcCore, NEW c \in Callers, op[c] = "call", cpc[c] \notin {"idle", "done"},
         UNCHANGED <<awaiting, op, cid>>, cpc' = [cpc EXCEPT ![c] = "done"],
         \/ awaiting[cid[c]].ready /\ got' = [got EXCEPT ![c] = Outcome(awaiting[cid[c]])]
         \/ got' = [got EXCEPT ![c] = Unsent]
  PROVE  JsonCalls!Next
<1>3. Shown' = [Shown EXCEPT ![c] = Nothing] BY DEF Shown, JsonOpen, JcCore, CallsAreNumbered
<1>4. JsonCalls!Return(c)
  BY AwaitedPromise, OutcomeIsFor, <1>3 DEF JsonCalls!Return, Shown, JsonOpen, JcCore,
    CallsAreNumbered
<1> QED BY <1>4 DEF JsonCalls!Next

LEMMA CallerIsMapped ==
  ASSUME JcCore, NEW c \in Callers, Notice(c) \/ Send(c) \/ Resume(c)
  PROVE  JsonCalls!Next \/ UNCHANGED JsonCalls!callVars
<1> USE DEF JcCore
<1>1. CASE Notice(c) BY <1>1, QuietIsMapped DEF Notice, JsonOpen, CallsAreNumbered
<1>2. CASE BeginWrite(c) \/ EndWrite(c)
  BY <1>2, QuietIsMapped DEF BeginWrite, EndWrite, JsonOpen, CallsAreNumbered
<1>3. CASE WriteFails(c) /\ op[c] = "call" BY <1>3, ReturnIsMapped DEF WriteFails
<1>4. CASE WriteFails(c) /\ op[c] # "call"
  BY <1>4, QuietIsMapped DEF WriteFails, JsonOpen, CallsAreNumbered, ResultsMatch,
     GotIsFunction
<1>5. CASE Resume(c) BY <1>5, ReturnIsMapped DEF Resume, CallsAreNumbered
<1> QED BY <1>1, <1>2, <1>3, <1>4, <1>5 DEF Send

LEMMA ReplyIsMapped ==
  ASSUME JcCore, NEW k \in DOMAIN handlers, HandleReply(k)
  PROVE  JsonCalls!Next \/ UNCHANGED JsonCalls!callVars
<1> DEFINE m == handlers[k].msg
           p == awaiting[m.id]
           q == IF m.type = "result" THEN SetValue(p, m.of) ELSE SetException(p, Answer("error", m.of))
<1>1. /\ UNCHANGED callerVars /\ m.of \in Callers /\ op[m.of] = "call" /\ m.id = cid[m.of]
      /\ m.type \notin {"result", "error"} => awaiting' = [awaiting EXCEPT ![m.id] = p]
      /\ m.type \in {"result", "error"} => awaiting' = [awaiting EXCEPT ![m.id] = q]
  BY ReplySettles
<1>2. m.id \in DOMAIN awaiting /\ p \in Promises /\ IsFor(p, m.of) BY <1>1, AwaitedPromise
<1>3. q \in Promises /\ q.ready /\ IsFor(q, m.of) BY <1>1, <1>2, PromiseSteps
<1>4. JsonOpen' = JsonOpen BY <1>1 DEF JsonOpen, callerVars
<1>5. Outcome(q) \in Answers BY <1>1, <1>3, OutcomeIsFor
<1> HIDE DEF q, p, m
<1>6. CASE m.type \notin {"result", "error"}
  BY <1>1, <1>2, <1>6, <1>4, QuietIsMapped DEF p, JcCore, PromisesMatch, callerVars
<1>7. CASE m.type \in {"result", "error"}
  <2> DEFINE C == {m.of} \cap JsonOpen
  <2>2. ASSUME NEW c \in Callers PROVE Shown'[c] = IF c \in C THEN Outcome(q) ELSE Shown[c]
    BY <1>1, <1>2, <1>3, <1>4, <1>7, AwaitedPromise DEF Shown, callerVars, JsonOpen, JcCore,
       CallsAreNumbered
  <2>4. JsonCalls!Give(C, Outcome(q)) BY <1>1, <1>4, <2>2 DEF JsonCalls!Give, Shown, callerVars
  <2>5. C \in SUBSET Callers BY <1>1
  <2> HIDE DEF C
  <2> QED BY <1>5, <2>4, <2>5 DEF JsonCalls!Next, JsonCalls!Give
<1> QED BY <1>6, <1>7

LEMMA CloseIsMapped ==
  ASSUME JcCore, FailAll, UNCHANGED callerVars
  PROVE  JsonCalls!Next
<1>2. \A c \in JsonOpen : /\ awaiting'[cid'[c]].ready /\ Outcome(awaiting'[cid'[c]]) = Closed
  BY AwaitedPromise, KindsDiffer DEF JsonOpen, Promises, SetException, Outcome, FailAll,
     callerVars
<1>4. JsonCalls!Give(JsonOpen, Closed) BY <1>2 DEF JsonCalls!Give, Shown, callerVars, JsonOpen
<1> QED BY <1>4, KindsDiffer DEF JsonCalls!Next, JsonOpen, callerVars

LEMMA StepIsMapped ==
  ASSUME JcCore, [JcNext]_jcVars
  PROVE  [JsonCalls!Next]_JsonCalls!callVars
<1>1. CASE UNCHANGED <<callerVars, awaiting>> BY <1>1, QuietIsMapped DEF callerVars, JsonOpen
<1> QED BY <1>1, StepKinds, IssueIsMapped, CallerIsMapped, ReplyIsMapped, CloseIsMapped

\* json_connection implements Calls: a call returns what was last put into its
\* promise before it ran, or that it was not sent, and puts nothing there itself.
THEOREM JsonImplements == JcSpec => JsonImplementsCalls
<1> QED BY CallsStart, StepIsMapped, JcAlways, PTL DEF JcSpec, JsonImplementsCalls, JsonCalls!Spec
----
(* Frames: a message is two entries of out, one when it is begun and one
   when it is ended. *)

Even(n) == n % 2 = 0

LEMMA EvenSteps == Even(0) /\ \A n \in Nat : Even(n + 1) <=> ~Even(n)
  BY DEF Even

\* Whoever has the mutex has begun the last frame.
WriterIsInFrame ==
  dtor = "no" /\ outOk = TRUE => /\ writer = NoOne <=> Even(Len(out))
                                 /\ writer # NoOne => out[Len(out)] = writer

FramesMatch == dtor = "no" => \A i \in 1..Len(out) : Even(i) => out[i] = out[i - 1]

HasFrame(c, n) == \E i \in 1..n : Even(i) /\ out[i] = c

Framing ==
  /\ out \in Seq(Callers \cup Nat) /\ flushed \in Nat /\ flushed <= Len(out)
  /\ WriterIsInFrame /\ FramesMatch
  /\ \A c \in Callers : /\ cpc[c] = "wait" => HasFrame(c, flushed)
                        /\ dtor # "no" => cpc[c] \notin {"lock", "write"}

LEMMA FramingStarts == JcInit => Framing
<1> SUFFICES ASSUME JcInit PROVE Framing OBVIOUS
<1> QED BY EmptySeq, EvenSteps DEF JcInit, Framing, WriterIsInFrame, FramesMatch

\* A step that writes nothing and takes no mutex.
LEMMA FramingRests ==
  ASSUME JcCore, Framing, UNCHANGED <<out, flushed>>,
         \/ UNCHANGED <<writer, outOk, dtor>>
         \/ UNCHANGED <<dtor, outOk>> /\ outOk # TRUE
         \/ dtor' # "no" /\ \A c \in Callers : cpc[c] \notin {"lock", "write"}
         \/ UNCHANGED <<dtor, writer>> /\ outOk' # TRUE,
         \A c \in Callers : /\ cpc'[c] = "wait" => cpc[c] = "wait"
                            /\ cpc'[c] \in {"lock", "write"} => cpc[c] \in {"lock", "write"} \/ dtor' = "no"
  PROVE  Framing'
  BY DEF Framing, WriterIsInFrame, FramesMatch, HasFrame

\* A frame is begun.
LEMMA FrameIsBegun ==
  ASSUME JcCore, Framing, NEW w \in Callers \cup Nat, OpenFrame(w), UNCHANGED <<flushed, outOk, dtor>>,
         \A c \in Callers : /\ cpc'[c] = "wait" => cpc[c] = "wait"
                            /\ cpc'[c] \in {"lock", "write"} => cpc[c] \in {"lock", "write"}
  PROVE  Framing'
<1>1. /\ out' \in Seq(Callers \cup Nat) /\ Len(out') = Len(out) + 1 /\ Len(out) \in Nat
      /\ out'[Len(out) + 1] = w /\ \A i \in 1..Len(out) : out'[i] = out[i]
  BY AppendProperties, LenProperties DEF Framing, OpenFrame
<1>2. w # NoOne BY JcAssumption
<1>3. WriterIsInFrame' BY <1>1, <1>2, EvenSteps DEF Framing, WriterIsInFrame, OpenFrame
<1>4. FramesMatch'
  <2> SUFFICES ASSUME dtor = "no", NEW i \in 1..Len(out'), Even(i) PROVE out'[i] = out'[i - 1]
    BY DEF FramesMatch
  <2>1. Even(Len(out)) BY DEF Framing, WriterIsInFrame, OpenFrame
  <2>2. i \in 1..Len(out) BY <1>1, <2>1, EvenSteps
  <2>3. i # 1 BY EvenSteps
  <2> QED BY <1>1, <2>2, <2>3 DEF Framing, FramesMatch
<1> QED BY <1>1, <1>3, <1>4 DEF Framing, HasFrame

\* A frame is ended, by a caller or by a handler, before the destructor or meanwhile.
LEMMA FrameIsEnded ==
  ASSUME JcCore, Framing, NEW w \in Callers \cup Nat, CloseFrame(w), UNCHANGED <<outOk, dtor>>,
         flushed' \in {flushed, Len(out')},
         \A c \in Callers : /\ cpc'[c] = "wait" => cpc[c] = "wait" \/ (c = w /\ flushed' = Len(out') /\ dtor = "no")
                            /\ cpc'[c] \in {"lock", "write"} => cpc[c] \in {"lock", "write"}
  PROVE  Framing'
<1>1. /\ out' \in Seq(Callers \cup Nat) /\ Len(out') = Len(out) + 1 /\ Len(out) \in Nat
      /\ out'[Len(out) + 1] = w /\ \A i \in 1..Len(out) : out'[i] = out[i]
  BY AppendProperties, LenProperties DEF Framing, CloseFrame
<1>3. dtor = "no" => ~Even(Len(out)) /\ out[Len(out)] = w
  BY JcAssumption DEF Framing, WriterIsInFrame, CloseFrame
<1>4. WriterIsInFrame' BY <1>1, JcAssumption, <1>3, EvenSteps DEF WriterIsInFrame, CloseFrame
<1>5. FramesMatch'
  <2> SUFFICES ASSUME dtor = "no", NEW i \in 1..Len(out'), Even(i) PROVE out'[i] = out'[i - 1]
    BY DEF FramesMatch
  <2>1. i # 1 BY EvenSteps
  <2>2. CASE i = Len(out) + 1 BY <1>1, <1>3, <2>1, <2>2
  <2>3. CASE i \in 1..Len(out) BY <1>1, <2>1, <2>3 DEF Framing, FramesMatch
  <2> QED BY <1>1, <2>2, <2>3
<1>7. ASSUME NEW c \in Callers, cpc'[c] = "wait" PROVE HasFrame(c, flushed)'
  <2>1. CASE cpc[c] = "wait" BY <1>1, <2>1 DEF Framing, HasFrame
  <2>2. CASE c = w /\ flushed' = Len(out') /\ dtor = "no"
    <3>1. Even(Len(out) + 1) BY <1>1, <1>3, <2>2, EvenSteps
    <3> QED BY <1>1, <2>2, <3>1 DEF HasFrame
  <2> QED BY <1>7, <2>1, <2>2
<1> QED BY <1>1, <1>4, <1>5, <1>7 DEF Framing

LEMMA FramingStays ==
  ASSUME JcCore, Framing, [JcNext]_jcVars
  PROVE  Framing'
<1>0. DOMAIN handlers \subseteq Nat /\ cpc \in [Callers -> {"idle", "lock", "write", "wait", "done"}]
  BY LenProperties DEF JcCore, MessagesFit, CallsAreNumbered
<1>1. ASSUME NEW c \in Callers, AsyncCall(c) \/ Notice(c) PROVE Framing'
  BY <1>0, <1>1, FramingRests DEF AsyncCall, Notice, wireVars
<1>2. ASSUME NEW c \in Callers, BeginWrite(c) PROVE Framing'
  BY <1>0, <1>2, FrameIsBegun DEF BeginWrite, wireVars
<1>3. ASSUME NEW c \in Callers, EndWrite(c) PROVE Framing'
  BY <1>3, <1>0, FrameIsEnded DEF EndWrite, Framing, wireVars
<1>4. ASSUME NEW c \in Callers, WriteFails(c) PROVE Framing'
  BY <1>0, <1>4, FramingRests DEF WriteFails, wireVars
<1>5. ASSUME NEW c \in Callers, Resume(c) PROVE Framing'
  BY <1>0, <1>5, FramingRests DEF Resume, wireVars
<1>6. ASSUME NEW k \in DOMAIN handlers, BeginReply(k) PROVE Framing'
  BY <1>0, <1>6, FrameIsBegun DEF BeginReply, wireVars, callerVars
<1>7. ASSUME NEW k \in DOMAIN handlers, EndReply(k) PROVE Framing'
  BY <1>0, <1>7, FrameIsEnded DEF EndReply, wireVars, callerVars
<1>8. ASSUME NEW k \in DOMAIN handlers, ReplyFails(k) PROVE Framing'
  BY <1>8, FramingRests DEF ReplyFails, wireVars, callerVars
<1>9. ASSUME NEW k \in DOMAIN handlers, Handle(k) \/ EndMethod(k) PROVE Framing'
  BY <1>9, FramingRests DEF Handle, HandleReply, HandleBadId, StartMethod, EndMethod, wireVars, callerVars
<1>10. CASE HandlerCanceled
  BY <1>10, FramingRests DEF HandlerCanceled, wireVars, callerVars, Framing
<1>11. CASE Exec \/ Read \/ LoopFails \/ LoopLeaves \/ PeerSends \/ UNCHANGED jcVars
  BY <1>11, FramingRests DEF Exec, Read, LoopFails, LoopLeaves, PeerSends, jcVars, callerVars
<1>12. CASE Destroy BY <1>12, FramingRests DEF Destroy, AfterLast, callerVars
<1>13. CASE LastEnded \/ LoopEnded
  BY <1>13, FramingRests DEF LastEnded, LoopEnded, AfterLast, callerVars, Framing
<1>14. CASE OutBreaks BY <1>14, FramingRests DEF OutBreaks, callerVars
<1> QED BY <1>1, <1>2, <1>3, <1>4, <1>5, <1>6, <1>7, <1>8, <1>9, <1>10, <1>11, <1>12, <1>13, <1>14
        DEF JcNext, Send

LEMMA FramingAlways == JcSpec => []Framing
<1> QED BY FramingStarts, FramingStays, JcAlways, PTL DEF JcSpec

\* _write_mutex: until the connection is destroyed no message is written into the
\* middle of another.
THEOREM JsonFramesWhole == JcSpec => []FramesWhole
<1>1. Framing => FramesWhole BY LenProperties DEF Framing, FramesMatch, FramesWhole, Even
<1> QED BY <1>1, FramingAlways, PTL

\* While a caller waits its request has left the buffer.
THEOREM JsonFlushes == JcSpec => []WaitingIsFlushed
<1>1. ASSUME JcCore, Framing PROVE WaitingIsFlushed
  BY <1>1 DEF JcCore, CallsAreNumbered, Framing, HasFrame, Even, WaitingIsFlushed, Requested
<1>2. JcCore /\ Framing => WaitingIsFlushed BY <1>1
<1> QED BY <1>2, JcAlways, FramingAlways, PTL

\* What json_connection puts on the wire is whole messages, and none that is waited for is kept.
THEOREM MessagesStayWhole == JcSpec => []MessagesAreWhole
BY JsonFramesWhole, JsonFlushes, PTL DEF MessagesAreWhole
====
