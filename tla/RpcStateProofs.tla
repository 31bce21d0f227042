---- MODULE RpcStateProofs ----
(* Theorems about fc::rpc::state, for any number of callers and of
   messages, whatever the peer repeats or reorders.  Numbers are given
   once, so a promise belongs to one caller; the entry of _awaiting goes
   when the promise is settled, so the first answer stands. *)
EXTENDS RpcState, FiniteSetTheorems, SequenceTheorems, TLAPS

ReplyTypes == {"value", "error", "null"}
Messages == [type : ReplyTypes, id : Nat, of : RpcCallers]
            \cup [type : {"method", "garbage"}, id : {0}, of : {NoCaller}]

RsDomains ==
  /\ nextRequest \in Nat \ {0}
  /\ promise \in Seq(RpcAnswers \cup {NoAnswer}) /\ Len(promise) = nextRequest - 1
  /\ pending \subseteq 1..nextRequest - 1
  /\ rid \in [RpcCallers -> Nat] /\ \A c \in RpcCallers : rid[c] < nextRequest
  /\ rpc \in [RpcCallers -> {"idle", "send", "look", "wait", "done"}]
  /\ rgot \in [RpcCallers -> RpcAnswers \cup {NoAnswer, NotSent, Lost}] /\ net \in Seq(Messages)
  /\ peerSent \in 0..MaxMessages /\ running \in Nat /\ Len(net) + running <= peerSent
  /\ socket \in BOOLEAN /\ stateGone \in BOOLEAN

\* A number is that of one caller, who has begun.
NumbersAreOwn ==
  /\ \A c \in RpcCallers : rpc[c] = "idle" <=> rid[c] = 0
  /\ \A c, d \in RpcCallers : rid[c] = rid[d] /\ rid[c] # 0 => c = d

Made == {c \in RpcCallers : rid[c] # 0}
NumbersAreCounted == nextRequest = Cardinality(Made) + 1

\* Whatever carries an answer carries the one to its number.
Fits(m) == m.type \in ReplyTypes =>
    /\ m.id \in 1..nextRequest - 1
    /\ \A c \in RpcCallers : m.id = rid[c] => m.of = c

AnswersMatch ==
  /\ \A j \in 1..Len(net) : Fits(net[j])
  /\ \A c \in RpcCallers : rid[c] # 0 /\ promise[rid[c]].kind \in ReplyTypes =>
        promise[rid[c]].of = c
  /\ \A c \in RpcCallers : rgot[c].kind \in ReplyTypes => rgot[c].of = c

RsInductive == RsDomains /\ NumbersAreOwn /\ NumbersAreCounted /\ AwaitedIsUnsettled /\ AnswersMatch
----
LEMMA KindsDiffer ==
  /\ NoAnswer \notin RpcAnswers /\ NotSent \notin RpcAnswers /\ NotSent # NoAnswer
  /\ NoAnswer.kind = "nothing" /\ NotSent.kind = "unsent" /\ Lost.kind = "lost" /\ RpcClosed.kind = "closed"
  /\ RpcClosed \in RpcAnswers
  /\ \A t \in ReplyTypes, c \in RpcCallers :
        RpcAnswer(t, c) \in RpcAnswers /\ RpcAnswer(t, c).kind = t /\ RpcAnswer(t, c).of = c
<1>1. /\ NoAnswer.kind = "nothing" /\ NotSent.kind = "unsent" /\ Lost.kind = "lost"
      /\ RpcClosed.kind = "closed" /\ RpcClosed \in RpcAnswers
  BY DEF NoAnswer, NotSent, Lost, RpcClosed, RpcAnswer, RpcAnswers
<1>2. \A a \in RpcAnswers : a.kind \in {"value", "error", "null", "closed"}
  BY <1>1 DEF RpcAnswer, RpcAnswers
<1>3. \A t \in ReplyTypes, c \in RpcCallers :
        RpcAnswer(t, c) \in RpcAnswers /\ RpcAnswer(t, c).kind = t /\ RpcAnswer(t, c).of = c
  BY DEF ReplyTypes, RpcAnswers, RpcAnswer
<1> QED BY <1>1, <1>2, <1>3

LEMMA RsStart == RsInit => RsInductive
<1> SUFFICES ASSUME RsInit PROVE RsInductive OBVIOUS
<1>1. RsDomains
  <2>6. socket \in BOOLEAN /\ stateGone \in BOOLEAN BY Zenon DEF RsInit
  <2>5. Len(net) + running <= peerSent BY DEF RsInit
  <2> QED BY RsAssumption, <2>6 DEF RsDomains, RsInit
<1>2. NumbersAreCounted BY FS_EmptySet DEF RsInit, Made, NumbersAreCounted
<1>3. NumbersAreOwn /\ AwaitedIsUnsettled BY DEF RsInit, NumbersAreOwn, AwaitedIsUnsettled
<1>4. AnswersMatch BY KindsDiffer DEF RsInit, AnswersMatch, ReplyTypes
<1> QED BY <1>1, <1>2, <1>3, <1>4 DEF RsInductive

\* start_remote_call().
LEMMA StartKeeps ==
  ASSUME RsInductive, NEW c \in RpcCallers, Start(c)
  PROVE  RsInductive'
<1> USE DEF RsInductive
<1>1. /\ nextRequest' = nextRequest + 1 /\ nextRequest \in Nat \ {0} /\ Len(promise) = nextRequest - 1
      /\ rid' = [rid EXCEPT ![c] = nextRequest] /\ rpc' = [rpc EXCEPT ![c] = "send"]
      /\ promise' = Append(promise, NoAnswer) /\ pending' = pending \cup {nextRequest}
      /\ UNCHANGED <<rgot, net, peerSent, running, socket, stateGone>> /\ rid[c] = 0
  BY DEF Start, RsDomains, NumbersAreOwn
<1>2. /\ promise' \in Seq(RpcAnswers \cup {NoAnswer}) /\ Len(promise') = nextRequest
      /\ promise'[nextRequest] = NoAnswer
      /\ \A i \in 1..nextRequest - 1 : promise'[i] = promise[i]
  BY <1>1 DEF RsDomains
<1>3. RsDomains' BY <1>1 DEF RsDomains
<1>4. NumbersAreOwn' BY <1>1 DEF NumbersAreOwn, RsDomains
<1>5. NumbersAreCounted'
  <2>2. IsFiniteSet(Made) BY RsAssumption, FS_Subset DEF Made
  <2>3. Cardinality(Made \cup {c}) = Cardinality(Made) + 1
    BY <1>1, <2>2, FS_AddElement DEF Made
  <2> QED BY <1>1, <2>3 DEF NumbersAreCounted, Made, RsDomains
<1>6. AwaitedIsUnsettled' BY <1>1 DEF AwaitedIsUnsettled
<1>7. AnswersMatch' BY <1>1, KindsDiffer DEF AnswersMatch, Fits, RsDomains, ReplyTypes
<1> QED BY <1>3, <1>4, <1>5, <1>6, <1>7

\* A step that gives no number and settles nothing keeps what is said of both.
LEMMA NumbersStay ==
  ASSUME RsInductive, UNCHANGED <<nextRequest, pending, promise, rid>>,
         \A c \in RpcCallers : rpc'[c] = "idle" <=> rpc[c] = "idle"
  PROVE  NumbersAreOwn' /\ NumbersAreCounted' /\ AwaitedIsUnsettled'
<1>1. Made' = Made BY DEF Made
<1> QED BY <1>1 DEF RsInductive, NumbersAreOwn, NumbersAreCounted, AwaitedIsUnsettled

\* send_message() and wait_for_response() of a caller.
LEMMA CallStepKeeps ==
  ASSUME RsInductive, NEW c \in RpcCallers, CallStep(c)
  PROVE  RsInductive'
<1> USE DEF RsInductive
<1>1. PICK to \in {"look", "wait", "done"}, a \in RpcAnswers \cup {NoAnswer, NotSent, Lost} :
          /\ rpc[c] # "idle" /\ rpc' = [rpc EXCEPT ![c] = to] /\ rgot' = [rgot EXCEPT ![c] = a]
          /\ a.kind \in ReplyTypes => a.of = c
  <2>1. CASE SendRequest(c) \/ Look(c)
    BY <2>1, KindsDiffer DEF SendRequest, Look, RsDomains, ReplyTypes, AnswersMatch
  <2>2. CASE Resumed(c)
    <3>1. rid[c] \in 1..Len(promise) BY <2>2 DEF Resumed, RsDomains, NumbersAreOwn
    <3>2. promise[rid[c]] \in RpcAnswers \cup {NoAnswer} BY <3>1 DEF RsDomains
    <3>3. promise[rid[c]].kind \in ReplyTypes => promise[rid[c]].of = c BY <3>1 DEF AnswersMatch
    <3> QED BY <2>2, <3>2, <3>3 DEF Resumed
  <2> QED BY <2>1, <2>2 DEF CallStep
<1>2. UNCHANGED <<nextRequest, pending, promise, rid, net, peerSent, running, socket, stateGone>>
  BY DEF CallStep, SendRequest, Look, Resumed
<1>4. RsDomains' BY <1>1, <1>2 DEF RsDomains
<1>5. AnswersMatch' BY <1>1, <1>2 DEF AnswersMatch, Fits
<1> QED BY <1>1, <1>2, NumbersStay, <1>4, <1>5

\* A message is taken from the net.
LEMMA TakeShortens ==
  ASSUME RsInductive, NEW types, Take(types)
  PROVE  /\ net' \in Seq(Messages) /\ Len(net') = Len(net) - 1 /\ Len(net) \in Nat \ {0}
         /\ \A j \in 1..Len(net') : Fits(net'[j])
         /\ net[1] \in Messages /\ net[1].type \in types /\ Fits(net[1])
<1>1. net # <<>> /\ net' = SubSeq(net, 2, Len(net)) /\ net \in Seq(Messages) /\ net[1].type \in types
  BY DEF Take, RsInductive, RsDomains
<1>2. Len(net) \in Nat \ {0} BY <1>1
<1>4. /\ net' \in Seq(Messages) /\ Len(net') = Len(net) - 1
      /\ \A i \in 1..Len(net) - 1 : net'[i] = net[i + 1]
  BY <1>1, TailIsSubSeq, HeadTailProperties
<1>5. \A i \in 1..Len(net) : Fits(net[i]) BY DEF RsInductive, AnswersMatch
<1> QED BY <1>1, <1>4, <1>5

\* handle_reply(): the promise of the number and its entry.
LEMMA ReplyKeeps ==
  ASSUME RsInductive, HandleResponse
  PROVE  RsInductive'
<1> USE DEF RsInductive
<1> DEFINE m == net[1]
<1>1. /\ net' \in Seq(Messages) /\ Len(net') = Len(net) - 1 /\ Len(net) \in Nat \ {0}
      /\ \A j \in 1..Len(net') : Fits(net'[j])
      /\ m \in Messages /\ m.type \in ReplyTypes /\ Fits(m)
  BY TakeShortens DEF HandleResponse, ReplyTypes
<1>2. /\ UNCHANGED <<nextRequest, rid, rpc, rgot, peerSent, running, socket, stateGone>>
      /\ m.id \in pending => /\ promise' = [promise EXCEPT ![m.id] = RpcAnswer(m.type, m.of)]
                             /\ pending' = pending \ {m.id}
      /\ m.id \notin pending => UNCHANGED <<promise, pending>>
  BY DEF HandleResponse
<1>3. /\ m.id \in 1..Len(promise) /\ RpcAnswer(m.type, m.of) \in RpcAnswers
      /\ \A c \in RpcCallers : rid[c] = m.id => m.of = c
  BY <1>1, KindsDiffer DEF Fits, RsDomains, Messages
<1>4. /\ promise' \in Seq(RpcAnswers \cup {NoAnswer}) /\ Len(promise') = Len(promise)
      /\ \A i \in 1..Len(promise) : promise'[i] =
            IF i = m.id /\ m.id \in pending THEN RpcAnswer(m.type, m.of) ELSE promise[i]
  <2>1. CASE m.id \in pending
    <3>2. promise \in Seq(RpcAnswers \cup {NoAnswer}) BY DEF RsDomains
    <3> HIDE DEF RsInductive, m
    <3> QED BY <1>3, <1>2, <3>2
  <2>2. CASE m.id \notin pending BY <1>2, <2>2 DEF RsDomains
  <2> QED BY <2>1, <2>2
<1>5. RsDomains'
  <2>1. Len(net') + running <= peerSent /\ pending' \subseteq pending BY <1>1, <1>2 DEF RsDomains
  <2> QED BY <1>1, <1>2, <1>4, <2>1 DEF RsDomains
<1>6. NumbersAreOwn' /\ NumbersAreCounted' BY <1>2 DEF Made, NumbersAreOwn, NumbersAreCounted
<1>7. AwaitedIsUnsettled' BY <1>2, <1>3, KindsDiffer DEF AwaitedIsUnsettled
<1>8. AnswersMatch' BY <1>4, <1>1, <1>2 DEF RsDomains, RpcAnswer, AnswersMatch, Fits
<1> QED BY <1>5, <1>6, <1>7, <1>8

\* ~state(): the promises of all the entries.
LEMMA DestroyKeeps ==
  ASSUME RsInductive, DestroyState
  PROVE  RsInductive'
<1> USE DEF RsInductive
<1>1. /\ UNCHANGED <<nextRequest, rid, rpc, rgot, net, peerSent, running, socket>>
      /\ stateGone' = TRUE /\ pending' = {}
      /\ promise' = [i \in 1..Len(promise) |-> IF i \in pending THEN RpcClosed ELSE promise[i]]
  BY DEF DestroyState
<1>2. /\ promise' \in Seq(RpcAnswers \cup {NoAnswer}) /\ Len(promise') = Len(promise)
      /\ \A i \in 1..Len(promise) : promise'[i] = IF i \in pending THEN RpcClosed ELSE promise[i]
  BY <1>1 DEF RsDomains, RpcAnswers
<1>3. RsDomains' BY <1>1, <1>2 DEF RsDomains
<1>4. NumbersAreOwn' /\ NumbersAreCounted' BY <1>1 DEF Made, NumbersAreOwn, NumbersAreCounted
<1>5. AwaitedIsUnsettled' BY <1>1, KindsDiffer DEF AwaitedIsUnsettled
<1>6. ASSUME NEW c \in RpcCallers, rid[c] # 0, promise'[rid[c]].kind \in ReplyTypes
      PROVE  promise'[rid[c]] = promise[rid[c]]
  <2>1. rid[c] \in 1..Len(promise) BY <1>6 DEF RsDomains
  <2>2. RpcClosed.kind \notin ReplyTypes BY KindsDiffer DEF ReplyTypes
  <2> QED BY <1>2, <1>6, <2>1, <2>2
<1>7. AnswersMatch' BY <1>1, <1>6 DEF AnswersMatch, Fits
<1> QED BY <1>3, <1>4, <1>5, <1>7

\* Everything else leaves the promises alone.
LEMMA OthersKeep ==
  ASSUME RsInductive,
         ReceiveCall \/ Garbage \/ FinishCall \/ PeerReplies \/ SocketCloses
  PROVE  RsInductive'
<1> USE DEF RsInductive
<1>1. UNCHANGED <<nextRequest, pending, promise, rid, rpc, rgot, stateGone>>
  BY DEF ReceiveCall, Garbage, FinishCall, PeerReplies, SocketCloses
<1>2. NumbersAreOwn' /\ NumbersAreCounted' /\ AwaitedIsUnsettled' BY <1>1, NumbersStay
<1>3. CASE ReceiveCall \/ Garbage
  <2>1. /\ net' \in Seq(Messages) /\ Len(net') = Len(net) - 1
        /\ Len(net) \in Nat \ {0} /\ \A j \in 1..Len(net') : Fits(net'[j])
    BY <1>3, TakeShortens DEF ReceiveCall, Garbage
  <2>2. RsDomains' BY <1>1, <1>3, <2>1 DEF RsDomains, ReceiveCall, Garbage
  <2>3. AnswersMatch' BY <1>1, <2>1 DEF AnswersMatch, Fits
  <2> QED BY <1>2, <2>2, <2>3
<1>4. CASE FinishCall \/ SocketCloses
  <2>1. Len(net) \in Nat OBVIOUS
  <2>2. RsDomains'
    <3>2. Len(net) + running' <= peerSent
      BY <2>1, RsAssumption, <1>4 DEF RsDomains, FinishCall, SocketCloses
    <3>3. socket' \in BOOLEAN BY <1>4, Zenon DEF RsDomains, FinishCall, SocketCloses
    <3> QED BY <1>1, <1>4, <3>3 DEF RsDomains, FinishCall, SocketCloses
  <2>3. AnswersMatch' BY <1>4 DEF AnswersMatch, Fits, FinishCall, SocketCloses
  <2> QED BY <1>2, <2>2, <2>3
<1>5. CASE PeerReplies
  BY <1>5, AppendProperties, RsAssumption, <1>2 DEF PeerReplies, Messages, ReplyTypes, Asked,
     RsDomains, NumbersAreOwn, Fits, AnswersMatch
<1> QED BY <1>3, <1>4, <1>5

LEMMA RsStepKeeps == RsInductive /\ [RsNext]_rsVars => RsInductive'
<1> SUFFICES ASSUME RsInductive, [RsNext]_rsVars PROVE RsInductive' OBVIOUS
<1>1. CASE UNCHANGED rsVars
  BY <1>1, NumbersStay DEF rsVars, RsInductive, RsDomains, AnswersMatch, Fits
<1>2. CASE RsNext
  BY <1>2, StartKeeps, CallStepKeeps, ReplyKeeps, DestroyKeeps, OthersKeep DEF RsNext, HandleOne
<1> QED BY <1>1, <1>2

LEMMA RsAlways == RsSpec => []RsInductive
  BY RsStart, RsStepKeeps, PTL DEF RsSpec

\* The domains of the members of rpc::state, of its callers and of the socket; there
\* are no more requests than callers and no more methods than messages.
THEOREM RpcTypes == RsSpec => []RsTypeOK
<1>1. ASSUME RsInductive PROVE RsTypeOK
  <2>1. nextRequest <= Cardinality(RpcCallers) + 1
    BY RsAssumption, FS_Subset, FS_CardinalityType, <1>1 DEF Made, RsInductive,
       NumbersAreCounted
  <2>3. Len(net) \in Nat OBVIOUS
  <2> QED
    BY <1>1, <2>1, LenProperties, ElementOfSeq, <2>3, RsAssumption DEF RsInductive, RsDomains,
      RsTypeOK
<1> QED BY <1>1, RsAlways, PTL

\* handle_reply() and close() settle each promise once: a number is in _awaiting as
\* long as its promise is open.
THEOREM RpcSettlesOnce == RsSpec => []AwaitedIsUnsettled
<1>1. RsInductive => AwaitedIsUnsettled BY DEF RsInductive
<1> QED BY <1>1, RsAlways, PTL

\* wait_for_response() returns the answer to the caller's own request.
THEOREM RpcAnswersOwn == RsSpec => []RpcOwnAnswer
<1>1. RsInductive => RpcOwnAnswer BY DEF RsInductive, AnswersMatch, RpcOwnAnswer, ReplyTypes
<1> QED BY <1>1, RsAlways, PTL
----
(* Refinement: rpc::state, used from one thread, implements Calls. *)

\* Between two statements of send_call() the entry cannot go, and a call that has not
\* returned has returned nothing.
RsCalling ==
  /\ \A c \in RpcCallers : rpc[c] \in {"send", "look"} => rid[c] \in pending
  /\ \A c \in RpcCallers : rpc[c] # "done" => rgot[c] = NoAnswer

LEMMA CallingStarts == RsInit => RsCalling
  BY DEF RsInit, RsCalling

LEMMA CallingStays ==
  ASSUME OneThread = TRUE, RsInductive, RsCalling, [RsNext]_rsVars
  PROVE  RsCalling'
<1> USE DEF RsCalling
<1>1. CASE UNCHANGED rsVars BY <1>1 DEF rsVars
<1>2. ASSUME NEW c \in RpcCallers, Start(c) PROVE RsCalling'
  BY <1>2 DEF Start, RsInductive, RsDomains
<1>3. ASSUME NEW c \in RpcCallers, CallStep(c) PROVE RsCalling'
  BY <1>3 DEF CallStep, SendRequest, Look, Resumed, RsInductive, RsDomains
<1>4. CASE HandleResponse \/ DestroyState
  BY <1>4, RsAssumption DEF HandleResponse, DestroyState, Take, OthersRun, Between
<1>5. CASE ReceiveCall \/ Garbage \/ FinishCall \/ PeerReplies \/ SocketCloses
  BY <1>5 DEF ReceiveCall, Garbage, FinishCall, PeerReplies, SocketCloses
<1> QED BY <1>1, <1>2, <1>3, <1>4, <1>5 DEF RsNext, HandleOne

\* What the mapping makes of promise and rid.
Shown == [c \in RpcCallers |-> IF c \in RpcOpen THEN promise[rid[c]] ELSE NoAnswer]

LEMMA CallsStart == RsInit => RpcCalls!Init
  BY DEF RsInit, RpcCalls!Init, RpcOpen

LEMMA IssueIsMapped ==
  ASSUME RsInductive, RsCalling, NEW c \in RpcCallers, Start(c)
  PROVE  RpcCalls!Next
<1>1. /\ rpc[c] = "idle" /\ rid' = [rid EXCEPT ![c] = nextRequest] /\ rpc' = [rpc EXCEPT ![c] = "send"]
      /\ promise' = Append(promise, NoAnswer) /\ rgot' = rgot /\ Len(promise) = nextRequest - 1
  BY DEF Start, RsInductive, RsDomains
<1>3. RpcOpen' = RpcOpen \cup {c} /\ c \notin RpcOpen BY <1>1 DEF RpcOpen, RsInductive, RsDomains
<1>4. ASSUME NEW d \in RpcCallers PROVE Shown'[d] = Shown[d]
  BY <1>1 DEF Shown, RsInductive, RsDomains, NumbersAreOwn, RpcOpen
<1>5. Shown' = Shown BY <1>4 DEF Shown
<1>6. RpcCalls!Issue(c) BY <1>1, <1>3, <1>5 DEF RpcCalls!Issue, Shown, RsCalling
<1> QED BY <1>6 DEF RpcCalls!Next

LEMMA ReturnIsMapped ==
  ASSUME RsInductive, RsCalling, NEW c \in RpcCallers, CallStep(c)
  PROVE  RpcCalls!Next \/ UNCHANGED RpcCalls!callVars
<1>1. UNCHANGED <<promise, rid>> BY DEF CallStep, SendRequest, Look, Resumed
<1>2. CASE rpc' = [rpc EXCEPT ![c] = "look"] \/ rpc' = [rpc EXCEPT ![c] = "wait"]
  BY <1>2 DEF RpcOpen, CallStep, SendRequest, Look, Resumed, RsInductive, RsDomains,
     RpcCalls!callVars
<1>3. CASE rpc' = [rpc EXCEPT ![c] = "done"]
  BY <1>3 DEF RpcOpen, CallStep, SendRequest, Look, Resumed, RsInductive, RsDomains, RsCalling,
     RpcCalls!Return, RpcCalls!Next
<1> QED BY <1>2, <1>3 DEF CallStep, SendRequest, Look, Resumed

LEMMA SettlingIsMapped ==
  ASSUME RsInductive, HandleResponse \/ DestroyState
  PROVE  RpcCalls!Next \/ UNCHANGED RpcCalls!callVars
<1> DEFINE m == net[1]
<1>3. CASE HandleResponse /\ m.id \notin pending
  BY <1>3 DEF HandleResponse, RpcCalls!callVars, RpcOpen
<1>4. PICK who \in SUBSET (1..Len(promise)), a \in RpcAnswers :
         \/ HandleResponse /\ m.id \notin pending
         \/ /\ who \subseteq pending
            /\ \A i \in 1..Len(promise) : promise'[i] = IF i \in who THEN a ELSE promise[i]
  <2>1. pending \subseteq 1..Len(promise) BY DEF RsInductive, RsDomains
  <2>2. CASE HandleResponse
    <3>2. RpcAnswer(m.type, m.of) \in RpcAnswers
      BY <2>2, TakeShortens, KindsDiffer DEF Messages, HandleResponse
    <3>3. CASE m.id \in pending
      <4>1. \A i \in 1..Len(promise) : promise'[i] = IF i \in {m.id} THEN RpcAnswer(m.type, m.of) ELSE promise[i]
        <5>1. promise' = [promise EXCEPT ![m.id] = RpcAnswer(m.type, m.of)] /\ m.id \in 1..Len(promise)
          BY <2>1, <2>2, <3>3 DEF HandleResponse
        <5> HIDE DEF m
        <5> QED BY <5>1
      <4> QED BY <2>1, <3>2, <3>3, <4>1
    <3> QED BY <2>2, <3>2, <3>3
  <2>3. CASE DestroyState
    <3>1. DOMAIN promise = 1..Len(promise) OBVIOUS
    <3> HIDE DEF m
    <3> QED BY <2>3, <3>1, <2>1, KindsDiffer, Zenon DEF DestroyState
  <2> QED BY <2>2, <2>3
<1>5. CASE ~(HandleResponse /\ m.id \notin pending)
  <2> DEFINE C == {c \in RpcOpen : rid[c] \in who}
  <2>3. RpcCalls!Give(C, a)
    BY LenProperties, <1>4, <1>5 DEF RpcCalls!Give, Shown, RpcOpen, RsInductive, RsDomains,
      NumbersAreOwn, HandleResponse, DestroyState, AwaitedIsUnsettled
  <2> QED
    BY <2>3 DEF RpcCalls!Next, RpcOpen
<1> QED BY <1>3, <1>5

LEMMA StepIsMapped ==
  ASSUME RsInductive, RsCalling, [RsNext]_rsVars
  PROVE  [RpcCalls!Next]_RpcCalls!callVars
<1>1. CASE UNCHANGED rsVars BY <1>1 DEF rsVars, RpcCalls!callVars, RpcOpen
<1>2. ASSUME NEW c \in RpcCallers, Start(c) PROVE RpcCalls!Next BY <1>2, IssueIsMapped
<1>3. ASSUME NEW c \in RpcCallers, CallStep(c) PROVE RpcCalls!Next \/ UNCHANGED RpcCalls!callVars
  BY <1>3, ReturnIsMapped
<1>4. CASE HandleResponse \/ DestroyState BY <1>4, SettlingIsMapped
<1>5. CASE ReceiveCall \/ Garbage \/ FinishCall \/ PeerReplies \/ SocketCloses
  BY <1>5 DEF ReceiveCall, Garbage, FinishCall, PeerReplies, SocketCloses, RpcCalls!callVars, RpcOpen
<1> QED BY <1>1, <1>2, <1>3, <1>4, <1>5 DEF RsNext, HandleOne

\* rpc::state, used from one thread, implements Calls with final answers: a call
\* returns the first answer to it, and neither a second reply nor the close nor a
\* number nobody asked for changes that.
THEOREM RpcImplements ==
  ASSUME OneThread = TRUE
  PROVE  RsSpec => RpcImplementsCalls
<1> QED
  BY CallingStarts, CallsStart, CallingStays, StepIsMapped, RsAlways, PTL DEF RsSpec,
    RpcImplementsCalls, RpcCalls!Spec
====
