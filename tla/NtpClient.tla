---- MODULE NtpClient ----
(* ntp_impl (src/network/ntp.cpp): on a thread of its own a loop reads
   replies of time servers, and a task that schedules itself asks for them
   when the last valid one is old.  Requests and replies are datagrams:
   lost, duplicated, delayed, reordered.  Times are in microseconds there;
   here in a unit of which the limits below are small multiples. *)
EXTENDS Integers, FiniteSets

CONSTANTS Offsets,      \* what the clock of the servers may be ahead by
          Interval,     \* _request_interval_sec, less its 5 seconds of tolerance
          Retry,        \* _retry_failed_request_interval_sec
          Stale,        \* the longest round trip accepted: 300 ms
          Day,          \* the largest offset accepted
          MaxTime, MaxPackets, MaxErrors   \* bounds

ASSUME NpAssumption == /\ Offsets \subseteq Int /\ {Interval, Retry, Stale, Day} \subseteq Nat \ {0}
                       /\ {MaxTime, MaxPackets, MaxErrors} \subseteq Nat

VARIABLES clock, offset,    \* time_point::now(), and what the servers' is ahead
          requests, replies,    \* in the network: origin times; <<origin, server's time>>
          reading,          \* read_loop: starting, receiving, sleeping, ended
          wakes,            \* when it ends its sleep
          chain,            \* times request_time_task() is scheduled for, by number
          newest,           \* the number in _request_time_task_done
          valid,            \* _last_valid_ntp_reply_received_time
          delta, known,     \* _last_ntp_delta_microseconds and _initialized
          stopped,         \* the number of the task the destructor has stopped
          quits,            \* the destructor: no, canceling, done
          errors

npVars == <<clock, offset, requests, replies, reading, wakes, chain, newest, valid, delta, known,
            stopped, quits, errors>>
net == <<requests, replies>>
restVars == <<offset, known, quits, stopped, delta, wakes, valid, errors>>

Long == -(Interval + 1)   \* time_point(): long ago
NpInit == /\ clock = 0 /\ offset \in Offsets /\ requests = {} /\ replies = {}
          /\ reading = "starting" /\ wakes = 0 /\ chain = [n \in {} |-> 0] /\ newest = 0
          /\ valid = Long /\ delta = 0 /\ known = FALSE
          /\ stopped = -1 /\ quits = "no" /\ errors = 0
----
\* request_now(): a request with the time of now, if the host resolves.
RequestNow == \/ requests' = requests \cup {clock} /\ Cardinality(requests) < MaxPackets
              \/ requests' = requests

\* request_time_task(), run by the tasks in done or by the loop: it asks if the
\* last reply is old, and schedules itself unless the newest task is canceled.
RequestTimeTask(done) ==
  /\ IF valid <= clock - Interval THEN RequestNow ELSE UNCHANGED requests
  /\ LET rest == DOMAIN chain \ done
         goes == newest # stopped
     IN /\ newest' = IF goes THEN newest + 1 ELSE newest
        /\ chain' = [n \in rest \cup (IF goes THEN {newest + 1} ELSE {}) |->
                       IF n \in rest THEN chain[n] ELSE clock + Retry]

TaskRuns == /\ quits # "done"
            /\ \E n \in DOMAIN chain : chain[n] <= clock /\ RequestTimeTask({n})
            /\ UNCHANGED <<restVars, clock, replies, reading>>

\* The loop opens its socket and asks; every restart schedules one task more.
LoopStarts == /\ reading = "starting" /\ quits # "done" /\ reading' = "receiving"
              /\ RequestTimeTask({})
              /\ UNCHANGED <<restVars, clock, replies>>

\* The socket fails: it is closed, and opened again later.
LoopFails == /\ reading = "receiving" /\ errors < MaxErrors /\ errors' = errors + 1
             /\ reading' = "sleeping" /\ wakes' = clock + Retry
             /\ UNCHANGED <<clock, offset, net, chain, newest, valid, delta, known, stopped, quits>>

LoopWakes == /\ reading = "sleeping" /\ clock >= wakes /\ reading' = "starting"
             /\ UNCHANGED <<restVars, clock, net, chain, newest>>
----
\* C++ divides towards zero.
Half(n) == IF n >= 0 THEN n \div 2 ELSE -((-n) \div 2)

\* Fault: a reply is taken however long it was under way.
ReceiveStale(origin, server) ==
  LET measured == Half((server - origin) + (server - clock)) IN
  /\ UNCHANGED requests
  /\ IF measured < Day /\ measured > -Day
     THEN delta' = measured /\ known' = TRUE /\ valid' = clock
     ELSE UNCHANGED <<delta, known, valid>>

\* What the loop does with a reply: a stale one is asked for again, an offset of
\* more than a day is not believed.
Receive(origin, server) ==
  LET measured == Half((server - origin) + (server - clock)) IN
  IF clock - origin > Stale
  THEN RequestNow /\ UNCHANGED <<delta, known, valid>>
  ELSE /\ UNCHANGED requests
       /\ IF measured < Day /\ measured > -Day
          THEN delta' = measured /\ known' = TRUE /\ valid' = clock
          ELSE UNCHANGED <<delta, known, valid>>

\* A reply is read; the network may keep a copy of it.
Reply == /\ reading = "receiving"
         /\ \E r \in replies : /\ Receive(r[1], r[2])
                               /\ replies' \in {replies, replies \ {r}}
         /\ UNCHANGED <<clock, offset, reading, wakes, chain, newest, stopped, quits, errors>>

\* A server answers with its time, or the request is lost, or a reply is.
Serve == /\ \/ \E t \in requests : /\ requests' = requests \ {t}
                                   /\ replies' \in {replies, replies \cup {<<t, clock + offset>>}}
                                   /\ Cardinality(replies') <= MaxPackets
            \/ \E r \in replies : replies' = replies \ {r} /\ UNCHANGED requests
         /\ UNCHANGED <<restVars, clock, reading, chain, newest>>

NpTick == /\ clock < MaxTime /\ clock' = clock + 1
          /\ UNCHANGED <<restVars, net, reading, chain, newest>>

\* ~ntp(): the newest task is stopped, then the loop; then the thread is gone.
DestroyNtp == /\ \/ /\ quits = "no" /\ quits' = "canceling"
                    /\ stopped' = (IF newest = 0 THEN -1 ELSE newest)
                    /\ chain' = [n \in DOMAIN chain \ {newest} |-> chain[n]] /\ UNCHANGED reading
                 \/ /\ quits = "canceling" /\ quits' = "done" /\ reading' = "ended"
                    /\ chain' = [n \in {} |-> 0] /\ UNCHANGED stopped
              /\ UNCHANGED <<clock, offset, net, wakes, newest, valid, delta, known, errors>>

\* ntp::request_now(), and request_now() of the program.
UserAsks == /\ quits = "no" /\ RequestNow
            /\ UNCHANGED <<restVars, clock, replies, reading, chain, newest>>

NpNext == TaskRuns \/ LoopStarts \/ LoopFails \/ LoopWakes \/ Reply \/ Serve \/ NpTick
          \/ UserAsks \/ DestroyNtp

NpSpec == NpInit /\ [][NpNext]_npVars
----
(* Properties. *)

\* The domain of every variable.  Requests are of the past, and so are replies.
NpTypeOK ==
  /\ clock \in 0..MaxTime /\ offset \in Offsets /\ requests \subseteq 0..clock
  /\ \A r \in replies : r[1] \in 0..clock /\ r[2] - offset \in r[1]..clock
  /\ reading \in {"starting", "receiving", "sleeping", "ended"} /\ wakes \in 0..MaxTime + Retry
  /\ \A n \in DOMAIN chain : n \in 1..newest /\ chain[n] \in 0..MaxTime + Retry
  /\ valid \in Long..clock /\ delta \in -Day..Day /\ known \in BOOLEAN
  /\ stopped \in -1..newest /\ quits \in {"no", "canceling", "done"} /\ errors \in 0..MaxErrors

\* What get_time() adds to the clock is off by no more than half the round trip
\* that is accepted, whatever the network did to the reply it comes from.
DeltaIsAccurate ==
  known => /\ 2 * (delta - offset) <= Stale + 1
           /\ 2 * (offset - delta) <= Stale + 1

\* While the object lives, a request is made again and again however many are
\* lost: a task is scheduled, not further ahead than the retry interval.
RequestsGoOn ==
  quits = "no" /\ reading \in {"receiving", "sleeping"}
  => \E n \in DOMAIN chain : chain[n] <= clock + Retry

\* The client keeps the time it has, and keeps asking.
NtpKeepsTime == NpTypeOK /\ DeltaIsAccurate /\ RequestsGoOn
====
