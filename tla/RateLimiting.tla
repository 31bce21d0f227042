---- MODULE RateLimiting ----
(* How process_pending_operations() of rate_limiting.cpp divides tokens
   among operations: the shortest first, each an equal share of what is
   left at its turn and never more than its length. *)
EXTENDS Integers, Sequences, SequencesExt, FiniteSets, TLC

Least(a, b) == IF a < b THEN a ELSE b

\* operations_sorted_by_length, from its back.
ShortestFirst(ops, length) == SortSeq(ops, LAMBDA a, b : length[a] < length[b])

\* What every operation of the sequence ops gets of n tokens, and what is left.
Divide(n, ops, length) ==
  LET share(grant, o) ==
          LET part == Least(length[o], grant.left \div grant.waiting) IN
          [left |-> grant.left - part, waiting |-> grant.waiting - 1,
           given |-> [grant.given EXCEPT ![o] = part]]
  IN FoldLeft(share,
              [left |-> n, waiting |-> Len(ops), given |-> [o \in DOMAIN length |-> 0]],
              ShortestFirst(ops, length))

Total(given) == FoldFunction(LAMBDA a, b : a + b, 0, given)
----
\* No token is lost or made, nobody gets more than it asked for, nobody less than
\* an equal share or what it asked for, and nothing is left while one wants more.
DivisionIsFair(n, length) ==
  LET ops == DOMAIN length
      grant == Divide(n, SetToSeq(ops), length)
  IN /\ grant.left + Total(grant.given) = n
     /\ \A o \in ops : /\ grant.given[o] <= length[o]
                       /\ grant.given[o] >= Least(length[o], n \div Cardinality(ops))
                       /\ grant.left > 0 => grant.given[o] = length[o]

----
(* One direction of rate_limiting_group_impl (src/network/rate_limiting.cpp; reads and writes are
   the same code twice): fibers queue operations; a loop fiber turns the time since its last
   iteration into tokens, divides them, and starts the operations that got some. It sleeps for one
   granularity while operations wait, else until it is told. Time is counted in granularities of 50
   ms. `budget' belongs to no code: it is the level of an ideal leaky bucket, in bytes times
   TicksPerSecond, that gains the highest limit with each tick and loses what the operations take.
   *)

CONSTANTS Operations,      \* fibers that read (or write)
          Lengths,         \* how much they ask for
          Limits,          \* what set_download_limit() is called with; 0 is no limit
          Burst,           \* _burstiness_in_seconds
          TicksPerSecond,
          MaxChanges,      \* bounds the calls of set_download_limit()
          Word             \* 2^32: tokens are uint32_t

MaxLimit == CHOOSE l \in Limits : \A m \in Limits : m <= l
Capacity == TicksPerSecond * MaxLimit * (Burst + 1)

\* A token for every operation in one granularity: with less, the division in
\* process_pending_operations() can yield nothing for the shortest operation
\* for ever.  And no sum of tokens wraps.
ASSUME RateAssumption ==
  /\ Limits \subseteq Nat /\ MaxLimit > 0 /\ Burst \in Nat \ {0}
  /\ \A l \in Limits \ {0} : l >= TicksPerSecond * Cardinality(Operations)
  /\ \A n \in Lengths : n \in Nat \ {0}
  /\ \A n \in Lengths : Word > (Burst + 1) * MaxLimit + (MaxChanges + 1) * n * Cardinality(Operations)

VARIABLES limit,      \* _download_bytes_per_second
          tokens, unused,   \* _read_tokens, _unused_read_tokens
          progress,   \* _read_operations_in_progress
          next,       \* _read_operations_for_next_iteration
          since,      \* ticks since _last_read_iteration_time, up to a second
          loop,       \* process_pending_reads: none, starting, waiting, told
          state,      \* of each operation: idle, queued, started
          length, permitted,   \* the operation's members
          budget, changes

rlVars == <<limit, tokens, unused, progress, next, since, loop, state, length, permitted,
            budget, changes>>
opVars == <<state, length, permitted>>

RlInit == /\ limit \in Limits /\ tokens = limit /\ unused = 0 /\ progress = <<>> /\ next = <<>>
          /\ since = TicksPerSecond /\ loop = "none" /\ state = [o \in Operations |-> "idle"]
          /\ length \in [Operations -> {0}] /\ permitted = [o \in Operations |-> 0]
          /\ budget = Capacity /\ changes = 0
----
\* readsome_impl(): queue, and start the loop or tell it.  Without a limit the
\* socket is read at once and nothing here changes.
ReadSome(o) ==
  /\ state[o] = "idle" /\ limit > 0 /\ state' = [state EXCEPT ![o] = "queued"]
  /\ \E n \in Lengths : length' = [length EXCEPT ![o] = n]
  /\ permitted' = [permitted EXCEPT ![o] = 0] /\ next' = Append(next, o)
  /\ loop' = CASE loop = "none" -> "starting" [] loop = "waiting" -> "told" [] OTHER -> loop
  /\ UNCHANGED <<limit, tokens, unused, progress, since, budget, changes>>

\* The socket transferred n bytes of those permitted; the rest is given back.
Transferred(o) ==
  /\ state[o] = "started"
  /\ \E n \in 1..permitted[o] :
        /\ unused' = (unused + permitted[o] - n) % Word
        /\ budget' = Least(Capacity, budget + TicksPerSecond * (permitted[o] - n))
  /\ state' = [state EXCEPT ![o] = "idle"]
  /\ UNCHANGED <<limit, tokens, progress, next, since, loop, length, permitted, changes>>

\* An error of the socket, or the cancellation of the caller: the operation
\* leaves both lists, and what was permitted is not given back.
Fails(o) ==
  /\ state[o] # "idle" /\ state' = [state EXCEPT ![o] = "idle"]
  /\ progress' = SelectSeq(progress, LAMBDA p : p # o)
  /\ next' = SelectSeq(next, LAMBDA p : p # o)
  /\ UNCHANGED <<limit, tokens, unused, since, loop, length, permitted, budget, changes>>

SetLimit == /\ changes < MaxChanges /\ changes' = changes + 1 /\ limit' \in Limits \ {limit}
            /\ UNCHANGED <<tokens, unused, progress, next, since, loop, opVars, budget>>
----
(* process_pending_operations(). *)

\* Fault: as if a second had passed.
EarnedWhole(l) == l

Earned(l) == (l * since) \div TicksPerSecond

\* With a limit: earn, divide, start what got something, in the order of arrival.
Limited ==
  LET all == progress \o next
      have == Least((tokens + Earned(limit) + unused) % Word, (limit * Burst) % Word)
      grant == Divide(have, all, length)
  IN /\ limit > 0
     /\ unused' = 0
     /\ IF have = 0
        THEN tokens' = 0 /\ progress' = all /\ UNCHANGED <<opVars, budget>>
        ELSE /\ tokens' = grant.left
             /\ permitted' = [o \in Operations |->
                                IF o \in ToSet(all) THEN grant.given[o] ELSE permitted[o]]
             /\ progress' = SelectSeq(all, LAMBDA o : grant.given[o] = 0)
             /\ state' = [o \in Operations |->
                            IF grant.given[o] > 0 THEN "started" ELSE state[o]]
             /\ budget' = budget - TicksPerSecond * Total(grant.given) /\ UNCHANGED length

\* The limit was lifted while operations waited: they start with their length.
Unlimited ==
  LET all == progress \o next IN
  /\ limit = 0
  /\ permitted' = [o \in Operations |-> IF o \in ToSet(all) THEN length[o] ELSE permitted[o]]
  /\ state' = [o \in Operations |-> IF o \in ToSet(all) THEN "started" ELSE state[o]]
  /\ progress' = <<>> /\ UNCHANGED <<tokens, unused, length, budget>>

\* One turn of process_pending_reads(): started, told, or woken by the timeout,
\* which there is only while operations wait.
Iterate == /\ \/ loop \in {"starting", "told"}
              \/ loop = "waiting" /\ progress # <<>> /\ since >= 1
           /\ next' = <<>> /\ since' = 0 /\ loop' = "waiting"
           /\ Limited \/ Unlimited
           /\ UNCHANGED <<limit, changes>>

RlTick == /\ since' = Least(TicksPerSecond, since + 1)
          /\ budget' = Least(Capacity, budget + MaxLimit)
          /\ UNCHANGED <<limit, tokens, unused, progress, next, loop, opVars, changes>>
----
RlNext == \/ \E o \in Operations : ReadSome(o) \/ Transferred(o) \/ Fails(o)
          \/ SetLimit \/ Iterate \/ RlTick

RlSpec == RlInit /\ [][RlNext]_rlVars

\* The thread runs the loop when it is ready, and time passes.
RlFairSpec == RlSpec /\ WF_rlVars(Iterate) /\ WF_rlVars(RlTick)
----
(* Properties. *)

\* The domain of every variable: members of rate_limiting_group_impl and of
\* its rate_limited_operation objects.
RlTypeOK ==
  /\ limit \in Limits /\ tokens \in 0..Word - 1 /\ unused \in 0..Word - 1
  /\ progress \in Seq(Operations) /\ next \in Seq(Operations)
  /\ since \in 0..TicksPerSecond /\ loop \in {"none", "starting", "waiting", "told"}
  /\ state \in [Operations -> {"idle", "queued", "started"}]
  /\ length \in [Operations -> Lengths \cup {0}]
  /\ \A o \in Operations : permitted[o] \in 0..length[o]

\* The bytes transferred under a limit, over any stretch of time, are no more than it earns in that
\* time and Burst + 1 seconds: tokens given back, rounding and cancelled operations create none.
\* (What an operation gives back that started without a limit counts as earned: the code does not
\* tell it from the others.)
RateIsKept == budget >= 0

\* The lists hold the operations whose callers wait on them, each once: they
\* live on their callers' stacks.
ListsHoldWaiters ==
  LET all == progress \o next IN
  /\ ToSet(all) = {o \in Operations : state[o] = "queued"} /\ Cardinality(ToSet(all)) = Len(all)

\* A queued operation is started, whoever else comes, whatever its length and
\* whenever the limit changes.
QueuedIsStarted ==
  \A o \in Operations : state[o] = "queued" ~> state[o] # "queued"
====
