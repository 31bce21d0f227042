---- MODULE FiberMutexProofs ----
(* fc::mutex, for any number of threads and fibers, any depth of recursion and width of its counter.
   Cancellation breaks both properties in the code, so all is said of executions in which no task
   has been cancelled. *)
EXTENDS FiberMutex, SequenceTheorems, TLAPS

InLock == {"queued", "waiting"}
IsOwner(f) == blist # <<>> /\ blist[Len(blist)] = f

\* The domains of the variables the argument is about.
Domains ==
  /\ blist \in Seq(Fibers) /\ count \in Nat /\ current \in [Threads -> Fibers \cup {NoFiber}]
  /\ ready \in [Threads -> Seq(Fibers)] /\ inbox \in [Threads -> Seq(Fibers)]
  /\ pc \in [Fibers -> {"out", "run", "queued", "waiting", "yielded"}]
  /\ depth \in [Fibers -> 0..MaxDepth] /\ canceled = {} /\ flagging = {}

\* m_blist holds, once each, the fiber that owns the mutex and those in lock().
ListHoldsUsers ==
  /\ \A i, j \in 1..Len(blist) : blist[i] = blist[j] => i = j
  /\ \A f \in Fibers :
        (\E i \in 1..Len(blist) : blist[i] = f) <=> depth[f] > 0 \/ pc[f] \in InLock

\* Who has locks is the last of m_blist and has all that are counted; who is in lock() has none; who
\* has not left yield() still runs.
HolderIsLast ==
  \A f \in Fibers : /\ depth[f] > 0 => IsOwner(f) /\ count = depth[f]
                    /\ pc[f] \in InLock => depth[f] = 0
                    /\ pc[f] = "queued" => current[Home[f]] = f

\* A fiber that is about to be resumed yielded or is the new owner.
WakesAreDue ==
  \A h \in Threads :
      /\ \A i \in 1..Len(ready[h]) :
            LET f == ready[h][i]
            IN Home[f] = h /\ (pc[f] = "yielded" \/ (pc[f] \in InLock /\ IsOwner(f)))
      /\ \A i \in 1..Len(inbox[h]) :
            LET f == inbox[h][i]
            IN Home[f] = h /\ pc[f] \in InLock /\ IsOwner(f)

\* No fiber is about to be resumed twice.
WakesAreOnce ==
  \A h \in Threads :
      /\ \A i, j \in 1..Len(ready[h]) : ready[h][i] = ready[h][j] => i = j
      /\ \A i, j \in 1..Len(inbox[h]) : inbox[h][i] = inbox[h][j] => i = j
      /\ \A i \in 1..Len(ready[h]), j \in 1..Len(inbox[h]) : ready[h][i] # inbox[h][j]

\* The new owner is about to be resumed.
OwnerIsWoken ==
  \A f \in Fibers : pc[f] \in InLock /\ IsOwner(f) =>
      \/ \E i \in 1..Len(ready[Home[f]]) : ready[Home[f]][i] = f
      \/ \E i \in 1..Len(inbox[Home[f]]) : inbox[Home[f]][i] = f

Core == /\ Domains /\ ListHoldsUsers /\ HolderIsLast /\ WakesAreDue /\ WakesAreOnce /\ OwnerIsWoken

IInv == cancels \in Nat /\ (cancels = 0 => Core)

\* A number below the width is not wrapped.
LEMMA NoWrap ==
  ASSUME NEW w \in Nat, NEW n \in Nat, n < w
  PROVE  n % w = n
OBVIOUS

\* What is left of a list without its last element.
LEMMA FrontFacts ==
  ASSUME NEW S, NEW s \in Seq(S), s # <<>>
  PROVE  /\ Front(s) \in Seq(S)
         /\ Len(s) \in Nat \ {0} /\ Len(Front(s)) = Len(s) - 1
         /\ \A i \in 1..(Len(s) - 1) : Front(s)[i] = s[i]
<1> DEFINE n == Len(s) - 1
<1>1. n \in Nat /\ n \in Int /\ 1 \in Int /\ Len(s) \in Nat \ {0} OBVIOUS
<1>2. \A i \in 1..n : s[i] \in S OBVIOUS
<1> HIDE DEF n
<1>3. /\ SubSeq(s, 1, n) \in Seq(S)
      /\ Len(SubSeq(s, 1, n)) = IF 1 <= n THEN n - 1 + 1 ELSE 0
      /\ \A i \in 1..(n - 1 + 1) : SubSeq(s, 1, n)[i] = s[1 + i - 1]
  BY <1>1, <1>2, SubSeqProperties
<1>4. Len(SubSeq(s, 1, n)) = n BY <1>1, <1>3
<1>5. ASSUME NEW i \in 1..n
      PROVE  SubSeq(s, 1, n)[i] = s[i]
  BY <1>1, <1>3
<1> QED  BY <1>1, <1>3, <1>4, <1>5 DEF Front, n

\* A list with an element added at its end.
LEMMA AppendFacts ==
  ASSUME NEW S, NEW s \in Seq(S), NEW x \in S
  PROVE  /\ Append(s, x) \in Seq(S)
         /\ Len(s) \in Nat /\ Len(Append(s, x)) = Len(s) + 1
         /\ \A i \in 1..Len(s) : Append(s, x)[i] = s[i]
         /\ Append(s, x)[Len(s) + 1] = x
OBVIOUS

\* What is left of a list without its first element.
LEMMA TailFacts ==
  ASSUME NEW S, NEW s \in Seq(S), s # <<>>
  PROVE  /\ Tail(s) \in Seq(S)
         /\ Len(s) \in Nat \ {0} /\ Len(Tail(s)) = Len(s) - 1
         /\ \A i \in 1..(Len(s) - 1) : Tail(s)[i] = s[i + 1]
         /\ Head(s) = s[1] /\ Head(s) \in S
OBVIOUS

\* A list with an element added at its front.
LEMMA ConsFacts ==
  ASSUME NEW S, NEW s \in Seq(S), NEW x \in S
  PROVE  /\ <<x>> \o s \in Seq(S)
         /\ Len(s) \in Nat /\ Len(<<x>> \o s) = Len(s) + 1 /\ (<<x>> \o s)[1] = x
         /\ \A i \in 1..Len(s) : (<<x>> \o s)[i + 1] = s[i]
OBVIOUS

\* get_tail() returns null for an empty list and the last element otherwise.
LEMMA OwnerIs ==
  ASSUME blist \in Seq(Fibers)
  PROVE  /\ \A f \in Fibers : Owner = f <=> IsOwner(f)
         /\ Owner = NoFiber <=> blist = <<>>
<1>1. CASE blist = <<>> BY <1>1, NoFiberAssumption DEF Owner, IsOwner
<1>2. CASE blist # <<>> BY <1>2, NoFiberAssumption DEF Owner, IsOwner, Last
<1> QED  BY <1>1, <1>2

----
\* The mutex is free in the initial state.
LEMMA InitCore == Init => Core
<1> SUFFICES ASSUME Init  PROVE Core OBVIOUS
<1>1. blist = <<>> /\ Len(blist) = 0 BY DEF Init
<1>3. Domains BY DepthAssumption DEF Init, Domains
<1>4. ListHoldsUsers BY <1>1 DEF Init, ListHoldsUsers, InLock
<1>5. HolderIsLast BY DEF Init, HolderIsLast, InLock
<1>6. WakesAreDue /\ WakesAreOnce BY DEF WakesAreDue, WakesAreOnce, Init
<1>7. OwnerIsWoken BY DEF Init, OwnerIsWoken, InLock
<1> QED  BY <1>3, <1>4, <1>5, <1>6, <1>7 DEF Core

\* A task that starts is in no list.
LEMMA BeginCore ==
  ASSUME Core, NEW f \in Fibers, Begin(f)
  PROVE  Core'
<1> USE DEF InLock, IsOwner
<1>1. Home[f] \in Threads BY HomeAssumption
<1>2. /\ blist' = blist /\ count' = count /\ depth' = depth /\ ready' = ready /\ inbox' = inbox
      /\ pc[f] = "out" /\ pc' = [pc EXCEPT ![f] = "run"]
      /\ canceled' = canceled /\ flagging' = flagging
  BY DEF Begin, cancelVars
<1>3. \A g \in Fibers : /\ pc'[g] = IF g = f THEN "run" ELSE pc[g]
                        /\ pc'[g] \in InLock <=> pc[g] \in InLock
                        /\ pc[g] = "yielded" => pc'[g] = "yielded"
  BY <1>2 DEF Core, Domains
<1>4. Domains' BY <1>1, <1>2 DEF Core, Domains, Begin
<1>5. ListHoldsUsers' BY <1>2, <1>3 DEF Core, ListHoldsUsers
<1>6. HolderIsLast'
  BY <1>1, <1>2, <1>3, HomeAssumption, NoFiberAssumption DEF Core, Domains, HolderIsLast, Begin
<1>7. WakesAreDue' BY <1>2, <1>3 DEF Core, Domains, WakesAreDue
<1>8. WakesAreOnce' BY <1>2 DEF Core, WakesAreOnce
<1>9. OwnerIsWoken' BY <1>2, <1>3 DEF Core, OwnerIsWoken
<1> QED  BY <1>4, <1>5, <1>6, <1>7, <1>8, <1>9 DEF Core

\* A fiber in lock() that has not been cancelled leaves its thread to others.
LEMMA YieldToWaitCore ==
  ASSUME Core, NEW f \in Fibers, YieldToWait(f)
  PROVE  Core'
<1> USE DEF InLock, IsOwner
<1>1. Home[f] \in Threads BY HomeAssumption
<1>2. f \notin canceled BY DEF Core, Domains
<1>3. /\ blist' = blist /\ count' = count /\ depth' = depth /\ ready' = ready /\ inbox' = inbox
      /\ pc[f] = "queued" /\ pc' = [pc EXCEPT ![f] = "waiting"]
      /\ current' = [current EXCEPT ![Home[f]] = NoFiber] /\ current[Home[f]] = f
      /\ canceled' = canceled /\ flagging' = flagging
  BY <1>2 DEF YieldToWait, cancelVars, Running
<1>4. \A g \in Fibers : /\ pc'[g] = IF g = f THEN "waiting" ELSE pc[g]
                        /\ pc'[g] \in InLock <=> pc[g] \in InLock
                        /\ pc[g] = "yielded" => pc'[g] = "yielded"
  BY <1>3 DEF Core, Domains
<1>5. Domains' BY <1>1, <1>3 DEF Core, Domains
<1>6. ListHoldsUsers' BY <1>3, <1>4 DEF Core, ListHoldsUsers
<1>7. HolderIsLast' BY <1>1, <1>3, <1>4, HomeAssumption DEF Core, Domains, HolderIsLast
<1>8. WakesAreDue' BY <1>3, <1>4 DEF Core, Domains, WakesAreDue
<1>9. WakesAreOnce' BY <1>3 DEF Core, WakesAreOnce
<1>10. OwnerIsWoken' BY <1>3, <1>4 DEF Core, OwnerIsWoken
<1> QED  BY <1>5, <1>6, <1>7, <1>8, <1>9, <1>10 DEF Core

\* lock() takes a free mutex, counts one more lock of the owner, or puts the caller in front of the
\* list.
LEMMA LockCore ==
  ASSUME Core, NEW f \in Fibers, Lock(f)
  PROVE  Core'
<1> USE DEF InLock, IsOwner
<1>1. Home[f] \in Threads BY HomeAssumption
<1>2. /\ current' = current /\ ready' = ready /\ inbox' = inbox
      /\ current[Home[f]] = f /\ pc[f] = "run" /\ depth[f] < MaxDepth
      /\ canceled' = canceled /\ flagging' = flagging
  BY DEF Lock, threadVars, cancelVars, Running
<1>3. /\ Domains /\ Len(blist) \in Nat
      /\ \A g \in Fibers : Owner = g <=> IsOwner(g)
      /\ Owner = NoFiber <=> blist = <<>>
  BY OwnerIs DEF Core, Domains
<1>4. CASE Owner = f
  <2>1. blist' = blist /\ pc' = pc /\ depth' = [depth EXCEPT ![f] = @ + 1]
        /\ count' = (count + 1) % Wrap
    BY <1>4 DEF Lock
  <2>2. depth[f] > 0 /\ depth[f] = count BY <1>3, <1>4, <1>2 DEF Core, ListHoldsUsers, HolderIsLast
  <2>3. count' = depth[f] + 1
    <3>1. depth[f] + 1 \in Nat /\ Wrap \in Nat /\ depth[f] + 1 < Wrap
      BY <1>2, <1>3, DepthAssumption DEF Domains
    <3> QED  BY <2>1, <2>2, <3>1, NoWrap
  <2>6. Domains' BY <1>2, <1>3, <2>1, <2>3, DepthAssumption DEF Domains
  <2>7. ListHoldsUsers' BY <2>1, <1>3, DepthAssumption, <2>2 DEF Core, ListHoldsUsers, Domains
  <2>8. HolderIsLast' BY <1>2, <1>3, <1>4, <2>1, <2>3 DEF Core, HolderIsLast, Domains
  <2> QED BY <2>6, <2>7, <2>8, <1>2, <2>1 DEF Core, WakesAreDue, WakesAreOnce, OwnerIsWoken
<1>5. CASE Owner = NoFiber
  <2>1. blist = <<>> /\ Len(blist) = 0 BY <1>3, <1>5
  <2>2. Owner # f BY <1>5, NoFiberAssumption
  <2>3. /\ blist' = <<f>> /\ pc' = pc /\ depth' = [depth EXCEPT ![f] = @ + 1] /\ count' = 1 % Wrap
    BY <1>5, <2>2 DEF Lock
  <2>4. count' = 1 BY <2>3, NoWrap, DepthAssumption
  <2>5. \A g \in Fibers : depth[g] = 0 /\ pc[g] \notin InLock
    BY <1>3, <2>1 DEF Core, Domains, ListHoldsUsers
  <2>7. Domains' BY <1>2, <1>3, <2>3, <2>4, <2>5, DepthAssumption DEF Domains
  <2>9. ListHoldsUsers' BY <2>3, <2>5, <1>3 DEF ListHoldsUsers, Domains
  <2>10. HolderIsLast' BY <2>3, <2>4, <2>5, <1>3 DEF HolderIsLast, Domains
  <2>12. WakesAreDue' BY <1>2, <1>3, <2>3, <2>1, <2>5 DEF Core, Domains, WakesAreDue
  <2>13. WakesAreOnce' BY <1>2 DEF Core, WakesAreOnce
  <2>14. OwnerIsWoken' BY <2>3, <2>5 DEF OwnerIsWoken
  <2> QED  BY <2>7, <2>9, <2>10, <2>12, <2>13, <2>14 DEF Core
<1>6. CASE Owner \notin {NoFiber, f}
  <2>1. blist' = <<f>> \o blist /\ pc' = [pc EXCEPT ![f] = "queued"]
        /\ count' = count /\ depth' = depth
    BY <1>6 DEF Lock
  <2>2. /\ blist' \in Seq(Fibers) /\ Len(blist') = Len(blist) + 1 /\ blist'[1] = f
        /\ \A i \in 1..Len(blist) : blist'[i + 1] = blist[i]
    BY <1>3, <2>1, ConsFacts DEF Domains
  <2>3. blist # <<>> /\ Len(blist) > 0 BY <1>3, <1>6 DEF Domains
  <2>4. blist' # <<>> BY <1>3, <2>2
  <2>5. depth[f] = 0 BY <1>3, <1>6 DEF Core, HolderIsLast, Domains
  <2>6. \A i \in 1..Len(blist) : blist[i] # f BY <1>2, <2>5 DEF Core, ListHoldsUsers
  <2>7. \A i \in 1..Len(blist') : i = 1 \/ (i - 1 \in 1..Len(blist) /\ blist'[i] = blist[i - 1])
    BY <1>3, <2>2
  <2>8. \A g \in Fibers : pc'[g] = IF g = f THEN "queued" ELSE pc[g] BY <1>3, <2>1 DEF Domains
  <2>10. \A g \in Fibers : (IsOwner(g))' <=> IsOwner(g) BY <2>3, <2>4, <1>3, <2>2
  <2>11. Domains' BY <1>2, <1>3, <2>1, <2>2 DEF Domains
  <2>12. ListHoldsUsers'
    <3>1. ASSUME NEW i \in 1..Len(blist'), NEW j \in 1..Len(blist'), blist'[i] = blist'[j]
          PROVE  i = j
      <4>1. i = 1 \/ (i - 1 \in 1..Len(blist) /\ blist'[i] = blist[i - 1]) BY <2>7
      <4>2. j = 1 \/ (j - 1 \in 1..Len(blist) /\ blist'[j] = blist[j - 1]) BY <2>7
      <4> QED  BY <1>3, <2>2, <2>6, <3>1, <4>1, <4>2 DEF Core, ListHoldsUsers
    <3>2. ASSUME NEW g \in Fibers
          PROVE  (\E i \in 1..Len(blist') : blist'[i] = g)
                    <=> g = f \/ \E i \in 1..Len(blist) : blist[i] = g
      <4>1. ASSUME NEW i \in 1..Len(blist)
            PROVE  i + 1 \in 1..Len(blist') /\ blist'[i + 1] = blist[i]
        BY <1>3, <2>2
      <4>2. 1 \in 1..Len(blist') BY <1>3, <2>2
      <4> QED  BY <2>2, <2>7, <4>1, <4>2
    <3> QED BY <3>1, <2>1, <2>8, <3>2 DEF ListHoldsUsers, Core
  <2>13. HolderIsLast' BY <1>2, <2>1, <2>5, <2>8, <2>10 DEF Core, HolderIsLast
  <2>14. WakesAreDue'
    <3>1. ASSUME NEW g \in Fibers, pc[g] = "yielded" \/ (pc[g] \in InLock /\ IsOwner(g))
          PROVE  pc'[g] = pc[g] /\ (IsOwner(g) => IsOwner(g)')
      BY <1>2, <2>8, <2>10, <3>1
    <3>2. \A h \in Threads : /\ \A i \in 1..Len(ready[h]) : ready[h][i] \in Fibers
                            /\ \A i \in 1..Len(inbox[h]) : inbox[h][i] \in Fibers
      BY <1>3 DEF Domains
    <3> QED  BY <1>2, <3>1, <3>2 DEF Core, WakesAreDue
  <2>15. WakesAreOnce' BY <1>2 DEF Core, WakesAreOnce
  <2>16. OwnerIsWoken' BY <1>2, <1>3, <1>6, <2>8, <2>10 DEF Core, OwnerIsWoken
  <2> QED  BY <2>11, <2>12, <2>13, <2>14, <2>15, <2>16 DEF Core
<1> QED  BY <1>4, <1>5, <1>6

\* The elements of the lists of the threads are fibers.
LEMMA WakesAreFibers ==
  ASSUME Domains
  PROVE  \A h \in Threads :
            /\ Len(ready[h]) \in Nat /\ Len(inbox[h]) \in Nat
            /\ \A i \in 1..Len(ready[h]) : ready[h][i] \in Fibers
            /\ \A i \in 1..Len(inbox[h]) : inbox[h][i] \in Fibers
BY DEF Domains

\* The head of a ready list goes on after its yield, or returns from lock() as the owner.
LEMMA SwitchCore ==
  ASSUME Core, NEW h \in Threads, Switch(h)
  PROVE  Core'
<1> USE DEF InLock, IsOwner
<1> DEFINE f == Head(ready[h])
<1>1. /\ ready[h] \in Seq(Fibers) /\ ready[h] # <<>> /\ current[h] = NoFiber /\ Domains
  BY DEF Core, Domains, Switch
<1>2. /\ Tail(ready[h]) \in Seq(Fibers) /\ Len(ready[h]) \in Nat \ {0}
      /\ Len(Tail(ready[h])) = Len(ready[h]) - 1
      /\ \A i \in 1..(Len(ready[h]) - 1) : Tail(ready[h])[i] = ready[h][i + 1]
      /\ f = ready[h][1] /\ f \in Fibers
  BY <1>1, TailFacts
<1>3. /\ Home[f] = h /\ (pc[f] = "yielded" \/ (pc[f] \in InLock /\ IsOwner(f)))
  BY <1>2 DEF Core, WakesAreDue
<1>4. pc[f] \in {"yielded", "waiting"} BY <1>1, <1>2, <1>3, NoFiberAssumption DEF Core, HolderIsLast
<1>5. f \notin canceled BY <1>1 DEF Domains
<1> HIDE DEF f
<1>6. /\ current' = [current EXCEPT ![h] = f] /\ pc' = [pc EXCEPT ![f] = "run"]
      /\ count' = IF pc[f] = "waiting" THEN 1 ELSE count
      /\ depth' = IF pc[f] = "waiting" THEN [depth EXCEPT ![f] = @ + 1] ELSE depth
      /\ ready' = [ready EXCEPT ![h] = Tail(@)] /\ blist' = blist /\ inbox' = inbox
      /\ canceled' = canceled /\ flagging' = flagging
  BY <1>4, <1>5 DEF Switch, cancelVars, f
<1>7. \A g \in Fibers : pc'[g] = IF g = f THEN "run" ELSE pc[g] BY <1>1, <1>6 DEF Domains
<1>8. pc[f] = "waiting" => depth[f] = 0 /\ IsOwner(f) BY <1>2, <1>3 DEF Core, HolderIsLast
<1>9. \A g \in Fibers : depth'[g] = IF g = f /\ pc[f] = "waiting" THEN 1 ELSE depth[g]
  BY <1>1, <1>6, <1>8 DEF Domains
<1>10. Domains' BY <1>1, <1>2, <1>6, <1>8, DepthAssumption DEF Domains
<1>12. ListHoldsUsers' BY <1>6, <1>4, <1>7, <1>9 DEF Core, ListHoldsUsers
<1>13. HolderIsLast'
  <2>1. ASSUME NEW g \in Fibers, depth'[g] > 0
        PROVE  IsOwner(g)' /\ count' = depth'[g]
    BY <1>8, <1>9, <2>1, <1>6 DEF Core, HolderIsLast
  <2>2. ASSUME NEW g \in Fibers, pc'[g] \in InLock
        PROVE  depth'[g] = 0 /\ (pc'[g] = "queued" => current'[Home[g]] = g)
    <3>3. pc[g] = "queued" => Home[g] # h
      BY <1>1, <2>2, <1>7, <1>9, NoFiberAssumption DEF Core, HolderIsLast
    <3> QED BY <1>1, <1>6, <1>7, <1>9, <2>2, <3>3, HomeAssumption DEF Domains, Core, HolderIsLast
  <2> QED  BY <2>1, <2>2 DEF HolderIsLast
<1>14. \A k \in Threads : ready'[k] = IF k = h THEN Tail(ready[h]) ELSE ready[k]
  BY <1>1, <1>6 DEF Domains
<1>15. \A k \in Threads : \A i \in 1..Len(ready'[k]) :
          \E j \in 1..Len(ready[k]) : /\ ready'[k][i] = ready[k][j] /\ ready[k][j] # f
                                      /\ j = IF k = h THEN i + 1 ELSE i
  <2> SUFFICES ASSUME NEW k \in Threads, NEW i \in 1..Len(ready'[k])
               PROVE  \E j \in 1..Len(ready[k]) :
                         /\ ready'[k][i] = ready[k][j] /\ ready[k][j] # f
                         /\ j = IF k = h THEN i + 1 ELSE i
    OBVIOUS
  <2>1. CASE k = h
    <3>0. Len(ready'[k]) = Len(ready[h]) - 1 /\ i \in 1..(Len(ready[h]) - 1) BY <1>2, <1>14, <2>1
    <3>1. i + 1 \in 1..Len(ready[h]) /\ 1 \in 1..Len(ready[h]) /\ i + 1 # 1 BY <1>2, <3>0
    <3>2. ready[h][i + 1] # f BY <1>2, <3>1 DEF Core, WakesAreOnce
    <3> QED  BY <1>2, <1>14, <2>1, <3>0, <3>1, <3>2
  <2>2. CASE k # h BY <1>14, <2>2, <1>3 DEF Core, WakesAreDue
  <2> QED  BY <2>1, <2>2
<1>17. WakesAreDue'
  <2>1. ASSUME NEW g \in Fibers, g # f, pc[g] = "yielded" \/ (pc[g] \in InLock /\ IsOwner(g))
        PROVE  pc'[g] = pc[g] /\ (IsOwner(g) => IsOwner(g)')
    BY <1>6, <1>7, <2>1
  <2>2. ASSUME NEW k \in Threads, NEW i \in 1..Len(ready'[k]), NEW g, g = ready'[k][i]
        PROVE  Home[g] = k /\ (pc'[g] = "yielded" \/ (pc'[g] \in InLock /\ IsOwner(g)'))
    <3>1. PICK j \in 1..Len(ready[k]) : ready'[k][i] = ready[k][j] /\ ready[k][j] # f BY <1>15
    <3>3. Home[g] = k /\ (pc[g] = "yielded" \/ (pc[g] \in InLock /\ IsOwner(g)))
      BY <1>1, <2>2, <3>1, WakesAreFibers DEF Core, WakesAreDue
    <3> QED BY <2>1, <1>1, <2>2, <3>1, WakesAreFibers, <3>3
  <2>3. ASSUME NEW k \in Threads, NEW i \in 1..Len(inbox'[k]), NEW g, g = inbox'[k][i]
        PROVE  Home[g] = k /\ pc'[g] \in InLock /\ IsOwner(g)'
    BY SMTT(60), <1>1, <1>6, <1>3, <1>2, <2>3, WakesAreFibers, <2>1 DEF Core, WakesAreDue, WakesAreOnce
  <2> QED  BY <2>2, <2>3 DEF WakesAreDue
<1>18. WakesAreOnce'
  <2>1. ASSUME NEW k \in Threads, NEW i \in 1..Len(ready'[k]), NEW j \in 1..Len(ready'[k]),
               ready'[k][i] = ready'[k][j]
        PROVE  i = j
    BY SMTT(60), <1>15, <2>1 DEF Core, WakesAreOnce
  <2>2. ASSUME NEW k \in Threads, NEW i \in 1..Len(ready'[k]), NEW j \in 1..Len(inbox'[k])
        PROVE  ready'[k][i] # inbox'[k][j]
    BY <1>6, <1>15 DEF Core, WakesAreOnce
  <2> QED  BY <1>6, <2>1, <2>2 DEF Core, WakesAreOnce
<1>19. OwnerIsWoken'
  <2> SUFFICES ASSUME NEW g \in Fibers, pc'[g] \in InLock, IsOwner(g)'
               PROVE  \/ \E i \in 1..Len(ready'[Home[g]]) : ready'[Home[g]][i] = g
                      \/ \E i \in 1..Len(inbox'[Home[g]]) : inbox'[Home[g]][i] = g
    BY DEF OwnerIsWoken
  <2>1. g # f /\ pc[g] \in InLock /\ IsOwner(g) /\ Home[g] \in Threads BY <1>6, <1>7, HomeAssumption
  <2>2. CASE \E i \in 1..Len(inbox[Home[g]]) : inbox[Home[g]][i] = g BY <1>6, <2>2
  <2>3. ASSUME NEW i \in 1..Len(ready[Home[g]]), ready[Home[g]][i] = g
        PROVE  \E j \in 1..Len(ready'[Home[g]]) : ready'[Home[g]][j] = g
    <3>1. CASE Home[g] = h
      <4>1. i # 1 /\ i - 1 \in 1..(Len(ready[h]) - 1) /\ i - 1 + 1 = i BY <1>2, <2>1, <2>3, <3>1
      <4>3. ready'[h][i - 1] = g BY <1>2, <2>3, <3>1, <4>1, <1>14
      <4> QED BY <3>1, <1>2, <1>14, <4>1, <4>3
    <3>2. CASE Home[g] # h BY <1>14, <2>1, <2>3, <3>2
    <3> QED  BY <3>1, <3>2
  <2> QED  BY <2>1, <2>2, <2>3 DEF Core, OwnerIsWoken
<1> QED  BY <1>10, <1>12, <1>13, <1>17, <1>18, <1>19 DEF Core

----
\* What an element added at the end of the list of thread h changes.
LEMMA PushFacts ==
  ASSUME NEW q \in [Threads -> Seq(Fibers)], NEW h \in Threads, NEW c \in Fibers,
         NEW r, r = [q EXCEPT ![h] = Append(@, c)]
  PROVE  /\ r \in [Threads -> Seq(Fibers)]
         /\ \A k \in Threads : \A i \in 1..Len(r[k]) :
               \/ i \in 1..Len(q[k]) /\ r[k][i] = q[k][i]
               \/ k = h /\ i = Len(q[h]) + 1 /\ r[k][i] = c
         /\ \A k \in Threads : \A i \in 1..Len(q[k]) :
               i \in 1..Len(r[k]) /\ r[k][i] = q[k][i]
         /\ \E i \in 1..Len(r[h]) : r[h][i] = c
<1>1. /\ Append(q[h], c) \in Seq(Fibers) /\ Len(q[h]) \in Nat
      /\ Len(Append(q[h], c)) = Len(q[h]) + 1
      /\ \A i \in 1..Len(q[h]) : Append(q[h], c)[i] = q[h][i]
      /\ Append(q[h], c)[Len(q[h]) + 1] = c
  BY AppendFacts
<1>2. \A k \in Threads : r[k] = IF k = h THEN Append(q[h], c) ELSE q[k] OBVIOUS
<1>3. r \in [Threads -> Seq(Fibers)] BY <1>1
<1>4. ASSUME NEW k \in Threads, NEW i \in 1..Len(r[k])
      PROVE  \/ i \in 1..Len(q[k]) /\ r[k][i] = q[k][i]
             \/ k = h /\ i = Len(q[h]) + 1 /\ r[k][i] = c
  BY <1>1, <1>2
<1>5. ASSUME NEW k \in Threads, NEW i \in 1..Len(q[k])
      PROVE  i \in 1..Len(r[k]) /\ r[k][i] = q[k][i]
  BY <1>1, <1>2
<1>6. \E i \in 1..Len(r[h]) : r[h][i] = c BY <1>1, <1>2
<1> QED  BY <1>3, <1>4, <1>5, <1>6

\* What an element taken from the front of the list of thread h changes.
LEMMA PopFacts ==
  ASSUME NEW q \in [Threads -> Seq(Fibers)], NEW h \in Threads, q[h] # <<>>,
         NEW r, r = [q EXCEPT ![h] = Tail(@)]
  PROVE  /\ r \in [Threads -> Seq(Fibers)]
         /\ \A k \in Threads : \A i \in 1..Len(r[k]) :
               /\ k = h => i + 1 \in 1..Len(q[k]) /\ r[k][i] = q[k][i + 1]
               /\ k # h => i \in 1..Len(q[k]) /\ r[k][i] = q[k][i]
         /\ \A k \in Threads : \A i \in 1..Len(q[k]) :
               k # h \/ i # 1 => \E j \in 1..Len(r[k]) : r[k][j] = q[k][i]
<1>1. /\ Tail(q[h]) \in Seq(Fibers) /\ Len(q[h]) \in Nat \ {0} /\ Len(Tail(q[h])) = Len(q[h]) - 1
      /\ \A i \in 1..(Len(q[h]) - 1) : Tail(q[h])[i] = q[h][i + 1]
  BY TailFacts
<1>2. \A k \in Threads : r[k] = IF k = h THEN Tail(q[h]) ELSE q[k] OBVIOUS
<1>3. r \in [Threads -> Seq(Fibers)] BY <1>1
<1>4. ASSUME NEW k \in Threads, NEW i \in 1..Len(r[k])
      PROVE  /\ k = h => i + 1 \in 1..Len(q[k]) /\ r[k][i] = q[k][i + 1]
             /\ k # h => i \in 1..Len(q[k]) /\ r[k][i] = q[k][i]
  BY <1>1, <1>2
<1>5. ASSUME NEW k \in Threads, NEW i \in 1..Len(q[k]), k # h \/ i # 1
      PROVE  \E j \in 1..Len(r[k]) : r[k][j] = q[k][i]
  <2>1. CASE k = h
    <3>2. i - 1 \in 1..Len(r[h]) /\ r[h][i - 1] = q[h][i] BY <1>1, <1>2, <1>5, <2>1
    <3> QED  BY <2>1, <3>2
  <2> QED  BY <1>2, <2>1
<1> QED  BY <1>3, <1>4, <1>5

\* A fiber that is in neither list of its thread may be made ready.
LEMMA ReadyOnce ==
  ASSUME Domains, WakesAreOnce, NEW h \in Threads, NEW c \in Fibers,
         ready' = [ready EXCEPT ![h] = Append(@, c)], inbox' = inbox,
         \A i \in 1..Len(ready[h]) : ready[h][i] # c,
         \A i \in 1..Len(inbox[h]) : inbox[h][i] # c
  PROVE  WakesAreOnce'
<1>1. /\ \A k \in Threads : \A i \in 1..Len(ready'[k]) :
            \/ i \in 1..Len(ready[k]) /\ ready'[k][i] = ready[k][i]
            \/ k = h /\ i = Len(ready[h]) + 1 /\ ready'[k][i] = c
  BY PushFacts DEF Domains
<1>2. ASSUME NEW k \in Threads, NEW i \in 1..Len(ready'[k]), NEW j \in 1..Len(ready'[k]),
             ready'[k][i] = ready'[k][j]
      PROVE  i = j
  BY <1>1, <1>2 DEF WakesAreOnce
<1>3. ASSUME NEW k \in Threads, NEW i \in 1..Len(ready'[k]), NEW j \in 1..Len(inbox'[k])
      PROVE  ready'[k][i] # inbox'[k][j]
  BY <1>1 DEF WakesAreOnce
<1> QED  BY <1>2, <1>3 DEF WakesAreOnce

\* A fiber that is in neither list of its thread may be posted to it.
LEMMA InboxOnce ==
  ASSUME Domains, WakesAreOnce, NEW h \in Threads, NEW c \in Fibers,
         inbox' = [inbox EXCEPT ![h] = Append(@, c)], ready' = ready,
         \A i \in 1..Len(ready[h]) : ready[h][i] # c,
         \A i \in 1..Len(inbox[h]) : inbox[h][i] # c
  PROVE  WakesAreOnce'
<1>2. ASSUME NEW k \in Threads, NEW i \in 1..Len(inbox'[k]), NEW j \in 1..Len(inbox'[k]),
             inbox'[k][i] = inbox'[k][j]
      PROVE  i = j
  BY PushFacts, <1>2 DEF WakesAreOnce, Domains
<1>3. ASSUME NEW k \in Threads, NEW i \in 1..Len(ready'[k]), NEW j \in 1..Len(inbox'[k])
      PROVE  ready'[k][i] # inbox'[k][j]
  BY PushFacts DEF WakesAreOnce, Domains
<1> QED  BY <1>2, <1>3 DEF WakesAreOnce

\* A task that has released its locks ends, and is in no list.
LEMMA EndCore ==
  ASSUME Core, NEW f \in Fibers, End(f)
  PROVE  Core'
<1> USE DEF InLock, IsOwner
<1>1. Home[f] \in Threads BY HomeAssumption
<1>2. /\ blist' = blist /\ count' = count /\ depth' = depth /\ ready' = ready /\ inbox' = inbox
      /\ current[Home[f]] = f /\ current' = [current EXCEPT ![Home[f]] = NoFiber]
      /\ pc[f] \in {"run", "unwind"} /\ pc' = [pc EXCEPT ![f] = "out"]
      /\ canceled' = canceled \ {f} /\ flagging' = flagging
  BY DEF End, EndTask, Running
<1>3. \A g \in Fibers : /\ pc'[g] = IF g = f THEN "out" ELSE pc[g]
                        /\ pc'[g] \in InLock <=> pc[g] \in InLock
                        /\ pc[g] = "yielded" => pc'[g] = "yielded"
  BY <1>2 DEF Core, Domains
<1>4. Domains' BY <1>1, <1>2 DEF Core, Domains
<1>5. ListHoldsUsers' BY <1>2, <1>3 DEF Core, ListHoldsUsers
<1>6. HolderIsLast' BY <1>1, <1>2, <1>3, HomeAssumption DEF Core, Domains, HolderIsLast
<1>7. WakesAreDue' BY SMTT(60), <1>2, <1>3 DEF Core, Domains, WakesAreDue
<1>8. WakesAreOnce' BY <1>2 DEF Core, WakesAreOnce
<1>9. OwnerIsWoken' BY <1>2, <1>3 DEF Core, OwnerIsWoken
<1> QED  BY <1>4, <1>5, <1>6, <1>7, <1>8, <1>9 DEF Core

\* The owner yields and is made ready, which it was not while it ran.
LEMMA YieldCore ==
  ASSUME Core, NEW f \in Fibers, Yield(f)
  PROVE  Core'
<1> USE DEF InLock, IsOwner
<1>1. Home[f] \in Threads /\ f \notin canceled BY HomeAssumption DEF Core, Domains
<1>2. /\ blist' = blist /\ count' = count /\ depth' = depth /\ inbox' = inbox
      /\ ready' = [ready EXCEPT ![Home[f]] = Append(@, f)]
      /\ current[Home[f]] = f /\ current' = [current EXCEPT ![Home[f]] = NoFiber]
      /\ pc[f] = "run" /\ pc' = [pc EXCEPT ![f] = "yielded"]
      /\ canceled' = canceled /\ flagging' = flagging
  BY <1>1 DEF Yield, Running, cancelVars
<1>3. \A g \in Fibers : /\ pc'[g] = IF g = f THEN "yielded" ELSE pc[g]
                        /\ pc'[g] \in InLock <=> pc[g] \in InLock
                        /\ pc[g] = "yielded" => pc'[g] = "yielded"
  BY <1>2 DEF Core, Domains
<1>4. /\ ready' \in [Threads -> Seq(Fibers)]
      /\ \A k \in Threads : \A i \in 1..Len(ready'[k]) :
            \/ i \in 1..Len(ready[k]) /\ ready'[k][i] = ready[k][i]
            \/ k = Home[f] /\ i = Len(ready[Home[f]]) + 1 /\ ready'[k][i] = f
      /\ \A k \in Threads : \A i \in 1..Len(ready[k]) :
            i \in 1..Len(ready'[k]) /\ ready'[k][i] = ready[k][i]
  BY SMTT(60), <1>1, <1>2, PushFacts DEF Core, Domains
<1>5. /\ \A i \in 1..Len(ready[Home[f]]) : ready[Home[f]][i] # f
      /\ \A i \in 1..Len(inbox[Home[f]]) : inbox[Home[f]][i] # f
  BY <1>1, <1>2 DEF Core, WakesAreDue
<1>6. Domains' BY <1>1, <1>2, <1>4 DEF Core, Domains
<1>7. ListHoldsUsers' BY <1>2, <1>3 DEF Core, ListHoldsUsers
<1>8. HolderIsLast' BY SMTT(60), <1>1, <1>2, <1>3, HomeAssumption DEF Core, Domains, HolderIsLast
<1>9. WakesAreDue' BY <1>3, WakesAreFibers, <1>2, <1>4 DEF Core, WakesAreDue
<1>10. WakesAreOnce' BY <1>1, <1>2, <1>5, ReadyOnce DEF Core
<1>11. OwnerIsWoken' BY <1>2, <1>3, HomeAssumption, <1>4 DEF OwnerIsWoken, Core
<1> QED  BY <1>6, <1>7, <1>8, <1>9, <1>10, <1>11 DEF Core

\* The unblock() task a thread executes moves the new owner to its ready list.
LEMMA DeliverCore ==
  ASSUME Core, NEW h \in Threads, Deliver(h)
  PROVE  Core'
<1> USE DEF InLock, IsOwner
<1> DEFINE c == Head(inbox[h])
<1>1. /\ inbox[h] \in Seq(Fibers) /\ inbox[h] # <<>> /\ Domains BY DEF Core, Domains, Deliver
<1>2. /\ Len(inbox[h]) \in Nat \ {0} /\ c = inbox[h][1] /\ c \in Fibers BY <1>1, TailFacts
<1> HIDE DEF c
<1>3. /\ blist' = blist /\ count' = count /\ depth' = depth /\ pc' = pc /\ current' = current
      /\ ready' = [ready EXCEPT ![h] = Append(@, c)] /\ inbox' = [inbox EXCEPT ![h] = Tail(@)]
      /\ canceled' = canceled /\ flagging' = flagging
  BY DEF Deliver, cancelVars, c
<1>4. 1 \in 1..Len(inbox[h]) BY <1>2
<1>6. /\ ready' \in [Threads -> Seq(Fibers)]
      /\ \A k \in Threads : \A i \in 1..Len(ready'[k]) :
            \/ i \in 1..Len(ready[k]) /\ ready'[k][i] = ready[k][i]
            \/ k = h /\ i = Len(ready[h]) + 1 /\ ready'[k][i] = c
      /\ \A k \in Threads : \A i \in 1..Len(ready[k]) :
            i \in 1..Len(ready'[k]) /\ ready'[k][i] = ready[k][i]
      /\ \E i \in 1..Len(ready'[h]) : ready'[h][i] = c
  <2>1. ready \in [Threads -> Seq(Fibers)] BY <1>1 DEF Domains
  <2>2. c \in Fibers /\ ready' = [ready EXCEPT ![h] = Append(@, c)] BY <1>2, <1>3
  <2> QED  BY <2>1, <2>2, PushFacts
<1>7. /\ inbox' \in [Threads -> Seq(Fibers)]
      /\ \A k \in Threads : \A i \in 1..Len(inbox'[k]) :
            /\ k = h => i + 1 \in 1..Len(inbox[k]) /\ inbox'[k][i] = inbox[k][i + 1]
            /\ k # h => i \in 1..Len(inbox[k]) /\ inbox'[k][i] = inbox[k][i]
      /\ \A k \in Threads : \A i \in 1..Len(inbox[k]) :
            k # h \/ i # 1 => \E j \in 1..Len(inbox'[k]) : inbox'[k][j] = inbox[k][i]
  <2>1. inbox \in [Threads -> Seq(Fibers)] BY <1>1 DEF Domains
  <2>2. inbox[h] # <<>> /\ inbox' = [inbox EXCEPT ![h] = Tail(@)] BY <1>1, <1>3
  <2>3. inbox' \in [Threads -> Seq(Fibers)] BY <2>1, <2>2, PopFacts
  <2>4. \A k \in Threads : \A i \in 1..Len(inbox'[k]) :
            k = h => i + 1 \in 1..Len(inbox[k]) /\ inbox'[k][i] = inbox[k][i + 1]
    BY <2>1, <2>2, PopFacts
  <2>6. \A k \in Threads : \A i \in 1..Len(inbox[k]) :
            k # h \/ i # 1 => \E j \in 1..Len(inbox'[k]) : inbox'[k][j] = inbox[k][i]
    BY SMTT(60), <2>1, <2>2, PopFacts
  <2> QED BY <2>3, <2>4, <2>1, <2>2, PopFacts, <2>6
<1>9. Domains' BY <1>1, <1>3, <1>6, <1>7 DEF Domains
<1>10. ListHoldsUsers' /\ HolderIsLast' BY <1>3 DEF Core, ListHoldsUsers, HolderIsLast
<1>11. WakesAreDue'
  <2>1. ASSUME NEW k \in Threads, NEW i \in 1..Len(ready'[k]), NEW g, g = ready'[k][i]
        PROVE  Home[g] = k /\ (pc[g] = "yielded" \/ (pc[g] \in InLock /\ IsOwner(g)))
    BY SMTT(60), <1>2, <1>4, <1>6, <2>1 DEF Core, WakesAreDue
  <2>2. ASSUME NEW k \in Threads, NEW i \in 1..Len(inbox'[k]), NEW g, g = inbox'[k][i]
        PROVE  Home[g] = k /\ pc[g] \in InLock /\ IsOwner(g)
    <3>1. \E j \in 1..Len(inbox[k]) : g = inbox[k][j] BY <1>7, <2>2
    <3> QED  BY <3>1 DEF Core, WakesAreDue
  <2>3. pc' = pc /\ blist' = blist BY <1>3
  <2> QED  BY <2>1, <2>2, <2>3 DEF WakesAreDue
<1>12. WakesAreOnce'
  <2>1. ASSUME NEW k \in Threads, NEW i \in 1..Len(ready'[k]), NEW j \in 1..Len(ready'[k]),
               ready'[k][i] = ready'[k][j]
        PROVE  i = j
    BY <1>6, <1>2, <1>4, <2>1 DEF Core, WakesAreOnce
  <2>2. ASSUME NEW k \in Threads, NEW i \in 1..Len(inbox'[k]), NEW j \in 1..Len(inbox'[k]),
               inbox'[k][i] = inbox'[k][j]
        PROVE  i = j
    <3>1. CASE k = h BY <1>7, <3>1, <2>2 DEF Core, WakesAreOnce
    <3>2. CASE k # h
      <4>1. /\ i \in 1..Len(inbox[k]) /\ inbox'[k][i] = inbox[k][i]
            /\ j \in 1..Len(inbox[k]) /\ inbox'[k][j] = inbox[k][j]
        BY <1>7, <3>2
      <4> QED  BY <2>2, <4>1 DEF Core, WakesAreOnce
    <3> QED  BY <3>1, <3>2
  <2>3. ASSUME NEW k \in Threads, NEW i \in 1..Len(ready'[k]), NEW j \in 1..Len(inbox'[k])
        PROVE  ready'[k][i] # inbox'[k][j]
    <3> DEFINE m == IF k = h THEN j + 1 ELSE j
    <3>1. m \in 1..Len(inbox[k]) /\ inbox'[k][j] = inbox[k][m] BY <1>7
    <3>2. k = h => m # 1 OBVIOUS
    <3> HIDE DEF m
    <3>3. k = h => inbox[k][m] # c BY <1>2, <1>4, <3>1, <3>2 DEF Core, WakesAreOnce
    <3> QED  BY <1>6, <3>1, <3>3 DEF Core, WakesAreOnce
  <2> QED  BY <2>1, <2>2, <2>3 DEF WakesAreOnce
<1>13. OwnerIsWoken' BY <1>3, <1>2, <1>4, <1>6 DEF OwnerIsWoken, Core, WakesAreDue
<1> QED  BY <1>9, <1>10, <1>11, <1>12, <1>13 DEF Core

\* unlock() keeps the mutex, frees it, or hands it to the oldest waiter, which
\* nobody has woken yet.
LEMMA UnlockCore ==
  ASSUME Core, NEW f \in Fibers, Unlock(f)
  PROVE  Core'
<1> USE DEF InLock, IsOwner
<1>1. Home[f] \in Threads /\ Domains BY HomeAssumption DEF Core
<1>2. /\ current' = current /\ pc' = pc /\ canceled' = canceled /\ flagging' = flagging
      /\ current[Home[f]] = f /\ depth[f] > 0 /\ depth' = [depth EXCEPT ![f] = @ - 1]
      /\ Release(Home[f])
  BY DEF Unlock, Running, cancelVars
<1>3. pc[f] = "run" BY <1>1 DEF Unlock, Domains
<1>4. IsOwner(f) /\ count = depth[f] BY <1>2 DEF Core, HolderIsLast
<1>5. Len(blist) \in Nat \ {0} /\ depth[f] \in 1..MaxDepth
  BY <1>1, <1>2, <1>4, DepthAssumption DEF Domains
<1>6. count' = depth[f] - 1 BY <1>5, DepthAssumption, <1>2, <1>4, NoWrap DEF Release
<1>7. \A g \in Fibers : depth'[g] = IF g = f THEN depth[f] - 1 ELSE depth[g]
  BY <1>1, <1>2 DEF Domains
<1>8. depth' \in [Fibers -> 0..MaxDepth] /\ count' \in Nat
  BY <1>1, <1>2, <1>5, <1>6, DepthAssumption DEF Domains
<1>9. \A g \in Fibers : g # f => depth[g] = 0 /\ depth'[g] = 0
  BY <1>4, <1>1, DepthAssumption, <1>7 DEF Core, HolderIsLast, Domains
<1>10. \A g \in Fibers : pc[g] \in InLock => g # f /\ ~IsOwner(g) BY <1>3, <1>4
<1>11. \A h \in Threads : /\ \A i \in 1..Len(ready[h]) : pc[ready[h][i]] \notin InLock
                          /\ ~\E i \in 1..Len(inbox[h]) : TRUE
  <2>1. ASSUME NEW h \in Threads, NEW i \in 1..Len(ready[h])
        PROVE  pc[ready[h][i]] \notin InLock
    BY <1>1, WakesAreFibers, <1>10 DEF Core, WakesAreDue
  <2>2. ASSUME NEW h \in Threads, NEW i \in 1..Len(inbox[h])
        PROVE  FALSE
    BY <1>1, WakesAreFibers, <1>10 DEF Core, WakesAreDue
  <2> QED  BY <2>1, <2>2
<1>12. CASE count' # 0
  <2>1. blist' = blist /\ ready' = ready /\ inbox' = inbox BY <1>2, <1>12 DEF Release
  <2>3. Domains' BY <1>1, <1>2, <1>8, <2>1 DEF Domains
  <2>4. ListHoldsUsers' BY <1>2, <2>1, <1>5, <1>6, <1>7, <1>12 DEF Core, ListHoldsUsers
  <2>5. HolderIsLast' BY <1>2, <1>4, <1>6, <1>7, <1>9, <1>10, <2>1 DEF Core, HolderIsLast
  <2>6. WakesAreDue' /\ OwnerIsWoken' BY <1>2, <2>1 DEF Core, WakesAreDue, OwnerIsWoken
  <2>7. WakesAreOnce' BY <2>1 DEF Core, WakesAreOnce
  <2> QED  BY <2>3, <2>4, <2>5, <2>6, <2>7 DEF Core
<1>13. CASE count' = 0 /\ Len(blist) < 2
  <2>1. blist' = <<>> /\ ready' = ready /\ inbox' = inbox /\ Len(blist') = 0
    BY <1>2, <1>13 DEF Release
  <2>2. \A g \in Fibers : depth'[g] = 0 BY <1>6, <1>7, <1>9, <1>13
  <2>4. Domains' BY <1>1, <1>2, <1>8, <2>1 DEF Domains
  <2>5. ListHoldsUsers' BY <1>2, <2>1, <2>2, <1>4, <1>5, <1>13, <1>10 DEF ListHoldsUsers, Core
  <2>6. HolderIsLast' /\ OwnerIsWoken'
    BY <1>2, <2>2, <1>4, <1>5, <1>13, <1>10 DEF HolderIsLast, OwnerIsWoken, Core, ListHoldsUsers
  <2>7. WakesAreDue' BY <1>1, WakesAreFibers, <1>2, <1>11, <2>1 DEF Core, WakesAreDue
  <2>8. WakesAreOnce' BY <2>1 DEF Core, WakesAreOnce
  <2> QED  BY <2>4, <2>5, <2>6, <2>7, <2>8 DEF Core
<1>14. CASE count' = 0 /\ ~(Len(blist) < 2)
  <2> DEFINE n == Len(blist) - 1
             c == blist[n]
  <2>1. n \in 1..Len(blist) /\ n \in Nat \ {0} /\ n # Len(blist)
    <3>1. \A l \in Nat : ~(l < 2) => l - 1 \in 1..l /\ l - 1 \in Nat \ {0} /\ l - 1 # l OBVIOUS
    <3> QED  BY <1>5, <1>14, <3>1
  <2>2. /\ Front(blist) \in Seq(Fibers) /\ Len(Front(blist)) = n
        /\ \A i \in 1..n : Front(blist)[i] = blist[i]
    BY <1>1, <1>4, FrontFacts DEF Domains
  <2>3. Last(Front(blist)) = c /\ c \in Fibers
    <3>1. c \in Fibers BY <1>1, <2>1 DEF Domains
    <3>2. n \in 1..n BY <2>1
    <3> QED  BY <2>2, <3>1, <3>2 DEF Last
  <2> HIDE DEF n, c
  <2>4. blist' = Front(blist) /\ Unblock(c, Home[f]) BY <1>2, <1>14, <2>3 DEF Release
  <2>5. c # f /\ n \in 1..n BY <1>4, <1>5, <2>1 DEF Core, ListHoldsUsers, c
  <2>6. pc[c] \in InLock /\ Home[c] \in Threads
    BY <2>1, <2>3, <1>9, <2>5, HomeAssumption DEF Core, ListHoldsUsers, c
  <2>7. /\ Len(blist') = n /\ blist' # <<>>
        /\ \A i \in 1..n : blist'[i] = blist[i] /\ i \in 1..Len(blist)
        /\ \A g \in Fibers : IsOwner(g)' <=> g = c
    BY <2>1, <2>2, <2>4, <1>5, <2>5 DEF n, c
  <2>9. /\ \A i \in 1..Len(ready[Home[c]]) : ready[Home[c]][i] # c
        /\ \A i \in 1..Len(inbox[Home[c]]) : inbox[Home[c]][i] # c
    BY <1>11, <2>6
  <2>10. ListHoldsUsers'
    <3>2. ASSUME NEW g \in Fibers
          PROVE  (\E i \in 1..Len(blist') : blist'[i] = g) <=> pc[g] \in InLock
      <4>1. ASSUME NEW i \in 1..Len(blist'), blist'[i] = g  PROVE pc[g] \in InLock
        BY <1>5, <2>7, <4>1, <1>4, <1>9 DEF n, Core, ListHoldsUsers
      <4>2. ASSUME pc[g] \in InLock  PROVE \E i \in 1..Len(blist') : blist'[i] = g
        BY SMTT(60), <4>2, <1>4, <1>10, <1>5, <2>7 DEF Core, ListHoldsUsers, n
      <4> QED  BY <4>1, <4>2
    <3>3. \A g \in Fibers : depth'[g] = 0 BY <1>6, <1>7, <1>9, <1>14
    <3> QED BY SMTT(60), <1>2, <2>7, <3>2, <3>3 DEF ListHoldsUsers, Core
  <2>11. HolderIsLast' BY <1>6, <1>7, <1>9, <1>14, <1>2 DEF Core, HolderIsLast
  <2>12. CASE Home[c] = Home[f]
    <3>1. ready' = [ready EXCEPT ![Home[c]] = Append(@, c)] /\ inbox' = inbox
      BY <2>4, <2>12 DEF Unblock
    <3>2. ready \in [Threads -> Seq(Fibers)] BY <1>1 DEF Domains
    <3>3. /\ ready' \in [Threads -> Seq(Fibers)]
          /\ \A k \in Threads : \A i \in 1..Len(ready'[k]) :
                \/ i \in 1..Len(ready[k]) /\ ready'[k][i] = ready[k][i]
                \/ k = Home[c] /\ i = Len(ready[Home[c]]) + 1 /\ ready'[k][i] = c
          /\ \E i \in 1..Len(ready'[Home[c]]) : ready'[Home[c]][i] = c
      BY <2>3, <2>6, <3>1, <3>2, PushFacts
    <3>4. Domains' BY <1>1, <1>2, <1>8, <2>2, <2>4, <3>1, <3>3 DEF Domains
    <3>5. WakesAreDue' BY <2>3, <2>6, <2>7, <1>11, <3>3, <3>1, <1>2 DEF Core, WakesAreDue
    <3>6. WakesAreOnce' BY <1>1, <2>3, <2>6, <2>9, <3>1, ReadyOnce DEF Core
    <3>7. OwnerIsWoken' BY <1>2, <2>3, <2>7, <3>3 DEF OwnerIsWoken
    <3> QED  BY <2>10, <2>11, <3>4, <3>5, <3>6, <3>7 DEF Core
  <2>13. CASE Home[c] # Home[f]
    <3>1. inbox' = [inbox EXCEPT ![Home[c]] = Append(@, c)] /\ ready' = ready
      BY <2>4, <2>13 DEF Unblock
    <3>2. inbox \in [Threads -> Seq(Fibers)] BY <1>1 DEF Domains
    <3>3. /\ inbox' \in [Threads -> Seq(Fibers)]
          /\ \A k \in Threads : \A i \in 1..Len(inbox'[k]) :
                \/ i \in 1..Len(inbox[k]) /\ inbox'[k][i] = inbox[k][i]
                \/ k = Home[c] /\ i = Len(inbox[Home[c]]) + 1 /\ inbox'[k][i] = c
          /\ \E i \in 1..Len(inbox'[Home[c]]) : inbox'[Home[c]][i] = c
      BY <2>3, <2>6, <3>1, <3>2, PushFacts
    <3>4. Domains' BY <1>1, <1>2, <1>8, <2>2, <2>4, <3>1, <3>3 DEF Domains
    <3>5. WakesAreDue' BY <1>11, <3>1, <3>3, <2>3, <2>6, <2>7, <1>2 DEF Core, WakesAreDue
    <3>6. WakesAreOnce' BY <1>1, <2>3, <2>6, <2>9, <3>1, InboxOnce DEF Core
    <3>7. OwnerIsWoken' BY <1>2, <2>3, <2>7, <3>3 DEF OwnerIsWoken
    <3> QED  BY <2>10, <2>11, <3>4, <3>5, <3>6, <3>7 DEF Core
  <2> QED  BY <2>12, <2>13
<1> QED  BY <1>12, <1>13, <1>14

----
\* No cancellation is ever taken back.
LEMMA CancelsGrow ==
  ASSUME cancels \in Nat, [Next]_vars
  PROVE  cancels' \in Nat /\ (cancels' = 0 => cancels = 0)
<1> USE DEF cancelVars, threadVars
<1>1. CASE UNCHANGED vars BY <1>1 DEF vars
<1>2. ASSUME NEW h \in Threads, Switch(h) \/ Deliver(h)
      PROVE  cancels' = cancels
  BY <1>2 DEF Switch, Deliver
<1>3. ASSUME NEW f \in Fibers, FiberStep(f) \/ CancelFlag(f)
      PROVE  cancels' = cancels
  BY <1>3 DEF FiberStep, Begin, Lock, YieldToWait, Unlock, End, Yield, Cleanup, CancelFlag
<1>4. ASSUME NEW f \in Fibers, CancelUnblock(f)
      PROVE  cancels' = cancels + 1
  BY <1>4 DEF CancelUnblock
<1> QED  BY <1>1, <1>2, <1>3, <1>4 DEF Next

\* Nothing but a cancellation ends the calm: the other steps keep the core.
LEMMA CoreStep ==
  ASSUME Core, cancels' = 0, cancels \in Nat, [Next]_vars
  PROVE  Core'
<1>1. CASE UNCHANGED vars
  BY <1>1 DEF vars, threadVars, cancelVars, Core, Domains, HolderIsLast, ListHoldsUsers,
     InLock, IsOwner, WakesAreDue, WakesAreOnce, OwnerIsWoken
<1>2. ASSUME NEW h \in Threads, Switch(h) \/ Deliver(h)
      PROVE  Core'
  BY <1>2, SwitchCore, DeliverCore
<1>3. ASSUME NEW f \in Fibers, FiberStep(f)
      PROVE  Core'
  BY <1>3, BeginCore, LockCore, YieldToWaitCore, UnlockCore, EndCore, YieldCore DEF Core, Domains,
    Cleanup, FiberStep
<1>4. ASSUME NEW f \in Fibers, CancelUnblock(f) \/ CancelFlag(f)
      PROVE  FALSE
  BY <1>4 DEF CancelUnblock, CancelFlag, Core, Domains
<1> QED  BY <1>1, <1>2, <1>3, <1>4 DEF Next

\* Until a task is cancelled, m_blist, the counter, the program counters and the lists of the
\* threads agree about the owner.
THEOREM Invariance == Spec => []IInv
<1>1. Init => IInv BY InitCore DEF Init, IInv
<1>2. IInv /\ [Next]_vars => IInv' BY CancelsGrow, CoreStep DEF IInv
<1> QED  BY <1>1, <1>2, PTL DEF Spec

\* Until a task is cancelled, no two fibers of any threads are ever between lock() and unlock().
THEOREM Exclusion == Spec => []MutualExclusion
<1>1. IInv => MutualExclusion BY OwnerIs DEF IInv, MutualExclusion, Core, HolderIsLast, Domains
<1> QED  BY <1>1, Invariance, PTL

\* Two lists without repetitions or common elements make one without repetitions, which contains
\* what they contain.
LEMMA ConcatFacts ==
  ASSUME NEW S, NEW s \in Seq(S), NEW t \in Seq(S), NEW e,
         \A i, j \in 1..Len(s) : s[i] = s[j] => i = j,
         \A i, j \in 1..Len(t) : t[i] = t[j] => i = j,
         \A i \in 1..Len(s), j \in 1..Len(t) : s[i] # t[j]
  PROVE  /\ IsInjective(s \o t)
         /\ Contains(s \o t, e) <=> \/ \E i \in 1..Len(s) : s[i] = e
                                    \/ \E i \in 1..Len(t) : t[i] = e
<1>1. /\ s \o t \in Seq(S) /\ Len(s) \in Nat /\ Len(t) \in Nat /\ Len(s \o t) = Len(s) + Len(t)
      /\ DOMAIN (s \o t) = 1..(Len(s) + Len(t))
  OBVIOUS
<1>2. \A i \in 1..Len(s) : (s \o t)[i] = s[i] /\ i \in 1..Len(s \o t) OBVIOUS
<1>3. \A i \in 1..Len(t) : (s \o t)[Len(s) + i] = t[i] /\ Len(s) + i \in 1..Len(s \o t) OBVIOUS
<1>4. \A i \in 1..(Len(s) + Len(t)) :
         i \in 1..Len(s) \/ (i - Len(s) \in 1..Len(t) /\ i = Len(s) + (i - Len(s)))
  BY <1>1
<1> DEFINE u == s \o t
<1> HIDE DEF u
<1>5. ASSUME NEW i \in DOMAIN u, NEW j \in DOMAIN u, u[i] = u[j]
      PROVE  i = j
  <2>1. \/ i \in 1..Len(s) /\ u[i] = s[i]
        \/ i - Len(s) \in 1..Len(t) /\ u[i] = t[i - Len(s)]
    BY <1>1, <1>2, <1>3, <1>4 DEF u
  <2>2. \/ j \in 1..Len(s) /\ u[j] = s[j]
        \/ j - Len(s) \in 1..Len(t) /\ u[j] = t[j - Len(s)]
    BY <1>1, <1>2, <1>3, <1>4 DEF u
  <2>3. i \in Int /\ j \in Int BY <1>1 DEF u
  <2>4. i - Len(s) = j - Len(s) => i = j BY <1>1, <2>3
  <2> QED  BY <1>5, <2>1, <2>2, <2>4
<1>6. ASSUME NEW i \in 1..Len(u), u[i] = e
      PROVE  \/ \E k \in 1..Len(s) : s[k] = e
             \/ \E k \in 1..Len(t) : t[k] = e
  BY <1>1, <1>2, <1>3, <1>4, <1>6 DEF u
<1>7. ASSUME \/ \E k \in 1..Len(s) : s[k] = e
             \/ \E k \in 1..Len(t) : t[k] = e
      PROVE  \E i \in 1..Len(u) : u[i] = e
  BY <1>2, <1>3, <1>7 DEF u
<1> QED  BY <1>5, <1>6, <1>7 DEF IsInjective, Contains, u

\* Until a task is cancelled, a fiber inside lock() has exactly one wake-up coming if it is the
\* owner, else none.
THEOREM Handover == Spec => []HandoverComing
<1>1. IInv => HandoverComing
  <2> SUFFICES ASSUME Core, NEW f \in Fibers, pc[f] \in InLock
               PROVE  /\ IsInjective(ready[Home[f]] \o inbox[Home[f]])
                      /\ Contains(ready[Home[f]] \o inbox[Home[f]], f) <=> f = Owner
    BY DEF IInv, HandoverComing, InLock
  <2>1. Home[f] \in Threads BY HomeAssumption
  <2>3. /\ IsInjective(ready[Home[f]] \o inbox[Home[f]])
        /\ Contains(ready[Home[f]] \o inbox[Home[f]], f)
              <=> \/ \E i \in 1..Len(ready[Home[f]]) : ready[Home[f]][i] = f
                  \/ \E i \in 1..Len(inbox[Home[f]]) : inbox[Home[f]][i] = f
    <3> DEFINE s == ready[Home[f]]
               t == inbox[Home[f]]
    <3>1. /\ \A i, j \in 1..Len(s) : s[i] = s[j] => i = j
          /\ \A i, j \in 1..Len(t) : t[i] = t[j] => i = j
          /\ \A i \in 1..Len(s), j \in 1..Len(t) : s[i] # t[j]
      BY <2>1 DEF Core, WakesAreOnce
    <3>2. s \in Seq(Fibers) /\ t \in Seq(Fibers) BY <2>1 DEF Core, Domains
    <3> HIDE DEF s, t
    <3>3. IsInjective(s \o t) BY <3>1, <3>2, ConcatFacts
    <3>4. Contains(s \o t, f) <=> \/ \E i \in 1..Len(s) : s[i] = f
                                  \/ \E i \in 1..Len(t) : t[i] = f
      BY <3>1, <3>2, ConcatFacts
    <3> QED  BY <3>3, <3>4 DEF s, t
  <2>4. f = Owner <=> IsOwner(f) BY OwnerIs DEF Core, Domains
  <2> QED BY <2>3, <2>4, <2>1 DEF Core, WakesAreDue, OwnerIsWoken, InLock
<1> QED  BY <1>1, Invariance, PTL
====
