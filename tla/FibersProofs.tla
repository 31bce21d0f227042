---- MODULE FibersProofs ----
(* What the scheduler of Fibers keeps for any number of contexts, tasks and promises. The lists are
   reasoned about as sets; steps that notify promises only move contexts from the blocked and the
   sleeping to the ready (Released). FbInductive says where each context is, and what the messages
   on their way will do. *)
EXTENDS Fibers, FiniteSetTheorems, TLAPS

----
(* Sequences as sets. *)

CtxAt(q) == {i \in DOMAIN q : q[i].kind = "ctx"}
InReady(q) == {q[i].of : i \in CtxAt(q)}
QueuedOnce(q) == \A i, j \in CtxAt(q) : q[i].of = q[j].of => i = j
Messages(q) == {q[i] : i \in DOMAIN q \ CtxAt(q)}

Mail == [kind : {"task", "canceled"}, of : Tasks] \cup [kind : {"notify"}, of : AllProms]
           \cup [kind : {"quit"}, of : {NoTask}]
Items == Mail \cup [kind : {"ctx"}, of : Ctxs]

Scheds == [runq : Seq(Items), blocked : Seq(Ctxs), sleepers : SUBSET Ctxs,
           blocking : [Ctxs -> SUBSET AllProms], ready : [AllProms -> BOOLEAN],
           exc : [AllProms -> {"none", "canceled", "timeout"}]]

\* Nobody is in a list twice, and a ready context is in no other.
Apart(S) == /\ S \in Scheds /\ IsInjective(S.blocked) /\ QueuedOnce(S.runq)
            /\ InReady(S.runq) \cap (ToSet(S.blocked) \cup S.sleepers) = {}

\* From S to T the contexts in W left their lists for the ready heap, among them all whom a promise
\* that became ready had told.
Released(S, T) ==
  LET W == ToSet(S.blocked) \ ToSet(T.blocked)
  IN /\ Apart(T)
     /\ ToSet(T.blocked) \subseteq ToSet(S.blocked) /\ T.sleepers = S.sleepers \ W
     /\ InReady(T.runq) = InReady(S.runq) \cup W /\ Messages(T.runq) = Messages(S.runq)
     /\ \A c \in Ctxs \ W : T.blocking[c] = S.blocking[c]
     /\ \A p \in AllProms : S.ready[p] => T.ready[p]
     /\ \A p \in AllProms : T.ready[p] /\ ~S.ready[p] /\ waiters[p] > 0 =>
           \A c \in ToSet(T.blocked) : p \notin T.blocking[c]

\* Among() keeps the elements that are in C, and repeats none.
LEMMA AmongIs ==
  ASSUME NEW D, NEW s \in Seq(D), NEW C
  PROVE  /\ Among(s, C) \in Seq(D \cap C)
         /\ ToSet(Among(s, C)) = ToSet(s) \cap C
         /\ IsInjective(s) => IsInjective(Among(s, C))
         /\ (\A i, j \in DOMAIN s : s[i] \in C /\ s[i] = s[j] => i = j) => IsInjective(Among(s, C))
<1> DEFINE I == {i \in DOMAIN s : s[i] \in C}
           n == Cardinality(I)
           upto(i) == {j \in I : j <= i}
           rank == [i \in I |-> Cardinality(upto(i))]
<1>1. IsFiniteSet(I) /\ n \in Nat /\ I \subseteq Nat
  <2>2. IsFiniteSet(1..Len(s)) BY FS_Interval
  <2> QED BY <2>2, FS_Subset, FS_CardinalityType
<1>2. \A i \in I : IsFiniteSet(upto(i)) /\ rank[i] \in 1..n
  <2> SUFFICES ASSUME NEW i \in I PROVE IsFiniteSet(upto(i)) /\ rank[i] \in 1..n OBVIOUS
  <2>1. IsFiniteSet(upto(i)) /\ Cardinality(upto(i)) <= n BY <1>1, FS_Subset
  <2>2. Cardinality(upto(i)) \in Nat /\ Cardinality(upto(i)) # 0
    BY <1>1, <2>1, FS_CardinalityType, FS_EmptySet
  <2> QED BY <2>1, <2>2
<1>3. \A i, j \in I : i < j => rank[i] # rank[j]
  <2> SUFFICES ASSUME NEW i \in I, NEW j \in I, i < j, rank[i] = rank[j] PROVE FALSE OBVIOUS
  <2>1. upto(i) \subseteq upto(j) /\ j \in upto(j) /\ j \notin upto(i) OBVIOUS
  <2> QED BY <1>2, <2>1, FS_Subset
<1>4. rank \in Injection(I, 1..n)
  <2>1. rank \in [I -> 1..n] BY <1>2
  <2>2. \A i, j \in I : i < j \/ j < i \/ i = j OBVIOUS
  <2> QED BY <2>1, <1>3, <2>2 DEF Injection, IsInjective
<1>5. rank \in Surjection(I, 1..n) BY <1>1, <1>4, FS_Injection, FS_Interval
<1> DEFINE at_(k) == CHOOSE i \in I : Cardinality(upto(i)) = k
<1>7. \A k \in 1..n : at_(k) \in I /\ rank[at_(k)] = k BY <1>5 DEF Surjection
<1>8. \A i \in I : at_(rank[i]) = i BY <1>3, <1>7
<1>9. Among(s, C) = [k \in 1..n |-> s[at_(k)]] BY DEF Among
<1> HIDE DEF at_, rank, n
<1>12. ToSet(Among(s, C)) = ToSet(s) \cap C
  <2>2. \A i \in I : rank[i] \in 1..n /\ Among(s, C)[rank[i]] = s[i] BY <1>2, <1>8, <1>9
  <2> QED BY <1>1, <1>7, <1>9, <2>2 DEF ToSet
<1> QED BY <1>1, <1>9, <1>7, <1>12 DEF IsInjective

\* SetToSeq() lists a finite set.
LEMMA SetToSeqIs ==
  ASSUME NEW S, IsFiniteSet(S)
  PROVE  SetToSeq(S) \in Seq(S) /\ ToSet(SetToSeq(S)) = S /\ IsInjective(SetToSeq(S))
<1> DEFINE n == Cardinality(S)
           f == SetToSeq(S)
<1>1. n \in Nat /\ \E g \in [1..n -> S] : IsInjective(g)
  BY FS_CardinalityType DEF ExistsBijection, Bijection, Injection, IsInjective
<1>2. f \in [1..n -> S] /\ IsInjective(f) BY <1>1 DEF SetToSeq
<1> HIDE DEF f
<1>3. f \in Injection(1..n, S) /\ Cardinality(1..n) = n BY <1>1, <1>2, FS_Interval DEF Injection
<1>4. f \in Surjection(1..n, S) BY <1>3, FS_Injection
<1> HIDE DEF n
<1>5. f \in Seq(S) /\ ToSet(f) = S
  <2>2. f \in Seq(S) BY <1>1, <1>2
  <2> QED BY <1>2, <1>4, <2>2 DEF ToSet, Surjection
<1> QED BY <1>2, <1>5 DEF f

\* What is queued behind another sequence is queued after it.
LEMMA JoinedIs ==
  ASSUME NEW q \in Seq(Items), NEW r \in Seq(Items)
  PROVE  /\ q \o r \in Seq(Items)
         /\ InReady(q \o r) = InReady(q) \cup InReady(r)
         /\ Messages(q \o r) = Messages(q) \cup Messages(r)
         /\ QueuedOnce(q) /\ QueuedOnce(r) /\ InReady(q) \cap InReady(r) = {}
               => QueuedOnce(q \o r)
<1> DEFINE t == q \o r
<1>2. /\ \A i \in 1..Len(q) : i \in DOMAIN t /\ t[i] = q[i]
      /\ \A i \in 1..Len(r) : Len(q) + i \in DOMAIN t /\ t[Len(q) + i] = r[i]
  OBVIOUS
<1>3. \A i \in DOMAIN t : IF i <= Len(q) THEN i \in DOMAIN q /\ t[i] = q[i]
                           ELSE i - Len(q) \in DOMAIN r /\ t[i] = r[i - Len(q)]
  OBVIOUS
<1>4. DOMAIN q = 1..Len(q) /\ DOMAIN r = 1..Len(r) OBVIOUS
<1> HIDE DEF t
<1>5. InReady(t) = InReady(q) \cup InReady(r) BY <1>2, <1>3, <1>4 DEF InReady, CtxAt
<1>7. QueuedOnce(q) /\ QueuedOnce(r) /\ InReady(q) \cap InReady(r) = {} => QueuedOnce(t)
  <2> SUFFICES ASSUME QueuedOnce(q), QueuedOnce(r), InReady(q) \cap InReady(r) = {},
                      NEW i \in CtxAt(t), NEW j \in CtxAt(t), t[i].of = t[j].of
               PROVE  i = j
    BY DEF QueuedOnce
  <2>1. \A k \in CtxAt(t) : IF k <= Len(q) THEN k \in CtxAt(q) /\ t[k] = q[k]
                            ELSE k - Len(q) \in CtxAt(r) /\ t[k] = r[k - Len(q)]
    BY <1>3 DEF CtxAt
  <2>2. i \in Nat /\ j \in Nat BY DEF CtxAt
  <2>3. \A k \in CtxAt(t) : t[k].of \in (IF k <= Len(q) THEN InReady(q) ELSE InReady(r))
    BY <2>1 DEF InReady
  <2>4. i <= Len(q) <=> j <= Len(q) BY <2>3
  <2> QED BY <2>1, <2>2, <2>4 DEF QueuedOnce
<1> QED BY <1>5, <1>2, <1>3, <1>4, <1>7 DEF t, Messages, CtxAt

\* Contexts that become ready join the ready heap.
LEMMA MadeReady ==
  ASSUME NEW S \in Scheds, QueuedOnce(S.runq), NEW cs \in Seq(Ctxs), IsInjective(cs),
         ToSet(cs) \cap InReady(S.runq) = {}
  PROVE  /\ MakeReady(S, cs) = [S EXCEPT !.runq = MakeReady(S, cs).runq]
         /\ MakeReady(S, cs) \in Scheds /\ QueuedOnce(MakeReady(S, cs).runq)
         /\ InReady(MakeReady(S, cs).runq) = InReady(S.runq) \cup ToSet(cs)
         /\ Messages(MakeReady(S, cs).runq) = Messages(S.runq)
<1> DEFINE q == S.runq
           r == [i \in DOMAIN cs |-> Entry("ctx", cs[i])]
<1>1. q \in Seq(Items) /\ MakeReady(S, cs) = [S EXCEPT !.runq = q \o r] BY DEF MakeReady, Scheds
<1>2. r \in Seq(Items) /\ DOMAIN r = DOMAIN cs BY DEF Items, Entry
<1>3. \A i \in DOMAIN cs : r[i].kind = "ctx" /\ r[i].of = cs[i] BY DEF Entry
<1> HIDE DEF r
<1>4. CtxAt(r) = DOMAIN cs BY <1>2, <1>3 DEF CtxAt
<1>5. InReady(r) = ToSet(cs) /\ Messages(r) = {} /\ QueuedOnce(r)
  BY <1>2, <1>3, <1>4 DEF InReady, ToSet, Messages, QueuedOnce, IsInjective
<1> HIDE DEF q
<1>7. /\ q \o r \in Seq(Items) /\ QueuedOnce(q \o r)
      /\ InReady(q \o r) = InReady(q) \cup ToSet(cs) /\ Messages(q \o r) = Messages(q)
  <2>2. /\ q \o r \in Seq(Items) /\ InReady(q \o r) = InReady(q) \cup InReady(r)
        /\ Messages(q \o r) = Messages(q) \cup Messages(r)
    BY <1>1, <1>2, <1>5, JoinedIs DEF q
  <2>3. QueuedOnce(q \o r) BY <1>5, <1>1, <1>2, JoinedIs DEF q
  <2> QED BY <1>5, <2>2, <2>3
<1> QED BY <1>1, <1>7 DEF Scheds, q

\* What is taken from the queue is no longer in it; the rest stays.
LEMMA WithoutIs ==
  ASSUME NEW q \in Seq(Items), NEW i \in DOMAIN q, QueuedOnce(q)
  PROVE  /\ RemoveAt(q, i) \in Seq(Items) /\ QueuedOnce(RemoveAt(q, i))
         /\ InReady(RemoveAt(q, i)) =
               IF q[i].kind = "ctx" THEN InReady(q) \ {q[i].of} ELSE InReady(q)
         /\ Messages(RemoveAt(q, i)) \subseteq Messages(q)
         /\ Messages(q) \subseteq Messages(RemoveAt(q, i)) \cup {q[i]}
         /\ q[i].kind = "ctx" => Messages(RemoveAt(q, i)) = Messages(q)
<1> DEFINE r == RemoveAt(q, i)
           old(k) == IF k < i THEN k ELSE k + 1
<1>2. r \in Seq(Items) /\ DOMAIN r = 1..(Len(q) - 1) /\ \A k \in DOMAIN r : r[k] = q[old(k)]
  <2> DEFINE a == SubSeq(q, 1, i - 1)
             b == SubSeq(q, i + 1, Len(q))
  <2>1. a \in Seq(Items) /\ Len(a) = i - 1 /\ \A k \in 1..(i - 1) : a[k] = q[k] OBVIOUS
  <2>2. b \in Seq(Items) /\ Len(b) = Len(q) - i /\ \A k \in 1..(Len(q) - i) : b[k] = q[k + i]
    OBVIOUS
  <2> HIDE DEF a, b
  <2>3. r = a \o b BY DEF RemoveAt, a, b
  <2> HIDE DEF r
  <2>4. r \in Seq(Items) /\ Len(r) = Len(q) - 1 BY <2>1, <2>2, <2>3
  <2>5. \A k \in 1..(Len(q) - 1) : r[k] = IF k < i THEN a[k] ELSE b[k - i + 1] BY <2>1, <2>2, <2>3
  <2>6. \A k \in 1..(Len(q) - 1) : r[k] = q[old(k)]
    <3> SUFFICES ASSUME NEW k \in 1..(Len(q) - 1) PROVE r[k] = q[old(k)] OBVIOUS
    <3>1. CASE k < i BY <2>1, <2>5, <3>1
    <3>2. CASE ~(k < i)
      <4>1. k - i + 1 \in 1..(Len(q) - i) /\ k - i + 1 + i = k + 1 BY <3>2
      <4> QED BY <2>2, <2>5, <3>2, <4>1
    <3> QED BY <3>1, <3>2
  <2> QED BY <2>4, <2>6
<1> HIDE DEF r
<1>3. \A k \in DOMAIN r : old(k) \in DOMAIN q \ {i} BY <1>2
<1>4. \A k \in DOMAIN q \ {i} : \E j \in DOMAIN r : r[j] = q[k]
  <2> SUFFICES ASSUME NEW k \in DOMAIN q \ {i} PROVE \E j \in DOMAIN r : r[j] = q[k] OBVIOUS
  <2>1. CASE k < i BY <1>2, <2>1
  <2>2. CASE k > i
    <3>1. k - 1 \in DOMAIN r /\ old(k - 1) = k BY <1>2, <2>2
    <3> QED BY <1>2, <3>1
  <2> QED BY <2>1, <2>2
<1>5. \A j, k \in DOMAIN r : old(j) = old(k) => j = k BY <1>2
<1> HIDE DEF old
<1>6. QueuedOnce(r) BY <1>2, <1>3, <1>5 DEF QueuedOnce, CtxAt
<1>7. InReady(r) \subseteq InReady(q) /\ InReady(q) \subseteq InReady(r) \cup {q[i].of}
  BY SMTT(60), <1>2, <1>3, <1>4 DEF InReady, CtxAt
<1>8. q[i].kind # "ctx" => InReady(q) \subseteq InReady(r) BY <1>4 DEF InReady, CtxAt
<1>10. /\ Messages(r) \subseteq Messages(q) /\ Messages(q) \subseteq Messages(r) \cup {q[i]}
       /\ q[i].kind = "ctx" => Messages(q) \subseteq Messages(r)
  BY <1>2, <1>3, <1>4 DEF Messages, CtxAt
<1> QED BY <1>2, <1>6, <1>7, <1>8, <1>3, <1>10 DEF r, InReady, CtxAt, QueuedOnce

\* notify() moves the contexts the promise releases, and leaves none blocked on it.
LEMMA NotifiedReleases ==
  ASSUME NEW S, Apart(S), NEW p
  PROVE  /\ Released(S, Notified(S, p))
         /\ Notified(S, p).ready = S.ready /\ Notified(S, p).exc = S.exc
         /\ \A c \in ToSet(Notified(S, p).blocked) : p \notin Notified(S, p).blocking[c]
<1> DEFINE B == ToSet(S.blocked)
           W == {c \in B : TryUnblock(S, c, p)}
           clear == [c \in Ctxs |-> IF c \in W \cap S.sleepers THEN {} ELSE S.blocking[c]]
           R == [S EXCEPT !.blocked = Among(S.blocked, Ctxs \ W),
                          !.sleepers = S.sleepers \ W, !.blocking = clear]
           cs == Among(S.blocked, W)
           T == Notified(S, p)
<1>1. S \in Scheds /\ S.blocked \in Seq(Ctxs) /\ B \subseteq Ctxs /\ IsInjective(S.blocked)
  BY DEF Apart, Scheds, ToSet
<1>2. T = MakeReady(R, cs) BY <1>1 DEF Notified
<1>3. /\ cs \in Seq(Ctxs) /\ IsInjective(cs) /\ ToSet(cs) = W
      /\ Among(S.blocked, Ctxs \ W) \in Seq(Ctxs) /\ IsInjective(Among(S.blocked, Ctxs \ W))
      /\ ToSet(Among(S.blocked, Ctxs \ W)) = B \ W
  <2>1. cs \in Seq(Ctxs \cap W) /\ Among(S.blocked, Ctxs \ W) \in Seq(Ctxs \cap (Ctxs \ W))
    BY <1>1, AmongIs
  <2> HIDE DEF W
  <2>2. cs \in Seq(Ctxs) /\ Among(S.blocked, Ctxs \ W) \in Seq(Ctxs) BY <2>1
  <2>3. W \subseteq B BY DEF W
  <2>4. /\ IsInjective(cs) /\ ToSet(cs) = B \cap W /\ IsInjective(Among(S.blocked, Ctxs \ W))
        /\ ToSet(Among(S.blocked, Ctxs \ W)) = B \cap (Ctxs \ W)
    BY <1>1, AmongIs
  <2> HIDE DEF cs, B
  <2> QED BY <1>1, <2>2, <2>3, <2>4
<1> HIDE DEF W, cs
<1>4. W \subseteq B /\ \A c \in B \ W : p \notin S.blocking[c] BY DEF W, TryUnblock
<1>5. clear \in [Ctxs -> SUBSET AllProms] /\ \A c \in Ctxs \ W : clear[c] = S.blocking[c]
  BY <1>1 DEF Scheds
<1> HIDE DEF clear
<1>6. /\ R \in Scheds /\ R.runq = S.runq /\ R.sleepers = S.sleepers \ W /\ R.blocking = clear
      /\ ToSet(R.blocked) = B \ W /\ IsInjective(R.blocked) /\ R.ready = S.ready /\ R.exc = S.exc
  BY <1>1, <1>3, <1>5 DEF Scheds
<1> HIDE DEF R
<1>8. /\ T = [R EXCEPT !.runq = T.runq] /\ T \in Scheds /\ QueuedOnce(T.runq)
      /\ InReady(T.runq) = InReady(S.runq) \cup W /\ Messages(T.runq) = Messages(S.runq)
  BY <1>2, <1>3, <1>4, <1>6, MadeReady DEF Apart
<1>9. /\ T.blocked = R.blocked /\ T.sleepers = R.sleepers /\ T.blocking = clear
      /\ T.ready = S.ready /\ T.exc = S.exc
  BY <1>6, <1>8 DEF Scheds
<1> HIDE DEF T
<1>10. Apart(T) BY <1>6, <1>8, <1>9 DEF Apart
<1>11. B \ ToSet(T.blocked) = W BY <1>4, <1>6, <1>9
<1>12. Released(S, T) BY <1>4, <1>5, <1>6, <1>8, <1>9, <1>10, <1>11 DEF Released
<1> QED BY <1>1, <1>4, <1>5, <1>6, <1>9, <1>12 DEF T

\* Releasing contexts twice releases them all.
LEMMA ReleasedTwice ==
  ASSUME NEW S, NEW T, NEW U, S \in Scheds, Released(S, T), Released(T, U)
  PROVE  Released(S, U)
<1> DEFINE X == ToSet(S.blocked)
           Y == ToSet(T.blocked)
           Z == ToSet(U.blocked)
<1>0. X \subseteq Ctxs BY DEF Scheds, ToSet
<1>1. /\ Z \subseteq Y /\ Y \subseteq X /\ Apart(U)
      /\ T.sleepers = S.sleepers \ (X \ Y) /\ U.sleepers = T.sleepers \ (Y \ Z)
      /\ InReady(T.runq) = InReady(S.runq) \cup (X \ Y)
      /\ InReady(U.runq) = InReady(T.runq) \cup (Y \ Z) /\ Messages(U.runq) = Messages(S.runq)
  BY DEF Released
<1>2. /\ \A c \in Ctxs \ (X \ Y) : T.blocking[c] = S.blocking[c]
      /\ \A c \in Ctxs \ (Y \ Z) : U.blocking[c] = T.blocking[c]
      /\ \A p \in AllProms : (S.ready[p] => T.ready[p]) /\ (T.ready[p] => U.ready[p])
      /\ \A p \in AllProms : T.ready[p] /\ ~S.ready[p] /\ waiters[p] > 0 =>
             \A c \in Y : p \notin T.blocking[c]
      /\ \A p \in AllProms : U.ready[p] /\ ~T.ready[p] /\ waiters[p] > 0 =>
             \A c \in Z : p \notin U.blocking[c]
  BY DEF Released
<1> SUFFICES /\ U.sleepers = S.sleepers \ (X \ Z)
             /\ InReady(U.runq) = InReady(S.runq) \cup (X \ Z)
             /\ \A c \in Ctxs \ (X \ Z) : U.blocking[c] = S.blocking[c]
             /\ \A p \in AllProms : U.ready[p] /\ ~S.ready[p] /\ waiters[p] > 0 =>
                    \A c \in Z : p \notin U.blocking[c]
  BY <1>2 DEF Released
<1> HIDE DEF X, Y, Z
<1> QED BY <1>0, <1>1, <1>2

\* _set_value(), set_exception() and their loop over blocking_prom only release
\* contexts.
LEMMA SetReadyReleases ==
  ASSUME NEW S, Apart(S), NEW p \in AllProms
  PROVE  Released(S, SetReady(S, p))
<1> DEFINE R == [S EXCEPT !.ready[p] = TRUE]
<1>1. S \in Scheds /\ Released(S, S) BY DEF Apart, Released
<1>2. /\ R \in Scheds /\ R.runq = S.runq /\ R.blocked = S.blocked /\ R.sleepers = S.sleepers
      /\ R.blocking = S.blocking /\ R.ready = [S.ready EXCEPT ![p] = TRUE]
  BY <1>1 DEF Scheds
<1>3. S.ready \in [AllProms -> BOOLEAN] BY <1>1 DEF Scheds
<1> HIDE DEF R
<1>4. Apart(R) BY <1>2 DEF Apart
<1>5. CASE waiters[p] > 0 /\ ~S.ready[p]
  <2>1. SetReady(S, p) = Notified(R, p) BY <1>5 DEF SetReady, R
  <2> DEFINE T == Notified(R, p)
  <2>2. /\ Released(R, T) /\ T.ready = R.ready
        /\ \A c \in ToSet(T.blocked) : p \notin T.blocking[c]
    BY <1>4, NotifiedReleases
  <2> HIDE DEF T
  <2> QED BY <1>2, <2>1, <2>2 DEF Released, T
<1>6. CASE ~(waiters[p] > 0) /\ ~S.ready[p] BY <1>6, <1>2, <1>3, <1>4 DEF SetReady, R, Released
<1> QED BY <1>1, <1>5, <1>6 DEF SetReady

LEMMA SetExceptionReleases ==
  ASSUME NEW S, Apart(S), NEW p \in AllProms, NEW e \in {"none", "canceled", "timeout"}
  PROVE  Released(S, SetException(S, p, e))
<1> DEFINE R == [S EXCEPT !.exc[p] = e]
<1>1. /\ S \in Scheds /\ R \in Scheds /\ R.runq = S.runq /\ R.blocked = S.blocked
      /\ R.sleepers = S.sleepers /\ R.blocking = S.blocking /\ R.ready = S.ready
  BY DEF Apart, Scheds
<1> HIDE DEF R
<1>2. Apart(R) BY <1>1 DEF Apart
<1>3. Released(R, SetReady(R, p)) /\ SetException(S, p, e) = SetReady(R, p)
  BY <1>2, SetReadyReleases DEF SetException, R
<1> QED BY <1>1, <1>3 DEF Released

LEMMA SetExceptionsRelease ==
  ASSUME NEW S, Apart(S), NEW ps \in SUBSET AllProms,
         NEW e \in {"none", "canceled", "timeout"}
  PROVE  Released(S, SetExceptions(S, ps, e))
<1> DEFINE p == CHOOSE p \in ps : TRUE
           q == CHOOSE q \in ps : q # p
           R == SetException(S, p, e)
<1>1. S \in Scheds /\ Released(S, S) BY DEF Apart, Released
<1>2. ps # {} => p \in ps OBVIOUS
<1> HIDE DEF p
<1>3. ps # {} /\ ps # {p} => q \in ps OBVIOUS
<1> HIDE DEF q
<1>4. ps # {} => Released(S, R) BY <1>2, SetExceptionReleases
<1>5. SetExceptions(S, ps, e) = CASE ps = {} -> S [] ps = {p} -> R [] OTHER -> SetException(R, q, e)
  BY DEF SetExceptions, p, q
<1> HIDE DEF R
<1>6. ps # {} /\ ps # {p} => Released(S, SetException(R, q, e))
  <2> SUFFICES ASSUME ps # {} /\ ps # {p} PROVE Released(S, SetException(R, q, e)) OBVIOUS
  <2>1. Apart(R) BY <1>4 DEF Released
  <2>2. Released(R, SetException(R, q, e)) BY <1>3, <2>1, SetExceptionReleases
  <2> QED BY <1>1, <1>4, <2>2, ReleasedTwice
<1> QED BY <1>1, <1>4, <1>5, <1>6

\* The elements of two sequences that share none.
LEMMA ConcatIs ==
  ASSUME NEW a \in Seq(Ctxs), NEW b \in Seq(Ctxs)
  PROVE  /\ a \o b \in Seq(Ctxs) /\ ToSet(a \o b) = ToSet(a) \cup ToSet(b)
         /\ IsInjective(a) /\ IsInjective(b) /\ ToSet(a) \cap ToSet(b) = {} => IsInjective(a \o b)
<1> DEFINE t == a \o b
<1>2. /\ \A i \in 1..Len(a) : i \in DOMAIN t /\ t[i] = a[i]
      /\ \A i \in 1..Len(b) : Len(a) + i \in DOMAIN t /\ t[Len(a) + i] = b[i]
  OBVIOUS
<1>3. \A i \in DOMAIN t : IF i <= Len(a) THEN i \in DOMAIN a /\ t[i] = a[i]
                           ELSE i - Len(a) \in DOMAIN b /\ t[i] = b[i - Len(a)]
  OBVIOUS
<1> HIDE DEF t
<1>4. \A x : x \in ToSet(t) => x \in ToSet(a) \cup ToSet(b) BY <1>3 DEF ToSet
<1>5. ToSet(t) = ToSet(a) \cup ToSet(b)
  <2>1. ToSet(a) \subseteq ToSet(t) BY <1>2 DEF ToSet
  <2>2. ToSet(b) \subseteq ToSet(t) BY <1>2 DEF ToSet
  <2> QED BY <1>4, <2>1, <2>2
<1>6. ASSUME IsInjective(a), IsInjective(b), ToSet(a) \cap ToSet(b) = {} PROVE IsInjective(t)
  <2>1. SUFFICES ASSUME NEW i \in DOMAIN t, NEW j \in DOMAIN t, t[i] = t[j] PROVE i = j
    BY DEF IsInjective
  <2>2. i \in Int /\ j \in Int /\ Len(a) \in Int BY DEF t
  <2>3. CASE i <= Len(a) /\ j <= Len(a) BY <1>3, <1>6, <2>1, <2>3 DEF IsInjective
  <2>4. CASE ~(i <= Len(a)) /\ ~(j <= Len(a))
    <3>1. i - Len(a) = j - Len(a) BY <1>3, <1>6, <2>1, <2>4 DEF IsInjective
    <3> QED BY <2>2, <3>1
  <2>5. CASE (i <= Len(a)) # (j <= Len(a))
    <3>1. (t[i] \in ToSet(a)) # (t[j] \in ToSet(a)) \/ t[i] \in ToSet(a) \cap ToSet(b)
      BY <1>3, <2>1, <2>5 DEF ToSet
    <3> QED BY <1>6, <2>1, <3>1
  <2> QED BY <2>3, <2>4, <2>5
<1> QED BY <1>5, <1>6 DEF t

\* notify_task_has_been_canceled() makes every canceled context that was blocked or asleep ready,
\* and no other.
LEMMA CanceledAreReady ==
  ASSUME NEW S, Apart(S)
  PROVE  LET T == CanceledReleased(S)
         IN /\ Apart(T) /\ T.blocking = S.blocking /\ T.ready = S.ready /\ T.exc = S.exc
            /\ ToSet(T.blocked) = ToSet(S.blocked) \ canceled
            /\ T.sleepers = S.sleepers \ canceled
            /\ InReady(T.runq) = InReady(S.runq)
                   \cup ((ToSet(S.blocked) \cup S.sleepers) \cap canceled)
            /\ Messages(T.runq) = Messages(S.runq)
<1> DEFINE B == ToSet(S.blocked)
           Q == {c \in Ctxs : Entry("ctx", c) \in ToSet(S.runq)}
           A == (S.sleepers \cap canceled) \ (Q \cup B)
           R == [S EXCEPT !.blocked = Among(S.blocked, Ctxs \ canceled),
                          !.sleepers = S.sleepers \ canceled]
           a == Among(S.blocked, canceled)
           b == SetToSeq(A)
           T == CanceledReleased(S)
<1>1. /\ S \in Scheds /\ S.blocked \in Seq(Ctxs) /\ S.sleepers \subseteq Ctxs
      /\ S.runq \in Seq(Items) /\ IsInjective(S.blocked)
  BY DEF Apart, Scheds
<1>2. T = MakeReady(R, a \o b) BY <1>1 DEF CanceledReleased
<1>3. Q \subseteq InReady(S.runq) /\ B \subseteq Ctxs BY <1>1 DEF InReady, CtxAt, ToSet, Entry
<1>4. InReady(S.runq) \cap (B \cup S.sleepers) = {} /\ QueuedOnce(S.runq) BY DEF Apart
<1>5. A = (S.sleepers \cap canceled) \ B BY <1>3, <1>4
<1>6. b \in Seq(Ctxs) /\ ToSet(b) = A /\ IsInjective(b)
  <2>1. IsFiniteSet(A) /\ A \subseteq Ctxs BY <1>1, FiniteAssumption, FS_Subset
  <2> HIDE DEF A
  <2>2. SetToSeq(A) \in Seq(A) BY <2>1, SetToSeqIs
  <2> QED BY <2>1, <2>2, SetToSeqIs
<1>7. /\ a \in Seq(Ctxs) /\ ToSet(a) = B \cap canceled /\ IsInjective(a)
      /\ R.blocked \in Seq(Ctxs) /\ ToSet(R.blocked) = B \ canceled /\ IsInjective(R.blocked)
  <2>1. R.blocked = Among(S.blocked, Ctxs \ canceled) OBVIOUS
  <2> HIDE DEF R
  <2>2. a \in Seq(Ctxs \cap canceled) /\ R.blocked \in Seq(Ctxs \cap (Ctxs \ canceled))
    BY <1>1, <2>1, AmongIs
  <2>3. a \in Seq(Ctxs) /\ R.blocked \in Seq(Ctxs) BY <2>2
  <2>4. ToSet(a) = B \cap canceled /\ ToSet(R.blocked) = B \cap (Ctxs \ canceled)
    BY ZenonT(60), <1>1, AmongIs, <2>1
  <2>5. IsInjective(a) /\ IsInjective(Among(S.blocked, Ctxs \ canceled)) BY <1>1, AmongIs
  <2> HIDE DEF a, R, B
  <2> QED BY <1>3, <2>1, <2>3, <2>4, <2>5
<1> HIDE DEF a, b, A, Q
<1>8. /\ a \o b \in Seq(Ctxs) /\ ToSet(a \o b) = ToSet(a) \cup ToSet(b) /\ IsInjective(a \o b)
  BY <1>5, <1>6, <1>7, ConcatIs
<1>9. /\ R \in Scheds /\ R.runq = S.runq /\ R.sleepers = S.sleepers \ canceled
      /\ R.blocking = S.blocking /\ R.ready = S.ready /\ R.exc = S.exc
  BY <1>1, <1>7 DEF Scheds
<1> HIDE DEF R
<1>10. ToSet(a \o b) = (B \cup S.sleepers) \cap canceled BY <1>5, <1>6, <1>7, <1>8
<1>11. /\ T = [R EXCEPT !.runq = T.runq] /\ T \in Scheds /\ QueuedOnce(T.runq)
       /\ InReady(T.runq) = InReady(S.runq) \cup ToSet(a \o b)
       /\ Messages(T.runq) = Messages(S.runq)
  <2>1. ToSet(a \o b) \cap InReady(R.runq) = {} /\ QueuedOnce(R.runq) BY <1>4, <1>9, <1>10
  <2> QED BY <1>2, <1>8, <1>9, <2>1, MadeReady
<1> HIDE DEF T
<1>13. Apart(T) BY <1>4, <1>7, <1>9, <1>10, <1>11 DEF Apart, Scheds
<1> QED BY <1>7, <1>9, <1>10, <1>11, <1>13 DEF T, Scheds

----
(* The inductive invariant. *)

Typed == /\ clock \in 0..MaxTime /\ inbox \in Seq(Mail) /\ pt \in Seq(Ctxs) /\ free \subseteq Ctxs
         /\ current \in Ctxs /\ resched \in BOOLEAN /\ done \in BOOLEAN
         /\ on \in [Ctxs -> SUBSET AllProms] /\ required \in [Ctxs -> BOOLEAN]
         /\ resume \in [Ctxs -> 0..Never]
         /\ prio \in [Ctxs -> {0, LOW}] /\ saved \in [Ctxs -> {0, LOW}]
         /\ canceled \subseteq Ctxs /\ cancelReq \subseteq Tasks /\ posted \subseteq Tasks
         /\ fuel \in [Tasks -> 0..Fuel] /\ waiters = [p \in AllProms |-> waiters[p]]
         /\ envNotify \subseteq AllProms /\ envFlag \subseteq Tasks \X Ctxs

Waiting == {"wait", "any"}
Suspended == {"wait", "any", "sleep", "yield"}
Busy(c) == at[c] \in Suspended \/ (c = current /\ stage = "task")

\* Who is blocked, who is ready, and the messages on their way.
Blk == ToSet(blocked)
Rdy == InReady(runq)
Post == Messages(inbox) \cup Messages(runq)

\* Where the running context is, and which contexts hold a task.
Control ==
  /\ stage \in {"loop", "pick", "task", "switch", "resume", "break", "drain",
                "exited", "crashed"}
  /\ at \in [Ctxs -> Suspended \cup {"unborn", "run", "idle", "quit", "dead"}]
  /\ cur \in [Ctxs -> Tasks \cup {NoTask}] /\ active \in [Tasks -> Ctxs \cup {NoCtx}]
  /\ stage \in {"loop", "pick", "task", "break", "crashed"} => at[current] = "run"
  /\ stage = "drain" => at[current] = "quit"
  /\ stage = "switch" => /\ at[current] \in Suspended \cup {"idle", "quit", "dead"}
                         /\ resched <=> at[current] \in {"yield", "quit"}
  /\ stage = "resume" => at[current] \in Suspended \cup {"quit"} \cup (IF done THEN {"idle"} ELSE {})
  /\ stage \in {"pick", "task"} => ~done
  /\ stage \in {"break", "drain", "crashed"} => done
  /\ \A c \in Ctxs : at[c] = "quit" => done
  /\ done /\ stage \notin {"break", "crashed"} => Blk = {} /\ sleepers = {}
  /\ \A c \in Ctxs : cur[c] # NoTask <=> Busy(c)
  /\ \A t \in Tasks : active[t] # NoCtx => cur[active[t]] = t

\* Contexts that no list of waiters holds.
Stored ==
  /\ IsInjective(pt)
  /\ ~done \/ stage \in {"break", "crashed"} =>
        free = {} /\ \A c \in Ctxs : at[c] # "dead" /\ (c \in ToSet(pt) <=> at[c] = "idle")
  /\ \A c \in ToSet(pt) : at[c] \in {"idle", "dead", "unborn"}
  /\ \A c \in free : at[c] \in {"dead", "run"}
  /\ stage # "exited" => \A c \in Ctxs : at[c] = "dead" => c \in free

\* Where a suspended context is.
Homes ==
  /\ Apart(Sched)
  /\ \A c \in Blk : at[c] \in Waiting /\ on[c] # {} /\ on[c] \subseteq blocking[c]
  /\ \A c \in sleepers : at[c] \in Waiting \cup {"sleep"}
  /\ \A c \in Rdy : \/ at[c] \in Suspended \cup {"quit"}
                    \/ (at[c] = "idle" /\ done /\ stage \notin {"break", "crashed"})
  /\ current \in Blk \cup sleepers \cup Rdy => stage = "switch"
  /\ current \in Rdy => ~resched
  /\ \A c \in Ctxs : c # current \/ stage = "switch" =>
        /\ at[c] \in Waiting => c \in Blk \cup Rdy
        /\ at[c] = "sleep" /\ Prompt => c \in sleepers \cup Rdy
  /\ \A c \in Ctxs \ {current} : at[c] \in {"yield", "quit"} => c \in Rdy
  /\ \A c \in Ctxs : at[c] = "sleep" => blocking[c] = {}
  /\ stage = "switch" /\ current \in sleepers /\ Prompt => resume[current] >= clock

\* No waiter of a promise that is ready is forgotten.
Notices == ~done =>
    \A c \in Blk : at[c] = "wait" =>
        \A p \in on[c] : ready[p] => p \in envNotify \/ Entry("notify", p) \in Post

\* What a cancellation has done, and what it has still to do.
Flags == ~done =>
    /\ \A f, g \in envFlag : f = g
    /\ \A c \in Ctxs : at[c] = "unborn" => c \notin canceled /\ \A f \in envFlag : f[2] # c
    /\ \A t \in cancelReq : active[t] # NoCtx =>
          active[t] \in canceled \/ <<t, active[t]>> \in envFlag
    /\ \A c \in canceled :
          c \in Blk \cup sleepers \/ (c = current /\ stage \in {"loop", "pick", "task"}) =>
             \E m \in Post : m.kind = "canceled"

Rest == Control /\ Stored /\ Homes /\ Notices /\ Flags /\ WaitersCounted
FbInductive == Typed /\ Rest

\* What the queues hold: contexts, and messages that are none.
LEMMA ItemsAre ==
  /\ \A m \in Items : /\ m.kind = "ctx" => m.of \in Ctxs
                      /\ m.kind = "task" => m.of \in Tasks
                      /\ m.kind = "notify" => m.of \in AllProms
                      /\ m = Entry(m.kind, m.of) /\ (m.kind # "ctx" => m \in Mail)
  /\ \A m \in Mail : m \in Items /\ m.kind # "ctx"
BY DEF Items, Mail, Entry

\* Every step keeps the types.
LEMMA TypedKept == FbInductive /\ Next => Typed'
<1> SUFFICES ASSUME FbInductive, Next PROVE Typed' OBVIOUS
<1>1. /\ Typed /\ runq \in Seq(Items) /\ sleepers \subseteq Ctxs
      /\ at \in [Ctxs -> Suspended \cup {"unborn", "run", "idle", "quit", "dead"}]
      /\ cur \in [Ctxs -> Tasks \cup {NoTask}] /\ active \in [Tasks -> Ctxs \cup {NoCtx}]
  BY DEF FbInductive, Rest, Homes, Control, Apart, Scheds, Sched
<1>2. /\ \A c \in Ctxs : <<c>> \in Seq(Ctxs) /\ <<c>> \o pt \in Seq(Ctxs)
      /\ pt # <<>> => Head(pt) \in Ctxs /\ Tail(pt) \in Seq(Ctxs)
  BY <1>1 DEF Typed
<1>3. \A m \in Mail : Append(inbox, m) \in Seq(Mail) BY <1>1 DEF Typed
<1>4. /\ \A t \in Tasks : Entry("canceled", t) \in Mail /\ Entry("task", t) \in Mail
      /\ \A p \in AllProms : Entry("notify", p) \in Mail
      /\ Entry("quit", NoTask) \in Mail
  BY DEF Mail, Entry
<1>5. \A op : Do(op) => fuel' \in [Tasks -> 0..Fuel]
  <2> SUFFICES ASSUME NEW t, fuel[t] > 0, fuel' = [fuel EXCEPT ![t] = @ - 1]
               PROVE  fuel' \in [Tasks -> 0..Fuel]
    BY DEF Do
  <2>1. t \in Tasks => fuel[t] - 1 \in 0..Fuel BY <1>1, BoundAssumption DEF Typed
  <2> QED BY <1>1, <2>1 DEF Typed
<1>6. \A w, ps, until, again : Suspend(w, ps, until, again) /\ ps \subseteq AllProms /\ until \in 0..Never
         => on' \in [Ctxs -> SUBSET AllProms] /\ resume' \in [Ctxs -> 0..Never] /\ resched' = again
  BY <1>1 DEF Typed, Suspend
<1>7. Timeouts \subseteq 0..Never /\ (clock + 1)..MaxTime \subseteq 0..Never /\ Never \in 0..Never
  BY <1>1, BoundAssumption DEF Typed, Timeouts, Never
<1>9. \A i \in ReadyAt : runq[i].of \in Ctxs BY <1>1, ItemsAre DEF ReadyAt
<1> USE DEF ctxVars, taskVars, flowVars, envVars, schedVars
<1>a0. CASE Move BY <1>1, <1>2, <1>3, <1>4, <1>a0, CtxAssumption DEF Typed, Move
<1>a1. CASE LoopEnd BY <1>1, <1>2, <1>3, <1>4, <1>a1, CtxAssumption DEF Typed, LoopEnd, Leave
<1>a2. CASE Expire \/ RunTask \/ RunMessage
  BY <1>1, <1>2, <1>3, <1>4, <1>a2, CtxAssumption DEF Typed, Expire, RunTask, RunMessage
<1>a5. CASE GoIdle BY <1>1, <1>2, <1>3, <1>4, <1>a5, CtxAssumption DEF Typed, GoIdle
<1>a6. CASE IdleWake BY <1>1, <1>2, <1>3, <1>4, <1>a6, CtxAssumption DEF Typed, IdleWake
<1>a7. CASE SwitchToReady BY ZenonT(60), <1>9, <1>a7, <1>1 DEF SwitchToReady, Typed, Handover
<1>a8. CASE SwitchToIdle
  <2>1. \E n \in Ctxs : \E S : Handover(S, n) BY <1>2, <1>a8 DEF SwitchToIdle, Dormant
  <2> QED BY <1>1, <2>1, <1>2, <1>a8 DEF Typed, SwitchToIdle, Handover
<1>a9. CASE ResumeTask BY <1>1, <1>7, <1>a9 DEF Typed, ResumeTask, EndTask, Dequeued
<1>a10. CASE ResumeIdle
  BY <1>1, <1>2, <1>3, <1>4, <1>a10, CtxAssumption DEF Typed, ResumeIdle, Leave
<1>a11. CASE RunQuit \/ BreakPromises \/ BreakUndefined
  BY <1>1, <1>2, <1>3, <1>4, <1>a11, CtxAssumption DEF Typed, RunQuit, BreakPromises, BreakUndefined
<1>a14. CASE CancelRest BY <1>1, <1>2, <1>a14 DEF Typed, CancelRest
<1>a15. CASE Drain BY <1>1, <1>2, <1>3, <1>4, <1>a15, CtxAssumption DEF Typed, Drain
<1>a16. CASE ResumeQuit \/ QuitEnd
  BY <1>1, <1>2, <1>3, <1>4, <1>a16, CtxAssumption, BoundAssumption DEF Typed, ResumeQuit, QuitEnd
<1>a18. CASE Wait
  <2>1. PICK p \in AllProms, until \in 0..Never :
           Suspend("wait", {p}, until, FALSE) /\ waiters' = [waiters EXCEPT ![p] = @ + 1]
    BY <1>7, <1>a18 DEF Wait
  <2>2. /\ on' \in [Ctxs -> SUBSET AllProms] /\ resume' \in [Ctxs -> 0..Never]
        /\ resched' \in BOOLEAN
    BY <1>1, <2>1 DEF Typed, Suspend
  <2>3. fuel' \in [Tasks -> 0..Fuel] BY <1>5, <1>a18 DEF Wait
  <2> QED BY <1>1, <2>2, <2>3, <2>1, <1>a18 DEF Typed, Wait
<1>a19. CASE WaitAny
  <2>1. fuel' \in [Tasks -> 0..Fuel] BY <1>5, <1>a19 DEF WaitAny
  <2>2. /\ on' \in [Ctxs -> SUBSET AllProms] /\ resume' \in [Ctxs -> 0..Never]
        /\ resched' \in BOOLEAN
    BY <1>6, <1>7, <1>a19 DEF WaitAny
  <2> QED BY <1>1, <2>1, <2>2, <1>a19 DEF Typed, WaitAny
<1>a20. CASE Yield
  <2>1. fuel' \in [Tasks -> 0..Fuel] BY <1>5, <1>a20 DEF Yield
  <2>2. /\ on' \in [Ctxs -> SUBSET AllProms] /\ resume' \in [Ctxs -> 0..Never]
        /\ resched' \in BOOLEAN
    BY ZenonT(60), <1>1, <1>7, <1>a20 DEF Typed, Yield, Throw, Suspend
  <2>3. canceled' \subseteq Ctxs BY <1>1, <1>a20 DEF Typed, Yield, Throw, EndTask
  <2> QED BY <1>1, <2>1, <2>2, <2>3, <1>a20 DEF Typed, Yield
<1>a21. CASE Sleep BY <1>5, <1>a21, <1>1, <1>7 DEF Sleep, Typed, Throw, Suspend, EndTask
<1>a22. CASE Cancel
  <2>1. PICK t \in posted : CancelTask(t) BY <1>a22 DEF Cancel
  <2>2. cancelReq' \subseteq Tasks /\ canceled' \subseteq Ctxs /\ inbox' \in Seq(Mail)
    BY <1>1, <1>3, <1>4, <2>1 DEF Typed, CancelTask
  <2> QED BY <1>1, <1>5, <2>2, <1>a22 DEF Typed, Cancel
<1>a23. CASE Async BY <1>1, <1>3, <1>4, <1>5, <1>a23 DEF Typed, Async
<1>a24. CASE Finish BY <1>1, <1>2, <1>3, <1>4, <1>a24, CtxAssumption DEF Typed, Finish, EndTask
<1>a25. CASE EnvPost
  BY SMTT(60), <1>1, <1>2, <1>3, <1>4, <1>a25, CtxAssumption, TaskAssumption, BoundAssumption DEF Typed, EnvPost, Env
<1>a26. CASE EnvSet BY <1>1, <1>1, <1>a26 DEF Typed, EnvSet, Env, AllProms
<1>a27. CASE EnvNotify BY <1>1, <1>3, <1>4, <1>a27 DEF Typed, EnvNotify, Env
<1>a28. CASE EnvCancel BY <1>1, <1>2, <1>3, <1>4, <1>a28, CtxAssumption DEF Typed, EnvCancel, Env
<1>a29. CASE EnvFlag BY <1>1, <1>2, <1>3, <1>4, <1>a29, CtxAssumption DEF Typed, EnvFlag, Env
<1>a30. CASE EnvQuit BY <1>1, <1>3, <1>4, <1>a30 DEF Typed, EnvQuit, Env
<1>a31. CASE Tick BY <1>1, <1>2, <1>3, <1>4, <1>a31, CtxAssumption, BoundAssumption DEF Typed, Tick
<1> QED BY <1>a0, <1>a1, <1>a2, <1>a5, <1>a6, <1>a7, <1>a8, <1>a9, <1>a10, <1>a11, <1>a14, <1>a15, <1>a16,
  <1>a18, <1>a19, <1>a20, <1>a21, <1>a22, <1>a23, <1>a24, <1>a25, <1>a26, <1>a27, <1>a28, <1>a29, <1>a30, <1>a31
  DEF Next, SchedStep, TaskStep, EnvStep

----
(* What each step does to the lists. *)

\* The messages other threads and tasks send.
LEMMA MailIs ==
  /\ \A t \in Tasks : Entry("canceled", t) \in Mail /\ Entry("task", t) \in Mail
  /\ \A p \in AllProms : Entry("notify", p) \in Mail
  /\ Entry("quit", NoTask) \in Mail
BY DEF Mail, Entry

\* Every list holds contexts.
LEMMA PlacesAre ==
  FbInductive => /\ ToSet(pt) \subseteq Ctxs /\ Blk \subseteq Ctxs /\ Rdy \subseteq Ctxs
                 /\ sleepers \subseteq Ctxs /\ Sched \in Scheds
<1> SUFFICES ASSUME FbInductive
             PROVE  /\ ToSet(pt) \subseteq Ctxs /\ Blk \subseteq Ctxs /\ Rdy \subseteq Ctxs
                    /\ sleepers \subseteq Ctxs /\ Sched \in Scheds
  OBVIOUS
<1> QED
  BY ItemsAre DEF ToSet, Blk, Rdy, InReady, CtxAt, FbInductive, Rest, Homes, Typed, Apart, Scheds,
    Sched

\* A context that waits for a promise is counted.
LEMMA WaiterCounts ==
  ASSUME WaitersCounted, NEW c \in Ctxs, at[c] = "wait", NEW p \in AllProms, p \in on[c]
  PROVE  waiters[p] > 0
<1> DEFINE W == {d \in Ctxs : at[d] = "wait" /\ p \in on[d]}
<1>1. IsFiniteSet(W) /\ W # {} BY FiniteAssumption, FS_Subset
<1>2. Cardinality(W) \in Nat /\ Cardinality(W) # 0 BY <1>1, FS_CardinalityType, FS_EmptySet
<1> QED BY <1>2 DEF WaitersCounted

\* What is left when entry i of the ready heap or of the tasks is taken.
LEMMA TakenIs ==
  ASSUME FbInductive, NEW i \in DOMAIN runq
  PROVE  /\ Apart(Without(i)) /\ Without(i).blocked = blocked /\ Without(i).sleepers = sleepers
         /\ Without(i).blocking = blocking /\ Without(i).ready = ready /\ Without(i).exc = exc
         /\ InReady(Without(i).runq) = IF runq[i].kind = "ctx" THEN Rdy \ {runq[i].of} ELSE Rdy
         /\ Messages(Without(i).runq) \subseteq Messages(runq)
         /\ Messages(runq) \subseteq Messages(Without(i).runq) \cup {runq[i]}
         /\ runq[i].kind = "ctx" => Messages(Without(i).runq) = Messages(runq)
<1>1. /\ Apart(Sched) /\ Without(i) = [Sched EXCEPT !.runq = RemoveAt(runq, i)]
      /\ runq \in Seq(Items) /\ QueuedOnce(runq)
  BY DEF FbInductive, Rest, Homes, Without, Sched, Apart, Scheds
<1>2. RemoveAt(runq, i) \in Seq(Items) /\ QueuedOnce(RemoveAt(runq, i)) BY <1>1, WithoutIs
<1>3. InReady(RemoveAt(runq, i)) =
         IF runq[i].kind = "ctx" THEN InReady(runq) \ {runq[i].of} ELSE InReady(runq)
  BY <1>1, WithoutIs
<1>4. /\ Messages(RemoveAt(runq, i)) \subseteq Messages(runq)
      /\ Messages(runq) \subseteq Messages(RemoveAt(runq, i)) \cup {runq[i]}
      /\ runq[i].kind = "ctx" => Messages(RemoveAt(runq, i)) = Messages(runq)
  BY <1>1, WithoutIs
<1> QED BY <1>1, <1>2, <1>3, <1>4 DEF Sched, Apart, Scheds, Rdy

\* What a call on the scheduler has computed is the next state.
LEMMA BecomeIs ==
  ASSUME NEW T, Apart(T), Become(T)
  PROVE  /\ Apart(Sched)' /\ Blk' = ToSet(T.blocked) /\ Rdy' = InReady(T.runq)
         /\ sleepers' = T.sleepers /\ blocking' = T.blocking /\ ready' = T.ready
         /\ Messages(runq)' = Messages(T.runq)
<1>1. Sched' = T BY DEF Apart, Scheds, Sched, Become
<1>2. Apart(Sched)' BY <1>1 DEF Apart, Scheds, CtxAt
<1> QED BY <1>2 DEF Become, Blk, Rdy, CtxAt

\* A step that only takes contexts out of the lists they wait in.
Freed ==
  /\ Apart(Sched)' /\ Blk' \subseteq Blk /\ sleepers' \subseteq sleepers
  /\ Rdy \cup (Blk \ Blk') \subseteq Rdy'
  /\ Rdy' \subseteq Rdy \cup (Blk \ Blk') \cup (sleepers \ sleepers')
  /\ \A c \in sleepers \ sleepers' :
        \/ c \in Blk \/ at[c] # "sleep" \/ (c \in canceled /\ c \in Rdy')
        \/ resume[c] < clock /\ (c \in Rdy' \/ (c = current /\ stage = "switch"))
  /\ \A c \in Blk' : blocking'[c] = blocking[c]
  /\ \A c \in Ctxs \ Blk : blocking'[c] \subseteq blocking[c]
  /\ \A p \in AllProms : ready[p] => ready'[p]
  /\ \A p \in AllProms :
        (ready'[p] /\ ~ready[p]) \/ p \in envNotify \/ Entry("notify", p) \in Post =>
           \/ p \in envNotify' \/ Entry("notify", p) \in Post'
           \/ done' \/ ~waiters[p] > 0 \/ (\A c \in Blk' : p \notin blocking[c])
  /\ (\E m \in Post : m.kind = "canceled") =>
        \/ \E m \in Post' : m.kind = "canceled"
        \/ canceled' \cap (Blk' \cup sleepers' \cup {current}) = {}

\* Steps that leave the scheduler's lists alone.
LEMMA QuietFrees ==
  ASSUME FbInductive, UNCHANGED schedVars, inbox' = inbox \/ \E m \in Mail : inbox' = Append(inbox, m)
  PROVE  /\ Apart(Sched)' /\ Blk' = Blk /\ Rdy' = Rdy /\ sleepers' = sleepers
         /\ blocking' = blocking /\ ready' = ready
         /\ Post \subseteq Post' /\ (inbox' = inbox => Post' = Post)
         /\ \A m \in Mail : inbox' = Append(inbox, m) => Post' = Post \cup {m}
<1>1. Apart(Sched) /\ inbox \in Seq(Mail) BY DEF FbInductive, Rest, Homes, Typed
<1>2. Apart(Sched)' /\ Messages(runq)' = Messages(runq)
  BY <1>1 DEF schedVars, Sched, Apart, Scheds, CtxAt
<1> QED BY <1>2, <1>1, ItemsAre DEF Post, Blk, Rdy, schedVars, Messages, CtxAt


\* Steps that settle promises: R is what is left of S when its waiters are told.
LEMMA ReleasedFrees ==
  ASSUME FbInductive, NEW S \in Scheds, NEW R, Released(S, R), NEW U \in Scheds, Become(U),
         U.runq = R.runq, U.blocked = R.blocked, U.sleepers = R.sleepers, U.ready = R.ready,
         S.blocked = blocked, InReady(S.runq) = Rdy, S.ready = ready, S.sleepers \subseteq sleepers,
         \A c \in Ctxs : S.blocking[c] \subseteq blocking[c] /\ U.blocking[c] \subseteq R.blocking[c],
         \A c \in Blk : S.blocking[c] = blocking[c] /\ U.blocking[c] = R.blocking[c]
  PROVE  /\ Apart(Sched)' /\ Blk' \subseteq Blk /\ sleepers' = S.sleepers \ (Blk \ Blk')
         /\ Rdy' = Rdy \cup (Blk \ Blk') /\ Messages(runq)' = Messages(S.runq)
         /\ \A c \in Blk' : blocking'[c] = blocking[c]
         /\ \A c \in Ctxs \ Blk : blocking'[c] \subseteq blocking[c]
         /\ \A p \in AllProms : ready[p] => ready'[p]
         /\ \A p \in AllProms : ready'[p] /\ ~ready[p] /\ waiters[p] > 0 =>
                                   \A c \in Blk' : p \notin blocking[c]
<1> QED BY PlacesAre, BecomeIs DEF Released, Apart, Blk

\* The context that runs a task or resumes is in no list.
LEMMA RunnerIsOut ==
  FbInductive /\ stage \in {"loop", "pick", "task", "resume", "break", "drain"} =>
      current \notin Blk \cup sleepers \cup Rdy
BY DEF FbInductive, Rest, Homes

\* The end of a task frees what its promise held.
LEMMA EndTaskFrees ==
  ASSUME FbInductive, stage \in {"task", "resume"}, NEW S \in Scheds, NEW R, NEW t, Released(S, R),
         EndTask(R, t), UNCHANGED <<inbox, envNotify>>,
         S.runq = runq, S.blocked = blocked, S.ready = ready, S.sleepers = sleepers,
         \A c \in Ctxs : S.blocking[c] \subseteq blocking[c],
         \A c \in Ctxs \ {current} : S.blocking[c] = blocking[c]
  PROVE  Freed
<1>1. R \in Scheds /\ current \in Ctxs /\ current \notin Blk /\ Blk \subseteq Ctxs
  BY PlacesAre, RunnerIsOut DEF Released, Apart, FbInductive, Typed
<1>2. PICK U \in Scheds : Become(U) /\ U = [R EXCEPT !.blocking[current] = {}]
  BY <1>1 DEF EndTask, Scheds
<1>3. /\ U.runq = R.runq /\ U.blocked = R.blocked /\ U.sleepers = R.sleepers /\ U.ready = R.ready
      /\ R.blocking \in [Ctxs -> SUBSET AllProms] /\ U.blocking = [R.blocking EXCEPT ![current] = {}]
  BY <1>1, <1>2 DEF Scheds
<1>4. /\ \A c \in Ctxs : S.blocking[c] \subseteq blocking[c] /\ U.blocking[c] \subseteq R.blocking[c]
      /\ \A c \in Blk : S.blocking[c] = blocking[c] /\ U.blocking[c] = R.blocking[c]
  BY <1>1, <1>3
<1>7. /\ Apart(Sched)' /\ Blk' \subseteq Blk /\ sleepers' = S.sleepers \ (Blk \ Blk')
      /\ Rdy' = Rdy \cup (Blk \ Blk') /\ Messages(runq)' = Messages(S.runq)
      /\ \A c \in Blk' : blocking'[c] = blocking[c]
      /\ \A c \in Ctxs \ Blk : blocking'[c] \subseteq blocking[c]
      /\ \A p \in AllProms : ready[p] => ready'[p]
      /\ \A p \in AllProms : ready'[p] /\ ~ready[p] /\ waiters[p] > 0 =>
                                \A c \in Blk' : p \notin blocking[c]
  BY <1>2, <1>3, <1>4, ReleasedFrees DEF Rdy
<1> QED BY <1>7 DEF Freed, Post, CtxAt, Rdy

\* All steps but those that switch, suspend, or wake everybody.
Plain == \/ Move \/ LoopEnd \/ Expire \/ RunTask \/ RunMessage \/ GoIdle \/ IdleWake
         \/ ResumeTask \/ ResumeIdle \/ RunQuit \/ BreakPromises \/ BreakUndefined
         \/ Drain \/ ResumeQuit \/ QuitEnd \/ Yield \/ (Sleep /\ Interrupted)
         \/ Cancel \/ Async \/ Finish \/ EnvStep \/ Tick

\* They only free contexts.
LEMMA PlainFrees == FbInductive /\ Plain => Freed
<1> SUFFICES ASSUME FbInductive, Plain PROVE Freed OBVIOUS
<1>1. /\ Typed /\ Control /\ Stored /\ Homes /\ Notices /\ Flags /\ WaitersCounted /\ Apart(Sched)
      /\ Sched \in Scheds /\ Blk \subseteq Ctxs /\ Rdy \subseteq Ctxs /\ sleepers \subseteq Ctxs
  BY PlacesAre DEF FbInductive, Rest, Homes
<1> USE DEF ctxVars, taskVars, flowVars, envVars
<1>2. CASE LoopEnd \/ GoIdle \/ IdleWake \/ ResumeIdle \/ Drain \/ ResumeQuit \/ QuitEnd
           \/ EnvCancel \/ Tick
  BY <1>2, QuietFrees DEF LoopEnd, GoIdle, IdleWake, ResumeIdle, Drain, ResumeQuit, QuitEnd, EnvCancel, Env,
    Tick, schedVars, Freed
<1>3. CASE Cancel \/ Async \/ EnvPost \/ EnvFlag \/ EnvQuit \/ EnvNotify
  BY <1>1, <1>3, MailIs, QuietFrees DEF Typed, Cancel, CancelTask, Async, EnvPost, EnvFlag, EnvQuit, Env,
    schedVars, Freed, EnvNotify
<1>5. CASE EnvSet
  <2>1. PICK p \in Proms : ready' = [ready EXCEPT ![p] = TRUE] /\ envNotify' = envNotify \cup {p}
    BY <1>5 DEF EnvSet
  <2> DEFINE T == [Sched EXCEPT !.ready = ready']
  <2>4. Apart(Sched)' /\ Blk' = Blk /\ Rdy' = Rdy /\ Messages(runq)' = Messages(runq)
    BY <1>1, <2>1, <1>5, BecomeIs DEF Blk, Rdy, Apart, Scheds, Sched, Become, EnvSet, Env
  <2> QED BY <2>1, <1>1, <1>5, <2>4 DEF Freed, Post, CtxAt, EnvSet, Env, Scheds, Sched
<1>6. CASE Move
  <2> DEFINE T == [Sched EXCEPT !.runq = runq \o inbox]
  <2>1. /\ runq \in Seq(Items) /\ inbox \in Seq(Items) /\ InReady(inbox) = {} /\ QueuedOnce(inbox)
        /\ QueuedOnce(runq)
    BY <1>1, ItemsAre DEF Typed, Sched, Scheds, Apart, InReady, CtxAt, QueuedOnce
  <2>3. QueuedOnce(runq \o inbox) BY <2>1, JoinedIs
  <2>6. Post \subseteq Post'
    BY <1>6, <2>1, JoinedIs, <1>1, <2>3, BecomeIs DEF Post, Blk, Rdy, Move, Apart, Scheds, Sched,
      Become
  <2> QED
    BY <1>6, <2>1, JoinedIs, <1>1, <2>3, BecomeIs, <2>6 DEF Freed, Move, Blk, Rdy, Post, Apart,
      Scheds, Sched, Become
<1>7. \A S \in Scheds, R \in Scheds : Released(S, R) /\ Become(R) /\ UNCHANGED <<inbox, envNotify>>
         /\ S.blocked = blocked /\ InReady(S.runq) = Rdy /\ S.ready = ready /\ S.sleepers \subseteq sleepers
         /\ S.blocking = blocking
         /\ (\A m \in Messages(runq) : m \in Messages(S.runq) \/ m.kind \in {"task", "quit"})
         /\ (\A c \in sleepers \ S.sleepers : at[c] # "sleep") => Freed
  BY ReleasedFrees DEF CtxAt, Post, Freed, Entry
<1>8. \A S : Apart(S) => Released(S, S) /\ S \in Scheds BY DEF Released, Apart
<1>9. CASE RunTask
  <2>1. PICK i \in DOMAIN runq : /\ runq[i].kind = "task" /\ UNCHANGED <<inbox, envNotify>>
            /\ \/ Become(SetException(Without(i), runq[i].of, "canceled"))
               \/ Become(Without(i))
    BY <1>9 DEF RunTask
  <2>2. runq[i] \in Items BY <1>1 DEF Scheds, Sched
  <2>4. PICK R : R \in {SetException(Without(i), runq[i].of, "canceled"), Without(i)} /\ Become(R)
    BY <2>1
  <2>5. runq[i].of \in AllProms BY <2>1, <2>2, ItemsAre DEF AllProms
  <2>6. Released(Without(i), R) BY <1>8, <2>1, TakenIs, <2>4, <2>5, SetExceptionReleases
  <2>7. R \in Scheds BY <2>6 DEF Released, Apart
  <2> QED BY <1>7, <1>8, <2>1, TakenIs, <2>4, <2>6, <2>7
<1>10. CASE RunQuit BY <1>10, <1>7, <1>8, TakenIs DEF RunQuit
<1>11. CASE RunMessage
  <2>1. PICK i \in DOMAIN runq :
           /\ UNCHANGED <<inbox, envNotify>> /\ canceled' = canceled \ {current}
           /\ \/ runq[i].kind = "notify" /\ Become(Notified(Without(i), runq[i].of))
              \/ runq[i].kind = "canceled" /\ Become(CanceledReleased(Without(i)))
    BY <1>11 DEF RunMessage
  <2> DEFINE S == Without(i)
  <2>2. /\ Apart(S) /\ S.blocked = blocked /\ S.sleepers = sleepers
        /\ S.blocking = blocking /\ S.ready = ready /\ InReady(S.runq) = Rdy
        /\ \A m \in Messages(runq) : m \in Messages(S.runq) \/ m = runq[i]
        /\ Messages(inbox)' = Messages(inbox)
    BY <2>1, TakenIs DEF CtxAt
  <2> HIDE DEF S
  <2>3. CASE runq[i].kind = "notify" /\ Become(Notified(S, runq[i].of))
    <3>1. PICK R \in Scheds : /\ Become(R) /\ Released(S, R) /\ R = Notified(S, runq[i].of)
                              /\ \A c \in ToSet(R.blocked) : runq[i].of \notin R.blocking[c]
      BY <2>2, <2>3, NotifiedReleases DEF Released, Apart
    <3> QED
      BY <2>1, <2>2, <2>3, <1>8, ReleasedFrees, <3>1, BecomeIs DEF Freed, Entry, Released, Post
  <2>4. CASE runq[i].kind = "canceled" /\ Become(CanceledReleased(S))
    BY <2>2, <2>4, CanceledAreReady, BecomeIs, <2>1 DEF Blk, Post, Freed, Entry
  <2> QED BY <2>1, <2>3, <2>4 DEF S
<1>12. CASE BreakPromises \/ BreakUndefined
  <2>2. blocking[Head(blocked)] \in SUBSET AllProms
    BY <1>1, <1>12 DEF BreakPromises, BreakUndefined, Scheds, Sched
  <2>3. Released(Sched, BrokenPromises) /\ BrokenPromises \in Scheds
    BY <1>1, <2>2, SetExceptionsRelease DEF BrokenPromises, Released, Apart
  <2> QED BY <1>1, <1>7, <1>12, <2>3 DEF Rdy, BreakPromises, BreakUndefined, Scheds, Sched
<1>13. CASE Finish
  BY <1>13, <1>1, SetReadyReleases, EndTaskFrees DEF Finish, Control, Busy, Typed, AllProms, Sched
<1>14. CASE Expire
  <2>1. PICK c \in sleepers :
           /\ resume[c] < clock /\ UNCHANGED <<inbox, envNotify>> /\ stage \in {"pick", "switch"}
           /\ LET S == [Sched EXCEPT !.sleepers = @ \ {c}]
              IN Become(IF blocking[c] # {} THEN SetExceptions(S, blocking[c], "timeout")
                        ELSE IF c # current THEN MakeReady(S, <<c>>) ELSE S)
    BY <1>14 DEF Expire, Expired
  <2> DEFINE S == [Sched EXCEPT !.sleepers = @ \ {c}]
  <2>2. /\ Apart(S) /\ S.blocked = blocked /\ S.runq = runq /\ S.ready = ready
        /\ S.sleepers = sleepers \ {c} /\ S.blocking = blocking /\ InReady(S.runq) = Rdy
        /\ Messages(S.runq) = Messages(runq)
    BY <1>1 DEF Apart, Scheds, Sched, Rdy
  <2>3. /\ c \in Ctxs /\ c \notin Rdy /\ blocking[c] \in SUBSET AllProms
        /\ (blocking[c] # {} => at[c] # "sleep") /\ (blocking[c] = {} => c \notin Blk)
        /\ (c = current => stage = "switch")
        /\ Messages(inbox)' = Messages(inbox)
    BY <1>1, <2>1 DEF Homes, Apart, Sched, Scheds, Rdy, CtxAt
  <2>4. Become(IF blocking[c] # {} THEN SetExceptions(S, blocking[c], "timeout")
               ELSE IF c # current THEN MakeReady(S, <<c>>) ELSE S)
    BY <2>1
  <2> HIDE DEF S
  <2>5. CASE blocking[c] # {}
    <3>1. PICK R : R = SetExceptions(S, blocking[c], "timeout") /\ Become(R) BY <2>4, <2>5
    <3>2. Released(S, R) BY <2>2, <2>3, <3>1, SetExceptionsRelease
    <3>3. R \in Scheds BY <3>2 DEF Released, Apart
    <3> QED BY <1>7, <1>8, <2>1, <2>2, <2>3, <2>5, <3>1, <3>2, <3>3
  <2>6. CASE blocking[c] = {} /\ c # current
    <3>1. PICK T : T = MakeReady(S, <<c>>) /\ Become(T) BY <2>4, <2>6
    <3>2. /\ <<c>> \in Seq(Ctxs) /\ IsInjective(<<c>>) /\ ToSet(<<c>>) = {c}
          /\ S \in Scheds /\ QueuedOnce(S.runq) /\ ToSet(<<c>>) \cap InReady(S.runq) = {}
      BY <2>2, <2>3 DEF IsInjective, ToSet, Apart
    <3>3. /\ T = [S EXCEPT !.runq = T.runq] /\ T \in Scheds /\ QueuedOnce(T.runq)
          /\ InReady(T.runq) = Rdy \cup {c} /\ Messages(T.runq) = Messages(runq)
      BY <2>2, <2>3, <3>1, <3>2, MadeReady
    <3>4. /\ T.blocked = blocked /\ T.ready = ready /\ T.sleepers = sleepers \ {c} /\ T.blocking = blocking
      BY <2>2, <3>2, <3>3 DEF Scheds
    <3>5. Apart(T) BY <2>2, <2>3, <2>6, <3>3, <3>4 DEF Apart, Blk
    <3> QED BY <2>1, <2>3, <3>1, <3>3, <3>4, <3>5, BecomeIs DEF Freed, Post, Blk
  <2>7. CASE blocking[c] = {} /\ c = current
    BY <2>2, <2>4, <2>7, BecomeIs, <2>1, <2>3 DEF Blk, Freed, Post
  <2> QED BY <2>5, <2>6, <2>7
<1>15. CASE ResumeTask
  <2> DEFINE c == current
             S == [Sched EXCEPT !.sleepers = IF at[c] = "sleep" /\ c \notin canceled THEN @ \ {c} ELSE @,
                                !.blocking[c] = IF c \in canceled THEN @ ELSE @ \ on[c]]
  <2>1. /\ stage = "resume" /\ at[c] \in Suspended /\ UNCHANGED <<inbox, envNotify>>
        /\ IF Outcome(c) = "none" THEN Become(S)
           ELSE EndTask(SetException(S, cur[c], Outcome(c)), cur[c])
    BY <1>15 DEF ResumeTask, Suspended
  <2>2. /\ c \in Ctxs /\ c \notin Blk \cup sleepers \cup Rdy /\ cur[c] \in AllProms
        /\ Outcome(c) \in {"none", "canceled", "timeout"}
    BY <1>1, <2>1, RunnerIsOut DEF Typed, Scheds, Sched, Outcome, Control, Busy, AllProms
  <2>3. /\ S.blocked = blocked /\ S.runq = runq /\ S.ready = ready /\ S.sleepers = sleepers
        /\ S.exc = exc /\ S.blocking \in [Ctxs -> SUBSET AllProms] /\ S \in Scheds
        /\ \A d \in Ctxs : S.blocking[d] \subseteq blocking[d]
        /\ \A d \in Ctxs \ {c} : S.blocking[d] = blocking[d]
    BY ZenonT(60), <1>1, <2>2 DEF Scheds, Sched
  <2>4. Apart(S) BY <1>1, <2>3 DEF Apart
  <2> HIDE DEF S
  <2>5. CASE Outcome(c) = "none"
    BY <2>1, <2>3, <2>4, <2>5, BecomeIs, <1>1, <2>2 DEF Blk, Rdy, Post, Freed
  <2>6. CASE Outcome(c) # "none" BY <2>2, <2>4, SetExceptionReleases, <2>1, <2>3, <2>6, EndTaskFrees
  <2> QED BY <2>5, <2>6
<1>16. CASE Yield \/ (Sleep /\ Interrupted)
  <2>1. stage = "task" /\ UNCHANGED <<inbox, envNotify>> /\ (UNCHANGED schedVars \/ Throw)
    BY <1>16 DEF Yield, Sleep, Suspend, Do, schedVars
  <2>2. CASE UNCHANGED schedVars BY <2>1, <2>2, QuietFrees DEF Freed
  <2>3. CASE Throw
    BY <1>1, <2>1, SetExceptionReleases, <2>3, EndTaskFrees DEF Control, Busy, Typed, AllProms, Sched, Throw
  <2> QED BY <2>1, <2>2, <2>3
<1> QED BY <1>2, <1>3, <1>5, <1>6, <1>9, <1>10, <1>11, <1>12, <1>13, <1>14, <1>15, <1>16 DEF Plain, EnvStep

\* The caller of start_next_fiber() is the only one to join the ready heap.
LEMMA HandedOver ==
  ASSUME FbInductive, stage = "switch", inbox' = inbox, NEW S \in Scheds, Apart(S), NEW n, Handover(S, n),
         S.blocked = blocked, S.sleepers = sleepers, S.ready = ready, InReady(S.runq) \subseteq Rdy,
         Messages(S.runq) = Messages(runq)
  PROVE  /\ Apart(Sched)' /\ Blk' = Blk /\ sleepers' = sleepers /\ blocking' = S.blocking
         /\ ready' = ready /\ Post' = Post /\ current' = n
         /\ Rdy' = InReady(S.runq) \cup (IF resched THEN {current} ELSE {})
<1>1. PICK T : T = (IF resched THEN MakeReady(S, <<current>>) ELSE S) /\ Become(T) /\ current' = n
  BY DEF Handover
<1>3. /\ Apart(T) /\ T.blocked = blocked /\ T.ready = ready /\ T.sleepers = sleepers
      /\ T.blocking = S.blocking /\ Messages(T.runq) = Messages(runq)
      /\ InReady(T.runq) = InReady(S.runq) \cup (IF resched THEN {current} ELSE {})
  <2>1. CASE ~resched BY <1>1, <2>1
  <2>2. CASE resched
    <3>1. /\ <<current>> \in Seq(Ctxs) /\ IsInjective(<<current>>) /\ ToSet(<<current>>) = {current}
          /\ QueuedOnce(S.runq) /\ ToSet(<<current>>) \cap InReady(S.runq) = {}
      BY <2>2 DEF IsInjective, ToSet, Apart, FbInductive, Rest, Homes, Control, Typed, Waiting,
        Scheds
    <3>2. /\ T = [S EXCEPT !.runq = T.runq] /\ T \in Scheds /\ QueuedOnce(T.runq)
          /\ InReady(T.runq) = InReady(S.runq) \cup {current} /\ Messages(T.runq) = Messages(runq)
      BY <1>1, <2>2, <3>1, MadeReady
    <3> QED BY ZenonT(60), <2>2, <3>2 DEF Apart, Blk, Scheds, FbInductive, Rest, Homes, Control, Typed, Waiting
  <2> QED BY <2>1, <2>2
<1> QED BY <1>1, <1>3, BecomeIs DEF Post, Blk

\* The ready context that is chosen leaves the heap.
LEMMA ReadyIsSwitchedTo ==
  ASSUME FbInductive, SwitchToReady
  PROVE  \E n \in Rdy :
            /\ Apart(Sched)' /\ Blk' = Blk /\ sleepers' = sleepers /\ blocking' = blocking
            /\ ready' = ready /\ Post' = Post /\ current' = n
            /\ Rdy' = (Rdy \ {n}) \cup (IF resched THEN {current} ELSE {})
<1>1. PICK i \in DOMAIN runq :
         /\ runq[i].kind = "ctx" /\ stage = "switch" /\ inbox' = inbox
         /\ IF runq[i].of = current THEN Become(Without(i)) /\ UNCHANGED current
            ELSE Handover(Without(i), runq[i].of)
  BY DEF SwitchToReady, ReadyAt
<1>2. /\ Apart(Without(i)) /\ Without(i).blocked = blocked /\ Without(i).sleepers = sleepers
      /\ Without(i).blocking = blocking /\ Without(i).ready = ready
      /\ InReady(Without(i).runq) = Rdy \ {runq[i].of} /\ Messages(Without(i).runq) = Messages(runq)
  BY <1>1, TakenIs
<1>3. runq[i].of \in Rdy /\ Without(i) \in Scheds /\ (runq[i].of = current => ~resched)
  BY <1>1, <1>2 DEF Rdy, InReady, CtxAt, Apart, FbInductive, Rest, Homes
<1>4. CASE runq[i].of = current BY <1>1, <1>2, <1>4, BecomeIs, <1>3 DEF Blk, Post, CtxAt
<1>5. CASE runq[i].of # current BY <1>1, <1>2, <1>3, <1>5, HandedOver
<1> QED BY <1>4, <1>5

\* An idle or a new context was in no list.
LEMMA IdleIsSwitchedTo ==
  ASSUME FbInductive, SwitchToIdle
  PROVE  \E n \in Ctxs \ (Blk \cup sleepers) :
            /\ Apart(Sched)' /\ Blk' = Blk /\ sleepers' = sleepers /\ ready' = ready /\ Post' = Post
            /\ \A c \in Ctxs : blocking'[c] = IF c = n /\ n \in ToSet(pt) THEN {} ELSE blocking[c]
            /\ Rdy = {} /\ Rdy' = (IF resched THEN {current} ELSE {}) /\ current' = n
            /\ \/ n \in ToSet(pt) /\ canceled' = canceled \ {n}
               \/ at[n] = "unborn" /\ canceled' = canceled /\ pt = <<>>
            /\ ToSet(pt') = ToSet(pt) \ {n} /\ IsInjective(pt') /\ at' = [at EXCEPT ![n] = "run"]
<1>1. /\ Typed /\ Apart(Sched) /\ Sched \in Scheds /\ ToSet(pt) \subseteq Ctxs /\ Rdy = {}
      /\ stage = "switch" /\ inbox' = inbox /\ IsInjective(pt)
      /\ \A c \in Ctxs : at[c] \in {"idle", "dead", "unborn"} => c \notin Blk \cup sleepers
      /\ \A c \in ToSet(pt) : at[c] \in {"idle", "dead", "unborn"}
  BY PlacesAre DEF FbInductive, Rest, Homes, Stored, Waiting, SwitchToIdle, ReadyAt, Rdy, InReady, CtxAt
<1>2. CASE pt # <<>>
  <2> DEFINE n == Head(pt)
             S == [Sched EXCEPT !.blocking[n] = {}]
  <2>1. n \in ToSet(pt) /\ n \in Ctxs /\ pt \in Seq(Ctxs) /\ ToSet(Tail(pt)) = ToSet(pt) \ {n} /\ IsInjective(Tail(pt))
    <3>1. pt \in Seq(Ctxs) /\ pt[1] \in Ctxs /\ n = pt[1] /\ 1 \in DOMAIN pt BY <1>1, <1>2 DEF Typed
    <3>2. /\ \A i \in DOMAIN Tail(pt) : i + 1 \in DOMAIN pt /\ i + 1 # 1 /\ Tail(pt)[i] = pt[i + 1]
          /\ \A i \in DOMAIN pt : i = 1 \/ (i - 1 \in DOMAIN Tail(pt) /\ Tail(pt)[i - 1] = pt[i])
      OBVIOUS
    <3>3. \A i, j \in DOMAIN Tail(pt) : i + 1 = j + 1 => i = j OBVIOUS
    <3> QED BY <1>1, <3>1, <3>2, <3>3 DEF ToSet, IsInjective
  <2>2. /\ S \in Scheds /\ S.blocked = blocked /\ S.sleepers = sleepers /\ S.ready = ready /\ S.runq = runq
        /\ \A c \in Ctxs : S.blocking[c] = IF c = n THEN {} ELSE blocking[c]
    BY <1>1, <2>1 DEF Scheds, Sched
  <2>3. Apart(S) BY <1>1, <2>2 DEF Apart
  <2>4. /\ Handover(S, n) /\ at' = [at EXCEPT ![n] = "run"] /\ canceled' = canceled \ {n} /\ pt' = Tail(pt)
    BY <1>2 DEF SwitchToIdle
  <2> HIDE DEF S, n
  <2>6. InReady(S.runq) = {} BY <1>1, <2>2 DEF Rdy
  <2> QED BY <1>1, <2>1, <2>2, <2>4, <2>3, HandedOver, <2>6 DEF Rdy
<1>3. CASE pt = <<>>
  <2>1. PICK n \in Ctxs : at[n] = "unborn" /\ Handover(Sched, n) /\ at' = [at EXCEPT ![n] = "run"]
                          /\ canceled' = canceled /\ pt' = pt
    BY <1>3 DEF SwitchToIdle, Dormant
  <2>4. ToSet(pt) = {} /\ InReady(Sched.runq) = {} BY <1>1, <1>3 DEF ToSet, Rdy, Sched
  <2> QED BY <1>1, <1>3, <2>1, HandedOver, <2>4 DEF Rdy, Sched
<1> QED BY <1>2, <1>3

\* A context that suspends itself was in no list.
LEMMA SuspenderIs ==
  ASSUME FbInductive, stage = "task", UNCHANGED <<inbox, runq, ready, exc>>,
         blocking' \in [Ctxs -> SUBSET AllProms], sleepers' \in {sleepers, sleepers \cup {current}},
         blocked' \in {blocked, <<current>> \o blocked}
  PROVE  /\ Apart(Sched)' /\ Rdy' = Rdy /\ Post' = Post
         /\ blocked' = blocked => Blk' = Blk
         /\ blocked' = <<current>> \o blocked => Blk' = Blk \cup {current}
<1>1. /\ Apart(Sched) /\ Sched \in Scheds /\ current \in Ctxs /\ current \notin Blk \cup sleepers \cup Rdy
      /\ blocked \in Seq(Ctxs) /\ IsInjective(blocked)
  BY PlacesAre DEF FbInductive, Rest, Homes, Typed, Apart, Sched, Scheds
<1>2. /\ <<current>> \in Seq(Ctxs) /\ ToSet(<<current>>) = {current} /\ IsInjective(<<current>>)
      /\ ToSet(<<current>>) \cap ToSet(blocked) = {}
  BY <1>1 DEF ToSet, IsInjective, Blk
<1>3. /\ <<current>> \o blocked \in Seq(Ctxs) /\ IsInjective(<<current>> \o blocked)
      /\ ToSet(<<current>> \o blocked) = ToSet(<<current>>) \cup ToSet(blocked)
  BY <1>1, <1>2, ConcatIs
<1>4. PICK T : T = [runq |-> runq, blocked |-> blocked', sleepers |-> sleepers',
                    blocking |-> blocking', ready |-> ready, exc |-> exc]
  OBVIOUS
<1>5. /\ T.blocked \in Seq(Ctxs) /\ IsInjective(T.blocked)
      /\ blocked' = blocked => ToSet(T.blocked) = Blk
      /\ blocked' = <<current>> \o blocked => ToSet(T.blocked) = Blk \cup {current}
  BY <1>1, <1>2, <1>3, <1>4 DEF Blk
<1>6. Apart(T) /\ Become(T) BY <1>1, <1>4, <1>5 DEF Scheds, Sched, Apart, Become, Blk, Rdy
<1> QED BY <1>5, <1>6, BecomeIs DEF Post, Rdy

\* quit() leaves nobody asleep or idle.
LEMMA AllArePoked ==
  ASSUME FbInductive, CancelRest
  PROVE  /\ Apart(Sched)' /\ Blk = {} /\ Blk' = {} /\ sleepers' = {} /\ Rdy' = Rdy \cup sleepers \cup ToSet(pt)
         /\ blocking' = blocking /\ ToSet(pt') \subseteq ToSet(pt) /\ IsInjective(pt')
         /\ canceled' \subseteq Ctxs
<1> DEFINE U == {t \in Tasks : Entry("task", t) \in ToSet(runq)}
           C == {Entry("ctx", c) : c \in Ctxs}
           q == Among(runq, C)
           rd == [p \in AllProms |-> p \in U \/ ready[p]]
           ex == [p \in AllProms |-> IF p \in U THEN "canceled" ELSE exc[p]]
           S == [Sched EXCEPT !.runq = q, !.sleepers = {}, !.ready = rd, !.exc = ex]
<1>1. /\ Apart(Sched) /\ Sched \in Scheds /\ runq \in Seq(Items) /\ QueuedOnce(runq)
      /\ blocked = <<>> /\ Blk = {} /\ pt \in Seq(Ctxs) /\ ToSet(pt) \subseteq Ctxs /\ IsInjective(pt)
      /\ sleepers \subseteq Ctxs /\ stage = "break"
      /\ \A c \in ToSet(pt) : at[c] = "idle" /\ c \notin Rdy \cup sleepers
  <2>0. stage = "break" /\ blocked = <<>> BY DEF CancelRest
  <2>1. stage = "break" /\ Blk = {} BY <2>0 DEF Blk, ToSet
  <2>2. Stored /\ Homes /\ pt \in Seq(Ctxs) BY DEF FbInductive, Rest, Typed
  <2>4. Apart(Sched) /\ IsInjective(pt) BY <2>2 DEF Stored, Homes
  <2> QED
    BY <2>0, <2>1, <2>2, <2>4, PlacesAre DEF Apart, Sched, Scheds, Stored, Homes, Waiting, Suspended
<1>2. /\ q \in Seq(Items \cap C) /\ ToSet(q) = ToSet(runq) \cap C /\ IsInjective(q)
  <2>1. \A i, j \in DOMAIN runq : runq[i] \in C /\ runq[i] = runq[j] => i = j
    BY <1>1 DEF QueuedOnce, CtxAt, Entry
  <2> QED BY <1>1, <2>1, AmongIs
<1> HIDE DEF q
<1>3. q \in Seq(Items) /\ \A i \in DOMAIN q : q[i] \in C /\ q[i].kind = "ctx" /\ q[i] = Entry("ctx", q[i].of)
  BY <1>2 DEF Entry
<1>4. QueuedOnce(q) /\ InReady(q) = Rdy
  <2>1. CtxAt(q) = DOMAIN q BY <1>3 DEF CtxAt
  <2>2. QueuedOnce(q) BY <1>2, <1>3, <2>1 DEF QueuedOnce, IsInjective
  <2>4. Rdy = {c \in Ctxs : Entry("ctx", c) \in ToSet(runq)}
    BY <1>1, ItemsAre DEF Rdy, InReady, CtxAt, ToSet, Entry
  <2> QED BY <1>2, <2>2, <1>3, <2>1, <2>4 DEF InReady, ToSet, Entry
<1>5. PICK P : P = SetToSeq(sleepers) \o pt /\ Become(MakeReady(S, P))
  BY DEF CancelRest, Poked, q, Sched
<1>6. P \in Seq(Ctxs) /\ ToSet(P) = sleepers \cup ToSet(pt) /\ IsInjective(P)
  BY <1>1, FiniteAssumption, FS_Subset, SetToSeqIs, <1>5, ConcatIs
<1>7. PICK S0 \in Scheds : S0 = S BY <1>1, <1>3 DEF Scheds, Sched
<1>8. S0.runq = q /\ S0.sleepers = {} /\ S0.blocked = blocked /\ S0.blocking = blocking
  BY <1>7 DEF Sched
<1> HIDE DEF S
<1>9. PICK T : T = MakeReady(S0, P) /\ Become(T) BY <1>5, <1>7
<1>10. /\ T = [S0 EXCEPT !.runq = T.runq] /\ T \in Scheds /\ QueuedOnce(T.runq)
       /\ InReady(T.runq) = Rdy \cup ToSet(P)
  BY <1>1, <1>4, <1>6, <1>8, <1>9, MadeReady DEF Apart, Sched, Rdy
<1>12. Apart(T) BY SMTT(60), <1>1, <1>10, <1>8 DEF Apart, Sched, Blk, Scheds
<1>14. ToSet(pt') \subseteq ToSet(pt) /\ IsInjective(pt')
  <2>1. pt' = IF pt = <<>> THEN pt ELSE <<Head(pt)>> BY DEF CancelRest
  <2> QED BY <1>1, <2>1 DEF ToSet, IsInjective
<1>15. canceled' \subseteq Ctxs BY DEF CancelRest, FbInductive, Typed
<1> QED BY <1>1, <1>6, <1>9, <1>10, <1>8, <1>12, BecomeIs, <1>14, <1>15 DEF Blk, Scheds

\* The running context stays where its stage says, and tasks keep to their contexts.
LEMMA ControlKept == FbInductive /\ Next => Control'
<1> SUFFICES ASSUME FbInductive, Next PROVE Control' OBVIOUS
<1>1. /\ Typed /\ Control /\ Stored /\ Homes /\ Notices /\ Flags /\ WaitersCounted
      /\ ToSet(pt) \subseteq Ctxs /\ Blk \subseteq Ctxs /\ Rdy \subseteq Ctxs /\ sleepers \subseteq Ctxs
  BY PlacesAre DEF FbInductive, Rest
<1> USE DEF ctxVars, taskVars, flowVars, envVars, Control, Busy, Suspended, Typed
<1>2. ASSUME Plain PROVE Control'
  <2>1. Blk' \subseteq Blk /\ sleepers' \subseteq sleepers BY <1>2, PlainFrees DEF Freed
  <2>10. CASE Move
    <3>1. blocked \in Seq(Ctxs) /\ (blocked # <<>> => blocked[1] \in Blk)
      BY <1>1 DEF Blk, ToSet, Homes, Apart, Scheds, Sched
    <3> QED BY <1>1, <2>1, <3>1, <2>10 DEF Move
  <2>11. CASE LoopEnd BY <1>1, <2>1, <2>11 DEF LoopEnd, Leave
  <2>12. CASE Expire BY <1>1, <2>1, <2>12 DEF Expire
  <2>13. CASE RunTask
    <3>1. PICK i \in DOMAIN runq : /\ stage = "pick" /\ runq[i].kind = "task" /\ UNCHANGED <<at, current, done>>
             /\ \/ stage' = "loop" /\ UNCHANGED <<cur, active>>
                \/ /\ cur' = [cur EXCEPT ![current] = runq[i].of] /\ stage' = "task"
                   /\ active' = [active EXCEPT ![runq[i].of] = current]
      BY <2>13 DEF RunTask, TaskTurn
    <3>2. runq[i] \in Items BY <1>1 DEF Homes, Apart, Sched, Scheds
    <3>3. runq[i].of \in Tasks BY <3>1, <3>2, ItemsAre
    <3>4. ~Busy(current) /\ current \in Ctxs /\ current # NoCtx BY <1>1, <3>1, CtxAssumption
    <3>5. /\ cur[current] = NoTask /\ cur \in [Ctxs -> Tasks \cup {NoTask}]
          /\ active \in [Tasks -> Ctxs \cup {NoCtx}]
      BY <1>1, <3>4
    <3>7. \A c \in Ctxs : cur'[c] # NoTask <=> Busy(c)'
      BY <1>1, <3>1, <3>3, <3>4, <3>5, TaskAssumption
    <3>8. /\ cur' \in [Ctxs -> Tasks \cup {NoTask}] /\ active' \in [Tasks -> Ctxs \cup {NoCtx}]
      BY <3>1, <3>3, <3>4, <3>5
    <3> QED BY <1>1, <3>1, <3>3, <3>4, <3>5, TaskAssumption, <3>7, <3>8
  <2>14. CASE RunMessage BY <1>1, <2>1, <2>14 DEF RunMessage, TaskTurn
  <2>15. CASE GoIdle BY <1>1, <2>1, <2>15 DEF GoIdle
  <2>16. CASE IdleWake BY <1>1, <2>1, <2>16 DEF IdleWake, Stored
  <2>17. CASE ResumeTask
    <3>1. /\ stage = "resume" /\ at[current] \in Suspended /\ at' = [at EXCEPT ![current] = "run"]
          /\ UNCHANGED <<current, done, pt, free>>
          /\ \/ stage' = "task" /\ UNCHANGED <<cur, active>>
             \/ /\ cur' = [cur EXCEPT ![current] = NoTask] /\ stage' = "loop"
                /\ active' = [active EXCEPT ![cur[current]] = NoCtx]
      BY <2>17 DEF ResumeTask, EndTask
    <3>2. done => Outcome(current) # "none" BY DEF Outcome
    <3>3. stage' = "task" => ~done BY <3>2, <2>17 DEF ResumeTask, EndTask
    <3>5. \A t \in Tasks : active'[t] # NoCtx => cur'[active'[t]] = t BY <3>1, <1>1, CtxAssumption
    <3>7. /\ at' \in [Ctxs -> Suspended \cup {"unborn", "run", "idle", "quit", "dead"}]
          /\ cur' \in [Ctxs -> Tasks \cup {NoTask}] /\ active' \in [Tasks -> Ctxs \cup {NoCtx}]
      BY <1>1, <3>1
    <3> QED BY <1>1, <2>1, <3>1, <3>3, <3>5, CtxAssumption, <3>7
  <2>18. CASE ResumeIdle BY <1>1, <2>1, <2>18 DEF ResumeIdle, Leave
  <2>19. CASE RunQuit \/ BreakPromises \/ BreakUndefined \/ Drain
    BY <1>1, <2>1, <2>19 DEF RunQuit, TaskTurn, BreakPromises, BreakUndefined, Drain
  <2>23. CASE ResumeQuit BY ZenonT(60), <1>1, <2>1, <2>23 DEF ResumeQuit
  <2>24. CASE QuitEnd BY ZenonT(60), <2>24, <1>1, <2>1 DEF QuitEnd, Stored
  <2>25. CASE Yield
    <3>1. CASE Throw BY <1>1, <2>1, <3>1, <2>25 DEF Yield, Throw, EndTask, Do
    <3>2. CASE ~Throw BY ZenonT(60), <1>1, <2>1, <3>2, <2>25 DEF Yield, Suspend, Do
    <3> QED BY <3>1, <3>2
  <2>26. CASE Cancel \/ Async BY <1>1, <2>1, <2>26 DEF Cancel, Do, Async
  <2>28. CASE Finish BY <1>1, <2>1, <2>28 DEF Finish, EndTask
  <2>29. CASE EnvPost \/ EnvSet \/ EnvNotify \/ EnvCancel \/ EnvFlag \/ EnvQuit \/ Tick
    BY <1>1, <2>1, <2>29 DEF EnvPost, Env, EnvSet, EnvNotify, EnvCancel, EnvFlag, EnvQuit, Tick
  <2>36. CASE Sleep /\ Interrupted
    <3>1. Throw BY <2>36 DEF Sleep
    <3> QED BY <1>1, <2>1, <3>1, <2>36 DEF Sleep, Throw, EndTask, Do
  <2> QED BY <1>2, <2>10, <2>11, <2>12, <2>13, <2>14, <2>15, <2>16, <2>17, <2>18, <2>19, <2>23, <2>24, <2>25,
    <2>26, <2>28, <2>29, <2>36 DEF Plain, EnvStep
<1>3. CASE SwitchToReady BY <1>3, ReadyIsSwitchedTo, <1>1 DEF Homes, SwitchToReady
<1>4. CASE SwitchToIdle
  <2>1. PICK n \in Ctxs : /\ Blk' = Blk /\ sleepers' = sleepers /\ current' = n
                          /\ n \in ToSet(pt) \/ at[n] = "unborn"
                          /\ at' = [at EXCEPT ![n] = "run"]
    BY <1>4, IdleIsSwitchedTo
  <2>2. at[n] \in {"idle", "dead", "unborn"} BY <1>1, <2>1 DEF Stored
  <2> QED BY <1>1, <2>1, <2>2, <1>4 DEF SwitchToIdle
<1>5. CASE CancelRest BY <1>1, <1>5, AllArePoked DEF CancelRest
<1>6. CASE Wait BY <1>1, <1>6 DEF Wait, Do, Suspend
<1>7. CASE WaitAny BY <1>1, <1>7 DEF WaitAny, Do, Suspend
<1>8. CASE Sleep /\ ~Interrupted BY <1>1, <1>8 DEF Sleep, Do, Suspend, Throw, EndTask
<1> QED BY <1>2, <1>3, <1>4, <1>5, <1>6, <1>7, <1>8 DEF Next, SchedStep, TaskStep, Plain


\* The counters follow the waiters.
LEMMA WaitersCountedKept == FbInductive /\ Next => WaitersCounted'
<1> SUFFICES ASSUME FbInductive, Next PROVE WaitersCounted' OBVIOUS
<1> DEFINE W(p) == {c \in Ctxs : at[c] = "wait" /\ p \in on[c]}
           V(p) == {c \in Ctxs : at'[c] = "wait" /\ p \in on'[c]}
<1>1. /\ Typed /\ Control /\ Stored /\ WaitersCounted /\ ToSet(pt) \subseteq Ctxs
  BY PlacesAre DEF FbInductive, Rest
<1>2. \A p \in AllProms : IsFiniteSet(W(p)) /\ waiters[p] = Cardinality(W(p)) /\ waiters[p] \in Nat
  BY <1>1, FiniteAssumption, FS_Subset, FS_CardinalityType DEF WaitersCounted
<1>3. SUFFICES /\ waiters' = [p \in AllProms |-> Cardinality(V(p))]
               \/ (waiters' = waiters /\ \A p \in AllProms : V(p) = W(p))
  BY <1>2 DEF WaitersCounted
<1> HIDE DEF W
<1> USE DEF ctxVars, taskVars, flowVars, envVars
<1>4. CASE UNCHANGED <<at, on, waiters>> BY <1>4 DEF W
<1>5. CASE Wait
  <2>1. PICK q \in AllProms : /\ waiters' = [waiters EXCEPT ![q] = @ + 1]
                              /\ at' = [at EXCEPT ![current] = "wait"] /\ on' = [on EXCEPT ![current] = {q}]
    BY <1>5 DEF Wait, Suspend
  <2>2. current \in Ctxs /\ current \notin W(q) /\ at[current] = "run"
    BY <1>1, <1>5 DEF Typed, Control, Wait, Do, W
  <2>3. V(q) = W(q) \cup {current} /\ \A p \in AllProms \ {q} : V(p) = W(p)
    BY <1>1, <2>1, <2>2 DEF Typed, Control, W
  <2>4. Cardinality(V(q)) = waiters[q] + 1 BY ZenonT(60), <1>2, <2>2, <2>3, FS_AddElement
  <2> HIDE DEF V
  <2> QED BY <1>1, <2>1, <1>2, <2>3, <2>4 DEF Typed
<1>6. CASE ResumeTask
  <2>1. /\ waiters' = Dequeued(current) /\ stage = "resume" /\ on' = [on EXCEPT ![current] = {}]
        /\ at' = [at EXCEPT ![current] = "run"] /\ current \in Ctxs
    BY <1>1, <1>6 DEF ResumeTask, Typed
  <2>2. \A p \in AllProms : V(p) = W(p) \ {current} BY <1>1, <2>1 DEF Typed, W
  <2>3. \A p \in AllProms : Cardinality(W(p) \ {current}) =
            IF at[current] = "wait" /\ p \in on[current] THEN waiters[p] - 1 ELSE waiters[p]
    BY <1>2, <2>1, FS_RemoveElement DEF W
  <2> QED BY <2>1, <2>2, <2>3 DEF Dequeued
<1>7. CASE LoopEnd \/ GoIdle \/ IdleWake \/ SwitchToIdle \/ CancelRest \/ ResumeQuit \/ QuitEnd
           \/ ResumeIdle \/ WaitAny \/ Yield \/ Sleep
  <2>1. /\ waiters' = waiters
        /\ \A c \in Ctxs : (at'[c] = at[c] /\ on'[c] = on[c]) \/ (at[c] # "wait" /\ at'[c] # "wait")
    <3>0. /\ current \in Ctxs /\ at \in [Ctxs -> Suspended \cup {"unborn", "run", "idle", "quit", "dead"}]
          /\ on \in [Ctxs -> SUBSET AllProms]
          /\ stage \in {"loop", "pick", "task", "break", "drain"} => at[current] # "wait"
          /\ \A c \in free \cup ToSet(pt) : at[c] # "wait"
      BY <1>1 DEF Control, Stored, Typed
    <3>1. CASE LoopEnd \/ GoIdle \/ CancelRest \/ IdleWake \/ QuitEnd \/ ResumeQuit
      BY <3>0, <3>1 DEF LoopEnd, GoIdle, CancelRest, IdleWake, QuitEnd, ResumeQuit
    <3>3. CASE SwitchToIdle \/ ResumeIdle \/ WaitAny \/ Yield \/ Sleep
      BY <3>0, <3>3, IdleIsSwitchedTo DEF SwitchToIdle, ResumeIdle, WaitAny, Do, Suspend, Yield, Throw, Sleep
    <3> QED BY <1>7, <3>1, <3>3
  <2> QED BY <2>1 DEF W
<1> QED
  <2>1. \/ UNCHANGED <<at, on, waiters>> \/ Wait \/ ResumeTask \/ LoopEnd \/ GoIdle \/ IdleWake \/ SwitchToIdle
        \/ CancelRest \/ ResumeQuit \/ QuitEnd \/ ResumeIdle \/ WaitAny \/ Yield \/ Sleep
    BY DEF Next, SchedStep, TaskStep, EnvStep, Move, Expire, RunTask, RunMessage, RunQuit, BreakPromises,
      BreakUndefined, Drain, Finish, Cancel, Async, EnvPost, EnvSet, EnvNotify, EnvCancel, EnvFlag, EnvQuit,
      Env, Tick, SwitchToReady
  <2> QED BY <1>4, <1>5, <1>6, <1>7, <2>1

\* The steps by which a task suspends its context in a list.
Suspends == Wait \/ WaitAny \/ (Sleep /\ ~Interrupted)

\* Where the context goes, and with what.
LEMMA SuspendedIs ==
  ASSUME FbInductive, Suspends
  PROVE  \E w \in {"wait", "any", "sleep"}, ps \in SUBSET AllProms, until \in Int :
            /\ stage = "task" /\ stage' = "switch" /\ current \notin Blk \cup sleepers \cup Rdy
            /\ UNCHANGED <<current, done, clock, ready, canceled, cur, active, cancelReq, envVars, pt, free>>
            /\ Apart(Sched)' /\ Rdy' = Rdy /\ Post' = Post /\ resched' = FALSE
            /\ at' = [at EXCEPT ![current] = w] /\ on' = [on EXCEPT ![current] = ps]
            /\ resume' = [resume EXCEPT ![current] = until] /\ until >= clock
            /\ \A c \in Ctxs \ {current} : blocking'[c] = blocking[c]
            /\ \A p \in ps : ~ready[p]
            /\ IF w = "sleep" THEN Blk' = Blk /\ sleepers' = sleepers \cup {current} /\ blocking'[current] = {}
               ELSE /\ Blk' = Blk \cup {current} /\ sleepers' \in {sleepers, sleepers \cup {current}}
                    /\ ps # {} /\ ps \subseteq blocking'[current]
<1>1. /\ Typed /\ current \in Ctxs /\ clock \in 0..MaxTime /\ blocking \in [Ctxs -> SUBSET AllProms]
  BY DEF FbInductive, Typed, Rest, Homes, Apart, Scheds, Sched
<1>5. PICK w \in {"wait", "any", "sleep"}, ps \in SUBSET AllProms, until \in Int :
         /\ Suspend(w, ps, until, FALSE) /\ until >= clock /\ \A p \in ps : ~ready[p]
         /\ blocking' = [blocking EXCEPT ![current] = IF w = "sleep" THEN {} ELSE @ \cup ps]
         /\ IF w = "sleep" THEN blocked' = blocked /\ until # Never
            ELSE blocked' = <<current>> \o blocked /\ ps # {}
  <2>1. CASE Wait
    <3>1. PICK p \in AllProms, until \in Timeouts :
             /\ ~ready[p] /\ Suspend("wait", {p}, until, FALSE)
             /\ blocking' = [blocking EXCEPT ![current] = @ \cup {p}]
      BY <2>1 DEF Wait
    <3>2. {p} \in SUBSET AllProms /\ {p} # {} /\ until \in Int /\ until >= clock
      BY <1>1, BoundAssumption DEF Timeouts, Never
    <3> USE <3>2
    <3> WITNESS "wait" \in {"wait", "any", "sleep"}, {p} \in SUBSET AllProms, until \in Int
    <3> QED BY <3>1, <2>1 DEF Wait
  <2>2. CASE WaitAny
    <3>1. PICK qs \in SUBSET AllProms, until \in Timeouts :
             /\ Cardinality(qs) = 2 /\ (\A p \in qs : ~ready[p]) /\ Suspend("any", qs, until, FALSE)
             /\ blocking' = [blocking EXCEPT ![current] = @ \cup qs]
      BY <2>2 DEF WaitAny
    <3>2. qs \in SUBSET AllProms /\ qs # {} /\ until \in Int /\ until >= clock
      BY <1>1, BoundAssumption, <3>1, FS_EmptySet DEF Timeouts, Never
    <3> USE <3>2
    <3> WITNESS "any" \in {"wait", "any", "sleep"}, qs \in SUBSET AllProms, until \in Int
    <3> QED BY <3>1, <2>2 DEF WaitAny
  <2>3. CASE Sleep /\ ~Interrupted
    <3>1. PICK until \in (clock + 1)..MaxTime :
             Suspend("sleep", {}, until, FALSE) /\ blocking' = [blocking EXCEPT ![current] = {}] /\ blocked' = blocked
      BY <2>3 DEF Sleep, Throw
    <3>2. until \in Int /\ until >= clock /\ until # Never BY <1>1, <3>1, BoundAssumption DEF Never
    <3> USE <3>2
    <3> WITNESS "sleep" \in {"wait", "any", "sleep"}, {} \in SUBSET AllProms, until \in Int
    <3> QED BY <3>1
  <2> QED BY <2>1, <2>2, <2>3 DEF Suspends
<1> QED
  BY RunnerIsOut, <1>5, <1>1, SuspenderIs DEF Suspends, Wait, WaitAny, Sleep, Do, Throw, Suspend

\* A step is a plain one, a switch, a suspension, or the one in which quit() wakes everybody.
LEMMA NextIs ==
  Next => /\ Plain \/ SwitchToReady \/ SwitchToIdle \/ CancelRest \/ Suspends
          /\ done => done'
<1> USE DEF ctxVars, taskVars, flowVars, envVars
<1>1. Next => done' = done \/ done'
  BY DEF Next, SchedStep, TaskStep, EnvStep, Move, LoopEnd, Expire, RunTask, RunMessage, GoIdle, IdleWake,
    SwitchToReady, SwitchToIdle, ResumeTask, ResumeIdle, RunQuit, BreakPromises, BreakUndefined, CancelRest,
    Drain, ResumeQuit, QuitEnd, Wait, WaitAny, Yield, Sleep, Cancel, Async, Finish, EnvPost, EnvSet, EnvNotify,
    EnvCancel, EnvFlag, EnvQuit, Env, Tick
<1> QED BY <1>1 DEF Next, SchedStep, TaskStep, EnvStep, Plain, Suspends

\* A listed context stays where it is: only the running one moves, only those that ended are
\* deleted.
LEMMA ListedStay ==
  ASSUME FbInductive, Plain, NEW c \in Blk \cup sleepers \cup Rdy
  PROVE  at'[c] = at[c] /\ on'[c] = on[c] /\ resume'[c] = resume[c]
<1>1. /\ c \in Ctxs /\ (c = current => stage = "switch")
      /\ c \notin free /\ at \in [Ctxs -> Suspended \cup {"unborn", "run", "idle", "quit", "dead"}]
      /\ on \in [Ctxs -> SUBSET AllProms] /\ resume \in [Ctxs -> 0..Never]
  BY ZenonT(60), PlacesAre DEF FbInductive, Rest, Control, Homes, Stored, Typed, Waiting, Suspended
<1> USE DEF ctxVars, taskVars, flowVars, envVars
<1>2. CASE LoopEnd \/ GoIdle \/ IdleWake \/ ResumeTask \/ ResumeIdle \/ ResumeQuit \/ QuitEnd
  BY <1>1, <1>2 DEF LoopEnd, GoIdle, IdleWake, ResumeTask, ResumeIdle, ResumeQuit, QuitEnd
<1>3. CASE Yield \/ (Sleep /\ Interrupted) BY <1>1, <1>3 DEF Yield, Sleep, Throw, Suspend, Do
<1>4. CASE UNCHANGED <<at, on, resume>> BY <1>4
<1> QED
  BY <1>2, <1>3, <1>4 DEF Plain, EnvStep, Move, Expire, RunTask, RunMessage, RunQuit, BreakPromises,
    BreakUndefined, Drain, Finish, Cancel, Async, EnvPost, EnvSet, EnvNotify, EnvCancel, EnvFlag, EnvQuit, Env,
    Tick

\* No notification is lost.
LEMMA NoticesKept == FbInductive /\ Next => Notices'
<1> SUFFICES ASSUME FbInductive, Next, ~done', NEW c \in Blk', at'[c] = "wait",
                    NEW p \in on'[c], ready'[p]
             PROVE  p \in envNotify' \/ Entry("notify", p) \in Post'
  BY DEF Notices
<1>1. /\ ~done /\ Notices /\ WaitersCounted /\ Typed /\ Blk \subseteq Ctxs
      /\ \A d \in Blk : on[d] \subseteq blocking[d]
      /\ at \in [Ctxs -> Suspended \cup {"unborn", "run", "idle", "quit", "dead"}]
  BY NextIs, PlacesAre DEF FbInductive, Rest, Homes, Control
<1>2. CASE Plain BY <1>2, PlainFrees, ListedStay, <1>1, WaiterCounts DEF Freed, Notices, Typed
<1>3. CASE UNCHANGED <<Blk, ready, envNotify, Post>> /\ at'[c] = at[c] /\ on'[c] = on[c]
  BY <1>1, <1>3 DEF Notices
<1>4. CASE SwitchToReady \/ SwitchToIdle
  BY <1>3, <1>4, ReadyIsSwitchedTo, IdleIsSwitchedTo, <1>1 DEF SwitchToReady, envVars, SwitchToIdle
<1>6. CASE CancelRest BY <1>6, AllArePoked
<1>7. CASE Suspends
  <2>1. PICK w \in {"wait", "any", "sleep"}, ps \in SUBSET AllProms :
           /\ current \notin Blk /\ UNCHANGED <<ready, envNotify, Post>> /\ Blk' \subseteq Blk \cup {current}
           /\ at' = [at EXCEPT ![current] = w] /\ on' = [on EXCEPT ![current] = ps]
           /\ \A q \in ps : ~ready[q]
    BY <1>7, SuspendedIs DEF envVars
  <2> QED BY <1>1, <2>1 DEF Notices, Typed
<1> QED BY <1>2, <1>4, <1>6, <1>7, NextIs

\* Idle, ended and new contexts are where they can be found, reused and deleted.
LEMMA StoredKept == FbInductive /\ Next => Stored'
<1> SUFFICES ASSUME FbInductive, Next PROVE Stored' OBVIOUS
<1>1. /\ Control /\ Stored /\ current \in Ctxs /\ pt \in Seq(Ctxs) /\ free \subseteq Ctxs /\ ToSet(pt) \subseteq Ctxs
      /\ at \in [Ctxs -> Suspended \cup {"unborn", "run", "idle", "quit", "dead"}]
  BY PlacesAre DEF FbInductive, Rest, Typed, Control
<1> USE DEF ctxVars, taskVars, flowVars, envVars
<1>2. CASE UNCHANGED <<pt, free, at>> /\ (stage = "exited" <=> stage' = "exited")
           /\ (~done' \/ stage' \in {"break", "crashed"} => ~done \/ stage \in {"break", "crashed"})
  BY <1>1, <1>2 DEF Stored
<1>3. CASE LoopEnd \/ ResumeIdle
  BY <1>1, <1>3 DEF Control, LoopEnd, ResumeIdle, Leave, Suspended, Stored
<1>4. CASE GoIdle
  <2>1. /\ ~done /\ at[current] = "run" /\ <<current>> \in Seq(Ctxs) /\ IsInjective(<<current>>)
        /\ ToSet(<<current>>) = {current} /\ current \notin ToSet(pt) /\ IsInjective(pt) /\ free = {}
    BY <1>1, <1>4 DEF Control, Stored, GoIdle, ToSet, IsInjective
  <2>2. IsInjective(pt') /\ ToSet(pt') = {current} \cup ToSet(pt)
    BY <1>1, <1>4, <2>1, ConcatIs DEF GoIdle
  <2> QED BY <1>1, <2>1, <2>2, <1>4 DEF Stored, GoIdle
<1>5. CASE IdleWake \/ QuitEnd \/ SwitchToIdle
  BY <1>1, <1>5, IdleIsSwitchedTo DEF Stored, Control, IdleWake, QuitEnd, SwitchToIdle
<1>8. CASE CancelRest BY <1>1, <1>8, AllArePoked DEF CancelRest, Control, Stored
<1>9. CASE ResumeTask \/ ResumeQuit BY <1>1, <1>9 DEF ResumeTask, ResumeQuit, EndTask, Stored
<1>10. CASE Suspends \/ (Yield /\ ~Interrupted)
  BY <1>10, <1>1 DEF Suspends, Wait, WaitAny, Sleep, Yield, Throw, Suspend, Do, Stored, Control
<1>11. CASE Interrupted /\ (Yield \/ Sleep) BY <1>2, <1>11 DEF Yield, Sleep, Throw, Do, EndTask
<1> QED
  <2>1. CASE Move \/ Expire \/ RunTask \/ RunMessage \/ RunQuit \/ BreakPromises \/ BreakUndefined \/ Drain
    BY <1>1, <1>2, <2>1 DEF Control, Move, Expire, RunTask, RunMessage, TaskTurn, RunQuit, BreakPromises,
      BreakUndefined, Drain
  <2>2. CASE SwitchToReady \/ Finish \/ Cancel \/ Async \/ EnvStep \/ Tick
    BY <1>2, <2>2 DEF SwitchToReady, Finish, EndTask, Cancel, Async, EnvStep, EnvPost, EnvSet, EnvNotify,
      EnvCancel, EnvFlag, EnvQuit, Env, Tick
  <2> QED BY <1>3, <1>4, <1>5, <1>8, <1>9, <1>10, <1>11, <2>1, <2>2, NextIs DEF Plain

\* A plain step suspends nobody but by a yield, and leaves a context that switches alone.
LEMMA PlainMoves ==
  ASSUME FbInductive, Plain
  PROVE  /\ current' = current
         /\ stage = "switch" => stage' = "switch" /\ resched' = resched
         /\ stage # "switch" /\ stage' = "switch" => at'[current] \in {"dead", "idle", "quit", "yield"}
         /\ done /\ stage \notin {"break", "crashed"} => done' /\ stage' \notin {"break", "crashed"}
         /\ \A c \in Ctxs : at'[c] \in Suspended \cup {"quit"} =>
               at'[c] = at[c] \/ (c = current /\ ~done /\ at'[c] = "yield")
         /\ clock' = clock \/ (Prompt => ~(stage = "switch" /\ current \in sleepers))
<1>1. Control /\ current \in Ctxs BY DEF FbInductive, Rest, Typed
<1> USE <1>1 DEF ctxVars, taskVars, flowVars, envVars, Control
<1>2. CASE LoopEnd \/ GoIdle \/ IdleWake \/ ResumeIdle \/ Drain \/ ResumeQuit \/ QuitEnd
  BY <1>2 DEF LoopEnd, GoIdle, IdleWake, ResumeIdle, Leave, Drain, ResumeQuit, QuitEnd, Suspended
<1>3. CASE ResumeTask \/ Finish \/ Yield \/ (Sleep /\ Interrupted)
  BY <1>3 DEF ResumeTask, Finish, EndTask, Yield, Sleep, Throw, Suspend, Do, Suspended
<1>4. CASE Move \/ Expire \/ RunTask \/ RunMessage \/ RunQuit \/ BreakPromises \/ BreakUndefined
  BY <1>4 DEF Move, Expire, RunTask, RunMessage, TaskTurn, RunQuit, BreakPromises, BreakUndefined
<1>5. CASE Cancel \/ Async \/ EnvStep \/ Tick
  BY <1>5 DEF Cancel, Async, EnvStep, EnvPost, EnvSet, EnvNotify, EnvCancel, EnvFlag, EnvQuit, Env, Tick
<1> QED BY <1>2, <1>3, <1>4, <1>5 DEF Plain

\* Every suspended context is in the list its way of suspending calls for.
LEMMA HomesKept == FbInductive /\ Next => Homes'
<1> SUFFICES ASSUME FbInductive, Next PROVE Homes' OBVIOUS
<1>1. /\ Homes /\ current \in Ctxs /\ clock \in Int /\ resume \in [Ctxs -> 0..Never]
      /\ Blk \subseteq Ctxs /\ Rdy \subseteq Ctxs /\ sleepers \subseteq Ctxs /\ Rdy \cap (Blk \cup sleepers) = {}
      /\ at \in [Ctxs -> Suspended \cup {"unborn", "run", "idle", "quit", "dead"}]
      /\ on \in [Ctxs -> SUBSET AllProms] /\ Never \in Int
      /\ stage = "switch" => (resched <=> at[current] \in {"yield", "quit"})
      /\ \A c \in ToSet(pt) : at[c] \in {"idle", "dead", "unborn"}
  BY SMTT(60), PlacesAre, BoundAssumption DEF FbInductive, Rest, Control, Typed, Homes, Apart, Sched, Blk, Rdy, Stored,
    Never
<1>2. CASE Plain \/ SwitchToReady
  BY <1>2, PlainFrees, PlainMoves, ListedStay, <1>1, ReadyIsSwitchedTo DEF Freed, Homes, Waiting, Suspended,
    SwitchToReady
<1>4. CASE SwitchToIdle
  <2>1. PICK n \in Ctxs \ (Blk \cup sleepers) :
          /\ Apart(Sched)' /\ Blk' = Blk /\ sleepers' = sleepers
          /\ \A c \in Ctxs : blocking'[c] = IF c = n /\ n \in ToSet(pt) THEN {} ELSE blocking[c]
          /\ Rdy = {} /\ Rdy' = (IF resched THEN {current} ELSE {}) /\ current' = n
          /\ (n \in ToSet(pt) \/ at[n] = "unborn") /\ at' = [at EXCEPT ![n] = "run"]
    BY <1>4, IdleIsSwitchedTo
  <2>2. stage = "switch" /\ stage' = "loop" /\ UNCHANGED <<on, resched, done>>
    BY <1>4 DEF SwitchToIdle
  <2> QED BY <1>1, <2>1, <2>2 DEF Homes
<1>5. CASE CancelRest
  <2>2. /\ stage = "break" /\ stage' = "drain" /\ at' = [at EXCEPT ![current] = "quit"] /\ on' = on
        /\ current' = current /\ done' = done /\ resched' = resched
    BY <1>5 DEF CancelRest
  <2> QED BY <1>1, <1>5, AllArePoked, <2>2, PlacesAre DEF Homes, FbInductive, Rest, Control, Stored
<1>6. CASE Suspends
  <2>1. PICK w \in {"wait", "any", "sleep"}, ps \in SUBSET AllProms, until \in Int :
          /\ stage = "task" /\ stage' = "switch" /\ current \notin Blk \cup sleepers \cup Rdy
          /\ UNCHANGED <<current, done, clock>> /\ Apart(Sched)' /\ Rdy' = Rdy /\ resched' = FALSE
          /\ at' = [at EXCEPT ![current] = w] /\ on' = [on EXCEPT ![current] = ps]
          /\ resume' = [resume EXCEPT ![current] = until] /\ until >= clock
          /\ \A c \in Ctxs \ {current} : blocking'[c] = blocking[c]
          /\ IF w = "sleep" THEN Blk' = Blk /\ sleepers' = sleepers \cup {current} /\ blocking'[current] = {}
             ELSE /\ Blk' = Blk \cup {current} /\ sleepers' \in {sleepers, sleepers \cup {current}}
                  /\ ps # {} /\ ps \subseteq blocking'[current]
    BY <1>6, SuspendedIs
  <2> QED BY <1>1, <2>1 DEF Homes, Waiting
<1> QED BY <1>2, <1>4, <1>5, <1>6, NextIs

\* Who is cancelled is flagged, and who is flagged and waits is told.
LEMMA FlagsKept == FbInductive /\ Next => Flags'
<1> SUFFICES ASSUME FbInductive, Next, ~done' PROVE Flags' BY DEF Flags
<1>1. /\ Flags /\ Typed /\ Control /\ ~done /\ current \in Ctxs /\ free = {}
      /\ at \in [Ctxs -> Suspended \cup {"unborn", "run", "idle", "quit", "dead"}]
      /\ cur \in [Ctxs -> Tasks \cup {NoTask}] /\ active \in [Tasks -> Ctxs \cup {NoCtx}]
      /\ cancelReq \subseteq Tasks /\ NoCtx \notin Ctxs /\ NoTask \notin Tasks /\ canceled \subseteq Ctxs
      /\ \A t \in Tasks : active[t] # NoCtx =>
            /\ active[t] \in Ctxs /\ cur[active[t]] = t /\ Busy(active[t])
            /\ at[active[t]] \notin {"unborn", "idle", "dead"}
      /\ stage \in {"loop", "pick", "task"} => at[current] = "run"
  BY NextIs, CtxAssumption, TaskAssumption DEF FbInductive, Rest, Control, Stored, Typed, Busy, Suspended
<1> DEFINE Told == \E m \in Post : m.kind = "canceled"
<1> USE DEF ctxVars, taskVars, flowVars, envVars
<1>2. CASE Plain
  <2>1. /\ Freed /\ current' = current
        /\ \A c \in Ctxs : at'[c] = "unborn" => at[c] = "unborn"
    <3>1. \A c \in Ctxs : at'[c] = "unborn" => at[c] = "unborn"
      BY <1>1, <1>2 DEF Plain, EnvStep, Move, LoopEnd, Expire, RunTask, RunMessage, GoIdle, IdleWake,
        ResumeTask, ResumeIdle, RunQuit, BreakPromises, BreakUndefined, Drain, ResumeQuit, QuitEnd, Yield,
        Sleep, Throw, Suspend, Cancel, Async, Finish, EnvPost, EnvSet, EnvNotify, EnvCancel, EnvFlag, EnvQuit,
        Env, Tick
    <3> QED BY <1>2, <3>1, PlainFrees, PlainMoves
  <2>2. ASSUME canceled' \subseteq canceled,
               current \in canceled' /\ stage' \in {"loop", "pick", "task"} => stage \in {"loop", "pick", "task"},
               NEW c \in canceled',
               c \in Blk' \cup sleepers' \/ (c = current' /\ stage' \in {"loop", "pick", "task"})
        PROVE  Told'
    BY <1>1, <2>1, <2>2 DEF Flags, Freed
  <2>3. CASE /\ UNCHANGED <<canceled, cancelReq, active, envFlag>>
             /\ stage' \in {"loop", "pick", "task"} => stage \in {"loop", "pick", "task"}
    BY <1>1, <2>1, <2>2, <2>3 DEF Flags
  <2>4. CASE \E t : /\ t = cur[current] \/ cur[current] = NoTask
                    /\ active' = [active EXCEPT ![t] = NoCtx] \/ active' = active
                    /\ canceled' = canceled \ {current} /\ UNCHANGED <<cancelReq, envFlag>>
                    /\ active' = active => cur[current] = NoTask
    BY <1>1, <2>4, <2>1, <2>2 DEF Flags
  <2>5. CASE Cancel
    <3>1. PICK t \in posted : CancelTask(t) BY <2>5 DEF Cancel
    <3>2. t \in Tasks /\ Entry("canceled", t) \in Mail /\ UNCHANGED <<schedVars, active, envFlag, stage>>
      BY <1>1, <2>5, MailIs DEF Typed, Cancel
    <3>3. CASE active[t] = NoCtx BY <1>1, <2>1, <2>2, <3>1, <3>2, <3>3 DEF CancelTask, Flags
    <3>4. CASE active[t] # NoCtx
      BY <3>1, <3>2, <3>4, QuietFrees, <1>1, <2>1 DEF Entry, CancelTask, Flags
    <3> QED BY <3>3, <3>4
  <2>6. CASE EnvCancel BY <2>6, <1>1, <2>1, <2>2 DEF EnvCancel, Typed, Env, Flags
  <2>7. CASE EnvFlag
    <3>1. PICK f \in envFlag : canceled' = canceled \cup {f[2]} /\ inbox' = Append(inbox, Entry("canceled", f[1]))
      BY <1>1, <2>7 DEF EnvFlag
    <3>2. /\ Entry("canceled", f[1]) \in Mail /\ f = <<f[1], f[2]>> /\ envFlag' = {}
          /\ UNCHANGED <<schedVars, active, cancelReq, stage>>
      BY <1>1, <2>7, MailIs DEF Typed, EnvFlag, Env, schedVars
    <3>3. Told' BY <3>1, <3>2, QuietFrees DEF Entry
    <3>4. \A t \in cancelReq : active'[t] # NoCtx => active'[t] \in canceled'
      <4> SUFFICES ASSUME NEW t \in cancelReq, active[t] # NoCtx, active[t] \notin canceled
                   PROVE  active[t] = f[2]
        BY <3>1, <3>2
      <4>1. <<t, active[t]>> = f BY <1>1 DEF Flags
      <4> QED BY <4>1
    <3> QED BY <1>1, <2>1, <3>1, <3>2, <3>3, <3>4 DEF Flags
  <2>8. CASE RunTask
    <3>1. PICK t \in Tasks :
             /\ stage = "pick" /\ UNCHANGED <<cancelReq, envFlag>>
             /\ \/ UNCHANGED active /\ canceled' = canceled \ {current}
                \/ /\ t \notin cancelReq /\ active' = [active EXCEPT ![t] = current]
                   /\ UNCHANGED canceled /\ stage' = "task"
      BY <2>8, ItemsAre DEF FbInductive, Rest, Homes, Apart, Scheds, Sched, RunTask, TaskTurn
    <3>2. cur[current] = NoTask BY <1>1, <3>1 DEF Control, Busy, Suspended
    <3>3. CASE UNCHANGED active /\ canceled' = canceled \ {current} BY <2>4, <3>1, <3>2, <3>3
    <3>4. CASE t \notin cancelReq /\ active' = [active EXCEPT ![t] = current] /\ UNCHANGED canceled
      BY <1>1, <2>1, <2>2, <3>1, <3>4 DEF Flags
    <3> QED BY <3>1, <3>3, <3>4
  <2>9. CASE RunMessage BY <2>9, <1>1, <2>4 DEF RunMessage, TaskTurn, Control, Busy, Suspended
  <2>10. CASE ResumeTask \/ Finish \/ Yield \/ (Sleep /\ Interrupted)
    BY <2>10, <1>1, <2>1, <2>2 DEF ResumeTask, Outcome, Finish, Yield, Sleep, Throw, Suspend, EndTask, Flags
  <2> QED
    <3>1. CASE Move \/ Expire \/ GoIdle \/ IdleWake \/ Async \/ EnvPost \/ EnvSet \/ EnvNotify \/ EnvQuit \/ Tick
      BY <2>3, <3>1 DEF Move, Expire, GoIdle, IdleWake, Async, Do, EnvPost, EnvSet, EnvNotify, EnvQuit, Env,
        Tick
    <3>2. ~LoopEnd /\ ~ResumeIdle /\ ~RunQuit /\ ~BreakPromises /\ ~BreakUndefined /\ ~Drain /\ ~ResumeQuit /\ ~QuitEnd
      BY <1>1 DEF Control, LoopEnd, ResumeIdle, RunQuit, BreakPromises, BreakUndefined, Drain, ResumeQuit,
        QuitEnd, Suspended
    <3> QED BY <1>2, <2>5, <2>6, <2>7, <2>8, <2>9, <2>10, <3>1, <3>2 DEF Plain, EnvStep
<1>3. CASE SwitchToReady BY <1>3, ReadyIsSwitchedTo, PlacesAre, <1>1 DEF SwitchToReady, Flags
<1>4. CASE SwitchToIdle
  BY <1>4, IdleIsSwitchedTo, <1>1 DEF FbInductive, Rest, Stored, SwitchToIdle, Flags
<1>5. CASE CancelRest BY <1>1, <1>5 DEF CancelRest, Control
<1>6. CASE Suspends
  <2>1. PICK w \in {"wait", "any", "sleep"} :
          /\ stage = "task" /\ stage' = "switch" /\ UNCHANGED <<current, canceled, active, cancelReq, envFlag>>
          /\ Post' = Post /\ at' = [at EXCEPT ![current] = w]
          /\ Blk' \subseteq Blk \cup {current} /\ sleepers' \subseteq sleepers \cup {current}
    BY <1>6, SuspendedIs
  <2> QED BY <1>1, <2>1 DEF Flags
<1> QED BY <1>2, <1>3, <1>4, <1>5, <1>6, NextIs

\* The invariant holds at the start.
LEMMA InitInductive == Init => FbInductive
<1> SUFFICES ASSUME Init PROVE FbInductive OBVIOUS
<1>1. /\ Sched \in Scheds /\ Typed /\ ToSet(pt) = {} /\ Blk = {} /\ Rdy = {} /\ sleepers = {}
  <2>1. <<>> \in Seq(Ctxs) /\ <<>> \in Seq(Items) /\ <<>> \in Seq(Mail) OBVIOUS
  <2>2. Typed
    <3>1. MaxTime \in Nat /\ Never \in 0..Never /\ Fuel \in 0..Fuel /\ 0 \in 0..MaxTime
      BY BoundAssumption DEF Never
    <3> QED BY <2>1, <3>1, CtxAssumption DEF Init, Typed
  <2>3. Sched \in Scheds BY <2>1 DEF Init, Sched, Scheds
  <2> QED BY <2>2, <2>3 DEF Init, ToSet, Blk, Rdy, InReady, CtxAt
<1>2. Apart(Sched) /\ IsInjective(pt)
  BY <1>1 DEF Init, Apart, Sched, IsInjective, QueuedOnce, CtxAt, InReady, ToSet
<1>3. Control BY <1>1, CtxAssumption DEF Init, Control, Busy, Suspended
<1>4. Stored /\ Notices /\ Flags BY <1>1, <1>2 DEF Init, Stored, Notices, Flags
<1>5. Homes BY <1>1, <1>2 DEF Init, Homes, Waiting
<1>6. WaitersCounted BY FS_EmptySet DEF Init, WaitersCounted
<1> QED BY <1>1, <1>3, <1>4, <1>5, <1>6 DEF FbInductive, Rest

\* FbInductive is an invariant.
LEMMA FbInvariant == Spec => []FbInductive
<1>1. FbInductive /\ [Next]_vars => FbInductive'
  <2>1. ASSUME FbInductive, UNCHANGED vars PROVE FbInductive'
    <3> USE <2>1 DEF vars, schedVars, ctxVars, taskVars, flowVars, envVars, FbInductive, Rest
    <3>1. Typed' /\ WaitersCounted' BY DEF Typed, WaitersCounted
    <3>2. Control' /\ Stored' BY DEF Control, Stored, Busy, Blk
    <3>4. Homes' BY DEF Homes, Apart, Sched, CtxAt, Blk, Rdy
    <3>5. Post' = Post BY DEF Post
    <3>6. Notices' /\ Flags' BY <3>5 DEF Notices, Flags, Homes, Apart, Sched, CtxAt, Blk, Rdy
    <3> QED BY <3>1, <3>2, <3>4, <3>6
  <2> QED BY <2>1, TypedKept, ControlKept, StoredKept, HomesKept, NoticesKept, FlagsKept, WaitersCountedKept DEF
    FbInductive, Rest
<1> QED BY <1>1, InitInductive, PTL DEF Spec

\* Every variable of the scheduler keeps its domain.
THEOREM FibersTypes == Spec => []TypeOK
<1>1. FbInductive => TypeOK
  <2> SUFFICES ASSUME FbInductive PROVE TypeOK OBVIOUS
  <2>1. /\ Typed /\ Control /\ Sched \in Scheds BY PlacesAre DEF FbInductive, Rest
  <2>2. inbox \in Seq(Entries) /\ runq \in Seq(Entries)
    <3>1. Mail \subseteq Entries /\ Items \subseteq Entries BY DEF Mail, Items, Entries, AllProms
    <3> QED BY <3>1, <2>1 DEF Typed, Sched, Scheds
  <2>3. waiters \in [AllProms -> 0..Cardinality(Ctxs)]
    <3>1. \A W \in SUBSET Ctxs : Cardinality(W) \in 0..Cardinality(Ctxs)
      BY FiniteAssumption, FS_Subset, FS_CardinalityType
    <3>2. \A p \in AllProms : waiters[p] \in 0..Cardinality(Ctxs)
      BY <3>1 DEF FbInductive, Rest, WaitersCounted
    <3> QED BY <2>1, <3>2 DEF Typed
  <2> QED BY <2>1, <2>2, <2>3 DEF TypeOK, Typed, Control, Suspended, Sched, Scheds
<1> QED BY <1>1, FbInvariant, PTL

\* The counters of the promises are exact.
THEOREM AreCounted == Spec => []WaitersCounted
<1>1. FbInductive => WaitersCounted BY DEF FbInductive, Rest
<1> QED BY <1>1, FbInvariant, PTL

\* A message on its way is in one of the two queues.
LEMMA PostIs ==
  \A m \in Post : \E q \in {inbox, runq} : \E i \in DOMAIN q : q[i] = m
BY DEF Post, Messages

\* Whoever waits for a promise that is ready is still to be notified.
THEOREM NoneIsForgotten == Spec => []WaiterIsNotified
<1>1. FbInductive => WaiterIsNotified
  BY PostIs DEF FbInductive, Rest, Notices, WaiterIsNotified, NotifyComing, Contains, Blk
<1> QED BY <1>1, FbInvariant, PTL

\* A cancelled task that runs is told.
THEOREM CancellationArrives == Spec => []CancelIsDelivered
<1>1. FbInductive => CancelIsDelivered
  BY PostIs DEF CancelIsDelivered, Blk, FbInductive, Rest, Flags
<1> QED BY <1>1, FbInvariant, PTL

\* A context is in at most one list, once, the one its suspension calls for.  Prompt leaves out a
\* tick between the deadline of a sleep and the switch, by which the scheduler forgets the sleeper.
THEOREM EveryFiberHasOneHome == Prompt => (Spec => []FiberHasOneHome)
<1> SUFFICES ASSUME Prompt PROVE Spec => []FiberHasOneHome OBVIOUS
<1>1. FbInductive => FiberHasOneHome
  <2> SUFFICES ASSUME FbInductive, stage \notin {"exited", "crashed"}, NEW c \in Ctxs \ {current}
               PROVE  /\ Queued(c) <= 1
                      /\ Cardinality({i \in DOMAIN blocked : blocked[i] = c}) <= 1
                      /\ c \in ToSet(blocked) => at[c] \in {"wait", "any"} /\ Queued(c) = 0
                      /\ c \in sleepers => at[c] \in {"wait", "any", "sleep"} /\ Queued(c) = 0
                      /\ CASE at[c] \in {"wait", "any"} -> c \in ToSet(blocked) \/ Queued(c) = 1
                           [] at[c] = "sleep" -> c \in sleepers \/ Queued(c) = 1
                           [] at[c] \in {"yield", "quit"} -> Queued(c) = 1
                           [] at[c] = "idle" -> (c \in ToSet(pt)) # (Queued(c) = 1) \/ done
                           [] at[c] = "dead" -> c \in free
                           [] OTHER -> Queued(c) = 0
    BY DEF FiberHasOneHome
  <2>1. Homes /\ Stored /\ Control /\ Rdy \cap (Blk \cup sleepers) = {} /\ QueuedOnce(runq) /\ IsInjective(blocked)
    BY DEF FbInductive, Rest, Homes, Apart, Sched, Rdy, Blk
  <2>2. Queued(c) = IF c \in Rdy THEN 1 ELSE 0
    <3>1. CASE c \in Rdy
      <4>1. PICK i \in CtxAt(runq) : runq[i].of = c BY <3>1 DEF Rdy, InReady
      <4>2. {j \in ReadyAt : runq[j].of = c} = {i} BY <2>1, <4>1 DEF QueuedOnce, ReadyAt, CtxAt
      <4> QED BY <3>1, <4>2, FS_Singleton DEF Queued
    <3>2. CASE c \notin Rdy BY <3>2, FS_EmptySet DEF Rdy, InReady, ReadyAt, CtxAt, Queued
    <3> QED BY <3>1, <3>2
  <2>3. Cardinality({i \in DOMAIN blocked : blocked[i] = c}) <= 1
    <3>1. CASE \A i \in DOMAIN blocked : blocked[i] # c BY <3>1, FS_EmptySet
    <3>2. CASE \E i \in DOMAIN blocked : blocked[i] = c BY <3>2, <2>1, FS_Singleton DEF IsInjective
    <3> QED BY <3>1, <3>2
  <2>7. CASE at[c] \in {"wait", "any", "sleep", "yield", "quit"}
    BY <2>1, <2>2, <2>3, <2>7 DEF Blk, Homes, Waiting
  <2>8. CASE at[c] \in {"unborn", "run", "idle", "dead"}
    BY <2>2, <2>3, <2>1, <2>8 DEF Blk, Suspended, Homes, Waiting, Stored
  <2> QED BY <2>1, <2>7, <2>8 DEF Control, Suspended
<1> QED BY <1>1, FbInvariant, PTL

\* A sleeper stays in the sleep queue until its time has passed, it is cancelled
\* or the thread quits.
THEOREM SleepersSleep == Spec => SleepNotEarly
<1>1. FbInductive /\ [Next]_vars => [\A c \in sleepers : at[c] = "sleep" /\ c \notin sleepers' =>
          resume[c] < clock \/ c \in canceled \/ done]_vars
  BY ZenonT(60), PlainFrees, ReadyIsSwitchedTo, IdleIsSwitchedTo, SuspendedIs, NextIs DEF FbInductive, Rest,
    Homes, Waiting, CancelRest, Control, Freed
<1> QED BY <1>1, FbInvariant, PTL DEF Spec, SleepNotEarly

\* Once done is set nothing starts: ~done was read in the turn of each step that starts a task or
\* suspends.
THEOREM NothingStarts == Spec => NothingNewAfterQuit
<1>1. FbInductive /\ [Next]_vars =>
         [done => /\ \A t \in Tasks : active[t] = NoCtx => active'[t] = NoCtx
                  /\ \A c \in Ctxs : at'[c] \in {"wait", "any", "sleep", "yield"} => at'[c] = at[c]]_vars
  <2> SUFFICES ASSUME FbInductive, Next, done
               PROVE  /\ \A t \in Tasks : active[t] = NoCtx => active'[t] = NoCtx
                      /\ \A c \in Ctxs : at'[c] \in {"wait", "any", "sleep", "yield"} => at'[c] = at[c]
    OBVIOUS
  <2>1. /\ stage \notin {"pick", "task"} /\ current \in Ctxs /\ active \in [Tasks -> Ctxs \cup {NoCtx}]
        /\ at \in [Ctxs -> Suspended \cup {"unborn", "run", "idle", "quit", "dead"}]
    BY DEF FbInductive, Rest, Control, Typed
  <2> USE DEF ctxVars, taskVars, flowVars, envVars
  <2>2. \A t \in Tasks : active[t] = NoCtx => active'[t] = NoCtx
    <3>1. active' = active \/ \E t : active' = [active EXCEPT ![t] = NoCtx]
      BY <2>1 DEF Next, SchedStep, TaskStep, EnvStep, Move, LoopEnd, Expire, RunTask, TaskTurn, RunMessage,
        GoIdle, IdleWake, SwitchToReady, SwitchToIdle, ResumeTask, EndTask, ResumeIdle, RunQuit, BreakPromises,
        BreakUndefined, CancelRest, Drain, ResumeQuit, QuitEnd, Wait, WaitAny, Yield, Sleep, Cancel, Async, Do,
        Finish, EnvPost, EnvSet, EnvNotify, EnvCancel, EnvFlag, EnvQuit, Env, Tick
    <3> QED BY <2>1, <3>1
  <2>4. ~Suspends BY <2>1 DEF Suspends, Wait, WaitAny, Sleep, Do
  <2> QED
    BY <2>2, PlainMoves, <2>4, IdleIsSwitchedTo, <2>1, NextIs DEF Suspended, SwitchToReady,
      CancelRest
<1> QED BY <1>1, FbInvariant, PTL DEF Spec, NothingNewAfterQuit

\* A cancel() on the thread itself flags its own task: a flagged context holds a cancelled task
\* until it has ended.
Hit == envFlag = {} /\ (~done => \A c \in canceled : cur[c] \in cancelReq)

THEOREM CancellationsHit == "cancel" \notin EnvOps => (Spec => []CancelHitsItsTask)
<1> SUFFICES ASSUME "cancel" \notin EnvOps PROVE Spec => []CancelHitsItsTask OBVIOUS
<1>1. Init => Hit BY DEF Init, Hit
<1>2. FbInductive /\ FbInductive' /\ Hit /\ [Next]_vars => Hit'
  <2> SUFFICES ASSUME FbInductive, Hit, Next PROVE Hit'
    BY DEF Hit, vars, ctxVars, taskVars, flowVars, envVars
  <2> USE DEF ctxVars, taskVars, flowVars, envVars
  <2>1. envFlag' = {}
    BY DEF Hit, Next, SchedStep, TaskStep, EnvStep, Move, LoopEnd, Expire, RunTask, RunMessage, GoIdle,
      IdleWake, SwitchToReady, SwitchToIdle, ResumeTask, ResumeIdle, RunQuit, BreakPromises, BreakUndefined,
      CancelRest, Drain, ResumeQuit, QuitEnd, Wait, WaitAny, Yield, Sleep, Cancel, Async, Finish, EnvPost,
      EnvSet, EnvNotify, EnvCancel, EnvFlag, EnvQuit, Env, Tick
  <2>2. SUFFICES ASSUME ~done', NEW c \in canceled' PROVE cur'[c] \in cancelReq' BY <2>1 DEF Hit
  <2>3. /\ ~done /\ cancelReq \subseteq cancelReq' /\ \A d \in canceled : cur[d] \in cancelReq
        /\ cur \in [Ctxs -> Tasks \cup {NoTask}] /\ cancelReq \subseteq Tasks /\ NoTask \notin Tasks
        /\ \A t \in Tasks : active[t] # NoCtx => cur[active[t]] = t
        /\ (stage = "pick" => cur[current] = NoTask) /\ current \in Ctxs /\ canceled \subseteq Ctxs
    <3>1. cancelReq \subseteq cancelReq'
      BY DEF Next, SchedStep, TaskStep, EnvStep, Move, LoopEnd, Expire, RunTask, RunMessage, GoIdle, IdleWake,
        SwitchToReady, SwitchToIdle, ResumeTask, ResumeIdle, RunQuit, BreakPromises, BreakUndefined, CancelRest,
        Drain, ResumeQuit, QuitEnd, Wait, WaitAny, Yield, Sleep, Cancel, CancelTask, Async, Finish, EnvPost,
        EnvSet, EnvNotify, EnvCancel, EnvFlag, EnvQuit, Env, Tick
    <3> QED
      BY <2>2, <3>1, NextIs, TaskAssumption DEF Hit, FbInductive, Rest, Control, Typed, Busy,
        Suspended
  <2>4. CASE canceled' \subseteq canceled /\ cur' = cur BY <2>3, <2>4
  <2>5. CASE canceled' = canceled \ {current} /\ cur' = [cur EXCEPT ![current] = NoTask]
    BY <2>3, <2>5
  <2>6. CASE Cancel BY <2>6, <2>2, <2>3 DEF Cancel, CancelTask, FbInductive, Typed
  <2>7. CASE RunTask BY <2>7, <2>3, <2>2, <2>4 DEF RunTask, TaskTurn
  <2> QED
    <3>1. ~EnvCancel /\ ~EnvFlag BY DEF EnvCancel, EnvFlag, Env
    <3>2. ~CancelRest BY <2>3 DEF CancelRest, FbInductive, Rest, Control
    <3>4. SchedStep \/ Wait \/ WaitAny \/ Async \/ EnvStep \/ Tick
             => ResumeTask \/ RunTask \/ (canceled' \subseteq canceled /\ cur' = cur)
      BY <3>1, <3>2 DEF SchedStep, EnvStep, Move, LoopEnd, Expire, RunMessage, GoIdle, IdleWake, SwitchToReady,
        SwitchToIdle, ResumeIdle, RunQuit, BreakPromises, BreakUndefined, Drain, ResumeQuit, QuitEnd, Wait,
        WaitAny, Async, EnvPost, EnvSet, EnvNotify, EnvQuit, Env, Tick
    <3> QED
      BY <2>4, <2>5, <2>6, <2>7, <3>4 DEF Next, TaskStep, ResumeTask, Yield, Sleep, Throw, Finish,
        EndTask
<1>3. FbInductive /\ Hit => CancelHitsItsTask BY DEF Hit, CancelHitsItsTask
<1> QED BY <1>1, <1>2, <1>3, FbInvariant, PTL DEF Spec

====
