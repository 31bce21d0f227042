---- MODULE ServiceProofs ----
(* Parts of fc that threads share without fc::mutex: first file_mutex, then cin_buffer and the websockets.
   file_mutex, for any number of processes and threads. _reader_count is the number of readers
   between increment and decrement; the rest follows from who holds _write_lock and what the kernel
   grants. *)
EXTENDS FileMutex, CinBuffer, Websocket, FiniteSetTheorems, TLAPS

WithLock == {"spin", "file", "writing", "unlock", "enter", "share", "entered"}
CountedAt == {"share", "entered", "reading"}
Counted(p) == {t \in Lockers : Home[t] = p /\ at[t] \in CountedAt}

FmDomains == /\ at \in [Lockers -> Positions] /\ write_lock \in [Processes -> Lockers \cup {Nobody}]
             /\ reader_count \in [Processes -> Nat]
             /\ file \in [Processes -> {"none", "shared", "exclusive"}] /\ raced \subseteq Processes

LockIsMarked == \A t \in Lockers : write_lock[Home[t]] = t <=> at[t] \in WithLock

CountIsRight == \A p \in Processes : reader_count[p] = Cardinality(Counted(p))

\* A writer past its loop, and the first reader, know what the count is.
CountIsKnown == \A t \in Lockers : /\ at[t] \in {"file", "writing"} => reader_count[Home[t]] = 0
                                   /\ at[t] = "share" => reader_count[Home[t]] = 1

\* Somebody will drop a lock on the file.
FileIsUsed == \A p \in Processes : file[p] # "none" =>
    \E t \in Lockers : Home[t] = p /\ at[t] \in {"writing", "entered", "reading", "leave"}

KernelExcludes == \A p, q \in Processes : p # q /\ file[p] = "exclusive" => file[q] = "none"

\* Who relies on the lock has it, unless it was dropped under its feet.
RelianceIsGood == \A t \in Lockers : Home[t] \notin raced =>
    /\ at[t] = "writing" => file[Home[t]] = "exclusive"
    /\ at[t] \in {"entered", "reading"} => file[Home[t]] = "shared"

FmInductive == /\ FmDomains /\ LockIsMarked /\ CountIsRight /\ CountIsKnown /\ FileIsUsed
               /\ KernelExcludes /\ RelianceIsGood
----
LEMMA CountedIsFinite == \A p : IsFiniteSet(Counted(p))
  BY FmAssumption, FS_Subset DEF Counted

\* What a count of zero, of one and of more says about who is counted.
LEMMA CountTells ==
  ASSUME CountIsRight, NEW p \in Processes
  PROVE  /\ reader_count[p] = 0 <=> Counted(p) = {}
         /\ \A t \in Counted(p) : reader_count[p] >= 1 /\ (reader_count[p] = 1 => Counted(p) = {t})
         /\ \A t \in Counted(p) : reader_count[p] # 1 => \E u \in Counted(p) : u # t
<1>3. ASSUME NEW t \in Counted(p)
      PROVE  /\ reader_count[p] >= 1 /\ (reader_count[p] = 1 => Counted(p) = {t})
             /\ reader_count[p] # 1 => \E u \in Counted(p) : u # t
  <2>1. /\ IsFiniteSet(Counted(p) \ {t}) /\ Cardinality(Counted(p) \ {t}) = reader_count[p] - 1
        /\ Cardinality(Counted(p) \ {t}) \in Nat /\ reader_count[p] \in Nat
    BY CountedIsFinite, FS_RemoveElement, FS_CardinalityType DEF CountIsRight
  <2> QED BY <2>1, FS_EmptySet
<1> QED BY FS_EmptySet, <1>3 DEF CountIsRight

\* The three ways a step of a thread goes with the count.
LEMMA CountUntouched ==
  ASSUME FmDomains, CountIsRight, NEW t \in Lockers, NEW to,
         at' = [at EXCEPT ![t] = to], at[t] \in CountedAt <=> to \in CountedAt,
         reader_count' = reader_count
  PROVE  CountIsRight'
<1>1. \A p : Counted(p)' = Counted(p) BY DEF Counted
<1> QED BY <1>1 DEF CountIsRight

LEMMA CountRises ==
  ASSUME FmDomains, CountIsRight, NEW t \in Lockers, NEW to \in CountedAt,
         at' = [at EXCEPT ![t] = to], at[t] \notin CountedAt,
         reader_count' = [reader_count EXCEPT ![Home[t]] = @ + 1]
  PROVE  CountIsRight'
<1> SUFFICES ASSUME NEW p \in Processes PROVE reader_count'[p] = Cardinality(Counted(p)')
  BY DEF CountIsRight
<1>1. CASE p = Home[t]
  <2>1. Counted(p)' = Counted(p) \cup {t} /\ t \notin Counted(p) BY <1>1 DEF Counted, FmDomains
  <2>2. Cardinality(Counted(p) \cup {t}) = Cardinality(Counted(p)) + 1
    BY <2>1, CountedIsFinite, FS_AddElement
  <2> QED BY <2>1, <2>2, <1>1 DEF CountIsRight, FmDomains
<1>2. CASE p # Home[t] BY <1>2 DEF Counted, CountIsRight
<1> QED BY <1>1, <1>2

LEMMA CountFalls ==
  ASSUME FmDomains, CountIsRight, NEW t \in Lockers, NEW to \in Positions \ CountedAt,
         at' = [at EXCEPT ![t] = to], at[t] \in CountedAt,
         reader_count' = [reader_count EXCEPT ![Home[t]] = @ - 1]
  PROVE  CountIsRight' /\ reader_count' \in [Processes -> Nat]
<1>0. Home[t] \in Processes /\ t \in Counted(Home[t]) BY FmAssumption DEF Counted
<1>1. reader_count[Home[t]] >= 1 BY <1>0, CountTells
<1>2. ASSUME NEW p \in Processes PROVE reader_count'[p] = Cardinality(Counted(p)')
  <2>1. CASE p = Home[t]
    <3>1. Counted(p)' = Counted(p) \ {t} /\ t \in Counted(p) BY <2>1 DEF Counted, FmDomains
    <3>3. reader_count'[p] = reader_count[p] - 1 BY <2>1 DEF FmDomains
    <3> QED BY <3>1, CountedIsFinite, FS_RemoveElement, <3>3 DEF CountIsRight
  <2>2. CASE p # Home[t] BY <2>2 DEF Counted, CountIsRight
  <2> QED BY <2>1, <2>2
<1>3. reader_count' \in [Processes -> Nat] BY <1>0, <1>1 DEF FmDomains
<1> QED BY <1>2, <1>3 DEF CountIsRight
----
(* The steps.  Each moves one thread, t; the facts all the proofs use: *)

LEMMA OneMoves ==
  ASSUME FmInductive, NEW t \in Lockers, NEW from, NEW to \in Positions, Goes(t, from, to)
  PROVE  /\ at[t] = from /\ at' = [at EXCEPT ![t] = to] /\ at' \in [Lockers -> Positions]
         /\ at'[t] = to /\ \A u \in Lockers \ {t} : at'[u] = at[u]
         /\ Home[t] \in Processes /\ \A u \in Lockers : Home[u] \in Processes
         /\ t # Nobody
  BY FmAssumption DEF FmInductive, FmDomains, Goes

\* lock() has _write_lock.
LEMMA LocksMutex ==
  ASSUME FmInductive, NEW t \in Lockers,
         Goes(t, "out", "spin"),
         TakeWriteLock(t),
         UNCHANGED <<reader_count, file, raced>>
  PROVE  FmInductive'
<1> USE DEF FmInductive
<1>0. "spin" \in Positions BY DEF Positions
<1>1. /\ at' = [at EXCEPT ![t] = "spin"] /\ at' \in [Lockers -> Positions]
      /\ at'[t] = "spin" /\ \A u \in Lockers \ {t} : at'[u] = at[u]
      /\ at[t] = "out" /\ \A u \in Lockers : Home[u] \in Processes
      /\ t # Nobody
  BY <1>0, OneMoves
<1>2. CountIsRight' BY <1>1, CountUntouched DEF CountedAt
<1>3. FmDomains'
  BY <1>1 DEF FmDomains, TakeWriteLock
<1>4. LockIsMarked'
  BY <1>1, FmAssumption DEF LockIsMarked, WithLock, FmDomains, TakeWriteLock
<1>5. CountIsKnown' BY <1>1 DEF CountIsKnown
<1>6. FileIsUsed' BY <1>1 DEF FileIsUsed
<1>7. KernelExcludes' BY DEF KernelExcludes
<1>8. RelianceIsGood' BY <1>1 DEF RelianceIsGood
<1> QED BY <1>2, <1>3, <1>4, <1>5, <1>6, <1>7, <1>8

\* lock() has seen no reader.
LEMMA WaitsForReaders ==
  ASSUME FmInductive, NEW t \in Lockers,
         Goes(t, "spin", "file"),
         reader_count[Home[t]] = 0,
         UNCHANGED <<write_lock, reader_count, file, raced>>
  PROVE  FmInductive'
<1> USE DEF FmInductive
<1>0. "file" \in Positions BY DEF Positions
<1>1. /\ at' = [at EXCEPT ![t] = "file"] /\ at' \in [Lockers -> Positions]
      /\ at'[t] = "file" /\ \A u \in Lockers \ {t} : at'[u] = at[u]
      /\ at[t] = "spin" /\ \A u \in Lockers : Home[u] \in Processes
      /\ t # Nobody
  BY <1>0, OneMoves
<1>2. CountIsRight' BY <1>1, CountUntouched DEF CountedAt
<1>3. FmDomains'
  BY <1>1 DEF FmDomains
<1>4. LockIsMarked' BY <1>1 DEF LockIsMarked, WithLock
<1>5. CountIsKnown' BY <1>1 DEF CountIsKnown
<1>6. FileIsUsed' BY <1>1 DEF FileIsUsed
<1>7. KernelExcludes' BY DEF KernelExcludes
<1>8. RelianceIsGood' BY <1>1 DEF RelianceIsGood
<1> QED BY <1>2, <1>3, <1>4, <1>5, <1>6, <1>7, <1>8

\* lock() has the file.
LEMMA LocksFile ==
  ASSUME FmInductive, NEW t \in Lockers,
         Goes(t, "file", "writing"),
         SetFile(Home[t], "exclusive"),
         UNCHANGED <<write_lock, reader_count, raced>>
  PROVE  FmInductive'
<1> USE DEF FmInductive
<1>0. "writing" \in Positions BY DEF Positions
<1>1. /\ at' = [at EXCEPT ![t] = "writing"] /\ at' \in [Lockers -> Positions]
      /\ at'[t] = "writing" /\ \A u \in Lockers \ {t} : at'[u] = at[u]
      /\ at[t] = "file" /\ \A u \in Lockers : Home[u] \in Processes
      /\ t # Nobody
  BY <1>0, OneMoves
<1>2. CountIsRight' BY <1>1, CountUntouched DEF CountedAt
<1>3. FmDomains'
  BY <1>1 DEF FmDomains, SetFile
<1>4. LockIsMarked' BY <1>1 DEF LockIsMarked, WithLock
<1>5. CountIsKnown' BY <1>1 DEF CountIsKnown
<1>6. FileIsUsed' BY <1>1 DEF FileIsUsed, SetFile
<1>7. KernelExcludes' BY DEF KernelExcludes, SetFile
<1>8. RelianceIsGood'
  BY <1>1, CountTells DEF CountIsKnown, Counted, CountedAt, RelianceIsGood, FmDomains, SetFile
<1> QED BY <1>2, <1>3, <1>4, <1>5, <1>6, <1>7, <1>8

\* unlock() drops the file.
LEMMA UnlocksFile ==
  ASSUME FmInductive, NEW t \in Lockers,
         Goes(t, "writing", "unlock"),
         DropFile(t),
         UNCHANGED <<write_lock, reader_count>>
  PROVE  FmInductive'
<1> USE DEF FmInductive
<1>0. "unlock" \in Positions BY DEF Positions
<1>1. /\ at' = [at EXCEPT ![t] = "unlock"] /\ at' \in [Lockers -> Positions]
      /\ at'[t] = "unlock" /\ \A u \in Lockers \ {t} : at'[u] = at[u]
      /\ at[t] = "writing" /\ \A u \in Lockers : Home[u] \in Processes
      /\ t # Nobody
  BY <1>0, OneMoves
<1>2. CountIsRight' BY <1>1, CountUntouched DEF CountedAt
<1>3. FmDomains'
  BY <1>1 DEF FmDomains, DropFile
<1>4. LockIsMarked' BY <1>1 DEF LockIsMarked, WithLock
<1>5. CountIsKnown' BY <1>1 DEF CountIsKnown
<1>6. FileIsUsed' BY <1>1 DEF FileIsUsed, FmDomains, DropFile
<1>7. KernelExcludes' BY DEF KernelExcludes, DropFile
<1>8. RelianceIsGood' BY <1>1 DEF RelianceIsGood, DropFile, Relying
<1> QED BY <1>2, <1>3, <1>4, <1>5, <1>6, <1>7, <1>8

\* unlock() leaves _write_lock.
LEMMA UnlocksMutex ==
  ASSUME FmInductive, NEW t \in Lockers,
         Goes(t, "unlock", "out"),
         LeaveWriteLock(t),
         UNCHANGED <<reader_count, file, raced>>
  PROVE  FmInductive'
<1> USE DEF FmInductive
<1>0. "out" \in Positions BY DEF Positions
<1>1. /\ at' = [at EXCEPT ![t] = "out"] /\ at' \in [Lockers -> Positions]
      /\ at'[t] = "out" /\ \A u \in Lockers \ {t} : at'[u] = at[u]
      /\ at[t] = "unlock" /\ \A u \in Lockers : Home[u] \in Processes
      /\ t # Nobody
  BY <1>0, OneMoves
<1>2. CountIsRight' BY <1>1, CountUntouched DEF CountedAt
<1>3. FmDomains'
  BY <1>1 DEF FmDomains, LeaveWriteLock
<1>4. LockIsMarked'
  BY <1>1, FmAssumption DEF LockIsMarked, WithLock, FmDomains, LeaveWriteLock
<1>5. CountIsKnown' BY <1>1 DEF CountIsKnown
<1>6. FileIsUsed' BY <1>1 DEF FileIsUsed
<1>7. KernelExcludes' BY DEF KernelExcludes
<1>8. RelianceIsGood' BY <1>1 DEF RelianceIsGood
<1> QED BY <1>2, <1>3, <1>4, <1>5, <1>6, <1>7, <1>8

\* lock_shared() has _write_lock.
LEMMA SharesMutex ==
  ASSUME FmInductive, NEW t \in Lockers,
         Goes(t, "out", "enter"),
         TakeWriteLock(t),
         UNCHANGED <<reader_count, file, raced>>
  PROVE  FmInductive'
<1> USE DEF FmInductive
<1>0. "enter" \in Positions BY DEF Positions
<1>1. /\ at' = [at EXCEPT ![t] = "enter"] /\ at' \in [Lockers -> Positions]
      /\ at'[t] = "enter" /\ \A u \in Lockers \ {t} : at'[u] = at[u]
      /\ at[t] = "out" /\ \A u \in Lockers : Home[u] \in Processes
      /\ t # Nobody
  BY <1>0, OneMoves
<1>2. CountIsRight' BY <1>1, CountUntouched DEF CountedAt
<1>3. FmDomains'
  BY <1>1 DEF FmDomains, TakeWriteLock
<1>4. LockIsMarked'
  BY <1>1, FmAssumption DEF LockIsMarked, WithLock, FmDomains, TakeWriteLock
<1>5. CountIsKnown' BY <1>1 DEF CountIsKnown
<1>6. FileIsUsed' BY <1>1 DEF FileIsUsed
<1>7. KernelExcludes' BY DEF KernelExcludes
<1>8. RelianceIsGood' BY <1>1 DEF RelianceIsGood
<1> QED BY <1>2, <1>3, <1>4, <1>5, <1>6, <1>7, <1>8

\* lock_shared() of the first reader counts it.
LEMMA CountsFirst ==
  ASSUME FmInductive, NEW t \in Lockers,
         Goes(t, "enter", "share"),
         reader_count[Home[t]] = 0,
         reader_count' = [reader_count EXCEPT ![Home[t]] = @ + 1],
         UNCHANGED <<write_lock, file, raced>>
  PROVE  FmInductive'
<1> USE DEF FmInductive
<1>0. "share" \in Positions BY DEF Positions
<1>1. /\ at' = [at EXCEPT ![t] = "share"] /\ at' \in [Lockers -> Positions]
      /\ at'[t] = "share" /\ \A u \in Lockers \ {t} : at'[u] = at[u]
      /\ at[t] = "enter" /\ \A u \in Lockers : Home[u] \in Processes
      /\ t # Nobody
  BY <1>0, OneMoves
<1>2. CountIsRight' BY <1>1, CountRises DEF CountedAt
<1>3. FmDomains'
  BY <1>1 DEF FmDomains
<1>4. LockIsMarked' BY <1>1 DEF LockIsMarked, WithLock
<1>5. CountIsKnown' BY <1>1 DEF CountIsKnown, FmDomains, LockIsMarked, WithLock
<1>6. FileIsUsed' BY <1>1 DEF FileIsUsed
<1>7. KernelExcludes' BY DEF KernelExcludes
<1>8. RelianceIsGood' BY <1>1 DEF RelianceIsGood
<1> QED BY <1>2, <1>3, <1>4, <1>5, <1>6, <1>7, <1>8

\* lock_shared() of a later one.
LEMMA CountsLater ==
  ASSUME FmInductive, NEW t \in Lockers,
         Goes(t, "enter", "entered"),
         reader_count[Home[t]] # 0,
         reader_count' = [reader_count EXCEPT ![Home[t]] = @ + 1],
         UNCHANGED <<write_lock, file, raced>>
  PROVE  FmInductive'
<1> USE DEF FmInductive
<1>0. "entered" \in Positions BY DEF Positions
<1>1. /\ at' = [at EXCEPT ![t] = "entered"] /\ at' \in [Lockers -> Positions]
      /\ at'[t] = "entered" /\ \A u \in Lockers \ {t} : at'[u] = at[u]
      /\ at[t] = "enter" /\ \A u \in Lockers : Home[u] \in Processes
      /\ t # Nobody
  BY <1>0, OneMoves
<1>2. CountIsRight' BY <1>1, CountRises DEF CountedAt
<1>3. FmDomains'
  BY <1>1 DEF FmDomains
<1>4. LockIsMarked' BY <1>1 DEF LockIsMarked, WithLock
<1>5. CountIsKnown' BY <1>1 DEF CountIsKnown, LockIsMarked, WithLock
<1>6. FileIsUsed' BY <1>1 DEF FileIsUsed
<1>7. KernelExcludes' BY DEF KernelExcludes
<1>8. RelianceIsGood'
  BY <1>1, CountTells DEF Counted, CountedAt, LockIsMarked, WithLock, RelianceIsGood
<1> QED BY <1>2, <1>3, <1>4, <1>5, <1>6, <1>7, <1>8

\* lock_shared() has the file.
LEMMA SharesFile ==
  ASSUME FmInductive, NEW t \in Lockers,
         Goes(t, "share", "entered"),
         SetFile(Home[t], "shared"),
         UNCHANGED <<write_lock, reader_count, raced>>
  PROVE  FmInductive'
<1> USE DEF FmInductive
<1>0. "entered" \in Positions BY DEF Positions
<1>1. /\ at' = [at EXCEPT ![t] = "entered"] /\ at' \in [Lockers -> Positions]
      /\ at'[t] = "entered" /\ \A u \in Lockers \ {t} : at'[u] = at[u]
      /\ at[t] = "share" /\ \A u \in Lockers : Home[u] \in Processes
      /\ t # Nobody
  BY <1>0, OneMoves
<1>2. CountIsRight' BY <1>1, CountUntouched DEF CountedAt
<1>3. FmDomains'
  BY <1>1 DEF FmDomains, SetFile
<1>4. LockIsMarked' BY <1>1 DEF LockIsMarked, WithLock
<1>5. CountIsKnown' BY <1>1 DEF CountIsKnown
<1>6. FileIsUsed' BY <1>1 DEF FileIsUsed, SetFile
<1>7. KernelExcludes' BY DEF KernelExcludes, SetFile
<1>8. RelianceIsGood' BY <1>1 DEF LockIsMarked, WithLock, RelianceIsGood, FmDomains, SetFile
<1> QED BY <1>2, <1>3, <1>4, <1>5, <1>6, <1>7, <1>8

\* lock_shared() leaves _write_lock.
LEMMA SharedReturns ==
  ASSUME FmInductive, NEW t \in Lockers,
         Goes(t, "entered", "reading"),
         LeaveWriteLock(t),
         UNCHANGED <<reader_count, file, raced>>
  PROVE  FmInductive'
<1> USE DEF FmInductive
<1>0. "reading" \in Positions BY DEF Positions
<1>1. /\ at' = [at EXCEPT ![t] = "reading"] /\ at' \in [Lockers -> Positions]
      /\ at'[t] = "reading" /\ \A u \in Lockers \ {t} : at'[u] = at[u]
      /\ at[t] = "entered" /\ \A u \in Lockers : Home[u] \in Processes
      /\ t # Nobody
  BY <1>0, OneMoves
<1>2. CountIsRight' BY <1>1, CountUntouched DEF CountedAt
<1>3. FmDomains'
  BY <1>1 DEF FmDomains, LeaveWriteLock
<1>4. LockIsMarked'
  BY <1>1, FmAssumption DEF LockIsMarked, WithLock, FmDomains, LeaveWriteLock
<1>5. CountIsKnown' BY <1>1 DEF CountIsKnown
<1>6. FileIsUsed' BY <1>1 DEF FileIsUsed
<1>7. KernelExcludes' BY DEF KernelExcludes
<1>8. RelianceIsGood' BY <1>1 DEF RelianceIsGood
<1> QED BY <1>2, <1>3, <1>4, <1>5, <1>6, <1>7, <1>8

\* unlock_shared() while others read.
LEMMA LeavesOthers ==
  ASSUME FmInductive, NEW t \in Lockers,
         Goes(t, "reading", "out"),
         reader_count[Home[t]] # 1,
         reader_count' = [reader_count EXCEPT ![Home[t]] = @ - 1],
         UNCHANGED <<write_lock, file, raced>>
  PROVE  FmInductive'
<1> USE DEF FmInductive
<1>0. "out" \in Positions BY DEF Positions
<1>1. /\ at' = [at EXCEPT ![t] = "out"] /\ at' \in [Lockers -> Positions]
      /\ at'[t] = "out" /\ \A u \in Lockers \ {t} : at'[u] = at[u]
      /\ at[t] = "reading" /\ \A u \in Lockers : Home[u] \in Processes
      /\ t # Nobody
  BY <1>0, OneMoves
<1>2. CountIsRight' BY <1>1, CountFalls DEF CountedAt
<1>3. FmDomains'
  BY <1>1, CountFalls DEF FmDomains, CountedAt
<1>4. LockIsMarked' BY <1>1 DEF LockIsMarked, WithLock
<1>5. CountIsKnown' BY <1>1, CountTells DEF CountIsKnown, Counted, CountedAt
<1>6. FileIsUsed' BY <1>1, CountTells DEF Counted, CountIsKnown, FileIsUsed, CountedAt
<1>7. KernelExcludes' BY DEF KernelExcludes
<1>8. RelianceIsGood' BY <1>1 DEF RelianceIsGood
<1> QED BY <1>2, <1>3, <1>4, <1>5, <1>6, <1>7, <1>8

\* unlock_shared() of the last.
LEMMA LeavesLast ==
  ASSUME FmInductive, NEW t \in Lockers,
         Goes(t, "reading", "leave"),
         reader_count[Home[t]] = 1,
         reader_count' = [reader_count EXCEPT ![Home[t]] = @ - 1],
         UNCHANGED <<write_lock, file, raced>>
  PROVE  FmInductive'
<1> USE DEF FmInductive
<1>0. "leave" \in Positions BY DEF Positions
<1>1. /\ at' = [at EXCEPT ![t] = "leave"] /\ at' \in [Lockers -> Positions]
      /\ at'[t] = "leave" /\ \A u \in Lockers \ {t} : at'[u] = at[u]
      /\ at[t] = "reading" /\ \A u \in Lockers : Home[u] \in Processes
      /\ t # Nobody
  BY <1>0, OneMoves
<1>2. CountIsRight' BY <1>1, CountFalls DEF CountedAt
<1>3. FmDomains'
  BY <1>1 DEF FmDomains
<1>4. LockIsMarked' BY <1>1 DEF LockIsMarked, WithLock
<1>5. CountIsKnown' BY <1>1, CountTells DEF Counted, CountedAt, CountIsKnown
<1>6. FileIsUsed' BY <1>1 DEF FileIsUsed
<1>7. KernelExcludes' BY DEF KernelExcludes
<1>8. RelianceIsGood' BY <1>1 DEF RelianceIsGood
<1> QED BY <1>2, <1>3, <1>4, <1>5, <1>6, <1>7, <1>8

\* unlock_shared() drops the file.
LEMMA DropsFile ==
  ASSUME FmInductive, NEW t \in Lockers,
         Goes(t, "leave", "out"),
         DropFile(t),
         UNCHANGED <<write_lock, reader_count>>
  PROVE  FmInductive'
<1> USE DEF FmInductive
<1>0. "out" \in Positions BY DEF Positions
<1>1. /\ at' = [at EXCEPT ![t] = "out"] /\ at' \in [Lockers -> Positions]
      /\ at'[t] = "out" /\ \A u \in Lockers \ {t} : at'[u] = at[u]
      /\ at[t] = "leave" /\ \A u \in Lockers : Home[u] \in Processes
      /\ t # Nobody
  BY <1>0, OneMoves
<1>2. CountIsRight' BY <1>1, CountUntouched DEF CountedAt
<1>3. FmDomains'
  BY <1>1 DEF FmDomains, DropFile
<1>4. LockIsMarked' BY <1>1 DEF LockIsMarked, WithLock
<1>5. CountIsKnown' BY <1>1 DEF CountIsKnown
<1>6. FileIsUsed' BY <1>1 DEF FileIsUsed, FmDomains, DropFile
<1>7. KernelExcludes' BY DEF KernelExcludes, DropFile
<1>8. RelianceIsGood' BY <1>1 DEF RelianceIsGood, DropFile, Relying
<1> QED BY <1>2, <1>3, <1>4, <1>5, <1>6, <1>7, <1>8

----
LEMMA FmStart == FmInit => FmInductive
<1> SUFFICES ASSUME FmInit PROVE FmInductive OBVIOUS
<1>2. CountIsRight BY FS_EmptySet DEF FmInit, Counted, CountedAt, CountIsRight
<1>3. FmDomains BY DEF FmInit, FmDomains, Positions
<1> QED
  BY FmAssumption, <1>2, <1>3 DEF FmInit, FmInductive, LockIsMarked, WithLock, CountIsKnown,
    FileIsUsed, KernelExcludes, RelianceIsGood

LEMMA FmStepKeeps == FmInductive /\ [FmNext]_fmVars => FmInductive'
<1> SUFFICES ASSUME FmInductive, [FmNext]_fmVars PROVE FmInductive' OBVIOUS
<1>1. CASE UNCHANGED fmVars
  BY <1>1 DEF fmVars, Counted, FmInductive, FmDomains, LockIsMarked, CountIsRight,
     CountIsKnown, FileIsUsed, KernelExcludes, RelianceIsGood
<1>2. ASSUME NEW t \in Lockers, Lock(t) PROVE FmInductive'
  BY <1>2, LocksMutex, WaitsForReaders, LocksFile DEF Lock
<1>3. ASSUME NEW t \in Lockers, Unlock(t) PROVE FmInductive'
  BY <1>3, UnlocksFile, UnlocksMutex DEF Unlock
<1>4. ASSUME NEW t \in Lockers, LockShared(t) PROVE FmInductive'
  BY <1>4, SharesMutex, CountsFirst, CountsLater, SharesFile, SharedReturns DEF LockShared
<1>5. ASSUME NEW t \in Lockers, UnlockShared(t) PROVE FmInductive'
  BY <1>5, LeavesOthers, LeavesLast, DropsFile DEF UnlockShared
<1> QED BY <1>1, <1>2, <1>3, <1>4, <1>5 DEF FmNext, FmStep

LEMMA FmAlways == FmSpec => []FmInductive
  BY FmStart, FmStepKeeps, PTL DEF FmSpec

\* No reader that leaves takes _reader_count below zero.
THEOREM FileMutexTypes == FmSpec => []FmTypeOK
<1>1. FmInductive => FmTypeOK BY DEF FmInductive, FmDomains, FmTypeOK
<1> QED BY <1>1, FmAlways, PTL

\* lock() and lock_shared(): within a process a writer is alone.
THEOREM WriterExcludes == FmSpec => []WriterIsAlone
<1>1. ASSUME FmInductive, NEW t \in Lockers, NEW u \in Lockers,
             at[t] = "writing", u # t, Home[u] = Home[t]
      PROVE  at[u] \notin {"writing", "reading"}
  BY <1>1, FmAssumption, CountTells DEF FmInductive, LockIsMarked, WithLock, CountIsKnown,
     Counted, CountedAt
<1>2. FmInductive => WriterIsAlone BY <1>1 DEF WriterIsAlone
<1> QED BY <1>2, FmAlways, PTL

\* Between processes a writer is alone, unless the two steps of unlock_shared() had dropped a lock
\* on the file.
THEOREM ProcessesExcluded == FmSpec => []ProcessesExclude
<1>1. ASSUME FmInductive, NEW t \in Lockers, NEW u \in Lockers, at[t] = "writing",
             at[u] \in {"writing", "reading"}, Home[u] # Home[t],
             Home[t] \notin raced, Home[u] \notin raced
      PROVE  FALSE
  BY <1>1, FmAssumption DEF FmInductive, RelianceIsGood, KernelExcludes
<1>2. FmInductive => ProcessesExclude BY <1>1 DEF ProcessesExclude
<1> QED BY <1>2, FmAlways, PTL

\* A process that does not use the mutex has no lock on the file.
THEOREM FileIsLeft == FmSpec => []NothingLeftLocked
<1>1. FmInductive => NothingLeftLocked BY DEF FmInductive, FileIsUsed, NothingLeftLocked
<1> QED BY <1>1, FmAlways, PTL

\* file_mutex excludes among the threads of a process and among processes, and leaves no lock.
THEOREM FileMutexIsRight == FmSpec => []FileMutexExcludes
BY FileMutexTypes, WriterExcludes, ProcessesExcluded, FileIsLeft, PTL DEF FileMutexExcludes

----
(* cin_buffer: a ring of two threads without a lock. *)

Writers == {"input", "space", "promise", "again", "wait", "put", "publish", "copy", "tell", "ended",
            "tell end", "stopped"}
Readers == {"out", "look", "register", "recheck", "wait", "reset", "end?", "take", "take some", "taken",
            "release"}

\* A byte that the writer holds has a number, from the promise of room on a place in the ring.
WriterHolds ==
  /\ writer \in Writers
  /\ writer \in {"space", "promise", "again", "wait", "put", "publish"} => write_pos < MaxBytes
  /\ writer \in {"put", "publish"} => Buffered < Size
  /\ writer = "publish" => buf[write_pos % Size] = write_pos
  /\ told = "newest" => writer \in {"tell", "tell end"}

\* The reader asks for what it takes, and waits on a promise that is registered.
ReaderHolds ==
  /\ reader \in Readers
  /\ reader = "take" => avail <= asked
  /\ reader \in {"recheck", "wait"} => registered = TRUE

CinInductive == CinTypeOK /\ UnreadIsIntact /\ ReaderIsTold /\ WriterHolds /\ ReaderHolds

\* Bytes less than the size of the ring apart have places of their own.
LEMMA PlacesDiffer ==
  ASSUME NEW i \in Nat, NEW j \in Nat, i < j, j - i < Size
  PROVE  i % Size # j % Size
<1> SUFFICES ASSUME i % Size = j % Size PROVE FALSE OBVIOUS
<1> DEFINE a == i \div Size
           b == j \div Size
           r == i % Size
<1>1. a \in Nat /\ b \in Nat /\ r \in Nat /\ Size \in Nat \ {0} BY CinAssumption
<1>2. i = (Size * a) + r BY SMTT(60), CinAssumption
<1>3. j = (Size * b) + r BY SMTT(60), CinAssumption
<1> HIDE DEF a, b, r
<1>4. Size * a < Size * b BY <1>1, <1>2, <1>3
<1>5. a < b BY <1>1, <1>4
<1>6. Size * (a + 1) <= Size * b BY <1>1, <1>5
<1>7. Size * (a + 1) = (Size * a) + Size BY <1>1
<1> QED BY <1>1, <1>2, <1>3, <1>6, <1>7

LEMMA CinStart == CinInit => CinInductive
<1> SUFFICES ASSUME CinInit PROVE CinInductive OBVIOUS
<1> USE CinAssumption DEF CinInit, Buffered
<1>0. buf \in [0..Size - 1 -> -1..MaxBytes] /\ eof \in BOOLEAN /\ registered \in BOOLEAN
  <2>1. -1 \in -1..MaxBytes OBVIOUS
  <2> QED BY <2>1
<1>1. CinTypeOK BY <1>0 DEF CinTypeOK
<1>2. UnreadIsIntact /\ ReaderIsTold BY DEF UnreadIsIntact, ReaderIsTold
<1>3. WriterHolds /\ ReaderHolds BY DEF WriterHolds, ReaderHolds, Writers, Readers
<1> QED BY <1>1, <1>2, <1>3 DEF CinInductive

\* What is in the ring stays while the writer does not write, and the reader may take it.
LEMMA UnreadStays ==
  ASSUME CinInductive, buf' = buf, write_pos' = write_pos, read_pos' \in {read_pos, read_pos + 1}
  PROVE  UnreadIsIntact'
<1>1. write_pos \in Nat /\ read_pos \in Nat BY DEF CinInductive, CinTypeOK
<1>2. read_pos'..write_pos' - 1 \subseteq read_pos..write_pos - 1 BY <1>1
<1> QED BY <1>2 DEF UnreadIsIntact, CinInductive

LEMMA CinStep == CinInductive /\ [CinNext]_cinVars => CinInductive'
<1> SUFFICES ASSUME CinInductive, [CinNext]_cinVars PROVE CinInductive' OBVIOUS
<1> USE CinAssumption
        DEF CinInductive, rangeVars, readerVars, writerVars, shared, WriterGoes, ReaderGoes, Buffered
<1>1. CASE UNCHANGED cinVars
  <2>1. UnreadIsIntact' BY <1>1, UnreadStays DEF cinVars
  <2>2. CinTypeOK' BY <1>1 DEF cinVars, CinTypeOK
  <2> QED BY <1>1, <2>1, <2>2 DEF cinVars, ReaderIsTold, WriterHolds, ReaderHolds
<1>2. CASE Input
  <2>1. UnreadIsIntact' BY <1>2, UnreadStays DEF Input
  <2>2. CinTypeOK' BY <1>2 DEF Input, CinTypeOK, WriterHolds, ReaderHolds
  <2>3. ReaderIsTold' BY <1>2 DEF Input, ReaderIsTold, WriterHolds, ReaderHolds
  <2>4. WriterHolds' BY <1>2 DEF Input, CinTypeOK, WriterHolds, Writers
  <2>5. ReaderHolds' BY <1>2 DEF Input, CinTypeOK, ReaderHolds, Readers
  <2> QED BY <2>1, <2>2, <2>3, <2>4, <2>5
<1>3. CASE Space
  <2>1. UnreadIsIntact' BY <1>3, UnreadStays DEF Space
  <2>2. CinTypeOK' BY <1>3 DEF Space, CinTypeOK, WriterHolds, ReaderHolds
  <2>3. ReaderIsTold' BY <1>3 DEF Space, ReaderIsTold, WriterHolds, ReaderHolds
  <2>4. WriterHolds' BY <1>3 DEF Space, CinTypeOK, WriterHolds, Writers
  <2>5. ReaderHolds' BY <1>3 DEF Space, CinTypeOK, ReaderHolds, Readers
  <2> QED BY <2>1, <2>2, <2>3, <2>4, <2>5
<1>4. CASE Put
  <2>1. CASE writer = "put"
    <3>1. /\ writer' = "publish" /\ buf' = [buf EXCEPT ![write_pos % Size] = write_pos]
          /\ UNCHANGED <<told, read_ready, registered, write_pos, read_pos, eof, write_ready, reader, sees, asked, avail>>
      BY <1>4, <2>1 DEF Put
    <3>0. write_pos \in Nat /\ read_pos \in Nat /\ write_pos - read_pos < Size
      BY <2>1 DEF CinTypeOK, WriterHolds
    <3>2. write_pos % Size \in 0..Size - 1 BY <3>0
    <3>3. ASSUME NEW i \in read_pos..write_pos - 1 PROVE i % Size # write_pos % Size
      <4>1. i \in Nat /\ i < write_pos /\ write_pos - i < Size BY <3>0
      <4> QED BY <3>0, <4>1, PlacesDiffer
    <3>4. UnreadIsIntact'
      <4> SUFFICES ASSUME NEW i \in read_pos..write_pos - 1 PROVE buf'[i % Size] = i
        BY <3>1 DEF UnreadIsIntact
      <4>1. i \in Nat BY <3>0
      <4>2. i % Size \in 0..Size - 1 BY <4>1
      <4> QED BY <3>1, <3>3, <4>2 DEF UnreadIsIntact, CinTypeOK
    <3>5. buf' \in [0..Size - 1 -> -1..MaxBytes] /\ buf'[write_pos % Size] = write_pos
      BY <3>1, <3>2 DEF CinTypeOK
    <3> QED BY <2>1, <3>1, <3>4, <3>5 DEF CinTypeOK, ReaderIsTold, WriterHolds, ReaderHolds, Writers
  <2>2. CASE writer = "publish"
    <3>1. /\ writer' = "copy" /\ write_pos' = write_pos + 1
          /\ UNCHANGED <<told, read_ready, registered, buf, read_pos, eof, write_ready, reader, sees, asked, avail>>
      BY <1>4, <2>2 DEF Put
    <3>2. UnreadIsIntact'
      <4>0. write_pos \in Nat /\ write_pos' - 1 = write_pos BY <3>1 DEF CinTypeOK
      <4> SUFFICES ASSUME NEW i \in read_pos..write_pos PROVE buf[i % Size] = i
        BY <3>1, <4>0 DEF UnreadIsIntact
      <4>1. CASE i = write_pos BY <2>2, <4>1 DEF WriterHolds
      <4>2. CASE i # write_pos
        <5>1. i \in read_pos..write_pos - 1 BY <4>2 DEF CinTypeOK
        <5> QED BY <5>1 DEF UnreadIsIntact
      <4> QED BY <4>1, <4>2
    <3> QED BY <2>2, <3>1, <3>2 DEF CinTypeOK, ReaderIsTold, WriterHolds, ReaderHolds, Writers
  <2> QED BY <1>4, <2>1, <2>2 DEF Put
<1>5. CASE Tell
  <2>1. UnreadIsIntact' BY <1>5, UnreadStays DEF Tell
  <2>2. CinTypeOK' BY <1>5 DEF Tell, Settled, CinTypeOK, WriterHolds, ReaderHolds
  <2>3. ReaderIsTold' BY <1>5 DEF Tell, Settled, ReaderIsTold, WriterHolds, ReaderHolds
  <2>4. WriterHolds' BY <1>5 DEF Tell, Settled, CinTypeOK, WriterHolds, Writers
  <2>5. ReaderHolds' BY <1>5 DEF Tell, Settled, CinTypeOK, ReaderHolds, Readers
  <2> QED BY <2>1, <2>2, <2>3, <2>4, <2>5
<1>6. CASE Call
  <2>1. UnreadIsIntact' BY <1>6, UnreadStays DEF Call
  <2>0. /\ write_pos \in Nat /\ read_pos \in Nat /\ avail \in 0..Buffered /\ read_pos <= write_pos
        /\ asked \in 0..MaxAsked
    BY DEF CinTypeOK
  <2>6. asked' \in 0..MaxAsked /\ avail' \in 0..Buffered
    <3>1. PICK n \in 1..MaxAsked :
             \/ asked' = n /\ avail' = avail
             \/ Buffered = 0 /\ asked' = 1 /\ avail' = avail
             \/ Buffered # 0 /\ asked' = 0 /\ avail' = IF n < Buffered THEN n ELSE Buffered
      BY <1>6 DEF Call
    <3>2. n \in Nat /\ n <= MaxAsked /\ MaxAsked \in Nat \ {0} OBVIOUS
    <3> QED BY <2>0, <3>1, <3>2
  <2>2. CinTypeOK' BY <1>6, <2>6 DEF Call, CinTypeOK
  <2>3. ReaderIsTold' BY <1>6 DEF Call, ReaderIsTold, WriterHolds, ReaderHolds
  <2>4. WriterHolds' BY <1>6 DEF Call, CinTypeOK, WriterHolds, Writers
  <2>5. ReaderHolds' BY <1>6 DEF Call, CinTypeOK, ReaderHolds, Readers
  <2> QED BY <2>1, <2>2, <2>3, <2>4, <2>5
<1>7. CASE WaitForMore
  <2>1. UnreadIsIntact' BY <1>7, UnreadStays DEF WaitForMore
  <2>2. CinTypeOK' BY <1>7 DEF WaitForMore, CinTypeOK, WriterHolds, ReaderHolds
  <2>6. /\ UNCHANGED <<write_pos, read_pos, writer>>
        /\ reader' = "wait" => reader = "recheck" /\ Buffered = 0
    BY <1>7 DEF WaitForMore
  <2>7. Buffered = 0 => ~(Buffered > 0) OBVIOUS
  <2>3. ReaderIsTold' BY <2>6, <2>7 DEF ReaderIsTold
  <2>4. WriterHolds' BY <1>7 DEF WaitForMore, CinTypeOK, WriterHolds, Writers
  <2>5. ReaderHolds' BY <1>7 DEF WaitForMore, CinTypeOK, ReaderHolds, Readers
  <2> QED BY <2>1, <2>2, <2>3, <2>4, <2>5
<1>8. CASE EndOrTake
  <2>0. /\ UNCHANGED <<write_pos, read_pos, buf, eof, read_ready, registered, write_ready, writer, told, sees, asked>>
        /\ \/ reader' = "out" /\ avail' = avail
           \/ reader' = "take" /\ avail' = IF asked < Buffered THEN asked ELSE Buffered
    BY <1>8 DEF EndOrTake
  <2>1. UnreadIsIntact' BY <2>0, UnreadStays
  <2>2. /\ write_pos \in Nat /\ read_pos \in Nat /\ avail \in Nat /\ asked \in Nat /\ asked <= MaxAsked
        /\ avail <= write_pos - read_pos /\ read_pos <= write_pos
    BY DEF CinTypeOK
  <2>3. avail' \in 0..Buffered /\ (reader' = "take" => avail' <= asked) BY <2>0, <2>2
  <2>4. CinTypeOK' BY <2>0, <2>3 DEF CinTypeOK
  <2>5. ReaderIsTold' BY <2>0 DEF ReaderIsTold
  <2>6. WriterHolds' BY <2>0 DEF WriterHolds
  <2>7. ReaderHolds' BY <2>0, <2>3 DEF ReaderHolds, Readers
  <2> QED BY <2>1, <2>4, <2>5, <2>6, <2>7
<1>9. CASE Take
  <2>0. /\ reader \in {"take", "take some"} /\ avail > 0 /\ read_pos' = read_pos + 1 /\ avail' = avail - 1
        /\ reader = "take" => asked' = asked - 1
        /\ reader # "take" => asked' = asked
        /\ reader' \in {"taken", "out"} \/ reader' = reader
        /\ UNCHANGED <<write_pos, buf, eof, read_ready, registered, write_ready, writer, told, sees>>
    BY <1>9 DEF Take
  <2>1. UnreadIsIntact' BY <2>0, UnreadStays
  <2>2. /\ write_pos \in Nat /\ read_pos \in Nat /\ avail \in Nat /\ asked \in Nat /\ asked <= MaxAsked
        /\ avail <= write_pos - read_pos
    BY DEF CinTypeOK
  <2>3. /\ read_pos' \in 0..write_pos' /\ Buffered' <= Size /\ avail' \in 0..Buffered' /\ asked' \in 0..MaxAsked
        /\ Buffered' < Buffered /\ (reader = "take" => avail' <= asked')
    <3>1. write_pos' = write_pos /\ read_pos' = read_pos + 1 /\ avail' = avail - 1 /\ avail > 0 BY <2>0
    <3>2. write_pos - read_pos <= Size /\ Size \in Nat BY DEF CinTypeOK
    <3>3. /\ read_pos' \in 0..write_pos' /\ avail' \in 0..write_pos' - read_pos'
          /\ write_pos' - read_pos' < write_pos - read_pos
      BY <2>2, <3>1, SMTT(60)
    <3>4. asked' \in 0..MaxAsked /\ (reader = "take" => avail' <= asked')
      <4>1. CASE reader = "take"
        <5>1. asked' = asked - 1 /\ avail <= asked BY <2>0, <4>1 DEF ReaderHolds
        <5> QED BY <2>2, <3>1, <5>1
      <4>2. CASE reader # "take"
        <5>1. asked' = asked BY <2>0, <4>2
        <5>2. asked \in 0..MaxAsked BY DEF CinTypeOK
        <5> QED BY <4>2, <5>1, <5>2
      <4> QED BY <4>1, <4>2
    <3>5. write_pos' - read_pos' <= Size BY <2>2, <3>1, <3>2
    <3> QED BY <3>3, <3>4, <3>5
  <2>4. CinTypeOK' BY <2>0, <2>3 DEF CinTypeOK
  <2>5. reader' # "wait" BY <2>0
  <2>6. ReaderIsTold' BY <2>5 DEF ReaderIsTold
  <2>7. ASSUME writer \in {"put", "publish"} PROVE Buffered' < Size
    <3>1. write_pos - read_pos < Size BY <2>7 DEF WriterHolds
    <3>2. write_pos' = write_pos /\ read_pos' = read_pos + 1 BY <2>0
    <3> QED BY <2>2, <3>1, <3>2
  <2>8. WriterHolds' BY <2>0, <2>7 DEF WriterHolds
  <2>9. ReaderHolds' BY <2>0, <2>3 DEF ReaderHolds, Readers
  <2> QED BY <2>1, <2>4, <2>6, <2>8, <2>9
<1>10. CASE Release
  <2>1. UnreadIsIntact' BY <1>10, UnreadStays DEF Release
  <2>2. CinTypeOK' BY <1>10 DEF Release, CinTypeOK, WriterHolds, ReaderHolds
  <2>3. ReaderIsTold' BY <1>10 DEF Release, ReaderIsTold, WriterHolds, ReaderHolds
  <2>4. WriterHolds' BY <1>10 DEF Release, CinTypeOK, WriterHolds, Writers
  <2>5. ReaderHolds' BY <1>10 DEF Release, CinTypeOK, ReaderHolds, Readers
  <2> QED BY <2>1, <2>2, <2>3, <2>4, <2>5
<1> QED BY <1>1, <1>2, <1>3, <1>4, <1>5, <1>6, <1>7, <1>8, <1>9, <1>10 DEF CinNext, WriterStep, ReaderStep

\* What was read of std::cin and not yet taken lies in the ring, not overwritten and not published
\* early; a reader that waits beside bytes will be told.
THEOREM InputStaysIntact == CinSpec => []InputIsIntact
<1>1. CinInductive => InputIsIntact BY DEF CinInductive, InputIsIntact
<1> QED BY <1>1, CinStart, CinStep, PTL DEF CinSpec
----
(* A websocket client: what each handler left behind, by the state of the peer. *)

Dialling == /\ asio = "idle" /\ work = <<>> /\ connection # TRUE /\ down = "none" /\ emitted = 0
            /\ refused # TRUE
            /\ IF peer = "none" THEN caller = "out" /\ connected = "none"
                                ELSE caller = "connecting" /\ connected = "pending"

\* connect() returns while messages come.
Talking == /\ asio \in {"opening", "idle", "message", "message done"} /\ emitted = 0
           /\ IF asio = "opening" THEN caller = "connecting" /\ connected = "pending" /\ down = "none"
                                  ELSE connected = "value" /\ down = "pending"
           /\ caller \in {"connecting", "connected"} /\ connection = TRUE /\ refused # TRUE

\* The connection closes: the destructor asked for it and waits for the close handler, or it is
\* refused, or has not begun.
Parting == /\ asio \in {"idle", "message", "message done"} /\ emitted = 0
           /\ connected = "value" /\ down = "pending"
           /\ caller \in {"connecting", "connected", "closing", "gone", "terminated"}
           /\ caller \in {"gone", "terminated"} <=> refused = TRUE
           /\ connection = TRUE <=> tls = TRUE \/ caller # "closing"

Failed == /\ asio \in {"failing", "idle"} /\ work = <<>> /\ down = "none"
          /\ connection # TRUE /\ caller \in {"connecting", "failed", "gone"} /\ emitted = 0
          /\ refused # TRUE

\* The close handler has posted its task, the task has run, and the handler has told the destructor.
Ending == /\ connected = "value" /\ asio \in {"close", "close done", "idle"}
          /\ caller \in {"connecting", "connected", "closing", "gone", "terminated"}
          /\ refused = TRUE <=> asio = "close" /\ caller \in {"gone", "terminated"}
          /\ caller = "terminated" => asio = "close"
          /\ connection = TRUE <=> asio = "close" /\ (tls = TRUE \/ caller # "closing")
          /\ down = IF asio = "idle" THEN "set" ELSE "pending"
          /\ emitted \in {0, 1} /\ (asio = "close" => emitted = 0)
          /\ tls # TRUE /\ asio # "close" /\ caller \in {"connecting", "connected"} => emitted = 1

WorkTasks == {"message", "on_message", "close"}

\* The task of the handler comes last, behind no more than one on_message().
WorkIs(kind) == /\ Len(work) \in {1, 2} /\ work[Len(work)] = kind
                /\ Len(work) = 2 => work[1] = "on_message"

WcDomains == /\ tls \in BOOLEAN /\ connection \in BOOLEAN /\ shutting \in BOOLEAN /\ refused \in BOOLEAN
             /\ received \in 0..MaxReceived
             /\ work \in Seq(WorkTasks)

WcPhases == /\ peer \in {"none", "dialled", "open", "closing", "closed"}
            /\ peer \in {"none", "dialled"} => Dialling
            /\ peer = "open" => Talking
            /\ peer = "closing" => Parting
            /\ peer = "closed" /\ connected = "exception" => Failed
            /\ peer = "closed" /\ connected # "exception" => Ending

WorkIsKnown ==
  /\ \A kind \in {"message", "close"} : asio = kind => WorkIs(kind)
  /\ asio \in {"opening", "failing", "close done"} => work = <<>>
  /\ asio \in {"idle", "message done"} /\ work # <<>> =>
       peer \in {"open", "closing"} /\ Len(work) = 1 /\ WorkIs("on_message")

WcInductive == WcDomains /\ WcPhases /\ WorkIsKnown

\* How the queue of the client's thread changes.
LEMMA WorkMoves ==
  ASSUME NEW q \in Seq(WorkTasks)
  PROVE  /\ \A k \in WorkTasks : /\ Append(q, k) \in Seq(WorkTasks) /\ Len(Append(q, k)) = Len(q) + 1
                                 /\ Append(q, k)[Len(q) + 1] = k
                                 /\ \A i \in 1..Len(q) : Append(q, k)[i] = q[i]
         /\ q # <<>> => /\ Tail(q) \in Seq(WorkTasks) /\ Len(Tail(q)) = Len(q) - 1
                        /\ Head(q) = q[1] /\ \A i \in 1..Len(q) - 1 : Tail(q)[i] = q[i + 1]
         /\ Len(q) \in Nat /\ (Len(q) = 0 <=> q = <<>>)
         /\ \A i \in 1..Len(q) : q[i] \in WorkTasks
BY DEF WorkTasks

LEMMA AsioIs ==
  WcPhases => asio \in {"idle", "opening", "failing", "message", "close", "message done", "close done"}
BY DEF WcPhases, Dialling, Talking, Parting, Failed, Ending

\* What the client's thread takes up next, and what is behind it.
LEMMA FirstTask ==
  ASSUME WcInductive, work # <<>>
  PROVE  /\ Head(work) \in {"message", "close"} => asio = Head(work) /\ Len(work) = 1
         /\ Head(work) = "on_message" /\ Len(work) = 1 => asio \in {"idle", "message done"} /\ peer \in {"open", "closing"}
         /\ Head(work) = "on_message" /\ Len(work) # 1 =>
               Len(work) = 2 /\ asio \in {"message", "close"} /\ work[2] = asio
<1>1. /\ Len(work) \in Nat /\ Len(work) # 0 /\ Head(work) = work[1]
  BY WorkMoves DEF WcInductive, WcDomains
<1>2. CASE asio \in {"message", "close"}
  <2>1. WorkIs(asio) BY <1>2 DEF WcInductive, WorkIsKnown
  <2> QED BY <1>1, <1>2, <2>1 DEF WorkIs
<1>3. CASE asio \in {"idle", "message done"}
  <2>1. peer \in {"open", "closing"} /\ Len(work) = 1 /\ WorkIs("on_message") BY <1>3 DEF WcInductive, WorkIsKnown
  <2> QED BY <1>1, <1>3, <2>1 DEF WorkIs
<1>4. asio \notin {"opening", "failing", "close done"} BY DEF WcInductive, WorkIsKnown
<1> QED BY <1>2, <1>3, <1>4, AsioIs DEF WcInductive

LEMMA WorkStays ==
  ASSUME WcInductive, UNCHANGED work,
         \/ work = <<>> /\ asio' \notin {"message", "close"}
         \/ peer' = peer /\ asio' = asio
         \/ peer = "open" /\ peer' = "closing" /\ asio' = asio
         \/ peer' = peer /\ asio \in {"idle", "message done"} /\ asio' \in {"idle", "message done"}
  PROVE  WorkIsKnown'
BY DEF WcInductive, WorkIsKnown, WorkIs

LEMMA ClientStart == WcInit => WcInductive
<1>1. ASSUME WcInit PROVE WcDomains
  <2>1. tls \in BOOLEAN /\ connection \in BOOLEAN /\ shutting \in BOOLEAN /\ refused \in BOOLEAN
    BY <1>1, Zenon DEF WcInit
  <2>2. received \in 0..MaxReceived /\ work \in Seq(WorkTasks) BY <1>1, WcAssumption DEF WcInit
  <2> QED BY <2>1, <2>2 DEF WcDomains
<1>2. WcInit => connection # TRUE /\ refused # TRUE BY Zenon DEF WcInit
<1>3. WcInit => WcPhases BY <1>2 DEF WcInit, WcPhases, Dialling
<1>4. WcInit => WorkIsKnown BY DEF WcInit, WorkIsKnown
<1> QED BY <1>1, <1>3, <1>4 DEF WcInductive

LEMMA ConnectKeeps == WcInductive /\ Connect => WcInductive'
<1> SUFFICES ASSUME WcInductive, Connect PROVE WcInductive' OBVIOUS
<1>1. WcDomains' BY DEF WcInductive, WcDomains, Connect, userVars
<1>2. WcPhases' BY DEF WcInductive, WcPhases, Dialling, Talking, Parting, Failed, Ending, Connect, CallerGoes, userVars
<1>3. peer' = peer \/ (work = <<>> /\ asio' \notin {"message", "close"})
  BY DEF WcInductive, WcPhases, Dialling, Talking, Parting, Failed, Ending, Connect, CallerGoes, userVars
<1>4. WorkIsKnown' BY <1>3, WorkStays DEF Connect
<1> QED BY <1>1, <1>2, <1>4 DEF WcInductive

LEMMA DestroyClientKeeps == WcInductive /\ DestroyClient => WcInductive'
<1> SUFFICES ASSUME WcInductive, DestroyClient PROVE WcInductive' OBVIOUS
<1>1. UNCHANGED <<tls, connected, received, emitted, asio, work, down>>
  BY Zenon DEF DestroyClient, userVars
<1>2. WcDomains'
  <2>1. (tls \in BOOLEAN /\ connection \in BOOLEAN /\ shutting \in BOOLEAN /\ refused \in BOOLEAN)'
    BY Zenon DEF WcInductive, WcDomains, DestroyClient, userVars
  <2>2. (received \in 0..MaxReceived /\ work \in Seq(WorkTasks))' BY <1>1 DEF WcInductive, WcDomains
  <2> QED BY <2>1, <2>2 DEF WcDomains
<1>3. \/ caller \in {"connected", "failed"} /\ connection # TRUE /\ caller' = "gone" /\ UNCHANGED <<peer, connection, refused>>
      \/ /\ caller \in {"connected", "failed"} /\ connection = TRUE /\ peer = "open" /\ peer' = "closing"
         /\ caller' = "closing" /\ connection' = tls /\ UNCHANGED refused
      \/ /\ caller \in {"connected", "failed"} /\ connection = TRUE /\ peer # "open" /\ caller' \in {"gone", "terminated"}
         /\ refused' = TRUE /\ UNCHANGED <<peer, connection>>
      \/ caller = "closing" /\ down = "set" /\ caller' = "gone" /\ UNCHANGED <<peer, connection, refused>>
  BY Zenon DEF DestroyClient, CallerGoes, userVars
<1>4. WcPhases'
  <2>1. CASE caller \in {"connected", "failed"} /\ connection # TRUE /\ caller' = "gone" /\ UNCHANGED <<peer, connection, refused>>
    BY <1>1, <2>1 DEF WcInductive, WcPhases, Dialling, Talking, Parting, Failed, Ending
  <2>2. CASE /\ caller \in {"connected", "failed"} /\ connection = TRUE /\ peer = "open" /\ peer' = "closing"
             /\ caller' = "closing" /\ connection' = tls /\ UNCHANGED refused
    BY <1>1, <2>2 DEF WcInductive, WcPhases, Dialling, Talking, Parting, Failed, Ending
  <2>3. CASE /\ caller \in {"connected", "failed"} /\ connection = TRUE /\ peer # "open" /\ caller' \in {"gone", "terminated"}
             /\ refused' = TRUE /\ UNCHANGED <<peer, connection>>
    BY <1>1, <2>3 DEF WcInductive, WcPhases, Dialling, Talking, Parting, Failed, Ending
  <2>4. CASE caller = "closing" /\ down = "set" /\ caller' = "gone" /\ UNCHANGED <<peer, connection, refused>>
    BY <1>1, <2>4 DEF WcInductive, WcPhases, Dialling, Talking, Parting, Failed, Ending
  <2> QED BY <1>3, <2>1, <2>2, <2>3, <2>4, Zenon
<1>5. WorkIsKnown' BY <1>1, <1>3, WorkStays
<1> QED BY <1>2, <1>4, <1>5 DEF WcInductive

LEMMA PeerEndsKeeps == WcInductive /\ PeerEnds => WcInductive'
<1> SUFFICES ASSUME WcInductive, PeerEnds PROVE WcInductive' OBVIOUS
<1>1. /\ peer = "open" /\ peer' = "closing" /\ asio = "idle"
      /\ UNCHANGED <<tls, caller, connected, received, emitted, refused, asio, work, down, connection, shutting>>
  BY Zenon DEF PeerEnds, userVars
<1>2. WcDomains' BY <1>1 DEF WcInductive, WcDomains
<1>3. WcPhases' BY <1>1 DEF WcInductive, WcPhases, Talking, Parting
<1>4. WorkIsKnown' BY <1>1, WorkStays
<1> QED BY <1>2, <1>3, <1>4 DEF WcInductive

LEMMA OpenHandlerKeeps == WcInductive /\ OpenHandler => WcInductive'
<1> SUFFICES ASSUME WcInductive, OpenHandler PROVE WcInductive' OBVIOUS
<1>1. WcDomains'
  <2>1. (tls \in BOOLEAN /\ connection \in BOOLEAN /\ shutting \in BOOLEAN /\ refused \in BOOLEAN)'
    BY Zenon DEF WcInductive, WcDomains, OpenHandler, userVars
  <2>2. (received \in 0..MaxReceived /\ work \in Seq(WorkTasks))' BY DEF WcInductive, WcDomains, OpenHandler, userVars
  <2> QED BY <2>1, <2>2 DEF WcDomains
<1>2. WcPhases' BY DEF WcInductive, WcPhases, Dialling, Talking, Parting, Failed, Ending, OpenHandler, userVars
<1>3. work = <<>> BY DEF WcInductive, WcPhases, Dialling, WorkIsKnown, OpenHandler
<1>4. WorkIsKnown' BY <1>3, WorkStays DEF OpenHandler
<1> QED BY <1>1, <1>2, <1>4 DEF WcInductive

LEMMA FailHandlerKeeps == WcInductive /\ FailHandler => WcInductive'
<1> SUFFICES ASSUME WcInductive, FailHandler PROVE WcInductive' OBVIOUS
<1>1. WcDomains' BY DEF WcInductive, WcDomains, FailHandler, userVars
<1>2. work = <<>> BY DEF WcInductive, WcPhases, Dialling, WorkIsKnown, FailHandler
<1>3. WcPhases' BY <1>2 DEF WcInductive, WcPhases, Dialling, Talking, Parting, Failed, Ending, FailHandler, userVars
<1>4. WorkIsKnown' BY <1>2, WorkStays DEF FailHandler
<1> QED BY <1>1, <1>3, <1>4 DEF WcInductive

LEMMA HandlerReturnsKeeps == WcInductive /\ HandlerReturns => WcInductive'
<1> SUFFICES ASSUME WcInductive, HandlerReturns PROVE WcInductive' OBVIOUS
<1>1. WcDomains' BY DEF WcInductive, WcDomains, HandlerReturns, userVars
<1>2. WcPhases' BY DEF WcInductive, WcPhases, Dialling, Talking, Parting, Failed, Ending, HandlerReturns, userVars
<1>3. WorkIsKnown'
  <2>1. asio = "close done" => work = <<>> BY DEF WcInductive, WorkIsKnown
  <2> QED BY <2>1, WorkStays DEF HandlerReturns
<1> QED BY <1>1, <1>2, <1>3 DEF WcInductive

LEMMA MessageHandlerKeeps == WcInductive /\ MessageHandler => WcInductive'
<1> SUFFICES ASSUME WcInductive, MessageHandler PROVE WcInductive' OBVIOUS
<1>1. WcDomains' BY WorkMoves, WcAssumption DEF WcInductive, WcDomains, WorkTasks, MessageHandler, Post, userVars
<1>2. WcPhases' BY WorkMoves DEF WcInductive, WcPhases, WcDomains, WorkIsKnown, WorkIs, Dialling, Talking, Parting, Failed, Ending, MessageHandler, Post, userVars
<1>3. WorkIsKnown' BY WorkMoves DEF WcInductive, WcDomains, WcPhases, WorkIsKnown, WorkIs, WorkTasks, Dialling, Talking, Parting, Failed, Ending, MessageHandler, Post, userVars
<1> QED BY <1>1, <1>2, <1>3 DEF WcInductive

LEMMA CloseHandlerKeeps == WcInductive /\ CloseHandler => WcInductive'
<1> SUFFICES ASSUME WcInductive, CloseHandler PROVE WcInductive' OBVIOUS
<1>1. peer = "closing" /\ asio = "idle" /\ (tls = TRUE => connection = TRUE)
  BY DEF CloseHandler, WcInductive, WcPhases, Parting
<1>2. /\ work' = Append(work, "close") /\ asio' = "close" /\ peer' = "closed"
      /\ UNCHANGED <<userVars, caller, down, connection, shutting>>
  <2>1. tls \in BOOLEAN BY Zenon DEF WcInductive, WcDomains
  <2> QED BY <1>1, <2>1, Zenon DEF CloseHandler, Post
<1>3. WcDomains' BY <1>2, WorkMoves DEF WcInductive, WcDomains, WorkTasks, userVars
<1>4. WcPhases' BY <1>1, <1>2 DEF WcInductive, WcPhases, Parting, Ending, userVars
<1>5. WorkIsKnown' BY <1>1, <1>2, WorkMoves DEF WcInductive, WcDomains, WorkIsKnown, WorkIs, WorkTasks
<1> QED BY <1>3, <1>4, <1>5 DEF WcInductive

LEMMA ClientMessageKeeps == WcInductive /\ ClientMessage => WcInductive'
<1> SUFFICES ASSUME WcInductive, ClientMessage PROVE WcInductive' OBVIOUS
<1>1. /\ work # <<>>
      /\ \/ Head(work) = "message" /\ asio' = "message done" /\ work' \in {Tail(work), Append(Tail(work), "on_message")}
         \/ Head(work) = "on_message" /\ work' = Tail(work) /\ asio' = asio
      /\ UNCHANGED <<userVars, caller, peer, down, connection, shutting>>
  BY Zenon DEF ClientMessage, Works
<1>2. /\ Tail(work) \in Seq(WorkTasks) /\ Len(Tail(work)) = Len(work) - 1 /\ Head(work) = work[1]
      /\ \A i \in 1..Len(work) - 1 : Tail(work)[i] = work[i + 1]
  BY <1>1, WorkMoves DEF WcInductive, WcDomains
<1>3. /\ Append(Tail(work), "on_message") \in Seq(WorkTasks)
      /\ Len(work) = 1 => /\ Len(Append(Tail(work), "on_message")) = 1 /\ Append(Tail(work), "on_message")[1] = "on_message"
                          /\ Tail(work) = <<>>
  BY <1>2, WorkMoves DEF WorkTasks
<1>4. WcDomains' BY <1>1, <1>2, <1>3 DEF WcInductive, WcDomains, userVars
<1>5. CASE Head(work) = "message"
  <2>1. asio = "message" /\ Len(work) = 1 BY <1>1, <1>5, FirstTask
  <2>2. peer \in {"open", "closing"} BY <2>1 DEF WcInductive, WcPhases, Dialling, Failed, Ending
  <2>3. WcPhases' BY <1>1, <1>5, <2>1, <2>2 DEF WcInductive, WcPhases, Talking, Parting, userVars
  <2>4. asio' = "message done" /\ peer' \in {"open", "closing"} /\ (work' = <<>> \/ (Len(work') = 1 /\ work'[1] = "on_message"))
    BY <1>1, <1>3, <1>5, <2>1, <2>2 DEF userVars
  <2> QED BY <1>4, <2>3, <2>4 DEF WcInductive, WorkIsKnown, WorkIs
<1>6. CASE Head(work) = "on_message"
  <2>1. work' = Tail(work) /\ asio' = asio BY <1>1, <1>6
  <2>2. WcPhases' BY <1>1, <2>1 DEF WcInductive, WcPhases, Dialling, Talking, Parting, Failed, Ending, userVars
  <2>3. CASE Len(work) = 1
    <3>1. work' = <<>> /\ asio \in {"idle", "message done"} BY <1>1, <1>3, <1>6, <2>1, <2>3, FirstTask
    <3> QED BY <1>4, <2>1, <2>2, <3>1 DEF WcInductive, WorkIsKnown
  <2>4. CASE Len(work) # 1
    <3>1. Len(work) = 2 /\ asio \in {"message", "close"} /\ work[2] = asio BY <1>1, <1>6, <2>4, FirstTask
    <3>2. Len(work') = 1 /\ work'[1] = asio BY <1>2, <2>1, <3>1
    <3> QED BY <1>4, <2>1, <2>2, <3>1, <3>2 DEF WcInductive, WorkIsKnown, WorkIs
  <2> QED BY <2>3, <2>4
<1> QED BY <1>1, <1>5, <1>6

LEMMA ClientClosedKeeps == WcInductive /\ ClientClosed => WcInductive'
<1> SUFFICES ASSUME WcInductive, ClientClosed PROVE WcInductive' OBVIOUS
<1>1. /\ work # <<>> /\ Head(work) = "close" /\ work' = Tail(work) /\ asio' = "close done"
      /\ connection' = FALSE /\ emitted' \in {emitted, emitted + 1}
      /\ connection = TRUE /\ tls = FALSE => emitted' = emitted + 1
      /\ caller \notin {"gone", "terminated"}
      /\ UNCHANGED <<tls, caller, peer, connected, down, shutting, received, refused>>
  BY Zenon DEF ClientClosed, Works
<1>2. asio = "close" /\ Len(work) = 1 BY <1>1, FirstTask
<1>3. work' \in Seq(WorkTasks) /\ Len(work') = 0
  <2>1. Tail(work) \in Seq(WorkTasks) /\ Len(Tail(work)) = Len(work) - 1 BY <1>1, WorkMoves DEF WcInductive, WcDomains
  <2>2. Len(Tail(work)) = 0 BY <1>2, <2>1
  <2> QED BY <1>1, <2>1, <2>2, Zenon
<1>4. WcDomains'
  <2>1. (tls \in BOOLEAN /\ connection \in BOOLEAN /\ shutting \in BOOLEAN /\ refused \in BOOLEAN)'
    BY <1>1, Zenon DEF WcInductive, WcDomains
  <2>2. received' \in 0..MaxReceived BY <1>1 DEF WcInductive, WcDomains
  <2> QED BY <1>3, <2>1, <2>2 DEF WcDomains
<1>5. peer = "closed" /\ connected # "exception" /\ Ending
  BY <1>2 DEF WcInductive, WcPhases, Dialling, Talking, Parting, Failed
<1>6. emitted = 0 /\ (emitted' = emitted \/ emitted' = emitted + 1)
  <2>1. emitted = 0 BY <1>2, <1>5 DEF Ending
  <2> QED BY <1>1, <2>1
<1>7. emitted' = 0 \/ emitted' = 1 BY <1>6
<1>8. ASSUME tls # TRUE, caller \in {"connecting", "connected"} PROVE emitted' = 1
  <2>1. connection = TRUE BY <1>2, <1>5, <1>8 DEF Ending
  <2>2. tls = FALSE BY <1>8, Zenon DEF WcInductive, WcDomains
  <2>3. emitted' = emitted + 1 BY <1>1, <2>1, <2>2, Zenon
  <2> QED BY <1>6, <2>3
<1>9. Ending' BY <1>1, <1>2, <1>5, <1>7, <1>8 DEF Ending
<1>10. WcPhases' BY <1>1, <1>5, <1>9 DEF WcPhases
<1>11. WorkIsKnown'
  <2>1. work' = <<>> BY <1>3
  <2> QED BY <1>1, <2>1 DEF WorkIsKnown
<1> QED BY <1>4, <1>10, <1>11 DEF WcInductive

LEMMA ClientAlways == WcSpec => []WcInductive
<1>1. WcInductive /\ UNCHANGED wcVars => WcInductive'
  BY DEF WcInductive, WcDomains, WcPhases, WorkIsKnown, Dialling, Talking, Parting, Failed, Ending, WorkIs, wcVars
<1>2. WcInductive /\ [WcNext]_wcVars => WcInductive'
  BY <1>1, ConnectKeeps, DestroyClientKeeps, OpenHandlerKeeps, FailHandlerKeeps, HandlerReturnsKeeps,
     MessageHandlerKeeps, CloseHandlerKeeps, ClientMessageKeeps, ClientClosedKeeps, PeerEndsKeeps
  DEF WcNext, ClientStep, AsioStep
<1> QED BY <1>2, ClientStart, PTL DEF WcSpec

LEMMA ClientIsGuarded == WcSpec => [](WcTypeOK /\ CloseIsEmitted /\ NoTaskOutlivesClient)
<1>1. ASSUME WcInductive PROVE WcTypeOK
  <2>1. tls \in BOOLEAN /\ connection \in BOOLEAN /\ shutting \in BOOLEAN /\ refused \in BOOLEAN
    BY <1>1, Zenon DEF WcInductive, WcDomains
  <2>2. Len(work) \in Nat /\ DOMAIN work = 1..Len(work) /\ \A i \in 1..Len(work) : work[i] \in WorkTasks
    BY <1>1 DEF WcInductive, WcDomains
  <2>3. ASSUME NEW k \in {"message", "close"}, asio = k PROVE \E i \in DOMAIN work : work[i] = k
    <3>1. WorkIs(k) BY <1>1, <2>3 DEF WcInductive, WorkIsKnown
    <3>2. Len(work) \in DOMAIN work BY <2>2, <3>1 DEF WorkIs
    <3> QED BY <3>1, <3>2 DEF WorkIs
  <2>4. ASSUME NEW k \in {"message", "close"}, NEW i \in DOMAIN work, work[i] = k PROVE asio = k
    <3>1. work # <<>> /\ Head(work) = work[1] BY <1>1, <2>2, <2>4, WorkMoves DEF WcInductive, WcDomains
    <3>2. work[1] \in WorkTasks BY <2>2, <2>4
    <3>3. CASE work[1] # "on_message"
      <4>1. asio = work[1] /\ Len(work) = 1 BY <1>1, <3>1, <3>2, <3>3, FirstTask DEF WorkTasks
      <4> QED BY <2>2, <2>4, <4>1
    <3>4. CASE work[1] = "on_message"
      <4>1. i # 1 /\ Len(work) # 1 BY <2>2, <2>4, <3>4
      <4>2. Len(work) = 2 /\ work[2] = asio BY <1>1, <2>2, <3>1, <3>4, <4>1, FirstTask
      <4> QED BY <2>2, <2>4, <4>1, <4>2
    <3> QED BY <3>3, <3>4
  <2>5. /\ caller \in {"out", "connecting", "connected", "failed", "closing", "gone", "terminated"}
        /\ peer \in {"none", "dialled", "open", "closing", "closed"}
        /\ connected \in {"none", "pending", "value", "exception"} /\ down \in {"none", "pending", "set"}
    BY <1>1 DEF WcInductive, WcPhases, Dialling, Talking, Parting, Failed, Ending
  <2>6. emitted \in {0, 1} BY <1>1 DEF WcInductive, WcPhases, Dialling, Talking, Parting, Failed, Ending
  <2>7. emitted \in 0..1 /\ received \in 0..MaxReceived BY <1>1, <2>6 DEF WcInductive, WcDomains
  <2> QED BY <1>1, <2>1, <2>2, <2>3, <2>4, <2>5, <2>7, AsioIs, Zenon DEF WcInductive, WcTypeOK, WorkTasks
<1>2. ASSUME WcInductive PROVE CloseIsEmitted
  <2>1. tls \in BOOLEAN /\ connection \in BOOLEAN BY <1>2, Zenon DEF WcInductive, WcDomains
  <2>2. peer = "closed" /\ asio = "idle" /\ caller = "connected" /\ connected = "value" /\ tls = FALSE => emitted = 1
    BY <1>2 DEF WcInductive, WcPhases, Failed, Ending
  <2>3. connection = TRUE => emitted = 0
    BY <1>2 DEF WcInductive, WcPhases, Dialling, Talking, Parting, Failed, Ending
  <2>4. emitted = 1 => emitted # 0 OBVIOUS
  <2>5. (~tls => tls = FALSE) /\ (connection # TRUE => ~connection) BY <2>1, Zenon
  <2> QED BY <2>2, <2>3, <2>4, <2>5, Zenon DEF CloseIsEmitted
<1>3. ASSUME WcInductive PROVE NoTaskOutlivesClient
  <2>1. caller = "gone" /\ refused # TRUE => work = <<>>
    BY <1>3 DEF WcInductive, WcPhases, WorkIsKnown, Dialling, Talking, Parting, Failed, Ending
  <2> QED BY <2>1, Zenon DEF NoTaskOutlivesClient
<1> QED BY <1>1, <1>2, <1>3, ClientAlways, PTL
----
(* The websocket server. Its handlers wait for the tasks they post, so that the queue tells what
   every connection is about; a message is delivered before what its connection does next. *)

ServerTasks == [kind : Kinds \cup {"deliver", "on_http"}, conn : Peers]

\* No task is queued twice, and what a message left to deliver is ahead of what comes of its connection.
Ordered(q) ==
  /\ \A i, j \in 1..Len(q) : q[i] = q[j] => i = j
  /\ \A i, j \in 1..Len(q) : q[i].kind = "deliver" /\ q[j].kind \in Kinds /\ q[i].conn = q[j].conn => i < j

\* Connections that a handler posted for up to place i, or that have a message to deliver behind it.
Crowd(q, i) == {c \in Peers : \/ \E j \in 1..Len(q) : j <= i /\ q[j].kind \in Kinds /\ q[j].conn = c
                              \/ \E j \in 1..Len(q) : j > i /\ q[j] = Task("deliver", c)}

\* There are no more of them than asio threads: when the handler at i posted, all of them waited.
CrowdIsSmall(q) == \A i \in 0..Len(q) : IsFiniteSet(Crowd(q, i)) /\ Cardinality(Crowd(q, i)) <= AsioThreads

Due(q) == {c \in Peers : \E i \in 1..Len(q) : q[i] = Task("deliver", c)}

\* The websockets whose open handler has run.
Listed == {c \in Peers : life[c] \in {"open", "closing"} /\ handler[c] # "open"}

WsDomains ==
  /\ life \in [Peers -> {"away", "shaking", "open", "closing", "ended"}]
  /\ handler \in [Peers -> Kinds \cup {"none"}]
  /\ sent \in [Peers -> 0..MaxMessages] /\ tasks \in Seq(ServerTasks) /\ signals \in [Peers -> {0, 1}]
  /\ throttled \subseteq Peers /\ connections = Listed
  /\ closed \in {"none", "pending", "set"} /\ end \in {"alive", "stopped", "waiting", "gone", "terminated"}

\* What each connection's handler may be about.
LivesAgree == \A c \in Peers :
  /\ life[c] \in {"away", "ended"} => handler[c] = "none"
  /\ life[c] = "shaking" => handler[c] \in {"none", "http", "fail"}
  /\ life[c] = "open" => handler[c] \in {"none", "open", "message"}
  /\ life[c] = "closing" => handler[c] \in {"none", "message", "close"}
  /\ c \in throttled => handler[c] = "message"
  /\ life[c] # "ended" => signals[c] = 0

TasksAgree == \A i \in 1..Len(tasks) :
  /\ tasks[i].kind \in Kinds => handler[tasks[i].conn] = tasks[i].kind /\ tasks[i].conn \notin throttled
  /\ tasks[i].kind = "deliver" => life[tasks[i].conn] \in {"open", "closing"}
  /\ tasks[i].kind = "on_http" => life[tasks[i].conn] = "ended" /\ signals[tasks[i].conn] = 0

\* What the destructor has closed is all that there will be, but for what it missed.
EndAgrees == /\ end \in {"alive", "stopped"} => closed = "none"
             /\ closed = "set" \/ end = "gone" => connections \subseteq missed
             /\ end \in {"waiting", "gone"} => Coming \subseteq missed

FewRun == IsFiniteSet(Running) /\ Cardinality(Running) <= AsioThreads

PendingIsDue == IsFiniteSet(Due(tasks)) /\ pending = Cardinality(Due(tasks))

NotLate == late = FALSE

WsInductive == /\ WsDomains /\ LivesAgree /\ TasksAgree /\ Ordered(tasks) /\ CrowdIsSmall(tasks)
               /\ FewRun /\ PendingIsDue /\ EndAgrees /\ NotLate

\* Connections are only added to what the destructor has to know while it has not closed them.
LEMMA EndStays ==
  ASSUME EndAgrees, Coming' \subseteq Coming, connections' \subseteq connections, UNCHANGED <<closed, missed, end>>
  PROVE  EndAgrees'
BY DEF EndAgrees

\* The queue of the server's thread.
LEMMA QueueMoves ==
  ASSUME NEW q \in Seq(ServerTasks)
  PROVE  /\ \A x \in ServerTasks : /\ Append(q, x) \in Seq(ServerTasks) /\ Len(Append(q, x)) = Len(q) + 1
                                   /\ Append(q, x)[Len(q) + 1] = x
                                   /\ \A i \in 1..Len(q) : Append(q, x)[i] = q[i]
         /\ q # <<>> => /\ Tail(q) \in Seq(ServerTasks) /\ Len(Tail(q)) = Len(q) - 1 /\ Head(q) = q[1]
                        /\ Len(q) > 0 /\ \A i \in 1..Len(q) - 1 : Tail(q)[i] = q[i + 1]
         /\ Len(q) \in Nat /\ \A i \in 1..Len(q) : q[i] \in ServerTasks
OBVIOUS

LEMMA OrderedPosted ==
  ASSUME NEW q \in Seq(ServerTasks), NEW x \in ServerTasks, Ordered(q), \A i \in 1..Len(q) : q[i] # x,
         x.kind = "deliver" => \A i \in 1..Len(q) : ~(q[i].kind \in Kinds /\ q[i].conn = x.conn)
  PROVE  Ordered(Append(q, x))
BY QueueMoves DEF Ordered, Kinds

LEMMA OrderedTaken ==
  ASSUME NEW q \in Seq(ServerTasks), Ordered(q), q # <<>>
  PROVE  Ordered(Tail(q))
BY QueueMoves DEF Ordered

\* A crowd is small if it is part of one that is, or of the handlers that wait.
LEMMA PartIsSmall ==
  ASSUME NEW S, IsFiniteSet(S), Cardinality(S) <= AsioThreads, NEW T \in SUBSET S
  PROVE  IsFiniteSet(T) /\ Cardinality(T) <= AsioThreads
<1>1. IsFiniteSet(T) /\ Cardinality(T) <= Cardinality(S) BY FS_Subset
<1>2. Cardinality(T) \in Nat /\ Cardinality(S) \in Nat BY <1>1, FS_CardinalityType
<1> QED BY <1>1, <1>2, WsAssumption

\* A task of a handler that waits adds nobody else.
LEMMA CrowdPosted ==
  ASSUME NEW q \in Seq(ServerTasks), NEW x \in ServerTasks, CrowdIsSmall(q), x.kind \in Kinds,
         NEW R, IsFiniteSet(R), Cardinality(R) <= AsioThreads,
         \A i \in 1..Len(q) : q[i].kind \in Kinds => q[i].conn \in R, x.conn \in R
  PROVE  CrowdIsSmall(Append(q, x))
<1>1. \A i \in 0..Len(q) : Crowd(Append(q, x), i) \subseteq Crowd(q, i)
  BY QueueMoves DEF Crowd, Kinds, Task
<1>2. Crowd(Append(q, x), Len(q) + 1) \subseteq R BY QueueMoves DEF Crowd
<1>3. ASSUME NEW i \in 0..Len(Append(q, x)), NEW S, IsFiniteSet(S), Cardinality(S) <= AsioThreads,
             Crowd(Append(q, x), i) \subseteq S
      PROVE  IsFiniteSet(Crowd(Append(q, x), i)) /\ Cardinality(Crowd(Append(q, x), i)) <= AsioThreads
  BY <1>3, PartIsSmall
<1>4. \A i \in 0..Len(Append(q, x)) : i \in 0..Len(q) \/ i = Len(q) + 1 BY QueueMoves
<1> QED BY <1>1, <1>2, <1>3, <1>4 DEF CrowdIsSmall

LEMMA CrowdTaken ==
  ASSUME NEW q \in Seq(ServerTasks), CrowdIsSmall(q), q # <<>>
  PROVE  CrowdIsSmall(Tail(q))
<1>1. \A i \in 0..Len(Tail(q)) : i + 1 \in 0..Len(q) /\ Crowd(Tail(q), i) \subseteq Crowd(q, i + 1)
  BY QueueMoves DEF Crowd
<1> QED BY <1>1, PartIsSmall DEF CrowdIsSmall

LEMMA CrowdReplaced ==
  ASSUME NEW q \in Seq(ServerTasks), CrowdIsSmall(q), q # <<>>, NEW x \in ServerTasks, x.kind \notin Kinds,
         x.kind = "deliver" => Head(q).kind \in Kinds /\ Head(q).conn = x.conn
  PROVE  CrowdIsSmall(Append(Tail(q), x))
<1> DEFINE n == Append(Tail(q), x)
<1>1. /\ Len(n) = Len(q) /\ n[Len(q)] = x /\ \A i \in 1..Len(q) - 1 : n[i] = q[i + 1]
      /\ Len(q) \in Nat \ {0} /\ Head(q) = q[1]
  <2>1. /\ Tail(q) \in Seq(ServerTasks) /\ Len(Tail(q)) = Len(q) - 1 /\ Head(q) = q[1]
        /\ \A i \in 1..Len(q) - 1 : Tail(q)[i] = q[i + 1] /\ Len(q) \in Nat \ {0}
    BY QueueMoves
  <2> QED BY <2>1, QueueMoves
<1> HIDE DEF n
<1>2. ASSUME NEW i \in 0..Len(q) - 1, NEW c \in Crowd(n, i) PROVE c \in Crowd(q, i + 1)
  <2>1. CASE \E j \in 1..Len(n) : j <= i /\ n[j].kind \in Kinds /\ n[j].conn = c
    <3>1. PICK j \in 1..Len(n) : j <= i /\ n[j].kind \in Kinds /\ n[j].conn = c BY <2>1
    <3>2. j + 1 \in 1..Len(q) /\ j + 1 <= i + 1 /\ n[j] = q[j + 1] BY <1>1, <3>1
    <3> QED BY <1>2, <3>1, <3>2 DEF Crowd
  <2>2. CASE \E j \in 1..Len(n) : j > i /\ n[j] = Task("deliver", c)
    <3>1. PICK j \in 1..Len(n) : j > i /\ n[j] = Task("deliver", c) BY <2>2
    <3>2. CASE j < Len(q)
      <4>1. j + 1 \in 1..Len(q) /\ j + 1 > i + 1 /\ n[j] = q[j + 1] BY <1>1, <3>1, <3>2
      <4> QED BY <1>2, <3>1, <4>1 DEF Crowd
    <3>3. CASE j = Len(q)
      <4>1. x = Task("deliver", c) BY <1>1, <3>1, <3>3
      <4>2. q[1].kind \in Kinds /\ q[1].conn = c BY <1>1, <4>1 DEF Task
      <4>3. 1 \in 1..Len(q) /\ 1 <= i + 1 BY <1>1
      <4> QED BY <1>2, <4>2, <4>3 DEF Crowd
    <3> QED BY <1>1, <3>1, <3>2, <3>3
  <2> QED BY <1>2, <2>1, <2>2 DEF Crowd
<1>3. ASSUME NEW c \in Crowd(n, Len(q)) PROVE c \in Crowd(q, Len(q))
  <2>1. PICK j \in 1..Len(q) : n[j].kind \in Kinds /\ n[j].conn = c BY <1>1, <1>3 DEF Crowd
  <2>2. j # Len(q) BY <1>1, <2>1
  <2>3. j + 1 \in 1..Len(q) /\ j + 1 <= Len(q) /\ n[j] = q[j + 1] BY <1>1, <2>1, <2>2
  <2> QED BY <1>3, <2>1, <2>3 DEF Crowd
<1>4. ASSUME NEW i \in 0..Len(n) PROVE \E j \in 0..Len(q) : Crowd(n, i) \subseteq Crowd(q, j)
  <2>1. CASE i < Len(q)
    <3>1. i \in 0..Len(q) - 1 /\ i + 1 \in 0..Len(q) BY <1>1, <2>1
    <3> QED BY <1>2, <3>1
  <2>2. CASE i = Len(q)
    <3>1. Len(q) \in 0..Len(q) BY <1>1
    <3> QED BY <1>3, <2>2, <3>1
  <2> QED BY <1>1, <2>1, <2>2
<1>5. ASSUME NEW i \in 0..Len(n)
      PROVE  IsFiniteSet(Crowd(n, i)) /\ Cardinality(Crowd(n, i)) <= AsioThreads
  <2>1. PICK j \in 0..Len(q) : Crowd(n, i) \subseteq Crowd(q, j) BY <1>4
  <2>2. IsFiniteSet(Crowd(q, j)) /\ Cardinality(Crowd(q, j)) <= AsioThreads BY DEF CrowdIsSmall
  <2> QED BY <2>1, <2>2, PartIsSmall
<1> QED BY <1>5 DEF CrowdIsSmall, n

\* Whose message is to be delivered, after each change of the queue.
LEMMA DueIs ==
  ASSUME NEW q \in Seq(ServerTasks)
  PROVE  /\ \A x \in ServerTasks : x.kind # "deliver" => Due(Append(q, x)) = Due(q)
         /\ \A c \in Peers : Due(Append(q, Task("deliver", c))) = Due(q) \cup {c}
         /\ q # <<>> /\ Head(q).kind # "deliver" => Due(Tail(q)) = Due(q)
         /\ Ordered(q) => \A c \in Peers : q # <<>> /\ Head(q) = Task("deliver", c) =>
              c \in Due(q) /\ Due(Tail(q)) = Due(q) \ {c}
<1>1. \A c \in Peers : Task("deliver", c) \in ServerTasks BY DEF Task, ServerTasks
<1>2. ASSUME NEW x \in ServerTasks PROVE Due(Append(q, x)) = Due(q) \cup {c \in Peers : x = Task("deliver", c)}
  BY QueueMoves DEF Due
<1>3. \A x \in ServerTasks : x.kind # "deliver" => {c \in Peers : x = Task("deliver", c)} = {} BY DEF Task
<1>4. \A c \in Peers : {d \in Peers : Task("deliver", c) = Task("deliver", d)} = {c} BY DEF Task
<1>5. ASSUME q # <<>>
      PROVE  /\ Len(q) \in Nat \ {0} /\ Head(q) = q[1] /\ Len(Tail(q)) = Len(q) - 1
             /\ \A i \in 1..Len(q) - 1 : Tail(q)[i] = q[i + 1]
  BY <1>5, QueueMoves
<1>6. ASSUME q # <<>>, NEW c \in Peers PROVE c \in Due(Tail(q)) <=> \E i \in 1..Len(q) : i # 1 /\ q[i] = Task("deliver", c)
  <2>1. ASSUME NEW i \in 1..Len(q), i # 1, q[i] = Task("deliver", c) PROVE c \in Due(Tail(q))
    <3>1. i - 1 \in 1..Len(Tail(q)) /\ Tail(q)[i - 1] = q[i] BY <1>5, <1>6, <2>1
    <3> QED BY <2>1, <3>1 DEF Due
  <2>2. ASSUME c \in Due(Tail(q)) PROVE \E i \in 1..Len(q) : i # 1 /\ q[i] = Task("deliver", c)
    <3>1. PICK i \in 1..Len(Tail(q)) : Tail(q)[i] = Task("deliver", c) BY <2>2 DEF Due
    <3>2. i + 1 \in 1..Len(q) /\ i + 1 # 1 /\ Tail(q)[i] = q[i + 1] BY <1>5, <1>6, <3>1
    <3> QED BY <3>1, <3>2
  <2> QED BY <2>1, <2>2
<1>7. ASSUME q # <<>>, Head(q).kind # "deliver" PROVE Due(Tail(q)) = Due(q)
  <2>1. \A c \in Peers : q[1] # Task("deliver", c) BY <1>5, <1>7 DEF Task
  <2> QED BY <1>6, <1>7, <2>1 DEF Due
<1>8. ASSUME Ordered(q), NEW c \in Peers, q # <<>>, Head(q) = Task("deliver", c)
      PROVE  c \in Due(q) /\ Due(Tail(q)) = Due(q) \ {c}
  <2>1. 1 \in 1..Len(q) /\ q[1] = Task("deliver", c) BY <1>5, <1>8
  <2>2. \A i \in 1..Len(q) : i # 1 => q[i] # Task("deliver", c) BY <1>8, <2>1 DEF Ordered
  <2>3. \A d \in Peers : q[1] = Task("deliver", d) => d = c BY <2>1 DEF Task
  <2> QED BY <1>6, <1>8, <2>1, <2>2, <2>3 DEF Due
<1> QED BY <1>1, <1>2, <1>3, <1>4, <1>7, <1>8

\* What the connection of the first task is in, and that nothing else of it is queued.
LEMMA HeadIs ==
  ASSUME WsInductive, tasks # <<>>
  PROVE  /\ Len(tasks) \in Nat \ {0} /\ Head(tasks) = tasks[1] /\ Head(tasks) \in ServerTasks /\ Conn \in Peers
         /\ Head(tasks).kind \in Kinds =>
              /\ handler[Conn] = Head(tasks).kind /\ Conn \notin throttled
              /\ \A i \in 1..Len(tasks) : i # 1 => tasks[i].conn # Conn
         /\ Head(tasks).kind \in {"message", "deliver"} => life[Conn] \in {"open", "closing"}
         /\ Head(tasks).kind = "open" => life[Conn] = "open"
         /\ Head(tasks).kind = "close" => life[Conn] = "closing"
         /\ Head(tasks).kind \in {"http", "fail"} => life[Conn] = "shaking"
         /\ Head(tasks).kind = "on_http" => life[Conn] = "ended" /\ signals[Conn] = 0
<1>1. Len(tasks) \in Nat \ {0} /\ Head(tasks) = tasks[1] /\ 1 \in 1..Len(tasks) /\ Head(tasks) \in ServerTasks
  BY QueueMoves DEF WsInductive, WsDomains
<1>2. Conn \in Peers BY <1>1 DEF ServerTasks, Conn
<1>3. /\ Head(tasks).kind \in Kinds => handler[Conn] = Head(tasks).kind /\ Conn \notin throttled
      /\ Head(tasks).kind = "deliver" => life[Conn] \in {"open", "closing"}
      /\ Head(tasks).kind = "on_http" => life[Conn] = "ended" /\ signals[Conn] = 0
  BY <1>1 DEF WsInductive, TasksAgree, Conn
<1>4. life[Conn] \in {"away", "shaking", "open", "closing", "ended"} BY <1>2 DEF WsInductive, WsDomains
<1>5. /\ Head(tasks).kind = "message" => life[Conn] \in {"open", "closing"}
      /\ Head(tasks).kind = "open" => life[Conn] = "open"
      /\ Head(tasks).kind = "close" => life[Conn] = "closing"
      /\ Head(tasks).kind \in {"http", "fail"} => life[Conn] = "shaking"
  BY <1>2, <1>3, <1>4 DEF WsInductive, LivesAgree, Kinds
<1>6. ASSUME Head(tasks).kind \in Kinds, NEW i \in 1..Len(tasks), i # 1, tasks[i].conn = Conn PROVE FALSE
  <2>1. tasks[i] \in ServerTasks BY QueueMoves DEF WsInductive, WsDomains
  <2>2. CASE tasks[i].kind \in Kinds
    <3>1. tasks[i].kind = tasks[1].kind BY <1>1, <1>3, <1>6, <2>2 DEF WsInductive, TasksAgree
    <3>2. tasks[i] = tasks[1] BY <1>1, <1>6, <2>1, <3>1 DEF ServerTasks, Conn
    <3> QED BY <1>1, <1>6, <3>2 DEF WsInductive, Ordered
  <2>3. CASE tasks[i].kind = "deliver"
    <3>1. i < 1 BY <1>1, <1>6, <2>3 DEF WsInductive, Ordered, Conn
    <3> QED BY <3>1
  <2>4. CASE tasks[i].kind = "on_http"
    <3>1. life[Conn] = "ended" BY <1>6, <2>4 DEF WsInductive, TasksAgree
    <3> QED BY <1>5, <1>6, <3>1 DEF Kinds
  <2> QED BY <2>1, <2>2, <2>3, <2>4 DEF ServerTasks
<1> QED BY <1>1, <1>2, <1>3, <1>5, <1>6

LEMMA ServerStart == WsInit => WsInductive
<1> SUFFICES ASSUME WsInit PROVE WsInductive OBVIOUS
<1>1. tasks = <<>> /\ Len(tasks) = 0 /\ tasks \in Seq(ServerTasks) BY DEF WsInit
<1>2. WsDomains BY <1>1, WsAssumption DEF WsInit, WsDomains, Listed
<1>3. LivesAgree /\ EndAgrees BY DEF WsInit, LivesAgree, EndAgrees, Coming
<1>4. TasksAgree /\ Ordered(tasks) BY <1>1 DEF TasksAgree, Ordered
<1>5. Crowd(tasks, 0) = {} /\ Due(tasks) = {} BY <1>1 DEF Crowd, Due
<1>6. Running = {} BY DEF WsInit, Running
<1>7. CrowdIsSmall(tasks) /\ FewRun /\ PendingIsDue
  <2>1. IsFiniteSet({}) /\ Cardinality({}) = 0 /\ 0 <= AsioThreads BY FS_EmptySet, WsAssumption
  <2>2. \A i \in 0..Len(tasks) : i = 0 BY <1>1
  <2>3. CrowdIsSmall(tasks) BY <1>5, <2>1, <2>2 DEF CrowdIsSmall
  <2>4. FewRun BY <1>6, <2>1 DEF FewRun
  <2>5. pending = 0 BY DEF WsInit
  <2> QED BY <1>5, <2>1, <2>3, <2>4, <2>5 DEF PendingIsDue
<1>8. NotLate BY Zenon DEF WsInit, NotLate
<1> QED BY <1>2, <1>3, <1>4, <1>7, <1>8 DEF WsInductive

\* A handler posts.
LEMMA PostKeeps ==
  ASSUME WsInductive, NEW c \in Peers, NEW kind \in Kinds, Calls(c, kind),
         \/ life[c] = "shaking" /\ kind = "open" /\ life' = [life EXCEPT ![c] = "open"]
         \/ life[c] = "shaking" /\ kind \in {"http", "fail"} /\ UNCHANGED life
         \/ life[c] = "open" /\ kind = "message" /\ UNCHANGED life
         \/ life[c] = "closing" /\ kind = "close" /\ UNCHANGED life,
         UNCHANGED <<recordVars, late, missed, end>>, sent' \in [Peers -> 0..MaxMessages]
  PROVE  WsInductive'
<1> DEFINE x == Task(kind, c)
<1>1. /\ x \in ServerTasks /\ x.kind = kind /\ x.conn = c /\ tasks' = Append(tasks, x) /\ handler[c] = "none"
      /\ handler' = [handler EXCEPT ![c] = kind] /\ kind \notin {"none", "deliver", "on_http"}
  BY DEF Calls, Task, ServerTasks, Kinds
<1>2. /\ tasks \in Seq(ServerTasks) /\ tasks' \in Seq(ServerTasks) /\ Len(tasks') = Len(tasks) + 1 /\ Len(tasks) \in Nat
      /\ tasks'[Len(tasks) + 1] = x /\ \A i \in 1..Len(tasks) : tasks'[i] = tasks[i] /\ tasks[i] \in ServerTasks
  BY <1>1, QueueMoves DEF WsInductive, WsDomains
<1>3. WsDomains'
  <2>1. connections' = Listed' BY <1>1 DEF WsInductive, WsDomains, Listed, recordVars
  <2> QED BY <1>1, <1>2, <2>1 DEF WsInductive, WsDomains, recordVars
<1>4. LivesAgree' BY <1>1 DEF WsInductive, WsDomains, LivesAgree, recordVars
<1>5. \A i \in 1..Len(tasks) : tasks[i].kind \in Kinds => tasks[i].conn # c
  BY <1>1 DEF WsInductive, TasksAgree, Kinds
<1>6. TasksAgree'
  <2>1. c \notin throttled BY <1>1 DEF WsInductive, LivesAgree
  <2>2. \A i \in 1..Len(tasks') : i \in 1..Len(tasks) \/ i = Len(tasks) + 1 BY <1>2
  <2>3. \A i \in 1..Len(tasks) : tasks[i].conn \in Peers BY <1>2 DEF ServerTasks
  <2>4. ASSUME NEW i \in 1..Len(tasks)
        PROVE  /\ tasks[i].kind \in Kinds => handler'[tasks[i].conn] = tasks[i].kind /\ tasks[i].conn \notin throttled'
               /\ tasks[i].kind = "deliver" => life'[tasks[i].conn] \in {"open", "closing"}
               /\ tasks[i].kind = "on_http" => life'[tasks[i].conn] = "ended" /\ signals'[tasks[i].conn] = 0
    BY <1>1, <1>5, <2>3 DEF WsInductive, WsDomains, TasksAgree, recordVars
  <2>5. handler'[c] = kind /\ c \notin throttled' BY <1>1, <2>1 DEF WsInductive, WsDomains, recordVars
  <2> QED BY <1>1, <1>2, <2>2, <2>4, <2>5 DEF TasksAgree
<1>7. Ordered(tasks')
  <2>1. \A i \in 1..Len(tasks) : tasks[i] # x BY <1>1, <1>5
  <2> QED BY <1>1, <1>2, <2>1, OrderedPosted DEF WsInductive
<1>8. FewRun'
  <2>1. Running' = Running \cup {c} BY <1>1 DEF WsInductive, WsDomains, Running
  <2>2. c \notin Running BY <1>1 DEF Running
  <2>3. IsFiniteSet(Running) /\ Cardinality(Running) < AsioThreads BY DEF WsInductive, FewRun, Calls
  <2>4. IsFiniteSet(Running \cup {c}) /\ Cardinality(Running \cup {c}) = Cardinality(Running) + 1
    BY <2>2, <2>3, FS_AddElement
  <2> QED BY <2>1, <2>3, <2>4, FS_CardinalityType, WsAssumption DEF FewRun
<1>9. CrowdIsSmall(tasks')
  <2>1. \A i \in 1..Len(tasks) : tasks[i].kind \in Kinds => tasks[i].conn \in Running'
    BY <1>1, <1>2, <1>5 DEF WsInductive, WsDomains, TasksAgree, Running, ServerTasks, Kinds
  <2>2. c \in Running' BY <1>1 DEF WsInductive, WsDomains, Running
  <2> QED BY <1>1, <1>2, <1>8, <2>1, <2>2, CrowdPosted DEF WsInductive, FewRun
<1>10. Due(tasks') = Due(tasks) BY <1>1, <1>2, DueIs
<1>11. PendingIsDue' BY <1>10 DEF WsInductive, PendingIsDue, recordVars
<1>12. EndAgrees'
  <2>1. Coming' \subseteq Coming BY <1>1 DEF WsInductive, WsDomains, Coming
  <2> QED BY <2>1, EndStays DEF WsInductive, recordVars
<1>13. NotLate' BY Zenon DEF WsInductive, NotLate
<1> QED BY <1>3, <1>4, <1>6, <1>7, <1>8, <1>9, <1>11, <1>12, <1>13 DEF WsInductive

\* What of the queue and of the handlers a task keeps that lets its handler return.
LEMMA ReturnKeeps ==
  ASSUME WsInductive, tasks # <<>>, Head(tasks).kind \in Kinds, NEW state, state \in {life[Conn], "ended"},
         Returns(Conn), life' = [life EXCEPT ![Conn] = state], connections' = Listed',
         \/ tasks' = Tail(tasks)
         \/ state \in {"open", "closing"} /\ tasks' = Append(Tail(tasks), Task("deliver", Conn))
         \/ state = "ended" /\ signals' = signals /\ tasks' = Append(Tail(tasks), Task("on_http", Conn)),
         signals' = signals \/ (state = "ended" /\ signals' = [signals EXCEPT ![Conn] = 1]),
         UNCHANGED <<sent, throttled, end>>, closed' \in {"none", "pending", "set"}
  PROVE  WsDomains' /\ LivesAgree' /\ TasksAgree' /\ Ordered(tasks') /\ CrowdIsSmall(tasks') /\ FewRun'
<1> DEFINE c == Conn
           t == Tail(tasks)
<1>1. /\ handler' = [handler EXCEPT ![c] = "none"] /\ life' = [life EXCEPT ![c] = state]
      /\ c \in Peers /\ c \notin throttled /\ life[c] \in {"open", "closing", "shaking"} /\ signals[c] = 0
  BY HeadIs DEF Returns, WsInductive, LivesAgree, Kinds
<1>2. /\ t \in Seq(ServerTasks) /\ Len(t) = Len(tasks) - 1 /\ Len(tasks) \in Nat \ {0}
      /\ \A i \in 1..Len(t) : t[i] = tasks[i + 1] /\ i + 1 \in 1..Len(tasks) /\ i + 1 # 1
  BY QueueMoves DEF WsInductive, WsDomains
<1>3. \A i \in 1..Len(t) : t[i].conn # c /\ t[i].conn \in Peers /\ t[i] \in ServerTasks
  <2>1. \A i \in 1..Len(tasks) : i # 1 => tasks[i].conn # c BY HeadIs
  <2>2. \A i \in 1..Len(t) : t[i] \in ServerTasks BY <1>2, QueueMoves
  <2> QED BY <1>2, <2>1, <2>2 DEF ServerTasks
<1>4. \A i \in 1..Len(t) :
        /\ t[i].kind \in Kinds => handler'[t[i].conn] = t[i].kind /\ t[i].conn \notin throttled'
        /\ t[i].kind = "deliver" => life'[t[i].conn] \in {"open", "closing"}
        /\ t[i].kind = "on_http" => life'[t[i].conn] = "ended" /\ signals'[t[i].conn] = 0
  BY <1>1, <1>2, <1>3 DEF WsInductive, WsDomains, TasksAgree
<1>5. Ordered(t) /\ CrowdIsSmall(t) BY OrderedTaken, CrowdTaken DEF WsInductive, WsDomains
<1>6. LivesAgree' BY <1>1 DEF WsInductive, WsDomains, LivesAgree
<1>7. FewRun'
  <2>1. Running' \subseteq Running BY <1>1 DEF WsInductive, WsDomains, Running
  <2> QED BY <2>1, FS_Subset, FS_CardinalityType, WsAssumption DEF WsInductive, FewRun
<1>8. tasks' \in Seq(ServerTasks) => WsDomains' BY <1>1 DEF WsInductive, WsDomains
<1>9. CASE tasks' = t
  <2>1. TasksAgree' BY <1>4, <1>9 DEF TasksAgree
  <2> QED BY <1>2, <1>5, <1>6, <1>7, <1>8, <1>9, <2>1
<1>10. ASSUME NEW x \in ServerTasks, tasks' = Append(t, x), x.conn = c,
              \/ x.kind = "deliver" /\ state \in {"open", "closing"}
              \/ x.kind = "on_http" /\ state = "ended" /\ signals' = signals
       PROVE  WsDomains' /\ TasksAgree' /\ Ordered(tasks') /\ CrowdIsSmall(tasks')
  <2>1. /\ tasks' \in Seq(ServerTasks) /\ Len(tasks') = Len(t) + 1 /\ Len(t) \in Nat
        /\ tasks'[Len(t) + 1] = x /\ \A i \in 1..Len(t) : tasks'[i] = t[i]
    BY <1>2, <1>10, QueueMoves
  <2>2. \A i \in 1..Len(tasks') : i \in 1..Len(t) \/ i = Len(t) + 1 BY <2>1
  <2>3. life'[c] = state /\ x.kind \notin Kinds BY <1>1, <1>10 DEF WsInductive, WsDomains, Kinds
  <2>4. TasksAgree' BY <1>1, <1>4, <1>10, <2>1, <2>2, <2>3 DEF TasksAgree
  <2>5. Ordered(tasks') BY <1>2, <1>3, <1>5, <1>10, OrderedPosted
  <2>6. CrowdIsSmall(tasks') BY <1>10, <2>3, CrowdReplaced DEF WsInductive, WsDomains, Conn
  <2> QED BY <1>8, <2>1, <2>4, <2>5, <2>6
<1>11. \A k \in {"deliver", "on_http"} : /\ Task(k, c) \in ServerTasks /\ Task(k, c).kind = k /\ Task(k, c).conn = c
  BY <1>1 DEF Task, ServerTasks
<1> QED BY <1>6, <1>7, <1>9, <1>10, <1>11

LEMMA OpenedKeeps == WsInductive /\ Opened => WsInductive'
<1> SUFFICES ASSUME WsInductive, Opened PROVE WsInductive' OBVIOUS
<1>1. /\ tasks # <<>> /\ Head(tasks).kind = "open" /\ end \notin {"gone", "terminated"} /\ tasks' = Tail(tasks)
      /\ Returns(Conn) /\ UNCHANGED life
      /\ connections' = connections \cup {Conn}
      /\ UNCHANGED <<sent, throttled, pending, closed, missed, signals, late, end>>
  BY Zenon DEF Opened, Runs, Lives, destroyVars
<1>2. Head(tasks).kind \in Kinds /\ Conn \in Peers /\ life[Conn] = "open" /\ handler[Conn] = "open"
  BY <1>1, HeadIs DEF Kinds
<1>3. /\ connections' = Listed' /\ Coming' \subseteq Coming /\ Conn \in Coming
      /\ life' = [life EXCEPT ![Conn] = life[Conn]]
  BY <1>1, <1>2 DEF WsInductive, WsDomains, Returns, Listed, Coming
<1>4. WsDomains' /\ LivesAgree' /\ TasksAgree' /\ Ordered(tasks') /\ CrowdIsSmall(tasks') /\ FewRun'
  <2>1. closed' \in {"none", "pending", "set"} BY <1>1 DEF WsInductive, WsDomains
  <2> QED BY <1>1, <1>2, <1>3, <2>1, ReturnKeeps
<1>5. PendingIsDue' BY <1>1, DueIs DEF WsInductive, WsDomains, PendingIsDue
<1>6. EndAgrees'
  <2>1. closed = "set" => connections \subseteq missed /\ Coming \subseteq missed
    BY <1>1 DEF WsInductive, WsDomains, EndAgrees
  <2> QED BY <1>1, <1>3, <2>1 DEF WsInductive, EndAgrees
<1>7. NotLate' BY <1>1, Zenon DEF WsInductive, NotLate
<1> QED BY <1>4, <1>5, <1>6, <1>7 DEF WsInductive

LEMMA ClosedKeeps == WsInductive /\ Closed => WsInductive'
<1> SUFFICES ASSUME WsInductive, Closed PROVE WsInductive' OBVIOUS
<1>1. /\ tasks # <<>> /\ Head(tasks).kind \in {"close", "fail"} /\ tasks' = Tail(tasks)
      /\ Returns(Conn) /\ life' = [life EXCEPT ![Conn] = "ended"]
      /\ signals' = (IF Conn \in connections THEN [signals EXCEPT ![Conn] = @ + 1] ELSE signals)
      /\ connections' = connections \ {Conn}
      /\ closed' = (IF connections' = {} /\ closed # "none" THEN "set" ELSE closed)
      /\ UNCHANGED <<sent, throttled, pending, missed, late, end>>
  BY Zenon DEF Closed, Runs, Ends, destroyVars
<1>2. Head(tasks).kind \in Kinds /\ Conn \in Peers /\ life[Conn] \in {"closing", "shaking"} BY <1>1, HeadIs DEF Kinds
<1>3. connections' = Listed' /\ Coming' \subseteq Coming
  BY <1>1, <1>2 DEF WsInductive, WsDomains, Returns, Listed, Coming
<1>4. signals' = signals \/ signals' = [signals EXCEPT ![Conn] = 1]
  <2>1. signals[Conn] = 0 BY <1>2 DEF WsInductive, LivesAgree
  <2> QED BY <1>1, <2>1
<1>5. closed' \in {"none", "pending", "set"} BY <1>1 DEF WsInductive, WsDomains
<1>6. WsDomains' /\ LivesAgree' /\ TasksAgree' /\ Ordered(tasks') /\ CrowdIsSmall(tasks') /\ FewRun'
  BY <1>1, <1>2, <1>3, <1>4, <1>5, ReturnKeeps
<1>7. PendingIsDue' BY <1>1, DueIs DEF WsInductive, WsDomains, PendingIsDue
<1>8. EndAgrees' BY <1>1, <1>3 DEF WsInductive, EndAgrees
<1>9. NotLate' BY <1>1, Zenon DEF WsInductive, NotLate
<1> QED BY <1>6, <1>7, <1>8, <1>9 DEF WsInductive

LEMMA HttpKeeps == WsInductive /\ Http => WsInductive'
<1> SUFFICES ASSUME WsInductive, Http PROVE WsInductive' OBVIOUS
<1>1. UNCHANGED <<sent, throttled, connections, pending, closed, missed, late, end>> /\ tasks # <<>>
  BY Zenon DEF Http, Runs, destroyVars
<1>2. NotLate' BY <1>1, Zenon DEF WsInductive, NotLate
<1>3. CASE /\ Head(tasks).kind = "http" /\ tasks' = Append(Tail(tasks), Task("on_http", Conn))
           /\ Returns(Conn) /\ life' = [life EXCEPT ![Conn] = "ended"] /\ UNCHANGED signals
  <2>1. Head(tasks).kind \in Kinds /\ Conn \in Peers /\ life[Conn] = "shaking" BY <1>1, <1>3, HeadIs DEF Kinds
  <2>2. connections' = Listed' /\ Coming' \subseteq Coming
    BY <1>1, <1>3, <2>1 DEF WsInductive, WsDomains, Returns, Listed, Coming
  <2>3. WsDomains' /\ LivesAgree' /\ TasksAgree' /\ Ordered(tasks') /\ CrowdIsSmall(tasks') /\ FewRun'
    <3>1. closed' \in {"none", "pending", "set"} BY <1>1 DEF WsInductive, WsDomains
    <3> QED BY <1>1, <1>3, <2>1, <2>2, <3>1, ReturnKeeps
  <2>4. Due(tasks') = Due(tasks)
    <3>1. Tail(tasks) \in Seq(ServerTasks) BY <1>1, QueueMoves DEF WsInductive, WsDomains
    <3>2. Task("on_http", Conn) \in ServerTasks /\ Task("on_http", Conn).kind # "deliver" BY <2>1 DEF Task, ServerTasks
    <3>3. Due(Tail(tasks)) = Due(tasks) BY <1>1, <1>3, DueIs DEF WsInductive, WsDomains
    <3> QED BY <1>3, <3>1, <3>2, <3>3, DueIs
  <2>5. PendingIsDue' BY <1>1, <2>4 DEF WsInductive, PendingIsDue
  <2>6. EndAgrees' BY <1>1, <2>2, EndStays DEF WsInductive
  <2> QED BY <1>2, <2>3, <2>5, <2>6 DEF WsInductive
<1>4. CASE /\ Head(tasks).kind = "on_http" /\ tasks' = Tail(tasks)
           /\ signals' = [signals EXCEPT ![Conn] = @ + 1] /\ UNCHANGED <<handler, life>>
  <2>1. life[Conn] = "ended" /\ signals[Conn] = 0 /\ Conn \in Peers BY <1>1, <1>4, HeadIs
  <2>2. /\ tasks' \in Seq(ServerTasks) /\ Len(tasks') = Len(tasks) - 1 /\ Len(tasks) \in Nat \ {0} /\ Head(tasks) = tasks[1]
        /\ \A i \in 1..Len(tasks') : tasks'[i] = tasks[i + 1] /\ i + 1 \in 1..Len(tasks) /\ i + 1 # 1
    BY <1>1, <1>4, QueueMoves DEF WsInductive, WsDomains
  <2>3. signals' = [signals EXCEPT ![Conn] = 1] BY <1>4, <2>1
  <2>4. WsDomains' BY <1>1, <1>4, <2>2, <2>3 DEF WsInductive, WsDomains, Listed
  <2>5. LivesAgree' BY <1>1, <1>4, <2>1, <2>3 DEF WsInductive, WsDomains, LivesAgree
  <2>6. \A i \in 1..Len(tasks') : tasks'[i].kind = "on_http" => tasks'[i].conn # Conn
    <3> SUFFICES ASSUME NEW i \in 1..Len(tasks'), tasks'[i].kind = "on_http", tasks'[i].conn = Conn PROVE FALSE OBVIOUS
    <3>1. i + 1 \in 1..Len(tasks) /\ i + 1 # 1 /\ 1 \in 1..Len(tasks) /\ tasks'[i] = tasks[i + 1] BY <2>2
    <3>2. tasks[i + 1] = tasks[1]
      <4>1. tasks[i + 1] \in ServerTasks /\ tasks[1] \in ServerTasks BY <3>1, QueueMoves DEF WsInductive, WsDomains
      <4> QED BY <1>4, <2>2, <3>1, <4>1 DEF ServerTasks, Conn
    <3> QED BY <3>1, <3>2 DEF WsInductive, Ordered
  <2>7. TasksAgree'
    <3> SUFFICES ASSUME NEW i \in 1..Len(tasks')
                 PROVE  /\ tasks'[i].kind \in Kinds => handler'[tasks'[i].conn] = tasks'[i].kind /\ tasks'[i].conn \notin throttled'
                        /\ tasks'[i].kind = "deliver" => life'[tasks'[i].conn] \in {"open", "closing"}
                        /\ tasks'[i].kind = "on_http" => life'[tasks'[i].conn] = "ended" /\ signals'[tasks'[i].conn] = 0
      BY DEF TasksAgree
    <3>1. tasks'[i] = tasks[i + 1] /\ i + 1 \in 1..Len(tasks) BY <2>2
    <3>2. tasks'[i].conn \in Peers BY <2>2, QueueMoves DEF ServerTasks
    <3> QED BY <1>1, <1>4, <2>3, <2>6, <3>1, <3>2 DEF WsInductive, WsDomains, TasksAgree
  <2>8. Ordered(tasks') /\ CrowdIsSmall(tasks') BY <1>1, <1>4, OrderedTaken, CrowdTaken DEF WsInductive, WsDomains
  <2>9. FewRun' BY <1>4 DEF WsInductive, FewRun, Running
  <2>10. PendingIsDue' BY <1>1, <1>4, DueIs DEF WsInductive, WsDomains, PendingIsDue
  <2>11. EndAgrees' BY <1>1, <1>4 DEF WsInductive, EndAgrees, Coming
  <2> QED BY <1>2, <2>4, <2>5, <2>7, <2>8, <2>9, <2>10, <2>11 DEF WsInductive
<1> QED BY <1>3, <1>4, Zenon DEF Http, Runs, Ends

LEMMA MessageKeeps == WsInductive /\ Message => WsInductive'
<1> SUFFICES ASSUME WsInductive, Message PROVE WsInductive' OBVIOUS
<1> DEFINE x == Task("deliver", Conn)
<1>1. /\ tasks # <<>> /\ Head(tasks).kind = "message" /\ pending' = pending + 1 /\ tasks' = Append(Tail(tasks), x)
      /\ UNCHANGED <<life, sent, connections, closed, missed, signals, late, end>>
  BY Zenon DEF Message, Runs, destroyVars
<1>2. /\ Head(tasks).kind \in Kinds /\ Conn \in Peers /\ life[Conn] \in {"open", "closing"} /\ handler[Conn] = "message"
      /\ x \in ServerTasks /\ x.kind = "deliver" /\ x.kind \notin Kinds /\ x.conn = Conn
  BY <1>1, HeadIs DEF Kinds, Task, ServerTasks
<1>3. /\ Tail(tasks) \in Seq(ServerTasks) /\ Len(Tail(tasks)) = Len(tasks) - 1 /\ Len(tasks) \in Nat \ {0}
      /\ \A i \in 1..Len(Tail(tasks)) : Tail(tasks)[i] = tasks[i + 1] /\ i + 1 \in 1..Len(tasks) /\ i + 1 # 1
  BY <1>1, QueueMoves DEF WsInductive, WsDomains
<1>4. \A i \in 1..Len(Tail(tasks)) : Tail(tasks)[i].conn # Conn
  <2>1. \A i \in 1..Len(tasks) : i # 1 => tasks[i].conn # Conn BY <1>1, <1>2, HeadIs
  <2> QED BY <1>3, <2>1
<1>5. PendingIsDue'
  <2>1. Due(Tail(tasks)) = Due(tasks) BY <1>1, DueIs DEF WsInductive, WsDomains
  <2>2. Conn \notin Due(tasks) BY <1>4, <2>1 DEF Due, Task
  <2>3. Due(tasks') = Due(tasks) \cup {Conn} BY <1>1, <1>2, <1>3, <2>1, DueIs
  <2>4. IsFiniteSet(Due(tasks)) /\ pending = Cardinality(Due(tasks)) BY DEF WsInductive, PendingIsDue
  <2>5. IsFiniteSet(Due(tasks) \cup {Conn}) /\ Cardinality(Due(tasks) \cup {Conn}) = Cardinality(Due(tasks)) + 1
    BY <2>2, <2>4, FS_AddElement
  <2> QED BY <1>1, <2>3, <2>4, <2>5 DEF PendingIsDue
<1>6. NotLate' BY <1>1, Zenon DEF WsInductive, NotLate
<1>7. CASE Returns(Conn) /\ UNCHANGED throttled
  <2>1. /\ connections' = Listed' /\ Coming' \subseteq Coming
        /\ life' = [life EXCEPT ![Conn] = life[Conn]]
    BY <1>1, <1>2, <1>7 DEF WsInductive, WsDomains, Returns, Listed, Coming
  <2>2. closed' \in {"none", "pending", "set"} BY <1>1 DEF WsInductive, WsDomains
  <2>3. WsDomains' /\ LivesAgree' /\ TasksAgree' /\ Ordered(tasks') /\ CrowdIsSmall(tasks') /\ FewRun'
    BY <1>1, <1>2, <1>7, <2>1, <2>2, ReturnKeeps
  <2>4. EndAgrees' BY <1>1, <2>1, EndStays DEF WsInductive
  <2> QED BY <1>5, <1>6, <2>3, <2>4 DEF WsInductive
<1>8. CASE throttled' = throttled \cup {Conn} /\ UNCHANGED handler
  <2>1. /\ tasks' \in Seq(ServerTasks) /\ Len(tasks') = Len(tasks) /\ tasks'[Len(tasks)] = x
        /\ \A i \in 1..Len(Tail(tasks)) : tasks'[i] = Tail(tasks)[i]
    BY <1>1, <1>2, <1>3, QueueMoves
  <2>2. WsDomains' BY <1>1, <1>2, <1>8, <2>1 DEF WsInductive, WsDomains, Listed
  <2>3. LivesAgree' BY <1>1, <1>2, <1>8 DEF WsInductive, LivesAgree
  <2>4. TasksAgree'
    <3> SUFFICES ASSUME NEW i \in 1..Len(tasks')
                 PROVE  /\ tasks'[i].kind \in Kinds => handler'[tasks'[i].conn] = tasks'[i].kind /\ tasks'[i].conn \notin throttled'
                        /\ tasks'[i].kind = "deliver" => life'[tasks'[i].conn] \in {"open", "closing"}
                        /\ tasks'[i].kind = "on_http" => life'[tasks'[i].conn] = "ended" /\ signals'[tasks'[i].conn] = 0
      BY DEF TasksAgree
    <3>1. CASE i \in 1..Len(Tail(tasks))
      <4>1. tasks'[i] = tasks[i + 1] /\ i + 1 \in 1..Len(tasks) /\ tasks'[i].conn # Conn BY <1>3, <1>4, <2>1, <3>1
      <4> QED BY <1>1, <1>8, <4>1 DEF WsInductive, TasksAgree
    <3>2. CASE i = Len(tasks)
      <4>1. tasks'[i] = x BY <2>1, <3>2
      <4>2. x.kind \notin Kinds /\ x.kind # "on_http" /\ life'[x.conn] \in {"open", "closing"} BY <1>1, <1>2
      <4> QED BY <4>1, <4>2
    <3>3. Len(tasks') = Len(tasks) /\ Len(Tail(tasks)) = Len(tasks) - 1 /\ Len(tasks) \in Nat BY <1>3, <2>1
    <3>4. i \in 1..Len(Tail(tasks)) \/ i = Len(tasks) BY <3>3
    <3> QED BY <3>1, <3>2, <3>4
  <2>5. Ordered(tasks')
    <3>1. Ordered(Tail(tasks)) BY <1>1, OrderedTaken DEF WsInductive, WsDomains
    <3> QED BY <1>1, <1>2, <1>3, <1>4, <3>1, OrderedPosted
  <2>6. CrowdIsSmall(tasks') BY <1>1, <1>2, CrowdReplaced DEF WsInductive, WsDomains, Conn
  <2>7. FewRun' BY <1>8 DEF WsInductive, FewRun, Running
  <2>8. EndAgrees' BY <1>1, <1>8 DEF WsInductive, EndAgrees, Coming
  <2> QED BY <1>5, <1>6, <2>2, <2>3, <2>4, <2>5, <2>6, <2>7, <2>8 DEF WsInductive
<1> QED BY <1>7, <1>8, Zenon DEF Message

LEMMA DeliverKeeps == WsInductive /\ Deliver => WsInductive'
<1> SUFFICES ASSUME WsInductive, Deliver PROVE WsInductive' OBVIOUS
<1>1. /\ tasks # <<>> /\ Head(tasks).kind = "deliver" /\ pending' = (IF pending > 0 THEN pending - 1 ELSE 0)
      /\ tasks' = Tail(tasks) /\ late' = (late \/ signals[Conn] > 0)
      /\ UNCHANGED <<life, handler, sent, throttled, connections, closed, missed, signals, end>>
  BY Zenon DEF Deliver, Runs, peerVars, destroyVars
<1>2. Conn \in Peers /\ life[Conn] \in {"open", "closing"} /\ Head(tasks) = Task("deliver", Conn)
  BY <1>1, HeadIs DEF ServerTasks, Conn, Task
<1>3. /\ tasks' \in Seq(ServerTasks) /\ Len(tasks') = Len(tasks) - 1 /\ Len(tasks) \in Nat \ {0}
      /\ \A i \in 1..Len(tasks') : tasks'[i] = tasks[i + 1] /\ i + 1 \in 1..Len(tasks)
  BY <1>1, QueueMoves DEF WsInductive, WsDomains
<1>4. WsDomains' BY <1>1, <1>3 DEF WsInductive, WsDomains, Listed
<1>5. LivesAgree' BY <1>1 DEF WsInductive, LivesAgree
<1>6. TasksAgree' BY <1>1, <1>3 DEF WsInductive, TasksAgree
<1>7. Ordered(tasks') /\ CrowdIsSmall(tasks') BY <1>1, OrderedTaken, CrowdTaken DEF WsInductive, WsDomains
<1>8. FewRun' BY <1>1 DEF WsInductive, FewRun, Running
<1>9. PendingIsDue'
  <2>1. IsFiniteSet(Due(tasks)) /\ pending = Cardinality(Due(tasks)) BY DEF WsInductive, PendingIsDue
  <2>2. Conn \in Due(tasks) /\ Due(tasks') = Due(tasks) \ {Conn} BY <1>1, <1>2, DueIs DEF WsInductive, WsDomains
  <2>3. IsFiniteSet(Due(tasks) \ {Conn}) /\ Cardinality(Due(tasks) \ {Conn}) = Cardinality(Due(tasks)) - 1
    BY <2>1, <2>2, FS_RemoveElement
  <2>4. pending > 0 BY <2>1, <2>2, FS_EmptySet, FS_CardinalityType
  <2> QED BY <1>1, <2>1, <2>2, <2>3, <2>4 DEF PendingIsDue
<1>10. EndAgrees' BY <1>1 DEF WsInductive, EndAgrees, Coming
<1>11. NotLate'
  <2>1. signals[Conn] = 0 BY <1>2 DEF WsInductive, LivesAgree
  <2>2. ~(signals[Conn] > 0) BY <2>1
  <2> QED BY <1>1, <2>2, Zenon DEF WsInductive, NotLate
<1> QED BY <1>4, <1>5, <1>6, <1>7, <1>8, <1>9, <1>10, <1>11 DEF WsInductive

\* Steps that leave the queue alone.
LEMMA QuietKeeps ==
  ASSUME WsInductive, UNCHANGED <<tasks, pending, signals, late>>,
         WsDomains' /\ LivesAgree' /\ TasksAgree' /\ FewRun' /\ EndAgrees'
  PROVE  WsInductive'
<1>1. Ordered(tasks') /\ CrowdIsSmall(tasks') /\ PendingIsDue' BY DEF WsInductive, PendingIsDue
<1>2. NotLate' BY Zenon DEF WsInductive, NotLate
<1> QED BY <1>1, <1>2 DEF WsInductive

LEMMA AcceptKeeps == WsInductive /\ (\E c \in Peers : WsAccept(c)) => WsInductive'
<1> SUFFICES ASSUME WsInductive, NEW c \in Peers, WsAccept(c) PROVE WsInductive' OBVIOUS
<1>1. /\ life[c] = "away" /\ life' = [life EXCEPT ![c] = "shaking"] /\ end = "alive"
      /\ UNCHANGED <<handler, sent, tasks, throttled, connections, pending, closed, missed, signals, late, end>>
  BY Zenon DEF WsAccept, recordVars, destroyVars
<1>2. handler[c] = "none" BY <1>1 DEF WsInductive, LivesAgree
<1>3. WsDomains'
  <2>1. connections' = Listed' BY <1>1 DEF WsInductive, WsDomains, Listed
  <2> QED BY <1>1, <2>1 DEF WsInductive, WsDomains
<1>4. LivesAgree' BY <1>1, <1>2 DEF WsInductive, WsDomains, LivesAgree
<1>5. \A i \in 1..Len(tasks) : tasks[i].conn \in Peers BY QueueMoves DEF WsInductive, WsDomains, ServerTasks
<1>6. TasksAgree' BY <1>1, <1>5 DEF WsInductive, WsDomains, TasksAgree
<1>7. FewRun' BY <1>1 DEF WsInductive, FewRun, Running
<1>8. EndAgrees' BY <1>1 DEF WsInductive, EndAgrees
<1> QED BY <1>1, <1>3, <1>4, <1>6, <1>7, <1>8, QuietKeeps

LEMMA PeerClosesKeeps == WsInductive /\ (\E c \in Peers : PeerCloses(c)) => WsInductive'
<1> SUFFICES ASSUME WsInductive, NEW c \in Peers, PeerCloses(c) PROVE WsInductive' OBVIOUS
<1>1. /\ life[c] = "open" /\ life' = [life EXCEPT ![c] = "closing"] /\ handler[c] = "none"
      /\ UNCHANGED <<handler, sent, tasks, throttled, connections, pending, closed, missed, signals, late, end>>
  BY Zenon DEF PeerCloses, recordVars, destroyVars
<1>2. WsDomains'
  <2>1. connections' = Listed' BY <1>1 DEF WsInductive, WsDomains, Listed
  <2> QED BY <1>1, <2>1 DEF WsInductive, WsDomains
<1>3. LivesAgree' BY <1>1 DEF WsInductive, WsDomains, LivesAgree
<1>4. \A i \in 1..Len(tasks) : tasks[i].conn \in Peers BY QueueMoves DEF WsInductive, WsDomains, ServerTasks
<1>5. TasksAgree' BY <1>1, <1>4 DEF WsInductive, WsDomains, TasksAgree
<1>6. FewRun' BY <1>1 DEF WsInductive, FewRun, Running
<1>7. Coming' \subseteq Coming BY <1>1 DEF WsInductive, WsDomains, Coming
<1>8. EndAgrees' BY <1>1, <1>7, EndStays DEF WsInductive
<1> QED BY <1>1, <1>2, <1>3, <1>5, <1>6, <1>8, QuietKeeps

LEMMA UnthrottledKeeps == WsInductive /\ (\E c \in Peers : Unthrottled(c)) => WsInductive'
<1> SUFFICES ASSUME WsInductive, NEW c \in Peers, Unthrottled(c) PROVE WsInductive' OBVIOUS
<1>1. /\ c \in throttled /\ throttled' = throttled \ {c} /\ handler' = [handler EXCEPT ![c] = "none"]
      /\ UNCHANGED <<life, sent, tasks, connections, pending, closed, missed, signals, late, end>>
  BY Zenon DEF Unthrottled, Returns, destroyVars
<1>2. handler[c] = "message" BY <1>1 DEF WsInductive, LivesAgree
<1>3. WsDomains'
  <2>1. connections' = Listed' BY <1>1, <1>2 DEF WsInductive, WsDomains, Listed
  <2> QED BY <1>1, <2>1 DEF WsInductive, WsDomains
<1>4. LivesAgree' BY <1>1, <1>2 DEF WsInductive, WsDomains, LivesAgree
<1>5. ASSUME NEW i \in 1..Len(tasks), tasks[i].kind \in Kinds PROVE tasks[i].conn # c /\ tasks[i].conn \in Peers
  <2>1. tasks[i] \in ServerTasks BY QueueMoves DEF WsInductive, WsDomains
  <2>2. tasks[i].conn \notin throttled BY <1>5 DEF WsInductive, TasksAgree
  <2> QED BY <1>1, <2>1, <2>2 DEF ServerTasks
<1>6. TasksAgree' BY <1>1, <1>5 DEF WsInductive, WsDomains, TasksAgree
<1>7. Running' \subseteq Running /\ Coming' \subseteq Coming BY <1>1 DEF WsInductive, WsDomains, Running, Coming
<1>8. FewRun' BY <1>7, FS_Subset, FS_CardinalityType, WsAssumption DEF WsInductive, FewRun
<1>9. EndAgrees' BY <1>1, <1>7, EndStays DEF WsInductive
<1> QED BY <1>1, <1>3, <1>4, <1>6, <1>8, <1>9, QuietKeeps

\* The destructor closes the connections it finds.
LEMMA CountKeeps == WsInductive /\ Count => WsInductive'
<1> SUFFICES ASSUME WsInductive, Count PROVE WsInductive' OBVIOUS
<1>1. /\ \A c \in connections : life[c] = "open"
      /\ life' = [c \in Peers |-> IF c \in connections THEN "closing" ELSE life[c]]
      /\ closed' = (IF connections = {} THEN "none" ELSE "pending")
      /\ missed' = Coming /\ end' = (IF connections = {} THEN "gone" ELSE "waiting")
      /\ UNCHANGED <<handler, sent, tasks, throttled, connections, pending, signals, late>>
  BY Zenon DEF Count
<1>2. WsDomains'
  <2>1. connections' = Listed' BY <1>1 DEF WsInductive, WsDomains, Listed
  <2>2. life' \in [Peers -> {"away", "shaking", "open", "closing", "ended"}] BY <1>1 DEF WsInductive, WsDomains
  <2> QED BY <1>1, <2>1, <2>2 DEF WsInductive, WsDomains
<1>3. LivesAgree'
  <2> SUFFICES ASSUME NEW c \in Peers
               PROVE  /\ life'[c] \in {"away", "ended"} => handler[c] = "none"
                      /\ life'[c] = "shaking" => handler[c] \in {"none", "http", "fail"}
                      /\ life'[c] = "open" => handler[c] \in {"none", "open", "message"}
                      /\ life'[c] = "closing" => handler[c] \in {"none", "message", "close"}
                      /\ c \in throttled => handler[c] = "message"
                      /\ life'[c] # "ended" => signals[c] = 0
    BY <1>1 DEF LivesAgree
  <2>1. CASE c \in connections
    <3>1. life[c] = "open" /\ handler[c] # "open" /\ life'[c] = "closing" BY <1>1, <2>1 DEF WsInductive, WsDomains, Listed
    <3> QED BY <3>1 DEF WsInductive, LivesAgree
  <2>2. CASE c \notin connections
    <3>1. life'[c] = life[c] BY <1>1, <2>2
    <3> QED BY <3>1 DEF WsInductive, LivesAgree
  <2> QED BY <2>1, <2>2
<1>4. \A i \in 1..Len(tasks) : tasks[i].conn \in Peers BY QueueMoves DEF WsInductive, WsDomains, ServerTasks
<1>5. \A c \in Peers : /\ life[c] \in {"open", "closing"} => life'[c] \in {"open", "closing"}
                       /\ life[c] = "ended" => life'[c] = "ended"
                       /\ life'[c] = "shaking" => life[c] = "shaking"
  BY <1>1
<1>6. TasksAgree' BY <1>1, <1>4, <1>5 DEF WsInductive, TasksAgree
<1>7. FewRun' BY <1>1 DEF WsInductive, FewRun, Running
<1>8. EndAgrees'
  <2>1. Coming' \subseteq Coming BY <1>1, <1>5 DEF Coming
  <2> QED BY <1>1, <2>1 DEF EndAgrees
<1> QED BY <1>1, <1>2, <1>3, <1>6, <1>7, <1>8, QuietKeeps

\* Steps of the destructor and of a request that change neither a connection nor a handler.
LEMMA RestKeeps ==
  WsInductive /\ ((\E q \in requests : RequestRuns(q)) \/ Stop \/ Refused \/ Gone \/ UNCHANGED wsVars) => WsInductive'
<1> SUFFICES ASSUME WsInductive, (\E q \in requests : RequestRuns(q)) \/ Stop \/ Refused \/ Gone \/ UNCHANGED wsVars
             PROVE  WsInductive'
  OBVIOUS
<1>1. /\ UNCHANGED <<life, handler, sent, tasks, throttled, connections, pending, closed, missed, signals, late>>
      /\ \/ end' = end
         \/ end = "alive" /\ end' = "stopped"
         \/ end = "stopped" /\ end' = "terminated"
         \/ end = "waiting" /\ closed = "set" /\ end' = "gone"
  BY Zenon DEF RequestRuns, Stop, Refused, Gone, wsVars, recordVars, peerVars, destroyVars
<1>2. WsDomains' BY <1>1 DEF WsInductive, WsDomains, Listed
<1>3. LivesAgree' /\ TasksAgree' BY <1>1 DEF WsInductive, LivesAgree, TasksAgree
<1>4. FewRun' BY <1>1 DEF WsInductive, FewRun, Running
<1>5. EndAgrees' BY <1>1 DEF WsInductive, EndAgrees, Coming
<1> QED BY <1>1, <1>2, <1>3, <1>4, <1>5, QuietKeeps

\* A handshake fails once the server does not listen any more: nothing is posted.
LEMMA ShakenEnds ==
  ASSUME WsInductive, NEW c \in Peers, life[c] = "shaking", end # "alive", handler[c] = "none",
         life' = [life EXCEPT ![c] = "ended"], UNCHANGED <<handler, tasks>>, UNCHANGED <<recordVars, sent, late, missed, end>>
  PROVE  WsInductive'
<1>1. UNCHANGED <<throttled, closed, missed, pending, connections, signals, handler, tasks, sent, late, end>>
  BY DEF recordVars
<1>2. WsDomains'
  <2>1. connections' = Listed' BY <1>1 DEF WsInductive, WsDomains, Listed
  <2> QED BY <1>1, <2>1 DEF WsInductive, WsDomains
<1>3. LivesAgree' BY <1>1 DEF WsInductive, WsDomains, LivesAgree
<1>4. TasksAgree'
  <2>1. ASSUME NEW i \in 1..Len(tasks), tasks[i].kind = "deliver" PROVE life'[tasks[i].conn] \in {"open", "closing"}
    <3>1. tasks[i].conn \in Peers BY QueueMoves DEF WsInductive, WsDomains, ServerTasks
    <3>2. life[tasks[i].conn] \in {"open", "closing"} BY <2>1 DEF WsInductive, TasksAgree
    <3> QED BY <3>1, <3>2 DEF WsInductive, WsDomains
  <2>2. ASSUME NEW i \in 1..Len(tasks), tasks[i].kind = "on_http" PROVE life'[tasks[i].conn] = "ended" /\ signals[tasks[i].conn] = 0
    <3>1. tasks[i].conn \in Peers BY QueueMoves DEF WsInductive, WsDomains, ServerTasks
    <3>2. life[tasks[i].conn] = "ended" /\ signals[tasks[i].conn] = 0 BY <2>2 DEF WsInductive, TasksAgree
    <3> QED BY <3>1, <3>2 DEF WsInductive, WsDomains
  <2>3. \A i \in 1..Len(tasks) : tasks[i].kind \in Kinds =>
          handler[tasks[i].conn] = tasks[i].kind /\ tasks[i].conn \notin throttled
    BY DEF WsInductive, TasksAgree
  <2> QED BY <1>1, <2>1, <2>2, <2>3 DEF TasksAgree
<1>5. Ordered(tasks') /\ CrowdIsSmall(tasks') /\ PendingIsDue' BY <1>1 DEF WsInductive, PendingIsDue
<1>6. FewRun' BY <1>1 DEF WsInductive, FewRun, Running
<1>7. EndAgrees'
  <2>1. Coming' \subseteq Coming BY <1>1 DEF WsInductive, WsDomains, Coming
  <2> QED BY <1>1, <2>1, EndStays DEF WsInductive
<1>8. NotLate' BY <1>1, Zenon DEF WsInductive, NotLate
<1> QED BY <1>2, <1>3, <1>4, <1>5, <1>6, <1>7, <1>8 DEF WsInductive

LEMMA ServerStays == WsInductive /\ [WsNext]_wsVars => WsInductive'
<1> SUFFICES ASSUME WsInductive, [WsNext]_wsVars PROVE WsInductive' OBVIOUS
<1>1. ASSUME NEW c \in Peers, Shaken(c) PROVE WsInductive'
  <2>1. life[c] = "shaking" /\ UNCHANGED <<recordVars, sent, late, missed, end>>
    BY <1>1, Zenon DEF Shaken, destroyVars
  <2>2. sent' \in [Peers -> 0..MaxMessages] BY <2>1 DEF WsInductive, WsDomains
  <2>3. CASE Calls(c, "open") /\ life' = [life EXCEPT ![c] = "open"] BY <2>1, <2>2, <2>3, PostKeeps DEF Kinds
  <2>4. CASE \E kind \in {"http", "fail"} : Calls(c, kind) /\ UNCHANGED life BY <2>1, <2>2, <2>4, PostKeeps DEF Kinds
  <2>5. CASE end # "alive" /\ handler[c] = "none" /\ life' = [life EXCEPT ![c] = "ended"] /\ UNCHANGED <<handler, tasks>>
    BY <2>1, <2>5, ShakenEnds
  <2> QED BY <1>1, <2>3, <2>4, <2>5, Zenon DEF Shaken
<1>2. ASSUME NEW c \in Peers, MessageComes(c) PROVE WsInductive'
  <2>1. /\ life[c] = "open" /\ Calls(c, "message") /\ UNCHANGED <<life, recordVars, late, missed, end>>
        /\ sent[c] < MaxMessages /\ sent' = [sent EXCEPT ![c] = @ + 1]
    BY <1>2, Zenon DEF MessageComes, destroyVars
  <2>2. sent' \in [Peers -> 0..MaxMessages] BY <2>1, WsAssumption DEF WsInductive, WsDomains
  <2> QED BY <2>1, <2>2, PostKeeps DEF Kinds
<1>3. ASSUME NEW c \in Peers, Closes(c) PROVE WsInductive'
  <2>1. life[c] = "closing" /\ Calls(c, "close") /\ UNCHANGED <<life, recordVars, sent, late, missed, end>>
    BY <1>3, Zenon DEF Closes, destroyVars
  <2>2. sent' \in [Peers -> 0..MaxMessages] BY <2>1 DEF WsInductive, WsDomains
  <2> QED BY <2>1, <2>2, PostKeeps DEF Kinds
<1>4. CASE Opened \/ Message \/ Deliver \/ Closed \/ Http
  BY <1>4, OpenedKeeps, MessageKeeps, DeliverKeeps, ClosedKeeps, HttpKeeps
<1>5. CASE (\E c \in Peers : WsAccept(c) \/ PeerCloses(c) \/ Unthrottled(c)) \/ Count
  BY <1>5, AcceptKeeps, PeerClosesKeeps, UnthrottledKeeps, CountKeeps
<1>6. CASE (\E q \in requests : RequestRuns(q)) \/ Stop \/ Refused \/ Gone \/ UNCHANGED wsVars
  BY <1>6, RestKeeps
<1> QED BY <1>1, <1>2, <1>3, <1>4, <1>5, <1>6, Zenon DEF WsNext, ServerStep, PeerStep

\* The requests in progress, what the destructor found of them, and what it missed.
RequestsTyped == /\ requests \subseteq Peers \X (0..MaxMessages) /\ awaited \subseteq Peers \X (0..MaxMessages)
                 /\ missed \subseteq Peers

LEMMA RequestsStay ==
  ASSUME WsInductive, WsInductive', RequestsTyped, [WsNext]_wsVars
  PROVE  RequestsTyped'
<1>1. requests' \subseteq Peers \X (0..MaxMessages)
  <2>1. ASSUME NEW c \in Peers, Shaken(c) PROVE requests' \subseteq Peers \X (0..MaxMessages)
    <3>1. requests' = requests \/ requests' = requests \cup {<<c, 0>>} BY <2>1, Zenon DEF Shaken
    <3>2. <<c, 0>> \in Peers \X (0..MaxMessages) BY WsAssumption
    <3> QED BY <3>1, <3>2 DEF RequestsTyped
  <2>2. ASSUME NEW c \in Peers, MessageComes(c) PROVE requests' \subseteq Peers \X (0..MaxMessages)
    <3>1. requests' = requests \cup {<<c, sent'[c]>>} BY <2>2, Zenon DEF MessageComes
    <3>2. sent'[c] \in 0..MaxMessages BY DEF WsInductive, WsDomains
    <3> QED BY <3>1, <3>2 DEF RequestsTyped
  <2>3. CASE \E q \in requests : RequestRuns(q) BY <2>3 DEF RequestsTyped, RequestRuns
  <2>4. CASE (\E c \in Peers : WsAccept(c) \/ PeerCloses(c) \/ Closes(c)) \/ ServerStep \/ Stop \/ UNCHANGED wsVars
    <3>1. UNCHANGED requests
      BY <2>4, Zenon DEF WsAccept, PeerCloses, Closes, ServerStep, Opened, Message, Deliver, Closed, Http, Count,
           Refused, Gone, Unthrottled, Stop, wsVars, peerVars
    <3> QED BY <3>1 DEF RequestsTyped
  <2> QED BY <2>1, <2>2, <2>3, <2>4, Zenon DEF WsNext, PeerStep
<1>2. awaited' = awaited \/ awaited' = requests
  BY Zenon DEF WsNext, PeerStep, WsAccept, Shaken, MessageComes, RequestRuns, PeerCloses, Closes, ServerStep, Opened,
       Message, Deliver, Closed, Http, Count, Refused, Gone, Unthrottled, Stop, wsVars, destroyVars
<1>3. missed' = missed \/ missed' = Coming
  BY Zenon DEF WsNext, PeerStep, WsAccept, Shaken, MessageComes, RequestRuns, PeerCloses, Closes, ServerStep, Opened,
       Message, Deliver, Closed, Http, Count, Refused, Gone, Unthrottled, Stop, wsVars, destroyVars
<1> QED BY <1>1, <1>2, <1>3 DEF RequestsTyped, Coming

\* What the properties of the server say of a state of the invariant.
LEMMA ServerShows ==
  WsInductive /\ RequestsTyped => WsTypeOK /\ MessagesWhileOpen /\ BacklogIsBounded /\ NothingOutlivesServer
<1> SUFFICES ASSUME WsInductive, RequestsTyped
             PROVE  WsTypeOK /\ MessagesWhileOpen /\ BacklogIsBounded /\ NothingOutlivesServer
  OBVIOUS
<1> DEFINE M == {i \in DOMAIN tasks : tasks[i].kind = "deliver"}
<1>1. /\ DOMAIN tasks = 1..Len(tasks) /\ Len(tasks) \in Nat /\ \A i \in DOMAIN tasks : tasks[i] \in ServerTasks
  BY QueueMoves DEF WsInductive, WsDomains
<1>2. pending = Cardinality(M)
  <2> DEFINE g == [c \in Due(tasks) |-> CHOOSE i \in M : tasks[i] = Task("deliver", c)]
  <2>1. \A i \in M : tasks[i] = Task("deliver", tasks[i].conn) /\ tasks[i].conn \in Due(tasks)
    <3>1. \A i \in M : tasks[i] = Task("deliver", tasks[i].conn) /\ tasks[i].conn \in Peers BY <1>1 DEF ServerTasks, Task
    <3> QED BY <1>1, <3>1 DEF Due
  <2>2. \A c \in Due(tasks) : g[c] \in M /\ tasks[g[c]] = Task("deliver", c)
    <3>1. \A c \in Due(tasks) : \E i \in M : tasks[i] = Task("deliver", c) BY <1>1 DEF Due, Task
    <3> QED BY <3>1
  <2>3. g \in Bijection(Due(tasks), M)
    <3>1. g \in [Due(tasks) -> M]
      <4>1. \A c \in Due(tasks) : g[c] \in M BY <2>2
      <4> QED BY <4>1
    <3>2. ASSUME NEW c \in Due(tasks), NEW d \in Due(tasks), g[c] = g[d] PROVE c = d
      <4> HIDE DEF g
      <4>1. Task("deliver", c) = Task("deliver", d) BY <2>2, <3>2
      <4> QED BY <4>1 DEF Task
    <3>3. ASSUME NEW i \in M PROVE \E c \in Due(tasks) : g[c] = i
      <4> HIDE DEF g
      <4>1. tasks[i].conn \in Due(tasks) /\ tasks[g[tasks[i].conn]] = tasks[i] /\ g[tasks[i].conn] \in M BY <2>1, <2>2
      <4>2. g[tasks[i].conn] = i BY <1>1, <4>1 DEF WsInductive, Ordered
      <4> QED BY <4>1, <4>2
    <3> QED BY <3>1, <3>2, <3>3 DEF Bijection, Injection, Surjection, IsInjective
  <2>4. IsFiniteSet(Due(tasks)) /\ pending = Cardinality(Due(tasks)) BY DEF WsInductive, PendingIsDue
  <2>5. ExistsBijection(Due(tasks), M) BY <2>3 DEF ExistsBijection
  <2> QED BY <2>4, <2>5, FS_Bijection
<1>3. WsTypeOK
  <2>1. late \in BOOLEAN BY Zenon DEF WsInductive, NotLate
  <2>2. signals \in [Peers -> 0..1]
    <3>1. {0, 1} = 0..1 OBVIOUS
    <3> QED BY <3>1, Zenon DEF WsInductive, WsDomains
  <2>3. connections \subseteq Peers BY DEF WsInductive, WsDomains, Listed
  <2>4. \A i \in DOMAIN tasks : tasks[i] \in [kind : Kinds \cup {"deliver", "on_http"}, conn : Peers] BY <1>1 DEF ServerTasks
  <2> QED BY <1>2, <2>1, <2>2, <2>3, <2>4, Zenon DEF WsInductive, WsDomains, WsTypeOK, RequestsTyped
<1>4. MessagesWhileOpen
  <2>1. ~late BY Zenon DEF WsInductive, NotLate
  <2>2. tasks # <<>> /\ Head(tasks).kind = "message" => Conn \in connections
    BY HeadIs DEF WsInductive, WsDomains, Listed, Kinds
  <2> QED BY <2>1, <2>2, Zenon DEF MessagesWhileOpen, Conn
<1>5. BacklogIsBounded
  <2>1. Due(tasks) \subseteq Crowd(tasks, 0) /\ 0 \in 0..Len(tasks) BY <1>1 DEF Due, Crowd
  <2>2. IsFiniteSet(Crowd(tasks, 0)) /\ Cardinality(Crowd(tasks, 0)) <= AsioThreads BY <2>1 DEF WsInductive, CrowdIsSmall
  <2>3. Cardinality(Due(tasks)) <= Cardinality(Crowd(tasks, 0)) BY <2>1, <2>2, FS_Subset
  <2>4. pending = Cardinality(Due(tasks)) BY DEF WsInductive, PendingIsDue
  <2>5. Cardinality(Due(tasks)) \in Nat /\ Cardinality(Crowd(tasks, 0)) \in Nat
    BY <2>2, FS_CardinalityType DEF WsInductive, PendingIsDue
  <2> QED BY <2>2, <2>3, <2>4, <2>5, WsAssumption DEF BacklogIsBounded
<1>6. ASSUME end = "gone"
      PROVE  /\ \A i \in DOMAIN tasks : tasks[i].kind = "on_http" \/ tasks[i].conn \in missed
             /\ throttled \cup Running \cup connections \subseteq missed
             /\ \A c \in Peers \ missed : life[c] \in {"away", "ended"}
  <2>1. connections \subseteq missed /\ Coming \subseteq missed BY <1>6 DEF WsInductive, EndAgrees
  <2>2. ASSUME NEW c \in Peers \ missed PROVE life[c] \in {"away", "ended"}
    <3>1. life[c] # "shaking" /\ handler[c] # "open" /\ c \notin Listed
      BY <2>1 DEF Coming, WsInductive, WsDomains
    <3> QED BY <3>1 DEF Listed, WsInductive, WsDomains
  <2>3. \A c \in Peers \ missed : handler[c] = "none" /\ c \notin throttled
    BY <2>2 DEF WsInductive, LivesAgree
  <2>4. throttled \subseteq missed BY <2>3 DEF WsInductive, WsDomains
  <2>5. ASSUME NEW i \in DOMAIN tasks, tasks[i].conn \notin missed PROVE tasks[i].kind = "on_http"
    <3>1. tasks[i] \in ServerTasks /\ i \in 1..Len(tasks) BY <1>1
    <3>2. tasks[i].conn \in Peers \ missed BY <2>5, <3>1 DEF ServerTasks
    <3>3. tasks[i].kind \notin Kinds BY <2>3, <3>1, <3>2 DEF WsInductive, TasksAgree, Kinds
    <3>4. tasks[i].kind # "deliver" BY <2>2, <3>1, <3>2 DEF WsInductive, TasksAgree
    <3> QED BY <3>1, <3>3, <3>4 DEF ServerTasks
  <2> QED BY <2>1, <2>2, <2>3, <2>4, <2>5 DEF Running
<1> QED BY <1>3, <1>4, <1>5, <1>6 DEF NothingOutlivesServer

LEMMA ServerAlways == WsSpec => [](WsInductive /\ RequestsTyped)
<1>1. WsInit => WsInductive BY ServerStart
<1>2. WsInit => RequestsTyped BY DEF WsInit, RequestsTyped
<1>3. WsInductive /\ [WsNext]_wsVars => WsInductive' BY ServerStays
<1>4. WsInductive /\ WsInductive' /\ RequestsTyped /\ [WsNext]_wsVars => RequestsTyped' BY RequestsStay
<1> QED BY <1>1, <1>2, <1>3, <1>4, PTL DEF WsSpec

\* A server of websockets delivers messages only before closed(), and never has more of them waiting than there are
\* asio threads; its destructor leaves nothing behind that would use it, but for connections that were being made
\* when it copied the list of the others. A client emits closed() once, and its destructor leaves no task behind
\* unless close() refused it.
THEOREM WebsocketsAreGuarded == WsSpec /\ WcSpec => []WebsocketIsGuarded
<1>1. WsInductive /\ RequestsTyped => WsTypeOK /\ MessagesWhileOpen /\ BacklogIsBounded /\ NothingOutlivesServer
  BY ServerShows
<1>2. WsTypeOK /\ MessagesWhileOpen /\ BacklogIsBounded /\ NothingOutlivesServer
      /\ WcTypeOK /\ CloseIsEmitted /\ NoTaskOutlivesClient => WebsocketIsGuarded
  BY DEF WebsocketIsGuarded
<1> QED BY <1>1, <1>2, ServerAlways, ClientIsGuarded, PTL
====
