---- MODULE FileMutex ----
(* file_mutex (src/interprocess/file_mutex.cpp): a readers-writer lock for the threads of several
   processes. A process has a _write_lock (an fc::mutex, here its owner), a count of readers, and a
   lock on the file, which the kernel keeps per process: the last of its threads to set or drop it
   decides. *)
EXTENDS Integers, FiniteSets

CONSTANTS Lockers,      \* threads that use the mutex
          Processes,
          Home,         \* the process of each thread
          Nobody

ASSUME FmAssumption == /\ Home \in [Lockers -> Processes]
                       /\ Nobody \notin Lockers /\ IsFiniteSet(Lockers)

VARIABLES at,           \* where each thread is in the code
          write_lock,   \* the owner of _write_lock, in each process
          reader_count, \* _reader_count, in each process
          file,         \* the lock each process has on the file
          raced         \* processes whose lock was dropped while others relied on it

fmVars == <<at, write_lock, reader_count, file, raced>>

Relying == {"writing", "entered", "reading"}

FmInit == /\ at = [t \in Lockers |-> "out"] /\ write_lock = [p \in Processes |-> Nobody]
          /\ reader_count = [p \in Processes |-> 0] /\ file = [p \in Processes |-> "none"]
          /\ raced = {}

Goes(t, from, to) == at[t] = from /\ at' = [at EXCEPT ![t] = to]
----
(* The lock on the file. *)

SetFile(p, mode) ==
  /\ \A q \in Processes \ {p} :
        file[q] = "none" \/ (mode = "shared" /\ file[q] = "shared")
  /\ file' = [file EXCEPT ![p] = mode]

\* Whoever drops it drops it for the process.
DropFile(t) ==
  LET p == Home[t] IN
  /\ file' = [file EXCEPT ![p] = "none"]
  /\ raced' = IF \E u \in Lockers \ {t} : Home[u] = p /\ at[u] \in Relying
              THEN raced \cup {p} ELSE raced
----
TakeWriteLock(t) == /\ write_lock[Home[t]] = Nobody
                    /\ write_lock' = [write_lock EXCEPT ![Home[t]] = t]

LeaveWriteLock(t) == write_lock' = [write_lock EXCEPT ![Home[t]] = Nobody]

\* file_mutex::lock().
Lock(t) ==
  \/ /\ Goes(t, "out", "spin") /\ TakeWriteLock(t)
     /\ UNCHANGED <<reader_count, file, raced>>
  \/ /\ Goes(t, "spin", "file") /\ reader_count[Home[t]] = 0
     /\ UNCHANGED <<write_lock, reader_count, file, raced>>
  \/ /\ Goes(t, "file", "writing") /\ SetFile(Home[t], "exclusive")
     /\ UNCHANGED <<write_lock, reader_count, raced>>

\* file_mutex::unlock().
Unlock(t) ==
  \/ /\ Goes(t, "writing", "unlock") /\ DropFile(t)
     /\ UNCHANGED <<write_lock, reader_count>>
  \/ /\ Goes(t, "unlock", "out") /\ LeaveWriteLock(t)
     /\ UNCHANGED <<reader_count, file, raced>>

\* Fault: without _write_lock, and each reader is taken for the first.
LockSharedUnlocked(t) ==
  \/ /\ Goes(t, "out", "share") /\ reader_count' = [reader_count EXCEPT ![Home[t]] = 1]
     /\ UNCHANGED <<write_lock, file, raced>>
  \/ /\ Goes(t, "share", "reading") /\ SetFile(Home[t], "shared")
     /\ UNCHANGED <<write_lock, reader_count, raced>>

\* lock_shared(): under _write_lock; the first reader of a process locks the file.
LockShared(t) ==
  LET p == Home[t] IN
  \/ /\ Goes(t, "out", "enter") /\ TakeWriteLock(t)
     /\ UNCHANGED <<reader_count, file, raced>>
  \/ /\ Goes(t, "enter", IF reader_count[p] = 0 THEN "share" ELSE "entered")
     /\ reader_count' = [reader_count EXCEPT ![p] = @ + 1]
     /\ UNCHANGED <<write_lock, file, raced>>
  \/ /\ Goes(t, "share", "entered") /\ SetFile(p, "shared")
     /\ UNCHANGED <<write_lock, reader_count, raced>>
  \/ /\ Goes(t, "entered", "reading") /\ LeaveWriteLock(t)
     /\ UNCHANGED <<reader_count, file, raced>>

\* unlock_shared(), without _write_lock: between its two statements another thread may lock or share
\* the file.
UnlockShared(t) ==
  LET p == Home[t] IN
  \/ /\ Goes(t, "reading", IF reader_count[p] = 1 THEN "leave" ELSE "out")
     /\ reader_count' = [reader_count EXCEPT ![p] = @ - 1]
     /\ UNCHANGED <<write_lock, file, raced>>
  \/ /\ Goes(t, "leave", "out") /\ DropFile(t)
     /\ UNCHANGED <<write_lock, reader_count>>
----
FmStep(t) == Lock(t) \/ Unlock(t) \/ LockShared(t) \/ UnlockShared(t)

FmNext == \E t \in Lockers : FmStep(t)

FmSpec == FmInit /\ [][FmNext]_fmVars

\* A thread that has begun an operation is run, locks that are free for good are granted, and users
\* unlock.
FmGoesOn(t) == FmStep(t) /\ at[t] # "out"
----
(* Properties. *)

Positions == {"out", "spin", "file", "writing", "unlock", "enter", "share", "entered",
              "reading", "leave"}

\* Members of file_mutex_impl and the kernel's lock.  No reader that leaves takes the count below
\* zero.
FmTypeOK == /\ at \in [Lockers -> Positions] /\ write_lock \in [Processes -> Lockers \cup {Nobody}]
            /\ reader_count \in [Processes -> Int]
            /\ \A p \in Processes : reader_count[p] >= 0
            /\ file \in [Processes -> {"none", "shared", "exclusive"}] /\ raced \subseteq Processes

\* Within a process a writer is alone: lock() has waited for the readers, and keeps new ones out by
\* _write_lock.
WriterIsAlone ==
  \A t, u \in Lockers :
      at[t] = "writing" /\ u # t /\ Home[u] = Home[t] => at[u] \notin {"writing", "reading"}

\* Between processes too, unless the last reader of either has dropped the file lock while a new one
\* relied on it: unlock_shared() decrements and unlocks in two steps.
ProcessesExclude ==
  \A t, u \in Lockers :
      /\ at[t] = "writing" /\ at[u] \in {"writing", "reading"} /\ Home[u] # Home[t]
      => Home[t] \in raced \/ Home[u] \in raced

\* A process none of whose threads uses the mutex holds no lock on the file.
NothingLeftLocked ==
  \A p \in Processes :
      (\A t \in Lockers : Home[t] = p => at[t] = "out") => file[p] = "none"

\* A writer that waits for the readers of its process is let in when they leave: new ones cannot
\* overtake it.
WriterOvertakesReaders == \A t \in Lockers : at[t] = "spin" ~> at[t] = "file"

\* file_mutex excludes within a process, between processes, and is left free.
FileMutexExcludes == FmTypeOK /\ WriterIsAlone /\ ProcessesExclude /\ NothingLeftLocked
====
