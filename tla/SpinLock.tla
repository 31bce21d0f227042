---- MODULE SpinLock ----
(* fc::spin_lock and fc::spin_yield_lock (src/thread/spin_lock.cpp,
   spin_yield_lock.cpp): a word that is exchanged until it was unlocked,
   with or without a deadline, and fc::unique_lock, which remembers
   whether it has locked.  Each caller is a fiber of a thread; those of
   one thread take turns, and one that spins keeps its thread, unless the
   lock is the kind that yields. *)
EXTENDS Naturals

CONSTANTS Callers,
          ThreadOf,     \* the thread of a caller
          Yielding      \* the lock is a spin_yield_lock

ASSUME SlAssumption == ThreadOf \in [Callers -> {ThreadOf[c] : c \in Callers}] /\ Yielding \in BOOLEAN

VARIABLES word,     \* _lock: "locked" or "unlocked"
          running,  \* the callers that have their thread
          at        \* idle; lock, until: inside a loop; owns, failed: has a unique_lock

slVars == <<word, running, at>>

States == {"idle", "lock", "until", "owns", "failed"}

SlInit == /\ word = "unlocked" /\ at = [c \in Callers |-> "idle"]
          /\ running \in {cs \in SUBSET Callers :
                            /\ \A c \in Callers : \E d \in cs : ThreadOf[d] = ThreadOf[c]
                            /\ \A c, d \in cs : ThreadOf[c] = ThreadOf[d] => c = d}

To(c, s) == at' = [at EXCEPT ![c] = s]

\* lock(), try_lock_until() and try_lock_for() begin.
SlCall(c) == /\ c \in running /\ at[c] = "idle"
             /\ \E s \in {"lock", "until"} : To(c, s)
             /\ UNCHANGED <<word, running>>

\* exchange( locked ): what was there before tells whether the lock was taken.
Exchange(c, got, not) == word' = "locked" /\ To(c, IF word = "unlocked" THEN got ELSE not)

SlLock(c) == c \in running /\ at[c] = "lock" /\ Exchange(c, "owns", "lock") /\ UNCHANGED running

\* One round of try_lock_until(): before the deadline, or after it.
SlTryInTime(c) == c \in running /\ at[c] = "until" /\ Exchange(c, "owns", "until") /\ UNCHANGED running
SlTooLate(c) == c \in running /\ at[c] = "until" /\ To(c, "failed") /\ UNCHANGED <<word, running>>

\* try_lock().
SlTry(c) == c \in running /\ at[c] = "idle" /\ Exchange(c, "owns", "failed") /\ UNCHANGED running

\* Fault: the destructor of unique_lock unlocks even what it could not lock.
SlUnlockAlways(c) == /\ c \in running /\ at[c] \in {"owns", "failed"} /\ To(c, "idle")
                     /\ word' = "unlocked" /\ UNCHANGED running

\* unlock() and ~unique_lock().
SlUnlock(c) == /\ c \in running /\ at[c] \in {"owns", "failed"} /\ To(c, "idle")
               /\ word' = (IF at[c] = "owns" THEN "unlocked" ELSE word)
               /\ UNCHANGED running

\* Another fiber of the thread goes on: not from inside the loops of a spin_lock.
SlYield(c, d) == /\ c \in running /\ ThreadOf[c] = ThreadOf[d] /\ c # d
                 /\ at[c] \in {"lock", "until"} => Yielding
                 /\ running' = (running \ {c}) \cup {d} /\ UNCHANGED <<word, at>>

SlNext == \E c \in Callers :
    \/ SlCall(c) \/ SlLock(c) \/ SlTryInTime(c) \/ SlTooLate(c) \/ SlTry(c) \/ SlUnlock(c)
    \/ \E d \in Callers : SlYield(c, d)

SlSpec == SlInit /\ [][SlNext]_slVars
----
(* Properties. *)

\* The domains of the word and of what the callers of lock() and unlock() do.
SlTypeOK == /\ word \in {"locked", "unlocked"} /\ running \subseteq Callers
            /\ at \in [Callers -> States]

\* One caller at a time owns the lock, and while none does the word says so, so
\* that nobody spins on a lock without an owner.
SlOneOwner == /\ \A c, d \in Callers : at[c] = "owns" /\ at[d] = "owns" => c = d
              /\ word = "locked" <=> \E c \in Callers : at[c] = "owns"
====
