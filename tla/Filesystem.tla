---- MODULE Filesystem ----
(* filesystem.cpp: temp_file and temp_directory, simple_lock_file, make_relative(). unique_path()
   gives a name that no object has. A path is a sequence of names, from the root. *)
EXTENDS Integers, Sequences, SequencesExt, FiniteSets

CONSTANTS
    TempObjects,  \* the variables a program has for temp_file and temp_directory
    TempNames,    \* what unique_path() returns
    Lockers,      \* the simple_lock_file objects, of any processes
    Descriptors   \* the descriptors of open files

VARIABLES
    path,         \* per object: {}, nothing; {n}, its _path
    alive,        \* the objects that are constructed
    disk,         \* the names that exist
    left,         \* names that stay by release(), or as their removal failed
    doubled,      \* names that were moved by an assignment
    handle,       \* per locker: {} or its file_handle
    open,         \* the open descriptors of the file
    flocked       \* {} or the descriptor that has the lock

tempVars == <<path, alive, disk, left, doubled>>
lockVars == <<handle, open, flocked>>
fsVars == <<tempVars, lockVars>>

\* The domain of every variable.  What flock() locked is a descriptor that is open.
FsTypeOK ==
  /\ path \in [TempObjects -> SUBSET TempNames] /\ alive \subseteq TempObjects
  /\ disk \subseteq TempNames /\ left \subseteq TempNames /\ doubled \subseteq TempNames
  /\ handle \in [Lockers -> SUBSET Descriptors]
  /\ open \subseteq Descriptors /\ flocked \subseteq open

Held == UNION {path[o] : o \in TempObjects}

FsInit ==
  /\ path = [o \in TempObjects |-> {}] /\ alive = {} /\ doubled = {}
  /\ disk \in SUBSET TempNames /\ left = disk
  /\ handle = [k \in Lockers |-> {}] /\ open = {} /\ flocked = {}
----
(* temp_file and temp_directory. *)

\* A name that exists is a collision: the constructor throws.
Construct(o, create) ==
  \E n \in TempNames \ Held :
      /\ o \notin alive /\ n \notin disk
      /\ alive' = alive \union {o} /\ path' = [path EXCEPT ![o] = {n}]
      /\ disk' = IF create THEN disk \union {n} ELSE disk
      /\ left' = left \ {n} /\ doubled' = doubled \ {n}

\* The program makes a file of the name it got.
Use(o) ==
  /\ path[o] \cap doubled = {} /\ ~(path[o] \subseteq disk)
  /\ disk' = disk \union path[o] /\ left' = left \ path[o] /\ UNCHANGED <<path, alive, doubled>>

\* Fault: the source stays an owner.
MoveConstructCopies(o, p) ==
  /\ o \notin alive /\ p \in alive
  /\ alive' = alive \union {o} /\ path' = [path EXCEPT ![o] = path[p]]
  /\ UNCHANGED <<disk, left, doubled>>

MoveConstruct(o, p) ==
  /\ o \notin alive /\ p \in alive
  /\ alive' = alive \union {o} /\ path' = [path EXCEPT ![o] = path[p], ![p] = {}]
  /\ UNCHANGED <<disk, left, doubled>>

\* temp_file_base::remove(): an error of remove_all() is eaten.
RemovedFrom(o) ==
  \E kept \in SUBSET (path[o] \cap disk) :
      disk' = (disk \ path[o]) \union kept /\ left' = left \union kept

\* remove() has emptied _path. The assignment to an empty optional leaves the source valid
\* (optional.hpp:164), and fc::path moves by copying: fwd's constructor is given an fc::path, which
\* converts to its boost path by a reference to an lvalue (filesystem.cpp:79). So both have the name.
MoveAssign(o, p) ==
  /\ {o, p} \subseteq alive /\ o # p /\ RemovedFrom(o) /\ path' = [path EXCEPT ![o] = path[p]]
  /\ doubled' = doubled \union path[p] /\ UNCHANGED alive

RemoveTemp(o) ==
  /\ o \in alive /\ path[o] # {} /\ RemovedFrom(o)
  /\ path' = [path EXCEPT ![o] = {}] /\ UNCHANGED <<alive, doubled>>

Release(o) ==
  /\ o \in alive /\ path[o] # {} /\ path' = [path EXCEPT ![o] = {}] /\ left' = left \union path[o]
  /\ UNCHANGED <<alive, disk, doubled>>

DestroyTemp(o) ==
  /\ o \in alive /\ RemovedFrom(o)
  /\ alive' = alive \ {o} /\ path' = [path EXCEPT ![o] = {}] /\ UNCHANGED doubled

TempNext ==
  /\ UNCHANGED lockVars
  /\ \E o \in TempObjects :
        \/ \E create \in BOOLEAN : Construct(o, create)
        \/ Use(o) \/ RemoveTemp(o) \/ Release(o) \/ DestroyTemp(o)
        \/ \E p \in TempObjects : MoveConstruct(o, p) \/ MoveAssign(o, p)
----
(* simple_lock_file. *)

\* A lock that is held, by this object too, is on another open file.
TryLock(k) ==
  \E d \in Descriptors \ open :
      IF flocked # {} THEN UNCHANGED lockVars
      ELSE /\ open' = open \union {d} /\ flocked' = {d}
           /\ handle' = [handle EXCEPT ![k] = {d}]

\* unlock() and the destructor: those of -1 do nothing.
Unlock(k) ==
  /\ open' = open \ handle[k] /\ flocked' = flocked \ handle[k]
  /\ handle' = [handle EXCEPT ![k] = {}]

LockNext == UNCHANGED tempVars /\ \E k \in Lockers : TryLock(k) \/ Unlock(k)

FsNext == TempNext \/ LockNext
----
(* make_relative() *)

RECURSIVE CommonOf(_, _)
CommonOf(from, to) ==
  IF from = <<>> \/ to = <<>> THEN 0
  ELSE IF Head(from) # Head(to) THEN 0 ELSE 1 + CommonOf(Tail(from), Tail(to))

MakeRelative(from, to) ==
  LET n == CommonOf(from, to)
      back == SelectSeq(SubSeq(from, n + 1, Len(from)), LAMBDA e : e # ".")
  IN  [i \in DOMAIN back |-> ".."] \o SubSeq(to, n + 1, Len(to))

\* What a path names, when no name is a link.
Resolved(p) ==
  FoldLeft(LAMBDA at, e : IF e = "." THEN at
                          ELSE IF e # ".." THEN Append(at, e)
                          ELSE IF at = <<>> THEN at ELSE Front(at),
           <<>>, p)
----
(* Properties. *)

\* An object that names a file shares it only after an assignment of the one to the other.
NameHasOneOwner ==
  \A o, p \in TempObjects : o # p => path[o] \cap path[p] \subseteq doubled

\* On the disk stays only what an object names, what was released, and what could not be removed.
NothingStays == disk \subseteq Held \union left

\* One simple_lock_file holds the lock, and it is that which has it open.
OneHoldsTheFile ==
  /\ \A k, m \in Lockers : handle[k] # {} /\ handle[m] # {} => k = m
  /\ \A k \in Lockers : handle[k] # {} => flocked = handle[k]

\* No descriptor stays open but a holder's, however often try_lock() fails.
OpenIsHeld == open = UNION {handle[k] : k \in Lockers}

\* What make_relative() returns, appended to the one path, leads to the other, unless that has ".."
\* of its own.
RelativeLeadsTo(from, to) ==
  ".." \notin ToSet(from) => Resolved(from \o MakeRelative(from, to)) = Resolved(to)
====
