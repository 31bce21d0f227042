---- MODULE LogRotation ----
(* file_appender and json_file_appender (src/log): a task that schedules itself opens a file for
   every rotation_interval, links the configured name to it, deletes old files and, for JSON,
   compresses the others; any thread logs to the open file under slock. A file is named by the start
   of its interval and holds the times of its lines. *)
EXTENDS Integers, FiniteSets

CONSTANTS RotationInterval, RotationLimit,  \* of the configuration, in ticks
          Lateness,     \* how late the scheduled task may run
          MaxClock, MaxLines, MaxBack, MaxRestarts, MaxFailures   \* bounds

\* The two FC_ASSERTs of impl().
ASSUME LrAssumption == RotationInterval >= 1 /\ RotationLimit >= RotationInterval /\ Lateness \in Nat

VARIABLES truncate,     \* of the configuration
          now,
          files,        \* existing files: their lines
          link,         \* what the configured name is linked to; -1: no such file
          out,          \* the open file; -1: none
          startTime,    \* _current_file_start_time
          due,          \* when the rotation task runs next; -1: it has ended
          woken,        \* whether the scheduler has found its time to have come
          fresh,        \* whether that is the first time: initializing
          written,      \* lines that went to a file
          back, restarts, failures

lrVars == <<truncate, now, files, link, out, startTime, due, woken, fresh, written, back, restarts,
            failures>>

LrInit == /\ truncate \in BOOLEAN /\ now = 0 /\ files = [f \in {} |-> {}] /\ link = -1 /\ out = -1
          /\ startTime = 0 /\ due = 0 /\ woken = FALSE /\ fresh = TRUE /\ written = {}
          /\ back = 0 /\ restarts = 0 /\ failures = 0
----
\* get_file_start_time().
FileStart(t) == (t \div RotationInterval) * RotationInterval

\* out.open(): with truncation, or at the end.
WithOpened(f) == [g \in DOMAIN files \cup {f} |->
                IF g \in DOMAIN files /\ (g # f \/ ~truncate) THEN files[g] ELSE {}]

\* The directory after old files have been deleted: those that start before the
\* limit, and empty ones; never one that starts with or after the open one.
Kept(all, f) ==
  [g \in {h \in DOMAIN all : h < f => h >= now - RotationLimit /\ all[h] # {}} |-> all[g]]

TooEarly(f) == ~fresh /\ f <= startTime

\* The time of the task has come; the clock may be set back before it runs.
Wake == /\ due # -1 /\ due <= now /\ ~woken /\ woken' = TRUE
        /\ UNCHANGED <<truncate, now, files, link, out, startTime, due, fresh, written, back, restarts,
                       failures>>

\* rotate_files().
Rotate ==
  /\ woken /\ woken' = FALSE
  /\ IF TooEarly(FileStart(now))
     THEN due' = startTime + RotationInterval /\ UNCHANGED <<files, link, out, startTime, fresh>>
     ELSE LET f == FileStart(now) IN
          /\ out' = f /\ link' = f /\ files' = Kept(WithOpened(f), f)
          /\ startTime' = f /\ due' = f + RotationInterval /\ fresh' = FALSE
  /\ UNCHANGED <<truncate, now, written, back, restarts, failures>>

\* The old link cannot be removed, or the new one not be made: the exception
\* ends the task.
RotateThrows ==
  /\ woken /\ woken' = FALSE /\ ~TooEarly(FileStart(now))
  /\ failures < MaxFailures /\ failures' = failures + 1
  /\ \/ out' = -1 /\ UNCHANGED <<files, link>>
     \/ out' = FileStart(now) /\ files' = WithOpened(out') /\ link' = -1
  /\ due' = -1 /\ UNCHANGED <<truncate, now, startTime, fresh, written, back, restarts>>

\* log(): lost if no file is open, as before the first rotation.
Log == /\ IF out = -1 THEN UNCHANGED <<files, written>>
          ELSE /\ Cardinality(written) < MaxLines
               /\ files' = [files EXCEPT ![out] = @ \cup {now}] /\ written' = written \cup {now}
       /\ UNCHANGED <<truncate, now, link, out, startTime, due, woken, fresh, back, restarts, failures>>

\* The program ends, or the logging is configured anew.
Restart == /\ restarts < MaxRestarts /\ restarts' = restarts + 1
           /\ out' = -1 /\ startTime' = 0 /\ due' = now /\ woken' = FALSE /\ fresh' = TRUE
           /\ UNCHANGED <<truncate, now, files, link, written, back, failures>>

\* The clock goes on, or is set back.
Clock == /\ \/ /\ now < MaxClock /\ (due = -1 \/ now < due + Lateness)
               /\ now' = now + 1 /\ UNCHANGED back
            \/ /\ now > 0 /\ back < MaxBack /\ ~fresh
               /\ now' = now - 1 /\ back' = back + 1
         /\ UNCHANGED <<truncate, files, link, out, startTime, due, woken, fresh, written, restarts, failures>>

LrNext == Wake \/ Rotate \/ RotateThrows \/ Log \/ Restart \/ Clock

LrSpec == LrInit /\ [][LrNext]_lrVars
----
(* Properties. *)

\* The domain of every variable.  What is open exists, and so does what the
\* configured name is linked to.
LrTypeOK ==
  /\ truncate \in BOOLEAN /\ now \in 0..MaxClock /\ fresh \in BOOLEAN /\ woken \in BOOLEAN
  /\ DOMAIN files \subseteq {FileStart(t) : t \in 0..MaxClock}
  /\ \A f \in DOMAIN files : files[f] \subseteq 0..MaxClock
  /\ out \in DOMAIN files \cup {-1}
  /\ (out # -1 /\ link # -1) => link \in DOMAIN files
  /\ startTime \in 0..MaxClock /\ due \in -1..MaxClock + RotationInterval
  /\ written \subseteq 0..MaxClock

\* A line is kept for the limit less one interval and what the task is late,
\* unless files are truncated or a rotation has failed: a file is judged by its
\* start, not by the lines it got last.
YoungLinesKept ==
  ~truncate /\ back = 0 /\ failures = 0
  => \A t \in written : now - t <= RotationLimit - RotationInterval - Lateness
                        => \E f \in DOMAIN files : t \in files[f]

\* Only as many files as intervals fit into the limit are left, and the open
\* one, however often the program restarts.
FilesAreFew ==
  failures = 0 /\ back = 0 /\ ~fresh
  => Cardinality(DOMAIN files) <= RotationLimit \div RotationInterval + 1

\* The configured name is linked to the file that is written, and the task will
\* look again when its interval ends, unless an exception ended it.
RotationGoesOn ==
  failures = 0 /\ ~fresh => link = out /\ due \in startTime..startTime + RotationInterval
====
