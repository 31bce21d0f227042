---- MODULE CinBuffer ----
(* cin_buffer and cin_t (src/io/stdio_in.cpp): a thread reads std::cin into a ring, a fiber of
   another thread reads from it. The positions are shared without a lock; only read_ready is copied
   under one. A byte is its number in the input; a promise is its age for the thread that holds a
   copy, since only the newest is waited on. *)
EXTENDS Integers

CONSTANTS Size,     \* of the buffer: 2^20
          MaxBytes, \* bounds the input
          MaxAsked  \* bounds the length of a read

ASSUME CinAssumption == Size \in Nat \ {0} /\ MaxBytes \in Nat /\ MaxAsked \in Nat \ {0}

VARIABLES write_pos, read_pos, buf, eof,
          read_ready,   \* the newest promise a reader made
          registered,   \* whether the member read_ready holds it
          write_ready,  \* the newest promise of the writer, "none" once reset
          writer, told, \* where the cin thread is, and its copy of read_ready
          reader, sees, \* where the reader is, and its copy of write_ready
          asked, avail  \* what the reader still wants; what this readsome() takes

cinVars == <<write_pos, read_pos, buf, eof, read_ready, registered, write_ready,
             writer, told, reader, sees, asked, avail>>
shared == <<write_pos, read_pos, buf, eof, read_ready, registered, write_ready>>
readerVars == <<reader, sees, asked, avail>>
writerVars == <<writer, told>>
rangeVars == <<told, read_ready, registered>>

CinInit == /\ write_pos = 0 /\ read_pos = 0 /\ eof = FALSE /\ buf = [i \in 0..Size - 1 |-> -1]
           /\ read_ready = "none" /\ registered = FALSE /\ write_ready = "none"
           /\ writer = "input" /\ told = "nothing"
           /\ reader = "out" /\ sees = "nothing" /\ asked = 0 /\ avail = 0

Buffered == write_pos - read_pos
----
(* The thread "cin": cin_buffer::read(). *)

WriterGoes(from, to) == writer = from /\ writer' = to

\* std::cin.read(): a byte, or the end.
Input ==
  /\ \/ WriterGoes("input", "space") /\ write_pos < MaxBytes /\ UNCHANGED eof
     \/ WriterGoes("input", "ended") /\ eof' = TRUE
  /\ UNCHANGED <<rangeVars, write_pos, read_pos, buf, write_ready, readerVars>>

\* While the buffer is full: make a promise, and wait for it if there is room by then (sic), else go
\* round again.
Space ==
  /\ \/ WriterGoes("space", "promise") /\ Buffered >= Size /\ UNCHANGED write_ready
     \/ WriterGoes("space", "put") /\ Buffered < Size /\ UNCHANGED write_ready
     \/ WriterGoes("promise", "again") /\ write_ready' = "pending"
     \/ WriterGoes("again", "wait") /\ Buffered < Size /\ UNCHANGED write_ready
     \/ WriterGoes("again", "space") /\ Buffered >= Size /\ write_ready' = "none"
     \/ WriterGoes("wait", "space") /\ write_ready = "done" /\ write_ready' = "none"
  /\ sees' = IF writer = "promise" /\ sees = "newest" THEN "older" ELSE sees
  /\ UNCHANGED <<rangeVars, write_pos, read_pos, buf, eof, reader, asked, avail>>

\* buf[write_pos & 0xfffff] = c, then write_pos + 1.
Put == /\ \/ /\ WriterGoes("put", "publish")
             /\ buf' = [buf EXCEPT ![write_pos % Size] = write_pos] /\ UNCHANGED write_pos
          \/ /\ WriterGoes("publish", "copy")
             /\ write_pos' = write_pos + 1 /\ UNCHANGED buf
       /\ UNCHANGED <<rangeVars, read_pos, eof, write_ready, readerVars>>

\* Fault: the test of ready() is inverted.
SettledTwice(outcome) ==
  IF told = "newest" /\ read_ready # "pending" THEN outcome ELSE read_ready

Settled(outcome) ==
  IF told = "newest" /\ read_ready = "pending" THEN outcome ELSE read_ready

\* tmp = read_ready, under its mutex; if it is there and not ready, set_value(), or set_exception()
\* at the end.
Tell ==
  /\ \/ /\ WriterGoes("copy", "tell") \/ WriterGoes("ended", "tell end")
        /\ told' = IF registered THEN "newest" ELSE "nothing"
        /\ UNCHANGED read_ready
     \/ /\ \/ WriterGoes("tell", "input") /\ read_ready' = Settled("value")
           \/ WriterGoes("tell end", "stopped") /\ read_ready' = Settled("exception")
        /\ told' = "nothing"
  /\ UNCHANGED <<write_pos, read_pos, buf, eof, registered, write_ready, readerVars>>
----
(* The reader: cin_t::read() and cin_t::readsome(). *)

ReaderGoes(from, to) == reader = from /\ reader' = to

\* read() of n bytes, or readsome() of up to n, which returns what is there, or reads one byte if
\* nothing is.
Call ==
  /\ \E n \in 1..MaxAsked :
        \/ /\ ReaderGoes("out", "look") /\ asked' = n /\ UNCHANGED avail
        \/ /\ IF Buffered = 0 THEN ReaderGoes("out", "look") /\ asked' = 1 /\ UNCHANGED avail
              ELSE /\ ReaderGoes("out", "take some") /\ asked' = 0
                   /\ avail' = IF n < Buffered THEN n ELSE Buffered
  /\ UNCHANGED <<shared, writerVars, sees>>

\* While there is nothing and no end: register a promise, look again, wait.  An exception leaves the
\* promise registered.
WaitForMore ==
  /\ \/ /\ ReaderGoes("look", IF ~eof /\ Buffered = 0 THEN "register" ELSE "end?")
        /\ UNCHANGED rangeVars
     \/ /\ ReaderGoes("register", "recheck")
        /\ read_ready' = "pending" /\ registered' = TRUE
        /\ told' = IF told = "newest" THEN "older" ELSE told
     \/ /\ ReaderGoes("recheck", IF Buffered = 0 THEN "wait" ELSE "reset")
        /\ UNCHANGED rangeVars
     \/ /\ ReaderGoes("wait", IF read_ready = "value" THEN "reset" ELSE "out")
        /\ read_ready # "pending" /\ UNCHANGED rangeVars
     \/ /\ ReaderGoes("reset", "look") /\ registered' = FALSE
        /\ UNCHANGED <<read_ready, told>>
  /\ UNCHANGED <<write_pos, read_pos, buf, eof, write_ready, writer, sees, asked, avail>>

\* The end throws, whatever is buffered; or readsome().
EndOrTake ==
  /\ \/ ReaderGoes("end?", "out") /\ eof /\ UNCHANGED <<asked, avail>>
     \/ /\ ReaderGoes("end?", "take") /\ ~eof
        /\ avail' = IF asked < Buffered THEN asked ELSE Buffered
        /\ UNCHANGED asked
  /\ UNCHANGED <<shared, writerVars, sees>>

\* A byte is copied, then read_pos + 1.  What a readsome() takes ends the call without telling the
\* writer.
Take ==
  /\ reader \in {"take", "take some"} /\ avail > 0 /\ read_pos' = read_pos + 1
  /\ avail' = avail - 1
  /\ asked' = IF reader = "take" THEN asked - 1 ELSE asked
  /\ reader' = IF avail > 1 THEN reader ELSE IF reader = "take" THEN "taken" ELSE "out"
  /\ UNCHANGED <<write_pos, buf, eof, read_ready, registered, write_ready, writerVars, sees>>

\* tmp = write_ready; if it is there and not ready, set_value().  Then the next round, the return,
\* or the end.
Release ==
  /\ \/ /\ ReaderGoes("taken", "release")
        /\ sees' = IF write_ready = "none" THEN "nothing" ELSE "newest"
        /\ UNCHANGED write_ready
     \/ /\ ReaderGoes("release", IF asked > 0 /\ ~eof THEN "look" ELSE "out")
        /\ write_ready' = IF sees = "newest" /\ write_ready = "pending" THEN "done"
                          ELSE write_ready
        /\ sees' = "nothing"
  /\ UNCHANGED <<write_pos, read_pos, buf, eof, read_ready, registered, writerVars, asked, avail>>
----
WriterStep == Input \/ Space \/ Put \/ Tell
ReaderStep == WaitForMore \/ EndOrTake \/ Take \/ Release

CinNext == WriterStep \/ Call \/ ReaderStep

CinSpec == CinInit /\ [][CinNext]_cinVars
----
(* Properties. *)

\* Domains.  The positions are never further apart than the buffer holds, nor does the reader pass
\* the writer.
CinTypeOK ==
  /\ write_pos \in 0..MaxBytes /\ read_pos \in 0..write_pos /\ Buffered <= Size
  /\ buf \in [0..Size - 1 -> -1..MaxBytes] /\ eof \in BOOLEAN
  /\ read_ready \in {"none", "pending", "value", "exception"} /\ registered \in BOOLEAN
  /\ write_ready \in {"none", "pending", "done"}
  /\ told \in {"nothing", "newest", "older"} /\ sees \in {"nothing", "newest", "older"}
  /\ asked \in 0..MaxAsked /\ avail \in 0..Buffered

\* What is published and not yet read is in its place: not published early, nor overwritten.
UnreadIsIntact == \A i \in read_pos..write_pos - 1 : buf[i % Size] = i

\* A reader that waits although there is something to read will be told by a writer on its way.
ReaderIsTold ==
  reader = "wait" /\ read_ready = "pending" /\ Buffered > 0
  => writer = "copy" \/ (writer = "tell" /\ told = "newest")

\* A reader that has asked gets the bytes there are, or the end.
WaitingIsRead == reader = "wait" /\ Buffered > 0 ~> reader # "wait"

\* Bytes of std::cin pass the ring once and in order, and no reader sleeps on them.
InputIsIntact == CinTypeOK /\ UnreadIsIntact /\ ReaderIsTold
====
