---- MODULE BufferedStreams ----
(* buffered_istream and buffered_ostream (src/io/buffered_iostream.cpp), with read(), write() and
   getline() (iostream.cpp), over a stream that takes and yields as many bytes as it likes; the
   bytes are 1, 2, 3, ... One fiber reads; some write, one of them at a time flushes, which may
   block below. *)
EXTENDS Integers, Sequences, SequencesExt

CONSTANTS Length,       \* bytes of the stream below
          MinimumRead,  \* minimum_read_size
          MaxLen,       \* most bytes that are asked for at once
          WriteSize,    \* write_buffer_size
          MayFail       \* the stream below may throw, once

VARIABLES fetched,      \* bytes that the stream below has yielded
          rdbuf,        \* _rdbuf of the reader
          given,          \* bytes that the reader was given
          wanted,       \* bytes that read() still waits for
          peeked,       \* the byte that peek() showed last, until one is read
          put,          \* bytes that were written
          wrbuf,        \* _rdbuf of the writer
          flushing,     \* _shared_write_buffer, and what flush() was called for
          sent,         \* bytes that the stream below was given
          dropped       \* ghost: bytes that an exception took away

bsVars == <<fetched, rdbuf, given, wanted, peeked, put, wrbuf, flushing, sent, dropped>>
inVars == <<fetched, rdbuf, given, wanted, peeked>>
outVars == <<put, wrbuf, flushing, sent, dropped>>

Run(a, b) == [i \in 1..b - a + 1 |-> a + i - 1]
Idle == [chunk |-> <<>>, upto |-> 0]

BsInit ==
  /\ fetched = 0 /\ rdbuf = <<>> /\ given = <<>> /\ wanted = 0 /\ peeked = 0
  /\ put = 0 /\ wrbuf = <<>> /\ flushing = Idle /\ sent = <<>> /\ dropped = {}

\* _istr->readsome(): between one and so many bytes; at the end it throws.
Chunks(most) == {Run(fetched + 1, fetched + n) : n \in 1..(IF most < Length - fetched THEN most ELSE Length - fetched)}

\* What a read into the own buffer leaves there.
KeptOf(chunk, len) == SubSeq(chunk, len + 1, Len(chunk))

\* readsome(): what the buffer has, else what the stream yields, directly if more than MinimumRead
\* is asked for.
ReadSome(len) ==
  \/ /\ rdbuf # <<>>
     /\ LET n == IF len < Len(rdbuf) THEN len ELSE Len(rdbuf) IN
        /\ given' = given \o SubSeq(rdbuf, 1, n) /\ rdbuf' = SubSeq(rdbuf, n + 1, Len(rdbuf))
        /\ wanted' = (IF wanted = 0 THEN 0 ELSE wanted - n) /\ peeked' = 0 /\ UNCHANGED fetched
  \/ /\ rdbuf = <<>> /\ len > MinimumRead
     /\ \E chunk \in Chunks(len) :
          /\ given' = given \o chunk /\ fetched' = fetched + Len(chunk) /\ UNCHANGED rdbuf
          /\ wanted' = (IF wanted = 0 THEN 0 ELSE wanted - Len(chunk)) /\ peeked' = 0
  \/ /\ rdbuf = <<>> /\ len <= MinimumRead
     /\ \E chunk \in Chunks(MinimumRead) :
          LET n == IF len < Len(chunk) THEN len ELSE Len(chunk) IN
          /\ given' = given \o SubSeq(chunk, 1, n) /\ rdbuf' = KeptOf(chunk, len)
          /\ fetched' = fetched + Len(chunk)
          /\ wanted' = (IF wanted = 0 THEN 0 ELSE wanted - n) /\ peeked' = 0

\* read(): readsome() of the rest until it is there; eof leaves the caller with less.
ReadAll(len) == wanted = 0 /\ wanted' = len /\ UNCHANGED <<fetched, rdbuf, given, peeked>>
ReadOn == wanted > 0 /\ ReadSome(wanted)
ReadFails == wanted > 0 /\ rdbuf = <<>> /\ fetched = Length /\ wanted' = 0 /\ UNCHANGED <<fetched, rdbuf, given, peeked>>

\* peek().
PeekByte ==
  /\ wanted = 0
  /\ \E chunk \in IF rdbuf = <<>> THEN Chunks(MinimumRead) ELSE {<<>>} :
      /\ rdbuf' = rdbuf \o chunk /\ fetched' = fetched + Len(chunk) /\ peeked' = rdbuf'[1]
  /\ UNCHANGED <<given, wanted>>
----
\* writesome(), by any fiber: the buffer takes everything.
WriteSome(n) ==
  /\ put + n <= Length /\ put' = put + n /\ wrbuf' = wrbuf \o Run(put + 1, put + n)
  /\ UNCHANGED <<flushing, sent, dropped>>

Take == IF Len(wrbuf) < WriteSize THEN Len(wrbuf) ELSE WriteSize

\* flush() begins: the first bytes are in its own buffer.
Flush ==
  /\ flushing = Idle /\ wrbuf # <<>>
  /\ flushing' = [chunk |-> SubSeq(wrbuf, 1, Take), upto |-> put]
  /\ wrbuf' = SubSeq(wrbuf, Take + 1, Len(wrbuf)) /\ UNCHANGED <<put, sent, dropped>>

\* The stream takes some bytes; after all of a buffer the next one, whoever wrote it meanwhile.
FlushOn(n) ==
  /\ flushing.chunk # <<>> /\ n \in 1..Len(flushing.chunk)
  /\ sent' = sent \o SubSeq(flushing.chunk, 1, n)
  /\ IF n < Len(flushing.chunk)
     THEN /\ flushing' = [flushing EXCEPT !.chunk = SubSeq(@, n + 1, Len(@))]
          /\ UNCHANGED wrbuf
     ELSE /\ flushing' = IF wrbuf = <<>> THEN Idle ELSE [flushing EXCEPT !.chunk = SubSeq(wrbuf, 1, Take)]
          /\ wrbuf' = SubSeq(wrbuf, Take + 1, Len(wrbuf))
  /\ UNCHANGED <<put, dropped>>

\* The stream below throws: flush() ends, and its buffer is forgotten.
FlushFails ==
  /\ flushing.chunk # <<>> /\ dropped = {} /\ MayFail
  /\ dropped' = ToSet(flushing.chunk) /\ flushing' = Idle /\ UNCHANGED <<put, wrbuf, sent>>

BsNext ==
  \/ \E n \in 1..MaxLen : /\ UNCHANGED outVars
                          /\ ReadAll(n) \/ (wanted = 0 /\ ReadSome(n))
  \/ (ReadOn \/ ReadFails \/ PeekByte) /\ UNCHANGED outVars
  \/ \E n \in 1..MaxLen : (WriteSome(n) \/ FlushOn(n)) /\ UNCHANGED inVars
  \/ (Flush \/ FlushFails) /\ UNCHANGED inVars
----
(* Properties. *)

\* The reader gets every byte once and in order, and peek() showed the next one.
ReadInOrder == given \o rdbuf = Run(1, fetched) /\ (peeked # 0 => peeked = Len(given) + 1)

\* The stream below gets what was written in order, but for what went with an exception.
WrittenInOrder == SelectSeq(Run(1, put), LAMBDA b : b \notin dropped) = sent \o flushing.chunk \o wrbuf

\* When flush() returns, all that was written before it was called is below.
FlushDelivers ==
  [][flushing # Idle /\ flushing' = Idle /\ dropped' = dropped
     => \A b \in 1..flushing.upto : b \in dropped \/ Contains(sent', b)]_bsVars
====
