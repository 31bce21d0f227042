---- MODULE Deflate ----
(* src/compress/miniz.c: the search for matches in a ring (positions are words of 16 bits), the
   lengths of Huffman codes and their packing. Sizes are scaled down; a code is a sequence of bits.
   *)
EXTENDS Integers, Sequences, SequencesExt, FiniteSetsExt

CONSTANTS Window, MaxMatch, LongMatch, \* TDEFL_LZ_DICT_SIZE, TDEFL_MAX_MATCH_LEN, 128
          LzWord,               \* what a mz_uint16 can hold
          HashSize, Probes, FarAway, \* m_max_probes, 8K
          FastLookahead,        \* TDEFL_COMP_FAST_LOOKAHEAD_SIZE
          CodeLimit,            \* code_size_limit
          RepeatMin, RepeatMax, ZeroMiddle, ZeroMax \* 3, 6, 10, 138

ASSUME DeflateAssumption == /\ MaxMatch \in 4..Window - 1 /\ LzWord % Window = 0
                            /\ 1 < RepeatMin /\ RepeatMin <= RepeatMax /\ RepeatMin <= ZeroMiddle /\ ZeroMiddle < ZeroMax

MinMatch == 3
Smaller(x, y) == IF x < y THEN x ELSE y
----
(* Matches. *)

VARIABLE search                 \* tdefl_compressor: its dictionary, and the codes in m_lz_code_buf

\* tdefl_init().
DeflateBegin(text) ==
  [src |-> text, dict |-> [i \in 0..Window - 1 |-> 0], next |-> [i \in 0..Window - 1 |-> 0],
   hash |-> [h \in 0..HashSize - 1 |-> 0], pos |-> 0, ahead |-> 0, known |-> 0,
   saved |-> [len |-> 0, dist |-> 0, lit |-> 0], codes |-> <<>>]

ByteAt(s, p) == s.dict[p % Window]
HashAt(s, p) == (ByteAt(s, p) + 2 * ByteAt(s, p + 1) + 3 * ByteAt(s, p + 2)) % HashSize

\* One byte is put into the dictionary, the trigram it ends into a chain.
Shifted(s, chained) ==
  LET p == s.pos + s.ahead
      t == [s EXCEPT !.src = Tail(@), !.dict = [@ EXCEPT ![p % Window] = Head(s.src)], !.ahead = @ + 1]
  IN IF ~chained \/ t.ahead + t.known < MinMatch THEN t
     ELSE LET h == HashAt(t, p - 2)
          IN [t EXCEPT !.next[(p - 2) % Window] = t.hash[h], !.hash[h] = (p - 2) % LzWord]

\* tdefl_compress_normal(): the bytes ahead are as many as a match can have.
Filled(s, upTo, chained) ==
  LET t == FoldLeft(LAMBDA u, i : Shifted(u, chained), s, [i \in 1..Smaller(Len(s.src), upTo - s.ahead) |-> i])
  IN [t EXCEPT !.known = Smaller(Window - t.ahead, @)]

\* How far the bytes at two positions agree.
Common(s, p, q, n) == Min({n} \cup {i \in 0..n - 1 : ByteAt(s, p + i) # ByteAt(s, q + i)})

\* tdefl_find_match(): along the chain, while it stays within what is known.
FindMatch(s, len0) ==
  LET Follow[left \in 0..Probes, at \in 0..Window - 1, m \in (0..Window) \X (0..MaxMatch)] ==
          LET q == s.next[at]
              dist == (s.pos - q) % LzWord
              n == Common(s, s.pos, q, s.ahead)
          IN IF left = 0 \/ q = 0 \/ dist > s.known \/ dist = 0 THEN m
             ELSE IF n <= m[2] THEN Follow[left - 1, q % Window, m]
             ELSE IF n = s.ahead THEN <<dist, n>> ELSE Follow[left - 1, q % Window, <<dist, n>>]
  IN IF s.ahead <= len0 THEN <<0, len0>> ELSE Follow[Probes, s.pos % Window, <<0, len0>>]

\* tdefl_record_literal(), tdefl_record_match().
Literal(s, c) == [s EXCEPT !.codes = Append(@, <<c>>)]
Matched(s, len, dist) == [s EXCEPT !.codes = Append(@, <<len, dist>>)]
NoMatch(s) == [s EXCEPT !.saved.len = 0]
Moved(s, n) == [s EXCEPT !.pos = @ + n, !.ahead = @ - n, !.known = Smaller(@ + n, Window)]

\* A match waits for one byte whether the next position has a longer one.
Parsed(s, len, dist, greedy) ==
  IF s.saved.len > 0 /\ len <= s.saved.len
  THEN Moved(NoMatch(Matched(s, s.saved.len, s.saved.dist)), s.saved.len - 1)
  ELSE LET t == IF s.saved.len > 0 THEN Literal(s, s.saved.lit) ELSE s
       IN IF dist = 0 THEN Moved(Literal(s, ByteAt(s, s.pos)), 1)
          ELSE IF len >= LongMatch \/ (greedy /\ s.saved.len = 0) THEN Moved(NoMatch(Matched(t, len, dist)), len)
          ELSE Moved([t EXCEPT !.saved = [len |-> len, dist |-> dist, lit |-> ByteAt(s, s.pos)]], 1)

\* tdefl_compress_normal(): the match at one position, unless it is short and far away.
NormalStep(greedy) ==
  \E s \in {Filled(search, MaxMatch, TRUE)} :
    \E m \in {FindMatch(s, IF s.saved.len > 0 THEN s.saved.len ELSE MinMatch - 1)} :
      IF (m[2] = MinMatch /\ m[1] >= FarAway) \/ s.pos % Window = m[1]
      THEN search' = Parsed(s, 0, 0, greedy) ELSE search' = Parsed(s, m[2], m[1], greedy)

\* tdefl_compress_fast(): one position per trigram, and no chain.
FastStep ==
  \E s \in {IF search.ahead = 0 THEN Filled(search, FastLookahead, FALSE) ELSE search} :
    \E h \in {HashAt(s, s.pos)} :
      \E dist \in {(s.pos - s.hash[h]) % LzWord}, t \in {[s EXCEPT !.hash[h] = s.pos % LzWord]} :
        \E n \in {IF dist = 0 THEN 0 ELSE Common(s, s.pos, s.hash[h], MaxMatch)} :
          IF s.ahead <= MinMatch THEN search' = Moved(Literal(s, ByteAt(s, s.pos)), 1)
          ELSE IF dist <= s.known /\ n >= MinMatch /\ ~(n = MinMatch /\ dist >= FarAway)
               THEN search' = Moved(Matched(t, Smaller(n, s.ahead), dist), Smaller(n, s.ahead))
               ELSE search' = Moved(Literal(t, ByteAt(s, s.pos)), 1)

\* A text is compressed at once, as tdefl_compress_mem_to_output() does it.
DfNext(how) ==
  /\ search.src # <<>> \/ search.ahead > 0
  /\ IF how = "fast" THEN FastStep ELSE NormalStep(how = "greedy")

\* tinfl_decompress(): a copy may read what it has written; a distance beyond the start is refused.
Expand(codes) ==
  LET Copied(out, len, dist) == FoldLeft(LAMBDA o, i : Append(o, o[Len(o) + 1 - dist]), out, [i \in 1..len |-> i])
  IN FoldLeft(LAMBDA out, c : IF Len(c) = 1 THEN Append(out, c[1])
                              ELSE IF c[2] > Len(out) THEN Append(out, "refused") ELSE Copied(out, c[1], c[2]),
              <<>>, codes)
----
(* Lengths of codes. *)

\* tdefl_calculate_minimum_redundancy(), first: the lightest two are joined; A then holds the
\* parents of inner nodes.
Parents(freq) ==
  LET n == Len(freq)
      FromRoot(s, i) == s.leaf >= n \/ (s.root < i /\ s.A[s.root] < s.A[s.leaf])
      Take(s, i) == IF FromRoot(s, i) THEN [s EXCEPT !.sum = @ + s.A[s.root], !.A[s.root] = i, !.root = @ + 1]
                                      ELSE [s EXCEPT !.sum = @ + s.A[s.leaf], !.leaf = @ + 1]
      Join(s, i) == LET t == Take(Take([s EXCEPT !.sum = 0], i), i) IN [t EXCEPT !.A[i] = t.sum]
  IN FoldLeft(Join, [A |-> [i \in 0..n - 1 |-> IF i = 0 THEN freq[1] + freq[2] ELSE freq[i + 1]],
                     root |-> 0, leaf |-> 2, sum |-> 0],
              [i \in 1..n - 2 |-> i]).A

\* Then: how many codes of each length.
LengthCounts(freq) ==
  LET n == Len(freq)
      A == Parents(freq)
      Depth[i \in 0..n - 2] == IF i = n - 2 THEN 0 ELSE Depth[A[i]] + 1
      Used(d) == Cardinality({i \in 0..n - 2 : Depth[i] = d})
      Available[d \in 0..n] == IF d = 0 THEN 1 ELSE 2 * Used(d - 1)
  IN IF n < 2 THEN [d \in 1..CodeLimit + 1 |-> IF d = n THEN 1 ELSE 0]
     ELSE [d \in 1..CodeLimit + n |-> IF d > n THEN 0 ELSE Available[d] - Used(d)]

\* tdefl_huffman_enforce_max_code_size().
Limited(num, used) ==
  LET cut == [d \in 1..CodeLimit |-> IF d < CodeLimit THEN num[d]
                                     ELSE FoldLeft(LAMBDA a, x : a + x, 0, SubSeq(num, CodeLimit, Len(num)))]
      Weight(c) == FoldLeft(LAMBDA a, d : a + c[d] * 2 ^ (CodeLimit - d), 0, [d \in 1..CodeLimit |-> d])
      Shorten[c \in [1..CodeLimit -> 0..used + 1], over \in 0..used] ==
          IF over = 0 THEN c
          ELSE LET d == Max({e \in 1..CodeLimit - 1 : c[e] > 0})
                   less == [c EXCEPT ![CodeLimit] = @ - 1]
               IN Shorten[[less EXCEPT ![d] = @ - 1, ![d + 1] = @ + 2], over - 1]
  IN IF used <= 1 THEN cut ELSE Shorten[cut, Weight(cut) - 2 ^ CodeLimit]

\* tdefl_optimize_huffman_table(): the heaviest symbols get the shortest codes.
CodeSizes(freq) ==
  LET used == SetToSortSeq({i \in DOMAIN freq : freq[i] > 0},
                           LAMBDA i, j : freq[i] < freq[j] \/ (freq[i] = freq[j] /\ i < j))
      num == Limited(LengthCounts([k \in DOMAIN used |-> freq[used[k]]]), Len(used))
      UpTo[d \in 0..CodeLimit] == IF d = 0 THEN 0 ELSE UpTo[d - 1] + num[d]
      SizeOf(i) == LET rank == Len(used) + 1 - (CHOOSE k \in DOMAIN used : used[k] = i)
                   IN Min({d \in 1..CodeLimit : rank <= UpTo[d]})
  IN [i \in DOMAIN freq |-> IF freq[i] = 0 THEN 0 ELSE SizeOf(i)]

\* next_code: codes of one length follow each other.
CodeOf(sizes, i) ==
  LET Count(d) == Cardinality({j \in DOMAIN sizes : sizes[j] = d})
      First[d \in 1..CodeLimit] == IF d = 1 THEN 0 ELSE (First[d - 1] + Count(d - 1)) * 2
      code == First[sizes[i]] + Cardinality({j \in DOMAIN sizes : j < i /\ sizes[j] = sizes[i]})
  IN [b \in 1..sizes[i] |-> (code \div 2 ^ (sizes[i] - b)) % 2]

\* tinfl_decompress(): the lengths it takes.
TakesSizes(sizes) ==
  LET Sum[d \in 0..CodeLimit] ==
          IF d = 0 THEN 0 ELSE 2 * (Sum[d - 1] + Cardinality({j \in DOMAIN sizes : sizes[j] = d}))
  IN Sum[CodeLimit] = 2 ^ (CodeLimit + 1) \/ Cardinality({j \in DOMAIN sizes : sizes[j] > 0}) <= 1
----
(* Lengths are packed: runs of the last one, short and long runs of none. *)

PackedRun(s) ==
  IF s.rep = 0 THEN s
  ELSE [s EXCEPT !.rep = 0, !.out = @ \o IF s.rep < RepeatMin THEN [i \in 1..s.rep |-> <<s.prev>>]
                                         ELSE << <<"repeat", s.rep - RepeatMin>> >>]
PackedZeros(s) ==
  IF s.zeros = 0 THEN s
  ELSE [s EXCEPT !.zeros = 0, !.out = @ \o IF s.zeros < RepeatMin THEN [i \in 1..s.zeros |-> <<0>>]
                                           ELSE IF s.zeros <= ZeroMiddle THEN << <<"few", s.zeros - RepeatMin>> >>
                                           ELSE << <<"many", s.zeros - ZeroMiddle - 1>> >>]

\* tdefl_start_dynamic_block().
PackStep(s, size) ==
  LET r == IF size = 0 THEN PackedRun(s) ELSE PackedZeros(s)
      t == IF size = 0
           THEN IF r.zeros + 1 = ZeroMax THEN PackedZeros([r EXCEPT !.zeros = @ + 1]) ELSE [r EXCEPT !.zeros = @ + 1]
           ELSE IF size # r.prev THEN [PackedRun(r) EXCEPT !.out = Append(@, <<size>>)]
           ELSE IF r.rep + 1 = RepeatMax THEN PackedRun([r EXCEPT !.rep = @ + 1]) ELSE [r EXCEPT !.rep = @ + 1]
  IN [t EXCEPT !.prev = size]

PackedSizes(sizes) ==
  LET s == FoldLeft(PackStep, [out |-> <<>>, zeros |-> 0, rep |-> 0, prev |-> -1], sizes)
  IN (IF s.rep > 0 THEN PackedRun(s) ELSE PackedZeros(s)).out

\* tinfl_decompress(): len_codes.
UnpackedSizes(packed) ==
  LET Run(x, n) == [i \in 1..n |-> x]
  IN FoldLeft(LAMBDA out, c : out \o
                  CASE Len(c) = 1 -> c
                    [] c[1] = "repeat" -> Run(IF out = <<>> THEN -1 ELSE out[Len(out)], c[2] + RepeatMin)
                    [] c[1] = "few" -> Run(0, c[2] + RepeatMin)
                    [] c[1] = "many" -> Run(0, c[2] + ZeroMiddle + 1),
              <<>>, packed)
----
(* Properties. *)

\* What is compressed so far expands to what was read, but for a match or byte that waits, however
\* matches are searched, when ring and positions have wrapped.
ExpandedIs(text) ==
  /\ Expand(search.codes) = SubSeq(text, 1, search.pos - IF search.saved.len > 0 THEN 1 ELSE 0)
  /\ Len(text) = search.pos + search.ahead + Len(search.src)
  /\ \A i \in DOMAIN search.codes : Len(search.codes[i]) = 2 => search.codes[i][1] \in MinMatch..MaxMatch

\* The reference: what joining the two lightest again and again costs.
BestCost(freq) ==
  LET Join(s, i) == LET w == SortSeq(s.w, LAMBDA x, y : x < y)
                    IN IF Len(w) < 2 THEN s ELSE [w |-> Append(SubSeq(w, 3, Len(w)), w[1] + w[2]), cost |-> s.cost + w[1] + w[2]]
  IN FoldLeft(Join, [w |-> SelectSeq(freq, LAMBDA x : x > 0), cost |-> 0], freq).cost

\* The decompressor takes the lengths chosen, no code begins with another, and unless the limit
\* matters none are better.
CodesAreTaken(freq) ==
  \A sizes \in {CodeSizes(freq)}, used \in {{i \in DOMAIN freq : freq[i] > 0}} :
     /\ TakesSizes(sizes) /\ \A i \in DOMAIN freq : (sizes[i] = 0) = (freq[i] = 0)
     /\ \A i, j \in used : i # j => ~IsPrefix(CodeOf(sizes, i), CodeOf(sizes, j))
     /\ \A i, j \in used : freq[i] < freq[j] => sizes[i] >= sizes[j]
     /\ Cardinality(used) > 1 /\ (\A i \in used : sizes[i] < CodeLimit) =>
           FoldLeft(LAMBDA c, i : c + freq[i] * sizes[i], 0, SetToSeq(used)) = BestCost(freq)

\* The lengths arrive as they were.
SizesReturn(sizes) ==
  LET packed == PackedSizes(sizes)
  IN /\ UnpackedSizes(packed) = sizes
     /\ \A i \in DOMAIN packed : Len(packed[i]) = 2 =>
           packed[i][2] \in 0..(CASE packed[i][1] = "repeat" -> RepeatMax - RepeatMin
                                  [] packed[i][1] = "few" -> ZeroMiddle - RepeatMin
                                  [] packed[i][1] = "many" -> ZeroMax - ZeroMiddle - 1)

----
(* mz_deflate() and mz_inflate(), called with any amounts of input and room and any flush. The input
   is the bytes 1, 2, 3...; a cell of the stream is the header, the head of a block, a byte, the end
   of a block (whose bits wait unless there is a flush), a marker of a flush, or a part of the
   checksum. *)

CONSTANTS Total,                \* bytes there are to compress
          LookAhead,            \* TDEFL_MAX_MATCH_LEN
          CodeBuffer,           \* bytes in m_lz_code_buf when a block is written
          Rooms,                \* what a caller offers as avail_out
          Ring,                 \* TINFL_LZ_DICT_SIZE
          MaxCalls

ASSUME ZlibAssumption == LookAhead > 0 /\ CodeBuffer > 0 /\ Ring > 0 /\ Rooms \subseteq Nat

VARIABLES comp,                 \* tdefl_compressor
          wire,                 \* what mz_deflate() has written
          consumed,             \* total_in
          said,                 \* the last call of mz_deflate(): what it was asked and returned
          infl,                 \* inflate_state
          eaten, inflated,           \* total_in and all output of mz_inflate()
          told, calls

zsVars == <<comp, wire, consumed, said, infl, eaten, inflated, told, calls>>

Least(x, y) == IF x < y THEN x ELSE y
Piece(s, n) == SubSeq(s, 1, Least(n, Len(s)))
Behind(s, n) == SubSeq(s, Least(n, Len(s)) + 1, Len(s))

ZsInit ==
  /\ comp = [ahead |-> <<>>, lz |-> <<>>, bits |-> <<>>, rest |-> <<>>, finished |-> FALSE,
             wants |-> FALSE, status |-> "okay", blocks |-> 0]
  /\ wire = <<>> /\ consumed = 0 /\ said = [flush |-> "none", result |-> "ok", room |-> 1, clean |-> TRUE]
  /\ infl = [waiting |-> <<>>, ofs |-> 0, first |-> TRUE, flushed |-> FALSE, lost |-> FALSE,
             status |-> "needs input"]
  /\ eaten = 0 /\ inflated = <<>> /\ told = "ok" /\ calls = 0
----
(* mz_deflate(): w holds the compressor, the input, the room and the output of a call. *)

\* The block, as tdefl_compress_lz_codes() writes it, and what the flush asks for.
BlockCells(c, flush) ==
  c.bits \o (IF c.blocks = 0 THEN << <<"zlib">> >> ELSE <<>>) \o << <<"head", flush = "finish">> >>
  \o [i \in DOMAIN c.lz |-> <<"byte", c.lz[i]>>]
  \o (CASE flush = "none" -> <<>>
        [] flush = "sync" -> << <<"end">>, <<"marker">> >>
        [] flush = "finish" -> << <<"end">>, <<"adler">>, <<"adler">> >>)

\* tdefl_flush_block(): what there is no room for waits in m_output_buf.
FlushBlock(w, flush) ==
  LET cells == BlockCells(w.c, flush)
  IN [w EXCEPT !.out = @ \o Piece(cells, w.room - Len(w.out)),
               !.c = [@ EXCEPT !.lz = <<>>, !.blocks = @ + 1, !.rest = Behind(cells, w.room - Len(w.out)),
                               !.bits = IF flush = "none" THEN << <<"end">> >> ELSE <<>>]]

\* tdefl_compress_normal(): a byte at a time; it stops when output has to wait.
CompressBytes(w0, flush) ==
  LET Byte(v, i) ==
          LET fill == Piece(v.src, LookAhead - Len(v.c.ahead))
              u == [v EXCEPT !.src = Behind(@, Len(fill)), !.c.ahead = @ \o fill]
              t == [u EXCEPT !.c.ahead = Tail(@), !.c.lz = Append(@, Head(u.c.ahead))]
              f == FlushBlock(t, "none")
          IN IF v.stop \/ (v.src = <<>> /\ (flush = "none" \/ v.c.ahead = <<>>)) THEN v
             ELSE IF flush = "none" /\ Len(u.c.ahead) < LookAhead THEN [u EXCEPT !.stop = TRUE]
             ELSE IF Len(t.c.lz) < CodeBuffer THEN t
             ELSE [f EXCEPT !.stop = f.c.rest # <<>>]
  IN FoldLeft(Byte, [w0 EXCEPT !.stop = FALSE], [i \in 1..Total + 1 |-> i])

\* Fault: what waits is forgotten.
FlushOutputLost(w) == [w EXCEPT !.c.rest = <<>>, !.c.status = IF w.c.finished THEN "done" ELSE "okay"]

\* tdefl_flush_output_buffer().
FlushOutput(w) ==
  LET n == w.room - Len(w.out)
      v == [w EXCEPT !.out = @ \o Piece(w.c.rest, n), !.c.rest = Behind(@, n)]
  IN [v EXCEPT !.c.status = IF v.c.finished /\ v.c.rest = <<>> THEN "done" ELSE "okay"]

\* tdefl_compress().
TdeflCompress(w0, flush) ==
  LET w == [w0 EXCEPT !.c.wants = @ \/ flush = "finish"]
      v == CompressBytes(w, flush)
      done == FlushBlock(v, flush)
  IN IF w0.c.status # "okay" \/ (w0.c.wants /\ flush # "finish") THEN [w0 EXCEPT !.c.status = "bad"]
     ELSE IF w.c.rest # <<>> \/ w.c.finished THEN FlushOutput(w)
     ELSE IF flush # "none" /\ v.c.ahead = <<>> /\ v.src = <<>> /\ v.c.rest = <<>>
          THEN FlushOutput([done EXCEPT !.c.finished = flush = "finish"])
          ELSE FlushOutput(v)

\* mz_deflate(): what one round of its loop leads to.
DeflateResult(w, flush, moved) ==
  IF w.c.status = "bad" THEN "error" ELSE IF w.c.status = "done" THEN "end" ELSE IF Len(w.out) = w.room THEN "ok"
  ELSE IF w.src # <<>> \/ flush = "finish" THEN "again" ELSE IF flush # "none" \/ moved THEN "ok" ELSE "no progress"

Rounds(w0, flush) ==
  LET Round(w, i) ==
          LET v == TdeflCompress(w, flush)
          IN IF w.result # "again" THEN w
             ELSE [v EXCEPT !.result = DeflateResult(v, flush, v.out # <<>> \/ Len(v.src) < Len(w0.src))]
  IN FoldLeft(Round, w0, [i \in 1..Total + 4 |-> i])

Deflate(n, room, flush) ==
  \E offered \in {[i \in 1..Least(n, Total - consumed) |-> consumed + i]} :
    /\ calls < MaxCalls /\ calls' = calls + 1
    /\ IF comp.status = "done"
       THEN /\ said' = [flush |-> flush, result |-> IF flush = "finish" THEN "end" ELSE "no progress", room |-> room, clean |-> FALSE]
            /\ UNCHANGED <<comp, wire, consumed>>
       ELSE \E w \in {Rounds([c |-> comp, src |-> offered, room |-> room, out |-> <<>>, stop |-> FALSE, result |-> "again"], flush)} :
            /\ comp' = w.c /\ wire' = wire \o w.out /\ consumed' = consumed + Len(offered) - Len(w.src)
            /\ said' = [flush |-> flush, result |-> w.result, room |-> room - Len(w.out), clean |-> comp.rest = <<>>]
    /\ UNCHANGED <<infl, eaten, inflated, told>>

\* mz_compress2(): all of it in one call, or an error.
CompressAtOnce(room) ==
  /\ calls = 0 /\ Deflate(Total, room, "finish")
----
(* mz_inflate(): w holds the decompressor, how far it has read, the output of a call. *)

\* tinfl_decompress(): reads up to a cell, while there is room in the ring or the buffer. Without
\* more input it reads zeroes.
Tinfl(w, upTo, room, more) ==
  LET Bytes(n) == SelectSeq(SubSeq(wire, w.at + 1, n), LAMBDA c : c[1] = "byte")
      Ends(n) == n > 1 /\ wire[n][1] = "adler" /\ wire[n - 1][1] = "adler"
      n == Min({k \in w.at..upTo : \/ k = upTo \/ Ends(k)
                                  \/ (wire[k + 1][1] = "byte" /\ Len(Bytes(k)) = room)})
      out == [i \in DOMAIN Bytes(n) |-> Bytes(n)[i][2]]
      Read(status, bytes) == [w EXCEPT !.at = n, !.fresh = bytes, !.d.status = status]
  IN IF w.d.lost THEN Read(IF w.luck THEN "has output" ELSE "failed", [i \in 1..room |-> 0])
     ELSE IF Ends(n) THEN Read("done", out)
     ELSE IF n < upTo THEN Read("has output", out)
     ELSE IF more THEN Read("needs input", out)
     ELSE [Read(IF w.luck THEN "has output" ELSE "failed", out \o [i \in 1..room - Len(out) |-> 0]) EXCEPT !.d.lost = TRUE]

\* What is in the ring is handed out as far as there is room.
HandOut(w) ==
  LET n == Least(w.room - Len(w.out), Len(w.d.waiting))
  IN [w EXCEPT !.out = @ \o Piece(w.d.waiting, n), !.d.waiting = Behind(@, n), !.d.ofs = (@ + n) % Ring]

\* One round of the loop of mz_inflate(), and whether there is another.
InflateRound(w, upTo, finish) ==
  LET r == Tinfl(w, upTo, Ring - w.d.ofs, ~finish)
      v == HandOut([r EXCEPT !.d.waiting = r.fresh])
      full == Len(v.out) = v.room
  IN [v EXCEPT !.result =
        CASE v.d.status = "failed" -> "data error"
          [] v.d.status = "needs input" /\ upTo = v.start -> "no progress"
          [] v.d.status = "done" -> IF v.d.waiting = <<>> THEN "end" ELSE IF finish THEN "no room" ELSE "ok"
          [] v.d.status \in {"needs input", "has output"} ->
               IF finish THEN (IF full THEN "no room" ELSE "again")
               ELSE IF v.at = upTo \/ full \/ v.d.waiting # <<>> THEN "ok" ELSE "again"]

InflateCall(w0, upTo, finish) ==
  LET v == HandOut(w0)
  IN IF w0.d.waiting = <<>>
     THEN FoldLeft(LAMBDA w, i : IF w.result = "again" THEN InflateRound(w, upTo, finish) ELSE w, w0, [i \in 1..2 * Total + 2 |-> i])
     ELSE [v EXCEPT !.result = IF v.d.status = "done" /\ v.d.waiting = <<>> THEN "end" ELSE "ok"]

\* Into the buffer of the caller, who has room for everything: mz_uncompress().
InflateAtOnce(w0, upTo) ==
  LET r == Tinfl(w0, upTo, w0.room, FALSE)
  IN [r EXCEPT !.out = r.fresh, !.d.status = IF @ = "done" THEN @ ELSE "failed",
               !.result = CASE r.d.status = "done" -> "end" [] r.d.status = "failed" -> "data error"
                            [] OTHER -> "no room"]

Inflate(n, room, finish) ==
  \E luck \in {finish, FALSE} :
    \E w \in {[d |-> [infl EXCEPT !.first = FALSE, !.flushed = @ \/ finish], at |-> eaten, start |-> eaten, fresh |-> <<>>,
               out |-> <<>>, room |-> room, luck |-> luck, result |-> "again"]} :
      \E upTo \in {Least(eaten + n, Len(wire))} :
        \E v \in {IF infl.status = "failed" THEN [w EXCEPT !.result = "data error"]
                  ELSE IF infl.flushed /\ ~finish THEN [w EXCEPT !.result = "error"]
                  ELSE IF finish /\ infl.first THEN InflateAtOnce(w, upTo) ELSE InflateCall(w, upTo, finish)} :
          /\ calls < MaxCalls /\ calls' = calls + 1
          /\ infl' = v.d /\ eaten' = v.at /\ inflated' = inflated \o v.out /\ told' = v.result
          /\ UNCHANGED <<comp, wire, consumed, said>>

\* The stream is read once all of it is written: a reader offered a part of it cannot tell.
ZsNext ==
  \E room \in Rooms :
      \/ CompressAtOnce(room)
      \/ infl.first /\ \E n \in 0..Total, flush \in {"none", "sync", "finish"} : Deflate(n, room, flush)
      \/ \E n \in {0, 1, 3, Len(wire)}, finish \in BOOLEAN : Inflate(n, room, finish)
----
(* Properties. *)

\* What comes out is what went in, in order; only a call to finish what is cut off may make up
\* bytes.
InflatedIsPrefix == ~infl.lost => Len(inflated) <= consumed /\ \A i \in DOMAIN inflated : inflated[i] = i

\* The end is reported when everything that was compressed has come out.
EndIsWhole == told = "end" => comp.finished /\ eaten = Len(wire) /\ Len(inflated) = consumed

\* A flush with room left has written all that was given, unless output was waiting when it was
\* asked for.
FlushIsWritten ==
  said.flush # "none" /\ said.result \in {"ok", "end"} /\ said.room > 0 /\ (said.clean \/ said.flush = "finish") =>
      Len(SelectSeq(wire, LAMBDA c : c[1] = "byte")) = consumed /\ comp.bits = <<>> /\ comp.rest = <<>>

\* A call to finish that has room left has finished.
FinishIsFinal == said.flush = "finish" /\ said.result # "error" /\ said.room > 0 => comp.status = "done"

\* What comes out of the streams is what went in, in order, whole when a call says so.
StreamsAreKept == InflatedIsPrefix /\ EndIsWhole /\ FlushIsWritten /\ FinishIsFinal
====
