---- MODULE Encodings ----
(* Texts for bytes (src/crypto): hex, base 32 and base 64 regroup bits; base 36 and base 58 are
   digits of one number, with a zero digit for every leading zero byte. A text is a sequence of the
   values of its characters. *)
EXTENDS Integers, Sequences, SequencesExt, FiniteSetsExt

\* Characters that are no digits: '=', a space, and any other.
Pad == 100
Blank == 101
Other == 102

FirstOf(positions) == CHOOSE p \in positions : \A q \in positions : p <= q

\* Values of some bits each as values of as many other bits, the last one filled with zeroes or
\* dropped.
Regrouped(values, bits, other, rounded) ==
  LET all == Len(values) * bits
      n == IF rounded THEN (all + other - 1) \div other ELSE all \div other
      Bit(i) == IF i >= all THEN 0 ELSE (values[i \div bits + 1] \div 2 ^ (bits - 1 - (i % bits))) % 2
      Value(k) == FoldLeft(LAMBDA v, i : 2 * v + Bit(k * other + i - 1), 0, [i \in 1..other |-> i])
  IN [k \in 1..n |-> Value(k - 1)]

\* to_hex(), and from_hex() into so many bytes: an odd digit is the upper half.
ToHex(bytes) == Regrouped(bytes, 8, 4, TRUE)
FromHex(t, room) ==
  LET used == IF Len(t) <= 2 * room THEN t ELSE SubSeq(t, 1, 2 * room)
  IN IF \E i \in DOMAIN used : used[i] > 15 THEN <<-1>>
     ELSE Regrouped(IF Len(used) % 2 = 1 THEN Append(used, 0) ELSE used, 4, 8, FALSE)

\* base64_encode(), and base64_decode() up to the first character that is none.
ToBase64(bytes) ==
  LET digits == Regrouped(bytes, 8, 6, TRUE)
  IN digits \o [i \in 1..(4 - (Len(digits) % 4)) % 4 |-> Pad]
FromBase64(t) ==
  LET bad == {i \in DOMAIN t : t[i] > 63}
  IN Regrouped(IF bad = {} THEN t ELSE SubSeq(t, 1, FirstOf(bad) - 1), 6, 8, FALSE)

\* to_base32() and from_base32(): a text of a wrong length or with other characters is empty.
ToBase32(bytes) ==
  LET digits == Regrouped(bytes, 8, 5, TRUE)
  IN digits \o [i \in 1..(8 - (Len(digits) % 8)) % 8 |-> Pad]

\* The bytes that the padding of eight characters takes away.
Dropped(g) ==
  IF g[8] # Pad THEN 0 ELSE IF g[6] # Pad THEN 1 ELSE IF g[5] # Pad THEN 2 ELSE IF g[3] # Pad THEN 3 ELSE 4
FromBase32(t) ==
  LET Eight(k) == SubSeq(t, 8 * k - 7, 8 * k)
      Bytes(g) == LET all == Regrouped([i \in 1..8 |-> IF g[i] = Pad THEN 0 ELSE g[i]], 5, 8, FALSE)
                  IN SubSeq(all, 1, 5 - Dropped(g))
      good == \A i \in DOMAIN t : t[i] <= 31 \/ (t[i] = Pad /\ (i - 1) % 8 > 1)
  IN IF Len(t) % 8 # 0 \/ ~good THEN <<>>
     ELSE FlattenSeq([k \in 1..Len(t) \div 8 |-> Bytes(Eight(k))])
----
\* The number that digits are, and the digits of a number, none of 0.
NumberOf(digits, base) == FoldLeft(LAMBDA n, d : n * base + d, 0, digits)
RECURSIVE DigitsIn(_, _)
DigitsIn(n, base) == IF n = 0 THEN <<>> ELSE DigitsIn(n \div base, base) \o <<n % base>>

Zeros(s) == LET other == {i \in DOMAIN s : s[i] # 0} IN IF other = {} THEN Len(s) ELSE FirstOf(other) - 1
ZerosOnly(n) == [i \in 1..n |-> 0]

\* CBigNum::setvch() and getvch(), least byte first: a zero byte in the last place keeps a number
\* positive.
OfVch(vch) == NumberOf(Reverse(vch), 256)
Vch(n) == LET bytes == Reverse(DigitsIn(n, 256))
          IN IF n # 0 /\ Last(bytes) >= 128 THEN Append(bytes, 0) ELSE bytes

\* EncodeBase58().
ToBase58(bytes) == ZerosOnly(Zeros(bytes)) \o DigitsIn(OfVch(Append(Reverse(bytes), 0)), 58)

\* The byte of the sign is trimmed off.
UnsignedVch(vch) ==
  IF Len(vch) >= 2 /\ Last(vch) = 0 /\ vch[Len(vch) - 1] >= 128 THEN Front(vch) ELSE vch

\* DecodeBase58(): spaces before and behind; <<-1>> if it fails.
FromBase58(t) ==
  LET digit == {i \in DOMAIN t : t[i] # Blank}
      psz == IF digit = {} THEN <<>> ELSE SubSeq(t, FirstOf(digit), Len(t))
      bad == {i \in DOMAIN psz : psz[i] > 57}
      digits == IF bad = {} THEN psz ELSE SubSeq(psz, 1, FirstOf(bad) - 1)
      vch == UnsignedVch(Vch(NumberOf(digits, 58)))
  IN IF \E i \in Len(digits) + 1..Len(psz) : psz[i] # Blank THEN <<-1>>
     ELSE ZerosOnly(Zeros(digits)) \o Reverse(vch)

\* to_base36(), and from_base36(), in which an unknown character is a zero.
ToBase36(bytes) == ZerosOnly(Zeros(bytes)) \o DigitsIn(NumberOf(bytes, 256), 36)

FromBase36(t) ==
  ZerosOnly(Zeros(t)) \o DigitsIn(NumberOf([i \in DOMAIN t |-> IF t[i] > 35 THEN 0 ELSE t[i]], 36), 256)

\* The characters that to_base36() has room for, one of them for the end.
RoomOfBase36(bytes) == (Len(bytes) * 8) \div 5 + 2
----
(* Properties. *)

\* Regrouped bits are put together again, whatever is left of the last group.
GroupsAreDecoded(bytes) ==
  /\ FromHex(ToHex(bytes), Len(bytes)) = bytes /\ FromBase64(ToBase64(bytes)) = bytes
  /\ FromBase32(ToBase32(bytes)) = bytes

\* Numbers become the bytes they were made of, and to_base36() stays in its buffer.
NumbersAreDecoded(bytes) ==
  /\ FromBase58(ToBase58(bytes)) = bytes
  /\ FromBase36(ToBase36(bytes)) = bytes /\ Len(ToBase36(bytes)) + 1 <= RoomOfBase36(bytes)

\* No two texts without spaces are the same bytes in base 58, nor in base 36 if all their characters
\* are known.
TextsAreCanonical(t) ==
  /\ FromBase58(t) # <<-1>> => ToBase58(FromBase58(t)) = SelectSeq(t, LAMBDA c : c # Blank)
  /\ (\A i \in DOMAIN t : t[i] < 36) => ToBase36(FromBase36(t)) = t

----
(* UTF-8 (src/utf8/core.h, checked.h, unchecked.h, src/utf8.cpp): validity, conversions to and from
   UTF-32 and UTF-16, iteration both ways, the two repairs. A text is a sequence of bytes; positions
   stand for iterators. *)

\* The bits of a trail byte, and of a lead byte by the length of its sequence.
Trail == 64
LeadBits == <<128, 32, 16, 8>>
LeadMark == <<0, 192, 224, 240>>

Surrogates == 55296..57343          \* 0xd800 to 0xdfff
LeadSurrogates == 55296..56319
TrailSurrogates == 56320..57343

\* is_code_point_valid().
IsCodePoint(cp) == cp <= 1114111 /\ cp \notin Surrogates

Decoded(cp, p) == [err |-> "ok", cp |-> cp, at |-> p]
Invalid(err) == [err |-> err]

SequenceLength(lead) ==
  IF lead < 128 THEN 1 ELSE IF lead \div 32 = 6 THEN 2 ELSE IF lead \div 16 = 14 THEN 3
  ELSE IF lead \div 8 = 30 THEN 4 ELSE 0
IsTrail(byte) == byte \div Trail = 2

\* The shortest sequence of a code point.
Shortest(cp) == IF cp < 128 THEN 1 ELSE IF cp < 2048 THEN 2 ELSE IF cp < 65536 THEN 3 ELSE 4

\* is_overlong_sequence().
IsOverlong(cp, length) == Shortest(cp) < 4 /\ length # Shortest(cp)

\* The bits of n bytes from p, put together.
Assembled(t, p, n) ==
  FoldLeft(LAMBDA cp, byte : cp * Trail + (byte % Trail), t[p] % LeadBits[n], SubSeq(t, p + 1, p + n - 1))

\* validate_next() at p, which is not the end.
ValidateNext(t, p) ==
  LET n == SequenceLength(t[p])
      \* The first trail byte that is not there, or that is none.
      bad == {i \in 1..n - 1 : p + i > Len(t) \/ ~IsTrail(t[p + i])}
      first == CHOOSE i \in bad : \A j \in bad : i <= j
      cp == Assembled(t, p, n)
  IN IF n = 0 THEN Invalid("lead")
     ELSE IF bad # {} THEN Invalid(IF p + first > Len(t) THEN "room" ELSE "incomplete")
     ELSE IF ~IsCodePoint(cp) THEN Invalid("code point")
     ELSE IF IsOverlong(cp, n) THEN Invalid("overlong")
     ELSE Decoded(cp, p + n)

\* find_invalid() from p: the position, or the end.
RECURSIVE FindInvalid(_, _)
FindInvalid(t, p) ==
  IF p > Len(t) \/ ValidateNext(t, p).err # "ok" THEN p ELSE FindInvalid(t, ValidateNext(t, p).at)

IsUtf8(t) == FindInvalid(t, 1) = Len(t) + 1

\* prune_invalid_utf8() from p: byte by byte.
RECURSIVE Pruned(_, _)
Pruned(t, p) == LET bad == FindInvalid(t, p)
                IN SubSeq(t, p, bad - 1) \o IF bad > Len(t) THEN <<>> ELSE Pruned(t, bad + 1)

\* The bytes of a code point; append() refuses what is none.
Encoded(cp) ==
  LET n == Shortest(cp)
      Bits(i) == (cp \div Trail ^ (n - i)) % Trail
  IN [i \in 1..n |-> IF i = 1 THEN LeadMark[n] + cp \div Trail ^ (n - 1) ELSE 128 + Bits(i)]

\* utf8to32(), throwing what next() throws; decodeUtf8().
RECURSIVE To32(_, _)
To32(t, p) ==
  IF p > Len(t) THEN [err |-> "ok", cps |-> <<>>]
  ELSE LET v == ValidateNext(t, p) IN
       IF v.err # "ok" THEN v
       ELSE LET rest == To32(t, v.at) IN IF rest.err = "ok" THEN [rest EXCEPT !.cps = <<v.cp>> \o @] ELSE rest

\* utf32to8() of valid code points; encodeUtf8().
From32(cps) == FlattenSeq([i \in DOMAIN cps |-> Encoded(cps[i])])

\* utf8to16() of code points, and utf16to8() back to them.
To16(cps) == FlattenSeq([i \in DOMAIN cps |->
                IF cps[i] < 65536 THEN <<cps[i]>>
                ELSE <<55296 + (cps[i] - 65536) \div 1024, 56320 + (cps[i] % 1024)>>])
RECURSIVE From16(_)
From16(words) ==
  IF words = <<>> THEN [err |-> "ok", cps |-> <<>>]
  ELSE LET word == Head(words)
           pair == word \in LeadSurrogates
           good == IF pair THEN Len(words) > 1 /\ words[2] \in TrailSurrogates ELSE word \notin TrailSurrogates
           cp == IF pair THEN (word - 55296) * 1024 + words[2] - 56320 + 65536 ELSE word
           rest == From16(SubSeq(words, IF pair THEN 3 ELSE 2, Len(words)))
       IN IF ~good THEN Invalid("utf16")
          ELSE IF rest.err = "ok" THEN [rest EXCEPT !.cps = <<cp>> \o @] ELSE rest

\* prior() at p: back to a lead byte, and next() from there.
Prior(t, p) ==
  LET leads == {q \in 1..p - 1 : ~IsTrail(t[q])}
      q == CHOOSE q \in leads : \A r \in leads : r <= q
      v == ValidateNext(SubSeq(t, 1, p - 1), q)
  IN IF leads = {} THEN Invalid("lead") ELSE IF v.err = "ok" THEN Decoded(v.cp, q) ELSE v

\* replace_invalid() from p: one mark for a bad lead byte with its trail bytes.  A sequence cut off
\* throws.
RECURSIVE Replaced(_, _, _)
Replaced(t, p, mark) ==
  IF p > Len(t) THEN [err |-> "ok", out |-> <<>>]
  ELSE LET v == ValidateNext(t, p)
           behind == {q \in p + 1..Len(t) + 1 : q = Len(t) + 1 \/ ~IsTrail(t[q])}
           next == CASE v.err = "ok" -> v.at
                     [] v.err = "lead" -> p + 1
                     [] OTHER -> CHOOSE q \in behind : \A r \in behind : q <= r
           rest == Replaced(t, next, mark)
       IN IF v.err = "room" THEN v
          ELSE IF rest.err # "ok" THEN rest
          ELSE [rest EXCEPT !.out = (IF v.err = "ok" THEN SubSeq(t, p, next - 1) ELSE Encoded(mark)) \o @]

\* unchecked::utf8to32() of a valid text.
RECURSIVE Unchecked32(_, _)
Unchecked32(t, p) ==
  IF p > Len(t) THEN <<>>
  ELSE LET n == SequenceLength(t[p]) IN <<Assembled(t, p, n)>> \o Unchecked32(t, p + n)

\* unchecked::prior() at p, behind a valid text.
UncheckedPrior(t, p) ==
  LET leads == {q \in 1..p - 1 : ~IsTrail(t[q])}
      q == CHOOSE q \in leads : \A r \in leads : r <= q
  IN Decoded(Assembled(t, q, SequenceLength(t[q])), q)

\* unchecked::utf16to8() of valid words, as code points.
RECURSIVE Unchecked16(_)
Unchecked16(words) ==
  IF words = <<>> THEN <<>>
  ELSE IF Head(words) \in LeadSurrogates
       THEN <<(Head(words) - 55296) * 1024 + words[2] - 56320 + 65536>> \o Unchecked16(SubSeq(words, 3, Len(words)))
       ELSE <<Head(words)>> \o Unchecked16(Tail(words))
----
(* Properties, of a text and of code points. *)

\* The text from p back to its start, by prior().
RECURSIVE Backwards(_, _)
Backwards(t, p) == IF p = 1 THEN <<>>
                   ELSE LET v == Prior(t, p) IN IF v.err # "ok" THEN <<-1>> ELSE Backwards(t, v.at) \o <<v.cp>>

\* A valid text is the encoding of the code points it is decoded to, also decoded without checks and
\* read backwards.
ValidIsCanonical(t) ==
  LET decoded == To32(t, 1) IN
  /\ IsUtf8(t) <=> decoded.err = "ok"
  /\ IsUtf8(t) => /\ From32(decoded.cps) = t
                  /\ Unchecked32(t, 1) = decoded.cps /\ Backwards(t, Len(t) + 1) = decoded.cps
                  /\ t # <<>> => Prior(t, Len(t) + 1) = UncheckedPrior(t, Len(t) + 1)

\* Every sequence of code points is encoded to a valid text, and comes back from
\* it and from UTF-16.
CodePointsSurvive(cps) ==
  /\ To32(From32(cps), 1) = [err |-> "ok", cps |-> cps]
  /\ From16(To16(cps)) = [err |-> "ok", cps |-> cps] /\ Unchecked16(To16(cps)) = cps

\* Both repairs yield a valid text and leave a valid text alone.
RepairedIsValid(t) ==
  LET replaced == Replaced(t, 1, 65533) IN
  /\ IsUtf8(Pruned(t, 1)) /\ (IsUtf8(t) => Pruned(t, 1) = t)
  /\ replaced.err = "ok" => IsUtf8(replaced.out) /\ (IsUtf8(t) => replaced.out = t)

----
(* smaz (src/compress/smaz.cpp): the longest word of the codebook that begins the rest becomes one
   code; characters that begin no word are gathered behind a code and their number. The codebook is
   any set of words with codes. *)

CONSTANTS Book,         \* Smaz_rcb: the words by their codes
          MaxVerbatim   \* 256

\* The two codes for what is in no word.
OneByte == Max(DOMAIN Book) + 1
ManyBytes == OneByte + 1

Begins(w, text) == Len(w) <= Len(text) /\ SubSeq(text, 1, Len(w)) = w
Matching(text) == {c \in DOMAIN Book : Begins(Book[c], text)}

\* What was gathered, written.
Flushed(verb) == IF Len(verb) = 1 THEN <<OneByte>> \o verb
                 ELSE IF verb = <<>> THEN <<>> ELSE <<ManyBytes, Len(verb) - 1>> \o verb

\* One round for each code or gathered character of the text.
RECURSIVE CompressFrom(_, _)
CompressFrom(text, verb) ==
  IF text = <<>> THEN <<>>
  ELSE LET codes == Matching(text) IN
       IF codes # {}
       THEN LET c == CHOOSE d \in codes : \A e \in codes : Len(Book[e]) <= Len(Book[d])
            IN Flushed(verb) \o <<c>> \o CompressFrom(SubSeq(text, Len(Book[c]) + 1, Len(text)), <<>>)
       ELSE LET more == Append(verb, text[1])
                full == Len(more) = MaxVerbatim \/ Len(text) = 1
            IN IF full THEN Flushed(more) \o CompressFrom(Tail(text), <<>>)
               ELSE CompressFrom(Tail(text), more)

\* smaz_compress() of a string: it throws if the result does not fit into the text's length.
Compressed(text) == LET out == CompressFrom(text, <<>>)
                    IN IF Len(out) <= Len(text) THEN <<out>> ELSE <<>>

RECURSIVE Decompressed(_)
Decompressed(in) ==
  IF in = <<>> THEN <<>>
  ELSE IF in[1] = OneByte THEN <<in[2]>> \o Decompressed(SubSeq(in, 3, Len(in)))
  ELSE IF in[1] = ManyBytes
  THEN SubSeq(in, 3, in[2] + 3) \o Decompressed(SubSeq(in, in[2] + 4, Len(in)))
  ELSE Book[in[1]] \o Decompressed(Tail(in))
----
\* What was compressed is the text again, though words overlap and gathered characters reach their
\* limit.
SmazReturns(text) == \A out \in ToSet(Compressed(text)) : Decompressed(out) = text
====
