---- MODULE Json ----
(* fc::json (src/io/json.cpp): values are printed, printed prettily, and
   read back by the legacy parser.  A text is a sequence of characters; the
   control characters without a letter of their own are named.  Numbers are
   the integers of the code, signed or not. *)
EXTENDS Integers, Sequences, SequencesExt, FiniteSets, FiniteSetsExt

CONSTANTS Deep,         \* brackets check_string_depth() accepts: 100
          MaxRecursion, \* JSON_MAX_RECURSION_DEPTH: 200
          Large,        \* json_integer_limits::max_positive_value
          Word          \* integers are taken modulo this: 2^64

ASSUME JsAssumption == /\ Deep \in Nat /\ MaxRecursion \in Nat /\ Large \in Nat
                       /\ Word \in Nat \ {0} /\ Word % 2 = 0

\* Values.
Nil == [kind |-> "null"]
Bool(b) == [kind |-> "bool", bool |-> b]
Number(n) == [kind |-> "number", num |-> n]
Double(text) == [kind |-> "double", text |-> text]
String(s) == [kind |-> "string", str |-> s]
Array(items) == [kind |-> "array", items |-> items]
Object(members) == [kind |-> "object", members |-> members]   \* of <<key, value>>

Space == {" ", "\t", "\n", "\r"}
Digits == {"0", "1", "2", "3", "4", "5", "6", "7", "8", "9"}
Letters == {"R", "a", "b", "e", "f", "l", "n", "o", "r", "s", "t", "u", "x"}
DigitValue(c) == CHOOSE d \in 0..9 : <<"0", "1", "2", "3", "4", "5", "6", "7", "8", "9">>[d + 1] = c

\* The outcome of a parser: a value and the place behind it, or an exception.
Got(v, p) == [ok |-> TRUE, val |-> v, at |-> p]
Failed(e) == [ok |-> FALSE, why |-> e]

\* peek(), which throws at the end.
Peek(t, p) == IF p <= Len(t) THEN t[p] ELSE "eof"
SkipWhiteSpace(t, p) == Min({q \in p..Len(t) + 1 : q >= p /\ Peek(t, q) \notin Space})

\* The end of the longest run of characters of a set.
RunEnd(t, p, chars) == Min({q \in p..Len(t) + 1 : Peek(t, q) \notin chars})
----
(* Printing. *)

DigitsOf[n \in Nat] ==
  LET d == <<"0", "1", "2", "3", "4", "5", "6", "7", "8", "9">>[(n % 10) + 1]
  IN IF n < 10 THEN <<d>> ELSE Append(DigitsOf[n \div 10], d)
NumberText(n) == IF n < 0 THEN <<"-">> \o DigitsOf[-n] ELSE DigitsOf[n]

\* What escape_string() prints for one character.
Escaped(c) ==
  CASE c = "BS" -> <<"\\", "b">>
    [] c = "FF" -> <<"\\", "f">>
    [] c = "\n" -> <<"\\", "n">>
    [] c = "\r" -> <<"\\", "r">>
    [] c = "\t" -> <<"\\", "t">>
    [] c \in {"\\", "\""} -> <<"\\", c>>
    [] c = "SOH" -> <<"\\", "u", "0", "0", "0", "1">>
    [] OTHER    -> <<c>>

EscapeString(s) == <<"\"">> \o FlattenSeq([i \in DOMAIN s |-> Escaped(s[i])]) \o <<"\"">>

\* The parts, with commas between them.
Commas(parts) ==
  FlattenSeq([i \in DOMAIN parts |-> IF i = 1 THEN parts[i] ELSE <<",">> \o parts[i]])

\* to_stream(): the generator quotes doubles, and integers that JavaScript
\* cannot represent, unless it is the legacy one.
RECURSIVE ToStream(_, _)
ToStream(v, legacy) ==
  CASE v.kind = "null"   -> <<"n", "u", "l", "l">>
    [] v.kind = "bool"   -> IF v.bool THEN <<"t", "r", "u", "e">> ELSE <<"f", "a", "l", "s", "e">>
    [] v.kind = "number" -> IF ~legacy /\ (v.num > Large \/ v.num < -Large)
                            THEN <<"\"">> \o NumberText(v.num) \o <<"\"">>
                            ELSE NumberText(v.num)
    [] v.kind = "double" -> IF legacy THEN v.text ELSE <<"\"">> \o v.text \o <<"\"">>
    [] v.kind = "string" -> EscapeString(v.str)
    [] v.kind = "array"  ->
          <<"[">> \o Commas([i \in DOMAIN v.items |-> ToStream(v.items[i], legacy)]) \o <<"]">>
    [] v.kind = "object" ->
          <<"{">> \o Commas([i \in DOMAIN v.members |->
                                EscapeString(v.members[i][1]) \o <<":">>
                                \o ToStream(v.members[i][2], legacy)]) \o <<"}">>

Spaces(level) == [i \in 1..(2 * level) |-> " "]
\* A new line, if one is due.
Begun(s) == IF s.first THEN s.out \o <<"\n">> \o Spaces(s.level) ELSE s.out

PrettyQuote(s) ==
  [s EXCEPT !.out = Begun(s) \o <<"\"">>, !.first = FALSE,
            !.quote = IF s.escape THEN @ ELSE ~@, !.escape = FALSE]

\* Brackets and commas outside of strings.
PrettyOpen(s, c) == [s EXCEPT !.out = Append(@, c), !.level = @ + 1, !.first = TRUE]
PrettyClose(s, c) ==
  [s EXCEPT !.out = (IF s.last \in {"[", "{"} THEN @ ELSE Append(@, "\n"))
                    \o (IF s.first THEN <<>> ELSE Spaces(s.level - 1)) \o <<c>>,
            !.level = @ - 1, !.first = FALSE]
PrettyComma(s) == [s EXCEPT !.out = Append(@, ","), !.first = TRUE]

\* Any other character.  Of those that follow a backslash n alone is looked for.
PrettyPlain(s, c) ==
  [s EXCEPT !.out = Append(Begun(s), c), !.first = FALSE, !.escape = @ /\ c # "n"]

\* pretty_print() of one character more.
PrettyChar(s, c) ==
  LET shown ==
      CASE c = "\\" -> [s EXCEPT !.out = Append(@, c), !.escape = s.quote /\ ~@]
        [] c = ":"  -> [s EXCEPT !.out = @ \o (IF s.quote THEN <<":">> ELSE <<":", " ">>)]
        [] c = "\"" -> PrettyQuote(s)
        [] c \in {"{", "[", "}", "]", ","} /\ s.quote ->
               [s EXCEPT !.out = Append(@, c), !.escape = FALSE]
        [] c \in {"{", "["} /\ ~s.quote -> PrettyOpen(s, c)
        [] c \in {"}", "]"} /\ ~s.quote -> PrettyClose(s, c)
        [] c = "," /\ ~s.quote -> PrettyComma(s)
        [] OTHER -> PrettyPlain(s, c)
  IN [shown EXCEPT !.last = c]

PrettyPrint(t) ==
  FoldLeft(PrettyChar, [out |-> <<>>, level |-> 0, first |-> FALSE, quote |-> FALSE,
                        escape |-> FALSE, last |-> " "], t).out
----
(* Reading. *)

\* parseEscape() of the character after a backslash: others stand for themselves.
Unescaped(c) == CASE c = "t" -> "\t" [] c = "n" -> "\n" [] c = "r" -> "\r" [] OTHER -> c

\* stringFromStream(), behind the first quote.
RECURSIVE StringBehind(_, _, _)
StringBehind(t, p, s) ==
  LET c == Peek(t, p) IN
  CASE c = "eof" \/ (c = "\\" /\ Peek(t, p + 1) = "eof") -> Failed("eof")
    [] c = "EOT" -> Failed("parse")
    [] c = "\""  -> Got(s, p + 1)
    [] c = "\\" /\ Peek(t, p + 1) # "eof" -> StringBehind(t, p + 2, Append(s, Unescaped(t[p + 1])))
    [] OTHER     -> StringBehind(t, p + 1, Append(s, c))

StringFromStream(t, p) ==
  IF Peek(t, p) = "\"" THEN StringBehind(t, p + 1, <<>>)
  ELSE Failed(IF Peek(t, p) = "eof" THEN "eof" ELSE "parse")

\* stringFromToken(): a word without quotes, and the space behind it.
RECURSIVE StringFromToken(_, _, _)
StringFromToken(t, p, s) ==
  LET c == Peek(t, p) IN
  CASE c = "\\" /\ Peek(t, p + 1) # "eof" -> StringFromToken(t, p + 2, Append(s, Unescaped(t[p + 1])))
    [] c = "\\" /\ Peek(t, p + 1) = "eof" -> Got(s, p + 1)
    [] c \in {" ", "\t", "\n"} -> Got(s, p + 1)
    [] c \in Digits \cup Letters \cup {"_", "-", ".", ":", "/"} -> StringFromToken(t, p + 1, Append(s, c))
    [] OTHER -> Got(s, p)

Value10(digits) == FoldLeft(LAMBDA n, c : 10 * n + DigitValue(c), 0, digits)

\* number_from_stream(): the digits; a letter among them makes it a word.
NumberFromStream(t, p, strings) ==
  LET neg == Peek(t, p) = "-"
      first == IF neg THEN p + 1 ELSE p
      end == RunEnd(t, first, Digits \cup {"."})
      text == SubSeq(t, p, end - 1)
      dots == {i \in first..end - 1 : t[i] = "."}
      word == StringFromToken(t, end, text)
  IN CASE Cardinality(dots) > 1 -> Failed("parse")
       [] Cardinality(dots) <= 1 /\ Peek(t, end) \in Letters -> Got(String(word.val), word.at)
       [] Cardinality(dots) <= 1 /\ Peek(t, end) \notin Letters
              /\ text \in {<<"-", ".">>, <<".">>, <<"-">>} -> Failed("parse")
       [] OTHER -> IF dots # {} THEN Got(IF strings THEN String(text) ELSE Double(text), end)
                   ELSE LET n == Value10(SubSeq(t, first, end - 1))
                        IN IF n > (IF neg THEN Word \div 2 ELSE Word - 1) THEN Failed("parse")
                           ELSE Got(Number(IF neg THEN -n ELSE n), end)

\* token_from_stream(): null, true, false; else a word without quotes.
TokenFromStream(t, p) ==
  LET end == RunEnd(t, p, {"n", "u", "l", "t", "r", "e", "f", "a", "s"})
      text == SubSeq(t, p, end - 1)
      word == StringFromToken(t, end, text)
  IN CASE text = <<"n", "u", "l", "l">> -> Got(Nil, end)
       [] text = <<"t", "r", "u", "e">> -> Got(Bool(TRUE), end)
       [] text = <<"f", "a", "l", "s", "e">> -> Got(Bool(FALSE), end)
       [] OTHER -> IF Peek(t, end) = "eof" THEN Got(String(text), end)
                   ELSE Got(String(word.val), word.at)

\* In full validation a comma follows an element.
CommaAllowed(items, expecting) == items # <<>> /\ ~expecting

\* A parser: full validation or not, and whether doubles stay strings.
Legacy(full) == [full |-> full, strings |-> FALSE]

RECURSIVE VariantFromStream(_, _, _, _), Members(_, _, _, _, _), Elements(_, _, _, _, _, _)

\* objectFromStream(), between two members; to miss the end is a parse error.  A
\* key that is there already is appended all the same.
Members(t, p, mode, depth, members) ==
  LET c == Peek(t, p)
      key == StringFromStream(t, p)
      colon == SkipWhiteSpace(t, key.at)
      val == VariantFromStream(t, colon + 1, mode, depth)
  IN CASE c = "}" -> Got(Object(members), p + 1)
       [] c = "," -> Members(t, p + 1, mode, depth, members)
       [] c \in Space -> Members(t, SkipWhiteSpace(t, p), mode, depth, members)
       [] OTHER -> IF ~key.ok THEN Failed("parse")
                   ELSE IF Peek(t, colon) # ":" THEN Failed("parse")
                   ELSE IF ~val.ok THEN Failed("parse")
                   ELSE Members(t, SkipWhiteSpace(t, val.at), mode, depth,
                                Append(members, <<key.val, val.val>>))

\* arrayFromStream(), between two elements.
Elements(t, p, mode, depth, items, expecting) ==
  LET c == Peek(t, p)
      val == VariantFromStream(t, p, mode, depth)
  IN CASE c = "eof" -> Failed("eof")
       [] c = "]" -> IF mode.full /\ expecting /\ items # <<>> THEN Failed("parse")
                     ELSE Got(Array(items), p + 1)
       [] c = "," -> IF mode.full /\ ~CommaAllowed(items, expecting) THEN Failed("parse")
                     ELSE Elements(t, p + 1, mode, depth, items, TRUE)
       [] c \in Space -> Elements(t, SkipWhiteSpace(t, p), mode, depth, items, expecting)
       [] OTHER -> IF mode.full /\ ~expecting THEN Failed("parse")
                   ELSE IF ~val.ok THEN val
                   ELSE Elements(t, SkipWhiteSpace(t, val.at), mode, depth,
                                 Append(items, val.val), FALSE)

\* variant_from_stream().
VariantFromStream(t, from, mode, depth) ==
  LET p == SkipWhiteSpace(t, from)
      c == Peek(t, p)
      str == StringFromStream(t, p)
  IN CASE depth + 1 > MaxRecursion -> Failed("parse")
       [] depth < MaxRecursion /\ c = "\"" -> IF str.ok THEN Got(String(str.val), str.at) ELSE str
       [] depth < MaxRecursion /\ c \in {"{", "["} ->
              IF depth + 2 > MaxRecursion THEN Failed("parse")
              ELSE IF c = "{" THEN Members(t, SkipWhiteSpace(t, p + 1), mode, depth + 2, <<>>)
                   ELSE Elements(t, SkipWhiteSpace(t, p + 1), mode, depth + 2, <<>>, TRUE)
       [] depth < MaxRecursion /\ c \in Digits \cup {"-", "."} -> NumberFromStream(t, p, mode.strings)
       [] depth < MaxRecursion /\ c \in {"n", "t", "f"} -> TokenFromStream(t, p)
       [] OTHER -> Failed(IF c \in {"eof", "EOT", "NUL"} THEN "eof" ELSE "parse")

\* check_string_depth() has refused the text: every bracket counts, those in
\* strings too.
TooDeep(t) ==
  LET open(left, right, n) == Cardinality({i \in 1..n : t[i] = left})
                              - Cardinality({i \in 1..n : t[i] = right})
  IN \E n \in DOMAIN t : open("{", "}", n) >= Deep \/ open("[", "]", n) >= Deep

\* from_string(): what follows the value is not looked at.
FromString(t, mode) ==
  IF TooDeep(t) THEN Failed("parse") ELSE VariantFromStream(t, 1, mode, 1)

\* is_valid(): it is; brackets are not counted.
IsValid(t, mode) ==
  t # <<>> /\ LET r == VariantFromStream(t, 1, mode, 0) IN r.ok /\ r.at > Len(t)
----
(* What is printed and what is read. *)

CONSTANTS Documents,    \* values to print
          Texts         \* texts to read

VARIABLES doc,      \* the value that is printed; Nil if a text is given
          text,
          made,     \* how the text came about: given, printed, pretty
          got       \* what was last read from it

jsVars == <<doc, text, made, got>>

Unread == [ok |-> FALSE, why |-> "unread"]

\* A value to print or a text to read.
JsBegin(docs, texts) == /\ doc \in docs \cup {Nil} /\ got = Unread
                        /\ \/ doc = Nil /\ text \in texts /\ made = "given"
                           \/ doc # Nil /\ text = <<>> /\ made = "no"

JsInit == JsBegin(Documents, Texts)

PrintDoc == /\ made = "no" /\ text' = ToStream(doc, TRUE) /\ made' = "printed"
            /\ UNCHANGED <<doc, got>>

Prettify == /\ made = "printed" /\ text' = PrettyPrint(text) /\ made' = "pretty"
            /\ got' = Unread /\ UNCHANGED doc

Read == /\ made # "no" /\ got = Unread /\ got' = FromString(text, Legacy(FALSE))
        /\ UNCHANGED <<doc, text, made>>

JsNext == PrintDoc \/ Prettify \/ Read

JsSpec == JsInit /\ [][JsNext]_jsVars
----
(* Properties. *)

\* The strings of a value.
RECURSIVE StringsOf(_)
StringsOf(v) ==
  CASE v.kind = "string" -> {v.str}
    [] v.kind = "array"  -> UNION {StringsOf(v.items[i]) : i \in DOMAIN v.items}
    [] v.kind = "object" -> UNION {{v.members[i][1]} \cup StringsOf(v.members[i][2]) : i \in DOMAIN v.members}
    [] OTHER -> {}
Uses(v, chars) == \E s \in StringsOf(v) : \E i \in DOMAIN s : s[i] \in chars

\* What to_string() prints from_string() reads back, unless a string holds a
\* control character other than tab and the ends of a line, which are printed
\* in a form that is not read, or the brackets in the text are too many.
PrintedIsRead ==
  made = "printed" /\ got # Unread /\ ~Uses(doc, {"BS", "FF", "SOH"}) /\ ~TooDeep(text)
  => got.ok /\ got.val = doc

\* to_pretty_string() prints the same value, unless a string of it has an escape other than those of
\* the quote, the backslash and the end of line: after any other, json.cpp:957-961 leaves `escape` set
\* and takes the quote that ends the string for a part of it.
PrettyIsRead ==
  made = "pretty" /\ got # Unread /\ ~TooDeep(text)
  /\ ~Uses(doc, {"BS", "FF", "SOH", "\t", "\r"})
  => got.ok /\ got.val = doc

\* A text of brackets, commas and numbers is valid in full if and only if it is
\* what is printed of its value, spaces aside.
FullIsCanonical ==
  made = "given" /\ ToSet(text) \subseteq {"[", "]", ",", "1", " "}
  => LET bare == SelectSeq(text, LAMBDA c : c \notin Space) IN
     IsValid(text, Legacy(TRUE)) => ToStream(VariantFromStream(text, 1, Legacy(TRUE), 0).val, TRUE) = bare

----
(* The other parser of fc::json (include/fc/io/json_relaxed.hpp), strict
   or relaxed: the latter takes words without quotes, strings in single
   and triple quotes, and integers of other bases. *)

Signs == {"_", "-", ".", "+", "/"}
TokenChars == Digits \cup Letters \cup Signs
----
\* tokenFromStream(): the character that ends a word is read, if it separates.
RECURSIVE TokenChain(_, _, _)
TokenChain(t, p, s) ==
  LET c == Peek(t, p) IN
  CASE c = "\\" -> IF Peek(t, p + 1) = "eof" THEN Got(s, p + 1)
                   ELSE TokenChain(t, p + 2, Append(s, Unescaped(t[p + 1])))
    [] c \in {"\t", " ", ",", ":", "NUL", "\n", "EOT"} -> Got(s, p + 1)
    [] c \in TokenChars -> TokenChain(t, p + 1, Append(s, c))
    [] OTHER -> Got(s, p)

\* quoteStringFromStream() between three quotes: one or two are text.
RECURSIVE TripleQuoted(_, _, _, _, _)
TripleQuoted(t, p, q, escapes, s) ==
  LET quotes == RunEnd(t, p, {q}) - p
      c == Peek(t, p)
  IN CASE c = q -> IF quotes >= 3 THEN Got(s, p + 3)
                   ELSE IF Peek(t, p + quotes) = "eof" THEN Failed("eof")
                   ELSE TripleQuoted(t, p + quotes, q, escapes, s \o SubSeq(t, p, p + quotes - 1))
       [] c = "eof" -> Failed("eof")
       [] c = "EOT" -> Failed("parse")
       [] c = "\\" /\ escapes ->
              IF Peek(t, p + 1) = "eof" THEN Failed("eof")
              ELSE TripleQuoted(t, p + 2, q, escapes, Append(s, Unescaped(t[p + 1])))
       [] OTHER -> TripleQuoted(t, p + 1, q, escapes, Append(s, c))

RECURSIVE Quoted(_, _, _, _, _)
Quoted(t, p, q, escapes, s) ==
  LET c == Peek(t, p) IN
  CASE c = q -> Got(s, p + 1)
    [] c = "eof" -> Failed("eof")
    [] c \in {"EOT", "\r", "\n"} -> Failed("parse")
    [] c = "\\" /\ escapes ->
          IF Peek(t, p + 1) = "eof" THEN Failed("eof")
          ELSE Quoted(t, p + 2, q, escapes, Append(s, Unescaped(t[p + 1])))
    [] OTHER -> Quoted(t, p + 1, q, escapes, Append(s, c))

\* quoteStringFromStream(), from the quote on.  Behind two quotes it looks for a
\* third, and there must be something to look at.
QuoteStringFromStream(t, p, strict, escapes) ==
  LET q == t[p] IN
  IF Peek(t, p + 1) # q THEN Quoted(t, p + 1, q, escapes, <<>>)
  ELSE IF Peek(t, p + 2) = "eof" THEN Failed("eof")
  ELSE IF Peek(t, p + 2) # q THEN Got(<<>>, p + 2)
  ELSE IF strict THEN Failed("parse")
  ELSE TripleQuoted(t, p + 3, q, escapes, <<>>)

\* stringFromStream(): a key may be a word or a raw string, unless strict.
RelaxedString(t, p, strict) ==
  LET c == Peek(t, p) IN
  CASE c = "\"" \/ (c = "'" /\ ~strict) -> QuoteStringFromStream(t, p, strict, TRUE)
    [] c \in {"r", "R"} /\ ~strict ->
          IF Peek(t, p + 1) = "eof" THEN Failed("eof")
          ELSE IF Peek(t, p + 1) \in {"\"", "'"} THEN QuoteStringFromStream(t, p + 1, strict, FALSE)
          ELSE TokenChain(t, p + 1, <<c>>)
    [] c \in TokenChars \ {"r", "R"} /\ ~strict -> TokenChain(t, p, <<>>)
    [] OTHER -> Failed(IF c = "eof" THEN "eof" ELSE "parse")
----
\* CharValueTable: letters are digits of any base.
CharValue(c) ==
  LET letters == [a |-> 10, b |-> 11, e |-> 14, f |-> 15, l |-> 21, n |-> 23, o |-> 24, r |-> 27,
                  R |-> 27, s |-> 28, t |-> 29, u |-> 30, x |-> 33]
  IN IF c \in Digits THEN DigitValue(c) ELSE IF c \in Letters THEN letters[c] ELSE 255

\* One digit more; -1 when it is none, or the product or the sum overflows.
IntStep(base, val, c) ==
  IF val = -1 \/ CharValue(c) = 255 \/ val > (Word - 1) \div base THEN -1
  ELSE LET mul == (val * base) % Word
           sum == (mul + CharValue(c)) % Word
       IN IF sum < mul THEN -1 ELSE sum

\* parseInt(): unsigned, or signed if the word begins with a minus.
ParseInt(token, start, base) ==
  LET val == FoldLeft(LAMBDA v, c : IntStep(base, v, c), 0, SubSeq(token, start, Len(token))) IN
  IF start > Len(token) \/ val = -1 THEN Failed("parse")
  ELSE IF token[1] # "-" THEN Got(Number(val), 0)
  ELSE IF val > Word \div 2 THEN Failed("parse") ELSE Got(Number(-val), 0)

WordOrFail(token, strict) == IF strict THEN Failed("parse") ELSE Got(String(token), 0)

\* maybeParseInt().
MaybeParseInt(token, start, base, strict) ==
  LET int == ParseInt(token, start, base) IN IF int.ok THEN int ELSE WordOrFail(token, strict)

\* parseNumberOrStr() behind an e: digits, after at most one sign; then the rest
\* is digits or not looked at.
Exponent(token, j, strict) ==
  LET c == Peek(token, j)
      signed == c \in {"+", "-"} /\ j < Len(token)
  IN IF c \in Digits \/ signed
     THEN IF \E i \in j + 1..Len(token) : token[i] \in Letters \cup Signs
          THEN WordOrFail(token, strict) ELSE Got(Double(token), 0)
     ELSE IF c \in TokenChars \cup {"eof"} THEN WordOrFail(token, strict) ELSE Failed("parse")

\* parseNumberOrStr(): a leading 0 may begin an integer of another base; the first
\* digit of a binary one is skipped; with a point the word stays a string.
ParseNumberOrStr(token, strict) ==
  LET k == IF Peek(token, 1) \in {"+", "-"} THEN 2 ELSE 1
      c == Peek(token, k)
      next == Peek(token, k + 1)
      end == RunEnd(token, k, Digits)
      d == Peek(token, end)
  IN CASE token = <<>> \/ (token # <<>> /\ token[1] = "+" /\ strict) -> Failed("parse")
       [] OTHER ->
          IF c \in TokenChars \ Digits THEN WordOrFail(token, strict)
          ELSE IF c \notin Digits THEN Failed("parse")
          ELSE IF c = "0" /\ next = "eof" THEN Got(Number(0), 0)
          ELSE IF c = "0" /\ strict /\ next \notin {".", "e"} THEN Failed("parse")
          ELSE IF c = "0" /\ next = "b"
               THEN IF k + 2 > Len(token) THEN Failed("parse")
                    ELSE MaybeParseInt(token, k + 3, 2, strict)
          ELSE IF c = "0" /\ next = "o" THEN MaybeParseInt(token, k + 2, 8, strict)
          ELSE IF c = "0" /\ next = "x" THEN MaybeParseInt(token, k + 2, 16, strict)
          ELSE IF d = "eof" THEN ParseInt(token, k, 10)
          ELSE IF d = "." THEN Got(String(token), 0)
          ELSE IF d = "e" THEN Exponent(token, end + 1, strict)
          ELSE IF d \in TokenChars THEN WordOrFail(token, strict) ELSE Failed("parse")

\* numberFromStream().
RelaxedNumber(t, p, strict) ==
  LET token == TokenChain(t, p, <<>>)
      result == ParseNumberOrStr(token.val, strict)
  IN IF ~result.ok \/ (strict /\ result.val.kind = "string") THEN Failed("parse")
     ELSE Got(result.val, token.at)

\* wordFromStream().
WordFromStream(t, p, strict) ==
  LET token == TokenChain(t, p, <<>>) IN
  CASE token.val = <<"n", "u", "l", "l">> -> Got(Nil, token.at)
    [] token.val = <<"t", "r", "u", "e">> -> Got(Bool(TRUE), token.at)
    [] token.val = <<"f", "a", "l", "s", "e">> -> Got(Bool(FALSE), token.at)
    [] OTHER -> IF strict THEN Failed("parse") ELSE Got(String(token.val), token.at)

RECURSIVE RelaxedVariant(_, _, _, _), RelaxedMembers(_, _, _, _, _), RelaxedElements(_, _, _, _, _)

\* objectFromStream(): a colon must be left behind the key.
RelaxedMembers(t, p, strict, depth, members) ==
  LET c == Peek(t, p)
      key == RelaxedString(t, p, strict)
      colon == SkipWhiteSpace(t, key.at)
      val == RelaxedVariant(t, colon + 1, strict, depth)
  IN CASE c = "}" -> Got(Object(members), p + 1)
       [] c = "," -> RelaxedMembers(t, p + 1, strict, depth, members)
       [] c \in Space -> RelaxedMembers(t, SkipWhiteSpace(t, p), strict, depth, members)
       [] OTHER -> IF ~key.ok THEN Failed("parse")
                   ELSE IF Peek(t, colon) # ":" \/ ~val.ok THEN Failed("parse")
                   ELSE RelaxedMembers(t, SkipWhiteSpace(t, val.at), strict, depth,
                                       Append(members, <<key.val, val.val>>))

\* arrayFromStream(): commas are skipped, wherever they are.
RelaxedElements(t, p, strict, depth, items) ==
  LET c == Peek(t, p)
      val == RelaxedVariant(t, p, strict, depth)
  IN CASE c = "eof" -> Failed("eof")
       [] c = "]" -> Got(Array(items), p + 1)
       [] c = "," -> RelaxedElements(t, p + 1, strict, depth, items)
       [] c \in Space -> RelaxedElements(t, SkipWhiteSpace(t, p), strict, depth, items)
       [] OTHER -> IF ~val.ok THEN val
                   ELSE RelaxedElements(t, SkipWhiteSpace(t, val.at), strict, depth,
                                        Append(items, val.val))

\* variant_from_stream().
RelaxedVariant(t, from, strict, depth) ==
  LET p == SkipWhiteSpace(t, from)
      c == Peek(t, p)
      str == QuoteStringFromStream(t, p, strict, TRUE)
  IN CASE depth + 1 > MaxRecursion \/ (c \in {"{", "["} /\ depth + 2 > MaxRecursion) -> Failed("parse")
       [] OTHER ->
          IF c = "\"" THEN IF str.ok THEN Got(String(str.val), str.at) ELSE str
          ELSE IF c = "{" THEN RelaxedMembers(t, SkipWhiteSpace(t, p + 1), strict, depth + 2, <<>>)
          ELSE IF c = "[" THEN RelaxedElements(t, SkipWhiteSpace(t, p + 1), strict, depth + 2, <<>>)
          ELSE IF c \in Digits \cup {"-", "+", "."} THEN RelaxedNumber(t, p, strict)
          ELSE IF c \in Letters \cup {"_", "/"} THEN WordFromStream(t, p, strict)
          ELSE IF c = "NUL" THEN Got(Nil, p)
          ELSE Failed(IF c \in {"eof", "EOT"} THEN "eof" ELSE "parse")

\* from_string() with strict_parser or relaxed_parser.
FromStringRelaxed(t, strict) ==
  IF TooDeep(t) THEN Failed("parse") ELSE RelaxedVariant(t, 1, strict, 1)

\* variants_from_string(): one after the other, until one fails; it may be that the text has ended.
VariantsFromString(t) ==
  FoldLeft(LAMBDA s, i : IF s.last.ok THEN [values |-> Append(s.values, s.last.val), last |-> RelaxedVariant(t, s.last.at, FALSE, 1)]
                         ELSE s,
           [values |-> <<>>, last |-> IF TooDeep(t) THEN Failed("parse") ELSE Got("begun", 1)], [i \in 1..Len(t) + 2 |-> i])
----
(* Properties. *)

\* What is printed the strict parser reads too, but for an empty string that
\* nothing follows.
StrictReadsPrinted ==
  made = "printed" /\ ~Uses(doc, {"BS", "FF", "SOH"}) /\ ~TooDeep(text) /\ doc # String(<<>>)
  => \A r \in {FromStringRelaxed(text, TRUE)} : r.ok /\ r.val = doc

\* What the strict parser reads the legacy one reads as the same value, unless a
\* colon directly follows a number or a word: these end there, and it is gone.
StrictIsLegacy ==
  made = "given" /\ (\A i \in 2..Len(text) : text[i] = ":" => text[i - 1] \notin TokenChars)
  => \A strict \in {FromStringRelaxed(text, TRUE)}, legacy \in {FromString(text, Legacy(FALSE))} :
        strict.ok => legacy.ok /\ legacy.val = strict.val

\* Texts that are an integer, of any base, yield it if the word can hold it, and
\* are refused if not.
IntegerIsExact ==
  made = "given" /\ text # <<>> /\ (\A i \in DOMAIN text : text[i] \in Digits \/ (i = 1 /\ text[i] = "-" /\ Len(text) > 1))
  => LET neg == text[1] = "-"
         n == Value10(IF neg THEN Tail(text) ELSE text)
     IN \A r \in {FromStringRelaxed(text, FALSE)} :
           IF n < Word /\ (neg => n <= Word \div 2)
           THEN r.ok /\ r.val = Number(IF neg THEN -n ELSE n)
           ELSE ~r.ok

\* Printed one behind the other, with spaces, values come back one by one.
VariantsAreRead ==
  made = "printed" /\ ~Uses(doc, {"BS", "FF", "SOH"}) /\ ~TooDeep(text \o text)
  => \A twice \in {text \o <<" ">> \o text \o <<" ">>} :
        \A r \in {VariantsFromString(twice)} : r.last.why = "eof" /\ r.values = <<"begun", doc, doc>>
====
