---- MODULE Raw ----
(* fc::raw (include/fc/io/raw.hpp, raw_variant.hpp, varint.hpp,
   datastream.hpp): values of a type are packed into bytes and unpacked
   again, in place, from a stream that throws at its end.  A byte has one
   bit for "more follows" above the bits of its group; numbers of fixed
   size are one byte long here. *)
EXTENDS Integers, Sequences, SequencesExt, FiniteSets, FiniteSetsExt

CONSTANTS Group,        \* values of the group of a byte: 2^7
          UnsignedWord,         \* values of an unsigned_int: 2^32
          MaxGroups,    \* bytes of an unsigned_int: 5
          MaxAlloc,     \* MAX_ARRAY_ALLOC_SIZE: 2^24
          MaxNesting      \* MAX_RECURSION_DEPTH: 20

ASSUME RawAssumption == /\ {Group, MaxGroups, MaxAlloc, MaxNesting} \subseteq Nat \ {0}
                        /\ UnsignedWord \in Nat \ {0} /\ UnsignedWord % 4 = 0 /\ UnsignedWord <= Group ^ MaxGroups

Bytes == 0..2 * Group - 1

\* Types: of one byte, or made of others.
Byte == [is |-> "byte"]
Flag == [is |-> "bool"]
Unsigned == [is |-> "unsigned_int"]
Signed == [is |-> "signed_int"]
Text == [is |-> "string"]
Vector(T) == [is |-> "vector", of |-> T]
SetOf(T) == [is |-> "set", of |-> T]
Map(K, V) == [is |-> "map", of |-> <<K, V>>]
Optional(T) == [is |-> "optional", of |-> T]
Struct(Ts) == [is |-> "struct", of |-> Ts]
Pair(Ts) == [is |-> "pair", of |-> Ts]
Choice(Ts) == [is |-> "static_variant", of |-> Ts]
Variant == [is |-> "variant"]

\* Values.  A variant is a kind and a value of the type of the kind.
None == <<>>
Some(v) == <<v>>
Chosen(i, v) == <<i, v>>
OfKind(k, v) == <<k, v>>
NullVariant == OfKind(0, 0)
KindType == <<Byte, Byte, Byte, Flag, Text, Vector(Variant)>>   \* int64, uint64, double, ...
ObjectKind == 7
BlobKind == 8
Entry == [is |-> "entry", of |-> <<Text, Variant>>]

Packed(bytes) == [ok |-> TRUE, bytes |-> bytes]
ReadBytes(v, p) == [ok |-> TRUE, val |-> v, at |-> p]
Throws == [ok |-> FALSE]
----
(* pack. *)

RECURSIVE PackUnsigned(_)
PackUnsigned(n) ==
  IF n < Group THEN <<n>> ELSE <<Group + (n % Group)>> \o PackUnsigned(n \div Group)

\* pack( signed_int ): (v << 1) ^ (v >> 31).
ZigZag(v) == IF v >= 0 THEN (2 * v) % UnsignedWord ELSE (-2 * v - 1) % UnsignedWord

All(parts) == IF \A i \in DOMAIN parts : parts[i].ok
              THEN Packed(FlattenSeq([i \in DOMAIN parts |-> parts[i].bytes])) ELSE Throws

Sorted(keys) == SetToSortSeq(keys, <)

RECURSIVE Pack(_, _)
PackAll(T, items) ==
  All(<<Packed(PackUnsigned(Len(items)))>> \o [i \in DOMAIN items |-> Pack(T, items[i])])
Pack(T, v) ==
  CASE T.is = "byte" -> Packed(<<v>>)
    [] T.is = "bool" -> Packed(<<IF v THEN 1 ELSE 0>>)
    [] T.is = "unsigned_int" -> Packed(PackUnsigned(v))
    [] T.is = "signed_int" -> Packed(PackUnsigned(ZigZag(v)))
    [] T.is = "string" -> Packed(PackUnsigned(Len(v)) \o v)
    [] T.is = "vector" -> PackAll(T.of, v)
    [] T.is = "set" -> PackAll(T.of, Sorted(v))
    [] T.is = "map" -> LET keys == Sorted(DOMAIN v)
                       IN PackAll(Pair(T.of), [i \in DOMAIN keys |-> <<keys[i], v[keys[i]]>>])
    [] T.is = "optional" -> All(<<Packed(<<Len(v)>>)>> \o [i \in DOMAIN v |-> Pack(T.of, v[i])])
    [] T.is \in {"struct", "pair", "entry"} -> All([i \in DOMAIN v |-> Pack(T.of[i], v[i])])
    [] T.is = "static_variant" ->
          All(<<Packed(PackUnsigned(v[1])), Pack(T.of[v[1] + 1], v[2])>>)
    [] T.is = "variant" ->    \* visit() of a blob throws
          CASE v[1] = 0 -> Packed(<<0>>)
            [] v[1] = BlobKind -> Throws
            [] v[1] = ObjectKind ->
                  All(<<Packed(<<ObjectKind>>), PackAll(Entry, v[2])>>)
            [] OTHER -> All(<<Packed(<<v[1]>>), Pack(KindType[v[1]], v[2])>>)
----
(* unpack. *)

Here(b, p) == p <= Len(b)

\* unpack( unsigned_int ): at most MaxGroups bytes, whether or not more follow.
UnpackUnsigned(b, p) ==
  LET n == Min({k \in 1..MaxGroups : p + k - 1 > Len(b) \/ b[p + k - 1] < Group \/ k = MaxGroups})
  IN IF p + n - 1 > Len(b) THEN Throws
     ELSE ReadBytes(FoldLeft(LAMBDA v, i : v + (b[p + i - 1] % Group) * Group ^ (i - 1), 0,
                        [i \in 1..n |-> i]) % UnsignedWord, p + n)

\* An int32_t of these bits.
ToSigned(bits) == IF bits >= UnsignedWord \div 2 THEN bits - UnsignedWord ELSE bits

\* unpack( signed_int ): ((v >> 1) ^ (v >> 31)) + (v & 1), or minus that.
UnZigZag(v) ==
  LET half == v \div 2
      top == v \div (UnsignedWord \div 2)
      flipped == IF top = 1 THEN (IF half % 2 = 0 THEN half + 1 ELSE half - 1) ELSE half
      sum == (flipped + (v % 2)) % UnsignedWord
  IN ToSigned(IF v % 2 = 1 THEN (UnsignedWord - sum) % UnsignedWord ELSE sum)

\* sizeof, in bytes.
SizeOf(T) == CASE T.is \in {"byte", "bool"} -> 1 [] T.is \in {"unsigned_int", "signed_int"} -> 4 [] OTHER -> 8

\* What `T tmp;` holds; numbers are read before they are looked at.
RECURSIVE Fresh(_)
Fresh(T) ==
  CASE T.is \in {"byte", "unsigned_int", "signed_int"} -> 0
    [] T.is = "bool" -> FALSE
    [] T.is \in {"string", "vector", "optional"} -> <<>>
    [] T.is = "set" -> {}
    [] T.is = "map" -> <<>>
    [] T.is \in {"struct", "pair", "entry"} -> [i \in DOMAIN T.of |-> Fresh(T.of[i])]
    [] T.is = "static_variant" -> Chosen(0, Fresh(T.of[1]))
    [] T.is = "variant" -> NullVariant

UnpackText(b, p, free) ==
  LET size == UnpackUnsigned(b, p) IN
  IF ~size.ok THEN Throws
  ELSE IF ~(free \/ size.val < MaxAlloc) THEN Throws
  ELSE IF size.at + size.val - 1 > Len(b) THEN Throws
  ELSE ReadBytes(SubSeq(b, size.at, size.at + size.val - 1), size.at + size.val)

RECURSIVE Unpack(_, _, _, _, _, _), UnpackItems(_, _, _, _, _, _)

\* n items, each into a new one.
UnpackItems(T, n, b, p, depth, free) ==
  IF n = 0 THEN ReadBytes(<<>>, p)
  ELSE LET first == Unpack(T, b, p, depth, free, Fresh(T)) IN
       IF ~first.ok THEN Throws
       ELSE LET rest == UnpackItems(T, n - 1, b, first.at, depth, free) IN
            IF ~rest.ok THEN Throws ELSE ReadBytes(<<first.val>> \o rest.val, rest.at)

\* A counted container; limit is what the count times the size must stay below.
UnpackAll(T, b, p, depth, free, width) ==
  LET size == UnpackUnsigned(b, p) IN
  IF depth > MaxNesting \/ ~size.ok THEN Throws
  ELSE IF ~(free \/ size.val * width < MaxAlloc) THEN Throws
  ELSE UnpackItems(T, size.val, b, size.at, depth, free)

\* The fields one after the other, in place.  Those of a pair are a level deeper,
\* those of a reflected class begin at level 0.
RECURSIVE UnpackFields(_, _, _, _, _, _)
UnpackFields(Ts, b, p, depth, free, old) ==
  IF Ts = <<>> THEN ReadBytes(<<>>, p)
  ELSE LET first == Unpack(Head(Ts), b, p, depth, free, Head(old)) IN
       IF ~first.ok THEN Throws
       ELSE LET rest == UnpackFields(Tail(Ts), b, first.at, depth, free, Tail(old)) IN
            IF ~rest.ok THEN Throws ELSE ReadBytes(<<first.val>> \o rest.val, rest.at)

\* insert() and set(): of two entries with one key the first stays, or the last.
InsertFirst(pairs) == FoldLeft(LAMBDA m, e : IF e[1] \in DOMAIN m THEN m ELSE
                                   [k \in DOMAIN m \cup {e[1]} |-> IF k = e[1] THEN e[2] ELSE m[k]],
                               <<>>, pairs)
SetLast(pairs) ==
  FoldLeft(LAMBDA d, e : IF \E i \in DOMAIN d : d[i][1] = e[1]
                         THEN [i \in DOMAIN d |-> IF d[i][1] = e[1] THEN e ELSE d[i]]
                         ELSE Append(d, e), <<>>, pairs)

\* unpack( variant ): what follows the kind is read within the limits, whatever
\* the caller said; null leaves the variant as it was.
UnpackVariant(b, p, depth, old) ==
  IF depth + 3 > MaxNesting \/ ~Here(b, p) THEN Throws
  ELSE IF b[p] = 0 THEN ReadBytes(old, p + 1)
  ELSE IF b[p] = ObjectKind
  THEN LET entries == UnpackAll(Entry, b, p + 1, depth + 2, TRUE, 0)
       IN IF ~entries.ok THEN Throws ELSE ReadBytes(OfKind(ObjectKind, SetLast(entries.val)), entries.at)
  ELSE IF b[p] \in DOMAIN KindType
  THEN LET v == Unpack(KindType[b[p]], b, p + 1, depth + 1, FALSE, Fresh(KindType[b[p]])) IN
       IF v.ok THEN ReadBytes(OfKind(b[p], v.val), v.at) ELSE Throws
  ELSE Throws

\* Fault: a value that is there is unpacked over the old one.
UnpackOptionalOver(T, b, p, depth, free, old) ==
  IF depth + 3 > MaxNesting \/ ~Here(b, p) THEN Throws
  ELSE IF b[p] = 0 THEN ReadBytes(old, p + 1)
  ELSE IF b[p] > 1 THEN Throws
  ELSE LET v == Unpack(T, b, p + 1, depth, free, IF old = None THEN Fresh(T) ELSE old[1]) IN
       IF v.ok THEN ReadBytes(Some(v.val), v.at) ELSE Throws

\* An absent value leaves the optional as it was.
UnpackOptional(T, b, p, depth, free, old) ==
  IF depth + 3 > MaxNesting \/ ~Here(b, p) THEN Throws
  ELSE IF b[p] = 0 THEN ReadBytes(old, p + 1)
  ELSE IF b[p] > 1 THEN Throws
  ELSE LET v == Unpack(T, b, p + 1, depth, free, Fresh(T)) IN
       IF v.ok THEN ReadBytes(Some(v.val), v.at) ELSE Throws

UnpackChoice(Ts, b, p, depth, free) ==
  LET which == UnpackUnsigned(b, p) IN
  IF depth > MaxNesting \/ ~which.ok THEN Throws
  ELSE IF which.val >= Len(Ts) THEN Throws
  ELSE LET T == Ts[which.val + 1]
           v == Unpack(T, b, which.at, depth, free, Fresh(T))
       IN IF v.ok THEN ReadBytes(Chosen(which.val, v.val), v.at) ELSE Throws

Unpack(T, b, p, depth, free, old) ==
  CASE T.is = "byte" -> IF depth + 2 > MaxNesting \/ ~Here(b, p) THEN Throws ELSE ReadBytes(b[p], p + 1)
    [] T.is = "bool" -> IF depth + 3 > MaxNesting \/ ~Here(b, p) THEN Throws
                        ELSE IF b[p] > 1 THEN Throws ELSE ReadBytes(b[p] = 1, p + 1)
    [] T.is = "unsigned_int" -> UnpackUnsigned(b, p)
    [] T.is = "signed_int" -> LET v == UnpackUnsigned(b, p)
                              IN IF v.ok THEN ReadBytes(UnZigZag(v.val), v.at) ELSE Throws
    [] T.is = "string" -> UnpackText(b, p, free)
    [] T.is = "vector" -> UnpackAll(T.of, b, p, depth + 1, free, SizeOf(T.of))
    [] T.is = "set" -> LET v == UnpackAll(T.of, b, p, depth + 1, TRUE, 0)
                       IN IF v.ok THEN ReadBytes(ToSet(v.val), v.at) ELSE Throws
    [] T.is = "map" -> LET v == UnpackAll(Pair(T.of), b, p, depth + 1, free,
                                          SizeOf(T.of[1]) + SizeOf(T.of[2]))
                       IN IF v.ok THEN ReadBytes(InsertFirst(v.val), v.at) ELSE Throws
    [] T.is = "optional" -> UnpackOptional(T.of, b, p, depth + 1, free, old)
    [] T.is = "pair" -> IF depth + 1 > MaxNesting THEN Throws
                        ELSE UnpackFields(T.of, b, p, depth + 1, free, old)
    [] T.is = "entry" -> UnpackFields(T.of, b, p, depth, FALSE, old)
    [] T.is = "struct" -> IF depth + 2 > MaxNesting THEN Throws ELSE UnpackFields(T.of, b, p, 0, free, old)
    [] T.is = "static_variant" -> UnpackChoice(T.of, b, p, depth + 1, free)
    [] T.is = "variant" -> UnpackVariant(b, p, depth, old)
----
(* Properties, of a value of a type and of bytes. *)

\* How deep the arrays and objects of a variant nest.
RECURSIVE Nest(_)
Nest(v) == CASE v[1] = 6 -> 1 + Max({0} \cup {Nest(v[2][i]) : i \in DOMAIN v[2]})
             [] v[1] = ObjectKind -> 1 + Max({0} \cup {Nest(v[2][i][2]) : i \in DOMAIN v[2]})
             [] OTHER -> 0

\* What pack() writes unpack() reads, to its last byte.
ComesBack(T, v) ==
  LET packed == Pack(T, v)
  IN packed.ok => Unpack(T, packed.bytes, 1, 0, TRUE, Fresh(T)) = ReadBytes(v, Len(packed.bytes) + 1)

\* That holds of every value, but for a signed_int outside the lower half of its range (raw.hpp:195
\* takes a bit of the number for its sign there) and a variant that nests deeper than unpack() goes.
RawRoundTrip(T, v) ==
  /\ T = Signed => v \in -(UnsignedWord \div 4)..UnsignedWord \div 4 - 1
  /\ T = Variant => 2 * Nest(v) + 3 <= MaxNesting
  => ComesBack(T, v)

\* A stream that ends too early is refused.
RawTruncated(T, v) ==
  LET packed == Pack(T, v)
  IN packed.ok => \A n \in 0..Len(packed.bytes) - 1 :
                      ~Unpack(T, SubSeq(packed.bytes, 1, n), 1, 0, FALSE, Fresh(T)).ok

\* What is read of a stream, but a signed_int, pack() writes, and it comes back.
RawCanonical(T, b) ==
  LET read == Unpack(T, b, 1, 0, FALSE, Fresh(T))
      packed == Pack(T, read.val)
  IN read.ok /\ T # Signed => packed.ok /\ Unpack(T, packed.bytes, 1, 0, FALSE, Fresh(T)) = ReadBytes(read.val, Len(packed.bytes) + 1)

\* What may be read where v was packed, into an object that holds old: v, member by member, or old
\* in a place where v has an absent optional or a null variant.
RECURSIVE Replaces(_, _, _, _)
Replaces(T, r, v, old) ==
  \/ r = v
  \/ r = old /\ v \in (IF T.is = "optional" THEN {None} ELSE IF T = Variant THEN {NullVariant} ELSE {})
  \/ T.is = "struct" /\ \A i \in DOMAIN v : Replaces(T.of[i], r[i], v[i], old[i])

\* Unpacked into an object in use, an absent optional and a null variant may leave what was there
\* (raw.hpp:254-259 has no else); whatever is present replaces all of it.
RawIntoUsed(T, v, old) ==
  LET packed == Pack(T, v) IN
  packed.ok => LET read == Unpack(T, packed.bytes, 1, 0, FALSE, old)
               IN read.ok /\ T # Signed => Replaces(T, read.val, v, old)

----
(* to_variant() and from_variant() (include/fc/variant.hpp, static_variant.hpp, reflect/variant.hpp)
   of the types of Raw, with the as_...() of variant.cpp. Members of a reflected class, the types of
   a static_variant and its two keys are named by texts of one character, no number and no bool. *)

NameOf(i) == <<i>>
TypeKey == NameOf(1)
ValueKey == NameOf(2)

IsKind(x, kinds) == x[1] \in kinds
Accepted(v) == [ok |-> TRUE, val |-> v]

FieldOf(object, key) == CHOOSE i \in DOMAIN object : object[i][1] = key /\ \A j \in 1..i - 1 : object[j][1] # key
HasField(object, key) == \E i \in DOMAIN object : object[i][1] = key
----
(* to_variant. *)

RECURSIVE ToVariant(_, _)
ToArray(T, items) == OfKind(6, [i \in DOMAIN items |-> ToVariant(T, items[i])])

\* The members that are there: an optional without a value is left out.
MembersThere(Ts, v) ==
  LET there == SelectSeq([i \in DOMAIN Ts |-> i], LAMBDA i : ~(Ts[i].is = "optional" /\ v[i] = None))
  IN [j \in DOMAIN there |-> <<NameOf(there[j]), ToVariant(Ts[there[j]], v[there[j]])>>]

ToVariant(T, v) ==
  CASE T.is \in {"byte", "unsigned_int"} -> OfKind(2, v)
    [] T.is = "signed_int" -> OfKind(1, v)
    [] T.is = "bool" -> OfKind(4, v)
    [] T.is = "string" -> OfKind(5, v)
    [] T.is = "vector" -> ToArray(T.of, v)
    [] T.is = "set" -> ToArray(T.of, Sorted(v))
    [] T.is = "map" -> LET keys == Sorted(DOMAIN v)
                       IN ToArray(Pair(T.of), [i \in DOMAIN keys |-> <<keys[i], v[keys[i]]>>])
    [] T.is = "pair" -> OfKind(6, [i \in 1..2 |-> ToVariant(T.of[i], v[i])])
    [] T.is = "optional" -> IF v = None THEN NullVariant ELSE ToVariant(T.of, v[1])
    [] T.is = "struct" -> OfKind(ObjectKind, MembersThere(T.of, v))
    [] T.is = "static_variant" ->
          OfKind(ObjectKind, << <<TypeKey, OfKind(5, NameOf(v[1]))>>,
                                <<ValueKey, ToVariant(T.of[v[1] + 1], v[2])>> >>)
    [] T.is = "variant" -> v
----
(* from_variant, into old. *)

IsNumeric(x) == IsKind(x, {0, 1, 2, 3, 4})
AsInteger(x) == IF x[1] = 4 THEN (IF x[2] THEN 1 ELSE 0) ELSE x[2]
Decimal(n) == LET u == IF n < 0 THEN -n ELSE n
                  digits == IF u < 10 THEN <<48 + u>> ELSE <<48 + (u \div 10), 48 + (u % 10)>>
              IN IF n < 0 THEN <<45>> \o digits ELSE digits

\* as_string(); those of a bool are two words.
AsString(x) ==
  CASE x[1] = 5 -> Accepted(x[2])
    [] x[1] = 0 -> Accepted(<<>>)
    [] x[1] = 4 -> Accepted(IF x[2] THEN <<116, 114, 117, 101>> ELSE <<102, 97, 108, 115, 101>>)
    [] x[1] \in {1, 2, 3} -> Accepted(Decimal(x[2]))
    [] OTHER -> Throws

RECURSIVE FromVariant(_, _, _)

\* as<T>() of each item of an array.
FromItems(T, x) ==
  IF ~IsKind(x, {6}) THEN Throws
  ELSE LET items == [i \in DOMAIN x[2] |-> FromVariant(T, x[2][i], Fresh(T))]
       IN IF \A i \in DOMAIN items : items[i].ok THEN Accepted([i \in DOMAIN items |-> items[i].val]) ELSE Throws

\* A pair takes what there is of the array.
FromPair(Ts, x, old) ==
  IF ~IsKind(x, {6}) THEN Throws
  ELSE LET part == [i \in 1..2 |-> IF i <= Len(x[2]) THEN FromVariant(Ts[i], x[2][i], Fresh(Ts[i]))
                                   ELSE Accepted(old[i])]
       IN IF part[1].ok /\ part[2].ok THEN Accepted(<<part[1].val, part[2].val>>) ELSE Throws

\* A member whose name is not there keeps its value.
FromMembers(Ts, x, old) ==
  IF ~IsKind(x, {ObjectKind}) THEN Throws
  ELSE LET part == [i \in DOMAIN Ts |->
                      IF HasField(x[2], NameOf(i))
                      THEN FromVariant(Ts[i], x[2][FieldOf(x[2], NameOf(i))][2], old[i]) ELSE Accepted(old[i])]
       IN IF \A i \in DOMAIN Ts : part[i].ok THEN Accepted([i \in DOMAIN Ts |-> part[i].val]) ELSE Throws

\* to_tag: the tag of the type of this name, if there is one.
ToTag(Ts, name) == {i \in 0..Len(Ts) - 1 : name = NameOf(i)}

\* The type is a number or a name.
FromChoice(Ts, x) ==
  IF ~IsKind(x, {ObjectKind}) THEN Throws
  ELSE IF ~(HasField(x[2], TypeKey) /\ HasField(x[2], ValueKey)) THEN Throws
  ELSE LET type == x[2][FieldOf(x[2], TypeKey)][2]
           value == x[2][FieldOf(x[2], ValueKey)][2]
           name == AsString(type)
           which == IF IsKind(type, {1, 2, 4}) THEN {AsInteger(type)}
                    ELSE IF name.ok THEN ToTag(Ts, name.val) ELSE {}
       IN IF which \intersect (0..Len(Ts) - 1) = {} THEN Throws
          ELSE LET i == CHOOSE w \in which : TRUE
                   v == FromVariant(Ts[i + 1], value, Fresh(Ts[i + 1]))
               IN IF v.ok THEN Accepted(Chosen(i, v.val)) ELSE Throws

FromVariant(T, x, old) ==
  CASE T.is = "byte" -> IF IsNumeric(x) THEN Accepted(AsInteger(x) % (2 * Group)) ELSE Throws
    [] T.is = "unsigned_int" -> IF IsNumeric(x) THEN Accepted(AsInteger(x) % UnsignedWord) ELSE Throws
    [] T.is = "signed_int" -> IF IsNumeric(x) THEN Accepted(ToSigned(AsInteger(x) % UnsignedWord)) ELSE Throws
    [] T.is = "bool" -> IF IsNumeric(x) THEN Accepted(AsInteger(x) # 0) ELSE Throws
    [] T.is = "string" -> AsString(x)
    [] T.is = "vector" -> FromItems(T.of, x)
    [] T.is = "set" -> LET v == FromItems(T.of, x) IN IF v.ok THEN Accepted(ToSet(v.val)) ELSE Throws
    [] T.is = "map" -> LET v == FromItems(Pair(T.of), x) IN IF v.ok THEN Accepted(InsertFirst(v.val)) ELSE Throws
    [] T.is = "pair" -> FromPair(T.of, x, old)
    [] T.is = "optional" -> IF x = NullVariant THEN Accepted(None)
                            ELSE LET v == FromVariant(T.of, x, Fresh(T.of))
                                 IN IF v.ok THEN Accepted(Some(v.val)) ELSE Throws
    [] T.is = "struct" -> FromMembers(T.of, x, old)
    [] T.is = "static_variant" -> FromChoice(T.of, x)
    [] T.is = "variant" -> Accepted(x)
----
(* Properties. *)

\* What is left of a value converted into old: a null within an optional is no
\* value at all, and an absent member leaves what was there.
RECURSIVE Converted(_, _, _)
Converted(T, v, old) ==
  CASE T.is = "optional" -> IF v = None \/ ToVariant(T.of, v[1]) = NullVariant THEN None
                            ELSE Some(Converted(T.of, v[1], Fresh(T.of)))
    [] T.is = "struct" -> [i \in DOMAIN v |-> IF T.of[i].is = "optional" /\ v[i] = None THEN old[i]
                                              ELSE Converted(T.of[i], v[i], old[i])]
    [] T.is = "vector" -> [i \in DOMAIN v |-> Converted(T.of, v[i], Fresh(T.of))]
    [] T.is = "map" -> [k \in DOMAIN v |-> Converted(T.of[2], v[k], Fresh(T.of[2]))]
    [] T.is = "static_variant" -> Chosen(v[1], Converted(T.of[v[1] + 1], v[2], Fresh(T.of[v[1] + 1])))
    [] OTHER -> v

\* Whatever a value was converted to is converted back, into a value in use.
ConversionReturns(T, v, old) == FromVariant(T, ToVariant(T, v), old) = Accepted(Converted(T, v, old))

\* What is accepted, narrowed or taken from another kind, is from then on stable.
ConversionIsStable(T, x) ==
  LET v == FromVariant(T, x, Fresh(T))
  IN v.ok => FromVariant(T, ToVariant(T, v.val), Fresh(T)) = v
====
