---- MODULE MCSafety ----
(* Components that have nothing to do with each other, on small instances: the first state chooses
   one, and the others stay as they are. The input of a pure algorithm is chosen in the first state.
   *)
EXTENDS MCFiberMutex, NtpClient, LogRotation, ApiConnection, Json, Raw, Numbers, Encodings, SpinLock, Retainable, BloomFilter,
        VariantStorage, BufferedStreams, Sockets, Exceptions, ZipArchive

CONSTANTS a1, a2, b1, m1, m2, k1, k2, empty, moved, s1, s2, s3, q1, q2, q3, nil, c1, c2, o1, o2, d1, d2

VARIABLES subject, input

safetyVars == <<subject, input, vars, npVars, lrVars, apVars, jsVars, voVars, slVars, rtVars, bfVars, vsVars, ipVars, bsVars, skVars, exVars, zipVars>>

Subjects == {"mutex", "ntp", "log", "api", "json", "raw", "utf8", "numbers", "encodings", "variant_object", "spin_lock",
             "shared_ptr", "bloom_filter",
             "variant",
             "in_place",
             "streams",
             "smaz",
             "sockets",
             "exceptions",
             "zip"}
----
(* Small instances. *)

MCOffsets == {-2, 4}
MCAddresses == {a1, a2}

MCChars == {"a", "n", "u", "\"", "\\", "\t", "\n", "{", ",", ":", "SOH"}
MCStrings == {<<>>} \cup {<<c>> : c \in MCChars} \cup {<<c, d>> : c, d \in MCChars}
MCAtoms == {Nil, Bool(TRUE), Number(0), Number(-12)} \cup {String(s) : s \in MCStrings}
MCFew == {String(<<c>>) : c \in MCChars}
         \cup {Bool(FALSE), Number(7), String(<<"\\", "\"">>), String(<<"a", "\\">>), String(<<>>)}
MCDocuments ==
  MCAtoms \cup {Array(<<>>), Object(<<>>)}
  \cup {Array(<<a>>) : a \in MCFew} \cup {Array(<<a, b>>) : a, b \in MCFew}
  \cup {Object(<< <<s, a>>, <<<<"a">>, b>> >>) : s \in {<<c>> : c \in MCChars \ {"a"}}, a, b \in MCFew}
  \cup {Array(<<Array(<<Array(<<a>>)>>), Object(<< <<<<"a">>, b>> >>)>>) : a, b \in MCFew}
MCTokens == {"[", "{", "]", "}", "a", "1", ":", "\""}
MCTexts == UNION {[1..n -> {"[", "]", ",", "1", " "}] : n \in 1..4}
           \cup UNION {[1..n -> {"0", "1", "-", "6", "b"}] : n \in 1..3}
           \cup UNION {[1..n -> MCTokens] : n \in 1..3}
           \cup {<<"[">> \o t \o <<"]">> : t \in [1..3 -> MCTokens]}

MCThreadOf == [s \in {s1, s2, s3} |-> IF s = s3 THEN 2 ELSE 1]

\* Types of serialized data, and values of them.
InArrays[n \in 0..5] == IF n = 0 THEN OfKind(4, TRUE) ELSE OfKind(6, <<InArrays[n - 1]>>)
AnObject == OfKind(ObjectKind, << <<<<1>>, OfKind(2, 5)>>, <<<<2>>, NullVariant>> >>)
MCVariants == {NullVariant, OfKind(4, FALSE), OfKind(5, <<3>>), OfKind(3, 7), OfKind(6, <<>>), AnObject,
               OfKind(6, <<NullVariant, OfKind(1, 1)>>), OfKind(ObjectKind, <<>>), OfKind(BlobKind, <<1>>),
               OfKind(6, <<AnObject>>), OfKind(ObjectKind, << <<<<>>, AnObject>> >>)}
              \cup {InArrays[n] : n \in 0..4}
Inner == Struct(<<Optional(Byte), Unsigned, Variant>>)
MCTypes ==
  {<<Byte, {0, 5}>>, <<Flag, BOOLEAN>>, <<Unsigned, 0..UnsignedWord - 1>>,
   <<Signed, -(UnsignedWord \div 2)..UnsignedWord \div 2 - 1>>, <<Text, {<<>>, <<1>>, <<7, 0>>}>>,
   <<Vector(Text), {<<>>, <<<<>>, <<1>>>>}>>, <<SetOf(Unsigned), SUBSET {0, 3, 9}>>,
   <<Map(Byte, Optional(Flag)),
     {<<>>} \cup [{1} -> {None, Some(TRUE)}] \cup [{2, 4} -> {None, Some(FALSE)}]>>,
   <<Optional(Byte), {None, Some(0), Some(3)}>>,
   <<Optional(Optional(Byte)), {None, Some(None), Some(Some(3))}>>,
   <<Inner, {<<o, u, v>> : o \in {None, Some(1)}, u \in {0, 9},
                           v \in {NullVariant, OfKind(2, 1), OfKind(6, <<NullVariant>>)}}>>,
   <<Struct(<<Inner, Flag>>), {<<<<o, 1, v>>, f>> : o \in {None, Some(1)}, f \in BOOLEAN,
                                                    v \in {NullVariant, OfKind(2, 1)}}>>,
   <<Choice(<<Flag, Text, Vector(Unsigned)>>), {Chosen(0, TRUE), Chosen(1, <<2>>), Chosen(2, <<11, 3>>)}>>,
   <<Variant, MCVariants>>}

\* Variants of any kind, what values are converted to and what is nearly that.
MCConverted == MCVariants \cup UNION {{ToVariant(T[1], v) : v \in T[2]} : T \in MCTypes}
               \cup {OfKind(ObjectKind, << <<TypeKey, t>>, <<ValueKey, x>> >>) :
                        t \in {OfKind(1, -1), OfKind(2, 2), OfKind(4, TRUE), OfKind(5, <<3>>), OfKind(6, <<>>)},
                        x \in {NullVariant, OfKind(1, 1), OfKind(6, <<OfKind(2, 12)>>)}}
               \cup {OfKind(6, <<OfKind(6, <<OfKind(2, 9), x>>), OfKind(6, <<OfKind(2, 1)>>)>>) :
                        x \in {NullVariant, OfKind(3, 2), OfKind(5, <<>>)}}

\* Bytes at the limits of the ranges of UTF-8, and code points at those of its lengths.
MCUtf8Bytes == {65, 128, 143, 144, 159, 160, 191, 192, 194, 223, 224, 237, 239, 240, 244, 245, 248}
MCUtf8Texts == UNION {[1..n -> MCUtf8Bytes] : n \in 0..2}
               \cup {<<b>> \o t : b \in {65, 194, 224, 237, 239}, t \in [1..2 -> MCUtf8Bytes]}
               \cup {<<b>> \o t : b \in {240, 244}, t \in [1..3 -> {65, 128, 143, 144, 191, 192}]}
MCCodePoints == UNION {[1..n -> {0, 127, 128, 2047, 2048, 55295, 57344, 65535, 65536, 1114111}] : n \in 0..2}

\* Numbers of two words at the limits of words.
MCWide == LET Ends == {0, 1, 63, 64, 127} IN {ToUint128(hi, lo) : hi, lo \in Ends}

MCOperands(signed) ==
  {n \in MinOf(signed)..MaxOf(signed) : n - MinOf(signed) < 3 \/ MaxOf(signed) - n < 3 \/ n \in -3..3 \/ n % 16 = 5}

MCManyBytes == UNION {[1..n -> {0, 129, 255}] : n \in 0..6}
MCFewBytes == UNION {[1..n -> {0, 1, 35, 58, 127, 128, 255}] : n \in 0..3}
MCDigits == UNION {[1..n -> {0, 1, 29, 36, 57, Blank, Other}] : n \in 0..4}

MCBook == [c \in 0..3 |-> << <<1>>, <<1, 2>>, <<2, 1, 2>>, <<1, 1>> >>[c + 1]]
MCSmazTexts == UNION {[1..n -> 1..3] : n \in 0..7}

\* Names of archives: 10 and 11 differ in case alone.
MCFolded == [n \in {10, 11, 20} |-> IF n = 20 THEN 0 ELSE 10]
MCPayloads == {<<>>, <<5, 6>>}
MCSourceData == <<5, 6>>

MCHash == [x \in {0, 1} \X (1..2) \X {1, 2, 3} |-> 3 * x[1] + 5 * x[2] + x[3] * x[3] * (1 + x[2])]
MCLimits == {<<2, 6>>, <<2, 4>>}
MCShapes == [f \in {c1, c2} |-> CHOOSE sh \in Shapes : TRUE]
----
InputInit ==
  \/ subject = "raw" /\ \E T \in MCTypes :
        \/ \E v, old \in T[2] : input = <<"value", T[1], v, old>>
        \/ \E b \in UNION {[1..n -> Bytes] : n \in 0..3} : input = <<"bytes", T[1], b>>
        \/ \E x \in MCConverted : input = <<"variant", T[1], x>>
  \/ subject = "utf8" /\ \/ \E t \in MCUtf8Texts : input = <<"text", t>>
                         \/ \E cps \in MCCodePoints : input = <<"code points", cps>>
  \/ subject = "numbers" /\ \/ \E a, b \in MCWide \cup {u \in 0..Uint64 - 1 : u % 5 = 3} : input = <<"factors", a, b>>
                            \/ \E u \in MCWide \cup {u \in 0..Uint128 - 1 : u % 13 = 6} : input = <<"text", u>>
                            \/ \E s \in BOOLEAN : \E a \in MinOf(s)..MaxOf(s), b \in MCOperands(s) : input = <<"safe", a, b, s>>
  \/ subject = "encodings" /\ \/ \E b \in MCManyBytes : input = <<"groups", b>>
                              \/ \E b \in MCFewBytes : input = <<"number", b>>
                              \/ \E t \in MCDigits : input = <<"text", t>>
  \/ subject = "smaz" /\ \E t \in MCSmazTexts : input = <<t>>
  \/ subject \notin {"raw", "utf8", "numbers", "encodings", "smaz"} /\ input = <<>>

SafetyInit ==
  /\ subject \in Subjects /\ InputInit /\ VsInit /\ IpInit /\ BsInit /\ SkInit /\ ExInit
  /\ ZipInit /\ Init /\ ApInit /\ VoInit /\ RtInit
  /\ BfInit /\ (subject = "bloom_filter" \/ shape = MCShapes)
  /\ NpInit /\ (subject = "ntp" \/ offset = 4)
  /\ LrInit /\ (subject = "log" \/ truncate)
  /\ SlInit /\ (subject = "spin_lock" \/ s1 \in running)
  /\ IF subject = "json" THEN JsInit ELSE JsBegin({}, {<<>>})

\* A step of one, while the others rest.
Only(s, A) ==
  /\ subject = s /\ A /\ UNCHANGED <<subject, input>>
  /\ IF s = "mutex" THEN TRUE ELSE UNCHANGED vars
  /\ IF s = "ntp" THEN TRUE ELSE UNCHANGED npVars
  /\ IF s = "log" THEN TRUE ELSE UNCHANGED lrVars
  /\ IF s = "api" THEN TRUE ELSE UNCHANGED apVars
  /\ IF s = "json" THEN TRUE ELSE UNCHANGED jsVars
  /\ IF s = "variant_object" THEN TRUE ELSE UNCHANGED voVars
  /\ IF s = "spin_lock" THEN TRUE ELSE UNCHANGED slVars
  /\ IF s = "shared_ptr" THEN TRUE ELSE UNCHANGED rtVars
  /\ IF s = "bloom_filter" THEN TRUE ELSE UNCHANGED bfVars
  /\ IF s = "variant" THEN TRUE ELSE UNCHANGED vsVars
  /\ IF s = "in_place" THEN TRUE ELSE UNCHANGED ipVars
  /\ IF s = "streams" THEN TRUE ELSE UNCHANGED bsVars
  /\ IF s = "sockets" THEN TRUE ELSE UNCHANGED skVars
  /\ IF s = "exceptions" THEN TRUE ELSE UNCHANGED exVars
  /\ IF s = "zip" THEN TRUE ELSE UNCHANGED zipVars

\* The entries of all the variables at once, bounded.
MaxOfAll == 5
FewEntries == Cardinality(UNION {{<<h, i>> : i \in IF entries'[h] = Moved THEN {} ELSE DOMAIN entries'[h]} : h \in Handles}) <= MaxOfAll

\* Once a fiber is canceled no task begins, and none locks twice.
CancelInTurn == cancels' > 0 => \A f \in Fibers : depth'[f] < MaxDepth /\ (pc[f] = "out" => pc'[f] = "out")

\* The exceptions of two stacks have MaxLog messages between them.
FewMessages == \A s, t \in Stacks : s # t /\ flying'[s] # NoException /\ flying'[t] # NoException
                                     => Len(flying'[s].log) + Len(flying'[t].log) <= MaxLog

SafetyNext ==
  \/ Only("mutex", Next /\ CancelInTurn) \/ Only("ntp", NpNext) \/ Only("log", LrNext) \/ Only("api", ApNext)
  \/ Only("json", JsNext) \/ Only("variant_object", VoNext /\ FewEntries) \/ Only("spin_lock", SlNext)
  \/ Only("shared_ptr", RtNext) \/ Only("bloom_filter", BfNext)
  \/ Only("variant", VsNext)
  \/ Only("in_place", IpNext)
  \/ Only("streams", BsNext)
  \/ Only("sockets", SkNext)
  \/ Only("exceptions", ExNext /\ FewMessages)
  \/ Only("zip", ZipNext)

SafetySpec == SafetyInit /\ [][SafetyNext]_safetyVars
----
(* The properties of the algorithms, of the input at hand. *)

IsValue == subject = "raw" /\ input[1] = "value"

\* What pack() writes unpack() reads back, large signed_ints and deep variants excepted.
PackedIsRead == IsValue => RawRoundTrip(input[2], input[3])

\* unpack() refuses what was cut off.
CutOffIsRefused == IsValue => RawTruncated(input[2], input[3])

\* What unpack() accepts is what pack() writes, signed_int apart.
ReadIsPacked == subject = "raw" /\ input[1] = "bytes" => RawCanonical(input[2], input[3])

\* unpack() into an object in use leaves nothing of what was there, but where an optional is absent
\* or a variant null.
PresentReplaces == IsValue => RawIntoUsed(input[2], input[3], input[4])

\* from_variant() returns what to_variant() was given, but for nulls within optionals and for members
\* that are absent and stay as they were.
ConvertedReturns == IsValue => ConversionReturns(input[2], input[3], input[4])

\* What from_variant() accepts is converted back and forth without a change.
AcceptedIsStable == subject = "raw" /\ input[1] = "variant" => ConversionIsStable(input[2], input[3])

IsText == subject = "utf8" /\ input[1] = "text"

\* What is valid UTF-8 is what encodeUtf8() writes.
Utf8IsCanonical == IsText => ValidIsCanonical(input[2])

\* prune_invalid_utf8() and replace_invalid() repair any text.
Utf8IsRepaired == IsText => RepairedIsValid(input[2])

\* encodeUtf8() with decodeUtf8(), and utf8to16() with utf16to8(), keep any code points.
Utf8KeepsCodePoints == subject = "utf8" /\ input[1] = "code points" => CodePointsSurvive(input[2])

IsNumbers(what) == subject = "numbers" /\ input[1] = what

\* uint128_full_product() is the product.
ProductsAreExact == IsNumbers("factors") => ProductIsExact(input[2], input[3])

\* real128 divides what it multiplied.
QuotientsReturn == IsNumbers("factors") => RealsDivide(input[2], input[3])

\* uint128_approx_sqrt() is close to the root, and grows with it.
RootsAreClose == IsNumbers("text") => RootIsClose(input[2])

\* uint128_t and real128 are read back from their texts.
NumbersSurvive == IsNumbers("text") => TextsSurvive(input[2])

\* safe<T> throws if and only if the result is not in T. Not so, and excluded: 0 divided by the largest
\* unsigned number throws (safe.hpp:83 takes that for -1), and unary minus of an unsigned number
\* throws for 0 and wraps for all others (:93-97).
SafeThrowsRightly == IsNumbers("safe") => SafeIsExact(input[2], input[3], input[4])

\* signed_sat_add() and signed_sat_sub() yield the nearest number of the type.
SaturatesRightly == IsNumbers("safe") /\ input[4] => SaturationIsNearest(input[2], input[3])

IsEncoding(what) == subject = "encodings" /\ input[1] = what

\* Hex, base 32 and base 64 give their bytes back.
GroupsReturn == IsEncoding("groups") => GroupsAreDecoded(input[2])

\* Base 36 and base 58 give their bytes back.
DigitsReturn == IsEncoding("number") => NumbersAreDecoded(input[2])

\* from_base58() takes one text for some bytes, and from_base36() too if it knows all
\* the characters.
DigitsAreCanonical == IsEncoding("text") => TextsAreCanonical(input[2])

\* smaz_decompress() yields what smaz_compress() was given.
SmazTextsReturn == subject = "smaz" => SmazReturns(input[1])

\* Documents, serialized data, converted values, texts and numbers survive the way there and
\* back, with the exceptions that the parts name, and what is cut off, invalid or too large is refused.
AlgorithmsAreRight ==
  /\ PrintedIsRead /\ PrettyIsRead /\ FullIsCanonical
  /\ StrictReadsPrinted /\ StrictIsLegacy /\ IntegerIsExact /\ VariantsAreRead
  /\ PackedIsRead /\ CutOffIsRefused /\ ReadIsPacked /\ PresentReplaces
  /\ ConvertedReturns /\ AcceptedIsStable
  /\ Utf8IsCanonical /\ Utf8IsRepaired /\ Utf8KeepsCodePoints
  /\ ProductsAreExact /\ QuotientsReturn /\ RootsAreClose /\ NumbersSurvive
  /\ SafeThrowsRightly /\ SaturatesRightly
  /\ GroupsReturn /\ DigitsReturn /\ DigitsAreCanonical /\ SmazTextsReturn

\* Variants own their cells and are told apart from their copies, and a peer's number for an
\* API reaches it.
OwnersAreDistinct == [](OneOwner /\ ApTypeOK /\ ProxyReachesItsObject) /\ CopiesAreIndependent

\* Streams, rotated logs and archives keep what was written to them, in order.
WrittenIsKept ==
  /\ [](ReadInOrder /\ WrittenInOrder) /\ FlushDelivers
  /\ [](LrTypeOK /\ YoungLinesKept /\ FilesAreFew /\ RotationGoesOn)
  /\ [](AddedIsKept /\ EntriesAreAligned /\ IndexIsSearch)
====
