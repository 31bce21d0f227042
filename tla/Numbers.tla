---- MODULE Numbers ----
(* The arithmetic of fc: uint128_t and its texts (src/uint128.cpp),
   real128 (src/real128.cpp), safe<T> (include/fc/safe.hpp) and the
   saturating operations (include/fc/saturation.hpp), on short words. *)
EXTENDS Integers, Sequences, SequencesExt

CONSTANTS Uint64,       \* values of a uint64_t; a uint128_t has that many squared
          PowerOfTen, Zeroes,   \* p10 and e10 of std::to_string
          Precision     \* FC_REAL128_PRECISION, a power of ten

ASSUME NmAssumption == /\ Uint64 \in Nat \ {0, 1} /\ Zeroes \in Nat \ {0} /\ PowerOfTen = 10 ^ Zeroes
                       /\ PowerOfTen <= Uint64 /\ 10 * Precision <= Uint64

Uint128 == Uint64 * Uint64
LowBits(u) == u % Uint64
HighBits(u) == u \div Uint64
ToUint128(hi, lo) == hi * Uint64 + lo

\* uint128_full_product(): the upper and the lower word.
FullProduct(a, b) ==
  LET s == LowBits(a) * LowBits(b)   r == HighBits(a) * LowBits(b)
      q == LowBits(a) * HighBits(b)  p == HighBits(a) * HighBits(b)
      middle == HighBits(s) + LowBits(q) + LowBits(r)
      upper == HighBits(middle) + HighBits(q) + HighBits(r) + LowBits(p)
  IN <<ToUint128((HighBits(upper) + HighBits(p)) % Uint64, LowBits(upper)),
       ToUint128(LowBits(middle), LowBits(s))>>

\* uint128_find_msb(), for which 0 is like 1.
FindMsb(u) == IF u = 0 THEN 0 ELSE CHOOSE i \in 0..u : 2 ^ i <= u /\ u < 2 ^ (i + 1)

\* uint128_approx_sqrt(): half the exponent, and the mantissa with what is odd of
\* the exponent, shifted.
ApproxSqrt(x) ==
  LET msb == FindMsb(x)
      half == msb \div 2
      odd == IF msb % 2 = 1 THEN 2 ^ half ELSE 0
      mantissa == (x - 2 ^ msb) \div 2 ^ (msb - half)
  IN IF x = 0 THEN 0 ELSE 2 ^ half + (odd + mantissa) \div 2

\* The digits of n that fits 64 bits.
RECURSIVE Decimals(_)
Decimals(n) == IF n < 10 THEN <<n>> ELSE Decimals(n \div 10) \o <<n % 10>>

\* The digits below the power of ten, padded to all its zeroes.
LowerDigits(u) ==
  LET lo == Decimals(u % PowerOfTen) IN [i \in 1..Zeroes - Len(lo) |-> 0] \o lo

\* std::to_string( uint128_t ).
RECURSIVE ToText(_)
ToText(u) == IF u >= Uint64 THEN ToText(u \div PowerOfTen) \o LowerDigits(u) ELSE Decimals(u)

\* string_to_uint128(): a minus, a prefix, and digits up to the first that is none;
\* what is too large wraps.  A text is a sequence of the values of its digits, in
\* which a minus, an x and a point stand for digits of no radix.
Minus == 97
X == 98
Point == 99
FromText(t) ==
  LET minus == t # <<>> /\ t[1] = Minus
      start == IF minus THEN 2 ELSE 1
      zero == start <= Len(t) /\ t[start] = 0
      hex == zero /\ start < Len(t) /\ t[start + 1] = X
      radix == IF hex THEN 16 ELSE IF zero THEN 8 ELSE 10
      first == IF hex THEN start + 2 ELSE IF zero THEN start + 1 ELSE start
      bad == {i \in first..Len(t) : t[i] >= radix}
      last == IF bad = {} THEN Len(t) ELSE (CHOOSE i \in bad : \A j \in bad : i <= j) - 1
      value == FoldLeft(LAMBDA n, c : (n * radix + c) % Uint128, 0, SubSeq(t, first, last))
  IN IF minus THEN (Uint128 - value) % Uint128 ELSE value

----
(* real128: a uint128_t that counts parts of the precision. *)

RealOf(integer) == (integer * Precision) % Uint128
RealAdd(a, b) == (a + b) % Uint128

\* operator*= and /=: bigint takes a uint64_t, so the upper words are lost; the
\* assertion of /= is on both words, and BN_div() by zero leaves a zero.
RealMul(a, b) == (LowBits(a) * LowBits(b)) \div Precision
RealDiv(a, b) == IF LowBits(b) = 0 THEN 0 ELSE (LowBits(a) * Precision) \div LowBits(b)

\* real128::operator string(): zeroes at the end go, the point stays.
RECURSIVE WithoutZeroes(_)
WithoutZeroes(t) == IF Last(t) = 0 THEN WithoutZeroes(Front(t)) ELSE t
RealToText(fixed) ==
  WithoutZeroes(ToText(fixed \div Precision) \o <<Point>> \o Tail(ToText((fixed % Precision) + Precision)))

\* What is behind the point, over its power of ten.
RealFraction(digits) ==
  RealDiv(RealOf(FoldLeft(LAMBDA n, d : n * 10 + d, 0, digits)), RealOf(10 ^ Len(digits)))

\* real128( string ) of digits with a point among them.
RealFromText(t) ==
  LET point == CHOOSE i \in DOMAIN t : t[i] = Point
      int_part == FoldLeft(LAMBDA n, d : (n * 10 + d) % Uint64, 0, SubSeq(t, 1, point - 1))
      behind == SubSeq(t, point + 1, Len(t))
  IN RealAdd(RealOf(int_part), IF behind = <<>> THEN 0 ELSE RealFraction(behind))
----
(* safe<T> and saturation, of a type from min to max: int64_t or uint64_t. *)

Exception(what) == <<what>>
Value(n) == <<"value", n>>
MinOf(signed) == IF signed THEN -(Uint64 \div 2) ELSE 0
MaxOf(signed) == IF signed THEN Uint64 \div 2 - 1 ELSE Uint64 - 1

\* Division of C++: towards zero.
Quotient(a, b) == LET q == (IF a < 0 THEN -a ELSE a) \div (IF b < 0 THEN -b ELSE b)
                  IN IF (a < 0) = (b < 0) THEN q ELSE -q

SafeAdd(a, b, signed) ==
  IF b > 0 /\ a > MaxOf(signed) - b THEN Exception("overflow")
  ELSE IF b < 0 /\ a < MinOf(signed) - b THEN Exception("underflow") ELSE Value(a + b)

SafeSub(a, b, signed) ==
  IF b > 0 /\ a < MinOf(signed) + b THEN Exception("underflow")
  ELSE IF b < 0 /\ a > MaxOf(signed) + b THEN Exception("overflow") ELSE Value(a - b)

SafeMul(a, b, signed) ==
  LET min == MinOf(signed)  max == MaxOf(signed) IN
  CASE a > 0 /\ b > 0 /\ a > Quotient(max, b) -> Exception("overflow")
    [] a > 0 /\ b <= 0 /\ b < Quotient(min, a) -> Exception("underflow")
    [] a <= 0 /\ b > 0 /\ a < Quotient(min, b) -> Exception("underflow")
    [] a < 0 /\ b <= 0 /\ b < Quotient(max, a) -> Exception("overflow")
    [] OTHER -> Value(a * b)

\* b.value == -1 holds of the largest unsigned number.
IsMinusOne(b, signed) == b = IF signed THEN -1 ELSE MaxOf(signed)

SafeDiv(a, b, signed) ==
  IF b = 0 THEN Exception("divide by zero")
  ELSE IF a = MinOf(signed) /\ IsMinusOne(b, signed) THEN Exception("overflow") ELSE Value(Quotient(a, b))

\* Unary minus; of an unsigned number it wraps.
SafeNeg(a, signed) == IF a = MinOf(signed) THEN Exception("overflow") ELSE Value(IF signed THEN -a ELSE Uint64 - a)

Unsigned64(x) == x % Uint64
SignBit(u) == u >= Uint64 \div 2
Signed64(u) == IF SignBit(u) THEN u - Uint64 ELSE u

\* The sum that wraps, or the limit on x's side.
Saturated(x, y, res, over) == IF over THEN IF x >= 0 THEN MaxOf(TRUE) ELSE MinOf(TRUE) ELSE Signed64(res)

\* signed_sat_add(): the sign bit of ~(ux^uy) & (ux^res).
SatAdd(x, y) ==
  LET ux == Unsigned64(x)  uy == Unsigned64(y)  res == (ux + uy) % Uint64
  IN Saturated(x, y, res, (SignBit(ux) = SignBit(uy)) /\ (SignBit(ux) # SignBit(res)))

\* signed_sat_sub(): the sign bit of (ux^uy) & (ux^res).
SatSub(x, y) ==
  LET ux == Unsigned64(x)  uy == Unsigned64(y)  res == (Uint64 + ux - uy) % Uint64
  IN Saturated(x, y, res, (SignBit(ux) # SignBit(uy)) /\ (SignBit(ux) # SignBit(res)))
----
(* Properties. *)

\* The two words are the product.
ProductIsExact(a, b) ==
  LET p == FullProduct(a, b)
  IN p[1] \in 0..Uint128 - 1 /\ p[2] \in 0..Uint128 - 1 /\ p[1] * Uint128 + p[2] = a * b

\* The root is at most one too small and at most a sixteenth, rounded up, too
\* large, and never falls when the number grows.
RootIsClose(x) ==
  LET z == ApproxSqrt(x)
      over == 15 * z - 16
  IN /\ (z + 2) * (z + 2) > x
     /\ over > 0 => over * over <= 256 * x
     /\ x > 0 => ApproxSqrt(x - 1) <= z

\* A number is read back from its text, and so is a real number whose integral
\* part fits 64 bits and that has one digit behind the point.
TextsSurvive(u) ==
  /\ FromText(ToText(u)) = u /\ FromText(<<Minus>> \o ToText(u)) = (Uint128 - u) % Uint128
  /\ u \div Precision < Uint64 /\ u % (Precision \div 10) = 0 => RealFromText(RealToText(u)) = u

\* Division undoes multiplication if nothing leaves the lower word, but for one
\* part at most.
RealsDivide(a, b) ==
  a < Uint64 /\ b \in Precision..Uint64 - 1 /\ a * b < Uint64 * Precision
  => RealDiv(RealMul(a, b), b) \in {a, a - 1}

\* The result that fits, or the exception that says on which side it does not.
Exactly(r, exact, signed) ==
  r = IF exact > MaxOf(signed) THEN Exception("overflow")
      ELSE IF exact < MinOf(signed) THEN Exception("underflow") ELSE Value(exact)

\* safe<T> yields the result, or throws if it has none in T: but for 0 divided by
\* the largest unsigned number and unary minus of unsigned numbers.
SafeIsExact(a, b, signed) ==
  /\ Exactly(SafeAdd(a, b, signed), a + b, signed)
  /\ Exactly(SafeSub(a, b, signed), a - b, signed)
  /\ Exactly(SafeMul(a, b, signed), a * b, signed)
  /\ b # 0 /\ ~(~signed /\ a = 0 /\ b = MaxOf(signed)) => Exactly(SafeDiv(a, b, signed), Quotient(a, b), signed)
  /\ signed => Exactly(SafeNeg(a, signed), -a, signed)

\* Saturation yields the nearest number of the type.
SaturationIsNearest(x, y) ==
  LET Nearest(n) == IF n > MaxOf(TRUE) THEN MaxOf(TRUE) ELSE IF n < MinOf(TRUE) THEN MinOf(TRUE) ELSE n
  IN SatAdd(x, y) = Nearest(x + y) /\ SatSub(x, y) = Nearest(x - y)
====
