---------------------------- MODULE NumberParsing ----------------------------
(***************************************************************************)
(* How stage 2 of simdjson.cpp reads a number, with words of WordBits bits *)
(* for the 64 of the code and floats of MantissaBits for its 53.  A float  *)
(* read from a text is the decimal [negative, i, power] it is computed     *)
(* from; compute_float_64 is what makes a binary float of it.              *)
(***************************************************************************)
EXTENDS StructuralScanner, FiniteSetsExt

CONSTANTS WordBits,       \* 64
          SignedDigits,   \* 18: integers of so many digits are signed words
          SwarDigits,     \* 8: the digits of a fraction read at once
          MantissaBits,   \* 53
          ExponentBias,   \* 1023
          ExactPower,     \* 22: the powers of ten that are floats, up to this one
          LowestPower,    \* 325: minus FASTFLOAT_SMALLEST_POWER
          LargestPower,   \* 308: FASTFLOAT_LARGEST_POWER
          ExponentLimit   \* 2^32: more digits are not read onto such an exponent

Word == 2^WordBits

ASSUME NumberAssumption ==
  /\ 10^SignedDigits <= Word \div 2 /\ 10^(SignedDigits + 1) <= Word
  /\ 5^ExactPower < 2^MantissaBits
  /\ MantissaBits + 2 < WordBits

-----------------------------------------------------------------------------
(***************************************************************************)
(* compute_float_64.  A float is [m, e], for m * 2^e with m of             *)
(* MantissaBits bits, or zero.                                             *)
(***************************************************************************)
BitLength(n) == CHOOSE b \in 0..31 : n < 2^b /\ (b = 0 \/ n >= 2^(b - 1))

Float(m, e) == [m |-> m, e |-> e]

\* The float nearest to num * 2^shift / den, ties to even: the rounding that a
\* division or a multiplication of two floats does.
Rounded(num, den, shift) ==
  LET guess    == BitLength(num) - BitLength(den) - MantissaBits
      top(e)   == num * 2^(Max({-e, 0}))
      unit(e)  == den * 2^(Max({e, 0}))
      e        == IF top(guess) \div unit(guess) < 2^MantissaBits THEN guess ELSE guess + 1
      m        == top(e) \div unit(e)
      rest     == 2 * (top(e) % unit(e))
      up       == rest > unit(e) \/ (rest = unit(e) /\ m % 2 = 1)
      rounded  == IF up THEN m + 1 ELSE m
  IN  IF num = 0 THEN Float(0, 0)
      ELSE IF rounded = 2^MantissaBits THEN Float(2^(MantissaBits - 1), e + shift + 1)
      ELSE Float(rounded, e + shift)

\* The first two words of 1 / 5^n, and of 5^n, cut off: both words of a power of
\* ten in the tables power_of_ten_components and mantissa_128.
InversePowerBits(n) == 2^(2 * WordBits + BitLength(5^n) - 1) \div 5^n

PowerBits(n) ==
  LET length == BitLength(5^n)
  IN  IF length > 2 * WordBits THEN 5^n \div 2^(length - 2 * WordBits)
      ELSE 5^n * 2^(2 * WordBits - length)

\* The rows of power_of_ten_components before 10^0, and from it on: the first word
\* and the biased binary exponent.
NegativePower(power) ==
  [mantissa |-> InversePowerBits(-power) \div Word,
   exp      |-> power - BitLength(5^(-power)) + WordBits + ExponentBias]

NaturalPower(power) ==
  [mantissa |-> PowerBits(power) \div Word,
   exp      |-> power + BitLength(5^power) - 1 + WordBits + ExponentBias]

power_of_ten_components(power) == IF power < 0 THEN NegativePower(power) ELSE NaturalPower(power)

\* The same rows of mantissa_128: the second word.
NegativeComplement(power) == InversePowerBits(-power) % Word

NaturalComplement(power) == PowerBits(power) % Word

mantissa_128(power) == IF power < 0 THEN NegativeComplement(power) ELSE NaturalComplement(power)

NoFloat == [success |-> FALSE, d |-> Float(0, 0)]

\* The bits of the product below those kept: nine in the code.
LowBits == 2^(WordBits - MantissaBits - 2)

\* Mutated RoundUp: a product in the middle between two floats is rounded up.
RoundUpAlways(upper, lower, lz, exp) ==
  LET upperbit == upper \div (Word \div 2)
      mantissa == upper \div (2^upperbit * LowBits)
      rounded  == (mantissa + (mantissa % 2)) \div 2
      carry    == rounded = 2^MantissaBits
      real_exponent == exp - (lz + 1 - upperbit) + (IF carry THEN 1 ELSE 0)
  IN  IF real_exponent \notin 1..2 * ExponentBias THEN NoFloat
      ELSE [success |-> TRUE,
            d |-> Float(IF carry THEN 2^(MantissaBits - 1) ELSE rounded,
                        real_exponent - ExponentBias - (MantissaBits - 1))]

\* The float of a product of two words, unless it may lie in the middle between
\* two floats or its exponent is not that of a normal one.
RoundUp(upper, lower, lz, exp) ==
  LET upperbit == upper \div (Word \div 2)
      mantissa == upper \div (2^upperbit * LowBits)
      rounded  == (mantissa + (mantissa % 2)) \div 2
      carry    == rounded = 2^MantissaBits
      real_exponent == exp - (lz + 1 - upperbit) + (IF carry THEN 1 ELSE 0)
  IN  IF \/ lower = 0 /\ upper % LowBits = 0 /\ mantissa % 4 = 1
         \/ real_exponent \notin 1..2 * ExponentBias
      THEN NoFloat
      ELSE [success |-> TRUE,
            d |-> Float(IF carry THEN 2^(MantissaBits - 1) ELSE rounded,
                        real_exponent - ExponentBias - (MantissaBits - 1))]

\* i * 10^power by one multiplication of words, by a second one when what the
\* first cut off could carry into the bits kept.
compute_float_64(power, i) ==
  LET lz      == WordBits - BitLength(i)
      word    == i * 2^lz
      c       == power_of_ten_components(power)
      upper   == (word * c.mantissa) \div Word
      lower   == (word * c.mantissa) % Word
      second  == word * mantissa_128(power)
      middle  == (lower + second \div Word) % Word
      high    == IF middle < lower THEN upper + 1 ELSE upper
      carries(u, l) == u % LowBits = LowBits - 1 /\ l + word >= Word
  IN  IF power \in -ExactPower..ExactPower /\ i < 2^MantissaBits
      THEN [success |-> TRUE,
            d |-> IF power < 0 THEN Rounded(i, 10^(-power), 0) ELSE Rounded(i * 10^power, 1, 0)]
      ELSE IF i = 0 THEN [success |-> TRUE, d |-> Float(0, 0)]
      ELSE IF ~carries(upper, lower) THEN RoundUp(upper, lower, lz, c.exp)
      ELSE IF /\ middle = Word - 1 /\ high % LowBits = LowBits - 1
              /\ (second % Word) + word >= Word
      THEN NoFloat
      ELSE RoundUp(high, middle, lz, c.exp)
-----------------------------------------------------------------------------
(***************************************************************************)
(* parse_number.                                                           *)
(***************************************************************************)
Minus == 45
Plus  == 43
Dot   == 46
Zero  == 48

is_integer(b) == b \in Zero..57

\* What may follow a number, and what may follow its leading zero.
is_structural_or_whitespace_or_exponent_or_decimal(b) ==
  is_structural_or_whitespace(b) \/ b \in {Dot, 69, 101}

\* The first idx from p on that is not a digit.
AfterDigits(text, p) ==
  CHOOSE q \in p..Max({p, Len(text)}) :
    /\ \A i \in p..q - 1 : is_integer(At(text, i))
    /\ ~is_integer(At(text, q))

\* The digits from p to q read onto i; what does not fit a word is lost.
Onto(i, text, p, q) ==
  FoldLeft(LAMBDA sum, n : (10 * sum + At(text, p + n - 1) - Zero) % Word, i, [n \in 1..q - p |-> n])

\* The value of all the digits, the period passed over.
AllDigits(text, p, q) ==
  FoldLeft(LAMBDA sum, n : IF is_integer(At(text, n)) THEN 10 * sum + At(text, n) - Zero ELSE sum,
           0, [n \in 1..q - p |-> p + n - 1])

\* After its first digit a fraction is read SwarDigits at a time, if there are
\* so many, once.
Fraction(i, text, p, q) ==
  LET block == p + 1 + SwarDigits
  IN  IF q < block THEN Onto(i, text, p, q)
      ELSE Onto((Onto(i, text, p, p + 1) * 10^SwarDigits + Onto(0, text, p + 1, block)) % Word,
                text, block, q)

NoNumber == [ok |-> FALSE, type |-> "none"]
Integer(type, value, ok) == [ok |-> ok, type |-> type, value |-> value]

\* An integer whose digits may not fit a word, read again with every step checked.
parse_large_integer(text, start, negative) ==
  LET end == AfterDigits(text, start)
      Read(sum, n) ==
        LET digit == At(text, start + n - 1) - Zero
            mul   == 10 * sum.i >= Word
            add   == ((10 * sum.i) % Word) + digit >= Word
        IN  [i |-> (10 * sum.i + digit) % Word, overflow |-> sum.overflow \/ mul \/ add]
      read == FoldLeft(Read, [i |-> 0, overflow |-> FALSE], [n \in 1..end - start |-> n])
      ends == is_structural_or_whitespace(At(text, end))
  IN  IF read.overflow THEN NoNumber
      ELSE IF negative
      THEN IF read.i > Word \div 2 THEN NoNumber ELSE Integer("l", -read.i, ends)
      ELSE Integer(IF read.i < Word \div 2 THEN "l" ELSE "u", read.i, ends)

\* The least integer that rounds to infinity.
Infinity == 2^(ExponentBias + 1) - 2^(ExponentBias - MantissaBits)

\* strtod: the nearest float of the decimal that is written, if it is finite.
parse_float_strtod(negative, digits, power) ==
  LET infinite == IF power > LargestPower THEN digits > 0
                  ELSE power >= 0 /\ digits > (Infinity - 1) \div 10^power
  IN  IF infinite THEN NoNumber
      ELSE [ok |-> TRUE, type |-> "d", negative |-> negative, i |-> digits, power |-> power]

\* The exponent whose digits are from p to q, -1 for one that is refused.
Exponent(text, p, q) ==
  FoldLeft(LAMBDA exp, n : IF exp = -1 \/ (n > 3 /\ exp > ExponentLimit) THEN -1
                           ELSE 10 * exp + At(text, p + n - 1) - Zero,
           0, [n \in 1..q - p |-> n])

\* The significant digits, as the code counts them: the period counts for one
\* unless zeros before it are skipped.
DigitCount(text, start, end) ==
  LET skipped == {q \in start..end - 1 : \A i \in start..q : At(text, i) \in {Zero, Dot}}
      count   == end - start - 1
  IN  IF count > SignedDigits THEN count - Cardinality(skipped) ELSE count

\* Mutated FloatOf: the words are trusted with one digit more than they hold.
FloatTrusting(negative, i, digits, power, count) ==
  LET fast == compute_float_64(power, i)
  IN  IF \/ count > SignedDigits + 1
         \/ power \notin -LowestPower..LargestPower
         \/ ~fast.success
      THEN parse_float_strtod(negative, digits, power)
      ELSE [ok |-> TRUE, type |-> "d", negative |-> negative, i |-> i, power |-> power]

\* A float from the word i, or from all the digits when the word may have lost
\* some or is not enough to round.
FloatOf(negative, i, digits, power, count) ==
  LET fast == compute_float_64(power, i)
      lost == i = 0 /\ power \notin -ExactPower..ExactPower
  IN  IF \/ count > SignedDigits
         \/ power \notin -LowestPower..LargestPower
         \/ ~fast.success
      THEN parse_float_strtod(negative, digits, power)
      ELSE [ok |-> TRUE, type |-> "d", negative |-> negative /\ ~lost, i |-> i, power |-> power]

\* The number whose first byte is at src.
parse_number(text, src) ==
  LET negative == At(text, src) = Minus
      start    == IF negative THEN src + 1 ELSE src
      intEnd   == IF At(text, start) = Zero THEN start + 1 ELSE AfterDigits(text, start)
      dotted   == At(text, intEnd) = Dot
      end      == IF dotted THEN AfterDigits(text, intEnd + 1) ELSE intEnd
      raised   == At(text, end) \in {69, 101}
      lowered  == raised /\ At(text, end + 1) = Minus
      expStart == end + (IF At(text, end + 1) \in {Minus, Plus} THEN 2 ELSE 1)
      expEnd   == AfterDigits(text, expStart)
      exponent == Exponent(text, expStart, expEnd)
      power    == (IF dotted THEN intEnd + 1 - end ELSE 0)
                    + (IF ~raised THEN 0 ELSE IF lowered THEN -exponent ELSE exponent)
      int      == Onto(0, text, start, intEnd)
      i        == IF dotted THEN Fraction(int, text, intEnd + 1, end) ELSE int
      digits   == AllDigits(text, start, end)
      count    == DigitCount(text, start, end)
  IN  IF \/ ~is_integer(At(text, start))
         \/ At(text, start) = Zero
              /\ ~is_structural_or_whitespace_or_exponent_or_decimal(At(text, start + 1))
         \/ dotted /\ end = intEnd + 1
         \/ raised /\ (expEnd = expStart \/ exponent = -1)
      THEN NoNumber
      ELSE IF dotted \/ raised THEN FloatOf(negative, i, digits, power, count)
      ELSE IF end - start > SignedDigits THEN parse_large_integer(text, start, negative)
      ELSE Integer("l", IF negative THEN -i ELSE i, is_structural_or_whitespace(At(text, end)))
=============================================================================
