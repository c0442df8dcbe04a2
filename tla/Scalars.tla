------------------------------ MODULE Scalars ------------------------------
(***************************************************************************)
(* The scalars of Redis and what the converters make of them: coerce_scalar *)
(* with its regular expressions, decode_member, _decode_field and           *)
(* _encode_score.                                                           *)
(*                                                                         *)
(* A text is a sequence of characters, each the one-character string that  *)
(* it is, but for "NL" (a newline), "FF" (a byte that no UTF-8 text has),  *)
(* "FFFD" (the replacement character) and "u0" .. "u9" (the digits of      *)
(* another script, which \d accepts too).  The 64 bits of an integer and   *)
(* the exponents of a double are scaled down.  int() and float() are       *)
(* Python's; the rounding of a double's digits is left out.                *)
(***************************************************************************)
EXTENDS Integers, Sequences, FiniteSets, SequencesExt

CONSTANTS
    IntMin,          \* _INT64_MIN
    IntMax,          \* _INT64_MAX
    MaxMagnitude,    \* a double above 10^MaxMagnitude is infinite
    MinMagnitude,    \* one below 10^MinMagnitude is zero
    MaxBinName       \* _MAX_BIN_NAME_BYTES

ASSUME ScalarsAssumption ==
    /\ IntMin \in Int /\ IntMax \in Nat /\ IntMin <= 0
    /\ MaxMagnitude \in Nat /\ MinMagnitude \in Int /\ MinMagnitude < 0
    /\ MaxBinName \in Nat

-----------------------------------------------------------------------------
(* Texts *)

Texts == Seq(STRING)

AsciiDigits == <<"0", "1", "2", "3", "4", "5", "6", "7", "8", "9">>
OtherDigits == <<"u0", "u1", "u2", "u3", "u4", "u5", "u6", "u7", "u8", "u9">>

IsDigit(c) == c \in ToSet(AsciiDigits) \cup ToSet(OtherDigits)
AllDigits(t) == t # <<>> /\ \A i \in DOMAIN t : IsDigit(t[i])
DigitOf(c) == CHOOSE d \in 0 .. 9 : c \in {AsciiDigits[d + 1], OtherDigits[d + 1]}

\* int() of a text of digits.
ValueOf(t) ==
    LET upto[i \in 0 .. Len(t)] == IF i = 0 THEN 0 ELSE 10 * upto[i - 1] + DigitOf(t[i])
    IN  upto[Len(t)]

IsBinary(t) == Contains(t, "FF")

\* "$" also matches before a newline at the end, which int() and float() strip.
Unended(t) == IF t # <<>> /\ Last(t) = "NL" THEN Front(t) ELSE t

Negative(t) == t # <<>> /\ Head(t) = "-"
Unsigned(t) == IF Negative(t) THEN Tail(t) ELSE t
Core(t) == Unsigned(Unended(t))

-----------------------------------------------------------------------------
(* coerce_scalar *)

\* Mutant of MatchesInt: leading zeros are accepted.
MatchesAnyInt(t) == AllDigits(Core(t))

\* _INT_RE.
MatchesInt(t) ==
    \/ Core(t) = <<"0">>
    \/ AllDigits(Core(t)) /\ Head(Core(t)) \in ToSet(AsciiDigits) \ {"0"}

\* int().  (Python refuses texts of more than 4300 digits, where coerce_scalar
\* raises; texts here are shorter.)
IntOf(t) == IF Negative(t) THEN -ValueOf(Core(t)) ELSE ValueOf(Core(t))

\* Mutant of InRange: the upper bound is off by one.
InRangeUnsigned(n) == IntMin <= n /\ n <= IntMax + 1

InRange(n) == IntMin <= n /\ n <= IntMax

\* The position of the exponent's letter, or of the end.
ExponentAt(b) ==
    LET found == {i \in DOMAIN b : b[i] \in {"e", "E"}}
    IN  IF found = {} THEN Len(b) + 1 ELSE CHOOSE i \in found : \A j \in found : i <= j

Mantissa(b) == SubSeq(b, 1, ExponentAt(b) - 1)
Exponent(b) == SubSeq(b, ExponentAt(b) + 1, Len(b))

ExponentDigits(x) == IF x # <<>> /\ Head(x) \in {"-", "+"} THEN Tail(x) ELSE x

\* _FLOAT_RE, and one of ".eE" is in the text.
MatchesFloat(t) ==
    LET b == Core(t)
        m == Mantissa(b)
    IN  /\ \A i \in DOMAIN m : IsDigit(m[i]) \/ m[i] = "."
        /\ \E i \in DOMAIN m : IsDigit(m[i])
        /\ Cardinality({i \in DOMAIN m : m[i] = "."}) <= 1
        /\ m # b => AllDigits(ExponentDigits(Exponent(b)))
        /\ m # b \/ Contains(m, ".")

\* float() of such a text: its digits without leading and trailing zeros, and
\* the power of ten of the last one.
FloatOf(t) ==
    LET b == Core(t)
        m == Mantissa(b)
        digits == SelectSeq(m, IsDigit)
        n == ValueOf(digits)
        behindPoint == IF Contains(m, ".") THEN Len(m) - SelectInSeq(m, LAMBDA c : c = ".") ELSE 0
        x == Exponent(b)
        shift == ValueOf(ExponentDigits(x)) * (IF Negative(x) THEN -1 ELSE 1) - behindPoint
        width == CHOOSE l \in 0 .. Len(digits) : n < 10^l /\ (l = 0 \/ n >= 10^(l - 1))
        zeros == CHOOSE z \in 0 .. width : n % 10^z = 0 /\ (z = width \/ n % 10^(z + 1) # 0)
        value == [kind |-> "float", finite |-> TRUE, negative |-> Negative(t),
                  digits |-> n \div 10^zeros, power |-> shift + zeros]
    IN  IF n = 0 \/ width + shift < MinMagnitude THEN [value EXCEPT !.digits = 0, !.power = 0]
        ELSE [value EXCEPT !.finite = width + shift <= MaxMagnitude]

Str(t) == [kind |-> "str", text |-> t]
Bytes(t) == [kind |-> "bytes", text |-> t]

\* An integer of 64 bits or a finite double becomes one, what is not UTF-8
\* stays bytes, and everything else is a string.
Coerce(t) ==
    IF IsBinary(t) THEN Bytes(t)
    ELSE IF MatchesInt(t)
    THEN IF InRange(IntOf(t)) THEN [kind |-> "int", number |-> IntOf(t)] ELSE Str(t)
    ELSE IF MatchesFloat(t) /\ FloatOf(t).finite THEN FloatOf(t)
    ELSE Str(t)

-----------------------------------------------------------------------------
(* Members, fields and scores *)

\* Mutant of DecodeMember: members are coerced like values.
DecodeMemberCoerced(m) ==
    LET s == Coerce(m)
    IN  IF s.kind = "int" THEN [kind |-> "number", text |-> <<AsciiDigits[s.number + 1]>>]
        ELSE IF s.kind = "float" THEN [kind |-> "number", text |-> <<AsciiDigits[s.digits + 1]>>]
        ELSE s

\* decode_member: never a number.
DecodeMember(m) == IF IsBinary(m) THEN Bytes(m) ELSE Str(m)

\* _decode_field: decode("utf-8", "replace").
DecodeField(f) == Str([i \in DOMAIN f |-> IF f[i] = "FF" THEN "FFFD" ELSE f[i]])

\* How many bytes a decoded name has in UTF-8.
EncodedLength(t) ==
    Len(t) + Cardinality({i \in DOMAIN t : t[i] \in ToSet(OtherDigits)})
           + 2 * Cardinality({i \in DOMAIN t : t[i] = "FFFD"})

\* _encode_score: a score is a float, and not finite ones become their text.
EncodeScore(s) ==
    IF s \in {<<"inf">>, <<"-inf">>, <<"nan">>} THEN Str(s)
    ELSE [kind |-> "float", finite |-> TRUE, text |-> s]
=============================================================================
