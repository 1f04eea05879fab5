---------------------------- MODULE IntegerText -----------------------------
(***************************************************************************)
(* Decimal formatting and parsing of integers, and the arrays of integers  *)
(* that are split from and joined into strings:                            *)
(* runtime.mod/native/embedded_string_integer.c.  A character is a digit's *)
(* value, 0 to 15, or one of the other characters, which have larger       *)
(* numbers.  Parsing works modulo 2^WideBits and is then cut to the width  *)
(* of the type asked for.                                                  *)
(***************************************************************************)
EXTENDS Integers, Sequences, SequencesExt

CONSTANTS WideBits,   \* 64, scaled
          MaxText     \* INT32_MAX, scaled

ASSUME WidthAssumption == WideBits \in Nat \ {0} /\ MaxText \in Nat

Digits == 0 .. 15
Refused == <<-1>>  \* an error, and no sequence of bytes
Plus == 16
Minus == 17
Percent == 18  \* a binary number follows
Dollar == 19   \* a hexadecimal number follows
Comma == 20    \* stands for any other character
Spaces == {21, 22}

\* A type: its width and whether it has a sign.
Modulus(type) == 2 ^ type.bits
Values(type) == IF type.signed THEN -(Modulus(type) \div 2) .. (Modulus(type) \div 2) - 1
                               ELSE 0 .. Modulus(type) - 1

\* The conversion of an accumulator, or of raw bits, to a type.
Cast(n, type) ==
    LET raw == n % Modulus(type) IN
    IF type.signed /\ raw >= Modulus(type) \div 2 THEN raw - Modulus(type) ELSE raw

-----------------------------------------------------------------------------
(* Formatting.                                                             *)

DecimalLength(n) ==
    LET length[k \in 0 .. n] == IF k >= 10 THEN 1 + length[k \div 10] ELSE 1 IN length[n]

\* write_unsigned and string_from_unsigned, digits from the last to the first.
Decimal(n) ==
    [k \in 1 .. DecimalLength(n) |-> (n \div (10 ^ (DecimalLength(n) - k))) % 10]

\* Mutant: the mask of the magnitude has no bit for the smallest value.
MagnitudeMasked(v, type) == IF v < 0 THEN (-v) % (Modulus(type) \div 2) ELSE v

\* 0u - value in the unsigned type of the same width.
Magnitude(v, type) == IF v < 0 THEN (-v) % Modulus(type) ELSE v

FromInteger(v, type) == (IF v < 0 THEN <<Minus>> ELSE << >>) \o Decimal(Magnitude(v, type))

-----------------------------------------------------------------------------
(* Parsing.                                                                *)

\* The first index from i on, of a character not in S, or Len + 1.
Past(text, i, S) == Min({j \in i .. Len(text) + 1 : j > Len(text) \/ text[j] \notin S})

Is(text, i, c) == i <= Len(text) /\ text[i] = c

\* parse_range: the value, and the index after the last character used.
ParseRange(text) ==
    LET sign == Past(text, 1, Spaces)
        base == IF Is(text, sign, Plus) \/ Is(text, sign, Minus) THEN sign + 1 ELSE sign
        radix == IF Is(text, base, Percent) THEN 2 ELSE IF Is(text, base, Dollar) THEN 16 ELSE 10
        first == IF radix = 10 THEN base ELSE base + 1
        end == Past(text, first, 0 .. radix - 1)
        value == FoldLeft(LAMBDA n, d : (n * radix + d) % (2 ^ WideBits), 0,
                          SubSeq(text, first, end - 1))
    IN [value |-> IF Is(text, sign, Minus) THEN (-value) % (2 ^ WideBits) ELSE value,
        end |-> end]

\* string_to_int32 and its siblings: what follows the number is ignored.
ToInteger(text, type) == Cast(ParseRange(text).value, type)

\* parse_numeric_part: what follows must be blank.
ParsePart(text) ==
    LET p == ParseRange(text) IN
    IF Past(text, p.end, Spaces) > Len(text) THEN p.value ELSE 0

-----------------------------------------------------------------------------
(* Arrays of integers.                                                     *)

SeparatorAt(text, sep, i) ==
    i + Len(sep) - 1 <= Len(text) /\ SubSeq(text, i, i + Len(sep) - 1) = sep

\* numeric_part_count
Count(text, sep) ==
    LET from[i \in 1 .. Len(text) + 1] ==
            IF i > Len(text) - Len(sep) + 1 THEN 1
            ELSE IF SeparatorAt(text, sep, i) THEN 1 + from[i + Len(sep)] ELSE from[i + 1]
    IN IF text = << >> THEN 0 ELSE IF sep = << >> THEN 1 ELSE from[1]

\* The second pass: the parts it writes, the part in progress begins at b.
Parts(text, sep) ==
    LET from[b, i \in 1 .. Len(text) + 1] ==
            IF SeparatorAt(text, sep, i)
              THEN <<SubSeq(text, b, i - 1)>> \o from[i + Len(sep), i + Len(sep)]
            ELSE IF i > Len(text) THEN <<SubSeq(text, b, i - 1)>>
            ELSE from[b, i + 1]
    IN IF text = << >> THEN << >> ELSE IF sep = << >> THEN <<text>> ELSE from[1, 1]

SplitIntegers(text, sep, type) ==
    [k \in DOMAIN Parts(text, sep) |-> Cast(ParsePart(Parts(text, sep)[k]), type)]

JoinedLength(sep, values, type) ==
    FoldSeq(LAMBDA v, n : n + DecimalLength(Magnitude(v, type)) + (IF v < 0 THEN 1 ELSE 0),
            (Len(values) - 1) * Len(sep), values)

\* join_integer
JoinIntegers(sep, values, type) ==
    LET written == FoldLeftDomain(
            LAMBDA out, k : out \o (IF k > 1 THEN sep ELSE << >>) \o FromInteger(values[k], type),
            << >>, values)
    IN IF values = << >> \/ JoinedLength(sep, values, type) > MaxText THEN << >> ELSE written

-----------------------------------------------------------------------------
(* Bytes as hexadecimal digits (embedded_runtime.c).                       *)

ToHex(bytes) ==
    IF Len(bytes) > MaxText \div 2 THEN << >>
    ELSE FlattenSeq([k \in DOMAIN bytes |-> <<bytes[k] \div 16, bytes[k] % 16>>])

\* to_bytes_from_hex_ex: the bytes up to the first pair that is not of digits.
FromHex(text, offset, count, size) ==
    LET end == Min({Len(text), offset + count})
        pairs == {k \in 1 .. (end - offset) \div 2 :
                    \A i \in offset + 1 .. offset + 2 * k : text[i] \in Digits}
        bytes == [k \in pairs |-> text[offset + 2 * k - 1] * 16 + text[offset + 2 * k]]
    IN IF text = << >> \/ offset > Len(text) THEN << >>
       ELSE IF size = 0 \/ Cardinality(pairs) > size THEN Refused ELSE bytes

-----------------------------------------------------------------------------
(* What callers rely on.                                                   *)

\* A separator that no number contains.
Separates(sep) == sep # << >> /\ sep[1] \notin Digits \cup {Minus}

(* Numbers survive formatting and parsing, alone and in arrays, at both    *)
(* ends of every width, and the measured length is the written one.        *)
NumbersSurvive(values, sep, type) ==
    LET text == JoinIntegers(sep, values, type) IN
    /\ \A v \in ToSet(values) : ToInteger(FromInteger(v, type), type) = v
    /\ text # << >> => Len(text) = JoinedLength(sep, values, type)
    /\ text # << >> /\ (Separates(sep) \/ (sep = << >> /\ Len(values) = 1))
         => SplitIntegers(text, sep, type) = values

(* The numbers of an array are as many as were counted before it was made, *)
(* a wider type says the same about a text as a narrower one does, and     *)
(* bytes read from hexadecimal digits are in their room and print as them. *)
SplitsAsCounted(text, sep, type, wider) ==
    /\ Len(Parts(text, sep)) = Count(text, sep)
    /\ Cast(ToInteger(text, wider), type) = ToInteger(text, type)
    /\ ParsePart(text) \in {0, ParseRange(text).value}
    /\ \A offset, count, size \in 0 .. Len(text) :
         LET bytes == FromHex(text, offset, count, size) IN
         bytes # Refused =>
             /\ Len(bytes) <= size /\ 2 * Len(bytes) <= count
             /\ ToHex(bytes) = SubSeq(text, offset + 1, offset + 2 * Len(bytes))
             /\ FromHex(ToHex(bytes), 0, 2 * Len(bytes), Len(bytes)) \in {bytes, << >>}
=============================================================================
