------------------------------ MODULE Unicode -------------------------------
(***************************************************************************)
(* The conversions between UTF-16 strings, UTF-8 bytes and UTF-32 of       *)
(* runtime.mod/native/embedded_runtime.c.  Code points, units and bytes    *)
(* have their real widths.                                                 *)
(***************************************************************************)
EXTENDS Integers, Sequences, SequencesExt

Byte == {n \in Nat : n < 256}
Unit == {n \in Nat : n < 65536}

Replacement == 65533                \* U+FFFD
High == 55296 .. 56319              \* 0xd800 .. 0xdbff
Low == 56320 .. 57343               \* 0xdc00 .. 0xdfff
IsScalar(cp) == cp \in Nat /\ cp <= 1114111 /\ cp \notin High /\ cp \notin Low

Failed == <<-1>>  \* an error, and no code points

-----------------------------------------------------------------------------
(* One code point.                                                         *)

EncodedLength(cp) ==
    IF cp <= 127 THEN 1 ELSE IF cp <= 2047 THEN 2 ELSE IF cp <= 65535 THEN 3 ELSE 4

Continuation(n) == 128 + (n % 64)

Encode(cp) ==
    CASE EncodedLength(cp) = 1 -> <<cp>>
      [] EncodedLength(cp) = 2 -> <<192 + (cp \div 64), Continuation(cp)>>
      [] EncodedLength(cp) = 3 -> <<224 + (cp \div 4096), Continuation(cp \div 64),
                                    Continuation(cp)>>
      [] EncodedLength(cp) = 4 -> <<240 + (cp \div 262144), Continuation(cp \div 4096),
                                    Continuation(cp \div 64), Continuation(cp)>>

\* How many continuation bytes a first byte above 0x7f asks for.
Needed(first) == IF first >= 240 THEN 3 ELSE IF first >= 224 THEN 2
                 ELSE IF first >= 194 THEN 1 ELSE 0

\* first & (0x1f, 0x0f or 0x07): a first byte of 0xf8 or more loses a bit.
LeadBits(first) == CASE Needed(first) = 1 -> first % 32
                     [] Needed(first) = 2 -> first % 16
                     [] OTHER -> first % 8

\* The value that the first byte and the n after it spell.
Spelled(bytes, i, n) ==
    LET low(k) == bytes[i + k] % 64 IN
    CASE n = 1 -> LeadBits(bytes[i]) * 64 + low(1)
      [] n = 2 -> (LeadBits(bytes[i]) * 64 + low(1)) * 64 + low(2)
      [] n = 3 -> ((LeadBits(bytes[i]) * 64 + low(1)) * 64 + low(2)) * 64 + low(3)

\* A shorter form exists.
TooShort(n, value) == (n = 2 /\ value < 2048) \/ (n = 3 /\ value < 65536)

\* decode_utf8: the code point at i and the index after it.
Decode(bytes, i) ==
    LET n == Needed(bytes[i])
        wellMarked == \A k \in 1 .. n : bytes[i + k] \in 128 .. 191
    IN IF bytes[i] < 128 THEN [value |-> bytes[i], next |-> i + 1]
       ELSE IF /\ n > 0 /\ i + n <= Len(bytes) /\ wellMarked
               /\ ~TooShort(n, Spelled(bytes, i, n))
               /\ IsScalar(Spelled(bytes, i, n))
         THEN [value |-> Spelled(bytes, i, n), next |-> i + n + 1]
         ELSE [value |-> Replacement, next |-> i + 1]

\* The units of a code point.
Units(cp) == IF cp <= 65535 THEN <<cp>>
             ELSE <<55296 + ((cp - 65536) \div 1024), 56320 + ((cp - 65536) % 1024)>>

Paired(text, i) == i < Len(text) /\ text[i] \in High /\ text[i + 1] \in Low

(* The code point at unit i, as the UTF-8 encoders see it: a surrogate     *)
(* without its other half is replaced, except a high one at the very end,  *)
(* for which neither condition of the code holds.                          *)
Seen(text, i) ==
    IF Paired(text, i) THEN 65536 + (text[i] - 55296) * 1024 + (text[i + 1] - 56320)
    ELSE IF (text[i] \in High /\ i < Len(text)) \/ text[i] \in Low THEN Replacement
    ELSE text[i]

After(text, i) == IF Paired(text, i) THEN i + 2 ELSE i + 1

-----------------------------------------------------------------------------
(* Whole strings.  Measuring and writing are separate passes.              *)

\* The values met on the way from the first index to the end.
Walk(values, next) ==
    LET from[i \in 1 .. Len(values) + 1] ==
            IF i > Len(values) THEN << >> ELSE <<values[i]>> \o from[next[i]]
    IN from[1]

CodePoints(text) == Walk([i \in DOMAIN text |-> Seen(text, i)], [i \in DOMAIN text |-> After(text, i)])

Decoded(bytes) == Walk([i \in DOMAIN bytes |-> Decode(bytes, i).value],
                       [i \in DOMAIN bytes |-> Decode(bytes, i).next])

AllUnits(cps) == FlattenSeq([k \in DOMAIN cps |-> Units(cps[k])])
Encoded(cps) == FlattenSeq([k \in DOMAIN cps |-> Encode(cps[k])])

FromUtf8(bytes) == AllUnits(Decoded(bytes))

\* The measuring pass of FromUtf8.
FromUtf8Length(bytes) ==
    LET cps == Decoded(bytes) IN
    SumFunction([k \in DOMAIN cps |-> IF cps[k] > 65535 THEN 2 ELSE 1])

ToUtf8(text) == Encoded(CodePoints(text))

Measured(cps) == SumFunction([k \in DOMAIN cps |-> EncodedLength(cps[k])])

Utf8Length(text) == Measured(CodePoints(text))

\* Whole code points, up to the first for which there is no room.
Fitting(text, size) ==
    LET cps == CodePoints(text)
        fit == {k \in 0 .. Len(cps) : Measured(SubSeq(cps, 1, k)) <= size}
    IN Encoded(SubSeq(cps, 1, Max(fit)))

\* Mutant: the room for the final zero is not kept.
BufferedUnterminated(text, capacity) == Append(Fitting(text, capacity), 0)

\* to_utf8_string_buffer; nothing is written into no room.
Buffered(text, capacity) ==
    IF capacity = 0 THEN << >> ELSE Append(Fitting(text, capacity - 1), 0)

\* to_w_string_buffer: as many units as there is room for, then a zero.
BufferedWide(text, capacity) ==
    IF capacity = 0 THEN << >>
    ELSE Append(SubSeq(text, 1, Min({Len(text), capacity - 1})), 0)

\* A surrogate without its other half.
Alone(text, i) == \/ text[i] \in High /\ ~Paired(text, i)
                  \/ text[i] \in Low /\ ~(i > 1 /\ Paired(text, i - 1))

\* It is an error here, at the end of the text too.
ToUtf32(text) == IF \E i \in DOMAIN text : Alone(text, i) THEN Failed ELSE CodePoints(text)

FromUtf32(cps) ==
    AllUnits([k \in DOMAIN cps |-> IF IsScalar(cps[k]) THEN cps[k] ELSE Replacement])

Utf32Length(cps) ==
    SumFunction([k \in DOMAIN cps |-> IF cps[k] > 65535 /\ cps[k] <= 1114111 THEN 2 ELSE 1])

-----------------------------------------------------------------------------
(* What callers rely on.                                                   *)

(* Any bytes decode to well-formed UTF-16 of the measured length, which    *)
(* survives the way to UTF-8 and back.  What is not replaced was spelled   *)
(* in the one legal way wherever it starts below 0xf8; nothing is said of  *)
(* the first bytes above, which the code reads as 0xf0 to 0xf7: F8 90 80   *)
(* 80 becomes U+10000, though no such sequence exists.                     *)
DecodesSafely(bytes) ==
    LET text == FromUtf8(bytes) IN
    /\ ToUtf32(text) = Decoded(bytes)
    /\ FromUtf8Length(bytes) = Len(text)
    /\ FromUtf8(ToUtf8(text)) = text
    /\ \A i \in DOMAIN bytes :
         LET d == Decode(bytes, i) IN
         bytes[i] < 248 /\ d.value # Replacement =>
             Encode(d.value) = <<bytes[i]>> \o SubSeq(bytes, i + 1, d.next - 1)

\* The text with its unpaired surrogates replaced.
Mended(text) == [i \in DOMAIN text |-> IF Alone(text, i) THEN Replacement ELSE text[i]]

\* The one case in which an unpaired surrogate is not replaced.
EndsHalf(text) == text # << >> /\ Last(text) \in High

\* Bytes are UTF-8 when they spell code points in the one legal way.
WellFormed(bytes) == Encoded(Decoded(bytes)) = bytes

(* A string that does not end in half a pair becomes UTF-8 and comes back  *)
(* with exactly its unpaired surrogates replaced.  Every string comes back *)
(* from UTF-32 as it was or not at all; each measured length is the        *)
(* written one; and a bounded buffer holds a prefix that ends between      *)
(* characters, is as long as possible, and is terminated.                  *)
EncodesSafely(text) ==
    LET bytes == ToUtf8(text) IN
    /\ ~EndsHalf(text) => FromUtf8(bytes) = Mended(text)
    /\ Utf8Length(text) = Len(bytes)
    /\ ToUtf32(text) # Failed =>
         /\ FromUtf32(ToUtf32(text)) = text
         /\ Utf32Length(ToUtf32(text)) = Len(text)
    /\ \A capacity \in 1 .. Len(bytes) + 1 :
         LET buffer == Buffered(text, capacity) IN
         /\ Len(buffer) <= capacity /\ Last(buffer) = 0
         /\ LET wide == BufferedWide(text, capacity) IN
            Len(wide) <= capacity /\ Last(wide) = 0 /\ IsPrefix(Front(wide), text)
         /\ ~EndsHalf(text) => WellFormed(Front(buffer))
         /\ IsPrefix(Front(buffer), bytes)
         /\ IsPrefix(FromUtf8(Front(buffer)), FromUtf8(bytes))
         /\ \/ Front(buffer) = bytes
            \/ capacity <= Len(buffer) + Needed(bytes[Len(buffer)])
=============================================================================
