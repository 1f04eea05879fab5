------------------------------- MODULE MCText --------------------------------
(***************************************************************************)
(* The text algorithms evaluated on every sample of some small sets: a     *)
(* state is one sample, and an invariant says what holds of it.            *)
(***************************************************************************)
EXTENDS Strings, Unicode, IntegerText, Enums

CONSTANTS
    Letters,      \* units of the sample texts
    TextSize, SepSize, OtherSize,
    Bytes, ByteCount,
    Halves,       \* units of the sample UTF-16 texts
    HalfCount,
    Signs,        \* characters of the sample numerals
    NumeralSize, ValueCount,
    Bits, ItemCount  \* of the sample enumerations

ASSUME SampleAssumption ==
    /\ Letters \subseteq Unit /\ Halves \subseteq Unit /\ Bytes \subseteq Byte
    /\ Signs \subseteq Nat
    /\ TextSize \in Nat /\ TextSize <= MaxLength  \* no text is longer
    /\ SepSize \in Nat /\ OtherSize \in Nat /\ ByteCount \in Nat
    /\ HalfCount \in Nat /\ NumeralSize \in Nat /\ ValueCount \in Nat
    /\ ItemCount \in 0 .. 26  \* the items have the names A to Z

VARIABLE sample

Tables == {<< >>, <<<<65, 97>>>>, <<<<32, 65>>, <<65, 66>>, <<97, 32>>>>,
           <<<<9, 32>>, <<66, 98>>, <<97, 65>>, <<98, 66>>>>}

Installed == {[installed |-> TRUE, lower |-> table, upper |-> table, fold |-> table] : table \in Tables}

Int3 == [bits |-> 3, signed |-> TRUE]
UInt3 == [bits |-> 3, signed |-> FALSE]
Long == [bits |-> WideBits, signed |-> TRUE]
ULong == [bits |-> WideBits, signed |-> FALSE]

Separators == {<< >>, <<Comma>>, <<Comma, Comma>>, <<1>>, <<CHOOSE s \in Spaces : TRUE>>}

\* An enumeration of items with the names A, B, C, ...
Enum(values, flags) ==
    [flags |-> flags, items |-> [k \in DOMAIN values |-> [value |-> values[k], name |-> <<64 + k>>]]]

Init ==
    \/ \E text \in BoundedSeq(Letters, TextSize), sep \in BoundedSeq(Letters, SepSize),
          other \in BoundedSeq(Letters, OtherSize) :
          sample = [kind |-> "text", text |-> text, sep |-> sep, other |-> other]
    \/ \E bytes \in BoundedSeq(Bytes, ByteCount) : sample = [kind |-> "bytes", bytes |-> bytes]
    \/ \E units \in BoundedSeq(Halves, HalfCount) : sample = [kind |-> "units", units |-> units]
    \/ \E type \in {Int3, UInt3, Long, ULong}, sep \in Separators :
       \E values \in BoundedSeq(Values(type), ValueCount) :
          sample = [kind |-> "values", values |-> values, sep |-> sep, type |-> type]
    \/ \E numeral \in BoundedSeq(Signs, NumeralSize), sep \in Separators :
          sample = [kind |-> "numeral", text |-> numeral, sep |-> sep, type |-> Int3]

    \/ \E values \in BoundedSeq(SUBSET Bits, ItemCount), value \in SUBSET Bits, flags \in BOOLEAN :
          sample = [kind |-> "enum", value |-> value, enum |-> Enum(values, flags)]

Next == UNCHANGED sample

Spec == Init /\ [][Next]_sample

-----------------------------------------------------------------------------
(* Split, join, replace, slice, trim and replicate agree with each other,  *)
(* and no second pass writes more or less than the first one has measured  *)
(* (embedded_runtime.c:2749-2792, 2860-2963, 3292-3346).                   *)
SplitsRejoin == sample.kind = "text" => Rejoins(sample.text, sample.sep, sample.other)

(* Comparing and searching agree with each other, whichever end a search   *)
(* starts from; comparing and hashing without case agree with or without   *)
(* installed tables; and the binary search finds every unit of a table     *)
(* (embedded_runtime.c:2626-2747, 2800-2843, embedded_unicode.c:13-58).    *)
ComparisonsAgree ==
    sample.kind = "text" =>
        /\ Agrees(sample.text, sample.sep, sample.other)
        /\ \A cases \in {Uninstalled} \cup Installed :
             AgreesCase(sample.text, sample.sep, sample.other, cases)
        /\ \A cases \in Installed : Maps(sample.text, cases)

(* Any bytes decode to well-formed UTF-16, measured as it is written, that *)
(* survives the way to UTF-8 and back, and below 0xf8 each first byte that *)
(* is not replaced spells its code point in the one legal way.  UTF-16     *)
(* that does not end in half a pair survives the way to UTF-8 and back but *)
(* for its unpaired surrogates; any UTF-16 survives UTF-32 or is refused,  *)
(* and bounded buffers are full, terminated and cut between characters     *)
(* (embedded_runtime.c:3020-3245).                                         *)
ConversionsSurvive ==
    /\ sample.kind = "bytes" => DecodesSafely(sample.bytes)
    /\ sample.kind = "units" => EncodesSafely(sample.units)

(* What docs/runtime-integration.md:66-67 says: "An uncaught String is     *)
(* reported as bounded UTF-8 without allocating."  The message comes from  *)
(* the bounded conversion, which leaves a high surrogate at the very end   *)
(* of the text as it is (embedded_runtime.c:3134): its three bytes are not *)
(* UTF-8.                                                                  *)
BoundedMeansUtf8 ==
    sample.kind = "units" =>
        \A capacity \in 1 .. Len(ToUtf8(sample.units)) + 1 :
            WellFormed(Front(Buffered(sample.units, capacity)))

(* Integers survive the way into text and back, at both ends of every      *)
(* width, the numbers of a split text are as many as were counted, and     *)
(* enumeration values that convert survive the way into names and back,    *)
(* also when their items overlap (embedded_string_integer.c:6-245,         *)
(* embedded_runtime.c:3411-3519).                                          *)
ValuesSurvive ==
    /\ sample.kind = "values" => NumbersSurvive(sample.values, sample.sep, sample.type)
    /\ sample.kind = "numeral" => SplitsAsCounted(sample.text, sample.sep, sample.type, Long)
    /\ sample.kind = "enum" => EnumSurvives(sample.enum, sample.value)
=============================================================================
