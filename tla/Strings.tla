------------------------------ MODULE Strings -------------------------------
(***************************************************************************)
(* The String operations of runtime.mod/native/embedded_runtime.c and the  *)
(* case tables of embedded_unicode.c, as operators on sequences of UTF-16  *)
(* units.  Indexes are the code's, from 0.  Most operations go over the    *)
(* text twice, once to measure the result and once to write it; the two    *)
(* passes are two definitions here, and what is written must be what was   *)
(* measured, as the buffer between them is not checked again.              *)
(***************************************************************************)
EXTENDS Integers, Sequences, SequencesExt

CONSTANT MaxLength  \* INT32_MAX, scaled

ASSUME LengthAssumption == MaxLength \in Nat \ {0}

Empty == << >>
Blank(c) == c < 33

-----------------------------------------------------------------------------
(* Comparing and hashing.                                                  *)

Sign(n) == IF n < 0 THEN -1 ELSE IF n > 0 THEN 1 ELSE 0

\* The indexes at which two texts differ.
Differ(left, right) == {i \in 1 .. Min({Len(left), Len(right)}) : left[i] # right[i]}

Compare(left, right) ==
    LET D == Differ(left, right) IN
    IF D # {} THEN Sign(left[Min(D)] - right[Min(D)]) ELSE Sign(Len(left) - Len(right))

(* Letter case.  Until bmx_embedded_unicode_enable only A to Z and a to z  *)
(* have two cases.  It installs a lower, an upper and a folding table:     *)
(* pairs of a unit and its image, sorted by the units.  The tables are not *)
(* in the repository, and its folding function is taken for one of them.   *)

\* unicode_map: binary search between low and high.
Mapped(c, pairs) ==
    LET search[range \in (0 .. Len(pairs)) \X (0 .. Len(pairs))] ==
            LET low == range[1]
                high == range[2]
                middle == low + (high - low) \div 2
                pair == pairs[middle + 1]
            IN IF ~(low < high) THEN c
               ELSE IF c < pair[1] THEN search[<<low, middle>>]
               ELSE IF c > pair[1] THEN search[<<middle + 1, high>>]
               ELSE pair[2]
    IN search[<<0, Len(pairs)>>]

\* No tables.
Uninstalled == [installed |-> FALSE, lower |-> << >>, upper |-> << >>, fold |-> << >>]

Capital == 65 .. 90
Small == 97 .. 122

\* The installed mappers.
LowerUnit(c, cases) == IF c \in Capital THEN c + 32 ELSE Mapped(c, cases.lower)
UpperUnit(c, cases) == IF c \in Small THEN c - 32 ELSE Mapped(c, cases.upper)

\* unicode_transform: the units before the first that changes are copied.
Transformed(text, mapped) ==
    LET C == {i \in DOMAIN text : mapped[i] # text[i]} IN
    IF C = {} THEN text
    ELSE [i \in DOMAIN text |-> IF i < Min(C) THEN text[i] ELSE mapped[i]]

ToLower(text, cases) ==
    IF cases.installed
      THEN Transformed(text, [i \in DOMAIN text |-> LowerUnit(text[i], cases)])
      ELSE [i \in DOMAIN text |-> IF text[i] \in Capital THEN text[i] + 32 ELSE text[i]]

ToUpper(text, cases) ==
    IF cases.installed
      THEN Transformed(text, [i \in DOMAIN text |-> UpperUnit(text[i], cases)])
      ELSE [i \in DOMAIN text |-> IF text[i] \in Small THEN text[i] - 32 ELSE text[i]]

Fold(c, cases) == IF cases.installed THEN Mapped(c, cases.fold)
                  ELSE IF c \in Capital THEN c + 32 ELSE c

\* What compare_case compares.
Folded(text, cases) == [i \in DOMAIN text |-> Fold(text[i], cases)]

CompareCase(left, right, cases) ==
    LET D == Differ(Folded(left, cases), Folded(right, cases)) IN
    IF D # {} THEN Fold(left[Min(D)], cases) - Fold(right[Min(D)], cases)
              ELSE Len(left) - Len(right)

EqualsCase(left, right, cases) ==
    Len(left) = Len(right) /\ CompareCase(left, right, cases) = 0

\* Mutant: the units are hashed as they are.
HashedAsIs(text, cases) == text

\* What goes into the FNV hash, unit by unit; the hash is a function of it.
Hashed(text, cases) == [i \in DOMAIN text |-> Fold(text[i], cases)]

-----------------------------------------------------------------------------
(* Searching.                                                              *)

At(text, sub, i) == SubSeq(text, i + 1, i + Len(sub)) = sub

Find(text, sub, start) ==
    LET from == Max({start, 0})
        M == {i \in from .. Len(text) - Len(sub) : At(text, sub, i)}
    IN IF sub = Empty THEN IF from <= Len(text) THEN from ELSE -1
       ELSE IF M = {} THEN -1 ELSE Min(M)

FindLast(text, sub, start) ==
    LET M == {i \in 0 .. Min({Len(text) - start, Len(text) - Len(sub)}) : At(text, sub, i)} IN
    IF start < 0 \/ M = {} THEN -1 ELSE Max(M)

StartsWith(text, sub) == Len(text) >= Len(sub) /\ At(text, sub, 0)
EndsWith(text, sub) == Len(text) >= Len(sub) /\ At(text, sub, Len(text) - Len(sub))
Contained(text, sub) == Find(text, sub, 0) # -1

-----------------------------------------------------------------------------
(* Cutting and pasting.  A result longer than MaxLength is refused: empty. *)

Limited(text, length) == IF length > MaxLength THEN Empty ELSE text

\* Positions outside the text read as blanks.
Slice(text, begin, end) ==
    IF end <= begin THEN Empty
    ELSE Limited([i \in 1 .. end - begin |->
                    IF begin + i \in DOMAIN text THEN text[begin + i] ELSE 32], end - begin)

Concat(left, right) == Limited(left \o right, Len(left) + Len(right))

Trim(text) ==
    LET W == {i \in DOMAIN text : ~(text[i] <= 32)} IN
    IF W = {} THEN Empty ELSE SubSeq(text, Min(W), Max(W))

Replicate(text, count) ==
    IF text = Empty \/ count <= 0 \/ Len(text) > MaxLength \div count THEN Empty
    ELSE [i \in 1 .. Len(text) * count |-> text[1 + ((i - 1) % Len(text))]]

\* The scan with which Split and Replace count: matches do not overlap.
MatchCount(text, sub) ==
    LET count[i \in 0 .. Len(text)] ==
            LET m == Find(text, sub, i) IN
            IF m = -1 THEN 0 ELSE 1 + count[m + Len(sub)]
    IN count[0]

\* Mutant: a match at the very end opens no part.
PartCountOpen(text, sep) ==
    MatchCount(text, sep) + (IF EndsWith(text, sep) THEN 0 ELSE 1)

PartCount(text, sep) == MatchCount(text, sep) + 1

\* The second pass: part k ends where the next separator begins.
SplitAt(text, sep) ==
    LET end[k \in 0 .. PartCount(text, sep)] ==
            IF k = 0 THEN -Len(sep)
            ELSE LET m == Find(text, sep, end[k - 1] + Len(sep)) IN
                 IF m = -1 THEN Len(text) ELSE m
    IN [k \in 1 .. PartCount(text, sep) |-> Slice(text, end[k - 1] + Len(sep), end[k])]

WordStart(text, i) == Min({j \in i .. Len(text) : j = Len(text) \/ ~Blank(text[j + 1])})
WordEnd(text, i) == Min({j \in i .. Len(text) : j = Len(text) \/ ~(text[j + 1] > 32)})

WordCount(text) ==
    LET count[i \in 0 .. Len(text)] ==
            LET begin == WordStart(text, i) IN
            IF begin = Len(text) THEN 0 ELSE 1 + count[WordEnd(text, begin)]
    IN count[0]

SplitWords(text) ==
    LET end[k \in 0 .. WordCount(text)] ==
            IF k = 0 THEN 0 ELSE WordEnd(text, WordStart(text, end[k - 1]))
    IN [k \in 1 .. WordCount(text) |-> Slice(text, WordStart(text, end[k - 1]), end[k])]

Split(text, sep) == IF sep = Empty THEN SplitWords(text) ELSE SplitAt(text, sep)

JoinLength(sep, parts) ==
    (Len(parts) - 1) * Len(sep) + SumFunction([k \in DOMAIN parts |-> Len(parts[k])])

\* The second pass of join.
Joined(sep, parts) ==
    FlattenSeq([k \in DOMAIN parts |-> (IF k > 1 THEN sep ELSE Empty) \o parts[k]])

Join(sep, parts) ==
    IF parts = << >> THEN Empty ELSE Limited(Joined(sep, parts), JoinLength(sep, parts))

ReplaceLength(text, sub, replacement) ==
    Len(text) + (Len(replacement) - Len(sub)) * MatchCount(text, sub)

\* The second pass of replace.
Replaced(text, sub, replacement) ==
    LET rest[i \in 0 .. Len(text)] ==
            LET m == Find(text, sub, i) IN
            IF m = -1 THEN SubSeq(text, i + 1, Len(text))
            ELSE SubSeq(text, i + 1, m) \o replacement \o rest[m + Len(sub)]
    IN rest[0]

Replace(text, sub, replacement) ==
    IF sub = Empty \/ MatchCount(text, sub) = 0 THEN text
    ELSE Limited(Replaced(text, sub, replacement), ReplaceLength(text, sub, replacement))

-----------------------------------------------------------------------------
(* Arrays.                                                                 *)

Array(type, items) == [type |-> type, items |-> items]
NoArray == Array("none", Empty)

\* The element type is that of the first array that has elements.
ArrayConcat(left, right) ==
    LET length == Len(left.items) + Len(right.items)
        shape == IF left.items # Empty THEN left.type ELSE right.type
        fits(array) == array.items = Empty \/ array.type = shape
    IN IF length > 0 /\ fits(left) /\ fits(right) /\ length <= MaxLength
         THEN Array(shape, left.items \o right.items) ELSE NoArray

\* What the array has of the range is copied to its place among the defaults.
ArraySlice(array, begin, end, type, default) ==
    LET copyBegin == Max({begin, 0})
        copyEnd == Min({end, Len(array.items)})
        destination == copyBegin - begin
        copied == copyEnd - copyBegin
    IN IF /\ begin < end /\ end - begin <= MaxLength
          /\ array.items = Empty \/ array.type = type
         THEN Array(type, [i \in 1 .. end - begin |->
                             IF destination < i /\ i <= destination + copied
                               THEN array.items[copyBegin + i - destination] ELSE default])
         ELSE NoArray

-----------------------------------------------------------------------------
(* What callers rely on, for given texts.                                  *)

\* A sequence without the elements in a set.
Without(s, D) ==
    LET kept[k \in 0 .. Len(s)] ==
            IF k = 0 THEN << >>
            ELSE IF s[k] \in D THEN kept[k - 1] ELSE Append(kept[k - 1], s[k])
    IN kept[Len(s)]

\* Every blank becomes a space.
Spacious(text) == [i \in DOMAIN text |-> IF Blank(text[i]) THEN 32 ELSE text[i]]

\* The units of a text as an array.
Shorts(text) == Array("short", text)

(* Splitting loses nothing, joining puts it back, replacing is splitting   *)
(* and joining, and each second pass writes what the first has measured.   *)
Rejoins(text, sep, other) ==
    LET parts == Split(text, sep) IN
    /\ sep # Empty =>
        /\ Join(sep, parts) = text
        /\ \A k \in DOMAIN parts : ~Contained(parts[k], sep)
        /\ Replace(text, sep, other) = Join(other, parts)
        /\ Len(Replaced(text, sep, other)) = ReplaceLength(text, sep, other)
    /\ sep = Empty =>
        /\ FlattenSeq(parts) = Without(text, {c \in Int : Blank(c)})
        /\ Empty \notin ToSet(parts)
        /\ parts = Split(Trim(text), sep)
        /\ parts = Without(Split(Spacious(text), <<32>>), {Empty})
    /\ parts # << >> => Len(Joined(other, parts)) = JoinLength(other, parts)
    /\ \A n \in 0 .. 3 : Replicate(text, n) = Join(Empty, [k \in 1 .. n |-> text])
    /\ \A n \in 0 .. Len(text) : Concat(Slice(text, 0, n), Slice(text, n, Len(text))) = text
    /\ \A b \in -1 .. Len(text), e \in 0 .. Len(text) + 1 :
         ArraySlice(Shorts(text), b, e, "short", 32).items = Slice(text, b, e)
    /\ ArrayConcat(Shorts(text), Shorts(other)).items = Join(Empty, <<text, other>>)

(* The comparison orders the texts, and the searches from both ends and    *)
(* the tests at both ends agree with each other.                           *)
Agrees(text, sub, other) ==
    /\ Compare(text, sub) = -Compare(sub, text)
    /\ Compare(text, sub) = 0 <=> text = sub
    /\ Compare(text, sub) <= 0 /\ Compare(sub, other) <= 0 => Compare(text, other) <= 0
    /\ StartsWith(text, sub) <=> Find(text, sub, 0) = 0
    /\ EndsWith(text, sub) <=> FindLast(text, sub, 0) = Len(text) - Len(sub) /\ Len(text) >= Len(sub)
    /\ \A n \in 0 .. Len(text) :
         sub # Empty => Find(text, sub, n)
             = LET m == FindLast(Reverse(text), Reverse(sub), n + Len(sub)) IN
               IF m = -1 THEN -1 ELSE Len(text) - Len(sub) - m

(* The case-insensitive comparison orders the texts and agrees with        *)
(* equality and with the hash, as hash tables need, whatever is installed; *)
(* with nothing installed the two cases of a text are equal.               *)
AgreesCase(text, sub, other, cases) ==
    /\ CompareCase(text, sub, cases) <= 0 /\ CompareCase(sub, other, cases) <= 0
         => CompareCase(text, other, cases) <= 0
    /\ EqualsCase(text, sub, cases) <=> CompareCase(text, sub, cases) = 0
    /\ EqualsCase(text, sub, cases) <=> Hashed(text, cases) = Hashed(sub, cases)
    /\ ~cases.installed =>
         /\ EqualsCase(ToLower(text, cases), ToUpper(text, cases), cases)
         /\ ToLower(ToUpper(text, cases), cases) = ToLower(text, cases)

\* d is what the table has for c, or c itself when it has nothing.
Image(c, d, pairs) ==
    \/ <<c, d>> \in ToSet(pairs)
    \/ d = c /\ \A p \in ToSet(pairs) : p[1] # c

(* Every unit of a text is mapped as the installed tables say, apart from  *)
(* the letters that the mappers know themselves.                           *)
Maps(text, cases) ==
    LET lower == ToLower(text, cases)
        upper == ToUpper(text, cases)
    IN /\ Len(lower) = Len(text) /\ Len(upper) = Len(text)
       /\ \A i \in DOMAIN text :
            /\ IF text[i] \in Capital THEN lower[i] = text[i] + 32
                                      ELSE Image(text[i], lower[i], cases.lower)
            /\ IF text[i] \in Small THEN upper[i] = text[i] - 32
                                    ELSE Image(text[i], upper[i], cases.upper)
            /\ Image(text[i], Fold(text[i], cases), cases.fold)
=============================================================================
