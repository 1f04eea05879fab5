------------------------------ MODULE TextProof ------------------------------
(***************************************************************************)
(* For texts, tables and samples of any size: the comparisons order the    *)
(* texts, the case-insensitive one agrees with equality and with the hash, *)
(* the searches from both ends and the tests at both ends agree with each  *)
(* other, and the binary search of the case tables finds every unit; bytes *)
(* and units survive the conversions between UTF-8, UTF-16 and UTF-32.     *)
(*                                                                         *)
(* The argument goes from what an operator computes (the least place, the  *)
(* first difference, the pair of a unit) to how two of them agree.  What a *)
(* recursive function computes needs first that there is one: Recursion    *)
(* gives it for any body that asks for smaller arguments only.             *)
(***************************************************************************)
EXTENDS MCText, SequenceTheorems, FiniteSetTheorems, WellFoundedInduction, TLAPS

\* Induction, for a set of numbers.
LEMMA SetInduction ==
  ASSUME NEW S, 0 \in S, \A n \in Nat : n \in S => n + 1 \in S
  PROVE  Nat \subseteq S
<1> SUFFICES ASSUME Nat \ S # {} PROVE FALSE
  OBVIOUS
<1> DEFINE Less == {p \in Nat \X Nat : p[1] < p[2]}
<1>1. PICK x \in Nat \ S : \A y \in Nat \ S : <<y, x>> \notin Less
  <2>1. IsWellFoundedOn(Less, Nat)
    BY NatLessThanWellFounded DEF OpToRel
  <2> HIDE DEF Less
  <2> QED BY <2>1, WFMin
<1>2. x - 1 \in Nat \ S /\ <<x - 1, x>> \in Less
  OBVIOUS
<1> QED BY <1>1, <1>2

(* A recursive function exists when a measure decreases: F[p][g] is the    *)
(* body at p, with g for the function being defined.                       *)
Decreasing(D, V, m, F) ==
    \A p \in D : \A g, h \in [D -> V] :
        (\A q \in D : m[q] < m[p] => g[q] = h[q]) => F[p][g] = F[p][h]

Solvable(D, V, F) == \E f \in [D -> V] : \A p \in D : f[p] = F[p][f]

\* A recursion that goes down a measure has a solution.
LEMMA Recursion ==
  ASSUME NEW D, NEW V, V # {}, NEW m \in [D -> Nat], NEW K \in Nat,
         \A p \in D : m[p] < K,
         NEW F \in [D -> [[D -> V] -> V]], Decreasing(D, V, m, F)
  PROVE  Solvable(D, V, F)
<1> USE DEF Decreasing
<1> PICK v \in V : TRUE
  OBVIOUS
<1> DEFINE S == {k \in Nat : \E g \in [D -> V] : \A p \in D : m[p] < k => g[p] = F[p][g]}
<1>1. 0 \in S
  <2> DEFINE g == [p \in D |-> v]
  <2>1. g \in [D -> V] /\ \A p \in D : ~(m[p] < 0)
    OBVIOUS
  <2> QED BY <2>1
<1>2. ASSUME NEW k \in Nat, k \in S PROVE k + 1 \in S
  <2>1. PICK g \in [D -> V] : \A p \in D : m[p] < k => g[p] = F[p][g]
    BY <1>2
  <2> DEFINE h == [p \in D |-> F[p][g]]
  <2>2. h \in [D -> V] /\ \A p \in D : h[p] = F[p][g]
    OBVIOUS
  <2> HIDE DEF h
  <2>3. ASSUME NEW p \in D, m[p] < k + 1 PROVE h[p] = F[p][h]
    <3>1. ASSUME NEW q \in D, m[q] < m[p] PROVE g[q] = h[q]
      <4>1. m[q] \in Nat /\ m[p] \in Nat
        OBVIOUS
      <4>2. m[q] < k
        BY <2>3, <3>1, <4>1
      <4> QED BY <2>1, <2>2, <4>2
    <3>2. F[p][g] = F[p][h]
      BY <2>2, <3>1
    <3> QED BY <2>2, <3>2
  <2> QED BY <2>2, <2>3
<1>3. K \in S
  <2> HIDE DEF S
  <2> QED BY <1>1, <1>2, SetInduction
<1> QED BY <1>3 DEF Solvable

-----------------------------------------------------------------------------
(* Least and greatest members.                                             *)

\* A lower bound that is a member is the least member.
LEMMA MinIs ==
  ASSUME NEW S \in SUBSET Int, NEW x \in S, \A y \in S : x <= y
  PROVE  Min(S) = x
<1>1. Min(S) \in S /\ \A y \in S : Min(S) <= y
  BY DEF Min
<1>2. Min(S) <= x /\ x <= Min(S) /\ Min(S) \in Int /\ x \in Int
  BY <1>1
<1> QED BY <1>2

\* An upper bound that is a member is the greatest member.
LEMMA MaxIs ==
  ASSUME NEW S \in SUBSET Int, NEW x \in S, \A y \in S : y <= x
  PROVE  Max(S) = x
<1>1. Max(S) \in S /\ \A y \in S : y <= Max(S)
  BY DEF Max
<1>2. Max(S) <= x /\ x <= Max(S) /\ Max(S) \in Int /\ x \in Int
  BY <1>1
<1> QED BY <1>2

\* A set of integers with a lower bound has a least member.
LEMMA MinMember ==
  ASSUME NEW S \in SUBSET Nat, S # {}
  PROVE  Min(S) \in S /\ \A y \in S : Min(S) <= y
<1> DEFINE B == {n \in Nat : \A y \in S : n <= y}
<1>1. 0 \in B
  OBVIOUS
<1>2. PICK z \in S : TRUE
  OBVIOUS
<1>3. ~(Nat \subseteq B)
  <2>1. z + 1 \notin B /\ z + 1 \in Nat
    OBVIOUS
  <2> QED BY <2>1
<1>4. PICK n \in Nat : n \in B /\ n + 1 \notin B
  <2> HIDE DEF B
  <2> QED BY <1>1, <1>3, SetInduction
<1>5. n \in S /\ \A y \in S : n <= y
  BY <1>4
<1>6. Min(S) = n
  BY <1>5, MinIs
<1> QED BY <1>5, <1>6

\* A set of integers with an upper bound has a greatest member.
LEMMA MaxMember ==
  ASSUME NEW S \in SUBSET Nat, S # {}, NEW n \in Nat, \A y \in S : y <= n
  PROVE  Max(S) \in S /\ \A y \in S : y <= Max(S)
<1> DEFINE T == {k \in Nat : n - k \in S}
<1>1. T # {} /\ T \in SUBSET Nat
  <2>1. PICK z \in S : TRUE
    OBVIOUS
  <2>2. z \in Nat /\ z <= n /\ n - z \in Nat /\ n - (n - z) = z
    BY <2>1
  <2> QED BY <2>1, <2>2
<1>2. Min(T) \in T /\ \A k \in T : Min(T) <= k
  <2> HIDE DEF T
  <2> QED BY <1>1, MinMember
<1> DEFINE x == n - Min(T)
<1>3. x \in S /\ x \in Int
  BY <1>2
<1>4. ASSUME NEW y \in S PROVE y <= x
  <2>1. y \in Nat /\ y <= n /\ n - y \in Nat /\ n - (n - y) = y
    OBVIOUS
  <2>2. n - y \in T
    BY <2>1
  <2>3. Min(T) <= n - y /\ Min(T) \in Nat
    BY <1>2, <2>2
  <2> QED BY <2>1, <2>3
<1> HIDE DEF x
<1>5. Max(S) = x
  BY <1>3, <1>4, MaxIs
<1> QED BY <1>3, <1>4, <1>5

\* The lesser of two integers.
LEMMA MinOfTwo ==
  ASSUME NEW a \in Int, NEW b \in Int
  PROVE  Min({a, b}) = IF a <= b THEN a ELSE b
<1>1. CASE a <= b
  BY <1>1, MinIs
<1>2. CASE ~(a <= b)
  BY <1>2, MinIs
<1> QED BY <1>1, <1>2

\* The greater of two integers.
LEMMA MaxOfTwo ==
  ASSUME NEW a \in Int, NEW b \in Int
  PROVE  Max({a, b}) = IF a <= b THEN b ELSE a
<1>1. CASE a <= b
  BY <1>1, MaxIs
<1>2. CASE ~(a <= b)
  BY <1>2, MaxIs
<1> QED BY <1>1, <1>2

-----------------------------------------------------------------------------
(* Comparing. Before is the lexicographic order that the comparisons give. *)

Text == Seq(Int)

Before(left, right) ==
    \E d \in Nat :
        /\ d <= Len(left) /\ d < Len(right)
        /\ \A i \in 1 .. d : left[i] = right[i]
        /\ d < Len(left) => left[d + 1] < right[d + 1]

\* Texts with the same units are the same text.
LEMMA SameText ==
  ASSUME NEW left \in Text, NEW right \in Text, Len(left) = Len(right),
         \A i \in 1 .. Len(left) : left[i] = right[i]
  PROVE  left = right
BY SeqEqual DEF Text

\* No text comes before itself, nor both before and after another.
LEMMA BeforeStrict ==
  ASSUME NEW left \in Text, NEW right \in Text, Before(left, right)
  PROVE  ~Before(right, left) /\ left # right
<1>1. PICK d \in Nat :
        /\ d <= Len(left) /\ d < Len(right)
        /\ \A i \in 1 .. d : left[i] = right[i]
        /\ d < Len(left) => left[d + 1] < right[d + 1]
  BY DEF Before
<1>2. /\ Len(left) \in Nat /\ Len(right) \in Nat
      /\ \A i \in 1 .. Len(left) : left[i] \in Int
      /\ \A i \in 1 .. Len(right) : right[i] \in Int
  BY DEF Text
<1>3. left # right
  BY <1>1, <1>2
<1>4. ASSUME NEW e \in Nat,
             e <= Len(right), e < Len(left),
             \A i \in 1 .. e : right[i] = left[i],
             e < Len(right) => right[e + 1] < left[e + 1]
      PROVE  FALSE
  <2>1. CASE e = d
    BY <1>1, <1>2, <1>4, <2>1
  <2>2. CASE e < d
    <3>1. e + 1 \in 1 .. d /\ e + 1 \in 1 .. Len(left) /\ e + 1 \in 1 .. Len(right)
      BY <1>1, <1>2, <2>2
    <3> QED BY <1>1, <1>2, <1>4, <2>2, <3>1
  <2>3. CASE d < e
    <3>1. d + 1 \in 1 .. e /\ d + 1 \in 1 .. Len(left) /\ d + 1 \in 1 .. Len(right)
      BY <1>2, <1>4, <2>3
    <3> QED BY <1>1, <1>2, <1>4, <2>3, <3>1
  <2> QED BY <2>1, <2>2, <2>3
<1> QED BY <1>3, <1>4 DEF Before

\* What comes before a text comes before what that one comes before.
LEMMA BeforeTransitive ==
  ASSUME NEW a \in Text, NEW b \in Text, NEW c \in Text, Before(a, b), Before(b, c)
  PROVE  Before(a, c)
<1>1. PICK d \in Nat :
        /\ d <= Len(a) /\ d < Len(b)
        /\ \A i \in 1 .. d : a[i] = b[i]
        /\ d < Len(a) => a[d + 1] < b[d + 1]
  BY DEF Before
<1>2. PICK e \in Nat :
        /\ e <= Len(b) /\ e < Len(c)
        /\ \A i \in 1 .. e : b[i] = c[i]
        /\ e < Len(b) => b[e + 1] < c[e + 1]
  BY DEF Before
<1>3. /\ Len(a) \in Nat /\ Len(b) \in Nat /\ Len(c) \in Nat
      /\ \A i \in 1 .. Len(a) : a[i] \in Int
      /\ \A i \in 1 .. Len(b) : b[i] \in Int
      /\ \A i \in 1 .. Len(c) : c[i] \in Int
  BY DEF Text
<1>4. CASE d < e
  <2>1. d + 1 \in 1 .. e /\ d + 1 \in 1 .. Len(b) /\ d + 1 \in 1 .. Len(c)
    BY <1>1, <1>2, <1>3, <1>4
  <2>2. /\ d <= Len(a) /\ d < Len(c)
        /\ \A i \in 1 .. d : a[i] = c[i]
        /\ d < Len(a) => a[d + 1] < c[d + 1]
    BY <1>1, <1>2, <1>3, <1>4, <2>1
  <2> QED BY <2>2 DEF Before
<1>5. CASE e < d
  <2>1. e + 1 \in 1 .. d /\ e + 1 \in 1 .. Len(a) /\ e + 1 \in 1 .. Len(b)
    BY <1>1, <1>2, <1>3, <1>5
  <2>2. /\ e <= Len(a) /\ e < Len(c)
        /\ \A i \in 1 .. e : a[i] = c[i]
        /\ e < Len(a) => a[e + 1] < c[e + 1]
    BY <1>1, <1>2, <1>3, <1>5, <2>1
  <2> QED BY <2>2 DEF Before
<1>6. CASE d = e
  <2>1. ASSUME d < Len(a) PROVE a[d + 1] < c[d + 1]
    <3>1. d + 1 \in 1 .. Len(a) /\ d + 1 \in 1 .. Len(b) /\ d + 1 \in 1 .. Len(c)
      BY <1>1, <1>2, <1>3, <1>6, <2>1
    <3> QED BY <1>1, <1>2, <1>3, <1>6, <2>1, <3>1
  <2> QED BY <1>1, <1>2, <1>3, <1>6, <2>1 DEF Before
<1> QED BY <1>1, <1>2, <1>4, <1>5, <1>6

\* What the first difference says, if there is one.
LEMMA Differing ==
  ASSUME NEW left \in Text, NEW right \in Text, NEW D, D = Differ(left, right)
  PROVE  \/ /\ D # {} /\ Min(D) \in 1 .. Len(left) /\ Min(D) \in 1 .. Len(right)
            /\ \/ left[Min(D)] < right[Min(D)] /\ Before(left, right)
               \/ right[Min(D)] < left[Min(D)] /\ Before(right, left)
         \/ /\ D = {}
            /\ \/ Len(left) < Len(right) /\ Before(left, right)
               \/ Len(right) < Len(left) /\ Before(right, left)
               \/ Len(left) = Len(right) /\ left = right
<1>1. /\ Len(left) \in Nat /\ Len(right) \in Nat
      /\ \A i \in 1 .. Len(left) : left[i] \in Int
      /\ \A i \in 1 .. Len(right) : right[i] \in Int
  BY DEF Text
<1>2. D = {i \in 1 .. Len(left) : i <= Len(right) /\ left[i] # right[i]}
  <2> DEFINE n == Min({Len(left), Len(right)})
  <2>1. n = IF Len(left) <= Len(right) THEN Len(left) ELSE Len(right)
    BY <1>1, MinOfTwo
  <2>2. D = {i \in 1 .. n : left[i] # right[i]}
    BY DEF Differ
  <2> HIDE DEF n
  <2>3. \A i : i \in 1 .. n <=> i \in 1 .. Len(left) /\ i <= Len(right)
    BY <1>1, <2>1
  <2> QED BY <2>2, <2>3
<1>3. CASE D # {}
  <2>1. Min(D) \in D /\ \A y \in D : Min(D) <= y
    <3>1. D \in SUBSET Nat
      BY <1>2
    <3> QED BY <1>3, <3>1, MinMember
  <2> DEFINE d == Min(D) - 1
  <2>2. /\ d \in Nat /\ d < Len(left) /\ d < Len(right) /\ Min(D) = d + 1
        /\ d + 1 \in 1 .. Len(left) /\ d + 1 \in 1 .. Len(right)
        /\ left[d + 1] \in Int /\ right[d + 1] \in Int /\ left[d + 1] # right[d + 1]
    BY <1>1, <1>2, <2>1
  <2>3. \A i \in 1 .. d : left[i] = right[i]
    <3> SUFFICES ASSUME NEW i \in 1 .. d, left[i] # right[i] PROVE FALSE
      OBVIOUS
    <3>1. i \in D
      BY <1>1, <1>2, <2>2
    <3> QED BY <2>1, <2>2, <3>1
  <2> HIDE DEF d
  <2>4. CASE left[d + 1] < right[d + 1]
    <3>1. Before(left, right)
      BY <1>1, <2>2, <2>3, <2>4 DEF Before
    <3> QED BY <1>3, <2>2, <2>4, <3>1
  <2>5. CASE right[d + 1] < left[d + 1]
    <3>1. \A i \in 1 .. d : right[i] = left[i]
      BY <2>3
    <3>2. /\ d <= Len(right) /\ d < Len(left)
          /\ d < Len(right) => right[d + 1] < left[d + 1]
      BY <1>1, <2>2, <2>5
    <3>3. Before(right, left)
      BY <2>2, <3>1, <3>2 DEF Before
    <3> QED BY <1>3, <2>2, <2>5, <3>3
  <2>6. left[d + 1] < right[d + 1] \/ right[d + 1] < left[d + 1]
    BY <2>2
  <2> QED BY <2>4, <2>5, <2>6
<1>4. CASE D = {}
  <2>1. \A i \in 1 .. Len(left) : i <= Len(right) => left[i] = right[i]
    BY <1>2, <1>4
  <2>2. CASE Len(left) < Len(right)
    <3>1. Before(left, right)
      BY <1>1, <2>1, <2>2 DEF Before
    <3> QED BY <1>4, <2>2, <3>1
  <2>3. CASE Len(right) < Len(left)
    <3>1. \A i \in 1 .. Len(right) : right[i] = left[i]
      BY <1>1, <2>1, <2>3
    <3>2. Before(right, left)
      BY <1>1, <2>3, <3>1 DEF Before
    <3> QED BY <1>4, <2>3, <3>2
  <2>4. CASE Len(right) = Len(left)
    <3>1. left = right
      BY <1>1, <2>1, <2>4, SameText
    <3> QED BY <1>4, <2>4, <3>1
  <2> QED BY <1>1, <2>2, <2>3, <2>4
<1> QED BY <1>3, <1>4

(* The two comparisons give the order of the texts, and of what is         *)
(* compared of them.                                                       *)
LEMMA CompareOrders ==
  ASSUME NEW left \in Text, NEW right \in Text
  PROVE  \/ Compare(left, right) = -1 /\ Before(left, right)
         \/ Compare(left, right) = 1 /\ Before(right, left)
         \/ Compare(left, right) = 0 /\ left = right
<1> DEFINE D == Differ(left, right)
<1>1. /\ Len(left) \in Nat /\ Len(right) \in Nat
      /\ \A i \in 1 .. Len(left) : left[i] \in Int
      /\ \A i \in 1 .. Len(right) : right[i] \in Int
  BY DEF Text
<1>2. Compare(left, right) = IF D # {} THEN Sign(left[Min(D)] - right[Min(D)])
                                        ELSE Sign(Len(left) - Len(right))
  BY DEF Compare
<1>3. \A a, b \in Int : Sign(a - b) = IF a < b THEN -1 ELSE IF b < a THEN 1 ELSE 0
  BY DEF Sign
<1>4. D = Differ(left, right)
  OBVIOUS
<1> HIDE DEF D
<1>5. CASE D # {}
  <2>1. Min(D) \in 1 .. Len(left) /\ Min(D) \in 1 .. Len(right)
    BY <1>4, <1>5, Differing
  <2>2. left[Min(D)] \in Int /\ right[Min(D)] \in Int
    BY <1>1, <2>1
  <2>3. \/ left[Min(D)] < right[Min(D)] /\ Before(left, right)
        \/ right[Min(D)] < left[Min(D)] /\ Before(right, left)
    BY <1>4, <1>5, Differing
  <2>4. Compare(left, right) = Sign(left[Min(D)] - right[Min(D)])
    BY <1>2, <1>5
  <2> QED BY <1>3, <2>2, <2>3, <2>4
<1>6. CASE D = {}
  <2>1. Compare(left, right) = Sign(Len(left) - Len(right))
    BY <1>2, <1>6
  <2>2. \/ Len(left) < Len(right) /\ Before(left, right)
        \/ Len(right) < Len(left) /\ Before(right, left)
        \/ Len(left) = Len(right) /\ left = right
    BY <1>4, <1>6, Differing
  <2>3. Sign(Len(left) - Len(right))
          = IF Len(left) < Len(right) THEN -1 ELSE IF Len(right) < Len(left) THEN 1 ELSE 0
    BY <1>1 DEF Sign
  <2> QED BY <1>1, <2>1, <2>2, <2>3
<1> QED BY <1>5, <1>6

-----------------------------------------------------------------------------
(* Searching.                                                              *)

\* What a text is.
LEMMA TextType ==
  ASSUME NEW text \in Text
  PROVE  /\ Len(text) \in Nat /\ DOMAIN text = 1 .. Len(text)
         /\ \A i \in 1 .. Len(text) : text[i] \in Int
         /\ text = Empty <=> Len(text) = 0
BY DEF Text, Empty

\* What a cut of a text is.
LEMMA Cut ==
  ASSUME NEW text \in Text, NEW a \in Nat, NEW b \in Nat, a <= b, b <= Len(text)
  PROVE  /\ SubSeq(text, a + 1, b) \in Text
         /\ Len(SubSeq(text, a + 1, b)) = b - a
         /\ \A i \in 1 .. b - a : SubSeq(text, a + 1, b)[i] = text[a + i]
<1>1. /\ a + 1 \in Int /\ b \in Int
      /\ \A i \in a + 1 .. b : text[i] \in Int
  BY TextType
<1>2. /\ SubSeq(text, a + 1, b) \in Seq(Int)
      /\ Len(SubSeq(text, a + 1, b)) = IF a + 1 <= b THEN b - (a + 1) + 1 ELSE 0
      /\ \A i \in 1 .. b - (a + 1) + 1 : SubSeq(text, a + 1, b)[i] = text[a + 1 + i - 1]
  BY <1>1, SubSeqProperties
<1>3. \A i \in 1 .. b - a : i \in 1 .. b - (a + 1) + 1 /\ a + 1 + i - 1 = a + i
  OBVIOUS
<1> QED BY <1>2, <1>3 DEF Text

\* A text stands at a place if all its units do.
LEMMA AtIs ==
  ASSUME NEW text \in Text, NEW sub \in Text, NEW i \in Nat, i + Len(sub) <= Len(text)
  PROVE  At(text, sub, i) <=> \A k \in 1 .. Len(sub) : text[i + k] = sub[k]
<1> DEFINE s == SubSeq(text, i + 1, i + Len(sub))
<1>1. Len(sub) \in Nat /\ Len(text) \in Nat /\ i + Len(sub) \in Nat /\ i <= i + Len(sub)
  BY TextType
<1>2. s \in Text /\ Len(s) = i + Len(sub) - i /\ \A k \in 1 .. i + Len(sub) - i : s[k] = text[i + k]
  BY <1>1, Cut
<1>3. i + Len(sub) - i = Len(sub)
  BY <1>1
<1>4. At(text, sub, i) <=> s = sub
  BY DEF At
<1> HIDE DEF s
<1>5. Len(s) = Len(sub) /\ \A k \in 1 .. Len(sub) : s[k] = text[i + k]
  BY <1>2, <1>3
<1>6. s = sub <=> \A k \in 1 .. Len(sub) : s[k] = sub[k]
  BY <1>2, <1>5, SameText
<1> QED BY <1>4, <1>5, <1>6

\* The places at which a text can be found.
Places(text, sub) == {i \in 0 .. Len(text) - Len(sub) : At(text, sub, i)}

\* Places are indexes, and the empty text is at every one of them.
LEMMA PlacesType ==
  ASSUME NEW text \in Text, NEW sub \in Text
  PROVE  /\ Places(text, sub) \in SUBSET Nat
         /\ \A i \in Places(text, sub) : i + Len(sub) <= Len(text)
         /\ \A i \in Nat : i \in Places(text, sub) <=>
               /\ i + Len(sub) <= Len(text)
               /\ \A k \in 1 .. Len(sub) : text[i + k] = sub[k]
<1>1. Len(sub) \in Nat /\ Len(text) \in Nat
  BY TextType
<1>2. \A i \in Nat : i \in 0 .. Len(text) - Len(sub) <=> i + Len(sub) <= Len(text)
  BY <1>1
<1>3. \A i \in 0 .. Len(text) - Len(sub) : i \in Nat
  BY <1>1
<1> QED BY <1>2, <1>3, AtIs DEF Places

\* The first place from an index on.
LEMMA FindIs ==
  ASSUME NEW text \in Text, NEW sub \in Text, sub # Empty, NEW n \in Nat
  PROVE  \/ /\ Find(text, sub, n) = -1
            /\ \A i \in Places(text, sub) : i < n
         \/ /\ Find(text, sub, n) \in Places(text, sub) /\ n <= Find(text, sub, n)
            /\ \A i \in Places(text, sub) : n <= i => Find(text, sub, n) <= i
<1> DEFINE M == {i \in n .. Len(text) - Len(sub) : At(text, sub, i)}
<1>1. Len(sub) \in Nat /\ Len(text) \in Nat
  BY TextType
<1>2. Max({n, 0}) = n
  BY MaxOfTwo
<1>3. Find(text, sub, n) = IF M = {} THEN -1 ELSE Min(M)
  BY <1>2 DEF Find
<1>4. \A i : i \in M <=> i \in Places(text, sub) /\ n <= i
  BY <1>1 DEF Places
<1> HIDE DEF M
<1>5. M \in SUBSET Nat /\ \A i \in Places(text, sub) : i \in Nat
  BY <1>4, PlacesType
<1>6. CASE M = {}
  BY <1>3, <1>4, <1>5, <1>6
<1>7. CASE M # {}
  <2>1. Min(M) \in M /\ \A y \in M : Min(M) <= y
    BY <1>5, <1>7, MinMember
  <2> QED BY <1>3, <1>4, <1>7, <2>1
<1> QED BY <1>6, <1>7

\* The last place for which as much of the text as given is left.
LEMMA FindLastIs ==
  ASSUME NEW text \in Text, NEW sub \in Text, NEW n \in Nat, NEW r,
         r = FindLast(text, sub, n)
  PROVE  \/ r = -1 /\ \A i \in Places(text, sub) : i > Len(text) - n
         \/ /\ r \in Places(text, sub) /\ r <= Len(text) - n
            /\ \A i \in Places(text, sub) : i <= Len(text) - n => i <= r
<1> DEFINE m == Min({Len(text) - n, Len(text) - Len(sub)})
           M == {i \in 0 .. m : At(text, sub, i)}
<1>1. Len(sub) \in Nat /\ Len(text) \in Nat
  BY TextType
<1>2. m = IF Len(text) - n <= Len(text) - Len(sub) THEN Len(text) - n ELSE Len(text) - Len(sub)
  BY <1>1, MinOfTwo
<1>3. r = IF M = {} THEN -1 ELSE Max(M)
  <2>1. ~(n < 0)
    OBVIOUS
  <2> QED BY <2>1, Zenon DEF FindLast
<1>4. \A i : i \in M <=> i \in Places(text, sub) /\ i <= Len(text) - n
  BY <1>1, <1>2 DEF Places
<1> HIDE DEF m, M
<1>5. /\ M \in SUBSET Nat /\ \A i \in Places(text, sub) : i \in Nat
      /\ \A i \in M : i <= Len(text)
  BY <1>1, <1>4, PlacesType
<1>6. CASE M = {}
  BY <1>1, <1>3, <1>4, <1>5, <1>6
<1>7. CASE M # {}
  <2>1. Max(M) \in M /\ \A y \in M : y <= Max(M)
    BY <1>1, <1>5, <1>7, MaxMember
  <2> QED BY <1>3, <1>4, <1>7, <2>1
<1> QED BY <1>6, <1>7

\* A text starts with what is found at its first index.
LEMMA StartsIsFoundFirst ==
  ASSUME NEW text \in Text, NEW sub \in Text
  PROVE  StartsWith(text, sub) <=> Find(text, sub, 0) = 0
<1>1. Len(sub) \in Nat /\ Len(text) \in Nat /\ (sub = Empty <=> Len(sub) = 0)
  BY TextType
<1>2. StartsWith(text, sub) <=> 0 \in Places(text, sub)
  BY <1>1 DEF StartsWith, Places
<1>3. CASE sub = Empty
  <2>1. 0 \in Places(text, sub)
    BY <1>1, <1>3, PlacesType
  <2>2. Find(text, sub, 0) = 0
    <3>1. Max({0, 0}) = 0
      BY MaxOfTwo
    <3> QED BY <1>1, <1>3, <3>1 DEF Find
  <2> QED BY <1>2, <2>1, <2>2
<1>4. CASE sub # Empty
  <2>1. \A i \in Places(text, sub) : i \in Nat
    BY PlacesType
  <2>2. \/ /\ Find(text, sub, 0) = -1
           /\ \A i \in Places(text, sub) : i < 0
        \/ /\ Find(text, sub, 0) \in Places(text, sub) /\ 0 <= Find(text, sub, 0)
           /\ \A i \in Places(text, sub) : 0 <= i => Find(text, sub, 0) <= i
    BY <1>4, FindIs
  <2> QED BY <1>2, <2>1, <2>2
<1> QED BY <1>3, <1>4

\* A text ends with what is found last where it must end.
LEMMA EndsIsFoundLast ==
  ASSUME NEW text \in Text, NEW sub \in Text
  PROVE  EndsWith(text, sub) <=>
            FindLast(text, sub, 0) = Len(text) - Len(sub) /\ Len(text) >= Len(sub)
<1> DEFINE r == FindLast(text, sub, 0)
           d == Len(text) - Len(sub)
<1>1. Len(sub) \in Nat /\ Len(text) \in Nat
  BY TextType
<1>2. EndsWith(text, sub) <=> d \in Places(text, sub)
  BY <1>1 DEF EndsWith, Places
<1>3. \A i \in Places(text, sub) : i \in Nat /\ i <= d /\ i <= Len(text) - 0
  BY <1>1, PlacesType
<1>4. \/ r = -1 /\ \A i \in Places(text, sub) : i > Len(text) - 0
      \/ /\ r \in Places(text, sub) /\ r <= Len(text) - 0
         /\ \A i \in Places(text, sub) : i <= Len(text) - 0 => i <= r
  BY FindLastIs
<1> HIDE DEF r
<1>5. CASE d \in Places(text, sub)
  <2>1. r \in Places(text, sub) /\ d <= r
    BY <1>1, <1>3, <1>4, <1>5
  <2>2. r = d /\ d \in Nat
    BY <1>1, <1>3, <1>5, <2>1
  <2> QED BY <1>1, <1>2, <1>5, <2>2 DEF r
<1>6. CASE d \notin Places(text, sub)
  BY <1>1, <1>2, <1>4, <1>6 DEF r
<1> QED BY <1>5, <1>6

\* What the mirror of a text is.
LEMMA ReverseIs ==
  ASSUME NEW text \in Text
  PROVE  /\ Reverse(text) \in Text /\ Len(Reverse(text)) = Len(text)
         /\ \A i \in 1 .. Len(text) : Reverse(text)[i] = text[Len(text) - i + 1]
<1>1. Len(text) \in Nat /\ \A i \in 1 .. Len(text) : text[i] \in Int
  BY TextType
<1>2. \A i \in 1 .. Len(text) : (Len(text) - i) + 1 \in 1 .. Len(text)
  BY <1>1
<1> QED BY <1>1, <1>2 DEF Reverse, Text

\* What is found in a text is found at the mirrored place in its mirror.
LEMMA PlacesMirrored ==
  ASSUME NEW text \in Text, NEW sub \in Text, NEW i \in Nat, NEW j \in Nat,
         i + j + Len(sub) = Len(text)
  PROVE  i \in Places(text, sub) => j \in Places(Reverse(text), Reverse(sub))
<1> DEFINE a == Reverse(text)
           b == Reverse(sub)
<1>1. Len(sub) \in Nat /\ Len(text) \in Nat
  BY TextType
<1>2. /\ a \in Text /\ Len(a) = Len(text)
      /\ \A k \in 1 .. Len(text) : a[k] = text[Len(text) - k + 1]
      /\ b \in Text /\ Len(b) = Len(sub)
      /\ \A k \in 1 .. Len(sub) : b[k] = sub[Len(sub) - k + 1]
  BY ReverseIs
<1> SUFFICES ASSUME i \in Places(text, sub) PROVE j \in Places(a, b)
  OBVIOUS
<1> HIDE DEF a, b
<1>3. \A k \in 1 .. Len(sub) : text[i + k] = sub[k]
  BY PlacesType
<1>4. ASSUME NEW k \in 1 .. Len(sub) PROVE a[j + k] = b[k]
  <2>1. j + k \in 1 .. Len(text) /\ Len(text) - (j + k) + 1 = i + (Len(sub) - k + 1)
    BY <1>1
  <2>2. Len(sub) - k + 1 \in 1 .. Len(sub)
    BY <1>1
  <2>3. a[j + k] = text[Len(text) - (j + k) + 1]
    BY <1>2, <2>1, Zenon
  <2>4. b[k] = sub[Len(sub) - k + 1]
    BY <1>2, Zenon
  <2>5. text[i + (Len(sub) - k + 1)] = sub[Len(sub) - k + 1]
    BY <1>3, <2>2, Zenon
  <2> QED BY <2>1, <2>3, <2>4, <2>5, Zenon
<1>5. j + Len(b) <= Len(a)
  BY <1>1, <1>2
<1> QED BY <1>2, <1>4, <1>5, PlacesType

\* The mirror of the mirror is the text.
LEMMA ReverseTwice ==
  ASSUME NEW text \in Text
  PROVE  Reverse(Reverse(text)) = text
<1>1. Len(text) \in Nat
  BY TextType
<1> DEFINE a == Reverse(text)
           b == Reverse(a)
<1>2. /\ a \in Text /\ Len(a) = Len(text)
      /\ \A i \in 1 .. Len(text) : a[i] = text[Len(text) - i + 1]
  BY ReverseIs
<1> HIDE DEF a
<1>3. /\ b \in Text /\ Len(b) = Len(a)
      /\ \A i \in 1 .. Len(a) : b[i] = a[Len(a) - i + 1]
  BY <1>2, ReverseIs
<1> HIDE DEF b
<1>4. ASSUME NEW i \in 1 .. Len(text) PROVE b[i] = text[i]
  <2>1. Len(text) - i + 1 \in 1 .. Len(text) /\ Len(text) - (Len(text) - i + 1) + 1 = i
    BY <1>1
  <2> QED BY <1>2, <1>3, <2>1
<1> QED BY <1>2, <1>3, <1>4, SameText DEF a, b

\* Searching from the front is searching the mirror from the back.
LEMMA FindMirrored ==
  ASSUME NEW text \in Text, NEW sub \in Text, sub # Empty, NEW n \in Nat, NEW m,
         m = FindLast(Reverse(text), Reverse(sub), n + Len(sub))
  PROVE  Find(text, sub, n) = IF m = -1 THEN -1 ELSE Len(text) - Len(sub) - m
<1> DEFINE P == Places(text, sub)
           Q == Places(Reverse(text), Reverse(sub))
           d == Len(text) - Len(sub)
           f == Find(text, sub, n)
<1>1. Len(sub) \in Nat /\ Len(text) \in Nat /\ d \in Int /\ n + Len(sub) \in Nat
  BY TextType
<1>2. /\ Reverse(text) \in Text /\ Len(Reverse(text)) = Len(text)
      /\ Reverse(sub) \in Text /\ Len(Reverse(sub)) = Len(sub)
  BY ReverseIs
<1>3. /\ \A i \in P : i \in Nat /\ d - i \in Nat
      /\ \A i \in Q : i \in Nat /\ d - i \in Nat
  <2>1. /\ \A i \in P : i \in Nat /\ i + Len(sub) <= Len(text)
        /\ \A i \in Q : i \in Nat /\ i + Len(Reverse(sub)) <= Len(Reverse(text))
    BY <1>2, PlacesType
  <2> QED BY <1>1, <1>2, <2>1
<1>4. /\ \A i \in P : d - i \in Q
      /\ \A i \in Q : d - i \in P
  <2>1. ASSUME NEW i \in P PROVE d - i \in Q
    <3>1. i \in Nat /\ d - i \in Nat /\ i + (d - i) + Len(sub) = Len(text)
      BY <1>1, <1>3
    <3> QED BY <3>1, PlacesMirrored
  <2>2. ASSUME NEW i \in Q PROVE d - i \in P
    <3>1. /\ i \in Nat /\ d - i \in Nat
          /\ i + (d - i) + Len(Reverse(sub)) = Len(Reverse(text))
      BY <1>1, <1>2, <1>3
    <3>2. d - i \in Places(Reverse(Reverse(text)), Reverse(Reverse(sub)))
      BY <1>2, <3>1, PlacesMirrored
    <3> QED BY <3>2, ReverseTwice
  <2> QED BY <2>1, <2>2
<1>5. \/ f = -1 /\ \A i \in P : i < n
      \/ f \in P /\ n <= f /\ \A i \in P : n <= i => f <= i
  BY FindIs
<1>6. \/ m = -1 /\ \A i \in Q : i > Len(text) - (n + Len(sub))
      \/ /\ m \in Q /\ m <= Len(text) - (n + Len(sub))
         /\ \A i \in Q : i <= Len(text) - (n + Len(sub)) => i <= m
  BY <1>1, <1>2, FindLastIs
<1>7. Len(text) - (n + Len(sub)) = d - n
  BY <1>1
<1> HIDE DEF P, Q, d, f
<1>8. CASE m = -1
  <2>1. \A i \in Q : i > d - n
    BY <1>3, <1>6, <1>7, <1>8
  <2>2. ASSUME f \in P, n <= f PROVE FALSE
    <3>1. d - f \in Q /\ f \in Nat
      BY <1>3, <1>4, <2>2
    <3> QED BY <1>1, <2>1, <2>2, <3>1
  <2> QED BY <1>5, <1>8, <2>2 DEF f
<1>9. CASE m # -1
  <2>1. m \in Q /\ m <= d - n /\ \A i \in Q : i <= d - n => i <= m
    BY <1>6, <1>7, <1>9
  <2>2. m \in Nat /\ d - m \in P /\ n <= d - m /\ d - m \in Nat
    BY <1>1, <1>3, <1>4, <2>1
  <2>3. f \in P /\ n <= f /\ f <= d - m /\ f \in Nat
    <3>1. ~(d - m < n)
      BY <2>2
    <3> QED BY <1>3, <1>5, <2>2, <3>1
  <2>4. d - f \in Q /\ d - f <= d - n
    BY <1>1, <1>4, <2>3
  <2>5. d - f <= m
    BY <2>1, <2>4
  <2>6. f = d - m
    BY <1>1, <2>2, <2>3, <2>5
  <2> QED BY <1>9, <2>6 DEF f, d
<1> QED BY <1>8, <1>9

-----------------------------------------------------------------------------
(* The case tables.                                                        *)

Table(pairs) ==
    /\ pairs \in Seq(Int \X Int)
    /\ \A i, j \in 1 .. Len(pairs) : i < j => pairs[i][1] < pairs[j][1]

Search(c, pairs, g, p) ==
    LET middle == p[1] + (p[2] - p[1]) \div 2
        pair == pairs[middle + 1]
    IN IF ~(p[1] < p[2]) THEN c
       ELSE IF c < pair[1] THEN g[<<p[1], middle>>]
       ELSE IF c > pair[1] THEN g[<<middle + 1, p[2]>>]
       ELSE pair[2]

SearchFunction(c, pairs, g) ==
    LET D == (0 .. Len(pairs)) \X (0 .. Len(pairs)) IN
    g \in [D -> Int] /\ \A p \in D : g[p] = Search(c, pairs, g, p)

\* The middle of a range that is not empty lies in it.
LEMMA Middle ==
  ASSUME NEW low \in Nat, NEW high \in Nat, low < high, NEW m,
         m = low + (high - low) \div 2
  PROVE  m \in Nat /\ low <= m /\ m < high
<1> DEFINE h == (high - low) \div 2
<1>1. \A k \in Nat : 0 < k => k \div 2 \in Nat /\ k \div 2 < k
  OBVIOUS
<1>2. high - low \in Nat /\ 0 < high - low
  OBVIOUS
<1>3. h \in Nat /\ h < high - low
  BY <1>1, <1>2
<1> HIDE DEF h
<1>4. m = low + h
  BY DEF h
<1> QED BY <1>3, <1>4

\* The binary search ends: its ranges get smaller.
LEMMA SearchExists ==
  ASSUME NEW c \in Int, NEW pairs, Table(pairs)
  PROVE  \E g : SearchFunction(c, pairs, g)
<1> DEFINE D == (0 .. Len(pairs)) \X (0 .. Len(pairs))
           n == Len(pairs)
           m == [p \in D |-> IF p[1] < p[2] THEN p[2] - p[1] ELSE 0]
           F == [p \in D |-> [g \in [D -> Int] |-> Search(c, pairs, g, p)]]
<1>1. n \in Nat /\ \A i \in 1 .. n : pairs[i] \in Int \X Int
  BY DEF Table
<1>2. \A p \in D : p = <<p[1], p[2]>> /\ p[1] \in 0 .. n /\ p[2] \in 0 .. n
  OBVIOUS
<1>3. \A a, b \in 0 .. n : <<a, b>> \in D
  OBVIOUS
<1>4. /\ m \in [D -> Nat] /\ \A p \in D : m[p] < n + 1
      /\ \A p \in D : m[p] = IF p[1] < p[2] THEN p[2] - p[1] ELSE 0
  <2>1. \A a, b \in 0 .. n : (IF a < b THEN b - a ELSE 0) \in Nat
                             /\ (IF a < b THEN b - a ELSE 0) < n + 1
    BY <1>1
  <2> QED BY <1>2, <2>1
<1> HIDE DEF m, n, D
<1>5. ASSUME NEW p \in D, p[1] < p[2], NEW middle, middle = p[1] + (p[2] - p[1]) \div 2
      PROVE  /\ pairs[middle + 1][1] \in Int /\ pairs[middle + 1][2] \in Int
             /\ <<p[1], middle>> \in D /\ m[<<p[1], middle>>] < m[p]
             /\ <<middle + 1, p[2]>> \in D /\ m[<<middle + 1, p[2]>>] < m[p]
  <2>1. p[1] \in Nat /\ p[2] \in Nat /\ p[1] <= n /\ p[2] <= n
    BY <1>1, <1>2
  <2>2. middle \in Nat /\ p[1] <= middle /\ middle < p[2]
    BY <1>5, <2>1, Middle
  <2>3. middle \in 0 .. n /\ middle + 1 \in 0 .. n /\ middle + 1 \in 1 .. n
    BY <1>1, <2>1, <2>2
  <2>4. <<p[1], middle>> \in D /\ <<middle + 1, p[2]>> \in D
    BY <1>2, <1>3, <2>3
  <2>5. m[p] = p[2] - p[1]
    BY <1>4, <1>5
  <2>6. m[<<p[1], middle>>] = IF p[1] < middle THEN middle - p[1] ELSE 0
    BY <1>4, <2>4
  <2>7. m[<<middle + 1, p[2]>>] = IF middle + 1 < p[2] THEN p[2] - (middle + 1) ELSE 0
    BY <1>4, <2>4
  <2>8. m[<<p[1], middle>>] < m[p]
    BY <2>1, <2>2, <2>5, <2>6
  <2>9. m[<<middle + 1, p[2]>>] < m[p]
    BY <2>1, <2>2, <2>5, <2>7
  <2> QED BY <1>1, <2>3, <2>4, <2>8, <2>9
<1>6. ASSUME NEW p \in D, NEW g \in [D -> Int] PROVE Search(c, pairs, g, p) \in Int
  <2>1. CASE ~(p[1] < p[2])
    BY <2>1 DEF Search
  <2>2. CASE p[1] < p[2]
    <3> DEFINE middle == p[1] + (p[2] - p[1]) \div 2
    <3>1. Search(c, pairs, g, p) = IF c < pairs[middle + 1][1] THEN g[<<p[1], middle>>]
             ELSE IF c > pairs[middle + 1][1] THEN g[<<middle + 1, p[2]>>]
             ELSE pairs[middle + 1][2]
      BY <2>2 DEF Search
    <3>2. /\ pairs[middle + 1][1] \in Int /\ pairs[middle + 1][2] \in Int
          /\ <<p[1], middle>> \in D /\ <<middle + 1, p[2]>> \in D
      BY <1>5, <2>2
    <3> HIDE DEF middle
    <3> QED BY <3>1, <3>2
  <2> QED BY <2>1, <2>2
<1>7. F \in [D -> [[D -> Int] -> Int]]
  BY <1>6
<1>8. ASSUME NEW p \in D, NEW g \in [D -> Int], NEW h \in [D -> Int],
             \A q \in D : m[q] < m[p] => g[q] = h[q]
      PROVE  F[p][g] = F[p][h]
  <2>1. CASE ~(p[1] < p[2])
    BY <2>1 DEF Search
  <2>2. CASE p[1] < p[2]
    <3> DEFINE middle == p[1] + (p[2] - p[1]) \div 2
    <3>1. \A f \in [D -> Int] :
            Search(c, pairs, f, p) = IF c < pairs[middle + 1][1] THEN f[<<p[1], middle>>]
             ELSE IF c > pairs[middle + 1][1] THEN f[<<middle + 1, p[2]>>]
             ELSE pairs[middle + 1][2]
      BY <2>2 DEF Search
    <3>2. /\ <<p[1], middle>> \in D /\ m[<<p[1], middle>>] < m[p]
          /\ <<middle + 1, p[2]>> \in D /\ m[<<middle + 1, p[2]>>] < m[p]
      BY <1>5, <2>2
    <3>3. g[<<p[1], middle>>] = h[<<p[1], middle>>] /\ g[<<middle + 1, p[2]>>] = h[<<middle + 1, p[2]>>]
      BY <1>8, <3>2
    <3> HIDE DEF middle
    <3>4. Search(c, pairs, g, p) = Search(c, pairs, h, p)
      BY <3>1, <3>3
    <3> QED BY <3>4
  <2> QED BY <2>1, <2>2
<1>9. Solvable(D, Int, F)
  <2> HIDE DEF F
  <2>1. n + 1 \in Nat /\ 0 \in Int
    BY <1>1
  <2>2. Decreasing(D, Int, m, F)
    BY <1>8 DEF Decreasing
  <2> QED BY <1>4, <1>7, <2>1, <2>2, Recursion
<1> QED BY <1>9 DEF Solvable, D, SearchFunction

\* The search finds the pair of the unit, if there is one.
LEMMA MappedIs ==
  ASSUME NEW c \in Int, NEW pairs, Table(pairs)
  PROVE  \/ \E k \in 1 .. Len(pairs) : pairs[k][1] = c /\ Mapped(c, pairs) = pairs[k][2]
         \/ Mapped(c, pairs) = c /\ \A k \in 1 .. Len(pairs) : pairs[k][1] # c
<1> DEFINE n == Len(pairs)
           D == (0 .. n) \X (0 .. n)
           Eq(g) == g = [p \in D |-> Search(c, pairs, g, p)]
           s == CHOOSE g : Eq(g)
           Found(v) == \E k \in 1 .. n : pairs[k][1] = c /\ v = pairs[k][2]
           Within(a, b) == \A k \in 1 .. n : pairs[k][1] = c => a < k /\ k <= b
           Good(p) == Within(p[1], p[2]) => Found(s[p]) \/ (s[p] = c /\ Within(0, 0))
           S == {k \in Nat : \A p \in D : p[2] - p[1] <= k => Good(p)}
<1>1. Mapped(c, pairs) = s[<<0, n>>]
  BY DEF Mapped, Search
<1>2. PICK f : SearchFunction(c, pairs, f)
  BY SearchExists
<1>3. Eq(f)
  BY <1>2 DEF SearchFunction
<1>4. Eq(s)
  BY <1>3
<1>5. \A p \in D : s[p] = Search(c, pairs, s, p)
  BY <1>4
<1>6. n \in Nat /\ \A i \in 1 .. n : pairs[i] \in Int \X Int
  BY DEF Table
<1>7. /\ \A p \in D : p[1] \in 0 .. n /\ p[2] \in 0 .. n
      /\ \A a, b \in 0 .. n : <<a, b>> \in D
  OBVIOUS
<1> HIDE DEF s, D
<1>8. ASSUME NEW p \in D, ~(p[1] < p[2]) PROVE Good(p)
  <2>1. s[p] = c
    BY <1>5, <1>8 DEF Search
  <2>2. ASSUME Within(p[1], p[2]) PROVE Within(0, 0)
    BY <1>6, <1>7, <1>8, <2>2
  <2> HIDE DEF Within
  <2> QED BY <2>1, <2>2
<1>9. 0 \in S
  <2>1. \A p \in D : p[2] - p[1] <= 0 => ~(p[1] < p[2])
    BY <1>6, <1>7
  <2> HIDE DEF Good
  <2> QED BY <1>8, <2>1
<1>10. ASSUME NEW k \in Nat, k \in S PROVE k + 1 \in S
  <2> SUFFICES ASSUME NEW p \in D, p[2] - p[1] <= k + 1, p[1] < p[2] PROVE Good(p)
    <3> HIDE DEF Good
    <3> QED BY <1>8
  <2> DEFINE middle == p[1] + (p[2] - p[1]) \div 2
             pair == pairs[middle + 1]
             lower == <<p[1], middle>>
             upper == <<middle + 1, p[2]>>
  <2>1. p[1] \in Nat /\ p[2] \in Nat /\ p[1] <= n /\ p[2] <= n
    BY <1>6, <1>7
  <2>2. middle \in Nat /\ p[1] <= middle /\ middle < p[2]
    BY <2>1, Middle
  <2>3. s[p] = IF c < pair[1] THEN s[lower] ELSE IF c > pair[1] THEN s[upper] ELSE pair[2]
    BY <1>5 DEF Search
  <2> HIDE DEF middle
  <2>4. middle \in 0 .. n /\ middle + 1 \in 0 .. n /\ middle + 1 \in 1 .. n
    BY <1>6, <2>1, <2>2
  <2>5. /\ lower \in D /\ lower[1] = p[1] /\ lower[2] = middle /\ lower[2] - lower[1] <= k
        /\ upper \in D /\ upper[1] = middle + 1 /\ upper[2] = p[2] /\ upper[2] - upper[1] <= k
    BY <1>7, <2>1, <2>2, <2>4
  <2>6. pair[1] \in Int
    BY <1>6, <2>4
  <2>7. \A i \in 1 .. n : /\ i < middle + 1 => pairs[i][1] < pair[1]
                          /\ middle + 1 < i => pair[1] < pairs[i][1]
                          /\ pairs[i][1] \in Int
    BY <1>6, <2>4 DEF Table
  <2>8. Good(lower) /\ Good(upper)
    <3> HIDE DEF Good
    <3> QED BY <1>10, <2>5
  <2> HIDE DEF pair, lower, upper
  <2>9. SUFFICES ASSUME Within(p[1], p[2]) PROVE Found(s[p]) \/ (s[p] = c /\ Within(0, 0))
    OBVIOUS
  <2>10. CASE c < pair[1]
    <3>1. \A i \in 1 .. n : pairs[i][1] = c => i <= middle
      BY <2>2, <2>6, <2>7, <2>10 DEF pair
    <3>2. Within(lower[1], lower[2])
      BY <2>5, <2>9, <3>1
    <3> HIDE DEF Within, Found
    <3> QED BY <2>3, <2>8, <2>10, <3>2
  <2>11. CASE c > pair[1]
    <3>1. \A i \in 1 .. n : pairs[i][1] = c => middle + 1 < i
      BY <2>2, <2>6, <2>7, <2>11 DEF pair
    <3>2. Within(upper[1], upper[2])
      BY <2>5, <2>9, <3>1
    <3>3. s[p] = s[upper]
      BY <2>3, <2>6, <2>11
    <3> HIDE DEF Within, Found
    <3> QED BY <2>8, <3>2, <3>3
  <2>12. CASE c = pair[1]
    <3>1. s[p] = pair[2]
      BY <2>3, <2>6, <2>12
    <3> QED BY <2>4, <2>12, <3>1 DEF pair
  <2> QED BY <2>6, <2>10, <2>11, <2>12
<1>11. Good(<<0, n>>)
  <2>1. n \in S
    <3> HIDE DEF S
    <3> QED BY <1>6, <1>9, <1>10, SetInduction
  <2>2. <<0, n>> \in D /\ <<0, n>>[2] - <<0, n>>[1] <= n
    BY <1>6, <1>7
  <2> HIDE DEF Good
  <2> QED BY <2>1, <2>2
<1>12. Within(0, n)
  BY <1>6
<1>13. Found(s[<<0, n>>]) \/ (s[<<0, n>>] = c /\ Within(0, 0))
  <2> HIDE DEF Within, Found
  <2> QED BY <1>11, <1>12
<1>14. Within(0, 0) => \A k \in 1 .. n : pairs[k][1] # c
  BY <1>6
<1> QED BY <1>1, <1>13, <1>14

\* The tables that may be installed are sorted.
CaseTables(cases) ==
    cases.installed => Table(cases.lower) /\ Table(cases.upper) /\ Table(cases.fold)

\* A unit is mapped to its image in the table.
LEMMA MappedImage ==
  ASSUME NEW c \in Int, NEW pairs, Table(pairs)
  PROVE  Mapped(c, pairs) \in Int /\ Image(c, Mapped(c, pairs), pairs)
<1> DEFINE d == Mapped(c, pairs)
<1>1. /\ DOMAIN pairs = 1 .. Len(pairs)
      /\ \A k \in 1 .. Len(pairs) : pairs[k] = <<pairs[k][1], pairs[k][2]>> /\ pairs[k][2] \in Int
  BY DEF Table
<1>2. \/ \E k \in 1 .. Len(pairs) : pairs[k][1] = c /\ d = pairs[k][2]
      \/ d = c /\ \A k \in 1 .. Len(pairs) : pairs[k][1] # c
  BY MappedIs
<1> HIDE DEF d
<1>3. d \in Int
  BY <1>1, <1>2
<1>4. <<c, d>> \in ToSet(pairs) \/ (d = c /\ \A p \in ToSet(pairs) : p[1] # c)
  BY <1>1, <1>2 DEF ToSet
<1> QED BY <1>3, <1>4 DEF Image, d

\* Folding keeps units integers.
LEMMA FoldType ==
  ASSUME NEW cases, CaseTables(cases), NEW c \in Int PROVE Fold(c, cases) \in Int
<1>1. CASE cases.installed
  BY <1>1, MappedImage DEF Fold, CaseTables
<1>2. CASE ~cases.installed
  BY <1>2 DEF Fold
<1> QED BY <1>1, <1>2

\* A folded text is a text of the same length.
LEMMA FoldedText ==
  ASSUME NEW cases, CaseTables(cases), NEW text \in Text
  PROVE  /\ Folded(text, cases) \in Text /\ Len(Folded(text, cases)) = Len(text)
         /\ \A i \in 1 .. Len(text) : Folded(text, cases)[i] = Fold(text[i], cases)
<1>1. DOMAIN text = 1 .. Len(text) /\ Len(text) \in Nat /\ \A i \in 1 .. Len(text) : text[i] \in Int
  BY DEF Text
<1>2. Folded(text, cases) = [i \in 1 .. Len(text) |-> Fold(text[i], cases)]
  BY <1>1 DEF Folded
<1>3. \A i \in 1 .. Len(text) : Fold(text[i], cases) \in Int
  BY <1>1, FoldType
<1> QED BY <1>1, <1>2, <1>3 DEF Text

\* compare_case orders the folded texts (embedded_runtime.c:2687-2702).
LEMMA CompareCaseOrders ==
  ASSUME NEW cases, CaseTables(cases), NEW left \in Text, NEW right \in Text
  PROVE  /\ CompareCase(left, right, cases) \in Int
         /\ \/ CompareCase(left, right, cases) < 0 /\ Before(Folded(left, cases), Folded(right, cases))
            \/ CompareCase(left, right, cases) > 0 /\ Before(Folded(right, cases), Folded(left, cases))
            \/ CompareCase(left, right, cases) = 0 /\ Folded(left, cases) = Folded(right, cases)
<1> DEFINE D == Differ(Folded(left, cases), Folded(right, cases))
           a == Folded(left, cases)
           b == Folded(right, cases)
<1>1. /\ Len(left) \in Nat /\ Len(right) \in Nat
      /\ \A i \in 1 .. Len(left) : left[i] \in Int
      /\ \A i \in 1 .. Len(right) : right[i] \in Int
  BY DEF Text
<1>2. CompareCase(left, right, cases) = IF D # {} THEN Fold(left[Min(D)], cases) - Fold(right[Min(D)], cases)
                                           ELSE Len(left) - Len(right)
  BY DEF CompareCase
<1>3. /\ a \in Text /\ Len(a) = Len(left) /\ \A i \in 1 .. Len(left) : a[i] = Fold(left[i], cases)
      /\ b \in Text /\ Len(b) = Len(right) /\ \A i \in 1 .. Len(right) : b[i] = Fold(right[i], cases)
  BY FoldedText
<1>4. D = Differ(a, b)
  OBVIOUS
<1> HIDE DEF D, a, b
<1>5. CASE D # {}
  <2>1. Min(D) \in 1 .. Len(a) /\ Min(D) \in 1 .. Len(b)
    BY <1>3, <1>4, <1>5, Differing
  <2>2. a[Min(D)] = Fold(left[Min(D)], cases) /\ b[Min(D)] = Fold(right[Min(D)], cases)
    BY <1>3, <2>1
  <2>3. Fold(left[Min(D)], cases) \in Int /\ Fold(right[Min(D)], cases) \in Int
    BY <1>1, <1>3, <2>1, FoldType
  <2>4. \/ a[Min(D)] < b[Min(D)] /\ Before(a, b)
        \/ b[Min(D)] < a[Min(D)] /\ Before(b, a)
    BY <1>3, <1>4, <1>5, Differing
  <2>5. CompareCase(left, right, cases) = Fold(left[Min(D)], cases) - Fold(right[Min(D)], cases)
    BY <1>2, <1>5
  <2> QED BY <2>2, <2>3, <2>4, <2>5 DEF a, b
<1>6. CASE D = {}
  <2>1. CompareCase(left, right, cases) = Len(left) - Len(right)
    BY <1>2, <1>6
  <2>2. \/ Len(a) < Len(b) /\ Before(a, b)
        \/ Len(b) < Len(a) /\ Before(b, a)
        \/ Len(a) = Len(b) /\ a = b
    BY <1>3, <1>4, <1>6, Differing
  <2> QED BY <1>1, <1>3, <2>1, <2>2 DEF a, b
<1> QED BY <1>5, <1>6

\* A transformed text has the image of every unit.
LEMMA TransformedIs ==
  ASSUME NEW text \in Text, NEW mapped, mapped \in Text, Len(mapped) = Len(text)
  PROVE  Transformed(text, mapped) = mapped
<1> DEFINE C == {i \in DOMAIN text : mapped[i] # text[i]}
           t == Transformed(text, mapped)
<1>1. /\ Len(text) \in Nat /\ DOMAIN text = 1 .. Len(text)
      /\ mapped = [i \in 1 .. Len(text) |-> mapped[i]]
      /\ text = [i \in 1 .. Len(text) |-> text[i]]
  BY DEF Text
<1>2. CASE C = {}
  <2>1. t = text
    BY <1>2 DEF Transformed
  <2>2. \A i \in 1 .. Len(text) : mapped[i] = text[i]
    BY <1>1, <1>2
  <2> QED BY <1>1, <2>1, <2>2
<1>3. CASE C # {}
  <2>1. t = [i \in 1 .. Len(text) |-> IF i < Min(C) THEN text[i] ELSE mapped[i]]
    BY <1>1, <1>3 DEF Transformed
  <2>2. C \in SUBSET Nat
    BY <1>1
  <2>3. Min(C) \in C /\ \A y \in C : Min(C) <= y
    <3> HIDE DEF C
    <3> QED BY <1>3, <2>2, MinMember
  <2>4. \A i \in 1 .. Len(text) : i < Min(C) => mapped[i] = text[i]
    <3>1. \A i \in 1 .. Len(text) : i < Min(C) => i \notin C
      <4> HIDE DEF C
      <4>1. Min(C) \in Nat
        BY <2>2, <2>3
      <4> QED BY <2>3, <4>1
    <3> QED BY <1>1, <3>1
  <2> DEFINE m == Min(C)
             unit(i) == IF i < m THEN text[i] ELSE mapped[i]
  <2>5. \A i \in 1 .. Len(text) : unit(i) = mapped[i]
    BY <2>4
  <2>6. t = [i \in 1 .. Len(text) |-> unit(i)]
    BY <2>1
  <2> HIDE DEF C, t, unit, m
  <2>7. t = [i \in 1 .. Len(text) |-> mapped[i]]
    BY <2>5, <2>6
  <2> QED BY <1>1, <2>7, Zenon DEF t
<1> QED BY <1>2, <1>3

\* What the code knows of a letter or the table of another unit.
LEMMA UnitTypes ==
  ASSUME NEW cases, CaseTables(cases), cases.installed, NEW c \in Int
  PROVE  /\ LowerUnit(c, cases) \in Int /\ UpperUnit(c, cases) \in Int
         /\ IF c \in Capital THEN LowerUnit(c, cases) = c + 32
                             ELSE Image(c, LowerUnit(c, cases), cases.lower)
         /\ IF c \in Small THEN UpperUnit(c, cases) = c - 32
                           ELSE Image(c, UpperUnit(c, cases), cases.upper)
         /\ Image(c, Fold(c, cases), cases.fold)
<1>1. Table(cases.lower) /\ Table(cases.upper) /\ Table(cases.fold)
  BY DEF CaseTables
<1>2. Image(c, Fold(c, cases), cases.fold)
  BY <1>1, MappedImage DEF Fold
<1>3. /\ LowerUnit(c, cases) \in Int
      /\ IF c \in Capital THEN LowerUnit(c, cases) = c + 32
                          ELSE Image(c, LowerUnit(c, cases), cases.lower)
  <2>1. CASE c \in Capital
    BY <2>1 DEF LowerUnit
  <2>2. CASE c \notin Capital
    BY <1>1, <2>2, MappedImage DEF LowerUnit
  <2> QED BY <2>1, <2>2
<1>4. /\ UpperUnit(c, cases) \in Int
      /\ IF c \in Small THEN UpperUnit(c, cases) = c - 32
                        ELSE Image(c, UpperUnit(c, cases), cases.upper)
  <2>1. CASE c \in Small
    BY <2>1 DEF UpperUnit
  <2>2. CASE c \notin Small
    BY <1>1, <2>2, MappedImage DEF UpperUnit
  <2> QED BY <2>1, <2>2
<1> QED BY <1>2, <1>3, <1>4

\* Installed tables map every unit of a text.
LEMMA MapsByTable ==
  ASSUME NEW cases, CaseTables(cases), cases.installed, NEW text \in Text
  PROVE  Maps(text, cases)
<1> DEFINE low == [i \in DOMAIN text |-> LowerUnit(text[i], cases)]
           up == [i \in DOMAIN text |-> UpperUnit(text[i], cases)]
<1>1. Len(text) \in Nat /\ DOMAIN text = 1 .. Len(text) /\ \A i \in 1 .. Len(text) : text[i] \in Int
  BY TextType
<1>2. /\ low \in Text /\ Len(low) = Len(text)
      /\ \A i \in DOMAIN text : low[i] = LowerUnit(text[i], cases)
  <2>1. \A i \in 1 .. Len(text) : LowerUnit(text[i], cases) \in Int
    BY <1>1, UnitTypes
  <2> QED BY <1>1, <2>1 DEF Text
<1>3. /\ up \in Text /\ Len(up) = Len(text)
      /\ \A i \in DOMAIN text : up[i] = UpperUnit(text[i], cases)
  <2>1. \A i \in 1 .. Len(text) : UpperUnit(text[i], cases) \in Int
    BY <1>1, UnitTypes
  <2> QED BY <1>1, <2>1 DEF Text
<1>4. ToLower(text, cases) = Transformed(text, low) /\ ToUpper(text, cases) = Transformed(text, up)
  BY Zenon DEF ToLower, ToUpper
<1> HIDE DEF low, up
<1>5. ToLower(text, cases) = low /\ ToUpper(text, cases) = up
  BY <1>2, <1>3, <1>4, TransformedIs
<1>6. \A i \in DOMAIN text :
        /\ IF text[i] \in Capital THEN low[i] = text[i] + 32
                                  ELSE Image(text[i], low[i], cases.lower)
        /\ IF text[i] \in Small THEN up[i] = text[i] - 32
                                ELSE Image(text[i], up[i], cases.upper)
        /\ Image(text[i], Fold(text[i], cases), cases.fold)
  BY <1>1, <1>2, <1>3, UnitTypes
<1> QED BY <1>2, <1>3, <1>5, <1>6, Zenon DEF Maps

\* A text in lower and in upper case is the same to compare_case.
LEMMA CasesAgree ==
  ASSUME NEW cases, ~cases.installed, NEW text \in Text
  PROVE  /\ ToLower(text, cases) \in Text /\ ToUpper(text, cases) \in Text
         /\ Folded(ToLower(text, cases), cases) = Folded(ToUpper(text, cases), cases)
         /\ ToLower(ToUpper(text, cases), cases) = ToLower(text, cases)
<1> DEFINE low == ToLower(text, cases)
           up == ToUpper(text, cases)
           again == ToLower(up, cases)
           Up(c) == IF c \in Small THEN c - 32 ELSE c
<1>1. Len(text) \in Nat /\ DOMAIN text = 1 .. Len(text) /\ \A i \in 1 .. Len(text) : text[i] \in Int
  BY TextType
<1>2. \A c \in Int : /\ Fold(c, cases) \in Int /\ Up(c) \in Int
                     /\ Fold(Fold(c, cases), cases) = Fold(c, cases) /\ Fold(Up(c), cases) = Fold(c, cases)
  BY DEF Fold, Capital, Small
<1>3. /\ low = [i \in 1 .. Len(text) |-> Fold(text[i], cases)]
      /\ up = [i \in 1 .. Len(text) |-> Up(text[i])]
  BY <1>1 DEF ToLower, ToUpper, Fold
<1>4. again = [i \in DOMAIN up |-> Fold(up[i], cases)]
  BY DEF ToLower, Fold
<1> HIDE DEF low, up, again, Up
<1>5. /\ low \in Text /\ Len(low) = Len(text) /\ \A i \in 1 .. Len(text) : low[i] = Fold(text[i], cases)
      /\ up \in Text /\ Len(up) = Len(text) /\ \A i \in 1 .. Len(text) : up[i] = Up(text[i])
      /\ DOMAIN up = 1 .. Len(text)
  <2>1. \A i \in 1 .. Len(text) : Fold(text[i], cases) \in Int /\ Up(text[i]) \in Int
    BY <1>1, <1>2
  <2> QED BY <1>1, <1>3, <2>1 DEF Text
<1>6. /\ Folded(low, cases) \in Text /\ Len(Folded(low, cases)) = Len(text)
      /\ \A i \in 1 .. Len(text) : Folded(low, cases)[i] = Fold(low[i], cases)
      /\ Folded(up, cases) \in Text /\ Len(Folded(up, cases)) = Len(text)
      /\ \A i \in 1 .. Len(text) : Folded(up, cases)[i] = Fold(up[i], cases)
  BY <1>5, FoldedText DEF CaseTables
<1>7. \A i \in 1 .. Len(text) : /\ Fold(low[i], cases) = Fold(text[i], cases)
                                /\ Fold(up[i], cases) = Fold(text[i], cases)
  BY <1>1, <1>2, <1>5
<1>8. Folded(low, cases) = Folded(up, cases)
  BY <1>6, <1>7, SameText
<1>9. again = low
  BY <1>3, <1>4, <1>5, <1>7
<1> QED BY <1>5, <1>8, <1>9 DEF low, up, again

\* The comparisons and searches agree for any texts.
LEMMA TextsAgree ==
  ASSUME NEW text \in Text, NEW sub \in Text, NEW other \in Text
  PROVE  Agrees(text, sub, other)
<1>1. /\ Compare(text, sub) = -Compare(sub, text)
      /\ Compare(text, sub) = 0 <=> text = sub
  <2>1. \/ Compare(text, sub) = -1 /\ Before(text, sub)
        \/ Compare(text, sub) = 1 /\ Before(sub, text)
        \/ Compare(text, sub) = 0 /\ text = sub
    BY CompareOrders
  <2>2. \/ Compare(sub, text) = -1 /\ Before(sub, text)
        \/ Compare(sub, text) = 1 /\ Before(text, sub)
        \/ Compare(sub, text) = 0 /\ sub = text
    BY CompareOrders
  <2>3. ~(Before(text, sub) /\ Before(sub, text)) /\ (Before(text, sub) \/ Before(sub, text) => text # sub)
    BY BeforeStrict
  <2> QED BY <2>1, <2>2, <2>3
<1>2. Compare(text, sub) <= 0 /\ Compare(sub, other) <= 0 => Compare(text, other) <= 0
  <2> SUFFICES ASSUME Compare(text, sub) <= 0, Compare(sub, other) <= 0
               PROVE  Compare(text, other) <= 0
    OBVIOUS
  <2>1. Before(text, sub) \/ text = sub
    BY CompareOrders
  <2>2. Before(sub, other) \/ sub = other
    BY CompareOrders
  <2>3. Before(text, other) \/ text = other
    BY <2>1, <2>2, BeforeTransitive
  <2>4. ~Before(other, text)
    BY <2>3, BeforeStrict
  <2>5. \/ Compare(text, other) = -1
        \/ Before(other, text)
        \/ Compare(text, other) = 0
    BY CompareOrders
  <2> QED BY <2>4, <2>5
<1>3. /\ StartsWith(text, sub) <=> Find(text, sub, 0) = 0
      /\ EndsWith(text, sub) <=>
            FindLast(text, sub, 0) = Len(text) - Len(sub) /\ Len(text) >= Len(sub)
  BY StartsIsFoundFirst, EndsIsFoundLast
<1>4. ASSUME NEW n \in 0 .. Len(text), sub # Empty
      PROVE  Find(text, sub, n)
               = LET m == FindLast(Reverse(text), Reverse(sub), n + Len(sub)) IN
                 IF m = -1 THEN -1 ELSE Len(text) - Len(sub) - m
  <2>1. n \in Nat
    OBVIOUS
  <2> QED BY <1>4, <2>1, FindMirrored
<1> QED BY <1>1, <1>2, <1>3, <1>4 DEF Agrees

\* Comparing and hashing without case agree for any texts and tables.
LEMMA CaselessAgree ==
  ASSUME NEW cases, CaseTables(cases), NEW text \in Text, NEW sub \in Text, NEW other \in Text
  PROVE  AgreesCase(text, sub, other, cases)
<1>1. CompareCase(text, sub, cases) <= 0 /\ CompareCase(sub, other, cases) <= 0 => CompareCase(text, other, cases) <= 0
  <2> SUFFICES ASSUME CompareCase(text, sub, cases) <= 0, CompareCase(sub, other, cases) <= 0
               PROVE  CompareCase(text, other, cases) <= 0
    OBVIOUS
  <2> DEFINE a == Folded(text, cases)
             b == Folded(sub, cases)
             c == Folded(other, cases)
  <2>1. a \in Text /\ b \in Text /\ c \in Text
    BY FoldedText
  <2>2. Before(a, b) \/ a = b
    BY CompareCaseOrders
  <2>3. Before(b, c) \/ b = c
    BY CompareCaseOrders
  <2>4. CompareCase(text, other, cases) \in Int /\ (CompareCase(text, other, cases) <= 0 \/ Before(c, a))
    BY CompareCaseOrders
  <2> HIDE DEF a, b, c
  <2>5. Before(a, c) \/ a = c
    BY <2>1, <2>2, <2>3, BeforeTransitive
  <2>6. ~Before(c, a)
    BY <2>1, <2>5, BeforeStrict
  <2> QED BY <2>4, <2>6
<1>2. ASSUME NEW a \in Text, NEW b \in Text
      PROVE  /\ CompareCase(a, b, cases) = 0 <=> Folded(a, cases) = Folded(b, cases)
             /\ EqualsCase(a, b, cases) <=> Folded(a, cases) = Folded(b, cases)
  <2>1. Len(Folded(a, cases)) = Len(a) /\ Len(Folded(b, cases)) = Len(b) /\ Folded(a, cases) \in Text /\ Folded(b, cases) \in Text
    BY FoldedText
  <2>2. CompareCase(a, b, cases) = 0 <=> Folded(a, cases) = Folded(b, cases)
    <3>1. /\ CompareCase(a, b, cases) \in Int
          /\ \/ CompareCase(a, b, cases) < 0 /\ Before(Folded(a, cases), Folded(b, cases))
             \/ CompareCase(a, b, cases) > 0 /\ Before(Folded(b, cases), Folded(a, cases))
             \/ CompareCase(a, b, cases) = 0 /\ Folded(a, cases) = Folded(b, cases)
      BY CompareCaseOrders
    <3>2. Before(Folded(a, cases), Folded(b, cases)) \/ Before(Folded(b, cases), Folded(a, cases)) => Folded(a, cases) # Folded(b, cases)
      BY <2>1, BeforeStrict
    <3> QED BY <3>1, <3>2
  <2> QED BY <2>1, <2>2 DEF EqualsCase
<1>3. EqualsCase(text, sub, cases) <=> CompareCase(text, sub, cases) = 0
  BY <1>2
<1>4. EqualsCase(text, sub, cases) <=> Hashed(text, cases) = Hashed(sub, cases)
  <2>1. Hashed(text, cases) = Folded(text, cases) /\ Hashed(sub, cases) = Folded(sub, cases)
    BY DEF Hashed, Folded
  <2> QED BY <1>2, <2>1
<1>5. ASSUME ~cases.installed
      PROVE  /\ EqualsCase(ToLower(text, cases), ToUpper(text, cases), cases)
             /\ ToLower(ToUpper(text, cases), cases) = ToLower(text, cases)
  BY <1>2, <1>5, CasesAgree
<1> QED BY <1>1, <1>3, <1>4, <1>5, Zenon DEF AgreesCase

-----------------------------------------------------------------------------
(* The samples.                                                            *)

\* The sample texts are texts.
LEMMA BoundedText ==
  ASSUME NEW S \in SUBSET Int, NEW n \in Nat, NEW text \in BoundedSeq(S, n)
  PROVE  text \in Seq(S) /\ text \in Text /\ Len(text) <= n
<1>1. PICK m \in 0 .. n : text \in [1 .. m -> S]
  BY DEF BoundedSeq, SeqOf
<1>2. text \in Seq(S) /\ Len(text) = m
  BY <1>1
<1>3. text \in [1 .. m -> Int]
  BY <1>1
<1> QED BY <1>1, <1>2, <1>3 DEF Text

\* A sample stays what it was drawn as.
LEMMA SampleStays == Spec => []Init
<1>1. Init /\ [Next]_sample => Init'
  <2> SUFFICES ASSUME Init, [Next]_sample PROVE Init'
    OBVIOUS
  <2>1. sample' = sample
    BY DEF Next
  <2> QED BY <2>1 DEF Init
<1> QED BY <1>1, PTL DEF Spec

\* A sample of texts has texts.
LEMMA TextSamples ==
  ASSUME Init, sample.kind = "text"
  PROVE  sample.text \in Text /\ sample.sep \in Text /\ sample.other \in Text
<1>1. \E text \in BoundedSeq(Letters, TextSize), sep \in BoundedSeq(Letters, SepSize),
          other \in BoundedSeq(Letters, OtherSize) :
          sample = [kind |-> "text", text |-> text, sep |-> sep, other |-> other]
  BY DEF Init
<1>2. Letters \in SUBSET Int /\ TextSize \in Nat /\ SepSize \in Nat /\ OtherSize \in Nat
  BY SampleAssumption, SMT DEF Unit
<1> QED BY <1>1, <1>2, BoundedText

\* The sample tables are sorted by their units.
LEMMA TablesAreTables == \A table \in Tables : Table(table)
<1>1. Table(<< >>)
  BY DEF Table
<1>2. Table(<<<<65, 97>>>>)
  BY DEF Table
<1>3. Table(<<<<32, 65>>, <<65, 66>>, <<97, 32>>>>)
  BY DEF Table
<1>4. Table(<<<<9, 32>>, <<66, 98>>, <<97, 65>>, <<98, 66>>>>)
  BY DEF Table
<1> QED BY <1>1, <1>2, <1>3, <1>4 DEF Tables

\* So are those that are installed, if any are.
LEMMA CasesAreTables ==
  /\ CaseTables(Uninstalled) /\ \A cases \in Installed : cases.installed /\ CaseTables(cases)
<1>1. CaseTables(Uninstalled)
  BY DEF CaseTables, Uninstalled
<1>2. ASSUME NEW cases \in Installed PROVE cases.installed /\ CaseTables(cases)
  <2>1. PICK table \in Tables :
          cases = [installed |-> TRUE, lower |-> table, upper |-> table, fold |-> table]
    BY DEF Installed
  <2>2. Table(table)
    BY TablesAreTables
  <2> QED BY <2>1, <2>2 DEF CaseTables
<1> QED BY <1>1, <1>2

(* Comparing and searching agree with each other, whichever end a search   *)
(* starts from; comparing and hashing without case agree with or without   *)
(* installed tables; and the binary search finds every unit of a table,    *)
(* for samples of any size and any units                                   *)
(* (embedded_runtime.c:2626-2747, 2800-2843, embedded_unicode.c:13-58).    *)
THEOREM TextsCompare == Spec => []ComparisonsAgree
<1>1. ASSUME Init, sample.kind = "text"
      PROVE  /\ Agrees(sample.text, sample.sep, sample.other)
             /\ \A cases \in {Uninstalled} \cup Installed :
                  AgreesCase(sample.text, sample.sep, sample.other, cases)
             /\ \A cases \in Installed : Maps(sample.text, cases)
  <2>1. sample.text \in Text /\ sample.sep \in Text /\ sample.other \in Text
    BY <1>1, TextSamples
  <2>2. Agrees(sample.text, sample.sep, sample.other)
    BY <2>1, TextsAgree
  <2>3. \A cases \in {Uninstalled} \cup Installed : CaseTables(cases)
    BY CasesAreTables
  <2>4. \A cases \in {Uninstalled} \cup Installed :
          AgreesCase(sample.text, sample.sep, sample.other, cases)
    BY <2>1, <2>3, CaselessAgree
  <2>5. \A cases \in Installed : Maps(sample.text, cases)
    BY <2>1, CasesAreTables, MapsByTable
  <2> QED BY <2>2, <2>4, <2>5
<1>2. Init => ComparisonsAgree
  BY <1>1, Zenon DEF ComparisonsAgree
<1> QED BY <1>2, SampleStays, PTL

-----------------------------------------------------------------------------
(* One code point.                                                         *)

\* The ranges of the surrogates, for the arithmetic.
LEMMA HighIs == \A c \in Int : c \in High <=> 55296 <= c /\ c <= 56319
BY SMT DEF High

\* The other half.
LEMMA LowIs == \A c \in Int : c \in Low <=> 56320 <= c /\ c <= 57343
BY SMT DEF Low

\* The scalar values are the code points outside those ranges.
LEMMA ScalarIs ==
  \A c \in Int : IsScalar(c) <=> 0 <= c /\ c <= 1114111 /\ ~(55296 <= c /\ c <= 57343)
BY HighIs, LowIs, SMT DEF IsScalar

\* A continuation byte is one, and keeps the low six bits.
LEMMA ContinuationIs ==
  \A n \in Nat : Continuation(n) \in Nat /\ 128 <= Continuation(n) /\ Continuation(n) <= 191
                 /\ Continuation(n) % 64 = n % 64
BY SMT DEF Continuation

\* What is written for a code point, and that it was measured right.
LEMMA EncodeIs ==
  ASSUME NEW cp \in Nat
  PROVE  /\ Encode(cp) \in Text /\ Len(Encode(cp)) = EncodedLength(cp)
         /\ \/ cp <= 127 /\ EncodedLength(cp) = 1 /\ Encode(cp) = <<cp>>
            \/ /\ 127 < cp /\ cp <= 2047 /\ EncodedLength(cp) = 2
               /\ Encode(cp) = <<192 + (cp \div 64), Continuation(cp)>>
            \/ /\ 2047 < cp /\ cp <= 65535 /\ EncodedLength(cp) = 3
               /\ Encode(cp) = <<224 + (cp \div 4096), Continuation(cp \div 64), Continuation(cp)>>
            \/ /\ 65535 < cp /\ EncodedLength(cp) = 4
               /\ Encode(cp) = <<240 + (cp \div 262144), Continuation(cp \div 4096),
                                 Continuation(cp \div 64), Continuation(cp)>>
<1>1. /\ Continuation(cp) \in Int /\ Continuation(cp \div 64) \in Int
      /\ Continuation(cp \div 4096) \in Int
  <2>1. cp \div 64 \in Nat /\ cp \div 4096 \in Nat
    BY SMT
  <2> QED BY <2>1, ContinuationIs, SMT
<1>2. /\ 192 + (cp \div 64) \in Int /\ 224 + (cp \div 4096) \in Int
      /\ 240 + (cp \div 262144) \in Int
  BY SMT
<1>3. CASE cp <= 127
  <2>1. EncodedLength(cp) = 1
    BY <1>3, SMT DEF EncodedLength
  <2>2. Encode(cp) = <<cp>>
    BY <2>1, SMT DEF Encode
  <2> QED BY <1>3, <2>1, <2>2, SMT DEF Text
<1>4. CASE 127 < cp /\ cp <= 2047
  <2>1. EncodedLength(cp) = 2
    BY <1>4, SMT DEF EncodedLength
  <2>2. Encode(cp) = <<192 + (cp \div 64), Continuation(cp)>>
    BY <2>1, SMT DEF Encode
  <2> QED BY <1>1, <1>2, <1>4, <2>1, <2>2, SMT DEF Text
<1>5. CASE 2047 < cp /\ cp <= 65535
  <2>1. EncodedLength(cp) = 3
    BY <1>5, SMT DEF EncodedLength
  <2>2. Encode(cp) = <<224 + (cp \div 4096), Continuation(cp \div 64), Continuation(cp)>>
    BY <2>1, SMT DEF Encode
  <2> QED BY <1>1, <1>2, <1>5, <2>1, <2>2, SMT DEF Text
<1>6. CASE 65535 < cp
  <2>1. EncodedLength(cp) = 4
    BY <1>6, SMT DEF EncodedLength
  <2>2. Encode(cp) = <<240 + (cp \div 262144), Continuation(cp \div 4096),
                       Continuation(cp \div 64), Continuation(cp)>>
    BY <2>1, SMT DEF Encode
  <2> QED BY <1>1, <1>2, <1>6, <2>1, <2>2, SMT DEF Text
<1> QED BY <1>3, <1>4, <1>5, <1>6, SMT

\* The one-byte form by itself.
LEMMA EncodeInOne == \A cp \in Nat : cp <= 127 => EncodedLength(cp) = 1 /\ Encode(cp) = <<cp>>
BY EncodeIs, SMT

\* The two-byte form.
LEMMA EncodeInTwo ==
  \A cp \in Nat : 127 < cp /\ cp <= 2047 =>
    EncodedLength(cp) = 2 /\ Encode(cp) = <<192 + (cp \div 64), Continuation(cp)>>
BY EncodeIs, SMT

\* The three-byte form.
LEMMA EncodeInThree ==
  \A cp \in Nat : 2047 < cp /\ cp <= 65535 =>
    /\ EncodedLength(cp) = 3
    /\ Encode(cp) = <<224 + (cp \div 4096), Continuation(cp \div 64), Continuation(cp)>>
BY EncodeIs, SMT

\* The four-byte form.
LEMMA EncodeInFour ==
  \A cp \in Nat : 65535 < cp =>
    /\ EncodedLength(cp) = 4
    /\ Encode(cp) = <<240 + (cp \div 262144), Continuation(cp \div 4096),
                      Continuation(cp \div 64), Continuation(cp)>>
BY EncodeIs, SMT

\* The value that well-formed bytes spell.
LEMMA SpelledEncoded ==
  ASSUME NEW cp \in Nat, cp <= 1114111
  PROVE  /\ (cp \div 64) * 64 + (cp % 64) = cp
         /\ ((cp \div 4096) * 64 + ((cp \div 64) % 64)) * 64 + (cp % 64) = cp
BY SMT

\* The same for four bytes.
LEMMA SpelledInFour ==
  ASSUME NEW cp \in Nat, cp <= 1114111
  PROVE  (((cp \div 262144) * 64 + ((cp \div 4096) % 64)) * 64 + ((cp \div 64) % 64)) * 64 + (cp % 64) = cp
BY SMT

\* Decoding what was encoded, wherever it stands in the bytes.
LEMMA DecodeEncoded ==
  ASSUME NEW cp \in Nat, IsScalar(cp), NEW bytes \in Text, NEW i \in 1 .. Len(bytes),
         i + EncodedLength(cp) - 1 <= Len(bytes),
         \A k \in 1 .. EncodedLength(cp) : bytes[i + k - 1] = Encode(cp)[k]
  PROVE  Decode(bytes, i) = [value |-> cp, next |-> i + EncodedLength(cp)]
<1>1. 0 <= cp /\ cp <= 1114111 /\ ~(55296 <= cp /\ cp <= 57343)
  BY ScalarIs, SMT
<1>2. Len(bytes) \in Nat /\ i \in Nat
  BY TextType, SMT
<1>3. cp \div 64 \in Nat /\ cp \div 4096 \in Nat
  BY SMT
<1> DEFINE Marked(x, n) == x \in Nat /\ 128 <= x /\ x <= 191 /\ x % 64 = n % 64
<1>8. \A n \in Nat : Marked(Continuation(n), n)
  BY ContinuationIs
<1>9. /\ Marked(Continuation(cp), cp) /\ Marked(Continuation(cp \div 64), cp \div 64)
      /\ Marked(Continuation(cp \div 4096), cp \div 4096)
  <2> HIDE DEF Marked
  <2> QED BY <1>3, <1>8
<1>4. CASE cp <= 127
  <2>1. EncodedLength(cp) = 1 /\ Encode(cp) = <<cp>>
    BY <1>4, EncodeIs, SMT
  <2>2. bytes[i] = cp
    BY <2>1, SMT
  <2> QED BY <1>4, <2>1, <2>2, SMTT(20) DEF Decode
<1>5. CASE 127 < cp /\ cp <= 2047
  <2>1. EncodedLength(cp) = 2 /\ Encode(cp) = <<192 + (cp \div 64), Continuation(cp)>>
    BY <1>5, EncodeIs, SMT
  <2> DEFINE b == bytes[i]
             c == bytes[i + 1]
  <2>2. b = 192 + (cp \div 64) /\ c = Continuation(cp)
    BY <1>2, <2>1, SMT
  <2> HIDE DEF b, c
  <2>11. c = Continuation(cp)
    BY <2>2
  <2>3. b \in Nat /\ 194 <= b /\ b < 224 /\ b % 32 = cp \div 64
    BY <1>5, <2>2, SMT
  <2>4. Needed(b) = 1 /\ LeadBits(b) = cp \div 64
    BY <2>3, SMT DEF Needed, LeadBits
  <2>5. Marked(c, cp)
    BY <1>9, <2>11
  <2>6. Spelled(bytes, i, 1) = cp
    <3>1. Spelled(bytes, i, 1) = LeadBits(b) * 64 + (c % 64)
      BY SMT DEF Spelled, b, c
    <3> DEFINE v == cp \div 64
               x == cp % 64
    <3>2. v * 64 + x = cp
      BY <1>1, SpelledEncoded, SMTT(20)
    <3>3. LeadBits(b) = v /\ c % 64 = x
      BY <2>4, <2>5, SMT
    <3> HIDE DEF v, x
    <3> QED BY <3>1, <3>2, <3>3, SMT
  <2>7. ~TooShort(1, cp)
    BY SMT DEF TooShort
  <2>8. \A k \in 1 .. 1 : bytes[i + k] \in 128 .. 191
    <3>1. \A k \in 1 .. 1 : k = 1
      BY SMT
    <3>2. bytes[i + 1] \in 128 .. 191
      <4>1. \A x \in Nat : 128 <= x /\ x <= 191 => x \in 128 .. 191
        BY SMT
      <4>2. c \in 128 .. 191
        BY <2>5, <4>1, SMT
      <4> QED BY <4>2 DEF c
    <3> QED BY <3>1, <3>2
  <2>9. i + 1 <= Len(bytes)
    BY <1>2, <2>1, SMT
  <2>10. Decode(bytes, i) = [value |-> Spelled(bytes, i, 1), next |-> i + 1 + 1]
    BY <1>2, <2>3, <2>4, <2>6, <2>7, <2>8, <2>9, SMTT(20) DEF Decode, b
  <2> QED BY <1>2, <2>1, <2>6, <2>10, SMT
<1>6. CASE 2047 < cp /\ cp <= 65535
  <2>1. /\ EncodedLength(cp) = 3
        /\ Encode(cp) = <<224 + (cp \div 4096), Continuation(cp \div 64), Continuation(cp)>>
    BY <1>6, EncodeIs, SMT
  <2> DEFINE b == bytes[i]
             c == bytes[i + 1]
             d == bytes[i + 2]
  <2>2. b = 224 + (cp \div 4096) /\ c = Continuation(cp \div 64) /\ d = Continuation(cp)
    BY <1>2, <2>1, SMT
  <2> HIDE DEF b, c, d
  <2>11. c = Continuation(cp \div 64) /\ d = Continuation(cp)
    BY <2>2
  <2>3. b \in Nat /\ 224 <= b /\ b < 240 /\ b % 16 = cp \div 4096
    BY <1>6, <2>2, SMT
  <2>4. Needed(b) = 2 /\ LeadBits(b) = cp \div 4096
    BY <2>3, SMT DEF Needed, LeadBits
  <2>5. Marked(c, cp \div 64) /\ Marked(d, cp)
    BY <1>9, <2>11
  <2>6. Spelled(bytes, i, 2) = cp
    <3>1. Spelled(bytes, i, 2) = (LeadBits(b) * 64 + (c % 64)) * 64 + (d % 64)
      BY SMT DEF Spelled, b, c, d
    <3> DEFINE v == cp \div 4096
               x == (cp \div 64) % 64
               y == cp % 64
    <3>2. (v * 64 + x) * 64 + y = cp
      BY <1>1, SpelledEncoded, SMTT(20)
    <3>3. LeadBits(b) = v /\ c % 64 = x /\ d % 64 = y
      BY <2>4, <2>5, SMT
    <3> HIDE DEF v, x, y
    <3> QED BY <3>1, <3>2, <3>3, SMT
  <2>7. ~TooShort(2, cp)
    BY <1>6, SMT DEF TooShort
  <2>8. \A k \in 1 .. 2 : bytes[i + k] \in 128 .. 191
    <3>1. \A k \in 1 .. 2 : k = 1 \/ k = 2
      BY SMT
    <3>2. bytes[i + 1] \in 128 .. 191 /\ bytes[i + 2] \in 128 .. 191
      <4>1. \A x \in Nat : 128 <= x /\ x <= 191 => x \in 128 .. 191
        BY SMT
      <4>2. c \in 128 .. 191 /\ d \in 128 .. 191
        BY <2>5, <4>1, SMT
      <4> QED BY <4>2 DEF c, d
    <3> QED BY <3>1, <3>2
  <2>9. i + 2 <= Len(bytes)
    BY <1>2, <2>1, SMT
  <2>10. Decode(bytes, i) = [value |-> Spelled(bytes, i, 2), next |-> i + 2 + 1]
    BY <1>2, <2>3, <2>4, <2>6, <2>7, <2>8, <2>9, SMTT(20) DEF Decode, b
  <2> QED BY <1>2, <2>1, <2>6, <2>10, SMT
<1>7. CASE 65535 < cp
  <2>1. /\ EncodedLength(cp) = 4
        /\ Encode(cp) = <<240 + (cp \div 262144), Continuation(cp \div 4096),
                          Continuation(cp \div 64), Continuation(cp)>>
    BY <1>7, EncodeIs, SMT
  <2> DEFINE b == bytes[i]
             c == bytes[i + 1]
             d == bytes[i + 2]
             e == bytes[i + 3]
  <2>2. /\ b = 240 + (cp \div 262144) /\ c = Continuation(cp \div 4096)
        /\ d = Continuation(cp \div 64) /\ e = Continuation(cp)
    BY <1>2, <2>1, SMT
  <2> HIDE DEF b, c, d, e
  <2>11. c = Continuation(cp \div 4096) /\ d = Continuation(cp \div 64) /\ e = Continuation(cp)
    BY <2>2
  <2>3. b \in Nat /\ 240 <= b /\ b < 248 /\ b % 8 = cp \div 262144
    BY <1>1, <1>7, <2>2, SMT
  <2>4. Needed(b) = 3 /\ LeadBits(b) = cp \div 262144
    BY <2>3, SMT DEF Needed, LeadBits
  <2>5. Marked(c, cp \div 4096) /\ Marked(d, cp \div 64) /\ Marked(e, cp)
    BY <1>9, <2>11
  <2>6. Spelled(bytes, i, 3) = cp
    <3>1. Spelled(bytes, i, 3) = ((LeadBits(b) * 64 + (c % 64)) * 64 + (d % 64)) * 64 + (e % 64)
      BY SMT DEF Spelled, b, c, d, e
    <3> DEFINE v == cp \div 262144
               x == (cp \div 4096) % 64
               y == (cp \div 64) % 64
               z == cp % 64
    <3>2. ((v * 64 + x) * 64 + y) * 64 + z = cp
      BY <1>1, SpelledInFour, SMT
    <3>3. LeadBits(b) = v /\ c % 64 = x /\ d % 64 = y /\ e % 64 = z
      BY <2>4, <2>5, SMT
    <3> HIDE DEF v, x, y, z
    <3> QED BY <3>1, <3>2, <3>3, SMT
  <2>7. ~TooShort(3, cp)
    BY <1>7, SMT DEF TooShort
  <2>8. \A k \in 1 .. 3 : bytes[i + k] \in 128 .. 191
    <3>1. \A k \in 1 .. 3 : k = 1 \/ k = 2 \/ k = 3
      BY SMT
    <3>2. bytes[i + 1] \in 128 .. 191 /\ bytes[i + 2] \in 128 .. 191 /\ bytes[i + 3] \in 128 .. 191
      <4>1. \A x \in Nat : 128 <= x /\ x <= 191 => x \in 128 .. 191
        BY SMT
      <4>2. c \in 128 .. 191 /\ d \in 128 .. 191 /\ e \in 128 .. 191
        BY <2>5, <4>1, SMT
      <4> QED BY <4>2 DEF c, d, e
    <3> QED BY <3>1, <3>2
  <2>9. i + 3 <= Len(bytes)
    BY <1>2, <2>1, SMT
  <2>10. Decode(bytes, i) = [value |-> Spelled(bytes, i, 3), next |-> i + 3 + 1]
    BY <1>2, <2>3, <2>4, <2>6, <2>7, <2>8, <2>9, SMTT(20) DEF Decode, b
  <2> QED BY <1>2, <2>1, <2>6, <2>10, SMT
<1> QED BY <1>4, <1>5, <1>6, <1>7, SMT

\* What the places of a number in base 64 are.
LEMMA Sixtyfours ==
  ASSUME NEW v \in Nat, NEW x \in Nat, x < 64
  PROVE  (v * 64 + x) \div 64 = v /\ (v * 64 + x) % 64 = x
BY SMT

\* A larger first part spells a larger value.
LEMMA Bigger ==
  ASSUME NEW v \in Nat, NEW x \in Nat, x < 64, NEW y \in Nat, y < 64, NEW z \in Nat, z < 64
  PROVE  /\ (v * 64 + x) * 64 + y \in Nat
         /\ ((v * 64 + x) * 64 + y) \div 4096 = v
         /\ ((v * 64 + x) * 64 + y) * 64 + z \in Nat
         /\ (((v * 64 + x) * 64 + y) * 64 + z) \div 4096 = v * 64 + x
         /\ (((v * 64 + x) * 64 + y) * 64 + z) \div 262144 = v
BY SMT

\* What a first byte asks for, and the bits that it gives.
LEMMA FirstByte ==
  ASSUME NEW b \in Byte
  PROVE  /\ LeadBits(b) \in Nat /\ LeadBits(b) < 32
         /\ \/ Needed(b) = 0 /\ b < 194
            \/ Needed(b) = 1 /\ 194 <= b /\ b < 224 /\ LeadBits(b) = b - 192
            \/ Needed(b) = 2 /\ 224 <= b /\ b < 240 /\ LeadBits(b) = b - 224
            \/ Needed(b) = 3 /\ 240 <= b /\ LeadBits(b) = b % 8 /\ LeadBits(b) < 8
<1>1. CASE b < 194
  BY <1>1, SMT DEF Needed, LeadBits, Byte
<1>2. CASE 194 <= b /\ b < 224
  BY <1>2, SMT DEF Needed, LeadBits, Byte
<1>3. CASE 224 <= b /\ b < 240
  BY <1>3, SMT DEF Needed, LeadBits, Byte
<1>4. CASE 240 <= b
  BY <1>4, SMT DEF Needed, LeadBits, Byte
<1> QED BY <1>1, <1>2, <1>3, <1>4, SMT DEF Byte

Mark(b) == b \in Nat /\ 128 <= b /\ b <= 191

\* The three outcomes of decode_utf8.
Plain(bytes, i) == bytes[i] < 128 /\ Decode(bytes, i) = [value |-> bytes[i], next |-> i + 1]
Replaced1(bytes, i) == Decode(bytes, i) = [value |-> Replacement, next |-> i + 1]
Legal(bytes, i, n) ==
    /\ bytes[i] >= 128 /\ n = Needed(bytes[i]) /\ i + n <= Len(bytes)
    /\ \A k \in 1 .. n : Mark(bytes[i + k])
    /\ ~TooShort(n, Spelled(bytes, i, n)) /\ IsScalar(Spelled(bytes, i, n))
    /\ Decode(bytes, i) = [value |-> Spelled(bytes, i, n), next |-> i + n + 1]

\* A decoded byte is itself, a well-formed sequence, or replaced.
LEMMA DecodeOutcomes ==
  ASSUME NEW bytes \in Seq(Byte), NEW i \in 1 .. Len(bytes)
  PROVE  \/ Plain(bytes, i)
         \/ Replaced1(bytes, i)
         \/ \E n \in 1 .. 3 : Legal(bytes, i, n)
<1>1. bytes[i] \in Byte /\ i \in Nat /\ Len(bytes) \in Nat
  BY SMT
<1>2. CASE bytes[i] < 128
  BY <1>1, <1>2, SMT DEF Decode, Plain
<1>3. CASE bytes[i] >= 128
  <2> DEFINE n == Needed(bytes[i])
             value == Spelled(bytes, i, n)
             legal == /\ n > 0 /\ i + n <= Len(bytes)
                      /\ \A k \in 1 .. n : bytes[i + k] \in 128 .. 191
                      /\ ~TooShort(n, value) /\ IsScalar(value)
  <2>1. n \in 0 .. 3
    BY <1>1, FirstByte, SMT
  <2>2. ~(bytes[i] < 128)
    BY <1>1, <1>3, SMT DEF Byte
  <2>3. Decode(bytes, i) = IF legal THEN [value |-> value, next |-> i + n + 1]
                                    ELSE [value |-> Replacement, next |-> i + 1]
    BY <2>2, Zenon DEF Decode
  <2>4. CASE legal
    <3>1. \A x : x \in 128 .. 191 => Mark(x)
      BY SMT DEF Mark
    <3>2. \A k \in 1 .. n : Mark(bytes[i + k])
      BY <2>4, <3>1
    <3>3. n \in 1 .. 3
      BY <2>1, <2>4, SMT
    <3>4. Decode(bytes, i) = [value |-> value, next |-> i + n + 1]
      BY <2>3, <2>4
    <3>5. ~TooShort(n, value) /\ IsScalar(value) /\ i + n <= Len(bytes)
      BY <2>4
    <3> HIDE DEF legal
    <3>6. Legal(bytes, i, n)
      BY <1>3, <3>2, <3>4, <3>5 DEF Legal
    <3> QED BY <3>3, <3>6
  <2>5. CASE ~legal
    BY <2>3, <2>5 DEF Replaced1
  <2> QED BY <2>4, <2>5
<1> QED BY <1>1, <1>2, <1>3, SMT DEF Byte

\* Decoding makes progress and stays within the bytes.
LEMMA DecodeTypes ==
  ASSUME NEW bytes \in Seq(Byte), NEW i \in 1 .. Len(bytes)
  PROVE  /\ IsScalar(Decode(bytes, i).value) /\ Decode(bytes, i).value \in Int
         /\ Decode(bytes, i).next \in Nat
         /\ i < Decode(bytes, i).next /\ Decode(bytes, i).next <= Len(bytes) + 1
<1>1. bytes[i] \in Byte /\ i \in Nat /\ Len(bytes) \in Nat
  BY SMT
<1>2. CASE Plain(bytes, i)
  BY <1>1, <1>2, ScalarIs, SMT DEF Plain, Byte
<1>3. CASE Replaced1(bytes, i)
  <2>1. IsScalar(Replacement) /\ Replacement \in Int
    BY ScalarIs, SMT DEF Replacement
  <2> QED BY <1>1, <1>3, <2>1, SMT DEF Replaced1
<1>4. ASSUME NEW n \in 1 .. 3, Legal(bytes, i, n)
      PROVE  /\ IsScalar(Decode(bytes, i).value) /\ Decode(bytes, i).value \in Int
             /\ Decode(bytes, i).next \in Nat
             /\ i < Decode(bytes, i).next /\ Decode(bytes, i).next <= Len(bytes) + 1
  <2>1. IsScalar(Spelled(bytes, i, n)) /\ i + n <= Len(bytes)
        /\ Decode(bytes, i) = [value |-> Spelled(bytes, i, n), next |-> i + n + 1]
    BY <1>4 DEF Legal
  <2>2. Spelled(bytes, i, n) \in Int
    BY <2>1, SMT DEF IsScalar
  <2> QED BY <1>1, <2>1, <2>2, SMT
<1> QED BY <1>2, <1>3, <1>4, DecodeOutcomes

\* The first byte that the code takes b for: the same below 0xf8.
Lawful(b) == IF b >= 248 THEN 240 + (b % 8) ELSE b

\* The low bits of a continuation byte.
LEMMA MarkBits ==
  ASSUME NEW c, Mark(c)
  PROVE  c % 64 \in Nat /\ c % 64 < 64 /\ c = 128 + (c % 64) /\ c \in Int
BY SMT DEF Mark

\* Encoding again what one, two or three continuation bytes have spelled.
LEMMA EncodeTwo ==
  ASSUME NEW b \in Byte, Needed(b) = 1, NEW c, Mark(c),
         NEW w, w = LeadBits(b) * 64 + (c % 64)
  PROVE  Encode(w) = <<Lawful(b), c>>
<1> DEFINE v == LeadBits(b)
           x == c % 64
<1>1. x \in Nat /\ x < 64 /\ c = 128 + x
  BY MarkBits, SMT
<1>2. v \in Nat /\ 194 <= b /\ b < 224 /\ v = b - 192 /\ b \in Nat
  BY FirstByte, SMT DEF Byte
<1>3. w = v * 64 + x
  OBVIOUS
<1> HIDE DEF v, x
<1>4. w \in Nat /\ 127 < w /\ w <= 2047
  BY <1>1, <1>2, <1>3, SMT
<1>5. w \div 64 = v /\ w % 64 = x
  BY <1>1, <1>2, <1>3, Sixtyfours, SMT
<1>6. Encode(w) = <<192 + (w \div 64), Continuation(w)>>
  BY <1>4, EncodeInTwo, SMT
<1>7. 192 + (w \div 64) = Lawful(b) /\ Continuation(w) = c
  BY <1>1, <1>2, <1>5, SMT DEF Lawful, Continuation
<1> QED BY <1>6, <1>7, SMT

\* Three well-formed bytes are the encoding of what they spell.
LEMMA EncodeThree ==
  ASSUME NEW b \in Byte, Needed(b) = 2, NEW c, Mark(c), NEW d, Mark(d),
         NEW w, w = (LeadBits(b) * 64 + (c % 64)) * 64 + (d % 64), w >= 2048
  PROVE  Encode(w) = <<Lawful(b), c, d>>
<1> DEFINE v == LeadBits(b)
           x == c % 64
           y == d % 64
           u == v * 64 + x
<1>1. x \in Nat /\ x < 64 /\ c = 128 + x /\ y \in Nat /\ y < 64 /\ d = 128 + y
  BY MarkBits, SMT
<1>2. v \in Nat /\ 224 <= b /\ b < 240 /\ v = b - 224 /\ b \in Nat
  BY FirstByte, SMT DEF Byte
<1>3. w = (v * 64 + x) * 64 + y /\ w = u * 64 + y
  OBVIOUS
<1> HIDE DEF v, x, y
<1>4. u \in Nat /\ w \in Nat /\ 2047 < w /\ w <= 65535
  BY <1>1, <1>2, <1>3, SMT
<1>5. u % 64 = x
  BY <1>1, <1>2, Sixtyfours, SMT
<1>6. w \div 4096 = v
  BY <1>1, <1>2, <1>3, Bigger, SMT
<1> HIDE DEF u
<1>7. w \div 64 = u /\ w % 64 = y
  BY <1>1, <1>3, <1>4, Sixtyfours, SMT
<1>8. Encode(w) = <<224 + (w \div 4096), Continuation(w \div 64), Continuation(w)>>
  BY <1>4, EncodeInThree, SMT
<1>9. 224 + (w \div 4096) = Lawful(b) /\ Continuation(w \div 64) = c /\ Continuation(w) = d
  BY <1>1, <1>2, <1>5, <1>6, <1>7, SMT DEF Lawful, Continuation
<1> QED BY <1>8, <1>9, SMT

\* So are four.
LEMMA EncodeFour ==
  ASSUME NEW b \in Byte, Needed(b) = 3, NEW c, Mark(c), NEW d, Mark(d), NEW e, Mark(e),
         NEW w, w = ((LeadBits(b) * 64 + (c % 64)) * 64 + (d % 64)) * 64 + (e % 64), w >= 65536
  PROVE  Encode(w) = <<Lawful(b), c, d, e>>
<1> DEFINE v == LeadBits(b)
           x == c % 64
           y == d % 64
           z == e % 64
           t == v * 64 + x
           u == t * 64 + y
<1>1. /\ x \in Nat /\ x < 64 /\ c = 128 + x
      /\ y \in Nat /\ y < 64 /\ d = 128 + y
      /\ z \in Nat /\ z < 64 /\ e = 128 + z
  BY MarkBits, SMT
<1>2. v \in Nat /\ 240 <= b /\ b < 256 /\ v = b % 8 /\ v < 8 /\ b \in Nat
  BY FirstByte, SMT DEF Byte
<1>3. w = ((v * 64 + x) * 64 + y) * 64 + z /\ w = u * 64 + z
  OBVIOUS
<1> HIDE DEF v, x, y, z
<1>4. t \in Nat /\ u \in Nat /\ w \in Nat /\ 65535 < w
  BY <1>1, <1>2, <1>3, SMT
<1>5. t % 64 = x
  BY <1>1, <1>2, Sixtyfours, SMT
<1>6. w \div 4096 = t /\ w \div 262144 = v
  BY <1>1, <1>2, <1>3, Bigger, SMT
<1> HIDE DEF t
<1>7. u % 64 = y
  BY <1>1, <1>4, Sixtyfours, SMT
<1> HIDE DEF u
<1>8. w \div 64 = u /\ w % 64 = z
  BY <1>1, <1>3, <1>4, Sixtyfours, SMT
<1>9. Encode(w) = <<240 + (w \div 262144), Continuation(w \div 4096),
                    Continuation(w \div 64), Continuation(w)>>
  BY <1>4, EncodeInFour, SMT
<1>10. /\ 240 + (w \div 262144) = Lawful(b) /\ Continuation(w \div 4096) = c
       /\ Continuation(w \div 64) = d /\ Continuation(w) = e
  BY <1>1, <1>2, <1>5, <1>6, <1>7, <1>8, SMT DEF Lawful, Continuation
<1> QED BY <1>9, <1>10, SMT

\* A byte before a cut of the bytes.
LEMMA OneAndMore ==
  ASSUME NEW a \in Int, NEW t \in Text, NEW u \in Text, Len(u) = Len(t) + 1,
         u[1] = a, \A k \in 1 .. Len(t) : u[k + 1] = t[k]
  PROVE  u = <<a>> \o t
<1> DEFINE s == <<a>> \o t
<1>1. <<a>> \in Text /\ Len(<<a>>) = 1 /\ <<a>>[1] = a /\ Len(t) \in Nat
  BY DEF Text
<1>2. s \in Text /\ Len(s) = Len(t) + 1 /\ s[1] = a
  BY <1>1 DEF Text
<1>3. ASSUME NEW k \in 2 .. Len(t) + 1 PROVE s[k] = t[k - 1] /\ u[k] = t[k - 1]
  <2>1. k - 1 \in 1 .. Len(t) /\ (k - 1) + 1 = k
    BY <1>1
  <2>2. s[k] = t[k - 1]
    BY <1>1, <2>1 DEF Text
  <2>3. u[(k - 1) + 1] = t[k - 1]
    BY <2>1
  <2> QED BY <2>1, <2>2, <2>3
<1> HIDE DEF s
<1>4. \A k \in 1 .. Len(u) : u[k] = s[k]
  BY <1>1, <1>2, <1>3
<1>5. u = s
  BY <1>2, <1>4, SameText
<1> QED BY <1>5 DEF s

\* A cut of one after a byte makes a pair.
LEMMA Pair ==
  ASSUME NEW a \in Int, NEW b \in Int, NEW u, u = <<a, b>>
  PROVE  u \in Text /\ Len(u) = 2 /\ u[1] = a /\ u[2] = b
BY DEF Text

\* A cut of two makes a triple.
LEMMA Triple ==
  ASSUME NEW a \in Int, NEW b \in Int, NEW c \in Int, NEW u, u = <<a, b, c>>
  PROVE  u \in Text /\ Len(u) = 3 /\ u[1] = a /\ u[2] = b /\ u[3] = c
BY DEF Text

\* A cut of three makes a quadruple.
LEMMA Quadruple ==
  ASSUME NEW a \in Int, NEW b \in Int, NEW c \in Int, NEW d \in Int, NEW u, u = <<a, b, c, d>>
  PROVE  u \in Text /\ Len(u) = 4 /\ u[1] = a /\ u[2] = b /\ u[3] = c /\ u[4] = d
BY DEF Text

\* A cut of one.
LEMMA OneUnit ==
  ASSUME NEW a \in Int, NEW t \in Text, Len(t) = 1
  PROVE  <<a, t[1]>> = <<a>> \o t
<1> DEFINE u == <<a, t[1]>>
<1>1. t[1] \in Int
  <2>1. 1 \in 1 .. Len(t)
    OBVIOUS
  <2> QED BY <2>1, TextType
<1>2. u \in Text /\ Len(u) = 2 /\ u[1] = a /\ u[2] = t[1]
  BY <1>1, Pair
<1> HIDE DEF u
<1>3. Len(u) = Len(t) + 1
  BY <1>2
<1>4. \A k \in 1 .. Len(t) : u[k + 1] = t[k]
  BY <1>2
<1>5. u = <<a>> \o t
  BY <1>2, <1>3, <1>4, OneAndMore
<1> QED BY <1>5 DEF u

\* A cut of two.
LEMMA TwoUnits ==
  ASSUME NEW a \in Int, NEW t \in Text, Len(t) = 2
  PROVE  <<a, t[1], t[2]>> = <<a>> \o t
<1> DEFINE u == <<a, t[1], t[2]>>
<1>1. t[1] \in Int /\ t[2] \in Int
  <2>1. 1 \in 1 .. Len(t) /\ 2 \in 1 .. Len(t)
    OBVIOUS
  <2> QED BY <2>1, TextType
<1>2. u \in Text /\ Len(u) = 3 /\ u[1] = a /\ u[2] = t[1] /\ u[3] = t[2]
  BY <1>1, Triple
<1> HIDE DEF u
<1>3. Len(u) = Len(t) + 1
  BY <1>2
<1>4. \A k \in 1 .. Len(t) : u[k + 1] = t[k]
  BY <1>2
<1>5. u = <<a>> \o t
  BY <1>2, <1>3, <1>4, OneAndMore
<1> QED BY <1>5 DEF u

\* A cut of three.
LEMMA ThreeUnits ==
  ASSUME NEW a \in Int, NEW t \in Text, Len(t) = 3
  PROVE  <<a, t[1], t[2], t[3]>> = <<a>> \o t
<1> DEFINE u == <<a, t[1], t[2], t[3]>>
<1>1. t[1] \in Int /\ t[2] \in Int /\ t[3] \in Int
  <2>1. 1 \in 1 .. Len(t) /\ 2 \in 1 .. Len(t) /\ 3 \in 1 .. Len(t)
    OBVIOUS
  <2> QED BY <2>1, TextType
<1>2. u \in Text /\ Len(u) = 4 /\ u[1] = a /\ u[2] = t[1] /\ u[3] = t[2] /\ u[4] = t[3]
  BY <1>1, Quadruple
<1> HIDE DEF u
<1>3. Len(u) = Len(t) + 1
  BY <1>2
<1>4. \A k \in 1 .. Len(t) : u[k + 1] = t[k]
  BY <1>2
<1>5. u = <<a>> \o t
  BY <1>2, <1>3, <1>4, OneAndMore
<1> QED BY <1>5 DEF u

Spells(b, n, t, w) ==
    /\ n = Needed(b) /\ Len(t) = n /\ ~TooShort(n, w)
    /\ \A k \in 1 .. n : Mark(t[k])
    /\ n = 1 => w = LeadBits(b) * 64 + (t[1] % 64)
    /\ n = 2 => w = (LeadBits(b) * 64 + (t[1] % 64)) * 64 + (t[2] % 64)
    /\ n = 3 => w = ((LeadBits(b) * 64 + (t[1] % 64)) * 64 + (t[2] % 64)) * 64 + (t[3] % 64)

\* A first byte and n continuation bytes, encoded again, are what was read.
LEMMA EncodedAgain ==
  ASSUME NEW b \in Byte, NEW n \in 1 .. 3, NEW t \in Text, NEW w, Spells(b, n, t, w)
  PROVE  Encode(w) = <<Lawful(b)>> \o t
<1>1. Lawful(b) \in Int /\ LeadBits(b) \in Nat
  BY FirstByte, SMT DEF Lawful, Byte
<1>2. CASE n = 1
  <2>1. Mark(t[1]) /\ Needed(b) = 1 /\ w = LeadBits(b) * 64 + (t[1] % 64) /\ Len(t) = 1
    BY <1>2, SMT DEF Spells
  <2>2. Encode(w) = <<Lawful(b), t[1]>>
    BY <2>1, EncodeTwo
  <2>3. <<Lawful(b), t[1]>> = <<Lawful(b)>> \o t
    BY <1>1, <2>1, OneUnit
  <2> QED BY <2>2, <2>3, Zenon
<1>3. CASE n = 2
  <2>1. /\ Mark(t[1]) /\ Mark(t[2]) /\ Needed(b) = 2 /\ Len(t) = 2
        /\ w = (LeadBits(b) * 64 + (t[1] % 64)) * 64 + (t[2] % 64)
    BY <1>3, SMT DEF Spells
  <2>2. w >= 2048
    <3>1. w \in Int
      BY <1>1, <2>1, MarkBits, SMT
    <3> QED BY <1>3, <3>1, SMT DEF TooShort, Spells
  <2>3. Encode(w) = <<Lawful(b), t[1], t[2]>>
    BY <2>1, <2>2, EncodeThree
  <2>4. <<Lawful(b), t[1], t[2]>> = <<Lawful(b)>> \o t
    BY <1>1, <2>1, TwoUnits
  <2> QED BY <2>3, <2>4, Zenon
<1>4. CASE n = 3
  <2>1. /\ Mark(t[1]) /\ Mark(t[2]) /\ Mark(t[3]) /\ Needed(b) = 3 /\ Len(t) = 3
        /\ w = ((LeadBits(b) * 64 + (t[1] % 64)) * 64 + (t[2] % 64)) * 64 + (t[3] % 64)
    BY <1>4, SMT DEF Spells
  <2>2. w >= 65536
    <3>1. w \in Int
      BY <1>1, <2>1, MarkBits, SMT
    <3> QED BY <1>4, <3>1, SMT DEF TooShort, Spells
  <2>3. Encode(w) = <<Lawful(b), t[1], t[2], t[3]>>
    BY <2>1, <2>2, EncodeFour, SMT
  <2>4. <<Lawful(b), t[1], t[2], t[3]>> = <<Lawful(b)>> \o t
    BY <1>1, <2>1, ThreeUnits
  <2> QED BY <2>3, <2>4, Zenon
<1> QED BY <1>2, <1>3, <1>4, SMT

\* What is decoded and not replaced is spelled by its bytes, but for Lawful.
LEMMA DecodeLawful ==
  ASSUME NEW bytes \in Seq(Byte), NEW i \in 1 .. Len(bytes),
         Decode(bytes, i).value # Replacement
  PROVE  Encode(Decode(bytes, i).value)
           = <<Lawful(bytes[i])>> \o SubSeq(bytes, i + 1, Decode(bytes, i).next - 1)
<1>1. bytes[i] \in Byte /\ i \in Nat /\ Len(bytes) \in Nat /\ bytes \in Text
  BY SMT DEF Text, Byte
<1> DEFINE b == bytes[i]
           goal(d) == Encode(d.value) = <<Lawful(b)>> \o SubSeq(bytes, i + 1, d.next - 1)
<1>2. ASSUME Plain(bytes, i) PROVE goal(Decode(bytes, i))
  <2>1. b \in Nat /\ b <= 127 /\ b < 248
    BY <1>1, <1>2, SMTT(20) DEF Plain, Byte
  <2>2. Encode(b) = <<b>> /\ Lawful(b) = b
    <3>1. Encode(b) = <<b>>
      BY <2>1, EncodeInOne, SMT
    <3>2. Lawful(b) = b
      BY <2>1, SMT DEF Lawful
    <3> QED BY <3>1, <3>2
  <2>3. SubSeq(bytes, i + 1, i + 1 - 1) = << >>
    BY <1>1, SMT
  <2>4. Decode(bytes, i).value = b /\ Decode(bytes, i).next = i + 1
    BY <1>2, SMT DEF Plain
  <2>5. <<b>> \o << >> = <<b>>
    OBVIOUS
  <2> HIDE DEF b
  <2>6. goal(Decode(bytes, i))
    <3>1. Encode(Decode(bytes, i).value) = <<b>>
      BY <2>2, <2>4, Zenon
    <3>2. SubSeq(bytes, i + 1, Decode(bytes, i).next - 1) = << >>
      BY <2>3, <2>4
    <3>3. <<Lawful(b)>> \o << >> = <<b>>
      BY <2>2, <2>5, Zenon
    <3> QED BY <3>1, <3>2, <3>3, Zenon
  <2> QED BY <2>6
<1>3. ~Replaced1(bytes, i)
  BY SMT DEF Replaced1
<1>4. ASSUME NEW n \in 1 .. 3, Legal(bytes, i, n) PROVE goal(Decode(bytes, i))
  <2> DEFINE value == Spelled(bytes, i, n)
             t == SubSeq(bytes, i + 1, i + n)
  <2>1. /\ b >= 128 /\ b \in Byte /\ n = Needed(b) /\ i + n <= Len(bytes)
        /\ ~TooShort(n, value)
        /\ Decode(bytes, i) = [value |-> value, next |-> i + n + 1]
    BY <1>1, <1>4 DEF Legal
  <2>2. \A k \in 1 .. n : Mark(bytes[i + k])
    BY <1>4 DEF Legal
  <2>3. Decode(bytes, i).value = value /\ Decode(bytes, i).next - 1 = i + n
    BY <1>1, <2>1, SMT
  <2>4. t \in Text /\ Len(t) = n /\ \A k \in 1 .. n : t[k] = bytes[i + k]
    BY <1>1, <2>1, Cut, SMT
  <2>5. /\ n = 1 => value = LeadBits(b) * 64 + (bytes[i + 1] % 64)
        /\ n = 2 => value = (LeadBits(b) * 64 + (bytes[i + 1] % 64)) * 64 + (bytes[i + 2] % 64)
        /\ n = 3 => value = ((LeadBits(b) * 64 + (bytes[i + 1] % 64)) * 64
                                + (bytes[i + 2] % 64)) * 64 + (bytes[i + 3] % 64)
    BY SMT DEF Spelled
  <2> HIDE DEF t, value, b
  <2>6. /\ n = 1 => t[1] = bytes[i + 1]
        /\ n = 2 => t[1] = bytes[i + 1] /\ t[2] = bytes[i + 2]
        /\ n = 3 => t[1] = bytes[i + 1] /\ t[2] = bytes[i + 2] /\ t[3] = bytes[i + 3]
    BY <2>4, SMT
  <2>7. /\ n = 1 => value = LeadBits(b) * 64 + (t[1] % 64)
        /\ n = 2 => value = (LeadBits(b) * 64 + (t[1] % 64)) * 64 + (t[2] % 64)
        /\ n = 3 => value = ((LeadBits(b) * 64 + (t[1] % 64)) * 64 + (t[2] % 64)) * 64
                              + (t[3] % 64)
    BY <2>5, <2>6, Zenon
  <2>8. \A k \in 1 .. n : Mark(t[k])
    BY <2>2, <2>4
  <2>9. Spells(b, n, t, value)
    BY <2>1, <2>4, <2>7, <2>8, Zenon DEF Spells
  <2>10. Encode(value) = <<Lawful(b)>> \o t
    BY <2>1, <2>4, <2>9, EncodedAgain
  <2> QED BY <2>3, <2>10, Zenon DEF t
<1> HIDE DEF goal
<1>5. goal(Decode(bytes, i))
  BY <1>2, <1>3, <1>4, DecodeOutcomes
<1> QED BY <1>5, Zenon DEF goal

-----------------------------------------------------------------------------
(* Sequences.                                                              *)

\* Induction over sequences that grow at the end.
LEMMA AppendInduction ==
  ASSUME NEW S, NEW G, << >> \in G, \A s \in Seq(S), e \in S : s \in G => Append(s, e) \in G
  PROVE  Seq(S) \subseteq G
<1> DEFINE N == {n \in Nat : \A s \in Seq(S) : Len(s) = n => s \in G}
<1>1. 0 \in N
  BY EmptySeq
<1>2. ASSUME NEW n \in Nat, n \in N PROVE n + 1 \in N
  <2>1. ASSUME NEW t \in Seq(S), Len(t) = n + 1 PROVE t \in G
    <3>1. t # << >>
      BY <2>1
    <3>2. PICK s \in Seq(S), e \in S : t = Append(s, e)
      BY <3>1, SequenceEmptyOrAppend
    <3>3. Len(s) \in Nat /\ Len(t) = Len(s) + 1
      BY <3>2
    <3>4. s \in G
      BY <1>2, <2>1, <3>3
    <3> QED BY <3>2, <3>4
  <2> QED BY <2>1
<1>3. Nat \subseteq N
  <2> HIDE DEF N
  <2> QED BY <1>1, <1>2, SetInduction
<1>4. \A s \in Seq(S) : Len(s) \in Nat
  BY LenProperties
<1> QED BY <1>3, <1>4

\* Induction over the length of sequences.
LEMMA LengthInduction ==
  ASSUME NEW S, NEW G,
         \A s \in Seq(S) : (\A t \in Seq(S) : Len(t) < Len(s) => t \in G) => s \in G
  PROVE  Seq(S) \subseteq G
<1> DEFINE N == {n \in Nat : \A s \in Seq(S) : Len(s) < n => s \in G}
<1>0. \A s \in Seq(S) : Len(s) \in Nat
  BY LenProperties
<1>1. 0 \in N
  BY <1>0
<1>2. ASSUME NEW n \in Nat, n \in N PROVE n + 1 \in N
  <2>1. ASSUME NEW t \in Seq(S), Len(t) < n + 1 PROVE t \in G
    <3>1. \A s \in Seq(S) : Len(s) < Len(t) => s \in G
      BY <1>0, <1>2, <2>1
    <3> QED BY <3>1
  <2> QED BY <2>1
<1>3. Nat \subseteq N
  <2> HIDE DEF N
  <2> QED BY <1>1, <1>2, SetInduction
<1>4. \A s \in Seq(S) : Len(s) + 1 \in N /\ Len(s) < Len(s) + 1
  BY <1>0, <1>3
<1> QED BY <1>4

\* What FlattenSeq computes, part by part.
FlattenFunction(seqs, g) ==
    /\ g \in [1 .. Len(seqs) -> Text]
    /\ \A i \in 1 .. Len(seqs) : g[i] = IF i = 1 THEN seqs[i] ELSE g[i - 1] \o seqs[i]

\* The recursion of FlattenSeq has a solution.
LEMMA FlattenExists ==
  ASSUME NEW seqs \in Seq(Text)
  PROVE  \E g : FlattenFunction(seqs, g)
<1> DEFINE n == Len(seqs)
           D == 1 .. n
           m == [i \in D |-> i]
           body(g, i) == IF i = 1 THEN seqs[i] ELSE g[i - 1] \o seqs[i]
           F == [i \in D |-> [g \in [D -> Text] |-> body(g, i)]]
<1>1. n \in Nat /\ \A i \in 1 .. n : seqs[i] \in Text
  OBVIOUS
<1> HIDE DEF n
<1>2. m \in [D -> Nat] /\ \A i \in D : m[i] < n + 1 /\ m[i] = i
  BY <1>1
<1>3. ASSUME NEW i \in D, NEW g \in [D -> Text] PROVE body(g, i) \in Text
  <2>1. CASE i = 1
    BY <1>1, <2>1
  <2>2. CASE i # 1
    <3>1. g[i - 1] \in Text /\ seqs[i] \in Text
      BY <1>1, <2>2
    <3>2. g[i - 1] \o seqs[i] \in Text
      BY <3>1, ConcatProperties DEF Text
    <3> QED BY <2>2, <3>2
  <2> QED BY <2>1, <2>2
<1>4. F \in [D -> [[D -> Text] -> Text]]
  BY <1>3
<1>5. ASSUME NEW i \in D, NEW g \in [D -> Text], NEW h \in [D -> Text],
             \A q \in D : m[q] < m[i] => g[q] = h[q]
      PROVE  F[i][g] = F[i][h]
  <2>1. i # 1 => i - 1 \in D /\ m[i - 1] < m[i]
    BY <1>1, <1>2
  <2>2. body(g, i) = body(h, i)
    BY <1>5, <2>1
  <2> QED BY <2>2
<1>6. Decreasing(D, Text, m, F)
  <2> HIDE DEF F, m
  <2> QED BY <1>5 DEF Decreasing
<1>7. Solvable(D, Text, F)
  <2> HIDE DEF F, m, D
  <2>1. << >> \in Text /\ n + 1 \in Nat
    BY <1>1 DEF Text
  <2> QED BY <1>2, <1>4, <1>6, <2>1, Recursion
<1>8. PICK f \in [D -> Text] : \A i \in D : f[i] = F[i][f]
  BY <1>7 DEF Solvable
<1> QED BY <1>8 DEF FlattenFunction, n

\* FlattenSeq is that solution.
LEMMA FlattenIs ==
  ASSUME NEW seqs \in Seq(Text)
  PROVE  /\ FlattenSeq(<< >>) = << >>
         /\ seqs # << >> => \E g : FlattenFunction(seqs, g) /\ FlattenSeq(seqs) = g[Len(seqs)]
<1>1. FlattenSeq(<< >>) = << >>
  BY EmptySeq DEF FlattenSeq
<1>2. ASSUME seqs # << >>
      PROVE  \E g : FlattenFunction(seqs, g) /\ FlattenSeq(seqs) = g[Len(seqs)]
  <2> DEFINE Eq(g) == g = [i \in 1 .. Len(seqs) |-> IF i = 1 THEN seqs[i] ELSE g[i - 1] \o seqs[i]]
             s == CHOOSE g : Eq(g)
  <2>1. Len(seqs) # 0
    BY <1>2
  <2>2. FlattenSeq(seqs) = s[Len(seqs)]
    BY <2>1 DEF FlattenSeq
  <2>3. PICK f : FlattenFunction(seqs, f)
    BY FlattenExists
  <2>4. Eq(f)
    BY <2>3 DEF FlattenFunction
  <2>5. Eq(s)
    BY <2>4
  <2> HIDE DEF s
  <2>6. \A i \in 1 .. Len(seqs) : s[i] = IF i = 1 THEN seqs[i] ELSE s[i - 1] \o seqs[i]
    BY <2>5
  <2>7. \A i \in 1 .. Len(seqs) : f[i] = IF i = 1 THEN seqs[i] ELSE f[i - 1] \o seqs[i]
    BY <2>3 DEF FlattenFunction
  <2> DEFINE N == {k \in Nat : k \in 1 .. Len(seqs) => s[k] = f[k]}
  <2>8. 0 \in N
    OBVIOUS
  <2>9. ASSUME NEW k \in Nat, k \in N PROVE k + 1 \in N
    BY <2>6, <2>7, <2>9
  <2>10. Nat \subseteq N
    <3> HIDE DEF N
    <3> QED BY <2>8, <2>9, SetInduction
  <2>11. s[Len(seqs)] = f[Len(seqs)]
    BY <2>1, <2>10
  <2> QED BY <2>2, <2>3, <2>11
<1> QED BY <1>1, <1>2

\* One more part at the end.
LEMMA FlattenAppend ==
  ASSUME NEW s \in Seq(Text), NEW e \in Text
  PROVE  FlattenSeq(s) \in Text /\ FlattenSeq(Append(s, e)) = FlattenSeq(s) \o e
<1> DEFINE t == Append(s, e)
<1>1. /\ t \in Seq(Text) /\ Len(t) = Len(s) + 1 /\ Len(s) \in Nat /\ t # << >>
      /\ \A i \in 1 .. Len(s) : t[i] = s[i]
      /\ t[Len(s) + 1] = e
  BY AppendProperties
<1> HIDE DEF t
<1>2. PICK g : FlattenFunction(t, g) /\ FlattenSeq(t) = g[Len(t)]
  BY <1>1, FlattenIs
<1>3. \A i \in 1 .. Len(s) + 1 : g[i] = IF i = 1 THEN t[i] ELSE g[i - 1] \o t[i]
  BY <1>1, <1>2 DEF FlattenFunction
<1>4. CASE s = << >>
  <2>1. FlattenSeq(s) = << >> /\ Len(s) = 0 /\ FlattenSeq(s) \in Text
    BY <1>4, FlattenIs, EmptySeq DEF Text
  <2>2. g[1] = e
    BY <1>1, <1>3, <2>1
  <2>3. << >> \o e = e
    BY ConcatEmptySeq DEF Text
  <2> QED BY <1>1, <1>2, <2>1, <2>2, <2>3 DEF t
<1>5. CASE s # << >>
  <2>1. PICK h : FlattenFunction(s, h) /\ FlattenSeq(s) = h[Len(s)]
    BY <1>5, FlattenIs
  <2>2. \A i \in 1 .. Len(s) : h[i] = IF i = 1 THEN s[i] ELSE h[i - 1] \o s[i]
    BY <2>1 DEF FlattenFunction
  <2> DEFINE N == {k \in Nat : k \in 1 .. Len(s) => g[k] = h[k]}
  <2>3. 0 \in N
    OBVIOUS
  <2>4. ASSUME NEW k \in Nat, k \in N PROVE k + 1 \in N
    BY <1>1, <1>3, <2>2, <2>4
  <2>5. Nat \subseteq N
    <3> HIDE DEF N
    <3> QED BY <2>3, <2>4, SetInduction
  <2>6. Len(s) \in 1 .. Len(s)
    BY <1>1, <1>5, EmptySeq
  <2>7. g[Len(s)] = h[Len(s)]
    BY <1>1, <2>5, <2>6
  <2>8. g[Len(s) + 1] = g[Len(s)] \o e
    <3> DEFINE n == Len(s)
    <3>1. n \in Nat /\ n \in 1 .. n
      BY <1>1, <2>6
    <3>2. g[n + 1] = IF n + 1 = 1 THEN t[n + 1] ELSE g[(n + 1) - 1] \o t[n + 1]
      <4> HIDE DEF n
      <4>1. n + 1 \in 1 .. n + 1
        BY <3>1
      <4> QED BY <1>3, <4>1 DEF n
    <3>3. t[n + 1] = e
      BY <1>1
    <3> HIDE DEF n
    <3>4. n + 1 # 1 /\ (n + 1) - 1 = n
      BY <3>1
    <3> QED BY <3>2, <3>3, <3>4, Zenon DEF n
  <2>9. FlattenSeq(s) \in Text
    BY <2>1, <2>6 DEF FlattenFunction
  <2> QED BY <1>1, <1>2, <2>1, <2>7, <2>8, <2>9 DEF t
<1> QED BY <1>4, <1>5

\* The parts of texts make a text.
LEMMA FlattenType == \A s \in Seq(Text) : FlattenSeq(s) \in Text
<1>1. << >> \in Text
  BY EmptySeq DEF Text
<1> QED BY <1>1, FlattenAppend

\* Concatenation is associative.
LEMMA ThreeParts ==
  ASSUME NEW a \in Seq(Int), NEW b \in Seq(Int), NEW c \in Seq(Int)
  PROVE  a \o (b \o c) = (a \o b) \o c
<1>1. (a \o b) \o c = a \o (b \o c)
  BY ConcatAssociative
<1> QED BY <1>1

\* The parts of two sequences, one after the other.
LEMMA FlattenConcat ==
  ASSUME NEW s \in Seq(Text), NEW t \in Seq(Text)
  PROVE  FlattenSeq(s \o t) = FlattenSeq(s) \o FlattenSeq(t)
<1> DEFINE G == {u \in Seq(Text) : FlattenSeq(s \o u) = FlattenSeq(s) \o FlattenSeq(u)}
<1>1. << >> \in G
  <2>1. s \o << >> = s /\ << >> \in Seq(Text) /\ FlattenSeq(<< >>) = << >>
    BY ConcatEmptySeq, EmptySeq, FlattenIs
  <2>2. FlattenSeq(s) \o << >> = FlattenSeq(s)
    BY FlattenType, ConcatEmptySeq DEF Text
  <2> QED BY <2>1, <2>2
<1>2. ASSUME NEW u \in Seq(Text), NEW e \in Text, u \in G PROVE Append(u, e) \in G
  <2>1. s \o Append(u, e) = Append(s \o u, e) /\ s \o u \in Seq(Text) /\ Append(u, e) \in Seq(Text)
    <3>1. Append(u, e) = u \o <<e>> /\ <<e>> \in Seq(Text) /\ s \o u \in Seq(Text)
      BY AppendIsConcat, ConcatProperties
    <3>2. Append(s \o u, e) = (s \o u) \o <<e>>
      BY <3>1, AppendIsConcat
    <3>3. s \o (u \o <<e>>) = (s \o u) \o <<e>>
      BY <3>1, ConcatAssociative
    <3>4. Append(u, e) \in Seq(Text)
      BY AppendProperties
    <3> QED BY <3>1, <3>2, <3>3, <3>4
  <2>2. FlattenSeq(Append(s \o u, e)) = FlattenSeq(s \o u) \o e
    BY <2>1, FlattenAppend
  <2>3. FlattenSeq(Append(u, e)) = FlattenSeq(u) \o e
    BY FlattenAppend
  <2>4. FlattenSeq(s \o u) = FlattenSeq(s) \o FlattenSeq(u)
    BY <1>2
  <2>5. (FlattenSeq(s) \o FlattenSeq(u)) \o e = FlattenSeq(s) \o (FlattenSeq(u) \o e)
    <3>1. FlattenSeq(s) \in Seq(Int) /\ FlattenSeq(u) \in Seq(Int)
      BY FlattenType DEF Text
    <3>2. e \in Seq(Int)
      BY DEF Text
    <3> QED BY <3>1, <3>2, ThreeParts, Zenon
  <2>6. FlattenSeq(s \o Append(u, e)) = FlattenSeq(s) \o FlattenSeq(Append(u, e))
    BY <2>1, <2>2, <2>3, <2>4, <2>5, Zenon
  <2> QED BY <2>1, <2>6
<1>3. Seq(Text) \subseteq G
  <2> HIDE DEF G
  <2> QED BY <1>1, <1>2, AppendInduction
<1> QED BY <1>3

\* A single part.
LEMMA FlattenOne ==
  ASSUME NEW e \in Text PROVE FlattenSeq(<<e>>) = e
<1>1. << >> \in Seq(Text) /\ Append(<< >>, e) = <<e>> /\ FlattenSeq(<< >>) = << >>
  <2>1. << >> \in Seq(Text)
    BY EmptySeq
  <2>2. FlattenSeq(<< >>) = << >>
    BY <2>1, FlattenIs
  <2>3. Append(<< >>, e) = << >> \o <<e>> /\ <<e>> \in Seq(Text)
    BY <2>1, AppendIsConcat
  <2>4. << >> \o <<e>> = <<e>>
    BY <2>3, ConcatEmptySeq
  <2> QED BY <2>1, <2>2, <2>3, <2>4
<1>2. FlattenSeq(Append(<< >>, e)) = FlattenSeq(<< >>) \o e
  BY <1>1, FlattenAppend
<1>3. << >> \o e = e
  BY ConcatEmptySeq DEF Text
<1> QED BY <1>1, <1>2, <1>3

\* What FlattenSeq computes of a sequence that starts with a part.
LEMMA FlattenFirst ==
  ASSUME NEW e \in Text, NEW s \in Seq(Text)
  PROVE  FlattenSeq(<<e>> \o s) = e \o FlattenSeq(s)
<1>1. <<e>> \in Seq(Text)
  OBVIOUS
<1>2. FlattenSeq(<<e>> \o s) = FlattenSeq(<<e>>) \o FlattenSeq(s)
  BY <1>1, FlattenConcat, Zenon
<1> QED BY <1>2, FlattenOne, Zenon

-----------------------------------------------------------------------------
(* Walks.                                                                  *)

\* Every step of a walk goes on, and not past the end.
Onward(values, next) ==
    /\ next \in [1 .. Len(values) -> Nat]
    /\ \A i \in 1 .. Len(values) : i < next[i] /\ next[i] <= Len(values) + 1

\* What Walk collects from each index.
WalkFunction(values, next, f) ==
    /\ f \in [1 .. Len(values) + 1 -> Text]
    /\ f[Len(values) + 1] = << >>
    /\ \A i \in 1 .. Len(values) : f[i] = <<values[i]>> \o f[next[i]]

\* The recursion of Walk has a solution.
LEMMA WalkExists ==
  ASSUME NEW values \in Text, NEW next, Onward(values, next)
  PROVE  \E f : WalkFunction(values, next, f)
<1> DEFINE n == Len(values)
           D == 1 .. n + 1
           m == [i \in D |-> n + 1 - i]
           body(g, i) == IF i > n THEN << >> ELSE <<values[i]>> \o g[next[i]]
           F == [i \in D |-> [g \in [D -> Text] |-> body(g, i)]]
<1>1. n \in Nat /\ (\A i \in 1 .. n : <<values[i]>> \in Text)
  BY DEF Text
<1>0. \A i \in 1 .. n : next[i] \in Nat /\ i < next[i] /\ next[i] <= n + 1
  BY DEF Onward
<1> HIDE DEF n
<1>2. m \in [D -> Nat] /\ \A i \in D : m[i] < n + 2 /\ m[i] = n + 1 - i
  BY <1>1
<1>3. ASSUME NEW i \in D, NEW g \in [D -> Text] PROVE body(g, i) \in Text
  <2>1. CASE i > n
    BY <2>1, EmptySeq DEF Text
  <2>2. CASE ~(i > n)
    <3>1. <<values[i]>> \in Text /\ g[next[i]] \in Text
      BY <1>0, <1>1, <2>2
    <3>2. <<values[i]>> \o g[next[i]] \in Text
      BY <3>1, ConcatProperties DEF Text
    <3> QED BY <2>2, <3>2
  <2> QED BY <2>1, <2>2
<1>4. F \in [D -> [[D -> Text] -> Text]]
  BY <1>3
<1>5. ASSUME NEW i \in D, NEW g \in [D -> Text], NEW h \in [D -> Text],
             \A q \in D : m[q] < m[i] => g[q] = h[q]
      PROVE  F[i][g] = F[i][h]
  <2>1. ~(i > n) => next[i] \in D /\ m[next[i]] < m[i]
    BY <1>0, <1>1, <1>2
  <2>2. body(g, i) = body(h, i)
    BY <1>5, <2>1
  <2> QED BY <2>2
<1>6. Decreasing(D, Text, m, F)
  <2> HIDE DEF F, m
  <2> QED BY <1>5 DEF Decreasing
<1>7. Solvable(D, Text, F)
  <2> HIDE DEF F, m, D
  <2>1. << >> \in Text /\ n + 2 \in Nat
    BY <1>1, EmptySeq DEF Text
  <2> QED BY <1>2, <1>4, <1>6, <2>1, Recursion
<1>8. PICK f \in [D -> Text] : \A i \in D : f[i] = F[i][f]
  BY <1>7 DEF Solvable
<1>9. \A i \in D : f[i] = body(f, i)
  BY <1>8
<1>10. f[n + 1] = << >> /\ \A i \in 1 .. n : f[i] = <<values[i]>> \o f[next[i]]
  <2>1. n + 1 \in D /\ n + 1 > n /\ \A i \in 1 .. n : i \in D /\ ~(i > n)
    BY <1>1
  <2> HIDE DEF D
  <2> QED BY <1>9, <2>1, Zenon
<1> QED BY <1>10 DEF WalkFunction, n

\* It has one solution.
LEMMA WalkUnique ==
  ASSUME NEW values \in Text, NEW next, Onward(values, next), NEW f, NEW g,
         WalkFunction(values, next, f), WalkFunction(values, next, g)
  PROVE  \A i \in 1 .. Len(values) + 1 : f[i] = g[i]
<1> DEFINE n == Len(values)
           N == {k \in Nat : \A i \in 1 .. n + 1 : n + 1 - i < k => f[i] = g[i]}
<1>1. n \in Nat /\ \A i \in 1 .. n : next[i] \in Nat /\ i < next[i] /\ next[i] <= n + 1
  BY DEF Onward
<1>2. /\ f[n + 1] = << >> /\ \A i \in 1 .. n : f[i] = <<values[i]>> \o f[next[i]]
      /\ g[n + 1] = << >> /\ \A i \in 1 .. n : g[i] = <<values[i]>> \o g[next[i]]
  BY DEF WalkFunction
<1> HIDE DEF n
<1>3. 0 \in N
  BY <1>1
<1>4. ASSUME NEW k \in Nat, k \in N PROVE k + 1 \in N
  <2>1. ASSUME NEW i \in 1 .. n + 1, n + 1 - i < k + 1 PROVE f[i] = g[i]
    <3>1. CASE i = n + 1
      BY <1>2, <3>1
    <3>2. CASE i # n + 1
      <4>1. i \in 1 .. n /\ next[i] \in 1 .. n + 1 /\ n + 1 - next[i] < k
        BY <1>1, <2>1, <3>2
      <4>2. f[next[i]] = g[next[i]]
        BY <1>4, <4>1
      <4> QED BY <1>2, <4>1, <4>2
    <3> QED BY <3>1, <3>2
  <2> QED BY <2>1
<1>5. Nat \subseteq N
  <2> HIDE DEF N
  <2> QED BY <1>3, <1>4, SetInduction
<1>6. ASSUME NEW i \in 1 .. n + 1 PROVE f[i] = g[i]
  <2>1. n + 1 \in Nat /\ n + 1 - i < n + 1
    BY <1>1
  <2>2. n + 1 \in N
    BY <1>5, <2>1, Zenon
  <2> QED BY <2>1, <2>2
<1> QED BY <1>6 DEF n

\* Walk takes the first value, and goes on from the next index.
LEMMA WalkIs ==
  ASSUME NEW values \in Text, NEW next, Onward(values, next)
  PROVE  \E f : WalkFunction(values, next, f) /\ Walk(values, next) = f[1]
<1> DEFINE Eq(g) == g = [i \in 1 .. Len(values) + 1 |->
                           IF i > Len(values) THEN << >> ELSE <<values[i]>> \o g[next[i]]]
           s == CHOOSE g : Eq(g)
<1>1. Walk(values, next) = s[1]
  BY DEF Walk
<1>2. PICK f : WalkFunction(values, next, f)
  BY WalkExists
<1>0. Len(values) \in Nat
  OBVIOUS
<1>3. f = [i \in 1 .. Len(values) + 1 |-> f[i]]
  BY <1>2 DEF WalkFunction
<1>4. \A i \in 1 .. Len(values) + 1 :
        f[i] = IF i > Len(values) THEN << >> ELSE <<values[i]>> \o f[next[i]]
  BY <1>0, <1>2 DEF WalkFunction
<1>5. Eq(f)
  BY <1>3, <1>4, Zenon
<1>6. Eq(s)
  BY <1>5
<1> HIDE DEF s
<1>7. \A i \in 1 .. Len(values) + 1 :
        s[i] = IF i > Len(values) THEN << >> ELSE <<values[i]>> \o s[next[i]]
  BY <1>6, Zenon
<1> DEFINE g == [i \in 1 .. Len(values) + 1 |-> s[i]]
           n == Len(values)
           N == {k \in Nat : \A i \in 1 .. n + 1 : n + 1 - i < k => s[i] = f[i]}
<1>8. n \in Nat /\ \A i \in 1 .. n : next[i] \in Nat /\ i < next[i] /\ next[i] <= n + 1
  BY DEF Onward
<1>9. \A i \in 1 .. n + 1 : s[i] = IF i > n THEN << >> ELSE <<values[i]>> \o s[next[i]]
  BY <1>7
<1>10. \A i \in 1 .. n + 1 : f[i] = IF i > n THEN << >> ELSE <<values[i]>> \o f[next[i]]
  BY <1>4
<1> HIDE DEF n
<1>11. 0 \in N
  BY <1>8
<1>12. ASSUME NEW k \in Nat, k \in N PROVE k + 1 \in N
  <2>1. ASSUME NEW i \in 1 .. n + 1, n + 1 - i < k + 1 PROVE s[i] = f[i]
    <3>1. CASE i > n
      BY <1>9, <1>10, <3>1
    <3>2. CASE ~(i > n)
      <4>1. next[i] \in 1 .. n + 1 /\ n + 1 - next[i] < k
        BY <1>8, <2>1, <3>2
      <4>2. s[next[i]] = f[next[i]]
        BY <1>12, <4>1
      <4> QED BY <1>9, <1>10, <3>2, <4>2
    <3> QED BY <3>1, <3>2
  <2> QED BY <2>1
<1>13. Nat \subseteq N
  <2> HIDE DEF N
  <2> QED BY <1>11, <1>12, SetInduction
<1>14. s[1] = f[1]
  <2>1. n + 1 \in N /\ 1 \in 1 .. n + 1 /\ n + 1 - 1 < n + 1
    BY <1>8, <1>13
  <2> QED BY <2>1
<1> QED BY <1>1, <1>2, <1>14

\* Nothing is met on the way through nothing.
LEMMA WalkNone == ASSUME NEW next PROVE Walk(<< >>, next) = << >>
<1> DEFINE Eq(g) == g = [i \in 1 .. Len(<< >>) + 1 |->
                           IF i > Len(<< >>) THEN << >> ELSE <<(<< >>)[i]>> \o g[next[i]]]
           s == CHOOSE g : Eq(g)
           f == [i \in 1 .. 1 |-> << >>]
<1>1. Walk(<< >>, next) = s[1]
  BY DEF Walk
<1>2. Len(<< >>) = 0
  BY EmptySeq
<1>3. Eq(f)
  BY <1>2
<1>4. Eq(s)
  BY <1>3
<1> HIDE DEF s
<1> QED BY <1>1, <1>2, <1>4

\* The walk from the second stop is a walk over the rest.
LEMMA WalkRest ==
  ASSUME NEW values \in Text, values # << >>, NEW next, Onward(values, next),
         NEW rest \in Text, NEW after, Onward(rest, after),
         Len(rest) + next[1] = Len(values) + 1,
         \A j \in 1 .. Len(rest) : /\ rest[j] = values[next[1] - 1 + j]
                                   /\ after[j] + next[1] - 1 = next[next[1] - 1 + j]
  PROVE  Walk(values, next) = <<values[1]>> \o Walk(rest, after)
<1>1. PICK f : WalkFunction(values, next, f) /\ Walk(values, next) = f[1]
  BY WalkIs
<1>2. PICK h : WalkFunction(rest, after, h) /\ Walk(rest, after) = h[1]
  BY WalkIs
<1> DEFINE n == Len(values)
           r == Len(rest)
           p == next[1] - 1
           g == [j \in 1 .. r + 1 |-> f[p + j]]
<1>3. n \in Nat /\ r \in Nat /\ n # 0
  BY EmptySeq, SMTT(20)
<1>4. p \in Nat /\ r + p = n /\ next[1] = p + 1
  BY <1>3, SMTT(20) DEF Onward
<1>5. f \in [1 .. n + 1 -> Text] /\ f[n + 1] = << >> /\ \A i \in 1 .. n : f[i] = <<values[i]>> \o f[next[i]]
  BY <1>1 DEF WalkFunction
<1>6. \A j \in 1 .. r : rest[j] = values[p + j] /\ after[j] + p = next[p + j]
  BY <1>4, SMTT(20)
<1>7. \A j \in 1 .. r : after[j] \in 1 .. r + 1
  BY <1>3, SMTT(20) DEF Onward
<1>8. f[1] = <<values[1]>> \o f[next[1]]
  BY <1>3, <1>5
<1> HIDE DEF n, r, p
<1>9. \A j \in 1 .. r + 1 : g[j] = f[p + j] /\ f[p + j] \in Text
  BY <1>3, <1>4, <1>5
<1>10. g \in [1 .. r + 1 -> Text]
  BY <1>9
<1>11. g[r + 1] = << >>
  BY <1>3, <1>4, <1>5, <1>9
<1>12. ASSUME NEW j \in 1 .. r PROVE g[j] = <<rest[j]>> \o g[after[j]]
  <2>1. p + j \in 1 .. n /\ j \in 1 .. r + 1
    BY <1>3, <1>4
  <2>2. f[p + j] = <<values[p + j]>> \o f[next[p + j]]
    BY <1>5, <2>1
  <2>3. next[p + j] = p + after[j] /\ after[j] \in 1 .. r + 1 /\ rest[j] = values[p + j]
    BY <1>4, <1>6, <1>7, <1>3
  <2>4. g[after[j]] = f[p + after[j]] /\ g[j] = f[p + j]
    BY <1>9, <2>1, <2>3
  <2> QED BY <2>2, <2>3, <2>4, Zenon
<1>13. WalkFunction(rest, after, g)
  <2> HIDE DEF g
  <2> QED BY <1>10, <1>11, <1>12 DEF WalkFunction, r
<1>14. g[1] = h[1]
  <2> HIDE DEF g
  <2>1. 1 \in 1 .. Len(rest) + 1
    OBVIOUS
  <2> QED BY <1>2, <1>13, <2>1, WalkUnique
<1>15. g[1] = f[next[1]]
  BY <1>3, <1>4, <1>9
<1> QED BY <1>1, <1>2, <1>8, <1>14, <1>15

-----------------------------------------------------------------------------
(* Whole strings.                                                          *)

\* The rest of a text without its first p units.
Suffix(rest, text, p) ==
    /\ rest \in Text /\ text \in Text /\ p \in Nat /\ Len(rest) + p = Len(text)
    /\ \A j \in 1 .. Len(rest) : rest[j] = text[p + j]

\* What follows a beginning is a suffix.
LEMMA ConcatSuffix ==
  ASSUME NEW a \in Text, NEW b \in Text
  PROVE  /\ Suffix(b, a \o b, Len(a))
         /\ \A k \in 1 .. Len(a) : (a \o b)[k] = a[k]
<1>1. /\ a \o b \in Text /\ Len(a \o b) = Len(a) + Len(b)
      /\ \A i \in 1 .. Len(a) + Len(b) : (a \o b)[i] = IF i <= Len(a) THEN a[i] ELSE b[i - Len(a)]
  BY ConcatProperties DEF Text
<1>2. Len(a) \in Nat /\ Len(b) \in Nat
  BY TextType
<1> DEFINE c == a \o b
<1> HIDE DEF c
<1>3. ASSUME NEW j \in 1 .. Len(b) PROVE b[j] = c[Len(a) + j]
  <2>1. Len(a) + j \in 1 .. Len(a) + Len(b) /\ ~(Len(a) + j <= Len(a)) /\ (Len(a) + j) - Len(a) = j
    BY <1>2
  <2> QED BY <1>1, <2>1 DEF c
<1>4. ASSUME NEW k \in 1 .. Len(a) PROVE c[k] = a[k]
  <2>1. k \in 1 .. Len(a) + Len(b) /\ k <= Len(a)
    BY <1>2
  <2> QED BY <1>1, <2>1 DEF c
<1>5. c \in Text /\ Len(b) + Len(a) = Len(c)
  BY <1>1, <1>2 DEF c
<1>6. Suffix(b, c, Len(a))
  BY <1>2, <1>3, <1>5 DEF Suffix
<1> QED BY <1>4, <1>6 DEF c

\* Every text has a suffix at each of its indexes.
LEMMA SuffixExists ==
  ASSUME NEW text \in Text, NEW p \in Nat, p <= Len(text)
  PROVE  Suffix(SubSeq(text, p + 1, Len(text)), text, p)
<1>1. Len(text) \in Nat
  BY TextType
<1> DEFINE u == SubSeq(text, p + 1, Len(text))
<1>2. u \in Text /\ Len(u) = Len(text) - p /\ \A i \in 1 .. Len(text) - p : u[i] = text[p + i]
  BY <1>1, Cut
<1> HIDE DEF u
<1>3. Len(u) + p = Len(text)
  BY <1>1, <1>2
<1>4. Suffix(u, text, p)
  BY <1>2, <1>3 DEF Suffix
<1> QED BY <1>4 DEF u

\* Decoding in a suffix is decoding in the whole.
LEMMA DecodeOnward ==
  ASSUME NEW bytes \in Text, NEW i \in 1 .. Len(bytes)
  PROVE  /\ Decode(bytes, i).value \in Int /\ Decode(bytes, i).next \in Nat
         /\ i < Decode(bytes, i).next /\ Decode(bytes, i).next <= Len(bytes) + 1
<1>1. bytes[i] \in Int /\ i \in Nat /\ Len(bytes) \in Nat
  BY TextType, SMT
<1> DEFINE n == Needed(bytes[i])
           value == Spelled(bytes, i, n)
           legal == /\ n > 0 /\ i + n <= Len(bytes)
                    /\ \A k \in 1 .. n : bytes[i + k] \in 128 .. 191
                    /\ ~TooShort(n, value) /\ IsScalar(value)
<1>2. n \in Nat
  BY <1>1, SMT DEF Needed
<1>3. Decode(bytes, i) = IF bytes[i] < 128 THEN [value |-> bytes[i], next |-> i + 1]
                         ELSE IF legal THEN [value |-> value, next |-> i + n + 1]
                                       ELSE [value |-> Replacement, next |-> i + 1]
  BY Zenon DEF Decode
<1>4. legal => value \in Int /\ i + n <= Len(bytes)
  <2>1. IsScalar(value) => value \in Int
    BY SMT DEF IsScalar
  <2> QED BY <2>1
<1>5. Replacement \in Int
  BY SMT DEF Replacement
<1> HIDE DEF n, value, legal
<1> QED BY <1>1, <1>2, <1>3, <1>4, <1>5, SMT

\* Decoding looks only forward.
LEMMA DecodeRest ==
  ASSUME NEW rest, NEW bytes, NEW p, Suffix(rest, bytes, p), NEW i \in 1 .. Len(rest)
  PROVE  /\ Decode(rest, i).value = Decode(bytes, p + i).value
         /\ Decode(rest, i).next + p = Decode(bytes, p + i).next
<1>1. /\ p \in Nat /\ i \in Nat /\ Len(rest) \in Nat /\ Len(rest) + p = Len(bytes)
      /\ \A j \in 1 .. Len(rest) : rest[j] = bytes[p + j]
      /\ rest[i] \in Int /\ rest[i] = bytes[p + i]
  BY TextType, SMT DEF Suffix
<1> DEFINE n == Needed(rest[i])
           q == p + i
           legal(b, j) == /\ n > 0 /\ j + n <= Len(b)
                          /\ \A k \in 1 .. n : b[j + k] \in 128 .. 191
                          /\ ~TooShort(n, Spelled(b, j, n)) /\ IsScalar(Spelled(b, j, n))
<1>2. n = 0 \/ n = 1 \/ n = 2 \/ n = 3
  BY SMT DEF Needed
<1>3. Decode(rest, i) = IF rest[i] < 128 THEN [value |-> rest[i], next |-> i + 1]
                        ELSE IF legal(rest, i) THEN [value |-> Spelled(rest, i, n), next |-> i + n + 1]
                                               ELSE [value |-> Replacement, next |-> i + 1]
  BY ZenonT(30) DEF Decode
<1>4. Decode(bytes, q) = IF rest[i] < 128 THEN [value |-> rest[i], next |-> q + 1]
                         ELSE IF legal(bytes, q) THEN [value |-> Spelled(bytes, q, n), next |-> q + n + 1]
                                                 ELSE [value |-> Replacement, next |-> q + 1]
  BY <1>1, ZenonT(30) DEF Decode
<1>5. CASE i + n <= Len(rest)
  <2>1. \A k \in 1 .. n : i + k \in 1 .. Len(rest) /\ p + (i + k) = q + k
    BY <1>1, <1>2, <1>5, SMT
  <2>2. \A k \in 1 .. n : rest[i + k] = bytes[q + k]
    BY <1>1, <2>1
  <2>3. n = 0 \/ Spelled(rest, i, n) = Spelled(bytes, q, n)
    <3>1. CASE n = 1
      <4>1. rest[i + 1] = bytes[q + 1] /\ rest[i] = bytes[q]
        BY <1>1, <2>2, <3>1, SMT
      <4> QED BY <3>1, <4>1, SMT DEF Spelled
    <3>2. CASE n = 2
      <4>1. rest[i + 1] = bytes[q + 1] /\ rest[i + 2] = bytes[q + 2] /\ rest[i] = bytes[q]
        BY <1>1, <2>2, <3>2, SMT
      <4> QED BY <3>2, <4>1, SMT DEF Spelled
    <3>3. CASE n = 3
      <4>1. rest[i + 1] = bytes[q + 1] /\ rest[i + 2] = bytes[q + 2] /\ rest[i + 3] = bytes[q + 3] /\ rest[i] = bytes[q]
        BY <1>1, <2>2, <3>3, SMT
      <4> QED BY <3>3, <4>1, SMT DEF Spelled
    <3> QED BY <1>2, <3>1, <3>2, <3>3
  <2>4. i + n <= Len(rest) <=> q + n <= Len(bytes)
    BY <1>1, <1>2, SMT
  <2>5. legal(rest, i) <=> legal(bytes, q)
    <3>1. n > 0 => n # 0
      BY <1>2, SMT
    <3> HIDE DEF n, q
    <3> QED BY <2>2, <2>3, <2>4, <3>1
  <2>6. q + n + 1 = i + n + 1 + p /\ q + 1 = i + 1 + p
    BY <1>1, <1>2, SMT
  <2>7. legal(rest, i) => n # 0
    BY <1>2, SMT
  <2> HIDE DEF legal, n, q
  <2> QED BY <1>3, <1>4, <2>3, <2>5, <2>6, <2>7 DEF q
<1>6. CASE ~(i + n <= Len(rest))
  <2>1. ~legal(rest, i) /\ ~legal(bytes, q)
    <3>1. ~(q + n <= Len(bytes))
      BY <1>1, <1>2, <1>6, SMT
    <3> QED BY <1>6, <3>1
  <2>2. q + 1 = i + 1 + p
    BY <1>1, SMT
  <2> HIDE DEF legal, n, q
  <2> QED BY <1>3, <1>4, <2>1, <2>2 DEF q
<1> QED BY <1>5, <1>6

\* Decoding as a walk.
ValuesAt(bytes) == [i \in DOMAIN bytes |-> Decode(bytes, i).value]
NextsAt(bytes) == [i \in DOMAIN bytes |-> Decode(bytes, i).next]

\* The arguments of the walk through bytes.
LEMMA DecodedWalk ==
  ASSUME NEW bytes \in Text
  PROVE  /\ Decoded(bytes) = Walk(ValuesAt(bytes), NextsAt(bytes))
         /\ ValuesAt(bytes) \in Text /\ Len(ValuesAt(bytes)) = Len(bytes)
         /\ Onward(ValuesAt(bytes), NextsAt(bytes))
         /\ \A i \in 1 .. Len(bytes) : /\ ValuesAt(bytes)[i] = Decode(bytes, i).value
                                       /\ NextsAt(bytes)[i] = Decode(bytes, i).next
<1>1. Decoded(bytes) = Walk(ValuesAt(bytes), NextsAt(bytes))
  BY Zenon DEF Decoded, ValuesAt, NextsAt
<1>2. Len(bytes) \in Nat /\ DOMAIN bytes = 1 .. Len(bytes)
  BY TextType
<1>3. \A i \in 1 .. Len(bytes) : /\ ValuesAt(bytes)[i] = Decode(bytes, i).value
                                 /\ NextsAt(bytes)[i] = Decode(bytes, i).next
  BY <1>2 DEF ValuesAt, NextsAt
<1>4. ValuesAt(bytes) \in [1 .. Len(bytes) -> Int] /\ NextsAt(bytes) \in [1 .. Len(bytes) -> Nat]
  BY <1>2, DecodeOnward DEF ValuesAt, NextsAt
<1>5. ValuesAt(bytes) \in Text /\ Len(ValuesAt(bytes)) = Len(bytes)
  <2> DEFINE n == Len(bytes)
             v == ValuesAt(bytes)
  <2>1. n \in Nat /\ v \in [1 .. n -> Int]
    BY <1>2, <1>4
  <2> HIDE DEF n, v
  <2>2. v \in Seq(Int) /\ Len(v) = n
    BY <2>1
  <2> QED BY <2>2 DEF n, v, Text
<1>6. Onward(ValuesAt(bytes), NextsAt(bytes))
  BY <1>2, <1>3, <1>4, <1>5, DecodeOnward DEF Onward
<1> QED BY <1>1, <1>3, <1>5, <1>6

\* The first code point of bytes, and then those of the rest.
LEMMA DecodedRest ==
  ASSUME NEW bytes \in Text, bytes # << >>, NEW rest, Suffix(rest, bytes, Decode(bytes, 1).next - 1)
  PROVE  Decoded(bytes) = <<Decode(bytes, 1).value>> \o Decoded(rest)
<1> DEFINE p == Decode(bytes, 1).next - 1
<1>1. Len(bytes) \in Nat /\ Len(bytes) # 0
  BY EmptySeq, TextType
<1>2. 1 \in 1 .. Len(bytes)
  BY <1>1
<1>3. NextsAt(bytes)[1] = p + 1 /\ ValuesAt(bytes)[1] = Decode(bytes, 1).value
  BY <1>2, DecodedWalk, DecodeOnward
<1>4. rest \in Text /\ Len(rest) \in Nat /\ Len(rest) + p = Len(bytes) /\ p \in Nat
  BY TextType DEF Suffix
<1>5. /\ Len(ValuesAt(rest)) + NextsAt(bytes)[1] = Len(ValuesAt(bytes)) + 1
      /\ ValuesAt(bytes) # << >>
  BY <1>1, <1>3, <1>4, DecodedWalk, EmptySeq
<1>6. ASSUME NEW j \in 1 .. Len(rest)
      PROVE  /\ ValuesAt(rest)[j] = ValuesAt(bytes)[p + j]
             /\ NextsAt(rest)[j] + p = NextsAt(bytes)[p + j]
  <2>1. p + j \in 1 .. Len(bytes)
    BY <1>1, <1>4
  <2>2. /\ Decode(rest, j).value = Decode(bytes, p + j).value
        /\ Decode(rest, j).next + p = Decode(bytes, p + j).next
    BY DecodeRest
  <2> QED BY <1>4, <2>1, <2>2, DecodedWalk
<1>7. ASSUME NEW j \in 1 .. Len(ValuesAt(rest))
      PROVE  /\ ValuesAt(rest)[j] = ValuesAt(bytes)[NextsAt(bytes)[1] - 1 + j]
             /\ NextsAt(rest)[j] + NextsAt(bytes)[1] - 1 = NextsAt(bytes)[NextsAt(bytes)[1] - 1 + j]
  <2>1. j \in 1 .. Len(rest) /\ NextsAt(rest)[j] \in Nat
    BY <1>4, DecodedWalk, DecodeOnward, SMTT(20)
  <2>2. NextsAt(bytes)[1] - 1 + j = p + j /\ NextsAt(rest)[j] + NextsAt(bytes)[1] - 1 = NextsAt(rest)[j] + p
    BY <1>3, <1>4, <2>1, SMTT(20)
  <2> QED BY <1>6, <2>1, <2>2
<1>8. Walk(ValuesAt(bytes), NextsAt(bytes)) = <<ValuesAt(bytes)[1]>> \o Walk(ValuesAt(rest), NextsAt(rest))
  BY <1>4, <1>5, <1>7, DecodedWalk, WalkRest
<1> QED BY <1>3, <1>4, <1>8, DecodedWalk

\* No bytes have no code points.
LEMMA DecodedNone == Decoded(<< >>) = << >>
<1>1. << >> \in Text
  BY EmptySeq DEF Text
<1>2. ValuesAt(<< >>) = << >>
  BY <1>1, DecodedWalk, EmptySeq DEF Text
<1> QED BY <1>1, <1>2, DecodedWalk, WalkNone

\* A code point in front is decoded first.
LEMMA DecodedFirst ==
  ASSUME NEW cp \in Nat, IsScalar(cp), NEW bytes \in Text
  PROVE  Encode(cp) \o bytes \in Text /\ Decoded(Encode(cp) \o bytes) = <<cp>> \o Decoded(bytes)
<1> DEFINE e == Encode(cp)
           n == EncodedLength(cp)
           b == e \o bytes
<1>1. e \in Text /\ Len(e) = n /\ n \in 1 .. 4
  BY EncodeIs, SMT
<1>2. Suffix(bytes, b, n) /\ \A k \in 1 .. n : b[k] = e[k]
  <2> HIDE DEF e, n
  <2> QED BY <1>1, ConcatSuffix
<1>3. b \in Text /\ Len(bytes) + n = Len(b) /\ Len(bytes) \in Nat
  BY <1>2, TextType DEF Suffix
<1>4. 1 \in 1 .. Len(b) /\ 1 + n - 1 <= Len(b)
  BY <1>1, <1>3, SMT
<1>5. \A k \in 1 .. n : b[1 + k - 1] = e[k]
  <2>1. \A k \in 1 .. n : 1 + k - 1 = k
    BY <1>1, SMT
  <2> HIDE DEF b, n, e
  <2> QED BY <1>2, <2>1
<1> HIDE DEF b
<1>6. Decode(b, 1) = [value |-> cp, next |-> 1 + n]
  BY <1>3, <1>4, <1>5, DecodeEncoded
<1> HIDE DEF n, e
<1>7. Decode(b, 1).value = cp /\ Decode(b, 1).next - 1 = n
  BY <1>1, <1>6
<1>8. b # << >>
  BY <1>1, <1>3, EmptySeq
<1>9. Decoded(b) = <<Decode(b, 1).value>> \o Decoded(bytes)
  BY <1>2, <1>3, <1>7, <1>8, DecodedRest
<1> QED BY <1>3, <1>7, <1>9 DEF b, e

\* A sequence over a set is one over any larger set.
LEMMA SeqOfMore ==
  ASSUME NEW S, NEW T, S \subseteq T PROVE Seq(S) \subseteq Seq(T)
<1>1. ASSUME NEW s \in Seq(S) PROVE s \in Seq(T)
  <2> DEFINE n == Len(s)
  <2>1. n \in Nat /\ s \in [1 .. n -> S]
    OBVIOUS
  <2> HIDE DEF n
  <2>2. s \in [1 .. n -> T]
    BY <2>1
  <2> QED BY <2>1, <2>2
<1> QED BY <1>1

\* A walk meets only the values it was given.
LEMMA WalkType ==
  ASSUME NEW values \in Text, NEW next, Onward(values, next), NEW S,
         \A i \in 1 .. Len(values) : values[i] \in S
  PROVE  Walk(values, next) \in Seq(S)
<1>1. PICK f : WalkFunction(values, next, f) /\ Walk(values, next) = f[1]
  BY WalkIs
<1> DEFINE n == Len(values)
           N == {k \in Nat : \A i \in 1 .. n + 1 : n + 1 - i < k => f[i] \in Seq(S)}
<1>2. n \in Nat /\ \A i \in 1 .. n : next[i] \in Nat /\ i < next[i] /\ next[i] <= n + 1
  BY DEF Onward
<1>3. f[n + 1] = << >> /\ \A i \in 1 .. n : f[i] = <<values[i]>> \o f[next[i]]
  BY <1>1 DEF WalkFunction
<1>4. \A i \in 1 .. n : <<values[i]>> \in Seq(S)
  OBVIOUS
<1> HIDE DEF n
<1>5. 0 \in N
  BY <1>2
<1>6. ASSUME NEW k \in Nat, k \in N PROVE k + 1 \in N
  <2>1. ASSUME NEW i \in 1 .. n + 1, n + 1 - i < k + 1 PROVE f[i] \in Seq(S)
    <3>1. CASE i = n + 1
      BY <1>3, <3>1, EmptySeq
    <3>2. CASE i # n + 1
      <4>1. i \in 1 .. n /\ next[i] \in 1 .. n + 1 /\ n + 1 - next[i] < k
        BY <1>2, <2>1, <3>2
      <4>2. f[next[i]] \in Seq(S)
        BY <1>6, <4>1
      <4>3. <<values[i]>> \o f[next[i]] \in Seq(S)
        BY <1>4, <4>1, <4>2, ConcatProperties
      <4> QED BY <1>3, <4>1, <4>3
    <3> QED BY <3>1, <3>2
  <2> QED BY <2>1
<1>7. Nat \subseteq N
  <2> HIDE DEF N
  <2> QED BY <1>5, <1>6, SetInduction
<1>8. f[1] \in Seq(S)
  <2>1. n + 1 \in Nat /\ 1 \in 1 .. n + 1 /\ n + 1 - 1 < n + 1
    BY <1>2
  <2>2. n + 1 \in N
    BY <1>7, <2>1, Zenon
  <2> QED BY <2>1, <2>2
<1> QED BY <1>1, <1>8

Scalar == {cp \in Nat : IsScalar(cp)}

\* Any bytes decode to scalar values.
LEMMA DecodedType ==
  ASSUME NEW bytes \in Seq(Byte) PROVE Decoded(bytes) \in Seq(Scalar)
<1>1. bytes \in Text
  BY SMT DEF Byte, Text
<1>2. \A i \in 1 .. Len(bytes) : Decode(bytes, i).value \in Scalar
  <2>1. ASSUME NEW i \in 1 .. Len(bytes) PROVE Decode(bytes, i).value \in Scalar
    BY DecodeTypes, SMT DEF Scalar, IsScalar
  <2> QED BY <2>1
<1>3. \A i \in 1 .. Len(ValuesAt(bytes)) : ValuesAt(bytes)[i] \in Scalar
  BY <1>1, <1>2, DecodedWalk
<1> QED BY <1>1, <1>3, DecodedWalk, WalkType

\* Induction over sequences that grow at the front.
LEMMA FirstInduction ==
  ASSUME NEW S, NEW G, << >> \in G, \A e \in S, s \in Seq(S) : s \in G => <<e>> \o s \in G
  PROVE  Seq(S) \subseteq G
<1>1. ASSUME NEW s \in Seq(S), \A t \in Seq(S) : Len(t) < Len(s) => t \in G PROVE s \in G
  <2>1. CASE s = << >>
    BY <2>1
  <2>2. CASE s # << >>
    <3>1. Len(s) \in Nat /\ Len(s) # 0
      BY <2>2, EmptySeq, LenProperties
    <3>2. /\ Head(s) \in S /\ Tail(s) \in Seq(S) /\ Len(Tail(s)) < Len(s)
          /\ s = <<Head(s)>> \o Tail(s)
      BY <2>2, <3>1, HeadTailProperties
    <3> QED BY <1>1, <3>2
  <2> QED BY <2>1, <2>2
<1> QED BY <1>1, LengthInduction

\* What follows from flattening the images of a sequence.
Images(s, F) == [k \in DOMAIN s |-> F[s[k]]]

\* The written forms of a sequence are as many as its elements.
LEMMA ImagesType ==
  ASSUME NEW s \in Seq(Nat), NEW F \in [Nat -> Text]
  PROVE  /\ Images(s, F) \in Seq(Text) /\ Len(Images(s, F)) = Len(s)
         /\ \A k \in 1 .. Len(s) : Images(s, F)[k] = F[s[k]]
<1> DEFINE n == Len(s)
           v == Images(s, F)
<1>1. n \in Nat /\ DOMAIN s = 1 .. n /\ \A k \in 1 .. n : s[k] \in Nat
  OBVIOUS
<1>2. v \in [1 .. n -> Text] /\ \A k \in 1 .. n : v[k] = F[s[k]]
  BY <1>1 DEF Images
<1> HIDE DEF n, v
<1>3. v \in Seq(Text) /\ Len(v) = n
  BY <1>1, <1>2
<1> QED BY <1>2, <1>3 DEF n, v

\* The written forms of two sequences, one after the other.
LEMMA ImagesConcat ==
  ASSUME NEW s \in Seq(Nat), NEW t \in Seq(Nat), NEW F \in [Nat -> Text]
  PROVE  Images(s \o t, F) = Images(s, F) \o Images(t, F)
<1> DEFINE u == s \o t
           a == Images(s, F)
           b == Images(t, F)
           c == a \o b
           d == Images(u, F)
<1>1. /\ u \in Seq(Nat) /\ Len(u) = Len(s) + Len(t)
      /\ \A k \in 1 .. Len(s) + Len(t) : u[k] = IF k <= Len(s) THEN s[k] ELSE t[k - Len(s)]
  BY ConcatProperties
<1>2. /\ a \in Seq(Text) /\ Len(a) = Len(s) /\ \A k \in 1 .. Len(s) : a[k] = F[s[k]]
      /\ b \in Seq(Text) /\ Len(b) = Len(t) /\ \A k \in 1 .. Len(t) : b[k] = F[t[k]]
  BY ImagesType
<1>3. d \in Seq(Text) /\ Len(d) = Len(u) /\ \A k \in 1 .. Len(u) : d[k] = F[u[k]]
  BY <1>1, ImagesType
<1> HIDE DEF a, b, u, d
<1>4. /\ c \in Seq(Text) /\ Len(c) = Len(a) + Len(b)
      /\ \A k \in 1 .. Len(a) + Len(b) : c[k] = IF k <= Len(a) THEN a[k] ELSE b[k - Len(a)]
  <2>1. a \in Seq(Text) /\ b \in Seq(Text)
    BY <1>2
  <2> QED BY <2>1, ConcatProperties
<1>0. Len(s) \in Nat /\ Len(t) \in Nat
  BY LenProperties
<1> HIDE DEF c
<1>5. \A k \in 1 .. Len(u) : d[k] = c[k]
  <2>1. ASSUME NEW k \in 1 .. Len(s) + Len(t) PROVE d[k] = c[k]
    <3>1. CASE k <= Len(s)
      <4>1. k \in 1 .. Len(s)
        BY <3>1
      <4>2. u[k] = s[k] /\ c[k] = a[k] /\ d[k] = F[u[k]] /\ a[k] = F[s[k]]
        BY <1>1, <1>2, <1>3, <1>4, <3>1, <4>1
      <4> QED BY <4>2
    <3>2. CASE ~(k <= Len(s))
      <4>1. k - Len(s) \in 1 .. Len(t)
        BY <1>0, <3>2
      <4>2. u[k] = t[k - Len(s)] /\ c[k] = b[k - Len(s)]
        BY <1>1, <1>2, <1>4, <3>2
      <4>3. d[k] = F[u[k]] /\ b[k - Len(s)] = F[t[k - Len(s)]]
        BY <1>1, <1>2, <1>3, <4>1
      <4> QED BY <4>2, <4>3
    <3> QED BY <3>1, <3>2
  <2> QED BY <1>1, <2>1
<1>6. d = c
  BY <1>1, <1>2, <1>3, <1>4, <1>5, SeqEqual
<1> QED BY <1>6 DEF a, b, c, d, u

\* Writing a sequence is writing its parts one after the other.
LEMMA FlattenImages ==
  ASSUME NEW F \in [Nat -> Text]
  PROVE  /\ \A s \in Seq(Nat) : FlattenSeq(Images(s, F)) \in Text
         /\ FlattenSeq(Images(<< >>, F)) = << >>
         /\ \A s, t \in Seq(Nat) :
              FlattenSeq(Images(s \o t, F)) = FlattenSeq(Images(s, F)) \o FlattenSeq(Images(t, F))
         /\ \A c \in Nat : FlattenSeq(Images(<<c>>, F)) = F[c]
<1>1. \A s \in Seq(Nat) : FlattenSeq(Images(s, F)) \in Text
  BY ImagesType, FlattenType
<1>2. FlattenSeq(Images(<< >>, F)) = << >>
  <2>1. Images(<< >>, F) = << >>
    <3>1. << >> \in Seq(Nat) /\ Len(<< >>) = 0
      BY EmptySeq
    <3>2. Images(<< >>, F) \in Seq(Text) /\ Len(Images(<< >>, F)) = 0
      BY <3>1, ImagesType
    <3> QED BY <3>2, EmptySeq
  <2>2. << >> \in Seq(Text)
    BY EmptySeq
  <2> QED BY <2>1, <2>2, FlattenIs
<1>3. ASSUME NEW s \in Seq(Nat), NEW t \in Seq(Nat)
      PROVE  FlattenSeq(Images(s \o t, F)) = FlattenSeq(Images(s, F)) \o FlattenSeq(Images(t, F))
  <2>1. Images(s, F) \in Seq(Text) /\ Images(t, F) \in Seq(Text)
    BY ImagesType
  <2>2. Images(s \o t, F) = Images(s, F) \o Images(t, F)
    BY ImagesConcat
  <2> QED BY <2>1, <2>2, FlattenConcat
<1>4. ASSUME NEW c \in Nat PROVE FlattenSeq(Images(<<c>>, F)) = F[c]
  <2>1. Images(<<c>>, F) = <<F[c]>>
    <3>1. <<c>> \in Seq(Nat) /\ Len(<<c>>) = 1 /\ <<c>>[1] = c
      OBVIOUS
    <3> DEFINE v == Images(<<c>>, F)
    <3>2. /\ v \in Seq(Text) /\ Len(v) = Len(<<c>>)
          /\ \A k \in 1 .. Len(<<c>>) : v[k] = F[<<c>>[k]]
      BY <3>1, ImagesType
    <3> HIDE DEF v
    <3>3. v = <<F[c]>>
      <4>1. 1 \in 1 .. Len(<<c>>)
        BY <3>1
      <4>2. Len(v) = 1 /\ v[1] = F[c]
        BY <3>1, <3>2, <4>1
      <4> QED BY <3>2, <4>2
    <3> QED BY <3>3 DEF v
  <2>2. F[c] \in Text
    OBVIOUS
  <2> QED BY <2>1, <2>2, FlattenOne
<1> QED BY <1>1, <1>2, <1>3, <1>4

\* Encoding distributes over concatenation.
LEMMA EncodedIs ==
  /\ \A s \in Seq(Nat) : Encoded(s) \in Text
  /\ Encoded(<< >>) = << >>
  /\ \A s, t \in Seq(Nat) : Encoded(s \o t) = Encoded(s) \o Encoded(t)
  /\ \A c \in Nat : Encoded(<<c>>) = Encode(c)
<1> DEFINE F == [c \in Nat |-> Encode(c)]
<1>1. F \in [Nat -> Text] /\ \A c \in Nat : F[c] = Encode(c)
  BY EncodeIs
<1> HIDE DEF F
<1>2. ASSUME NEW s \in Seq(Nat) PROVE Encoded(s) = FlattenSeq(Images(s, F))
  <2>1. \A k \in DOMAIN s : s[k] \in Nat
    OBVIOUS
  <2>2. [k \in DOMAIN s |-> Encode(s[k])] = [k \in DOMAIN s |-> F[s[k]]]
    BY <1>1, <2>1
  <2> QED BY <2>2, Zenon DEF Encoded, Images
<1>3. << >> \in Seq(Nat) /\ (\A c \in Nat : <<c>> \in Seq(Nat)) /\ \A s, t \in Seq(Nat) : s \o t \in Seq(Nat)
  <2>1. \A c \in Nat : <<c>> \in Seq(Nat)
    OBVIOUS
  <2> QED BY <2>1, EmptySeq, ConcatProperties
<1>4. /\ \A s \in Seq(Nat) : FlattenSeq(Images(s, F)) \in Text
      /\ FlattenSeq(Images(<< >>, F)) = << >>
      /\ \A s, t \in Seq(Nat) :
           FlattenSeq(Images(s \o t, F)) = FlattenSeq(Images(s, F)) \o FlattenSeq(Images(t, F))
      /\ \A c \in Nat : FlattenSeq(Images(<<c>>, F)) = F[c]
  BY <1>1, FlattenImages
<1>5. \A s \in Seq(Nat) : Encoded(s) \in Text
  BY <1>2, <1>4
<1>6. Encoded(<< >>) = << >>
  BY <1>2, <1>3, <1>4, Zenon
<1>7. \A s, t \in Seq(Nat) : Encoded(s \o t) = Encoded(s) \o Encoded(t)
  <2> SUFFICES ASSUME NEW s \in Seq(Nat), NEW t \in Seq(Nat)
               PROVE  Encoded(s \o t) = Encoded(s) \o Encoded(t)
    OBVIOUS
  <2>1. s \o t \in Seq(Nat)
    BY <1>3, Zenon
  <2> QED BY <1>2, <1>4, <2>1, Zenon
<1>8. \A c \in Nat : Encoded(<<c>>) = Encode(c)
  BY <1>1, <1>2, <1>3, <1>4, Zenon
<1> QED BY <1>5, <1>6, <1>7, <1>8, Zenon

\* The units of a code point.
LEMMA UnitsIs ==
  ASSUME NEW cp \in Nat
  PROVE  /\ Units(cp) \in Text
         /\ \/ cp <= 65535 /\ Units(cp) = <<cp>>
            \/ /\ 65535 < cp
               /\ Units(cp) = <<55296 + ((cp - 65536) \div 1024), 56320 + ((cp - 65536) % 1024)>>
<1>1. CASE cp <= 65535
  BY <1>1, SMT DEF Units, Text
<1>2. CASE 65535 < cp
  <2> DEFINE h == 55296 + ((cp - 65536) \div 1024)
             l == 56320 + ((cp - 65536) % 1024)
  <2>1. h \in Int /\ l \in Int /\ ~(cp <= 65535)
    BY <1>2, SMT
  <2>2. Units(cp) = <<h, l>>
    BY <2>1, SMT DEF Units
  <2> HIDE DEF h, l
  <2>3. <<h, l>> \in Text
    BY <2>1, Pair
  <2>4. Units(cp) \in Text
    BY <2>2, <2>3
  <2> QED BY <1>2, <2>2, <2>4, SMT DEF h, l
<1> QED BY <1>1, <1>2, SMT

\* Writing units distributes over concatenation.
LEMMA AllUnitsIs ==
  /\ \A s \in Seq(Nat) : AllUnits(s) \in Text
  /\ AllUnits(<< >>) = << >>
  /\ \A s, t \in Seq(Nat) : AllUnits(s \o t) = AllUnits(s) \o AllUnits(t)
  /\ \A c \in Nat : AllUnits(<<c>>) = Units(c)
<1> DEFINE F == [c \in Nat |-> Units(c)]
<1>1. F \in [Nat -> Text] /\ \A c \in Nat : F[c] = Units(c)
  <2>1. \A c \in Nat : Units(c) \in Text
    BY UnitsIs, SMT
  <2> QED BY <2>1
<1> HIDE DEF F
<1>2. ASSUME NEW s \in Seq(Nat) PROVE AllUnits(s) = FlattenSeq(Images(s, F))
  <2>1. \A k \in DOMAIN s : s[k] \in Nat
    OBVIOUS
  <2>2. [k \in DOMAIN s |-> Units(s[k])] = [k \in DOMAIN s |-> F[s[k]]]
    BY <1>1, <2>1
  <2> QED BY <2>2, Zenon DEF AllUnits, Images
<1>3. << >> \in Seq(Nat) /\ (\A c \in Nat : <<c>> \in Seq(Nat)) /\ \A s, t \in Seq(Nat) : s \o t \in Seq(Nat)
  <2>1. \A c \in Nat : <<c>> \in Seq(Nat)
    OBVIOUS
  <2> QED BY <2>1, EmptySeq, ConcatProperties
<1>4. /\ \A s \in Seq(Nat) : FlattenSeq(Images(s, F)) \in Text
      /\ FlattenSeq(Images(<< >>, F)) = << >>
      /\ \A s, t \in Seq(Nat) :
           FlattenSeq(Images(s \o t, F)) = FlattenSeq(Images(s, F)) \o FlattenSeq(Images(t, F))
      /\ \A c \in Nat : FlattenSeq(Images(<<c>>, F)) = F[c]
  BY <1>1, FlattenImages
<1>5. \A s \in Seq(Nat) : AllUnits(s) \in Text
  BY <1>2, <1>4
<1>6. AllUnits(<< >>) = << >>
  BY <1>2, <1>3, <1>4, Zenon
<1>7. \A s, t \in Seq(Nat) : AllUnits(s \o t) = AllUnits(s) \o AllUnits(t)
  <2> SUFFICES ASSUME NEW s \in Seq(Nat), NEW t \in Seq(Nat)
               PROVE  AllUnits(s \o t) = AllUnits(s) \o AllUnits(t)
    OBVIOUS
  <2>1. s \o t \in Seq(Nat)
    BY <1>3, Zenon
  <2> QED BY <1>2, <1>4, <2>1, Zenon
<1>8. \A c \in Nat : AllUnits(<<c>>) = Units(c)
  BY <1>1, <1>2, <1>3, <1>4, Zenon
<1> QED BY <1>5, <1>6, <1>7, <1>8, Zenon

\* Encoded scalar values decode to themselves, whatever follows.
LEMMA DecodedPrefix ==
  ASSUME NEW s \in Seq(Scalar), NEW bytes \in Text
  PROVE  Decoded(Encoded(s) \o bytes) = s \o Decoded(bytes)
<1> DEFINE G == {t \in Seq(Scalar) : Decoded(Encoded(t) \o bytes) = t \o Decoded(bytes)}
<1>0. /\ \A t \in Seq(Scalar) : t \in Seq(Nat)
      /\ \A cp \in Scalar : cp \in Nat /\ IsScalar(cp) /\ <<cp>> \in Seq(Scalar) /\ <<cp>> \in Seq(Nat)
  <2>1. Scalar \subseteq Nat
    BY DEF Scalar
  <2>2. \A t \in Seq(Scalar) : t \in Seq(Nat)
    BY <2>1, SeqOfMore, Zenon
  <2>3. \A cp \in Scalar : cp \in Nat /\ IsScalar(cp)
    BY DEF Scalar
  <2>4. \A cp \in Scalar : <<cp>> \in Seq(Scalar)
    OBVIOUS
  <2> QED BY <2>2, <2>3, <2>4
<1>1. Decoded(bytes) \in Text
  <2>1. \A i \in 1 .. Len(ValuesAt(bytes)) : ValuesAt(bytes)[i] \in Int
    BY DecodedWalk, TextType
  <2> QED BY <2>1, DecodedWalk, WalkType DEF Text
<1>2. << >> \in G
  <2>1. << >> \o bytes = bytes /\ << >> \o Decoded(bytes) = Decoded(bytes) /\ << >> \in Seq(Scalar)
    BY <1>1, ConcatEmptySeq, EmptySeq DEF Text
  <2> QED BY <2>1, EncodedIs
<1>3. ASSUME NEW cp \in Scalar, NEW t \in Seq(Scalar), t \in G PROVE <<cp>> \o t \in G
  <2>1. /\ cp \in Nat /\ IsScalar(cp) /\ <<cp>> \in Seq(Scalar) /\ t \in Seq(Nat) /\ <<cp>> \in Seq(Nat)
        /\ <<cp>> \o t \in Seq(Scalar)
    BY <1>0, ConcatProperties
  <2>2. Encoded(<<cp>> \o t) = Encode(cp) \o Encoded(t)
    BY <2>1, EncodedIs
  <2>3. Encode(cp) \in Seq(Int) /\ Encoded(t) \in Seq(Int) /\ bytes \in Seq(Int)
    BY <2>1, EncodedIs, EncodeIs DEF Text
  <2>4. (Encode(cp) \o Encoded(t)) \o bytes = Encode(cp) \o (Encoded(t) \o bytes)
    <3> DEFINE e == Encode(cp)
               f == Encoded(t)
    <3>1. e \in Seq(Int) /\ f \in Seq(Int) /\ bytes \in Seq(Int)
      BY <2>3
    <3> HIDE DEF e, f
    <3>2. (e \o f) \o bytes = e \o (f \o bytes)
      BY <3>1, ThreeParts, Zenon
    <3> QED BY <3>2 DEF e, f
  <2>5. Encoded(t) \o bytes \in Text
    BY <2>3, ConcatProperties DEF Text
  <2>6. Decoded(Encode(cp) \o (Encoded(t) \o bytes)) = <<cp>> \o Decoded(Encoded(t) \o bytes)
    BY <2>1, <2>5, DecodedFirst
  <2>7. <<cp>> \in Seq(Int) /\ t \in Seq(Int) /\ Decoded(bytes) \in Seq(Int)
    BY <1>1, <2>1 DEF Text
  <2>8. <<cp>> \o (t \o Decoded(bytes)) = (<<cp>> \o t) \o Decoded(bytes)
    BY <2>7, ThreeParts, Zenon
  <2>9. Decoded(Encoded(t) \o bytes) = t \o Decoded(bytes)
    BY <1>3
  <2> QED BY <2>1, <2>2, <2>4, <2>6, <2>8, <2>9, Zenon
<1>4. Seq(Scalar) \subseteq G
  <2> HIDE DEF G
  <2> QED BY <1>2, <1>3, FirstInduction
<1> QED BY <1>4

\* Scalar values survive the way to bytes and back.
LEMMA DecodedAgain ==
  ASSUME NEW s \in Seq(Scalar) PROVE Decoded(Encoded(s)) = s
<1>1. s \in Seq(Nat) /\ << >> \in Text
  <2>1. Scalar \subseteq Nat
    BY DEF Scalar
  <2>2. s \in Seq(Nat)
    BY <2>1, SeqOfMore, Zenon
  <2> QED BY <2>2, EmptySeq DEF Text
<1>2. Encoded(s) \o << >> = Encoded(s) /\ s \o << >> = s
  BY <1>1, EncodedIs, ConcatEmptySeq DEF Text
<1> QED BY <1>1, <1>2, DecodedPrefix, DecodedNone

-----------------------------------------------------------------------------
(* Texts of units.                                                         *)

\* No unit is half of a pair on both sides.
LEMMA HighNotLow == \A c : c \in High => c \notin Low
<1>1. ASSUME NEW c, c \in High PROVE c \in Int
  BY <1>1, SMT DEF High
<1> QED BY <1>1, HighIs, LowIs, SMT

\* A pair is two units, the first high and the second low.
LEMMA PairedIs ==
  ASSUME NEW text \in Text, NEW i \in 1 .. Len(text), Paired(text, i)
  PROVE  i + 1 \in 1 .. Len(text) /\ text[i] \in High /\ text[i + 1] \in Low
<1>1. i < Len(text) /\ text[i] \in High /\ text[i + 1] \in Low
  BY Zenon DEF Paired
<1>2. Len(text) \in Nat
  BY TextType
<1> QED BY <1>1, <1>2

\* The three cases of a unit.
Joined2(h, l) == 65536 + (h - 55296) * 1024 + (l - 56320)

\* What the encoders see at a unit.
LEMMA SeenIs ==
  ASSUME NEW text \in Text, NEW i \in 1 .. Len(text)
  PROVE  \/ /\ Paired(text, i) /\ Seen(text, i) = Joined2(text[i], text[i + 1])
            /\ After(text, i) = i + 2
         \/ /\ ~Paired(text, i) /\ After(text, i) = i + 1 /\ Seen(text, i) = Replacement
            /\ (text[i] \in High /\ i < Len(text)) \/ text[i] \in Low
         \/ /\ ~Paired(text, i) /\ After(text, i) = i + 1 /\ Seen(text, i) = text[i]
            /\ text[i] \in High => i = Len(text)
            /\ text[i] \notin Low
<1>1. i \in Nat /\ Len(text) \in Nat /\ i <= Len(text) /\ text[i] \in Int
  BY TextType
<1> DEFINE P == Paired(text, i)
           R == (text[i] \in High /\ i < Len(text)) \/ text[i] \in Low
<1>2. Seen(text, i) = IF P THEN Joined2(text[i], text[i + 1]) ELSE IF R THEN Replacement ELSE text[i]
  BY SMT DEF Seen, Joined2
<1>3. After(text, i) = IF P THEN i + 2 ELSE i + 1
  BY Zenon DEF After
<1>4. ~R => (text[i] \in High => i = Len(text)) /\ text[i] \notin Low
  BY <1>1
<1>5. R => (text[i] \in High /\ i < Len(text)) \/ text[i] \in Low
  OBVIOUS
<1> HIDE DEF P, R
<1>6. \/ P /\ Seen(text, i) = Joined2(text[i], text[i + 1]) /\ After(text, i) = i + 2
      \/ /\ ~P /\ After(text, i) = i + 1 /\ Seen(text, i) = Replacement
         /\ (text[i] \in High /\ i < Len(text)) \/ text[i] \in Low
      \/ /\ ~P /\ After(text, i) = i + 1 /\ Seen(text, i) = text[i]
         /\ text[i] \in High => i = Len(text)
         /\ text[i] \notin Low
  BY <1>2, <1>3, <1>4, <1>5, Zenon
<1> QED BY <1>6, Zenon DEF P

\* Seeing in a suffix is seeing in the whole.
LEMMA SeenOnward ==
  ASSUME NEW text \in Text, NEW i \in 1 .. Len(text)
  PROVE  /\ Seen(text, i) \in Int /\ After(text, i) \in Nat
         /\ i < After(text, i) /\ After(text, i) <= Len(text) + 1
<1>1. i \in Nat /\ Len(text) \in Nat /\ i <= Len(text) /\ text[i] \in Int
  BY TextType
<1>2. CASE Paired(text, i)
  <2>1. i + 1 \in 1 .. Len(text)
    BY <1>2, PairedIs
  <2>2. text[i + 1] \in Int
    BY <2>1, TextType
  <2>3. Seen(text, i) = Joined2(text[i], text[i + 1]) /\ After(text, i) = i + 2
    BY <1>2, SeenIs, Zenon
  <2>4. \A h, l \in Int : Joined2(h, l) \in Int
    BY SMT DEF Joined2
  <2>5. Seen(text, i) \in Int
    BY <1>1, <2>2, <2>3, <2>4, Zenon
  <2>6. After(text, i) \in Nat /\ i < After(text, i) /\ After(text, i) <= Len(text) + 1
    BY <1>1, <2>1, <2>3
  <2> QED BY <2>5, <2>6
<1>3. CASE ~Paired(text, i)
  <2>1. After(text, i) = i + 1 /\ (Seen(text, i) = Replacement \/ Seen(text, i) = text[i])
    BY <1>3, SeenIs, Zenon
  <2> QED BY <1>1, <2>1, SMT DEF Replacement
<1> QED BY <1>2, <1>3

\* Reading code points looks only forward.
LEMMA SeenRest ==
  ASSUME NEW rest, NEW text, NEW p, Suffix(rest, text, p), NEW i \in 1 .. Len(rest)
  PROVE  /\ Paired(rest, i) <=> Paired(text, p + i)
         /\ Seen(rest, i) = Seen(text, p + i)
         /\ After(rest, i) + p = After(text, p + i)
         /\ rest[i] = text[p + i]
<1>1. /\ p \in Nat /\ i \in Nat /\ Len(rest) \in Nat /\ Len(rest) + p = Len(text)
      /\ \A j \in 1 .. Len(rest) : rest[j] = text[p + j]
      /\ rest[i] = text[p + i]
  BY TextType, SMT DEF Suffix
<1> DEFINE q == p + i
<1>2. i < Len(rest) <=> q < Len(text)
  BY <1>1, SMT
<1>3. i < Len(rest) => rest[i + 1] = text[q + 1]
  <2> SUFFICES ASSUME i < Len(rest) PROVE rest[i + 1] = text[q + 1]
    OBVIOUS
  <2>1. i + 1 \in 1 .. Len(rest) /\ p + (i + 1) = q + 1
    BY <1>1, SMT
  <2>2. rest[i + 1] = text[p + (i + 1)]
    BY <1>1, <2>1, Zenon
  <2> QED BY <2>1, <2>2, Zenon
<1>4. rest[i] = text[q]
  BY <1>1
<1>5. i + 1 + p = q + 1 /\ i + 2 + p = q + 2 /\ q \in Nat
  BY <1>1, SMT
<1> HIDE DEF q
<1>6. Paired(rest, i) <=> Paired(text, q)
  BY <1>2, <1>3, <1>4, Zenon DEF Paired
<1>7. Seen(rest, i) = Seen(text, q)
  <2>1. CASE Paired(rest, i)
    <3>1. i < Len(rest) /\ rest[i + 1] = text[q + 1]
      BY <1>3, <2>1, Zenon DEF Paired
    <3>2. Seen(rest, i) = Joined2(rest[i], rest[i + 1]) /\ Seen(text, q) = Joined2(text[q], text[q + 1])
      BY <1>6, <2>1, SMT DEF Seen, Joined2
    <3> QED BY <1>4, <3>1, <3>2, Zenon
  <2>2. CASE ~Paired(rest, i)
    BY <1>2, <1>4, <1>6, <2>2, SMT DEF Seen
  <2> QED BY <2>1, <2>2
<1>8. After(rest, i) + p = After(text, q)
  BY <1>5, <1>6, SMT DEF After
<1> QED BY <1>4, <1>6, <1>7, <1>8 DEF q

\* Reading code points as a walk.
SeenAt(text) == [i \in DOMAIN text |-> Seen(text, i)]
AfterAt(text) == [i \in DOMAIN text |-> After(text, i)]

\* The arguments of the walk through units.
LEMMA CodePointsWalk ==
  ASSUME NEW text \in Text
  PROVE  /\ CodePoints(text) = Walk(SeenAt(text), AfterAt(text))
         /\ SeenAt(text) \in Text /\ Len(SeenAt(text)) = Len(text)
         /\ Onward(SeenAt(text), AfterAt(text))
         /\ \A i \in 1 .. Len(text) : /\ SeenAt(text)[i] = Seen(text, i)
                                      /\ AfterAt(text)[i] = After(text, i)
<1>1. CodePoints(text) = Walk(SeenAt(text), AfterAt(text))
  BY Zenon DEF CodePoints, SeenAt, AfterAt
<1>2. Len(text) \in Nat /\ DOMAIN text = 1 .. Len(text)
  BY TextType
<1>3. \A i \in 1 .. Len(text) : SeenAt(text)[i] = Seen(text, i) /\ AfterAt(text)[i] = After(text, i)
  BY <1>2 DEF SeenAt, AfterAt
<1>4. SeenAt(text) \in [1 .. Len(text) -> Int] /\ AfterAt(text) \in [1 .. Len(text) -> Nat]
  BY <1>2, SeenOnward DEF SeenAt, AfterAt
<1>5. SeenAt(text) \in Text /\ Len(SeenAt(text)) = Len(text)
  <2> DEFINE n == Len(text)
             v == SeenAt(text)
  <2>1. n \in Nat /\ v \in [1 .. n -> Int]
    BY <1>2, <1>4
  <2> HIDE DEF n, v
  <2>2. v \in Seq(Int) /\ Len(v) = n
    BY <2>1
  <2> QED BY <2>2 DEF n, v, Text
<1>6. Onward(SeenAt(text), AfterAt(text))
  BY <1>2, <1>3, <1>4, <1>5, SeenOnward DEF Onward
<1> QED BY <1>1, <1>3, <1>5, <1>6

\* The first code point of a text, and then those of the rest.
LEMMA CodePointsRest ==
  ASSUME NEW text \in Text, text # << >>, NEW rest, Suffix(rest, text, After(text, 1) - 1)
  PROVE  CodePoints(text) = <<Seen(text, 1)>> \o CodePoints(rest)
<1> DEFINE p == After(text, 1) - 1
<1>1. Len(text) \in Nat /\ Len(text) # 0
  BY EmptySeq, TextType
<1>2. 1 \in 1 .. Len(text)
  BY <1>1
<1>3. AfterAt(text)[1] = p + 1 /\ SeenAt(text)[1] = Seen(text, 1)
  <2>1. After(text, 1) \in Nat
    BY <1>2, SeenOnward
  <2>2. After(text, 1) = p + 1
    BY <2>1
  <2>3. AfterAt(text)[1] = After(text, 1) /\ SeenAt(text)[1] = Seen(text, 1)
    BY <1>2, CodePointsWalk
  <2> QED BY <2>2, <2>3
<1>4. rest \in Text /\ Len(rest) \in Nat /\ Len(rest) + p = Len(text) /\ p \in Nat
  BY TextType DEF Suffix
<1>5. /\ Len(SeenAt(rest)) + AfterAt(text)[1] = Len(SeenAt(text)) + 1
      /\ SeenAt(text) # << >>
  BY <1>1, <1>3, <1>4, CodePointsWalk, EmptySeq
<1>6. ASSUME NEW j \in 1 .. Len(rest)
      PROVE  /\ SeenAt(rest)[j] = SeenAt(text)[p + j]
             /\ AfterAt(rest)[j] + p = AfterAt(text)[p + j]
  <2>1. p + j \in 1 .. Len(text)
    BY <1>1, <1>4
  <2>2. Seen(rest, j) = Seen(text, p + j) /\ After(rest, j) + p = After(text, p + j)
    BY SeenRest
  <2> QED BY <1>4, <2>1, <2>2, CodePointsWalk
<1>7. ASSUME NEW j \in 1 .. Len(SeenAt(rest))
      PROVE  /\ SeenAt(rest)[j] = SeenAt(text)[AfterAt(text)[1] - 1 + j]
             /\ AfterAt(rest)[j] + AfterAt(text)[1] - 1 = AfterAt(text)[AfterAt(text)[1] - 1 + j]
  <2>1. j \in 1 .. Len(rest) /\ AfterAt(rest)[j] \in Nat
    BY <1>4, CodePointsWalk, SeenOnward
  <2>2. AfterAt(text)[1] - 1 + j = p + j /\ AfterAt(rest)[j] + AfterAt(text)[1] - 1 = AfterAt(rest)[j] + p
    BY <1>3, <1>4, <2>1
  <2> QED BY <1>6, <2>1, <2>2
<1>8. Walk(SeenAt(text), AfterAt(text)) = <<SeenAt(text)[1]>> \o Walk(SeenAt(rest), AfterAt(rest))
  BY <1>4, <1>5, <1>7, CodePointsWalk, WalkRest
<1> QED BY <1>3, <1>4, <1>8, CodePointsWalk

\* No units have no code points.
LEMMA CodePointsNone == CodePoints(<< >>) = << >>
<1>1. << >> \in Text
  BY EmptySeq DEF Text
<1>2. SeenAt(<< >>) = << >>
  BY <1>1, CodePointsWalk, EmptySeq DEF Text
<1> QED BY <1>1, <1>2, CodePointsWalk, WalkNone

\* The rest of the units after the first code point.
Onwards(text, rest, p) ==
    text \in Text /\ text # << >> /\ Suffix(rest, text, p) /\ p = After(text, 1) - 1

\* A surrogate is alone in the rest as it is in the text.
LEMMA AloneRest ==
  ASSUME NEW text, NEW rest, NEW p, Onwards(text, rest, p)
  PROVE  /\ \A i \in 1 .. Len(rest) : Alone(rest, i) <=> Alone(text, p + i)
         /\ \/ p = 1 /\ ~Paired(text, 1) /\ (Alone(text, 1) <=> text[1] \in High \/ text[1] \in Low)
            \/ p = 2 /\ Paired(text, 1) /\ ~Alone(text, 1) /\ ~Alone(text, 2)
<1>0. text \in Text /\ text # << >> /\ Suffix(rest, text, p) /\ p = After(text, 1) - 1
  BY DEF Onwards
<1>1. /\ Len(text) \in Nat /\ Len(text) # 0 /\ p \in Nat /\ Len(rest) \in Nat
      /\ Len(rest) + p = Len(text) /\ rest \in Text
  BY <1>0, EmptySeq, TextType DEF Suffix
<1>2. 1 \in 1 .. Len(text)
  BY <1>1
<1>3. \/ p = 1 /\ ~Paired(text, 1)
      \/ p = 2 /\ Paired(text, 1)
  <2>1. \/ Paired(text, 1) /\ After(text, 1) = 1 + 2
        \/ ~Paired(text, 1) /\ After(text, 1) = 1 + 1
    BY <1>0, <1>2, SeenIs, Zenon
  <2> QED BY <1>0, <2>1
<1>4. p = 2 => 2 \in 1 .. Len(text) /\ text[2] \in Low /\ text[1] \in High
  <2> SUFFICES ASSUME p = 2 PROVE 2 \in 1 .. Len(text) /\ text[2] \in Low /\ text[1] \in High
    OBVIOUS
  <2>1. Paired(text, 1)
    BY <1>3
  <2>2. 1 + 1 \in 1 .. Len(text) /\ text[1] \in High /\ text[1 + 1] \in Low
    BY <1>0, <1>2, <2>1, PairedIs
  <2> QED BY <2>2
<1>5. \/ p = 1 /\ ~Paired(text, 1) /\ (Alone(text, 1) <=> text[1] \in High \/ text[1] \in Low)
      \/ p = 2 /\ Paired(text, 1) /\ ~Alone(text, 1) /\ ~Alone(text, 2)
  <2>0. ~(1 > 1)
    OBVIOUS
  <2>1. CASE p = 1
    <3>1. ~Paired(text, 1)
      BY <1>3, <2>1
    <3>2. Alone(text, 1) <=> text[1] \in High \/ text[1] \in Low
      BY <2>0, <3>1, Zenon DEF Alone
    <3> QED BY <2>1, <3>1, <3>2, Zenon
  <2>2. CASE p = 2
    <3>1. Paired(text, 1)
      BY <1>3, <2>2
    <3>2. text[1] \notin Low /\ text[2] \notin High
      BY <1>4, <2>2, HighNotLow, Zenon
    <3>3. ~Alone(text, 1)
      BY <3>1, <3>2, Zenon DEF Alone
    <3>4. 2 > 1 /\ Paired(text, 2 - 1)
      BY <3>1
    <3>5. ~Alone(text, 2)
      BY <3>2, <3>4, Zenon DEF Alone
    <3> QED BY <2>2, <3>1, <3>3, <3>5, Zenon
  <2> QED BY <1>3, <2>1, <2>2
<1>6. ~Paired(text, p)
  <2>1. CASE p = 1
    BY <1>3, <2>1
  <2>2. CASE p = 2
    <3>1. text[2] \notin High
      BY <1>4, <2>2, HighNotLow, Zenon
    <3>2. ~Paired(text, 2)
      BY <3>1, Zenon DEF Paired
    <3> QED BY <2>2, <3>2
  <2> QED BY <1>3, <2>1, <2>2
<1>7. ASSUME NEW i \in 1 .. Len(rest) PROVE Alone(rest, i) <=> Alone(text, p + i)
  <2>1. (Paired(rest, i) <=> Paired(text, p + i)) /\ rest[i] = text[p + i]
    BY <1>0, SeenRest
  <2>2. i > 1 => (Paired(rest, i - 1) <=> Paired(text, p + (i - 1)))
    <3>1. i > 1 => i - 1 \in 1 .. Len(rest)
      BY <1>1
    <3> QED BY <1>0, <3>1, SeenRest
  <2>3. (p + i) - 1 = p + (i - 1) /\ p + i > 1 /\ (i > 1 \/ p + (i - 1) = p)
    BY <1>1, <1>3
  <2>4. (i > 1 /\ Paired(rest, i - 1)) <=> (p + i > 1 /\ Paired(text, (p + i) - 1))
    <3>1. CASE i > 1
      BY <2>2, <2>3, <3>1
    <3>2. CASE ~(i > 1)
      <4>1. (p + i) - 1 = p
        BY <2>3, <3>2
      <4> QED BY <1>6, <3>2, <4>1, Zenon
    <3> QED BY <3>1, <3>2
  <2> QED BY <2>1, <2>4, Zenon DEF Alone
<1> QED BY <1>5, <1>7

\* No surrogate of a text is alone.
Whole(text) == \A i \in 1 .. Len(text) : ~Alone(text, i)

\* UTF-32 has the code points of a text without lone surrogates.
LEMMA ToUtf32Is ==
  ASSUME NEW text \in Text
  PROVE  /\ Whole(text) => ToUtf32(text) = CodePoints(text)
         /\ ~Whole(text) => ToUtf32(text) = Failed
<1> DEFINE A == {i \in DOMAIN text : Alone(text, i)}
<1>1. ToUtf32(text) = IF A # {} THEN Failed ELSE CodePoints(text)
  BY Zenon DEF ToUtf32
<1>2. A = {} <=> Whole(text)
  <2>1. DOMAIN text = 1 .. Len(text)
    BY TextType
  <2> QED BY <2>1, Zenon DEF Whole
<1> HIDE DEF A
<1> QED BY <1>1, <1>2

\* The empty text has no lone surrogate.
LEMMA WholeNone == Whole(<< >>)
<1>1. \A i \in 1 .. Len(<< >>) : FALSE
  BY EmptySeq
<1> QED BY <1>1 DEF Whole

\* If the first code point is no lone surrogate, the rest decides.
LEMMA WholeRest ==
  ASSUME NEW text, NEW rest, NEW p, Onwards(text, rest, p)
  PROVE  Whole(text) <=> Whole(rest) /\ (Paired(text, 1) \/ (text[1] \notin High /\ text[1] \notin Low))
<1>0. text \in Text /\ text # << >> /\ Suffix(rest, text, p)
  BY DEF Onwards
<1>1. /\ \A i \in 1 .. Len(rest) : Alone(rest, i) <=> Alone(text, p + i)
      /\ \/ p = 1 /\ ~Paired(text, 1) /\ (Alone(text, 1) <=> text[1] \in High \/ text[1] \in Low)
         \/ p = 2 /\ Paired(text, 1) /\ ~Alone(text, 1) /\ ~Alone(text, 2)
  BY AloneRest
<1>2. Len(rest) \in Nat /\ Len(text) \in Nat /\ Len(rest) + p = Len(text) /\ p \in Nat
  BY <1>0, TextType DEF Suffix
<1>3. ASSUME Whole(text) PROVE Whole(rest)
  <2>1. \A i \in 1 .. Len(rest) : p + i \in 1 .. Len(text)
    BY <1>2
  <2>2. \A i \in 1 .. Len(text) : ~Alone(text, i)
    BY <1>3, Zenon DEF Whole
  <2>3. \A i \in 1 .. Len(rest) : ~Alone(rest, i)
    BY <1>1, <2>1, <2>2, Zenon
  <2> QED BY <2>3, Zenon DEF Whole
<1>4. ASSUME Whole(rest), \A i \in 1 .. p : ~Alone(text, i) PROVE Whole(text)
  <2>1. ASSUME NEW i \in 1 .. Len(text) PROVE ~Alone(text, i)
    <3>1. CASE i <= p
      <4>1. i \in 1 .. p
        BY <1>2, <3>1
      <4> QED BY <1>4, <4>1
    <3>2. CASE ~(i <= p)
      <4> DEFINE j == i - p
      <4>1. j \in 1 .. Len(rest) /\ i = p + j
        BY <1>2, <3>2
      <4> HIDE DEF j
      <4>2. ~Alone(rest, j)
        BY <1>4, <4>1, Zenon DEF Whole
      <4> QED BY <1>1, <4>1, <4>2, Zenon
    <3> QED BY <3>1, <3>2
  <2> QED BY <2>1, Zenon DEF Whole
<1>5. 1 \in 1 .. Len(text)
  <2>1. Len(text) # 0
    BY <1>0, EmptySeq DEF Text
  <2> QED BY <1>2, <2>1
<1>6. ASSUME Whole(text) PROVE Paired(text, 1) \/ (text[1] \notin High /\ text[1] \notin Low)
  <2>1. ~Alone(text, 1)
    BY <1>5, <1>6, Zenon DEF Whole
  <2> QED BY <1>1, <2>1, Zenon
<1>7. ASSUME Paired(text, 1) \/ (text[1] \notin High /\ text[1] \notin Low)
      PROVE  \A i \in 1 .. p : ~Alone(text, i)
  <2>1. CASE p = 1 /\ ~Paired(text, 1)
    <3>1. p # 2
      BY <2>1
    <3>2. ~Alone(text, 1)
      BY <1>1, <1>7, <2>1, <3>1, Zenon
    <3>3. \A i \in 1 .. p : i = 1
      BY <2>1
    <3> QED BY <3>2, <3>3, Zenon
  <2>2. CASE p = 2 /\ ~Alone(text, 1) /\ ~Alone(text, 2)
    <3>1. \A i \in 1 .. p : i = 1 \/ i = 2
      BY <2>2
    <3> QED BY <2>2, <3>1, Zenon
  <2> QED BY <1>1, <2>1, <2>2, Zenon
<1> QED BY <1>3, <1>4, <1>6, <1>7, Zenon

-----------------------------------------------------------------------------
(* From bytes to strings and back.                                         *)

\* A text starts with its first code point.
LEMMA CodePointsFirst ==
  ASSUME NEW text, NEW rest, NEW p, Onwards(text, rest, p)
  PROVE  CodePoints(text) = <<Seen(text, 1)>> \o CodePoints(rest)
BY CodePointsRest DEF Onwards

\* What a step over the first code point leaves.
LEMMA OnwardsIs ==
  ASSUME NEW text, NEW rest, NEW p, Onwards(text, rest, p)
  PROVE  /\ text \in Text /\ rest \in Text /\ p \in Nat /\ Len(rest) + p = Len(text)
         /\ Len(text) \in Nat /\ Len(rest) \in Nat /\ Len(text) # 0
         /\ 1 \in 1 .. Len(text) /\ text[1] \in Int
         /\ \A j \in 1 .. Len(rest) : rest[j] = text[p + j]
         /\ \/ p = 1 /\ ~Paired(text, 1)
            \/ p = 2 /\ Paired(text, 1)
<1>0. text \in Text /\ text # << >> /\ Suffix(rest, text, p)
  BY DEF Onwards
<1>1. /\ rest \in Text /\ p \in Nat /\ Len(rest) + p = Len(text)
      /\ Len(text) \in Nat /\ Len(rest) \in Nat /\ Len(text) # 0
      /\ \A j \in 1 .. Len(rest) : rest[j] = text[p + j]
  BY <1>0, EmptySeq, TextType DEF Suffix
<1>2. 1 \in 1 .. Len(text)
  BY <1>1
<1>3. text[1] \in Int
  BY <1>0, <1>2, TextType
<1>4. \/ p = 1 /\ ~Paired(text, 1)
      \/ p = 2 /\ Paired(text, 1)
  BY AloneRest
<1> QED BY <1>0, <1>1, <1>2, <1>3, <1>4

\* There is such a step in every text that is not empty.
LEMMA OnwardsExists ==
  ASSUME NEW S, S \subseteq Int, NEW text \in Seq(S), text # << >>
  PROVE  \E rest \in Seq(S) : \E p : Onwards(text, rest, p)
<1>1. text \in Text
  BY SeqOfMore, Zenon DEF Text
<1>2. Len(text) \in Nat /\ Len(text) # 0
  BY <1>1, EmptySeq, TextType
<1>3. 1 \in 1 .. Len(text)
  BY <1>2
<1> DEFINE p == After(text, 1) - 1
           rest == SubSeq(text, p + 1, Len(text))
<1>4. p \in Nat /\ p <= Len(text)
  <2>1. /\ After(text, 1) \in Nat /\ 1 < After(text, 1) /\ After(text, 1) <= Len(text) + 1
    BY <1>1, <1>3, SeenOnward
  <2> QED BY <1>2, <2>1
<1> HIDE DEF p
<1>5. Suffix(rest, text, p)
  BY <1>1, <1>4, SuffixExists
<1>6. rest \in Seq(S)
  <2>1. /\ rest \in Text /\ Len(rest) + p = Len(text)
        /\ \A j \in 1 .. Len(rest) : rest[j] = text[p + j]
    BY <1>5, Zenon DEF Suffix
  <2> HIDE DEF rest
  <2>2. Len(rest) \in Nat
    BY <2>1, TextType
  <2>3. \A j \in 1 .. Len(rest) : p + j \in 1 .. Len(text)
    BY <1>2, <1>4, <2>1, <2>2
  <2>4. \A j \in 1 .. Len(text) : text[j] \in S
    OBVIOUS
  <2>5. \A j \in 1 .. Len(rest) : rest[j] \in S
    BY <2>1, <2>3, <2>4, Zenon
  <2>6. rest \in [1 .. Len(rest) -> S]
    BY <2>1, <2>5 DEF Text
  <2> QED BY <2>2, <2>6
<1>7. Onwards(text, rest, p)
  BY <1>1, <1>5 DEF Onwards, p
<1> QED BY <1>6, <1>7

\* Induction from code point to code point.
LEMMA TextInduction ==
  ASSUME NEW S, S \subseteq Int, NEW G, << >> \in G,
         \A text, rest \in Seq(S) : \A p : Onwards(text, rest, p) /\ rest \in G => text \in G
  PROVE  Seq(S) \subseteq G
<1>1. ASSUME NEW text \in Seq(S), \A t \in Seq(S) : Len(t) < Len(text) => t \in G PROVE text \in G
  <2>1. CASE text = << >>
    BY <2>1
  <2>2. CASE text # << >>
    <3>0. PICK rest \in Seq(S) : \E p : Onwards(text, rest, p)
      BY <2>2, OnwardsExists
    <3>1. PICK p : Onwards(text, rest, p)
      BY <3>0
    <3>2. Len(rest) < Len(text)
      BY <3>1, OnwardsIs
    <3> QED BY <1>1, <3>1, <3>2
  <2> QED BY <2>1, <2>2
<1> QED BY <1>1, LengthInduction

\* The surrogates are integers.
LEMMA HighInt == (\A c \in High : c \in Int) /\ (\A c \in Low : c \in Int)
<1>1. \A c \in High : c \in Int
  BY SMT DEF High
<1>2. \A c \in Low : c \in Int
  BY SMT DEF Low
<1> QED BY <1>1, <1>2

\* What the two halves of a code point above U+FFFF are.
LEMMA Halved ==
  ASSUME NEW cp \in Nat, 65535 < cp, cp <= 1114111
  PROVE  /\ 55296 + ((cp - 65536) \div 1024) \in High
         /\ 56320 + ((cp - 65536) % 1024) \in Low
         /\ Joined2(55296 + ((cp - 65536) \div 1024), 56320 + ((cp - 65536) % 1024)) = cp
<1> DEFINE x == (cp - 65536) \div 1024
           y == (cp - 65536) % 1024
<1>1. x \in Nat /\ y \in Nat /\ x <= 1023 /\ y <= 1023 /\ x * 1024 + y = cp - 65536
  BY SMT
<1> HIDE DEF x, y
<1>2. 55296 + x \in High /\ 56320 + y \in Low
  BY <1>1, HighIs, LowIs, SMT
<1>3. Joined2(55296 + x, 56320 + y) = cp
  BY <1>1, SMT DEF Joined2
<1> QED BY <1>2, <1>3, SMT DEF x, y

\* The two halves of a pair give the code point back.
LEMMA Rejoined ==
  ASSUME NEW h \in High, NEW l \in Low
  PROVE  /\ Joined2(h, l) \in Nat /\ IsScalar(Joined2(h, l)) /\ Units(Joined2(h, l)) = <<h, l>>
<1>1. h \in Int /\ l \in Int /\ 55296 <= h /\ h <= 56319 /\ 56320 <= l /\ l <= 57343
  <2>1. h \in Int
    BY SMT DEF High
  <2>2. l \in Int
    BY SMT DEF Low
  <2> QED BY <2>1, <2>2, HighIs, LowIs, SMT
<1> DEFINE c == Joined2(h, l)
<1>2. c = 65536 + (h - 55296) * 1024 + (l - 56320)
  BY SMT DEF Joined2
<1> HIDE DEF c
<1>3. c \in Nat /\ 65535 < c /\ c <= 1114111
  BY <1>1, <1>2, SMT
<1>4. IsScalar(c)
  BY <1>3, ScalarIs, SMT
<1>5. 55296 + ((c - 65536) \div 1024) = h /\ 56320 + ((c - 65536) % 1024) = l
  BY <1>1, <1>2, SMT
<1>6. Units(c) = <<55296 + ((c - 65536) \div 1024), 56320 + ((c - 65536) % 1024)>>
  BY <1>3, UnitsIs, SMT
<1>7. Units(c) = <<h, l>>
  <2> DEFINE x == 55296 + ((c - 65536) \div 1024)
             y == 56320 + ((c - 65536) % 1024)
  <2>1. x = h /\ y = l /\ Units(c) = <<x, y>>
    BY <1>5, <1>6, SMT
  <2> HIDE DEF x, y
  <2> QED BY <2>1, Zenon
<1>8. c \in Nat /\ IsScalar(c) /\ Units(c) = <<h, l>>
  BY <1>3, <1>4, <1>7
<1> QED BY <1>8 DEF c

\* The units of a code point, read again.
LEMMA UnitsRead ==
  ASSUME NEW cp \in Scalar, NEW rest \in Text
  PROVE  \E text, p : /\ text = Units(cp) \o rest /\ Onwards(text, rest, p) /\ Seen(text, 1) = cp
                      /\ Paired(text, 1) \/ (text[1] \notin High /\ text[1] \notin Low)
<1> DEFINE u == Units(cp)
           text == u \o rest
           p == Len(u)
<1>1. cp \in Nat /\ IsScalar(cp) /\ u \in Text
  BY UnitsIs, SMT DEF Scalar
<1>2. Suffix(rest, text, p) /\ \A k \in 1 .. p : text[k] = u[k]
  <2> HIDE DEF u
  <2> QED BY <1>1, ConcatSuffix
<1>3. text \in Text /\ p \in Nat /\ Len(rest) + p = Len(text) /\ Len(rest) \in Nat
  <2>1. text \in Text /\ p \in Nat /\ Len(rest) + p = Len(text)
    BY <1>2, Zenon DEF Suffix
  <2> QED BY <2>1, TextType, Zenon
<1>4. /\ Seen(text, 1) = cp /\ After(text, 1) = p + 1
      /\ Paired(text, 1) \/ (text[1] \notin High /\ text[1] \notin Low)
      /\ p # 0
  <2>1. CASE cp <= 65535
    <3>1. u = <<cp>>
      BY <1>1, <2>1, UnitsIs, SMT
    <3> HIDE DEF u
    <3>2. p = 1 /\ u[1] = cp
      BY <3>1
    <3>3. 1 \in 1 .. p
      BY <3>2
    <3>4. text[1] = cp
      BY <1>2, <3>2, <3>3
    <3>5. cp \notin High /\ cp \notin Low
      BY <1>1, SMT DEF IsScalar
    <3>6. 1 \in 1 .. Len(text)
      BY <1>3, <3>2
    <3> HIDE DEF text
    <3>7. ~Paired(text, 1)
      BY <3>4, <3>5, Zenon DEF Paired
    <3>8. Seen(text, 1) = cp /\ After(text, 1) = 1 + 1
      BY <1>3, <3>4, <3>5, <3>6, <3>7, SeenIs, Zenon
    <3>9. After(text, 1) = p + 1 /\ p # 0
      BY <3>2, <3>8
    <3>10. text[1] \notin High /\ text[1] \notin Low
      BY <3>4, <3>5
    <3> QED BY <3>8, <3>9, <3>10
  <2>2. CASE ~(cp <= 65535)
    <3> DEFINE h == 55296 + ((cp - 65536) \div 1024)
               l == 56320 + ((cp - 65536) % 1024)
    <3>1. u = <<h, l>>
      BY <1>1, <2>2, UnitsIs, SMT
    <3>2. 65535 < cp /\ cp <= 1114111
      BY <1>1, <2>2, ScalarIs, SMT
    <3>3. h \in High /\ l \in Low /\ Joined2(h, l) = cp
      BY <1>1, <3>2, Halved, SMT
    <3> HIDE DEF u, h, l
    <3>4. h \in Int /\ l \in Int
      BY <3>3, HighInt, Zenon
    <3>5. p = 2 /\ u[1] = h /\ u[2] = l
      BY <3>1, <3>4, Pair
    <3>6. 1 \in 1 .. p /\ 2 \in 1 .. p /\ 1 \in 1 .. Len(text) /\ 1 < Len(text) /\ 1 + 1 = 2
      BY <1>3, <3>5
    <3>7. text[1] = h /\ text[2] = l
      BY <1>2, <3>5, <3>6
    <3> HIDE DEF text
    <3>8. Paired(text, 1)
      BY <3>3, <3>6, <3>7, Zenon DEF Paired
    <3>9. Seen(text, 1) = Joined2(text[1], text[1 + 1]) /\ After(text, 1) = 1 + 2
      BY <1>3, <3>6, <3>8, SeenIs, Zenon
    <3>10. Seen(text, 1) = cp
      BY <3>3, <3>6, <3>7, <3>9, Zenon
    <3>11. After(text, 1) = p + 1 /\ p # 0
      BY <3>5, <3>9
    <3> QED BY <3>8, <3>10, <3>11
  <2> QED BY <2>1, <2>2, SMT
<1>5. text # << >>
  BY <1>3, <1>4, EmptySeq
<1>6. p = After(text, 1) - 1
  BY <1>3, <1>4
<1>7. Onwards(text, rest, p)
  <2> HIDE DEF text, p
  <2> QED BY <1>2, <1>3, <1>5, <1>6, Zenon DEF Onwards
<1> QED BY <1>4, <1>7, Zenon

\* Any scalar values, written as units, are read again, and no surrogate is alone.
LEMMA UnitsAgain ==
  ASSUME NEW s \in Seq(Scalar)
  PROVE  CodePoints(AllUnits(s)) = s /\ Whole(AllUnits(s)) /\ AllUnits(s) \in Text
<1> DEFINE G == {t \in Seq(Scalar) : CodePoints(AllUnits(t)) = t /\ Whole(AllUnits(t))}
<1>0. Seq(Scalar) \subseteq Seq(Nat)
  <2>1. Scalar \subseteq Nat
    BY DEF Scalar
  <2> QED BY <2>1, SeqOfMore
<1>1. << >> \in G
  <2>1. << >> \in Seq(Scalar)
    BY EmptySeq
  <2> QED BY <2>1, AllUnitsIs, CodePointsNone, WholeNone
<1>2. ASSUME NEW cp \in Scalar, NEW t \in Seq(Scalar), t \in G PROVE <<cp>> \o t \in G
  <2>1. /\ cp \in Nat /\ t \in Seq(Nat) /\ <<cp>> \in Seq(Nat) /\ <<cp>> \in Seq(Scalar)
        /\ <<cp>> \o t \in Seq(Scalar)
    <3>1. <<cp>> \in Seq(Scalar) /\ cp \in Nat
      BY DEF Scalar
    <3> QED BY <1>0, <3>1, ConcatProperties
  <2>2. AllUnits(<<cp>> \o t) = Units(cp) \o AllUnits(t) /\ AllUnits(t) \in Text
    BY <2>1, AllUnitsIs
  <2>3. PICK text, p : /\ text = Units(cp) \o AllUnits(t) /\ Onwards(text, AllUnits(t), p)
                       /\ Seen(text, 1) = cp
                       /\ Paired(text, 1) \/ (text[1] \notin High /\ text[1] \notin Low)
    BY <2>2, UnitsRead
  <2>4. CodePoints(text) = <<cp>> \o CodePoints(AllUnits(t))
    BY <2>3, CodePointsFirst
  <2>5. Whole(text)
    BY <1>2, <2>3, WholeRest
  <2>6. CodePoints(AllUnits(t)) = t
    BY <1>2
  <2>7. text = AllUnits(<<cp>> \o t)
    BY <2>2, <2>3, Zenon
  <2> QED BY <2>1, <2>4, <2>5, <2>6, <2>7, Zenon
<1>3. Seq(Scalar) \subseteq G
  <2> HIDE DEF G
  <2> QED BY <1>1, <1>2, FirstInduction
<1> QED BY <1>0, <1>3, AllUnitsIs

-----------------------------------------------------------------------------
(* From strings to bytes and back, and to UTF-32.                          *)

\* A text is its beginning and its suffix.
LEMMA SuffixSplit ==
  ASSUME NEW rest, NEW text, NEW p, Suffix(rest, text, p), NEW a \in Text, Len(a) = p,
         \A k \in 1 .. p : a[k] = text[k]
  PROVE  text = a \o rest
<1> DEFINE c == a \o rest
<1>1. /\ rest \in Text /\ text \in Text /\ p \in Nat /\ Len(rest) + p = Len(text)
      /\ \A j \in 1 .. Len(rest) : rest[j] = text[p + j]
  BY DEF Suffix
<1>2. Len(rest) \in Nat /\ Len(text) \in Nat
  BY <1>1, TextType
<1>3. Suffix(rest, c, p) /\ \A k \in 1 .. p : c[k] = a[k]
  BY <1>1, ConcatSuffix
<1>4. /\ c \in Text /\ Len(rest) + p = Len(c) /\ Len(c) \in Nat
      /\ \A j \in 1 .. Len(rest) : rest[j] = c[p + j]
  <2>1. /\ c \in Text /\ Len(rest) + p = Len(c)
        /\ \A j \in 1 .. Len(rest) : rest[j] = c[p + j]
    BY <1>3 DEF Suffix
  <2> HIDE DEF c
  <2> QED BY <2>1, TextType
<1> HIDE DEF c
<1>5. ASSUME NEW k \in 1 .. Len(text) PROVE text[k] = c[k]
  <2>1. CASE k <= p
    <3>1. k \in 1 .. p
      BY <1>1, <2>1
    <3> QED BY <1>3, <3>1
  <2>2. CASE ~(k <= p)
    <3> DEFINE j == k - p
    <3>1. j \in 1 .. Len(rest) /\ k = p + j
      BY <1>1, <1>2, <2>2
    <3> HIDE DEF j
    <3> QED BY <1>1, <1>4, <3>1
  <2> QED BY <2>1, <2>2
<1>6. Len(text) = Len(c)
  BY <1>1, <1>4
<1>7. text = c
  BY <1>1, <1>4, <1>5, <1>6, SameText
<1> QED BY <1>7 DEF c

\* Mending replaces the lone surrogates and nothing else.
LEMMA MendedType ==
  ASSUME NEW text \in Text
  PROVE  /\ Mended(text) \in Text /\ Len(Mended(text)) = Len(text)
         /\ \A i \in 1 .. Len(text) :
              /\ Alone(text, i) => Mended(text)[i] = Replacement
              /\ ~Alone(text, i) => Mended(text)[i] = text[i]
<1> DEFINE n == Len(text)
           v == Mended(text)
<1>1. n \in Nat /\ DOMAIN text = 1 .. n /\ \A i \in 1 .. n : text[i] \in Int
  BY TextType
<1>2. Replacement \in Int
  BY SMT DEF Replacement
<1>3. /\ v \in [1 .. n -> Int]
      /\ \A i \in 1 .. n : /\ Alone(text, i) => v[i] = Replacement
                           /\ ~Alone(text, i) => v[i] = text[i]
  BY <1>1, <1>2 DEF Mended
<1> HIDE DEF n, v
<1>4. v \in Seq(Int) /\ Len(v) = n
  BY <1>1, <1>3
<1> QED BY <1>3, <1>4 DEF n, v, Text

\* Without lone surrogates there is nothing to mend.
LEMMA MendedWhole ==
  ASSUME NEW text \in Text, Whole(text) PROVE Mended(text) = text
<1>1. \A i \in 1 .. Len(text) : Mended(text)[i] = text[i]
  BY MendedType DEF Whole
<1> QED BY <1>1, MendedType, SameText

\* Mending the rest is the rest of mending.
LEMMA MendedRest ==
  ASSUME NEW text, NEW rest, NEW p, Onwards(text, rest, p)
  PROVE  Suffix(Mended(rest), Mended(text), p)
<1>1. /\ text \in Text /\ rest \in Text /\ p \in Nat /\ Len(rest) + p = Len(text)
      /\ Len(text) \in Nat /\ Len(rest) \in Nat
      /\ \A j \in 1 .. Len(rest) : rest[j] = text[p + j]
  BY OnwardsIs
<1>2. \A j \in 1 .. Len(rest) : Alone(rest, j) <=> Alone(text, p + j)
  BY AloneRest
<1>3. /\ Mended(text) \in Text /\ Len(Mended(text)) = Len(text)
      /\ Mended(rest) \in Text /\ Len(Mended(rest)) = Len(rest)
  BY <1>1, MendedType
<1>4. ASSUME NEW j \in 1 .. Len(rest) PROVE Mended(rest)[j] = Mended(text)[p + j]
  <2>1. p + j \in 1 .. Len(text)
    BY <1>1
  <2>2. CASE Alone(rest, j)
    <3>1. Mended(rest)[j] = Replacement
      BY <1>1, <2>2, MendedType
    <3>2. Mended(text)[p + j] = Replacement
      BY <1>1, <1>2, <2>1, <2>2, MendedType
    <3> QED BY <3>1, <3>2
  <2>3. CASE ~Alone(rest, j)
    <3>1. Mended(rest)[j] = rest[j]
      BY <1>1, <2>3, MendedType
    <3>2. Mended(text)[p + j] = text[p + j]
      BY <1>1, <1>2, <2>1, <2>3, MendedType
    <3> QED BY <1>1, <3>1, <3>2
  <2> QED BY <2>2, <2>3
<1> QED BY <1>1, <1>3, <1>4, Zenon DEF Suffix

\* A unit that is no surrogate is a scalar value of one unit.
LEMMA UnitScalar ==
  ASSUME NEW c \in Unit, c \notin High, c \notin Low
  PROVE  c \in Scalar /\ Units(c) = <<c>>
<1>1. c \in Nat /\ c <= 65535
  BY SMT DEF Unit
<1>2. IsScalar(c)
  BY <1>1, SMT DEF IsScalar
<1>3. Units(c) = <<c>>
  BY <1>1, UnitsIs, SMT
<1> QED BY <1>1, <1>2, <1>3 DEF Scalar

\* So is the replacement character.
LEMMA ReplacementIs == Replacement \in Scalar /\ Units(Replacement) = <<Replacement>> /\ Replacement \in Nat
<1>1. Replacement \in Nat /\ Replacement <= 65535 /\ IsScalar(Replacement)
  BY ScalarIs, SMT DEF Replacement
<1>2. Units(Replacement) = <<Replacement>>
  BY <1>1, UnitsIs, SMT
<1> QED BY <1>1, <1>2 DEF Scalar

\* The units of the first code point, unless it is half of one at the end.
LEMMA FirstUnits ==
  ASSUME NEW text \in Seq(Unit), NEW rest, NEW p, Onwards(text, rest, p),
         ~(text[1] \in High /\ Len(text) = 1)
  PROVE  Seen(text, 1) \in Scalar /\ Mended(text) = Units(Seen(text, 1)) \o Mended(rest)
<1>1. /\ text \in Text /\ rest \in Text /\ p \in Nat /\ Len(rest) + p = Len(text)
      /\ Len(text) \in Nat /\ Len(rest) \in Nat /\ 1 \in 1 .. Len(text)
      /\ \/ p = 1 /\ ~Paired(text, 1)
         \/ p = 2 /\ Paired(text, 1)
  BY OnwardsIs
<1>2. Suffix(Mended(rest), Mended(text), p) /\ text[1] \in Unit
  BY <1>1, MendedRest
<1>3. /\ p = 1 => (Alone(text, 1) <=> text[1] \in High \/ text[1] \in Low)
      /\ p = 2 => ~Alone(text, 1) /\ ~Alone(text, 2)
  <2>1. \/ p = 1 /\ (Alone(text, 1) <=> text[1] \in High \/ text[1] \in Low)
        \/ p = 2 /\ ~Alone(text, 1) /\ ~Alone(text, 2)
    BY AloneRest
  <2> QED BY <2>1
<1>4. CASE p = 2
  <2>1. Paired(text, 1)
    BY <1>1, <1>4
  <2>2. text[1] \in High /\ text[2] \in Low /\ 2 \in 1 .. Len(text)
    <3>1. 1 + 1 \in 1 .. Len(text) /\ text[1] \in High /\ text[1 + 1] \in Low
      BY <1>1, <2>1, PairedIs
    <3> QED BY <3>1
  <2>3. Seen(text, 1) = Joined2(text[1], text[1 + 1])
    BY <1>1, <2>1, SeenIs, Zenon
  <2>4. Seen(text, 1) = Joined2(text[1], text[2])
    BY <2>3
  <2>5. Seen(text, 1) \in Scalar /\ Units(Seen(text, 1)) = <<text[1], text[2]>>
    <3>1. Joined2(text[1], text[2]) \in Scalar /\ Units(Joined2(text[1], text[2])) = <<text[1], text[2]>>
      BY <2>2, Rejoined DEF Scalar
    <3> QED BY <2>4, <3>1, Zenon
  <2>6. Mended(text)[1] = text[1] /\ Mended(text)[2] = text[2]
    BY <1>1, <1>3, <1>4, <2>2, MendedType
  <2> DEFINE u == Units(Seen(text, 1))
  <2>7. u \in Text /\ Len(u) = 2 /\ u[1] = text[1] /\ u[2] = text[2]
    <3>1. text[1] \in Int /\ text[2] \in Int
      BY <2>2, HighInt
    <3> QED BY <2>5, <3>1, Pair
  <2> HIDE DEF u
  <2>8. \A k \in 1 .. p : u[k] = Mended(text)[k]
    <3>1. \A k \in 1 .. p : k = 1 \/ k = 2
      BY <1>4
    <3> QED BY <2>6, <2>7, <3>1, Zenon
  <2>9. Mended(text) = u \o Mended(rest)
    <3>1. Len(u) = p /\ u \in Text
      BY <1>4, <2>7
    <3> QED BY <1>2, <2>8, <3>1, SuffixSplit
  <2> QED BY <2>5, <2>9 DEF u
<1>5. CASE p = 1
  <2>1. ~Paired(text, 1) /\ (Alone(text, 1) <=> text[1] \in High \/ text[1] \in Low)
    BY <1>1, <1>3, <1>5
  <2>2. /\ Seen(text, 1) \in Scalar /\ Units(Seen(text, 1)) = <<Seen(text, 1)>>
        /\ Mended(text)[1] = Seen(text, 1)
    <3>1. CASE Seen(text, 1) = Replacement /\ (text[1] \in High \/ text[1] \in Low)
      <4>1. Mended(text)[1] = Replacement
        BY <1>1, <2>1, <3>1, MendedType
      <4> QED BY <3>1, <4>1, ReplacementIs, Zenon
    <3>2. CASE Seen(text, 1) = text[1] /\ text[1] \notin High /\ text[1] \notin Low
      <4>1. Mended(text)[1] = text[1]
        BY <1>1, <2>1, <3>2, MendedType
      <4>2. text[1] \in Scalar /\ Units(text[1]) = <<text[1]>>
        BY <1>2, <3>2, UnitScalar
      <4> QED BY <3>2, <4>1, <4>2, Zenon
    <3>3. \/ Seen(text, 1) = Replacement /\ (text[1] \in High \/ text[1] \in Low)
          \/ Seen(text, 1) = text[1] /\ (text[1] \in High => 1 = Len(text)) /\ text[1] \notin Low
      BY <1>1, <2>1, SeenIs, Zenon
    <3> QED BY <3>1, <3>2, <3>3
  <2> DEFINE u == Units(Seen(text, 1))
  <2>3. u \in Text /\ Len(u) = 1 /\ u[1] = Mended(text)[1]
    <3>1. Seen(text, 1) \in Int
      BY <1>1, SeenOnward
    <3> DEFINE c == Seen(text, 1)
    <3>2. u = <<c>> /\ c \in Int /\ Mended(text)[1] = c
      BY <2>2, <3>1
    <3> HIDE DEF c, u
    <3> QED BY <3>2 DEF Text
  <2> HIDE DEF u
  <2>4. \A k \in 1 .. p : u[k] = Mended(text)[k]
    <3>1. \A k \in 1 .. p : k = 1
      BY <1>5
    <3> QED BY <2>3, <3>1, Zenon
  <2>41. u \in Text /\ Len(u) = p
    BY <1>5, <2>3
  <2>5. Mended(text) = u \o Mended(rest)
    BY <1>2, <2>4, <2>41, SuffixSplit
  <2> QED BY <2>2, <2>5 DEF u
<1> QED BY <1>1, <1>4, <1>5

\* The code points of a text: scalar values, and then perhaps half a pair.
Ended(text, s) ==
    /\ CodePoints(text) = s /\ Mended(text) = AllUnits(s)
    /\ text = << >> \/ text[Len(text)] \notin High
Broken(text, s, h) ==
    /\ CodePoints(text) = s \o <<h>> /\ Mended(text) = AllUnits(s) \o <<Replacement>>
    /\ text # << >> /\ text[Len(text)] = h /\ h \in High /\ ~Whole(text)
Ends(text, s) == Ended(text, s) \/ \E h : Broken(text, s, h)

\* From the end of the rest to the end of the text.
LEMMA EndsStep ==
  ASSUME NEW text \in Seq(Unit), NEW rest \in Seq(Unit), NEW p, Onwards(text, rest, p),
         NEW t \in Seq(Scalar), Ends(rest, t), ~(text[1] \in High /\ Len(text) = 1)
  PROVE  \E s \in Seq(Scalar) : Ends(text, s)
<1> DEFINE c == Seen(text, 1)
           s == <<c>> \o t
<1>1. /\ text \in Text /\ rest \in Text /\ p \in Nat /\ Len(rest) + p = Len(text)
      /\ Len(text) \in Nat /\ Len(rest) \in Nat /\ Len(text) # 0 /\ 1 \in 1 .. Len(text)
      /\ \A j \in 1 .. Len(rest) : rest[j] = text[p + j]
      /\ \/ p = 1 /\ ~Paired(text, 1)
         \/ p = 2 /\ Paired(text, 1)
  BY OnwardsIs
<1>2. /\ c \in Scalar /\ Mended(text) = Units(c) \o Mended(rest)
  BY FirstUnits
<1>3. CodePoints(text) = <<c>> \o CodePoints(rest)
  BY CodePointsFirst
<1> HIDE DEF c
<1>4. Seq(Scalar) \subseteq Seq(Nat) /\ Seq(Scalar) \subseteq Text
  <2>1. Scalar \subseteq Nat /\ Scalar \subseteq Int
    BY DEF Scalar
  <2> QED BY <2>1, SeqOfMore DEF Text
<1>5. <<c>> \in Seq(Scalar) /\ s \in Seq(Scalar) /\ c \in Nat /\ t \in Seq(Nat) /\ <<c>> \in Seq(Nat)
  <2>1. <<c>> \in Seq(Scalar)
    BY <1>2
  <2> QED BY <1>2, <1>4, <2>1, ConcatProperties DEF Scalar
<1>6. AllUnits(s) = Units(c) \o AllUnits(t) /\ Units(c) \in Text /\ AllUnits(t) \in Text
  <2>1. AllUnits(s) = Units(c) \o AllUnits(t) /\ AllUnits(t) \in Text
    BY <1>5, AllUnitsIs
  <2>2. Units(c) \in Text
    BY <1>5, UnitsIs, SMT
  <2> QED BY <2>1, <2>2
<1> HIDE DEF s
<1>7. rest # << >> => rest[Len(rest)] = text[Len(text)]
  <2>1. rest # << >> => Len(rest) # 0
    BY <1>1, EmptySeq DEF Text
  <2>2. rest # << >> => Len(rest) \in 1 .. Len(rest) /\ p + Len(rest) = Len(text)
    BY <1>1, <2>1
  <2> QED BY <1>1, <2>2
<1>8. text # << >>
  BY <1>1, EmptySeq
<1>9. CASE Ended(rest, t)
  <2>1. CodePoints(rest) = t /\ Mended(rest) = AllUnits(t)
    BY <1>9, Zenon DEF Ended
  <2>2. CodePoints(text) = s /\ Mended(text) = AllUnits(s)
    BY <1>2, <1>3, <1>6, <2>1, Zenon DEF s
  <2>3. text[Len(text)] \notin High
    <3>1. CASE rest # << >>
      BY <1>7, <1>9, <3>1, Zenon DEF Ended
    <3>2. CASE rest = << >>
      <4>1. Len(text) = p
        BY <1>1, <3>2, EmptySeq
      <4>2. CASE p = 1
        BY <4>1, <4>2
      <4>3. CASE p = 2
        <5>1. text[1 + 1] \in Low
          BY <1>1, <4>3, PairedIs
        <5>2. text[2] \in Low
          BY <5>1
        <5> QED BY <4>1, <4>3, <5>2, HighNotLow
      <4> QED BY <1>1, <4>2, <4>3
    <3> QED BY <3>1, <3>2
  <2>4. Ended(text, s)
    BY <2>2, <2>3, Zenon DEF Ended
  <2> QED BY <1>5, <2>4 DEF Ends
<1>10. ASSUME NEW h, Broken(rest, t, h) PROVE Ends(text, s)
  <2>1. /\ CodePoints(rest) = t \o <<h>> /\ Mended(rest) = AllUnits(t) \o <<Replacement>>
        /\ rest # << >> /\ rest[Len(rest)] = h /\ h \in High /\ ~Whole(rest)
    BY <1>10, Zenon DEF Broken
  <2>2. <<c>> \in Seq(Int) /\ t \in Seq(Int) /\ <<h>> \in Seq(Int) /\ <<Replacement>> \in Seq(Int)
        /\ Units(c) \in Seq(Int) /\ AllUnits(t) \in Seq(Int)
    <3>1. <<h>> \in Seq(Int)
      <4>1. h \in Int
        BY <2>1, HighInt
      <4> QED BY <4>1
    <3>2. <<Replacement>> \in Seq(Int)
      <4>1. Replacement \in Int
        BY ReplacementIs
      <4> QED BY <4>1
    <3> QED BY <1>4, <1>5, <1>6, <3>1, <3>2 DEF Text
  <2>3. CodePoints(text) = s \o <<h>>
    <3>1. <<c>> \o (t \o <<h>>) = (<<c>> \o t) \o <<h>>
      <4> DEFINE x == <<c>>
                 y == <<h>>
      <4>1. x \in Seq(Int) /\ t \in Seq(Int) /\ y \in Seq(Int)
        BY <2>2
      <4> HIDE DEF x, y
      <4>2. x \o (t \o y) = (x \o t) \o y
        BY <4>1, ThreeParts, Zenon
      <4> QED BY <4>2 DEF x, y
    <3> QED BY <1>3, <2>1, <3>1, Zenon DEF s
  <2>4. Mended(text) = AllUnits(s) \o <<Replacement>>
    <3> DEFINE u == Units(c)
               v == AllUnits(t)
    <3>1. u \in Seq(Int) /\ v \in Seq(Int) /\ <<Replacement>> \in Seq(Int)
      BY <2>2
    <3> HIDE DEF u, v
    <3>2. u \o (v \o <<Replacement>>) = (u \o v) \o <<Replacement>>
      BY <3>1, ConcatAssociative
    <3> QED BY <1>2, <1>6, <2>1, <3>2, Zenon DEF u, v
  <2>5. ~Whole(text)
    BY <2>1, WholeRest
  <2>6. text[Len(text)] = h
    BY <1>7, <2>1
  <2> QED BY <1>8, <2>1, <2>3, <2>4, <2>5, <2>6, Zenon DEF Ends, Broken
<1> QED BY <1>5, <1>9, <1>10, Zenon DEF Ends

\* A high surrogate by itself.
LEMMA EndsAlone ==
  ASSUME NEW text \in Seq(Unit), NEW rest, NEW p, Onwards(text, rest, p),
         text[1] \in High, Len(text) = 1
  PROVE  Broken(text, << >>, text[1])
<1>1. /\ text \in Text /\ rest \in Text /\ p \in Nat /\ Len(rest) + p = Len(text)
      /\ Len(text) \in Nat /\ Len(rest) \in Nat /\ Len(text) # 0 /\ 1 \in 1 .. Len(text)
      /\ \/ p = 1 /\ ~Paired(text, 1)
         \/ p = 2 /\ Paired(text, 1)
  BY OnwardsIs
<1>2. p = 1 /\ ~Paired(text, 1) /\ Len(rest) = 0
  BY <1>1
<1>3. rest = << >> /\ text # << >>
  BY <1>1, <1>2, EmptySeq DEF Text
<1>4. Seen(text, 1) = text[1]
  <2>1. ~(1 < Len(text))
    BY <1>1
  <2> QED BY <1>1, <1>2, <2>1, SeenIs, HighNotLow, Zenon
<1>5. CodePoints(text) = << >> \o <<text[1]>>
  <2>1. text[1] \in Int
    BY HighInt
  <2>2. << >> \o <<text[1]>> = <<text[1]>> /\ <<text[1]>> \o << >> = <<text[1]>>
    BY <2>1, ConcatEmptySeq
  <2> QED BY <1>3, <1>4, <2>2, CodePointsFirst, CodePointsNone
<1>6. Alone(text, 1)
  BY <1>2, Zenon DEF Alone
<1>7. ~Whole(text)
  BY <1>1, <1>6 DEF Whole
<1>8. Mended(text) = AllUnits(<< >>) \o <<Replacement>>
  <2>1. Mended(text) \in Text /\ Len(Mended(text)) = 1 /\ Mended(text)[1] = Replacement
    BY <1>1, <1>6, MendedType
  <2> DEFINE v == Mended(text)
  <2> HIDE DEF v
  <2>2. v = <<Replacement>>
    BY <2>1 DEF v, Text
  <2>3. << >> \o <<Replacement>> = <<Replacement>>
    <3>1. <<Replacement>> \in Seq(Nat)
      BY ReplacementIs
    <3> QED BY <3>1, ConcatEmptySeq
  <2> QED BY <2>2, <2>3, AllUnitsIs DEF v
<1>9. text[Len(text)] = text[1]
  OBVIOUS
<1> QED BY <1>3, <1>5, <1>7, <1>8, <1>9, Zenon DEF Broken

\* Units, bytes and scalar values are integers.
LEMMA UnitInt == Unit \subseteq Int /\ Byte \subseteq Int /\ Scalar \subseteq Int
BY SMT DEF Unit, Byte, Scalar

\* Every text ends in one of the two ways.
LEMMA AllEnd ==
  ASSUME NEW text \in Seq(Unit) PROVE \E s \in Seq(Scalar) : Ends(text, s)
<1> DEFINE G == {u \in Seq(Unit) : \E s \in Seq(Scalar) : Ends(u, s)}
<1>1. << >> \in G
  <2>1. << >> \in Seq(Unit) /\ << >> \in Seq(Scalar) /\ << >> \in Text
    BY EmptySeq DEF Text
  <2>2. Mended(<< >>) = << >>
    BY <2>1, MendedWhole, WholeNone
  <2>3. Ended(<< >>, << >>)
    BY <2>2, CodePointsNone, AllUnitsIs DEF Ended
  <2> QED BY <2>1, <2>3 DEF Ends
<1>2. ASSUME NEW u \in Seq(Unit), NEW rest \in Seq(Unit), NEW p, Onwards(u, rest, p), rest \in G
      PROVE  u \in G
  <2>1. PICK t \in Seq(Scalar) : Ends(rest, t)
    BY <1>2
  <2>2. CASE u[1] \in High /\ Len(u) = 1
    <3>1. Broken(u, << >>, u[1])
      BY <1>2, <2>2, EndsAlone
    <3>2. << >> \in Seq(Scalar)
      BY EmptySeq
    <3> QED BY <3>1, <3>2 DEF Ends
  <2>3. CASE ~(u[1] \in High /\ Len(u) = 1)
    <3>1. \E s \in Seq(Scalar) : Ends(u, s)
      BY <1>2, <2>1, <2>3, EndsStep
    <3> QED BY <3>1
  <2> QED BY <2>2, <2>3
<1>3. Seq(Unit) \subseteq G
  <2> HIDE DEF G
  <2> QED BY <1>1, <1>2, UnitInt, TextInduction
<1> QED BY <1>3

\* Half a pair is encoded in three bytes, of which each is replaced.
LEMMA HighEncoded ==
  ASSUME NEW h \in High
  PROVE  \E b, c, d \in Int :
           /\ Encode(h) = <<b, c, d>> /\ ~(b < 128) /\ Needed(b) = 2
           /\ Spelled(<<b, c, d>>, 1, 2) = h
           /\ ~(c < 128) /\ Needed(c) = 0 /\ ~(d < 128) /\ Needed(d) = 0
<1> DEFINE b == 224 + (h \div 4096)
           c == Continuation(h \div 64)
           d == Continuation(h)
<1>1. h \in Nat /\ 55296 <= h /\ h <= 56319
  <2>1. h \in Int
    BY HighInt
  <2> QED BY <2>1, HighIs, SMT
<1>2. Encode(h) = <<b, c, d>>
  BY <1>1, EncodeInThree, SMT
<1>3. h \div 64 \in Nat /\ h \div 4096 = 13
  BY <1>1, SMT
<1>4. /\ c \in Nat /\ 128 <= c /\ c <= 191 /\ c % 64 = (h \div 64) % 64
      /\ d \in Nat /\ 128 <= d /\ d <= 191 /\ d % 64 = h % 64
  BY <1>1, <1>3, ContinuationIs, SMT
<1>5. b = 237
  BY <1>3, SMT
<1>6. ((h \div 4096) * 64 + ((h \div 64) % 64)) * 64 + (h % 64) = h
  BY <1>1, SpelledEncoded, SMT
<1> DEFINE x == (h \div 64) % 64
           y == h % 64
           t == <<b, c, d>>
<1>7. (13 * 64 + x) * 64 + y = h /\ c % 64 = x /\ d % 64 = y
  BY <1>3, <1>4, <1>6, SMT
<1> HIDE DEF b, c, d, x, y
<1>8. t[1] = b /\ t[2] = c /\ t[3] = d
  <2>1. b \in Int /\ c \in Int /\ d \in Int
    BY <1>4, <1>5, SMT
  <2> QED BY <2>1, Triple
<1> HIDE DEF t
<1>9. Needed(b) = 2 /\ LeadBits(b) = 13
  BY <1>5, SMT DEF Needed, LeadBits
<1>10. Spelled(t, 1, 2) = (LeadBits(t[1]) * 64 + (t[1 + 1] % 64)) * 64 + (t[1 + 2] % 64)
  BY SMT DEF Spelled
<1>11. Spelled(t, 1, 2) = (LeadBits(b) * 64 + (c % 64)) * 64 + (d % 64)
  <2>1. 1 + 1 = 2 /\ 1 + 2 = 3
    OBVIOUS
  <2> QED BY <1>8, <1>10, <2>1, Zenon
<1>12. Spelled(t, 1, 2) = h
  BY <1>7, <1>9, <1>11, SMT
<1>13. ~(c < 128) /\ Needed(c) = 0 /\ ~(d < 128) /\ Needed(d) = 0 /\ ~(b < 128)
  BY <1>4, <1>5, SMT DEF Needed
<1>14. b \in Int /\ c \in Int /\ d \in Int
  BY <1>4, <1>5, SMT
<1> QED BY <1>2, <1>9, <1>12, <1>13, <1>14, Zenon DEF t

\* A byte that starts nothing legal is replaced.
LEMMA DecodedIllegal ==
  ASSUME NEW bytes \in Text, bytes # << >>, NEW rest, Suffix(rest, bytes, 1),
         ~(bytes[1] < 128), Needed(bytes[1]) = 0 \/ ~IsScalar(Spelled(bytes, 1, Needed(bytes[1])))
  PROVE  Decoded(bytes) = <<Replacement>> \o Decoded(rest)
<1> DEFINE n == Needed(bytes[1])
           legal == /\ n > 0 /\ 1 + n <= Len(bytes)
                    /\ \A k \in 1 .. n : bytes[1 + k] \in 128 .. 191
                    /\ ~TooShort(n, Spelled(bytes, 1, n)) /\ IsScalar(Spelled(bytes, 1, n))
<1>1. Decode(bytes, 1) = IF legal THEN [value |-> Spelled(bytes, 1, n), next |-> 1 + n + 1]
                                  ELSE [value |-> Replacement, next |-> 1 + 1]
  BY Zenon DEF Decode
<1>2. ~legal
  <2>1. n = 0 => ~(n > 0)
    OBVIOUS
  <2> QED BY <2>1
<1>3. Decode(bytes, 1).value = Replacement /\ Decode(bytes, 1).next - 1 = 1
  <2> HIDE DEF legal, n
  <2> QED BY <1>1, <1>2
<1> QED BY <1>3, DecodedRest

\* The bytes of a high surrogate come back as three replacements.
LEMMA HighDecoded ==
  ASSUME NEW h \in High
  PROVE  /\ Encode(h) \in Text
         /\ Decoded(Encode(h)) = <<Replacement>> \o <<Replacement, Replacement>>
<1>1. PICK b, c, d \in Int :
           /\ Encode(h) = <<b, c, d>> /\ ~(b < 128) /\ Needed(b) = 2
           /\ Spelled(<<b, c, d>>, 1, 2) = h
           /\ ~(c < 128) /\ Needed(c) = 0 /\ ~(d < 128) /\ Needed(d) = 0
  BY HighEncoded
<1> DEFINE t == <<b, c, d>>
           u == <<c, d>>
           v == <<d>>
           w == << >>
<1>2. /\ t \in Text /\ Len(t) = 3 /\ t[1] = b /\ t[2] = c /\ t[3] = d
  BY Triple
<1>3. u \in Text /\ Len(u) = 2 /\ u[1] = c /\ u[2] = d
  BY Pair
<1>4. v \in Text /\ Len(v) = 1 /\ v[1] = d
  BY DEF Text
<1>5. w \in Text /\ Len(w) = 0
  BY EmptySeq DEF Text
<1> HIDE DEF t, u, v, w
<1>6. Suffix(u, t, 1)
  <2>1. \A j \in 1 .. 2 : u[j] = t[1 + j]
    <3>1. u[1] = t[1 + 1] /\ u[2] = t[1 + 2]
      BY <1>2, <1>3
    <3>2. \A j \in 1 .. 2 : j = 1 \/ j = 2
      OBVIOUS
    <3> QED BY <3>1, <3>2, Zenon
  <2> QED BY <1>2, <1>3, <2>1 DEF Suffix
<1>7. Suffix(v, u, 1)
  <2>1. \A j \in 1 .. 1 : v[j] = u[1 + j]
    <3>1. v[1] = u[1 + 1]
      BY <1>3, <1>4
    <3>2. \A j \in 1 .. 1 : j = 1
      OBVIOUS
    <3> QED BY <3>1, <3>2, Zenon
  <2> QED BY <1>3, <1>4, <2>1 DEF Suffix
<1>8. Suffix(w, v, 1)
  BY <1>4, <1>5 DEF Suffix
<1>9. t # << >> /\ u # << >> /\ v # << >>
  BY <1>2, <1>3, <1>4, EmptySeq
<1>10. ~IsScalar(h)
  BY SMT DEF IsScalar
<1>11. Decoded(t) = <<Replacement>> \o Decoded(u)
  <2>1. ~(t[1] < 128) /\ ~IsScalar(Spelled(t, 1, Needed(t[1])))
    BY <1>1, <1>2, <1>10, Zenon DEF t
  <2> QED BY <1>2, <1>6, <1>9, <2>1, DecodedIllegal
<1>12. Decoded(u) = <<Replacement>> \o Decoded(v)
  BY <1>1, <1>3, <1>7, <1>9, DecodedIllegal
<1>13. Decoded(v) = <<Replacement>> \o << >>
  BY <1>1, <1>4, <1>8, <1>9, DecodedIllegal, DecodedNone DEF w
<1>14. <<Replacement>> \o << >> = <<Replacement>>
  <2>1. <<Replacement>> \in Seq(Nat)
    BY ReplacementIs
  <2> QED BY <2>1, ConcatEmptySeq
<1>15. <<Replacement>> \o <<Replacement>> = <<Replacement, Replacement>>
  <2> DEFINE x == <<Replacement>>
  <2>1. Replacement \in Int /\ x \in Text /\ Len(x) = 1 /\ x[1] = Replacement
    <3>1. Replacement \in Int
      BY ReplacementIs
    <3> QED BY <3>1 DEF Text
  <2> HIDE DEF x
  <2>2. <<Replacement, x[1]>> = <<Replacement>> \o x
    BY <2>1, OneUnit
  <2> QED BY <2>1, <2>2, Zenon DEF x
<1>16. Encode(h) = t
  BY <1>1 DEF t
<1> QED BY <1>2, <1>11, <1>12, <1>13, <1>14, <1>15, <1>16, Zenon

\* A text that does not end in half a pair has only scalar values, and comes
\* back from UTF-8 with its unpaired surrogates replaced.
LEMMA BackFromUtf8 ==
  ASSUME NEW text \in Seq(Unit), ~EndsHalf(text)
  PROVE  CodePoints(text) \in Seq(Scalar) /\ FromUtf8(ToUtf8(text)) = Mended(text)
<1>1. PICK s \in Seq(Scalar) : Ends(text, s)
  BY AllEnd
<1>2. ~\E h : Broken(text, s, h)
  <2>1. Last(text) = text[Len(text)]
    BY Zenon DEF Last
  <2>2. ~(text # << >> /\ text[Len(text)] \in High)
    BY <2>1, Zenon DEF EndsHalf
  <2> QED BY <2>2, Zenon DEF Broken
<1>3. CodePoints(text) = s /\ Mended(text) = AllUnits(s)
  BY <1>1, <1>2, Zenon DEF Ends, Ended
<1>4. Decoded(Encoded(s)) = s
  BY DecodedAgain
<1>5. FromUtf8(ToUtf8(text)) = AllUnits(Decoded(Encoded(CodePoints(text))))
  BY Zenon DEF FromUtf8, ToUtf8
<1> QED BY <1>3, <1>4, <1>5, Zenon

\* Each code point of UTF-32 is a scalar value, or there are none.
LEMMA BackFromUtf32 ==
  ASSUME NEW text \in Seq(Unit), ToUtf32(text) # Failed
  PROVE  /\ ToUtf32(text) \in Seq(Scalar) /\ AllUnits(ToUtf32(text)) = text
         /\ FromUtf32(ToUtf32(text)) = text
<1>0. text \in Text
  BY UnitInt, SeqOfMore DEF Text
<1>1. Whole(text) /\ ToUtf32(text) = CodePoints(text)
  BY <1>0, ToUtf32Is
<1>2. PICK s \in Seq(Scalar) : Ends(text, s)
  BY AllEnd
<1>3. Ended(text, s)
  BY <1>1, <1>2, Zenon DEF Ends, Broken
<1>4. CodePoints(text) = s /\ Mended(text) = AllUnits(s)
  BY <1>3, Zenon DEF Ended
<1>5. AllUnits(s) = text
  BY <1>0, <1>1, <1>4, MendedWhole
<1>6. [k \in DOMAIN s |-> IF IsScalar(s[k]) THEN s[k] ELSE Replacement] = s
  <2>1. \A k \in DOMAIN s : IsScalar(s[k])
    BY DEF Scalar
  <2>2. s = [k \in DOMAIN s |-> s[k]]
    OBVIOUS
  <2> QED BY <2>1, <2>2, Zenon
<1>7. FromUtf32(s) = text
  BY <1>5, <1>6, Zenon DEF FromUtf32
<1> QED BY <1>1, <1>4, <1>5, <1>7

-----------------------------------------------------------------------------
(* Sums.                                                                   *)

Some(s) == CHOOSE x \in s : TRUE

\* What SumFunction computes for every set of arguments.
SumOver(f, D, g) ==
    /\ g \in [SUBSET D -> Int]
    /\ \A s \in SUBSET D : g[s] = IF s = {} THEN 0 ELSE f[Some(s)] + g[s \ {Some(s)}]

\* Finite sets and the members taken from them.
LEMMA Smaller ==
  ASSUME NEW D, IsFiniteSet(D), NEW s \in SUBSET D
  PROVE  /\ IsFiniteSet(s) /\ Cardinality(s) \in Nat /\ Cardinality(s) <= Cardinality(D)
         /\ \A x \in s : /\ s \ {x} \in SUBSET D
                         /\ Cardinality(s \ {x}) = Cardinality(s) - 1
         /\ Cardinality(s) = 0 <=> s = {}
         /\ s # {} => Some(s) \in s
<1>1. IsFiniteSet(s) /\ Cardinality(s) <= Cardinality(D)
  BY FS_Subset
<1>2. Cardinality(s) \in Nat
  BY <1>1, FS_CardinalityType
<1>3. \A x \in s : Cardinality(s \ {x}) = Cardinality(s) - 1
  BY <1>1, FS_RemoveElement
<1>4. Cardinality(s) = 0 <=> s = {}
  BY <1>1, FS_EmptySet
<1>5. s # {} => Some(s) \in s
  BY DEF Some
<1> QED BY <1>1, <1>2, <1>3, <1>4, <1>5

\* The recursion of SumFunction has a solution.
LEMMA SumExists ==
  ASSUME NEW D, IsFiniteSet(D), NEW f \in [D -> Int]
  PROVE  \E g : SumOver(f, D, g)
<1> DEFINE P == SUBSET D
           m == [s \in P |-> Cardinality(s)]
           body(g, s) == IF s = {} THEN 0 ELSE f[Some(s)] + g[s \ {Some(s)}]
           F == [s \in P |-> [g \in [P -> Int] |-> body(g, s)]]
           K == Cardinality(D) + 1
<1>1. K \in Nat /\ m \in [P -> Nat] /\ \A s \in P : m[s] < K /\ m[s] = Cardinality(s)
  <2>1. Cardinality(D) \in Nat
    BY FS_CardinalityType
  <2>2. \A s \in P : Cardinality(s) \in Nat /\ Cardinality(s) <= Cardinality(D)
    BY Smaller
  <2> QED BY <2>1, <2>2
<1>2. ASSUME NEW s \in P, NEW g \in [P -> Int] PROVE body(g, s) \in Int
  <2>1. CASE s = {}
    BY <2>1
  <2>2. CASE s # {}
    <3>1. Some(s) \in D /\ s \ {Some(s)} \in P
      BY <2>2, Smaller
    <3>2. f[Some(s)] \in Int /\ g[s \ {Some(s)}] \in Int
      BY <3>1
    <3> QED BY <2>2, <3>2
  <2> QED BY <2>1, <2>2
<1>3. F \in [P -> [[P -> Int] -> Int]]
  BY <1>2
<1>4. ASSUME NEW s \in P, NEW g \in [P -> Int], NEW h \in [P -> Int],
             \A q \in P : m[q] < m[s] => g[q] = h[q]
      PROVE  F[s][g] = F[s][h]
  <2>1. s # {} => s \ {Some(s)} \in P /\ m[s \ {Some(s)}] < m[s]
    <3> SUFFICES ASSUME s # {} PROVE s \ {Some(s)} \in P /\ m[s \ {Some(s)}] < m[s]
      OBVIOUS
    <3>1. Some(s) \in s /\ Cardinality(s) \in Nat
      BY Smaller
    <3>2. s \ {Some(s)} \in P /\ Cardinality(s \ {Some(s)}) = Cardinality(s) - 1
      BY <3>1, Smaller
    <3> HIDE DEF m
    <3> QED BY <1>1, <3>1, <3>2
  <2>2. body(g, s) = body(h, s)
    BY <1>4, <2>1
  <2> QED BY <2>2
<1>5. Decreasing(P, Int, m, F)
  <2> HIDE DEF F, m
  <2> QED BY <1>4 DEF Decreasing
<1>6. Solvable(P, Int, F)
  <2> HIDE DEF F, m, P, K
  <2>1. 0 \in Int
    OBVIOUS
  <2> QED BY <1>1, <1>3, <1>5, <2>1, Recursion
<1>7. PICK g \in [P -> Int] : \A s \in P : g[s] = F[s][g]
  BY <1>6 DEF Solvable
<1>8. \A s \in P : g[s] = body(g, s)
  BY <1>7
<1> QED BY <1>8 DEF SumOver

\* SumFunction is that solution.
LEMMA SumFunctionIs ==
  ASSUME NEW D, IsFiniteSet(D), NEW f \in [D -> Int]
  PROVE  \E g : SumOver(f, D, g) /\ SumFunction(f) = g[D]
<1> DEFINE Eq(g) == g = [s \in SUBSET D |-> IF s = {} THEN 0
                           ELSE f[CHOOSE x \in s : TRUE] + g[s \ {CHOOSE x \in s : TRUE}]]
           i == CHOOSE g : Eq(g)
<1>0. DOMAIN f = D
  OBVIOUS
<1>1. SumFunction(f) = i[D]
  BY <1>0, Zenon DEF SumFunction, SumFunctionOnSet, FoldFunctionOnSet, MapThenFoldSet
<1>2. PICK g : SumOver(f, D, g)
  BY SumExists
<1>3. g = [s \in SUBSET D |-> g[s]]
  BY <1>2 DEF SumOver
<1>4. \A s \in SUBSET D : g[s] = IF s = {} THEN 0 ELSE f[Some(s)] + g[s \ {Some(s)}]
  BY <1>2 DEF SumOver
<1>5. Eq(g)
  BY <1>3, <1>4, Zenon DEF Some
<1>6. Eq(i)
  BY <1>5
<1> HIDE DEF i
<1>7. \A s \in SUBSET D : i[s] = IF s = {} THEN 0 ELSE f[Some(s)] + i[s \ {Some(s)}]
  BY <1>6, Zenon DEF Some
<1> DEFINE N == {k \in Nat : \A s \in SUBSET D : Cardinality(s) < k => i[s] = g[s]}
<1>8. 0 \in N
  BY Smaller
<1>9. ASSUME NEW k \in Nat, k \in N PROVE k + 1 \in N
  <2>1. ASSUME NEW s \in SUBSET D, Cardinality(s) < k + 1 PROVE i[s] = g[s]
    <3>1. CASE s = {}
      BY <1>4, <1>7, <3>1
    <3>2. CASE s # {}
      <4> DEFINE r == s \ {Some(s)}
      <4>1. r \in SUBSET D /\ Cardinality(r) = Cardinality(s) - 1 /\ Cardinality(s) \in Nat
        BY <3>2, Smaller
      <4> HIDE DEF r
      <4>2. i[r] = g[r]
        BY <1>9, <2>1, <4>1
      <4>3. i[s] = f[Some(s)] + i[r] /\ g[s] = f[Some(s)] + g[r]
        BY <1>4, <1>7, <3>2 DEF r
      <4> QED BY <4>2, <4>3
    <3> QED BY <3>1, <3>2
  <2> QED BY <2>1
<1>10. Nat \subseteq N
  <2> HIDE DEF N
  <2> QED BY <1>8, <1>9, SetInduction
<1>11. i[D] = g[D]
  <2>1. Cardinality(D) \in Nat
    BY FS_CardinalityType
  <2>2. Cardinality(D) + 1 \in Nat /\ Cardinality(D) < Cardinality(D) + 1
    BY <2>1
  <2>3. Cardinality(D) + 1 \in N
    BY <1>10, <2>2, Zenon
  <2> QED BY <2>2, <2>3
<1> QED BY <1>1, <1>2, <1>11

\* The order of the summands makes no difference.
LEMMA SumAny ==
  ASSUME NEW D, IsFiniteSet(D), NEW f \in [D -> Int], NEW g, SumOver(f, D, g)
  PROVE  \A s \in SUBSET D : \A x \in s : g[s] = f[x] + g[s \ {x}]
<1> DEFINE N == {k \in Nat : \A s \in SUBSET D : Cardinality(s) < k =>
                               \A x \in s : g[s] = f[x] + g[s \ {x}]}
<1>1. \A s \in SUBSET D : g[s] \in Int /\ g[s] = IF s = {} THEN 0 ELSE f[Some(s)] + g[s \ {Some(s)}]
  BY DEF SumOver
<1>2. 0 \in N
  BY Smaller
<1>3. ASSUME NEW k \in Nat, k \in N PROVE k + 1 \in N
  <2>1. ASSUME NEW s \in SUBSET D, Cardinality(s) < k + 1, NEW x \in s PROVE g[s] = f[x] + g[s \ {x}]
    <3> DEFINE y == Some(s)
               r == s \ {y}
               t == s \ {x}
               u == (s \ {x}) \ {y}
    <3>1. y \in s /\ Cardinality(s) \in Nat /\ s # {}
      BY <2>1, Smaller
    <3>2. r \in SUBSET D /\ Cardinality(r) < k /\ t \in SUBSET D /\ Cardinality(t) < k
      <4>1. Cardinality(r) = Cardinality(s) - 1 /\ Cardinality(t) = Cardinality(s) - 1
        BY <3>1, Smaller
      <4> QED BY <2>1, <3>1, <4>1
    <3>3. g[s] = f[y] + g[r]
      BY <1>1, <3>1
    <3>4. CASE x = y
      BY <3>3, <3>4
    <3>5. CASE x # y
      <4>1. x \in r /\ y \in t /\ r \ {x} = u /\ t \ {y} = u
        BY <3>1, <3>5
      <4> HIDE DEF r, t, u, y
      <4>2. g[r] = f[x] + g[u]
        BY <1>3, <3>2, <4>1
      <4>3. g[t] = f[y] + g[u]
        BY <1>3, <3>2, <4>1
      <4>4. f[x] \in Int /\ f[y] \in Int /\ g[u] \in Int
        <5>1. u \in SUBSET D /\ x \in D /\ y \in D
          BY <3>1, <3>2, <4>1 DEF u
        <5> QED BY <1>1, <5>1
      <4> QED BY <3>3, <4>2, <4>3, <4>4 DEF t
    <3> QED BY <3>4, <3>5
  <2> QED BY <2>1
<1>4. Nat \subseteq N
  <2> HIDE DEF N
  <2> QED BY <1>2, <1>3, SetInduction
<1>5. ASSUME NEW s \in SUBSET D, NEW x \in s PROVE g[s] = f[x] + g[s \ {x}]
  <2>1. Cardinality(s) \in Nat
    BY Smaller
  <2>2. Cardinality(s) + 1 \in Nat /\ Cardinality(s) < Cardinality(s) + 1
    BY <2>1
  <2>3. Cardinality(s) + 1 \in N
    BY <1>4, <2>2, Zenon
  <2> QED BY <2>2, <2>3
<1> QED BY <1>5

\* The sums of the first k numbers.
PartialSums(f, T) ==
    /\ T \in [0 .. Len(f) -> Int] /\ T[0] = 0
    /\ \A k \in 1 .. Len(f) : T[k] = T[k - 1] + f[k]

\* The sum of a sequence is its last partial sum.
LEMMA SumSteps ==
  ASSUME NEW f \in Text
  PROVE  \E T : PartialSums(f, T) /\ SumFunction(f) = T[Len(f)]
<1> DEFINE n == Len(f)
           D == 1 .. n
           T(q) == [k \in 0 .. n |-> q[1 .. k]]
<1>1. n \in Nat /\ f \in [D -> Int]
  <2>1. n \in Nat /\ DOMAIN f = D /\ \A i \in D : f[i] \in Int
    BY TextType
  <2> QED BY <2>1 DEF Text
<1>2. IsFiniteSet(D)
  BY <1>1, FS_Interval
<1> HIDE DEF n
<1>3. PICK g : SumOver(f, D, g) /\ SumFunction(f) = g[D]
  <2> HIDE DEF D
  <2> QED BY <1>1, <1>2, SumFunctionIs
<1>31. \A s \in SUBSET D : \A x \in s : g[s] = f[x] + g[s \ {x}]
  <2> HIDE DEF D
  <2>1. SumOver(f, D, g) /\ f \in [D -> Int] /\ IsFiniteSet(D)
    BY <1>1, <1>2, <1>3
  <2>2. ASSUME NEW s \in SUBSET D, NEW x \in s PROVE g[s] = f[x] + g[s \ {x}]
    <3> HIDE DEF T
    <3> QED BY <2>1, SumAny
  <2> QED BY <2>2
<1>4. \A s \in SUBSET D : g[s] \in Int
  BY <1>3 DEF SumOver
<1>5. \A k \in 0 .. n : 1 .. k \in SUBSET D
  BY <1>1
<1>6. T(g) \in [0 .. n -> Int]
  BY <1>4, <1>5
<1>7. T(g)[0] = 0
  <2>1. 1 .. 0 = {} /\ {} \in SUBSET D
    OBVIOUS
  <2>2. g[{}] = 0
    BY <1>3, <2>1 DEF SumOver
  <2>3. 0 \in 0 .. n
    BY <1>1
  <2> QED BY <2>1, <2>2, <2>3
<1>8. ASSUME NEW k \in 1 .. n PROVE T(g)[k] = T(g)[k - 1] + f[k]
  <2>1. k \in 0 .. n /\ k - 1 \in 0 .. n /\ k \in 1 .. k /\ k \in D
    BY <1>1
  <2>2. (1 .. k) \ {k} = 1 .. (k - 1)
    BY <2>1
  <2>3. 1 .. k \in SUBSET D
    BY <1>5, <2>1
  <2>4. g[1 .. k] = f[k] + g[(1 .. k) \ {k}]
    BY <1>31, <2>1, <2>3, Zenon
  <2>5. g[1 .. (k - 1)] \in Int /\ f[k] \in Int
    BY <1>1, <1>4, <1>5, <2>1
  <2> DEFINE a == g[1 .. (k - 1)]
  <2>6. T(g)[k] = f[k] + a /\ T(g)[k - 1] = a
    BY <2>1, <2>2, <2>4
  <2> HIDE DEF a
  <2>7. a \in Int
    BY <2>5 DEF a
  <2> HIDE DEF T
  <2> QED BY <2>5, <2>6, <2>7
<1>9. SumFunction(f) = T(g)[n]
  <2>1. n \in 0 .. n
    BY <1>1
  <2> QED BY <1>3, <2>1
<1> DEFINE t == T(g)
<1>10. PartialSums(f, t) /\ SumFunction(f) = t[n]
  <2> HIDE DEF T
  <2> QED BY <1>6, <1>7, <1>8, <1>9 DEF PartialSums, n
<1> HIDE DEF t
<1> QED BY <1>10 DEF n

\* One more summand at the end.
LEMMA SumAppend ==
  ASSUME NEW f \in Text, NEW e \in Int
  PROVE  SumFunction(Append(f, e)) = SumFunction(f) + e /\ SumFunction(f) \in Int
<1> DEFINE h == Append(f, e)
           n == Len(f)
<1>1. /\ h \in Text /\ Len(h) = n + 1 /\ n \in Nat /\ h[n + 1] = e
      /\ \A i \in 1 .. n : h[i] = f[i]
  BY AppendProperties, TextType DEF Text
<1> HIDE DEF h
<1>2. PICK T : PartialSums(f, T) /\ SumFunction(f) = T[Len(f)]
  BY SumSteps
<1>3. PICK U : PartialSums(h, U) /\ SumFunction(h) = U[Len(h)]
  BY <1>1, SumSteps
<1>4. T \in [0 .. n -> Int] /\ T[0] = 0 /\ \A k \in 1 .. n : T[k] = T[k - 1] + f[k]
  BY <1>2 DEF PartialSums
<1>5. U[0] = 0 /\ \A k \in 1 .. n + 1 : U[k] = U[k - 1] + h[k]
  BY <1>1, <1>3 DEF PartialSums
<1>6. SumFunction(h) = U[n + 1] /\ SumFunction(f) = T[n]
  BY <1>1, <1>2, <1>3
<1> DEFINE N == {k \in Nat : k <= n => U[k] = T[k]}
<1> HIDE DEF n
<1>7. 0 \in N
  BY <1>4, <1>5
<1>8. ASSUME NEW k \in Nat, k \in N PROVE k + 1 \in N
  <2> SUFFICES ASSUME k + 1 <= n PROVE U[k + 1] = T[k + 1]
    OBVIOUS
  <2>1. k + 1 \in 1 .. n /\ k + 1 \in 1 .. n + 1 /\ (k + 1) - 1 = k /\ k <= n
    BY <1>1
  <2>2. U[k + 1] = U[k] + h[k + 1] /\ T[k + 1] = T[k] + f[k + 1] /\ h[k + 1] = f[k + 1]
    BY <1>1, <1>4, <1>5, <2>1
  <2> QED BY <1>8, <2>1, <2>2
<1>9. Nat \subseteq N
  <2> HIDE DEF N
  <2> QED BY <1>7, <1>8, SetInduction
<1>10. U[n] = T[n]
  BY <1>1, <1>9
<1>11. U[n + 1] = U[n] + e
  <2>1. n + 1 \in 1 .. n + 1 /\ (n + 1) - 1 = n
    BY <1>1
  <2> QED BY <1>1, <1>5, <2>1
<1>12. T[n] \in Int
  BY <1>1, <1>4
<1> QED BY <1>6, <1>10, <1>11, <1>12 DEF h

\* The empty sum.
LEMMA SumNone == SumFunction(<< >>) = 0
<1>1. << >> \in Text /\ Len(<< >>) = 0
  BY EmptySeq DEF Text
<1>2. PICK T : PartialSums(<< >>, T) /\ SumFunction(<< >>) = T[Len(<< >>)]
  BY <1>1, SumSteps
<1> QED BY <1>1, <1>2 DEF PartialSums

\* What a measuring pass adds up is what the writing pass writes.
LEMMA SumOfLengths ==
  ASSUME NEW F \in [Nat -> Text]
  PROVE  \A s \in Seq(Nat) :
           SumFunction([k \in DOMAIN s |-> Len(F[s[k]])]) = Len(FlattenSeq(Images(s, F)))
<1> DEFINE L(s) == [k \in DOMAIN s |-> Len(F[s[k]])]
           G == {s \in Seq(Nat) : SumFunction(L(s)) = Len(FlattenSeq(Images(s, F)))}
<1>0. \A c \in Nat : F[c] \in Text /\ Len(F[c]) \in Nat
  BY TextType
<1>1. ASSUME NEW s \in Seq(Nat)
      PROVE  L(s) \in Text /\ Len(L(s)) = Len(s) /\ \A k \in 1 .. Len(s) : L(s)[k] = Len(F[s[k]])
  <2> DEFINE n == Len(s)
             v == L(s)
  <2>1. n \in Nat /\ DOMAIN s = 1 .. n /\ \A k \in 1 .. n : s[k] \in Nat
    OBVIOUS
  <2>2. v \in [1 .. n -> Int] /\ \A k \in 1 .. n : v[k] = Len(F[s[k]])
    BY <1>0, <2>1
  <2> HIDE DEF n, v
  <2>3. v \in Seq(Int) /\ Len(v) = n
    BY <2>1, <2>2
  <2> QED BY <2>2, <2>3 DEF n, v, Text
<1>2. << >> \in G
  <2>1. << >> \in Seq(Nat)
    BY EmptySeq
  <2>2. L(<< >>) = << >>
    <3>1. L(<< >>) \in Text /\ Len(L(<< >>)) = 0
      BY <1>1, <2>1, EmptySeq
    <3> HIDE DEF L
    <3> QED BY <3>1, EmptySeq DEF Text
  <2>3. Len(FlattenSeq(Images(<< >>, F))) = 0
    BY FlattenImages, EmptySeq
  <2> QED BY <2>1, <2>2, <2>3, SumNone
<1>3. ASSUME NEW s \in Seq(Nat), NEW c \in Nat, s \in G PROVE Append(s, c) \in G
  <2> DEFINE t == Append(s, c)
  <2>1. /\ t \in Seq(Nat) /\ Len(t) = Len(s) + 1 /\ Len(s) \in Nat /\ t[Len(s) + 1] = c
        /\ \A i \in 1 .. Len(s) : t[i] = s[i]
    BY AppendProperties
  <2>2. t = s \o <<c>> /\ <<c>> \in Seq(Nat)
    BY AppendIsConcat
  <2> HIDE DEF t
  <2>3. L(t) = Append(L(s), Len(F[c]))
    <3> DEFINE a == L(t)
               b == Append(L(s), Len(F[c]))
    <3>1. a \in Text /\ Len(a) = Len(s) + 1 /\ \A k \in 1 .. Len(s) + 1 : a[k] = Len(F[t[k]])
      <4>1. a \in Text /\ Len(a) = Len(t) /\ \A k \in 1 .. Len(t) : a[k] = Len(F[t[k]])
        BY <1>1, <2>1
      <4> QED BY <2>1, <4>1
    <3>2. /\ L(s) \in Text /\ Len(L(s)) = Len(s)
          /\ \A k \in 1 .. Len(s) : L(s)[k] = Len(F[s[k]])
      BY <1>1
    <3> HIDE DEF L, a
    <3>3. /\ b \in Text /\ Len(b) = Len(s) + 1 /\ b[Len(s) + 1] = Len(F[c])
          /\ \A k \in 1 .. Len(s) : b[k] = Len(F[s[k]])
      <4> DEFINE d == L(s)
                 e == Len(F[c])
      <4>1. e \in Int /\ d \in Seq(Int) /\ Len(d) = Len(s) /\ \A k \in 1 .. Len(s) : d[k] = Len(F[s[k]])
        BY <1>0, <3>2 DEF Text
      <4> HIDE DEF d, e
      <4>2. /\ Append(d, e) \in Seq(Int) /\ Len(Append(d, e)) = Len(d) + 1 /\ Append(d, e)[Len(d) + 1] = e
            /\ \A k \in 1 .. Len(d) : Append(d, e)[k] = d[k]
        BY <4>1, AppendProperties
      <4>3. b = Append(d, e) /\ e = Len(F[c])
        BY DEF d, e
      <4> HIDE DEF b
      <4> QED BY <4>1, <4>2, <4>3 DEF Text
    <3> HIDE DEF b
    <3>4. \A k \in 1 .. Len(a) : a[k] = b[k]
      <4>1. ASSUME NEW k \in 1 .. Len(s) + 1 PROVE a[k] = b[k]
        <5>1. CASE k = Len(s) + 1
          BY <2>1, <3>1, <3>3, <5>1
        <5>2. CASE k # Len(s) + 1
          <6>1. k \in 1 .. Len(s)
            BY <2>1, <5>2
          <6> QED BY <2>1, <3>1, <3>3, <6>1
        <5> QED BY <5>1, <5>2
      <4> QED BY <3>1, <4>1
    <3>5. a = b
      BY <3>1, <3>3, <3>4, SameText
    <3> QED BY <3>5 DEF a, b
  <2>4. L(s) \in Text /\ Len(F[c]) \in Int
    BY <1>0, <1>1
  <2> HIDE DEF L
  <2>5. SumFunction(L(t)) = SumFunction(L(s)) + Len(F[c])
    BY <2>3, <2>4, SumAppend
  <2>6. FlattenSeq(Images(t, F)) = FlattenSeq(Images(s, F)) \o F[c] /\ FlattenSeq(Images(s, F)) \in Text
    BY <2>2, FlattenImages
  <2>7. Len(FlattenSeq(Images(s, F)) \o F[c]) = Len(FlattenSeq(Images(s, F))) + Len(F[c])
    BY <1>0, <2>6, ConcatProperties DEF Text
  <2>8. SumFunction(L(s)) = Len(FlattenSeq(Images(s, F)))
    BY <1>3
  <2> QED BY <2>1, <2>5, <2>6, <2>7, <2>8 DEF t
<1>4. Seq(Nat) \subseteq G
  <2> HIDE DEF G
  <2> QED BY <1>2, <1>3, AppendInduction
<1> QED BY <1>4

-----------------------------------------------------------------------------
(* Measuring passes, and bounded buffers.                                  *)

\* The measuring passes.
LEMMA MeasuredIs == \A s \in Seq(Nat) : Measured(s) = Len(Encoded(s))
<1> DEFINE F == [c \in Nat |-> Encode(c)]
<1>1. F \in [Nat -> Text] /\ \A c \in Nat : F[c] = Encode(c) /\ Len(F[c]) = EncodedLength(c)
  BY EncodeIs
<1> HIDE DEF F
<1>2. ASSUME NEW s \in Seq(Nat) PROVE Measured(s) = Len(Encoded(s))
  <2>0. \A k \in DOMAIN s : s[k] \in Nat
    OBVIOUS
  <2>1. \A k \in DOMAIN s : F[s[k]] = Encode(s[k]) /\ Len(F[s[k]]) = EncodedLength(s[k])
    BY <1>1, <2>0, Zenon
  <2>2. [k \in DOMAIN s |-> Len(F[s[k]])] = [k \in DOMAIN s |-> EncodedLength(s[k])]
    BY <2>1, Zenon
  <2>3. Images(s, F) = [k \in DOMAIN s |-> Encode(s[k])]
    BY <2>1, Zenon DEF Images
  <2>4. SumFunction([k \in DOMAIN s |-> Len(F[s[k]])]) = Len(FlattenSeq(Images(s, F)))
    BY <1>1, SumOfLengths
  <2> QED BY <2>2, <2>3, <2>4, Zenon DEF Measured, Encoded
<1> QED BY <1>2

\* The units of a scalar value are as many as were measured.
LEMMA UnitsMeasured ==
  ASSUME NEW c \in Scalar
  PROVE  Len(Units(c)) = IF c > 65535 /\ c <= 1114111 THEN 2 ELSE 1
<1>1. c \in Nat /\ c <= 1114111
  BY DEF Scalar, IsScalar
<1>2. CASE c <= 65535 /\ Units(c) = <<c>>
  <2>1. Len(<<c>>) = 1
    OBVIOUS
  <2> QED BY <1>1, <1>2, <2>1, SMT
<1>3. CASE 65535 < c /\ \E x, y : Units(c) = <<x, y>>
  <2>1. PICK x, y : Units(c) = <<x, y>>
    BY <1>3
  <2>2. Len(<<x, y>>) = 2
    OBVIOUS
  <2> QED BY <1>1, <1>3, <2>1, <2>2, SMT
<1>4. \/ c <= 65535 /\ Units(c) = <<c>>
      \/ /\ 65535 < c
         /\ Units(c) = <<55296 + ((c - 65536) \div 1024), 56320 + ((c - 65536) % 1024)>>
  BY <1>1, UnitsIs
<1> QED BY <1>2, <1>3, <1>4, SMT

\* So are those of a whole sequence.
LEMMA Utf32Measured == \A s \in Seq(Scalar) : Utf32Length(s) = Len(AllUnits(s))
<1> DEFINE F == [c \in Nat |-> Units(c)]
<1>1. F \in [Nat -> Text] /\ \A c \in Nat : F[c] = Units(c)
  BY UnitsIs
<1>11. Seq(Scalar) \subseteq Seq(Nat) /\ Scalar \subseteq Nat
  <2>1. Scalar \subseteq Nat
    BY DEF Scalar
  <2> QED BY <2>1, SeqOfMore
<1> HIDE DEF F
<1>2. ASSUME NEW s \in Seq(Scalar) PROVE Utf32Length(s) = Len(AllUnits(s))
  <2> DEFINE two(c) == IF c > 65535 /\ c <= 1114111 THEN 2 ELSE 1
  <2>0. \A k \in DOMAIN s : s[k] \in Scalar
    OBVIOUS
  <2>1. \A k \in DOMAIN s : F[s[k]] = Units(s[k]) /\ Len(F[s[k]]) = two(s[k])
    <3> SUFFICES ASSUME NEW k \in DOMAIN s
                 PROVE  F[s[k]] = Units(s[k]) /\ Len(F[s[k]]) = two(s[k])
      OBVIOUS
    <3>1. s[k] \in Scalar
      BY <2>0
    <3>2. F[s[k]] = Units(s[k])
      BY <1>1, <1>11, <3>1, Zenon
    <3>3. Len(Units(s[k])) = two(s[k])
      BY <3>1, UnitsMeasured
    <3> HIDE DEF two
    <3> QED BY <3>2, <3>3, Zenon
  <2>2. [k \in DOMAIN s |-> Len(F[s[k]])] = [k \in DOMAIN s |-> two(s[k])]
    <3> HIDE DEF two
    <3> QED BY <2>1, Zenon
  <2>3. Images(s, F) = [k \in DOMAIN s |-> Units(s[k])]
    <3> HIDE DEF two
    <3> QED BY <2>1, Zenon DEF Images
  <2>4. SumFunction([k \in DOMAIN s |-> Len(F[s[k]])]) = Len(FlattenSeq(Images(s, F)))
    BY <1>1, <1>11, SumOfLengths
  <2>5. Utf32Length(s) = SumFunction([k \in DOMAIN s |-> two(s[k])])
    BY SMT DEF Utf32Length
  <2> HIDE DEF two
  <2> QED BY <2>2, <2>3, <2>4, <2>5, Zenon DEF AllUnits
<1> QED BY <1>2

\* So is what is decoded.
LEMMA DecodedMeasured ==
  ASSUME NEW bytes, Decoded(bytes) \in Seq(Scalar)
  PROVE  FromUtf8Length(bytes) = Len(AllUnits(Decoded(bytes)))
<1> DEFINE s == Decoded(bytes)
           wide(c) == IF c > 65535 THEN 2 ELSE 1
           two(c) == IF c > 65535 /\ c <= 1114111 THEN 2 ELSE 1
<1>1. FromUtf8Length(bytes) = SumFunction([k \in DOMAIN s |-> wide(s[k])])
  BY SMT DEF FromUtf8Length
<1>2. Utf32Length(s) = SumFunction([k \in DOMAIN s |-> two(s[k])])
  BY SMT DEF Utf32Length
<1>3. s \in Seq(Scalar)
  OBVIOUS
<1> HIDE DEF s
<1>4. ASSUME NEW k \in DOMAIN s PROVE wide(s[k]) = two(s[k])
  <2>1. s[k] \in Scalar
    BY <1>3
  <2> QED BY <2>1 DEF Scalar, IsScalar
<1> HIDE DEF wide, two
<1>5. [k \in DOMAIN s |-> wide(s[k])] = [k \in DOMAIN s |-> two(s[k])]
  BY <1>4, Zenon
<1>6. FromUtf8Length(bytes) = Utf32Length(s)
  BY <1>1, <1>2, <1>5, Zenon
<1>7. Utf32Length(s) = Len(AllUnits(s))
  BY <1>3, Utf32Measured
<1> QED BY <1>6, <1>7, Zenon DEF s

\* What decode_utf8 has accepted or replaced survives the way back.
LEMMA BytesSurvive ==
  ASSUME NEW bytes \in Seq(Byte)
  PROVE  DecodesSafely(bytes)
<1> DEFINE cps == Decoded(bytes)
           text == FromUtf8(bytes)
<1>1. cps \in Seq(Scalar) /\ text = AllUnits(cps)
  BY DecodedType, Zenon DEF FromUtf8
<1> HIDE DEF cps
<1>2. CodePoints(text) = cps /\ Whole(text) /\ text \in Text
  BY <1>1, UnitsAgain
<1> HIDE DEF text
<1>3. ToUtf32(text) = cps
  BY <1>2, ToUtf32Is
<1>4. FromUtf8(ToUtf8(text)) = text
  <2>1. ToUtf8(text) = Encoded(cps)
    BY <1>2, Zenon DEF ToUtf8
  <2>2. Decoded(Encoded(cps)) = cps
    BY <1>1, DecodedAgain
  <2> QED BY <1>1, <2>1, <2>2, Zenon DEF FromUtf8
<1>5. ASSUME NEW i \in DOMAIN bytes, bytes[i] < 248, Decode(bytes, i).value # Replacement
      PROVE  Encode(Decode(bytes, i).value)
               = <<bytes[i]>> \o SubSeq(bytes, i + 1, Decode(bytes, i).next - 1)
  <2>1. i \in 1 .. Len(bytes) /\ bytes[i] \in Nat
    BY SMT DEF Byte
  <2>2. Lawful(bytes[i]) = bytes[i]
    BY <1>5, <2>1, SMT DEF Lawful
  <2>3. Encode(Decode(bytes, i).value)
          = <<Lawful(bytes[i])>> \o SubSeq(bytes, i + 1, Decode(bytes, i).next - 1)
    BY <1>5, <2>1, DecodeLawful
  <2> QED BY <2>2, <2>3, Zenon
<1>6. FromUtf8Length(bytes) = Len(text)
  <2>1. FromUtf8Length(bytes) = Len(AllUnits(Decoded(bytes)))
    BY <1>1, DecodedMeasured DEF cps
  <2> QED BY <1>1, <2>1, Zenon DEF cps
<1> QED BY <1>3, <1>4, <1>5, <1>6, Zenon DEF DecodesSafely, text, cps

\* Bounded buffers.
LEMMA Beginning ==
  ASSUME NEW text \in Text, NEW n \in Nat, n <= Len(text)
  PROVE  /\ SubSeq(text, 1, n) \in Text /\ Len(SubSeq(text, 1, n)) = n
         /\ \A i \in 1 .. n : SubSeq(text, 1, n)[i] = text[i]
<1>1. 0 \in Nat /\ 0 <= n /\ 0 + 1 = 1 /\ n - 0 = n /\ \A i \in 1 .. n : 0 + i = i
  OBVIOUS
<1>2. /\ SubSeq(text, 0 + 1, n) \in Text /\ Len(SubSeq(text, 0 + 1, n)) = n - 0
      /\ \A i \in 1 .. n - 0 : SubSeq(text, 0 + 1, n)[i] = text[0 + i]
  BY <1>1, Cut
<1> QED BY <1>1, <1>2, Zenon

\* A beginning is a prefix.
LEMMA Prefixed ==
  ASSUME NEW a \in Seq(Int), NEW b \in Seq(Int) PROVE IsPrefix(a, a \o b)
<1> DEFINE c == a \o b
           n == Len(a)
<1>1. /\ c \in Text /\ a \in Text /\ n \in Nat /\ Len(b) \in Nat /\ Len(c) = n + Len(b)
      /\ \A i \in 1 .. n : c[i] = a[i]
  BY ConcatProperties DEF Text
<1> HIDE DEF c
<1>2. Len(a) <= Len(c) /\ n <= Len(a) /\ n <= Len(c)
  BY <1>1
<1>3. SubSeq(a, 1, n) \in Text /\ Len(SubSeq(a, 1, n)) = n
      /\ \A i \in 1 .. n : SubSeq(a, 1, n)[i] = a[i]
  BY <1>1, <1>2, Beginning
<1>4. SubSeq(c, 1, n) \in Text /\ Len(SubSeq(c, 1, n)) = n
      /\ \A i \in 1 .. n : SubSeq(c, 1, n)[i] = c[i]
  BY <1>1, <1>2, Beginning
<1> HIDE DEF n
<1>5. \A i \in 1 .. n : SubSeq(a, 1, n)[i] = SubSeq(c, 1, n)[i]
  BY <1>1, <1>3, <1>4
<1>6. SubSeq(a, 1, n) = SubSeq(c, 1, n)
  <2> DEFINE x == SubSeq(a, 1, n)
             y == SubSeq(c, 1, n)
  <2>1. x \in Text /\ y \in Text /\ Len(x) = Len(y) /\ Len(x) = n /\ \A i \in 1 .. n : x[i] = y[i]
    BY <1>1, <1>3, <1>4, <1>5
  <2> HIDE DEF x, y
  <2>2. x = y
    BY <2>1, SameText, Zenon
  <2> QED BY <2>2 DEF x, y
<1> QED BY <1>2, <1>6 DEF IsPrefix, c, n

\* A zero at the end is the last unit, and the rest is in front of it.
LEMMA Terminated ==
  ASSUME NEW a \in Seq(Int)
  PROVE  /\ Len(Append(a, 0)) = Len(a) + 1 /\ Last(Append(a, 0)) = 0 /\ Front(Append(a, 0)) = a
<1> DEFINE b == Append(a, 0)
           n == Len(a)
<1>1. /\ b \in Text /\ a \in Text /\ n \in Nat /\ Len(b) = n + 1 /\ b[n + 1] = 0
      /\ \A i \in 1 .. n : b[i] = a[i]
  BY AppendProperties DEF Text
<1> HIDE DEF b
<1>2. Last(b) = 0 /\ n <= Len(b)
  BY <1>1 DEF Last
<1>3. SubSeq(b, 1, n) \in Text /\ Len(SubSeq(b, 1, n)) = n
      /\ \A i \in 1 .. n : SubSeq(b, 1, n)[i] = b[i]
  BY <1>1, <1>2, Beginning
<1>4. Front(b) = SubSeq(b, 1, n)
  BY <1>1 DEF Front
<1>5. SubSeq(b, 1, n) = a
  <2> DEFINE x == SubSeq(b, 1, n)
  <2>1. x \in Text /\ Len(x) = n /\ \A i \in 1 .. n : x[i] = b[i]
    BY <1>1, <1>3
  <2> HIDE DEF x
  <2>2. \A i \in 1 .. n : x[i] = a[i]
    BY <1>1, <2>1
  <2>3. x = a
    BY <1>1, <2>1, <2>2, SameText, Zenon
  <2> QED BY <2>3 DEF x
<1> QED BY <1>1, <1>2, <1>4, <1>5 DEF b

\* The parts into which a sequence is cut.
LEMMA CutInTwo ==
  ASSUME NEW S, NEW s \in Seq(S), NEW k \in 0 .. Len(s)
  PROVE  /\ SubSeq(s, 1, k) \in Seq(S) /\ SubSeq(s, k + 1, Len(s)) \in Seq(S)
         /\ s = SubSeq(s, 1, k) \o SubSeq(s, k + 1, Len(s))
         /\ Len(SubSeq(s, 1, k)) = k
<1>1. Len(s) \in Nat /\ \A i \in 1 .. Len(s) : s[i] \in S
  OBVIOUS
<1>2. SubSeq(s, 1, k) \o SubSeq(s, k + 1, Len(s)) = SubSeq(s, 1, Len(s))
  <2>1. 1 \in 1 .. Len(s) + 1 /\ k \in 1 - 1 .. Len(s) /\ Len(s) \in k .. Len(s)
    BY <1>1
  <2> QED BY <2>1, ConcatAdjacentSubSeq
<1>3. SubSeq(s, 1, Len(s)) = s
  BY SubSeqFull
<1>4. SubSeq(s, 1, k) \in Seq(S) /\ Len(SubSeq(s, 1, k)) = k
  <2>1. 1 \in Int /\ k \in Int /\ \A i \in 1 .. k : s[i] \in S
    BY <1>1
  <2>2. Len(SubSeq(s, 1, k)) = IF 1 <= k THEN k - 1 + 1 ELSE 0
    BY <2>1, SubSeqProperties
  <2>3. SubSeq(s, 1, k) \in Seq(S)
    BY <2>1, SubSeqProperties
  <2> QED BY <1>1, <2>2, <2>3
<1>5. SubSeq(s, k + 1, Len(s)) \in Seq(S)
  <2>1. k + 1 \in Int /\ Len(s) \in Int /\ \A i \in k + 1 .. Len(s) : s[i] \in S
    BY <1>1
  <2> QED BY <2>1, SubSeqProperties
<1> QED BY <1>2, <1>3, <1>4, <1>5

\* The code points of any text, and the bytes that spell them.
Pointed(cps, bytes, s, u, t) ==
    /\ cps = s \o u /\ bytes = Encoded(cps) /\ Decoded(bytes) = s \o t
    /\ Len(u) <= 1 /\ u \in Seq(Nat) /\ t \in Seq(Nat)
    /\ \A k \in DOMAIN u : u[k] \in High

\* Every text has such code points.
LEMMA Pointing ==
  ASSUME NEW text \in Seq(Unit)
  PROVE  \E s \in Seq(Scalar) : \E u, t : Pointed(CodePoints(text), ToUtf8(text), s, u, t)
<1>0. Seq(Scalar) \subseteq Seq(Nat) /\ Seq(Scalar) \subseteq Seq(Int)
  <2>1. Scalar \subseteq Nat
    BY DEF Scalar
  <2> QED BY <2>1, UnitInt, SeqOfMore
<1>1. PICK s \in Seq(Scalar) : Ends(text, s)
  BY AllEnd
<1>2. s \in Seq(Nat) /\ s \in Seq(Int)
  BY <1>0
<1>3. ToUtf8(text) = Encoded(CodePoints(text))
  BY Zenon DEF ToUtf8
<1>4. CASE Ended(text, s)
  <2>1. CodePoints(text) = s
    BY <1>4, Zenon DEF Ended
  <2>2. Decoded(Encoded(s)) = s
    BY DecodedAgain
  <2> DEFINE e == << >>
  <2>3. e \in Seq(Nat) /\ Len(e) <= 1 /\ \A k \in DOMAIN e : e[k] \in High
    BY EmptySeq
  <2>4. s \o e = s
    BY <1>2, ConcatEmptySeq
  <2> HIDE DEF e
  <2>5. Pointed(CodePoints(text), ToUtf8(text), s, e, e)
    BY <1>3, <2>1, <2>2, <2>3, <2>4, Zenon DEF Pointed
  <2> QED BY <2>5
<1>5. ASSUME NEW h, Broken(text, s, h)
      PROVE  \E u, t : Pointed(CodePoints(text), ToUtf8(text), s, u, t)
  <2> DEFINE r == <<Replacement>> \o <<Replacement, Replacement>>
             u == <<h>>
  <2>1. CodePoints(text) = s \o u /\ h \in High
    BY <1>5, Zenon DEF Broken
  <2>2. h \in Nat
    <3>1. h \in Int
      BY <2>1, HighInt
    <3> QED BY <2>1, <3>1, HighIs, SMT
  <2>21. u \in Seq(Nat) /\ Len(u) = 1 /\ u[1] = h /\ DOMAIN u = {1}
    BY <2>2
  <2>3. Encoded(s \o u) = Encoded(s) \o Encode(h)
    <3> HIDE DEF u
    <3>1. Encoded(s \o u) = Encoded(s) \o Encoded(u)
      BY <1>2, <2>21, EncodedIs
    <3>2. Encoded(<<h>>) = Encode(h)
      BY <2>2, EncodedIs
    <3> QED BY <3>1, <3>2, Zenon DEF u
  <2>4. Encode(h) \in Text /\ Decoded(Encode(h)) = r
    BY <2>1, HighDecoded
  <2>5. Decoded(Encoded(s) \o Encode(h)) = s \o r
    BY <2>4, DecodedPrefix
  <2>6. r \in Seq(Nat)
    <3>1. <<Replacement>> \in Seq(Nat) /\ <<Replacement, Replacement>> \in Seq(Nat)
      BY ReplacementIs
    <3> QED BY <3>1, ConcatProperties
  <2> HIDE DEF r, u
  <2>7. Len(u) <= 1 /\ \A k \in DOMAIN u : u[k] \in High
    BY <2>1, <2>21
  <2>8. Pointed(CodePoints(text), ToUtf8(text), s, u, r)
    BY <1>3, <2>1, <2>21, <2>3, <2>5, <2>6, <2>7, Zenon DEF Pointed
  <2> QED BY <2>8
<1> QED BY <1>1, <1>4, <1>5 DEF Ends

\* What follows from that, without the parts.
Point == {c \in Nat : c <= 1114111}

\* The code points of a text, and the bytes it is written in.
LEMMA PointsType ==
  ASSUME NEW text \in Seq(Unit)
  PROVE  /\ CodePoints(text) \in Seq(Point) /\ CodePoints(text) \in Seq(Nat)
         /\ ToUtf8(text) = Encoded(CodePoints(text))
         /\ ToUtf8(text) \in Text
<1>1. PICK s \in Seq(Scalar) : \E u, t : Pointed(CodePoints(text), ToUtf8(text), s, u, t)
  BY Pointing
<1>2. PICK u, t : Pointed(CodePoints(text), ToUtf8(text), s, u, t)
  BY <1>1
<1> DEFINE cps == CodePoints(text)
<1>3. cps = s \o u /\ u \in Seq(Nat) /\ \A k \in DOMAIN u : u[k] \in High
  BY <1>2, Zenon DEF Pointed
<1>4. s \in Seq(Point)
  <2>1. Scalar \subseteq Point
    BY SMT DEF Scalar, IsScalar, Point
  <2> QED BY <2>1, SeqOfMore
<1>5. u \in Seq(Point)
  <2>1. Len(u) \in Nat /\ DOMAIN u = 1 .. Len(u) /\ \A k \in 1 .. Len(u) : u[k] \in Nat
    BY <1>3
  <2>2. \A k \in 1 .. Len(u) : u[k] \in Point
    <3> SUFFICES ASSUME NEW k \in 1 .. Len(u) PROVE u[k] \in Point
      OBVIOUS
    <3>1. u[k] \in High /\ u[k] \in Nat
      BY <1>3, <2>1
    <3> QED BY <3>1, HighIs, SMT DEF Point
  <2>3. u \in Seq(Nat)
    BY <1>3
  <2> QED BY <2>1, <2>2, <2>3
<1> HIDE DEF cps
<1>6. cps \in Seq(Point)
  BY <1>3, <1>4, <1>5, ConcatProperties
<1>7. Point \subseteq Nat
  BY DEF Point
<1>8. cps \in Seq(Nat)
  BY <1>6, <1>7, SeqOfMore
<1>9. ToUtf8(text) = Encoded(cps)
  BY Zenon DEF ToUtf8, cps
<1>10. Encoded(cps) \in Text
  BY <1>8, EncodedIs
<1> QED BY <1>6, <1>8, <1>9, <1>10, Zenon DEF cps

\* A first byte asks for as many bytes as were written after it.
LEMMA NeededIs ==
  ASSUME NEW c \in Point
  PROVE  /\ Encode(c) \in Text /\ Len(Encode(c)) \in Nat /\ Len(Encode(c)) # 0
         /\ Needed(Encode(c)[1]) = Len(Encode(c)) - 1
<1>0. c \in Nat /\ Encode(c) \in Text /\ Len(Encode(c)) = EncodedLength(c)
  BY EncodeIs DEF Point
<1>1. CASE c <= 127
  <2>1. EncodedLength(c) = 1 /\ Encode(c) = <<c>>
    BY <1>0, <1>1, EncodeIs, SMT
  <2>2. Encode(c)[1] = c
    BY <2>1
  <2>3. Needed(c) = 0
    BY <1>0, <1>1, SMT DEF Needed
  <2> QED BY <1>0, <2>1, <2>2, <2>3, SMT
<1>2. CASE 127 < c /\ c <= 2047
  <2> DEFINE b == 192 + (c \div 64)
  <2>1. EncodedLength(c) = 2 /\ Encode(c) = <<b, Continuation(c)>>
    BY <1>0, <1>2, EncodeInTwo, SMT
  <2>2. Encode(c)[1] = b
    BY <2>1
  <2>3. Needed(b) = 1
    BY <1>0, <1>2, SMT DEF Needed
  <2> HIDE DEF b
  <2> QED BY <1>0, <2>1, <2>2, <2>3, SMT
<1>3. CASE 2047 < c /\ c <= 65535
  <2> DEFINE b == 224 + (c \div 4096)
  <2>1. EncodedLength(c) = 3 /\ Encode(c) = <<b, Continuation(c \div 64), Continuation(c)>>
    BY <1>0, <1>3, EncodeInThree, SMT
  <2>2. Encode(c)[1] = b
    BY <2>1, SMT
  <2>3. Needed(b) = 2
    BY <1>0, <1>3, SMT DEF Needed
  <2> HIDE DEF b
  <2> QED BY <1>0, <2>1, <2>2, <2>3, SMT
<1>4. CASE 65535 < c
  <2> DEFINE b == 240 + (c \div 262144)
  <2>1. /\ EncodedLength(c) = 4
        /\ Encode(c) = <<b, Continuation(c \div 4096), Continuation(c \div 64), Continuation(c)>>
    BY <1>0, <1>4, EncodeInFour, SMT
  <2>2. Encode(c)[1] = b
    BY <2>1, SMT
  <2>3. Needed(b) = 3
    BY <1>0, <1>4, SMT DEF Needed
  <2> HIDE DEF b
  <2> QED BY <1>0, <2>1, <2>2, <2>3, SMT
<1> QED BY <1>0, <1>1, <1>2, <1>3, <1>4, SMT

\* The code points that fit, and no more of them do.
Fits(cps, size, K) ==
    /\ Len(Encoded(SubSeq(cps, 1, K))) <= size
    /\ K = Len(cps) \/ ~(Len(Encoded(SubSeq(cps, 1, K + 1))) <= size)

\* The written code points fit, and one more would not.
LEMMA FittingIs ==
  ASSUME NEW text \in Seq(Unit), NEW size \in Nat
  PROVE  \E K \in 0 .. Len(CodePoints(text)) :
           /\ Fitting(text, size) = Encoded(SubSeq(CodePoints(text), 1, K))
           /\ Fits(CodePoints(text), size, K)
<1> DEFINE cps == CodePoints(text)
           n == Len(cps)
           fit == {k \in 0 .. n : Measured(SubSeq(cps, 1, k)) <= size}
           K == Max(fit)
<1>1. cps \in Seq(Nat) /\ n \in Nat
  BY PointsType
<1>2. Fitting(text, size) = Encoded(SubSeq(cps, 1, K))
  BY Zenon DEF Fitting
<1> HIDE DEF cps
<1>3. \A k \in 0 .. n : Measured(SubSeq(cps, 1, k)) = Len(Encoded(SubSeq(cps, 1, k)))
  BY <1>1, CutInTwo, MeasuredIs
<1>4. 0 \in fit
  <2>1. SubSeq(cps, 1, 0) = << >>
    BY SubSeqEmpty
  <2>2. 0 \in 0 .. n
    BY <1>1
  <2>3. Len(Encoded(SubSeq(cps, 1, 0))) = 0
    BY <2>1, EncodedIs, EmptySeq
  <2>4. Measured(SubSeq(cps, 1, 0)) = 0
    BY <1>3, <2>2, <2>3
  <2> QED BY <2>2, <2>4
<1>5. fit \in SUBSET Nat /\ \A y \in fit : y <= n
  BY <1>1
<1>6. K \in fit /\ \A y \in fit : y <= K
  <2> HIDE DEF fit
  <2> QED BY <1>1, <1>4, <1>5, MaxMember
<1>7. K \in 0 .. n /\ Measured(SubSeq(cps, 1, K)) <= size
  <2> HIDE DEF K
  <2> QED BY <1>6
<1>8. CASE K # n
  <2> HIDE DEF K
  <2>1. K + 1 \in 0 .. n /\ ~(K + 1 <= K)
    BY <1>1, <1>7, <1>8
  <2>2. ~(Measured(SubSeq(cps, 1, K + 1)) <= size)
    BY <1>6, <2>1
  <2>3. Fits(cps, size, K)
    BY <1>3, <1>7, <2>1, <2>2 DEF Fits
  <2> QED BY <1>2, <1>7, <2>3 DEF cps
<1>9. CASE K = n
  <2> HIDE DEF K
  <2>1. Fits(cps, size, K)
    BY <1>3, <1>7, <1>9 DEF Fits
  <2> QED BY <1>2, <1>7, <2>1 DEF cps
<1> QED BY <1>8, <1>9

\* What a bounded buffer holds without its final zero.
LEMMA FittingLength ==
  ASSUME NEW text \in Seq(Unit), NEW size \in Nat
  PROVE  /\ Fitting(text, size) \in Text /\ Len(Fitting(text, size)) <= size
         /\ IsPrefix(Fitting(text, size), ToUtf8(text))
<1> DEFINE cps == CodePoints(text)
           n == Len(cps)
<1>1. cps \in Seq(Nat) /\ ToUtf8(text) = Encoded(cps) /\ n \in Nat
  BY PointsType
<1>2. PICK K \in 0 .. n : Fitting(text, size) = Encoded(SubSeq(cps, 1, K)) /\ Fits(cps, size, K)
  BY FittingIs
<1> HIDE DEF cps
<1> DEFINE a == SubSeq(cps, 1, K)
           b == SubSeq(cps, K + 1, n)
<1>3. a \in Seq(Nat) /\ b \in Seq(Nat) /\ cps = a \o b
  BY <1>1, CutInTwo
<1>4. Len(Encoded(a)) <= size
  BY <1>2 DEF Fits
<1>5. Fitting(text, size) = Encoded(a)
  BY <1>2
<1> HIDE DEF a, b
<1>6. Encoded(a) \in Text /\ Encoded(b) \in Text /\ Encoded(cps) = Encoded(a) \o Encoded(b)
  BY <1>3, EncodedIs
<1>7. IsPrefix(Encoded(a), Encoded(a) \o Encoded(b))
  BY <1>6, Prefixed DEF Text
<1> QED BY <1>1, <1>4, <1>5, <1>6, <1>7, Zenon

\* It decodes to a prefix of the text: it is cut between characters.
LEMMA FittingDecoded ==
  ASSUME NEW text \in Seq(Unit), NEW size \in Nat
  PROVE  IsPrefix(FromUtf8(Fitting(text, size)), FromUtf8(ToUtf8(text)))
<1> DEFINE cps == CodePoints(text)
           n == Len(cps)
           bytes == ToUtf8(text)
<1>1. cps \in Seq(Nat) /\ bytes = Encoded(cps) /\ n \in Nat
  BY PointsType
<1>2. PICK K \in 0 .. n : Fitting(text, size) = Encoded(SubSeq(cps, 1, K)) /\ Fits(cps, size, K)
  BY FittingIs
<1>3. PICK s \in Seq(Scalar) : \E u, t : Pointed(cps, bytes, s, u, t)
  BY Pointing
<1>4. PICK u, t : Pointed(cps, bytes, s, u, t)
  BY <1>3
<1> HIDE DEF cps, bytes
<1>5. /\ cps = s \o u /\ Decoded(bytes) = s \o t
      /\ Len(u) <= 1 /\ u \in Seq(Nat) /\ t \in Seq(Nat)
  BY <1>4 DEF Pointed
<1>6. Scalar \subseteq Nat /\ Seq(Scalar) \subseteq Seq(Nat)
  <2>1. Scalar \subseteq Nat
    BY DEF Scalar
  <2> QED BY <2>1, SeqOfMore
<1>7. s \in Seq(Nat)
  BY <1>6
<1>8. CASE K = n
  <2>1. SubSeq(cps, 1, K) = cps
    BY <1>1, <1>8, SubSeqFull
  <2>2. Fitting(text, size) = bytes
    BY <1>1, <1>2, <2>1
  <2> DEFINE x == FromUtf8(bytes)
  <2>3. x \in Seq(Int)
    <3>1. s \o t \in Seq(Nat)
      BY <1>5, <1>7, ConcatProperties
    <3>2. AllUnits(s \o t) \in Text
      BY <3>1, AllUnitsIs
    <3>3. x = AllUnits(s \o t)
      BY <1>5, Zenon DEF FromUtf8
    <3> HIDE DEF x
    <3> QED BY <3>2, <3>3 DEF Text
  <2> HIDE DEF x
  <2>4. << >> \in Seq(Int) /\ x \o << >> = x
    BY <2>3, ConcatEmptySeq, EmptySeq
  <2>5. IsPrefix(x, x \o << >>)
    BY <2>3, <2>4, Prefixed, Zenon
  <2>6. IsPrefix(x, x)
    BY <2>4, <2>5, Zenon
  <2> QED BY <2>2, <2>6, Zenon DEF x, bytes
<1>9. CASE K # n
  <2> DEFINE a == SubSeq(s, 1, K)
             b == SubSeq(s, K + 1, Len(s))
  <2>1. K \in 0 .. Len(s)
    <3>1. n = Len(s) + Len(u) /\ Len(u) \in Nat /\ Len(s) \in Nat
      BY <1>5, <1>7, ConcatProperties
    <3> HIDE DEF n
    <3> QED BY <1>5, <1>9, <3>1
  <2>2. a \in Seq(Scalar) /\ b \in Seq(Scalar) /\ s = a \o b
    BY <2>1, CutInTwo
  <2>3. SubSeq(cps, 1, K) = a
    <3>1. cps \in Text /\ s \in Text
      <4>1. Nat \subseteq Int
        OBVIOUS
      <4>2. Seq(Nat) \subseteq Seq(Int)
        BY <4>1, SeqOfMore
      <4> QED BY <1>1, <1>7, <4>2 DEF Text
    <3>2. Len(cps) = Len(s) + Len(u) /\ Len(s) \in Nat /\ \A i \in 1 .. Len(s) : cps[i] = s[i]
      BY <1>5, <1>7, ConcatProperties
    <3>3. K \in Nat /\ K <= Len(s) /\ K <= Len(cps) /\ \A i \in 1 .. K : cps[i] = s[i]
      BY <1>1, <2>1, <3>2
    <3> DEFINE d == SubSeq(cps, 1, K)
    <3>4. d \in Text /\ Len(d) = K /\ \A i \in 1 .. K : d[i] = cps[i]
      BY <3>1, <3>3, Beginning
    <3>5. a \in Text /\ Len(a) = K /\ \A i \in 1 .. K : a[i] = s[i]
      BY <3>1, <3>3, Beginning
    <3> HIDE DEF d, a
    <3>6. d = a
      BY <3>3, <3>4, <3>5, SameText
    <3> QED BY <3>6 DEF d
  <2> HIDE DEF a, b
  <2>4. Fitting(text, size) = Encoded(a)
    BY <1>2, <2>3
  <2>5. Decoded(Encoded(a)) = a
    BY <2>2, DecodedAgain
  <2>6. FromUtf8(Fitting(text, size)) = AllUnits(a)
    BY <2>4, <2>5, Zenon DEF FromUtf8
  <2>7. a \in Seq(Nat) /\ b \in Seq(Nat)
    BY <1>6, <2>2
  <2>8. s \o t = a \o (b \o t) /\ b \o t \in Seq(Nat)
    <3>1. b \o t \in Seq(Nat)
      BY <1>5, <2>7, ConcatProperties
    <3>2. (a \o b) \o t = a \o (b \o t)
      <4>1. t \in Seq(Nat)
        BY <1>5
      <4>2. Nat \subseteq Int
        OBVIOUS
      <4>3. a \in Seq(Int) /\ b \in Seq(Int) /\ t \in Seq(Int)
        <5>1. Seq(Nat) \subseteq Seq(Int)
          BY <4>2, SeqOfMore
        <5> QED BY <2>7, <4>1, <5>1
      <4> QED BY <4>3, ThreeParts, Zenon
    <3> QED BY <2>2, <3>1, <3>2, Zenon
  <2> DEFINE c == b \o t
  <2>9. c \in Seq(Nat) /\ FromUtf8(bytes) = AllUnits(a \o c)
    BY <1>5, <2>8, Zenon DEF FromUtf8
  <2> HIDE DEF c
  <2>10. AllUnits(a \o c) = AllUnits(a) \o AllUnits(c) /\ AllUnits(a) \in Text /\ AllUnits(c) \in Text
    BY <2>7, <2>9, AllUnitsIs
  <2>11. IsPrefix(AllUnits(a), AllUnits(a) \o AllUnits(c))
    BY <2>10, Prefixed DEF Text
  <2> QED BY <2>6, <2>9, <2>10, <2>11, Zenon DEF bytes
<1> QED BY <1>8, <1>9

\* Scalar values cut short are well-formed.
LEMMA FittingFormed ==
  ASSUME NEW text \in Seq(Unit), NEW size \in Nat, ~EndsHalf(text)
  PROVE  WellFormed(Fitting(text, size))
<1> DEFINE cps == CodePoints(text)
<1>1. cps \in Seq(Scalar)
  BY BackFromUtf8
<1>2. PICK K \in 0 .. Len(cps) : Fitting(text, size) = Encoded(SubSeq(cps, 1, K))
  BY FittingIs
<1> HIDE DEF cps
<1> DEFINE a == SubSeq(cps, 1, K)
<1>3. a \in Seq(Scalar)
  BY <1>1, CutInTwo
<1>4. Fitting(text, size) = Encoded(a)
  BY <1>2
<1> HIDE DEF a
<1>5. Decoded(Encoded(a)) = a
  BY <1>3, DecodedAgain
<1> QED BY <1>4, <1>5, Zenon DEF WellFormed

\* The next character would not have fitted.
LEMMA FittingFull ==
  ASSUME NEW text \in Seq(Unit), NEW size \in Nat
  PROVE  \/ Fitting(text, size) = ToUtf8(text)
         \/ size + 1 <= Len(Fitting(text, size)) + 1
                          + Needed(ToUtf8(text)[Len(Fitting(text, size)) + 1])
<1> DEFINE cps == CodePoints(text)
           n == Len(cps)
<1>1. cps \in Seq(Point) /\ cps \in Seq(Nat) /\ ToUtf8(text) = Encoded(cps) /\ n \in Nat
  BY PointsType
<1>2. PICK K \in 0 .. n : Fitting(text, size) = Encoded(SubSeq(cps, 1, K)) /\ Fits(cps, size, K)
  BY FittingIs
<1> HIDE DEF cps
<1>3. CASE K = n
  <2>1. SubSeq(cps, 1, K) = cps
    BY <1>1, <1>3, SubSeqFull
  <2> QED BY <1>1, <1>2, <2>1
<1>4. CASE K # n
  <2> DEFINE a == SubSeq(cps, 1, K)
             b == SubSeq(cps, K + 1, n)
             c == cps[K + 1]
             d == SubSeq(cps, K + 2, n)
             f == Encoded(a)
             e == Encode(c)
             g == Encoded(d)
  <2>1. a \in Seq(Nat) /\ b \in Seq(Nat) /\ cps = a \o b
    BY <1>1, CutInTwo
  <2>2. /\ K + 1 \in 1 .. n /\ n \in K + 1 .. n /\ K + 1 \in 1 .. K + 1 /\ 1 \in 1 .. n
        /\ K + 1 \in 1 .. Len(cps) /\ (K + 1) + 1 = K + 2 /\ (K + 1) - 1 = K /\ K + 1 <= n
    BY <1>1, <1>4
  <2>3. c \in Point
    BY <1>1, <2>2
  <2>4. c \in Nat /\ <<c>> \in Seq(Nat)
    BY <1>1, <2>2
  <2>5. b = <<c>> \o d
    <3>1. SubSeq(cps, K + 1, n) = << cps[K + 1] >> \o SubSeq(cps, (K + 1) + 1, n)
      BY <1>1, <2>2, SubSeqRecursiveFirst
    <3> QED BY <2>2, <3>1
  <2>6. d \in Seq(Nat)
    <3>1. K + 1 \in 0 .. Len(cps)
      BY <1>1, <2>2
    <3>2. SubSeq(cps, (K + 1) + 1, Len(cps)) \in Seq(Nat)
      BY <1>1, <3>1, CutInTwo
    <3> QED BY <2>2, <3>2
  <2>7. SubSeq(cps, 1, K + 1) = a \o <<c>>
    <3>1. K + 1 \in 1 .. Len(cps)
      BY <2>2
    <3>2. SubSeq(cps, 1, K + 1) = SubSeq(cps, 1, (K + 1) - 1) \o << cps[K + 1] >>
      BY <1>1, <2>2, <3>1, SubSeqRecursiveSecond
    <3> QED BY <2>2, <3>2
  <2>8. e \in Text /\ Len(e) \in Nat /\ Len(e) # 0 /\ Needed(e[1]) = Len(e) - 1
    BY <2>3, NeededIs
  <2>9. ~(Len(Encoded(SubSeq(cps, 1, K + 1))) <= size)
    BY <1>2, <1>4 DEF Fits
  <2> HIDE DEF a, b, c, d
  <2>10. Encoded(a \o <<c>>) = f \o e /\ f \in Text /\ Encoded(b) = e \o g /\ g \in Text
         /\ Encoded(cps) = f \o Encoded(b)
    <3>1. Encoded(<<c>>) = e
      BY <2>4, EncodedIs
    <3>2. Encoded(a \o <<c>>) = f \o Encoded(<<c>>) /\ f \in Text
      BY <2>1, <2>4, EncodedIs
    <3>3. Encoded(<<c>> \o d) = Encoded(<<c>>) \o g /\ g \in Text
      BY <2>4, <2>6, EncodedIs
    <3>4. Encoded(a \o b) = f \o Encoded(b)
      BY <2>1, EncodedIs
    <3> QED BY <2>1, <2>5, <3>1, <3>2, <3>3, <3>4, Zenon
  <2>11. Fitting(text, size) = f
    BY <1>2 DEF a
  <2> HIDE DEF e, f, g
  <2>12. Len(f \o e) = Len(f) + Len(e) /\ Len(f) \in Nat
    BY <2>8, <2>10, ConcatProperties DEF Text
  <2>13. ~(Len(f) + Len(e) <= size)
    BY <2>7, <2>9, <2>10, <2>12
  <2>14. (f \o (e \o g))[Len(f) + 1] = e[1]
    <3>1. /\ e \o g \in Seq(Int) /\ Len(e \o g) \in Nat /\ Len(e \o g) # 0 /\ (e \o g)[1] = e[1]
      <4>1. e \in Seq(Int) /\ g \in Seq(Int) /\ Len(g) \in Nat /\ 1 \in 1 .. Len(e)
        BY <2>8, <2>10 DEF Text
      <4>2. e \o g \in Seq(Int) /\ Len(e \o g) = Len(e) + Len(g) /\ \A i \in 1 .. Len(e) : (e \o g)[i] = e[i]
        BY <4>1, ConcatProperties
      <4> QED BY <2>8, <4>1, <4>2
    <3> DEFINE x == e \o g
    <3>2. x \in Seq(Int) /\ Len(x) \in Nat /\ Len(x) # 0 /\ x[1] = e[1]
      BY <3>1
    <3> HIDE DEF x
    <3>3. f \in Seq(Int)
      BY <2>10 DEF Text
    <3>4. Len(f) + 1 \in Len(f) + 1 .. Len(f) + Len(x) /\ (Len(f) + 1) - Len(f) = 1
      BY <2>12, <3>2
    <3>5. \A i \in Len(f) + 1 .. Len(f) + Len(x) : (f \o x)[i] = x[i - Len(f)]
      BY <3>2, <3>3, ConcatProperties
    <3>6. (f \o x)[Len(f) + 1] = x[1]
      BY <3>4, <3>5
    <3> QED BY <3>2, <3>6 DEF x
  <2>15. ToUtf8(text)[Len(f) + 1] = e[1]
    BY <1>1, <2>10, <2>14
  <2>16. size + 1 <= Len(f) + 1 + Needed(e[1])
    BY <2>8, <2>12, <2>13
  <2> QED BY <2>11, <2>15, <2>16
<1> QED BY <1>3, <1>4

\* A bounded buffer of units.
LEMMA WideFits ==
  ASSUME NEW text \in Seq(Unit), NEW size \in Nat
  PROVE  \E x \in Seq(Int) :
           /\ BufferedWide(text, size + 1) = Append(x, 0) /\ Len(x) <= size /\ IsPrefix(x, text)
<1> DEFINE m == Min({Len(text), size})
           x == SubSeq(text, 1, m)
<1>0. Seq(Unit) \subseteq Seq(Int)
  BY UnitInt, SeqOfMore
<1>1. text \in Seq(Int) /\ Len(text) \in Nat
  BY <1>0
<1>2. m \in 0 .. Len(text) /\ m <= size
  <2>1. m = IF Len(text) <= size THEN Len(text) ELSE size
    BY <1>1, MinOfTwo
  <2> HIDE DEF m
  <2> QED BY <1>1, <2>1
<1>3. BufferedWide(text, size + 1) = Append(x, 0)
  <2>1. size + 1 # 0 /\ (size + 1) - 1 = size
    OBVIOUS
  <2> QED BY <2>1, Zenon DEF BufferedWide
<1> HIDE DEF m
<1> DEFINE y == SubSeq(text, m + 1, Len(text))
<1>4. x \in Seq(Int) /\ y \in Seq(Int) /\ text = x \o y /\ Len(x) = m
  BY <1>1, <1>2, CutInTwo
<1> HIDE DEF x, y
<1>5. IsPrefix(x, x \o y)
  BY <1>4, Prefixed
<1>6. Len(x) <= size /\ IsPrefix(x, text)
  BY <1>2, <1>4, <1>5
<1> QED BY <1>3, <1>4, <1>6

\* One capacity.
BufferKept(text, capacity) ==
    LET bytes == ToUtf8(text)
        buffer == Buffered(text, capacity) IN
    /\ Len(buffer) <= capacity /\ Last(buffer) = 0
    /\ LET wide == BufferedWide(text, capacity) IN
       Len(wide) <= capacity /\ Last(wide) = 0 /\ IsPrefix(Front(wide), text)
    /\ ~EndsHalf(text) => WellFormed(Front(buffer))
    /\ IsPrefix(Front(buffer), bytes)
    /\ IsPrefix(FromUtf8(Front(buffer)), FromUtf8(bytes))
    /\ \/ Front(buffer) = bytes
       \/ capacity <= Len(buffer) + Needed(bytes[Len(buffer)])

\* Every capacity keeps them.
LEMMA BuffersKept ==
  ASSUME NEW text \in Seq(Unit), NEW capacity \in Nat, capacity # 0
  PROVE  BufferKept(text, capacity)
<1> DEFINE size == capacity - 1
           f == Fitting(text, size)
           buffer == Buffered(text, capacity)
           wide == BufferedWide(text, capacity)
<1>1. size \in Nat /\ capacity = size + 1
  OBVIOUS
<1> HIDE DEF size
<1>2. PICK x \in Seq(Int) : wide = Append(x, 0) /\ Len(x) <= size /\ IsPrefix(x, text)
  <2>1. \E x \in Seq(Int) :
           /\ BufferedWide(text, size + 1) = Append(x, 0) /\ Len(x) <= size /\ IsPrefix(x, text)
    BY <1>1, WideFits
  <2> QED BY <1>1, <2>1, Zenon
<1>3. Len(wide) = Len(x) + 1 /\ Last(wide) = 0 /\ Front(wide) = x
  BY <1>2, Terminated
<1>4. /\ f \in Text /\ Len(f) <= size /\ IsPrefix(f, ToUtf8(text))
  BY <1>1, FittingLength
<1>5. IsPrefix(FromUtf8(f), FromUtf8(ToUtf8(text)))
  BY <1>1, FittingDecoded
<1>6. f = ToUtf8(text) \/ size + 1 <= Len(f) + 1 + Needed(ToUtf8(text)[Len(f) + 1])
  BY <1>1, FittingFull
<1>7. buffer = Append(f, 0)
  BY Zenon DEF Buffered, size
<1>12. ~EndsHalf(text) => WellFormed(f)
  BY <1>1, FittingFormed
<1> HIDE DEF f
<1>8. Len(buffer) = Len(f) + 1 /\ Last(buffer) = 0 /\ Front(buffer) = f /\ Len(f) \in Nat
  BY <1>4, <1>7, Terminated DEF Text
<1> HIDE DEF buffer, wide
<1>9. Len(buffer) <= capacity
  BY <1>1, <1>4, <1>8
<1>10. Len(wide) <= capacity /\ Last(wide) = 0 /\ IsPrefix(Front(wide), text)
  BY <1>1, <1>2, <1>3
<1>11. \/ Front(buffer) = ToUtf8(text)
       \/ capacity <= Len(buffer) + Needed(ToUtf8(text)[Len(buffer)])
  BY <1>1, <1>6, <1>8, Zenon
<1> QED BY <1>4, <1>5, <1>8, <1>9, <1>10, <1>11, <1>12, Zenon DEF BufferKept, buffer, wide

\* Every text is encoded safely.
LEMMA UnitsSurvive ==
  ASSUME NEW text \in Seq(Unit) PROVE EncodesSafely(text)
<1>1. ~EndsHalf(text) => FromUtf8(ToUtf8(text)) = Mended(text)
  BY BackFromUtf8
<1>2. ToUtf8(text) = Encoded(CodePoints(text)) /\ CodePoints(text) \in Seq(Nat) /\ ToUtf8(text) \in Text
  BY PointsType
<1>3. Utf8Length(text) = Len(ToUtf8(text))
  BY <1>2, MeasuredIs, Zenon DEF Utf8Length
<1>4. ASSUME ToUtf32(text) # Failed
      PROVE  FromUtf32(ToUtf32(text)) = text /\ Utf32Length(ToUtf32(text)) = Len(text)
  <2>1. ToUtf32(text) \in Seq(Scalar) /\ AllUnits(ToUtf32(text)) = text /\ FromUtf32(ToUtf32(text)) = text
    BY <1>4, BackFromUtf32
  <2>2. Utf32Length(ToUtf32(text)) = Len(AllUnits(ToUtf32(text)))
    BY <2>1, Utf32Measured, Zenon
  <2> QED BY <2>1, <2>2, Zenon
<1>5. Len(ToUtf8(text)) \in Nat
  BY <1>2, TextType
<1>6. ASSUME NEW capacity \in 1 .. Len(ToUtf8(text)) + 1 PROVE BufferKept(text, capacity)
  <2>1. capacity \in Nat /\ capacity # 0
    BY <1>5
  <2> QED BY <2>1, BuffersKept
<1> QED BY <1>1, <1>3, <1>4, <1>6, Zenon DEF EncodesSafely, BufferKept

\* A sample of bytes has bytes, and one of units has units.
LEMMA ByteSamples ==
  ASSUME Init
  PROVE  /\ sample.kind = "bytes" => sample.bytes \in Seq(Byte)
         /\ sample.kind = "units" => sample.units \in Seq(Unit)
<1>1. Letters \in SUBSET Int /\ Bytes \in SUBSET Int /\ Halves \in SUBSET Int
      /\ ByteCount \in Nat /\ HalfCount \in Nat
  BY SampleAssumption, UnitInt
<1>2. ASSUME sample.kind = "bytes" PROVE sample.bytes \in Seq(Byte)
  <2>1. PICK bytes \in BoundedSeq(Bytes, ByteCount) : sample = [kind |-> "bytes", bytes |-> bytes]
    BY <1>2 DEF Init
  <2>2. bytes \in Seq(Bytes)
    BY <1>1, BoundedText
  <2>3. Seq(Bytes) \subseteq Seq(Byte)
    BY SampleAssumption, SeqOfMore
  <2> QED BY <2>1, <2>2, <2>3
<1>3. ASSUME sample.kind = "units" PROVE sample.units \in Seq(Unit)
  <2>1. PICK units \in BoundedSeq(Halves, HalfCount) : sample = [kind |-> "units", units |-> units]
    BY <1>3 DEF Init
  <2>2. units \in Seq(Halves)
    BY <1>1, BoundedText
  <2>3. Seq(Halves) \subseteq Seq(Unit)
    BY SampleAssumption, SeqOfMore
  <2> QED BY <2>1, <2>2, <2>3
<1> QED BY <1>2, <1>3

(* For samples of every size and of every byte and unit: any bytes decode  *)
(* to well-formed UTF-16, measured as it is written, that survives UTF-8,  *)
(* and below 0xf8 what is not replaced was spelled in the one legal way;   *)
(* UTF-16 survives UTF-8 but for its unpaired surrogates, unless it ends   *)
(* in half a pair, and UTF-32 unless it is refused; bounded buffers are    *)
(* full, terminated and cut between characters                             *)
(* (embedded_runtime.c:3020-3245).                                         *)
THEOREM ConversionsKeep == Spec => []ConversionsSurvive
<1>1. Init => ConversionsSurvive
  BY ByteSamples, BytesSurvive, UnitsSurvive DEF ConversionsSurvive
<1> QED BY <1>1, SampleStays, PTL

-----------------------------------------------------------------------------
(* Splitting and joining: what holds at one index of a text holds at all. *)

\* What holds at an index when it holds at the later ones holds at all.
LEMMA DownInduction ==
  ASSUME NEW L \in Nat, NEW G,
         \A i \in 0 .. L : (\A j \in 0 .. L : i < j => j \in G) => i \in G
  PROVE  0 .. L \subseteq G
<1> DEFINE N == {k \in Nat : \A i \in 0 .. L : L - i < k => i \in G}
<1>1. 0 \in N
  OBVIOUS
<1>2. ASSUME NEW k \in Nat, k \in N PROVE k + 1 \in N
  <2> SUFFICES ASSUME NEW i \in 0 .. L, L - i < k + 1 PROVE i \in G
    OBVIOUS
  <2>1. \A j \in 0 .. L : i < j => L - j < k
    OBVIOUS
  <2> QED BY <1>2, <2>1
<1>3. Nat \subseteq N
  <2> HIDE DEF N
  <2> QED BY <1>1, <1>2, SetInduction
<1>4. L + 1 \in N
  <2> HIDE DEF N
  <2>1. L + 1 \in Nat
    OBVIOUS
  <2> QED BY <1>3, <2>1
<1>5. \A i \in 0 .. L : L - i < L + 1
  OBVIOUS
<1> QED BY <1>4, <1>5

\* What holds first, and next whenever it holds, holds at all indexes.
LEMMA UpInduction ==
  ASSUME NEW L \in Nat, NEW G, 0 \in G, \A i \in 1 .. L : i - 1 \in G => i \in G
  PROVE  0 .. L \subseteq G
<1> DEFINE N == {k \in Nat : k \in 0 .. L => k \in G}
<1>1. 0 \in N
  OBVIOUS
<1>2. ASSUME NEW k \in Nat, k \in N PROVE k + 1 \in N
  <2> SUFFICES ASSUME k + 1 \in 0 .. L PROVE k + 1 \in G
    OBVIOUS
  <2>1. k \in 0 .. L /\ k + 1 \in 1 .. L /\ (k + 1) - 1 = k
    OBVIOUS
  <2> QED BY <1>2, <2>1
<1>3. Nat \subseteq N
  <2> HIDE DEF N
  <2> QED BY <1>1, <1>2, SetInduction
<1> QED BY <1>3

\* The search gives an index, or -1, wherever it starts.
LEMMA FindType ==
  ASSUME NEW text \in Text, NEW sub \in Text, sub # Empty, NEW n \in Int
  PROVE  Find(text, sub, n) \in Int
<1> DEFINE from == Max({n, 0})
           M == {i \in from .. Len(text) - Len(sub) : At(text, sub, i)}
<1>1. from = IF n <= 0 THEN 0 ELSE n
  BY MaxOfTwo
<1>2. from \in Nat
  BY <1>1
<1>3. Find(text, sub, n) = IF M = {} THEN -1 ELSE Min(M)
  BY DEF Find
<1> HIDE DEF from
<1>4. M \in SUBSET Nat
  BY <1>2
<1> HIDE DEF M
<1>5. M # {} => Min(M) \in M
  BY <1>4, MinMember, Zenon
<1>51. \A y \in M : y \in Int
  BY <1>4
<1>6. M # {} => Min(M) \in Int
  BY <1>5, <1>51, Zenon
<1> QED BY <1>3, <1>6

\* A match lies in the text, behind where the search starts.
LEMMA FindStep ==
  ASSUME NEW text \in Text, NEW sub \in Text, sub # Empty, NEW n \in Nat,
         Find(text, sub, n) # -1
  PROVE  /\ Find(text, sub, n) \in Nat /\ n <= Find(text, sub, n)
         /\ Find(text, sub, n) \in Places(text, sub)
         /\ Find(text, sub, n) + Len(sub) \in 0 .. Len(text)
         /\ n < Find(text, sub, n) + Len(sub)
<1>1. Len(text) \in Nat /\ Len(sub) \in Nat /\ Len(sub) # 0
  BY TextType
<1>2. Find(text, sub, n) \in Places(text, sub) /\ n <= Find(text, sub, n)
  BY FindIs
<1>3. Find(text, sub, n) \in Nat /\ Find(text, sub, n) + Len(sub) <= Len(text)
  BY <1>2, PlacesType
<1> QED BY <1>1, <1>2, <1>3

\* The scan of MatchCount.
Counts(text, sub, count) ==
    /\ count \in [0 .. Len(text) -> Nat]
    /\ \A i \in 0 .. Len(text) :
         count[i] = IF Find(text, sub, i) = -1 THEN 0
                    ELSE 1 + count[Find(text, sub, i) + Len(sub)]

\* Matches are counted by that scan.
LEMMA MatchCountIs ==
  ASSUME NEW text \in Text, NEW sub \in Text, sub # Empty
  PROVE  \E count : Counts(text, sub, count) /\ MatchCount(text, sub) = count[0]
<1> DEFINE L == Len(text)
           D == 0 .. L
           m(i) == Find(text, sub, i)
           body(g, i) == IF m(i) = -1 THEN 0 ELSE 1 + g[m(i) + Len(sub)]
           F == [i \in D |-> [g \in [D -> Nat] |-> body(g, i)]]
           s == CHOOSE g : g = [i \in D |-> body(g, i)]
<1>0. MatchCount(text, sub) = s[0]
  BY DEF MatchCount
<1>1. L \in Nat
  BY TextType
<1>2. \A i \in D : m(i) # -1 => m(i) + Len(sub) \in D /\ i < m(i) + Len(sub)
  BY FindStep
<1> HIDE DEF L, m
<1>3. \A i \in D : \A g \in [D -> Nat] : body(g, i) \in Nat
  BY <1>2
<1>4. F \in [D -> [[D -> Nat] -> Nat]]
  BY <1>3
<1> DEFINE d == [i \in D |-> L - i]
<1>51. d \in [D -> Nat] /\ \A i \in D : d[i] = L - i /\ d[i] < L + 1
  BY <1>1
<1>52. \A i \in D : m(i) # -1 => d[m(i) + Len(sub)] < d[i]
  BY <1>1, <1>2, <1>51
<1> HIDE DEF d
<1>53. ASSUME NEW i \in D, NEW g \in [D -> Nat], NEW h \in [D -> Nat],
             \A j \in D : d[j] < d[i] => g[j] = h[j]
      PROVE  F[i][g] = F[i][h]
  <2>1. body(g, i) = body(h, i)
    BY <1>2, <1>52, <1>53
  <2> QED BY <2>1
<1>54. Decreasing(D, Nat, d, F)
  <2> HIDE DEF F
  <2> QED BY <1>53 DEF Decreasing
<1>55. Solvable(D, Nat, F)
  <2> HIDE DEF F, D
  <2>1. L + 1 \in Nat /\ Nat # {}
    BY <1>1
  <2> QED BY <1>4, <1>51, <1>54, <2>1, Recursion
<1>6. PICK f \in [D -> Nat] : \A i \in D : f[i] = F[i][f]
  <2> HIDE DEF F, D
  <2> QED BY <1>55 DEF Solvable
<1>7. f = [i \in D |-> body(f, i)]
  BY <1>6
<1>8. s = [i \in D |-> body(s, i)]
  <2> HIDE DEF body
  <2> QED BY <1>7
<1> HIDE DEF s
<1>9. \A i \in D : s[i] = body(s, i)
  <2> HIDE DEF body
  <2> QED BY <1>8
<1> DEFINE G == {i \in D : s[i] \in Nat}
<1>10. ASSUME NEW i \in D, \A j \in D : i < j => j \in G PROVE i \in G
  BY <1>2, <1>9, <1>10
<1>11. D \subseteq G
  <2> HIDE DEF G
  <2> QED BY <1>1, <1>10, DownInduction
<1>12. s \in [D -> Nat]
  <2> DEFINE t == [i \in D |-> body(s, i)]
  <2>1. s = t
    BY <1>8
  <2>2. \A i \in D : t[i] \in Nat
    BY <1>11, <2>1
  <2>3. DOMAIN t = D /\ t = [i \in D |-> t[i]]
    OBVIOUS
  <2> HIDE DEF t
  <2>4. t \in [D -> Nat]
    BY <2>2, <2>3
  <2> QED BY <2>1, <2>4
<1>13. Counts(text, sub, s)
  <2> HIDE DEF s
  <2> QED BY <1>9, <1>12 DEF Counts, L, m
<1> QED BY <1>0, <1>13

\* What is written from an index on.
Rests(text, sub, new, rest) ==
    /\ rest \in [0 .. Len(text) -> Text]
    /\ \A i \in 0 .. Len(text) :
         rest[i] = IF Find(text, sub, i) = -1 THEN SubSeq(text, i + 1, Len(text))
                   ELSE SubSeq(text, i + 1, Find(text, sub, i)) \o new
                          \o rest[Find(text, sub, i) + Len(sub)]

\* Texts are replaced by that scan.
LEMMA ReplacedIs ==
  ASSUME NEW text \in Text, NEW sub \in Text, sub # Empty, NEW new \in Text
  PROVE  \E rest : Rests(text, sub, new, rest) /\ Replaced(text, sub, new) = rest[0]
<1> DEFINE L == Len(text)
           D == 0 .. L
           m(i) == Find(text, sub, i)
           body(g, i) == IF m(i) = -1 THEN SubSeq(text, i + 1, L)
                         ELSE SubSeq(text, i + 1, m(i)) \o new \o g[m(i) + Len(sub)]
           F == [i \in D |-> [g \in [D -> Text] |-> body(g, i)]]
           s == CHOOSE g : g = [i \in D |-> body(g, i)]
<1>0. Replaced(text, sub, new) = s[0]
  BY DEF Replaced
<1>1. L \in Nat
  BY TextType
<1>2. \A i \in D : m(i) # -1 => /\ m(i) + Len(sub) \in D /\ i < m(i) + Len(sub)
                               /\ SubSeq(text, i + 1, m(i)) \o new \in Text
  <2> SUFFICES ASSUME NEW i \in D, m(i) # -1
               PROVE  /\ m(i) + Len(sub) \in D /\ i < m(i) + Len(sub)
                      /\ SubSeq(text, i + 1, m(i)) \o new \in Text
    OBVIOUS
  <2>1. m(i) + Len(sub) \in D /\ i < m(i) + Len(sub) /\ m(i) \in Nat /\ i <= m(i)
    BY FindStep
  <2>2. m(i) <= L
    BY <1>1, <2>1, FindStep, PlacesType, TextType
  <2>3. SubSeq(text, i + 1, m(i)) \in Text
    <3>1. i \in Nat /\ m(i) \in Nat /\ i <= m(i) /\ m(i) <= Len(text)
      BY <2>1, <2>2
    <3> HIDE DEF m
    <3> QED BY <3>1, Cut
  <2>4. SubSeq(text, i + 1, m(i)) \o new \in Text
    BY <2>3, ConcatProperties DEF Text
  <2> QED BY <2>1, <2>4
<1>3. \A i \in D : SubSeq(text, i + 1, L) \in Text
  BY <1>1, Cut
<1> HIDE DEF L, m
<1>4. ASSUME NEW i \in D, NEW g \in [D -> Text] PROVE body(g, i) \in Text
  <2>1. CASE m(i) = -1
    BY <1>3, <2>1
  <2>2. CASE m(i) # -1
    <3>1. SubSeq(text, i + 1, m(i)) \o new \in Text /\ g[m(i) + Len(sub)] \in Text
      BY <1>2, <2>2
    <3>2. (SubSeq(text, i + 1, m(i)) \o new) \o g[m(i) + Len(sub)] \in Text
      BY <3>1, ConcatProperties DEF Text
    <3> QED BY <2>2, <3>2
  <2> QED BY <2>1, <2>2
<1>5. F \in [D -> [[D -> Text] -> Text]]
  BY <1>4
<1> DEFINE d == [i \in D |-> L - i]
<1>51. d \in [D -> Nat] /\ \A i \in D : d[i] = L - i /\ d[i] < L + 1
  BY <1>1
<1>52. \A i \in D : m(i) # -1 => d[m(i) + Len(sub)] < d[i]
  BY <1>1, <1>2, <1>51
<1> HIDE DEF d
<1>53. ASSUME NEW i \in D, NEW g \in [D -> Text], NEW h \in [D -> Text],
             \A j \in D : d[j] < d[i] => g[j] = h[j]
      PROVE  F[i][g] = F[i][h]
  <2>1. m(i) # -1 => g[m(i) + Len(sub)] = h[m(i) + Len(sub)]
    BY <1>2, <1>52, <1>53
  <2>2. body(g, i) = body(h, i)
    BY <2>1
  <2> QED BY <2>2
<1>54. Decreasing(D, Text, d, F)
  <2> HIDE DEF F
  <2> QED BY <1>53 DEF Decreasing
<1>55. Solvable(D, Text, F)
  <2> HIDE DEF F, D
  <2>1. L + 1 \in Nat /\ Text # {}
    BY <1>1
  <2> QED BY <1>5, <1>51, <1>54, <2>1, Recursion
<1>6. PICK f \in [D -> Text] : \A i \in D : f[i] = F[i][f]
  <2> HIDE DEF F, D
  <2> QED BY <1>55 DEF Solvable
<1>7. f = [i \in D |-> body(f, i)]
  BY <1>6
<1>8. s = [i \in D |-> body(s, i)]
  <2> HIDE DEF body
  <2> QED BY <1>7
<1> HIDE DEF s
<1>9. \A i \in D : s[i] = body(s, i)
  <2> HIDE DEF body
  <2> QED BY <1>8
<1> DEFINE G == {i \in D : s[i] = f[i]}
<1>10. ASSUME NEW i \in D, \A j \in D : i < j => j \in G PROVE i \in G
  <2>1. f[i] = body(f, i)
    BY <1>6
  <2>2. m(i) # -1 => s[m(i) + Len(sub)] = f[m(i) + Len(sub)]
    BY <1>2, <1>10
  <2> QED BY <1>9, <2>1, <2>2
<1>11. D \subseteq G
  <2> HIDE DEF G
  <2> QED BY <1>1, <1>10, DownInduction
<1>12. 0 \in D /\ s[0] = f[0]
  BY <1>1, <1>11
<1>13. Rests(text, sub, new, f)
  <2>1. \A i \in D : f[i] = body(f, i)
    BY <1>6
  <2> QED BY <1>6, <2>1 DEF Rests, L, m
<1> QED BY <1>0, <1>12, <1>13

\* Where the parts of a text end; the first begins after an end before the text.
PartEnds(text, sep, P, end) ==
    /\ end \in [0 .. P -> Int] /\ end[0] = -Len(sep)
    /\ \A k \in 1 .. P :
         end[k] = IF Find(text, sep, end[k - 1] + Len(sep)) = -1 THEN Len(text)
                  ELSE Find(text, sep, end[k - 1] + Len(sep))

\* Texts are split at those ends.
LEMMA SplitAtIs ==
  ASSUME NEW text \in Text, NEW sep \in Text, sep # Empty, PartCount(text, sep) \in Nat
  PROVE  \E end : /\ PartEnds(text, sep, PartCount(text, sep), end)
                  /\ SplitAt(text, sep) = [k \in 1 .. PartCount(text, sep) |->
                                             Slice(text, end[k - 1] + Len(sep), end[k])]
<1> DEFINE P == PartCount(text, sep)
           D == 0 .. P
           m(x) == Find(text, sep, x + Len(sep))
           body(g, k) == IF k = 0 THEN -Len(sep)
                         ELSE IF m(g[k - 1]) = -1 THEN Len(text) ELSE m(g[k - 1])
           F == [i \in D |-> [g \in [D -> Int] |-> body(g, i)]]
           s == CHOOSE g : g = [i \in D |-> body(g, i)]
<1>0. SplitAt(text, sep) = [k \in 1 .. P |-> Slice(text, s[k - 1] + Len(sep), s[k])]
  BY DEF SplitAt
<1>1. P \in Nat /\ Len(text) \in Int /\ Len(sep) \in Int
  BY TextType
<1>2. \A x \in Int : m(x) \in Int
  BY <1>1, FindType
<1> HIDE DEF P, m
<1>4. ASSUME NEW i \in D, NEW g \in [D -> Int] PROVE body(g, i) \in Int
  <2>1. i # 0 => g[i - 1] \in Int
    BY <1>1
  <2> QED BY <1>1, <1>2, <2>1
<1>5. F \in [D -> [[D -> Int] -> Int]]
  BY <1>4
<1> DEFINE d == [i \in D |-> i]
<1>51. d \in [D -> Nat] /\ \A i \in D : d[i] = i /\ d[i] < P + 1
  BY <1>1
<1>52. \A i \in D : i # 0 => i - 1 \in D /\ d[i - 1] < d[i]
  BY <1>1, <1>51
<1> HIDE DEF d
<1>53. ASSUME NEW i \in D, NEW g \in [D -> Int], NEW h \in [D -> Int],
             \A j \in D : d[j] < d[i] => g[j] = h[j]
      PROVE  F[i][g] = F[i][h]
  <2>1. i # 0 => g[i - 1] = h[i - 1]
    BY <1>52, <1>53
  <2>2. body(g, i) = body(h, i)
    BY <2>1
  <2> QED BY <2>2
<1>54. Decreasing(D, Int, d, F)
  <2> HIDE DEF F
  <2> QED BY <1>53 DEF Decreasing
<1>55. Solvable(D, Int, F)
  <2> HIDE DEF F, D
  <2>1. P + 1 \in Nat /\ Int # {}
    BY <1>1
  <2> QED BY <1>5, <1>51, <1>54, <2>1, Recursion
<1>6. PICK f \in [D -> Int] : \A i \in D : f[i] = F[i][f]
  <2> HIDE DEF F, D
  <2> QED BY <1>55 DEF Solvable
<1>60. \A i \in D : f[i] = body(f, i)
  BY <1>6
<1>7. f = [i \in D |-> body(f, i)]
  BY <1>6
<1>8. s = [i \in D |-> body(s, i)]
  <2> HIDE DEF body
  <2> QED BY <1>7
<1> HIDE DEF s
<1>9. \A i \in D : s[i] = body(s, i)
  <2> HIDE DEF body
  <2> QED BY <1>8
<1> DEFINE G == {i \in D : s[i] = f[i]}
<1>10. 0 \in G
  BY <1>1, <1>60, <1>9
<1>101. ASSUME NEW i \in 1 .. P, i - 1 \in G PROVE i \in G
  <2>1. i \in D /\ i # 0 /\ s[i - 1] = f[i - 1]
    BY <1>1, <1>101
  <2>2. s[i] = body(s, i) /\ f[i] = body(f, i)
    BY <1>9, <1>60, <2>1
  <2> QED BY <2>1, <2>2
<1>11. D \subseteq G
  <2> HIDE DEF G
  <2> QED BY <1>1, <1>10, <1>101, UpInduction
<1>12. \A i \in D : s[i] = f[i]
  BY <1>11
<1>13. PartEnds(text, sep, P, f)
  <2>1. f[0] = -Len(sep)
    BY <1>1, <1>60
  <2>2. ASSUME NEW k \in 1 .. P
        PROVE  f[k] = IF m(f[k - 1]) = -1 THEN Len(text) ELSE m(f[k - 1])
    <3>1. k \in D /\ k # 0
      BY <1>1
    <3>2. f[k] = body(f, k)
      BY <1>60, <3>1
    <3> QED BY <3>1, <3>2
  <2> QED BY <1>6, <2>1, <2>2 DEF PartEnds, m
<1>14. \A k \in 1 .. P : k \in D /\ k - 1 \in D
  BY <1>1
<1>15. [k \in 1 .. P |-> Slice(text, s[k - 1] + Len(sep), s[k])]
         = [k \in 1 .. P |-> Slice(text, f[k - 1] + Len(sep), f[k])]
  BY <1>12, <1>14
<1> QED BY <1>0, <1>13, <1>15 DEF P

\* The parts of a text: part k lies between b[k] and e[k], and the next one begins after a match.
PartBounds(text, sep, P, b, e) ==
    /\ P \in Nat /\ P # 0
    /\ b \in [1 .. P -> 0 .. Len(text)] /\ e \in [1 .. P -> 0 .. Len(text)]
    /\ b[1] = 0 /\ e[P] = Len(text) /\ Find(text, sep, b[P]) = -1
    /\ \A k \in 1 .. P : b[k] <= e[k]
    /\ \A k \in 1 .. P - 1 :
         /\ e[k] = Find(text, sep, b[k]) /\ e[k] \in Places(text, sep)
         /\ b[k + 1] = e[k] + Len(sep)

\* The second pass of split finds the matches the first has counted.
LEMMA SplitParts ==
  ASSUME NEW text \in Text, NEW sep \in Text, sep # Empty
  PROVE  \E b, e : /\ PartBounds(text, sep, PartCount(text, sep), b, e)
                   /\ SplitAt(text, sep)
                        = [k \in 1 .. PartCount(text, sep) |-> Slice(text, b[k], e[k])]
<1> DEFINE L == Len(text)
           S == Len(sep)
           P == PartCount(text, sep)
<1>1. PICK count : Counts(text, sep, count) /\ MatchCount(text, sep) = count[0]
  BY MatchCountIs
<1>2. L \in Nat /\ S \in Nat /\ S # 0 /\ 0 \in 0 .. L
  BY TextType
<1>3. count \in [0 .. L -> Nat] /\ count[0] \in Nat /\ P = count[0] + 1
  BY <1>1, <1>2 DEF Counts, PartCount
<1>4. P \in Nat /\ P # 0 /\ P - 1 = count[0]
  BY <1>3
<1>5. PICK end : /\ PartEnds(text, sep, PartCount(text, sep), end)
                 /\ SplitAt(text, sep) = [k \in 1 .. PartCount(text, sep) |->
                                            Slice(text, end[k - 1] + Len(sep), end[k])]
  BY <1>4, SplitAtIs
<1>6. /\ end \in [0 .. P -> Int] /\ end[0] = -S
      /\ \A k \in 1 .. P : end[k] = IF Find(text, sep, end[k - 1] + S) = -1 THEN L
                                    ELSE Find(text, sep, end[k - 1] + S)
  BY <1>5 DEF PartEnds
<1>7. SplitAt(text, sep) = [k \in 1 .. P |-> Slice(text, end[k - 1] + S, end[k])]
  BY <1>5
<1>8. \A i \in 0 .. L : count[i] = IF Find(text, sep, i) = -1 THEN 0 ELSE 1 + count[Find(text, sep, i) + S]
  BY <1>1 DEF Counts
<1>9. \A i \in 0 .. L : Find(text, sep, i) # -1 =>
        /\ Find(text, sep, i) \in Places(text, sep) /\ i <= Find(text, sep, i)
        /\ Find(text, sep, i) \in 0 .. L /\ Find(text, sep, i) + S \in 0 .. L
  <2> SUFFICES ASSUME NEW i \in 0 .. L, Find(text, sep, i) # -1
               PROVE  /\ Find(text, sep, i) \in Places(text, sep) /\ i <= Find(text, sep, i)
                      /\ Find(text, sep, i) \in 0 .. L /\ Find(text, sep, i) + S \in 0 .. L
    OBVIOUS
  <2>1. /\ Find(text, sep, i) \in Nat /\ i <= Find(text, sep, i)
        /\ Find(text, sep, i) \in Places(text, sep) /\ Find(text, sep, i) + S \in 0 .. L
    BY FindStep
  <2> QED BY <1>2, <2>1
<1> HIDE DEF L, S, P
<1> DEFINE B(k) == end[k] + S
           G == {k \in 0 .. P - 1 : B(k) \in 0 .. L /\ count[B(k)] = count[0] - k}
<1>10. 0 \in G
  <2>1. B(0) = 0 /\ 0 \in 0 .. P - 1
    BY <1>2, <1>4, <1>6
  <2>2. count[0] = count[0] - 0
    BY <1>3
  <2> QED BY <1>2, <2>1, <2>2
<1>11. ASSUME NEW k \in 1 .. P - 1, k - 1 \in G PROVE k \in G
  <2> DEFINE x == B(k - 1)
             y == Find(text, sep, x)
  <2>1. k \in 1 .. P /\ k \in 0 .. P - 1 /\ k \in Nat
    BY <1>4
  <2>2. x \in 0 .. L /\ count[x] = count[0] - (k - 1)
    BY <1>11
  <2>3. end[k] = IF y = -1 THEN L ELSE y
    BY <1>6, <2>1
  <2>4. B(k) = end[k] + S
    OBVIOUS
  <2> HIDE DEF x, B
  <2>5. count[x] = IF y = -1 THEN 0 ELSE 1 + count[y + S]
    BY <1>8, <2>2
  <2>6. y # -1 => y \in 0 .. L /\ y + S \in 0 .. L
    BY <1>9, <2>2
  <2>7. y # -1
    BY <1>3, <1>4, <2>2, <2>5
  <2> HIDE DEF y
  <2>8. B(k) = y + S /\ y + S \in 0 .. L /\ count[y + S] \in Nat
    BY <1>3, <2>3, <2>4, <2>6, <2>7
  <2>9. count[y + S] = count[0] - k
    <3> DEFINE n == count[y + S]
               m == count[0]
    <3>1. m - (k - 1) = 1 + n /\ n \in Nat /\ m \in Nat
      <4> HIDE DEF n, m
      <4>1. count[x] = 1 + n /\ count[x] = m - (k - 1)
        BY <2>2, <2>5, <2>7 DEF n, m
      <4>2. n \in Nat /\ m \in Nat
        BY <1>3, <2>8 DEF n, m
      <4> QED BY <4>1, <4>2
    <3> HIDE DEF n, m
    <3>2. n = m - k
      BY <2>1, <3>1
    <3> QED BY <3>2 DEF n, m
  <2> QED BY <2>1, <2>8, <2>9
<1>12. 0 .. P - 1 \subseteq G
  <2> HIDE DEF G
  <2>1. P - 1 \in Nat
    BY <1>4
  <2> QED BY <1>10, <1>11, <2>1, UpInduction
<1> DEFINE b == [k \in 1 .. P |-> B(k - 1)]
           e == [k \in 1 .. P |-> end[k]]
<1>13. \A k \in 1 .. P : /\ k - 1 \in 0 .. P - 1 /\ k \in 0 .. P
                         /\ b[k] = end[k - 1] + S /\ e[k] = end[k]
  BY <1>4
<1>14. \A k \in 1 .. P : b[k] \in 0 .. L /\ count[b[k]] = count[0] - (k - 1)
  BY <1>12, <1>13
<1>15. \A k \in 1 .. P : e[k] = IF Find(text, sep, b[k]) = -1 THEN L ELSE Find(text, sep, b[k])
  BY <1>6, <1>13
<1>16. DOMAIN b = 1 .. P /\ DOMAIN e = 1 .. P
  OBVIOUS
<1>17. SplitAt(text, sep) = [k \in 1 .. P |-> Slice(text, b[k], e[k])]
  BY <1>7
<1>18. b = [k \in 1 .. P |-> b[k]] /\ e = [k \in 1 .. P |-> e[k]]
  OBVIOUS
<1>19. \A k \in 1 .. P - 1 : k + 1 \in 1 .. P /\ k \in 1 .. P /\ (k + 1) - 1 = k
  BY <1>4
<1>20. \A k \in 1 .. P - 1 : b[k + 1] = e[k] + S
  BY <1>13, <1>19
<1> HIDE DEF b, e, B, G
<1>21. b \in [1 .. P -> 0 .. L]
  BY <1>14, <1>18
<1>22. \A k \in 1 .. P : e[k] \in 0 .. L /\ b[k] <= e[k]
  BY <1>2, <1>9, <1>14, <1>15
<1>23. e \in [1 .. P -> 0 .. L]
  BY <1>18, <1>22
<1>24. 1 \in 1 .. P /\ P \in 1 .. P
  BY <1>4
<1>25. b[1] = 0
  BY <1>2, <1>6, <1>13, <1>24
<1>26. Find(text, sep, b[P]) = -1
  <2>0. b[P] \in 0 .. L /\ count[b[P]] = count[0] - (P - 1)
    BY <1>14, <1>24
  <2>1. b[P] \in 0 .. L /\ count[b[P]] = 0
    BY <1>3, <1>4, <2>0
  <2>2. Find(text, sep, b[P]) # -1 => count[Find(text, sep, b[P]) + S] \in Nat
    BY <1>3, <1>9, <2>1
  <2> QED BY <1>8, <2>1, <2>2
<1>27. e[P] = L
  BY <1>15, <1>24, <1>26
<1>28. ASSUME NEW k \in 1 .. P - 1
       PROVE  e[k] = Find(text, sep, b[k]) /\ e[k] \in Places(text, sep)
  <2>1. k \in 1 .. P /\ b[k] \in 0 .. L /\ count[b[k]] = count[0] - (k - 1)
    BY <1>14, <1>19
  <2>2. count[b[k]] # 0
    BY <1>3, <1>4, <2>1
  <2>3. Find(text, sep, b[k]) # -1
    BY <1>8, <2>1, <2>2
  <2> QED BY <1>9, <1>15, <2>1, <2>3
<1>29. PartBounds(text, sep, P, b, e)
  BY <1>4, <1>20, <1>21, <1>22, <1>23, <1>25, <1>26, <1>27, <1>28 DEF PartBounds, L, S
<1> QED BY <1>17, <1>29 DEF P

\* Two cuts of a text that meet are one cut.
LEMMA CutsMeet ==
  ASSUME NEW text \in Text, NEW a \in Nat, NEW b \in Nat, NEW c \in Nat,
         a <= b, b <= c, c <= Len(text)
  PROVE  SubSeq(text, a + 1, b) \o SubSeq(text, b + 1, c) = SubSeq(text, a + 1, c)
<1> DEFINE x == SubSeq(text, a + 1, b)
           y == SubSeq(text, b + 1, c)
           z == SubSeq(text, a + 1, c)
<1>0. Len(text) \in Nat
  BY TextType
<1>1. x \in Text /\ Len(x) = b - a /\ \A i \in 1 .. b - a : x[i] = text[a + i]
  <2>1. b <= Len(text)
    BY <1>0
  <2> QED BY <2>1, Cut
<1>2. y \in Text /\ Len(y) = c - b /\ \A i \in 1 .. c - b : y[i] = text[b + i]
  BY Cut
<1>3. z \in Text /\ Len(z) = c - a /\ \A i \in 1 .. c - a : z[i] = text[a + i]
  <2>1. a <= c
    BY <1>0
  <2> QED BY <2>1, Cut
<1> HIDE DEF x, y, z
<1>4. /\ x \o y \in Text /\ Len(x \o y) = Len(x) + Len(y)
      /\ \A i \in 1 .. Len(x) + Len(y) : (x \o y)[i] = IF i <= Len(x) THEN x[i] ELSE y[i - Len(x)]
  BY <1>1, <1>2, ConcatProperties DEF Text
<1> DEFINE w == x \o y
<1>5. /\ w \in Text /\ Len(w) = c - a
      /\ \A i \in 1 .. c - a : w[i] = IF i <= b - a THEN x[i] ELSE y[i - (b - a)]
  BY <1>1, <1>2, <1>4
<1> HIDE DEF w
<1>6. ASSUME NEW i \in 1 .. c - a PROVE w[i] = text[a + i]
  <2>1. CASE i <= b - a
    BY <1>1, <1>5, <2>1
  <2>2. CASE ~(i <= b - a)
    <3>1. i - (b - a) \in 1 .. c - b /\ b + (i - (b - a)) = a + i
      BY <2>2
    <3>2. y[i - (b - a)] = text[b + (i - (b - a))]
      BY <1>2, <3>1
    <3>3. w[i] = y[i - (b - a)]
      BY <1>5, <2>2
    <3> QED BY <3>1, <3>2, <3>3
  <2> QED BY <2>1, <2>2
<1>7. w = z
  BY <1>3, <1>5, <1>6, SameText
<1> QED BY <1>7 DEF w, x, y, z

\* All of a text.
LEMMA WholeCut ==
  ASSUME NEW text \in Text PROVE SubSeq(text, 0 + 1, Len(text)) = text
<1> DEFINE z == SubSeq(text, 0 + 1, Len(text))
           n == Len(text)
<1>1. n \in Nat /\ n <= Len(text)
  BY TextType
<1>2. n - 0 = n
  BY <1>1
<1>3. ASSUME NEW a \in Nat, NEW m \in Nat, a <= m, m <= Len(text)
      PROVE  /\ SubSeq(text, a + 1, m) \in Text /\ Len(SubSeq(text, a + 1, m)) = m - a
             /\ \A i \in 1 .. m - a : SubSeq(text, a + 1, m)[i] = text[a + i]
  BY <1>3, Cut
<1>4. 0 \in Nat /\ 0 <= n
  BY <1>1
<1>5. z \in Text /\ Len(z) = n - 0 /\ \A i \in 1 .. n - 0 : z[i] = text[0 + i]
  BY <1>1, <1>3, <1>4, Zenon
<1>6. \A i \in 1 .. n : 0 + i = i
  BY <1>1
<1> HIDE DEF z
<1>7. z = text
  BY <1>1, <1>2, <1>5, <1>6, SameText
<1> QED BY <1>7 DEF z

\* Part by part, what the second pass of join writes.
JoinSteps(sep, parts, g) ==
    /\ g \in [1 .. Len(parts) -> Text] /\ g[1] = parts[1]
    /\ \A k \in 1 .. Len(parts) - 1 : g[k + 1] = (g[k] \o sep) \o parts[k + 1]

\* What is joined was written in those steps.
LEMMA JoinedIs ==
  ASSUME NEW sep \in Text, NEW parts \in Seq(Text), parts # << >>
  PROVE  \E g : JoinSteps(sep, parts, g) /\ Joined(sep, parts) = g[Len(parts)]
<1> DEFINE n == Len(parts)
           piece(k) == (IF k > 1 THEN sep ELSE Empty) \o parts[k]
           pieces == [k \in DOMAIN parts |-> piece(k)]
<1>1. n \in Nat /\ n # 0 /\ DOMAIN parts = 1 .. n /\ \A k \in 1 .. n : parts[k] \in Text
  OBVIOUS
<1>2. Empty \in Text /\ Empty \in Seq(Int)
  BY EmptySeq DEF Text, Empty
<1>3. \A k \in 1 .. n : piece(k) \in Text
  <2> SUFFICES ASSUME NEW k \in 1 .. n PROVE piece(k) \in Text
    OBVIOUS
  <2>1. parts[k] \in Text /\ (IF k > 1 THEN sep ELSE Empty) \in Text
    BY <1>1, <1>2
  <2> QED BY <2>1, ConcatProperties DEF Text
<1>4. pieces \in Seq(Text) /\ Len(pieces) = n /\ \A k \in 1 .. n : pieces[k] = piece(k)
  <2> HIDE DEF piece
  <2> QED BY <1>1, <1>3
<1>5. Joined(sep, parts) = FlattenSeq(pieces)
  BY DEF Joined
<1> HIDE DEF pieces, n
<1>6. pieces # << >>
  BY <1>1, <1>4
<1>7. PICK g : FlattenFunction(pieces, g) /\ FlattenSeq(pieces) = g[Len(pieces)]
  BY <1>4, <1>6, FlattenIs
<1>8. g \in [1 .. n -> Text] /\ \A i \in 1 .. n : g[i] = IF i = 1 THEN pieces[i] ELSE g[i - 1] \o pieces[i]
  BY <1>4, <1>7 DEF FlattenFunction
<1>9. g[1] = parts[1]
  <2>1. 1 \in 1 .. n /\ ~(1 > 1)
    BY <1>1
  <2>2. g[1] = Empty \o parts[1]
    BY <1>4, <1>8, <2>1
  <2>3. parts[1] \in Seq(Int)
    BY <1>1, <2>1 DEF Text
  <2> QED BY <2>2, <2>3, ConcatEmptySeq DEF Empty
<1>10. ASSUME NEW k \in 1 .. n - 1 PROVE g[k + 1] = (g[k] \o sep) \o parts[k + 1]
  <2>1. k + 1 \in 1 .. n /\ k \in 1 .. n /\ (k + 1) - 1 = k /\ k + 1 # 1 /\ k + 1 > 1
    BY <1>1
  <2>2. g[k + 1] = g[k] \o pieces[k + 1]
    BY <1>8, <2>1
  <2>3. pieces[k + 1] = sep \o parts[k + 1]
    BY <1>4, <2>1
  <2>4. g[k] \in Seq(Int) /\ sep \in Seq(Int) /\ parts[k + 1] \in Seq(Int)
    BY <1>1, <1>8, <2>1 DEF Text
  <2>5. g[k] \o (sep \o parts[k + 1]) = (g[k] \o sep) \o parts[k + 1]
    BY <2>4, ThreeParts
  <2> QED BY <2>2, <2>3, <2>5
<1>11. JoinSteps(sep, parts, g)
  BY <1>8, <1>9, <1>10 DEF JoinSteps, n
<1> QED BY <1>4, <1>5, <1>7, <1>11 DEF n

\* Join writes as much as it has measured.
LEMMA JoinWrites ==
  ASSUME NEW sep \in Text, NEW parts \in Seq(Text), parts # << >>
  PROVE  /\ Joined(sep, parts) \in Text
         /\ Len(Joined(sep, parts)) = JoinLength(sep, parts)
<1> DEFINE n == Len(parts)
           S == Len(sep)
           f == [k \in DOMAIN parts |-> Len(parts[k])]
<1>1. n \in Nat /\ n # 0 /\ DOMAIN parts = 1 .. n /\ \A k \in 1 .. n : parts[k] \in Text
  OBVIOUS
<1>2. S \in Nat /\ sep \in Seq(Int) /\ \A t \in Text : Len(t) \in Int /\ t \in Seq(Int)
  BY TextType DEF Text
<1>3. f \in Text /\ Len(f) = n /\ \A k \in 1 .. n : f[k] = Len(parts[k])
  BY <1>1, <1>2 DEF Text
<1>4. JoinLength(sep, parts) = (n - 1) * S + SumFunction(f)
  BY DEF JoinLength
<1> HIDE DEF n, S, f
<1>5. PICK T : PartialSums(f, T) /\ SumFunction(f) = T[Len(f)]
  BY <1>3, SumSteps
<1>6. /\ T \in [0 .. n -> Int] /\ T[0] = 0 /\ SumFunction(f) = T[n]
      /\ \A k \in 1 .. n : T[k] = T[k - 1] + Len(parts[k])
  BY <1>3, <1>5 DEF PartialSums
<1>7. PICK g : JoinSteps(sep, parts, g) /\ Joined(sep, parts) = g[n]
  BY JoinedIs DEF n
<1>8. /\ g \in [1 .. n -> Text] /\ g[1] = parts[1]
      /\ \A k \in 1 .. n - 1 : g[k + 1] = (g[k] \o sep) \o parts[k + 1]
  BY <1>7 DEF JoinSteps, n
<1> DEFINE G == {k \in 0 .. n - 1 : Len(g[k + 1]) = k * S + T[k + 1]}
<1>9. 0 \in G
  <2>1. 1 \in 1 .. n /\ 1 - 1 = 0 /\ 0 \in 0 .. n - 1 /\ 0 + 1 = 1 /\ 1 \in 0 .. n
    BY <1>1
  <2>2. T[1] = 0 + Len(parts[1]) /\ Len(parts[1]) \in Int
    BY <1>1, <1>2, <1>6, <2>1
  <2>3. 0 * S = 0
    BY <1>2
  <2>4. Len(g[1]) = 0 * S + T[1]
    BY <1>8, <2>2, <2>3
  <2> QED BY <2>1, <2>4
<1>10. ASSUME NEW k \in 1 .. n - 1, k - 1 \in G PROVE k \in G
  <2>1. k \in 1 .. n /\ k + 1 \in 1 .. n /\ (k - 1) + 1 = k /\ (k + 1) - 1 = k /\ k \in 0 .. n - 1
    BY <1>1
  <2>2. Len(g[k]) = (k - 1) * S + T[k]
    <3>1. Len(g[(k - 1) + 1]) = (k - 1) * S + T[(k - 1) + 1]
      BY <1>10
    <3> QED BY <2>1, <3>1
  <2>3. T[k + 1] = T[k] + Len(parts[k + 1]) /\ T[k] \in Int /\ Len(parts[k + 1]) \in Int
    <3>1. T[k + 1] = T[(k + 1) - 1] + Len(parts[k + 1])
      BY <1>6, <2>1
    <3>2. k \in 0 .. n
      BY <1>1
    <3> QED BY <1>1, <1>2, <1>6, <2>1, <3>1, <3>2
  <2>4. g[k + 1] = (g[k] \o sep) \o parts[k + 1] /\ g[k] \in Text /\ parts[k + 1] \in Text
    BY <1>1, <1>8, <2>1
  <2>5. g[k] \o sep \in Seq(Int) /\ Len(g[k] \o sep) = Len(g[k]) + S
    BY <1>2, <2>4, ConcatProperties DEF S
  <2>6. Len(g[k + 1]) = (Len(g[k]) + S) + Len(parts[k + 1])
    <3> DEFINE x == g[k] \o sep
               y == parts[k + 1]
    <3>1. x \in Seq(Int) /\ y \in Seq(Int) /\ Len(x) = Len(g[k]) + S /\ g[k + 1] = x \o y
      BY <1>2, <2>4, <2>5
    <3> HIDE DEF x, y
    <3>2. Len(x \o y) = Len(x) + Len(y)
      BY <3>1, ConcatProperties
    <3> QED BY <3>1, <3>2 DEF y
  <2>7. (k - 1) * S + S = k * S /\ (k - 1) * S \in Int /\ k * S \in Int
    BY <1>2, <2>1
  <2> DEFINE u == (k - 1) * S
             v == k * S
             t == T[k]
             l == Len(parts[k + 1])
  <2>8. Len(g[k + 1]) = ((u + t) + S) + l /\ T[k + 1] = t + l /\ u + S = v /\ u \in Int /\ v \in Int
        /\ t \in Int /\ l \in Int
    BY <2>2, <2>3, <2>6, <2>7
  <2> HIDE DEF u, v, t, l
  <2>9. Len(g[k + 1]) = v + T[k + 1]
    BY <1>2, <2>8
  <2> QED BY <2>1, <2>9 DEF v
<1>11. 0 .. n - 1 \subseteq G
  <2> HIDE DEF G
  <2>1. n - 1 \in Nat
    BY <1>1
  <2> QED BY <1>9, <1>10, <2>1, UpInduction
<1>12. Len(g[n]) = (n - 1) * S + T[n]
  <2>1. n - 1 \in 0 .. n - 1 /\ (n - 1) + 1 = n
    BY <1>1
  <2>2. Len(g[(n - 1) + 1]) = (n - 1) * S + T[(n - 1) + 1]
    BY <1>11, <2>1
  <2> QED BY <2>1, <2>2
<1>13. g[n] \in Text
  BY <1>1, <1>8
<1> QED BY <1>4, <1>6, <1>7, <1>12, <1>13

\* A range that lies in the text is cut out of it.
LEMMA SliceIs ==
  ASSUME NEW text \in Text, Len(text) <= MaxLength,
         NEW a \in Nat, NEW b \in Nat, a <= b, b <= Len(text)
  PROVE  Slice(text, a, b) = SubSeq(text, a + 1, b)
<1> DEFINE z == SubSeq(text, a + 1, b)
<1>1. Len(text) \in Nat /\ MaxLength \in Nat /\ DOMAIN text = 1 .. Len(text)
      /\ \A i \in 1 .. Len(text) : text[i] \in Int
  BY TextType, LengthAssumption
<1>2. z \in Text /\ Len(z) = b - a /\ \A i \in 1 .. b - a : z[i] = text[a + i]
  BY Cut
<1> HIDE DEF z
<1>3. CASE b <= a
  <2>1. Slice(text, a, b) = Empty
    BY <1>3 DEF Slice
  <2>2. Len(z) = 0
    BY <1>2, <1>3
  <2> QED BY <1>2, <2>1, <2>2, TextType DEF z
<1>4. CASE ~(b <= a)
  <2> DEFINE w == [i \in 1 .. b - a |-> IF a + i \in DOMAIN text THEN text[a + i] ELSE 32]
  <2>1. ~(b - a > MaxLength)
    BY <1>1
  <2>2. Slice(text, a, b) = w
    BY <1>4, <2>1 DEF Slice, Limited
  <2>3. \A i \in 1 .. b - a : a + i \in 1 .. Len(text)
    BY <1>1
  <2>4. \A i \in 1 .. b - a : w[i] = text[a + i]
    BY <1>1, <2>3
  <2>5. w \in Text /\ Len(w) = b - a
    <3>1. b - a \in Nat /\ \A i \in 1 .. b - a : w[i] \in Int
      BY <1>1, <1>4, <2>3, <2>4
    <3> QED BY <3>1 DEF Text
  <2> HIDE DEF w
  <2>6. w = z
    BY <1>2, <2>4, <2>5, SameText
  <2> QED BY <2>2, <2>6 DEF z
<1> QED BY <1>3, <1>4

\* The parts between their bounds.
Between(text, P, b, e) == [k \in 1 .. P |-> SubSeq(text, b[k] + 1, e[k])]

\* What the bounds say, one by one.
LEMMA BoundsType ==
  ASSUME NEW text \in Text, NEW sep \in Text, sep # Empty, NEW P, NEW b, NEW e,
         PartBounds(text, sep, P, b, e)
  PROVE  /\ P \in Nat /\ P # 0 /\ Len(text) \in Nat /\ Len(sep) \in Nat /\ Len(sep) # 0
         /\ b[1] = 0 /\ e[P] = Len(text) /\ Find(text, sep, b[P]) = -1
         /\ \A k \in 1 .. P : /\ b[k] \in Nat /\ e[k] \in Nat /\ b[k] <= e[k] /\ e[k] <= Len(text)
                              /\ b[k] <= Len(text) /\ b[k] \in 0 .. Len(text)
         /\ \A k \in 1 .. P - 1 : /\ e[k] = Find(text, sep, b[k]) /\ e[k] \in Places(text, sep)
                                  /\ b[k + 1] = e[k] + Len(sep)
<1>1. Len(text) \in Nat /\ Len(sep) \in Nat /\ Len(sep) # 0
  BY TextType
<1>2. /\ P \in Nat /\ P # 0
      /\ b \in [1 .. P -> 0 .. Len(text)] /\ e \in [1 .. P -> 0 .. Len(text)]
      /\ b[1] = 0 /\ e[P] = Len(text) /\ Find(text, sep, b[P]) = -1
      /\ \A k \in 1 .. P : b[k] <= e[k]
      /\ \A k \in 1 .. P - 1 : /\ e[k] = Find(text, sep, b[k]) /\ e[k] \in Places(text, sep)
                               /\ b[k + 1] = e[k] + Len(sep)
  BY DEF PartBounds
<1>3. \A k \in 1 .. P : b[k] \in 0 .. Len(text) /\ e[k] \in 0 .. Len(text)
  BY <1>2
<1>4. \A k \in 1 .. P : /\ b[k] \in Nat /\ e[k] \in Nat /\ b[k] <= e[k] /\ e[k] <= Len(text)
                        /\ b[k] <= Len(text) /\ b[k] \in 0 .. Len(text)
  BY <1>1, <1>2, <1>3
<1> QED BY <1>1, <1>2, <1>4

\* The parts between bounds are texts.
LEMMA BetweenType ==
  ASSUME NEW text \in Text, NEW sep \in Text, sep # Empty, NEW P, NEW b, NEW e,
         PartBounds(text, sep, P, b, e)
  PROVE  /\ Between(text, P, b, e) \in Seq(Text) /\ Len(Between(text, P, b, e)) = P
         /\ Between(text, P, b, e) # << >>
         /\ \A k \in 1 .. P : Between(text, P, b, e)[k] = SubSeq(text, b[k] + 1, e[k])
<1>1. /\ P \in Nat /\ P # 0
      /\ \A k \in 1 .. P : b[k] \in Nat /\ e[k] \in Nat /\ b[k] <= e[k] /\ e[k] <= Len(text)
  BY BoundsType
<1>2. \A k \in 1 .. P : SubSeq(text, b[k] + 1, e[k]) \in Text
  <2> SUFFICES ASSUME NEW k \in 1 .. P PROVE SubSeq(text, b[k] + 1, e[k]) \in Text
    OBVIOUS
  <2> DEFINE x == b[k]
             y == e[k]
  <2>1. x \in Nat /\ y \in Nat /\ x <= y /\ y <= Len(text)
    BY <1>1
  <2> HIDE DEF x, y
  <2>2. SubSeq(text, x + 1, y) \in Text
    BY <2>1, Cut
  <2> QED BY <2>2 DEF x, y
<1> DEFINE r == Between(text, P, b, e)
<1>3. r = [k \in 1 .. P |-> SubSeq(text, b[k] + 1, e[k])]
  BY DEF Between
<1>4. r \in Seq(Text) /\ Len(r) = P /\ \A k \in 1 .. P : r[k] = SubSeq(text, b[k] + 1, e[k])
  <2> DEFINE c(k) == SubSeq(text, b[k] + 1, e[k])
  <2>1. r = [k \in 1 .. P |-> c(k)] /\ \A k \in 1 .. P : c(k) \in Text
    BY <1>2, <1>3
  <2> HIDE DEF r, c
  <2>2. r \in Seq(Text) /\ Len(r) = P /\ \A k \in 1 .. P : r[k] = c(k)
    BY <1>1, <2>1
  <2> QED BY <2>2 DEF c
<1> HIDE DEF r
<1>5. r # << >>
  BY <1>1, <1>4
<1> QED BY <1>4, <1>5 DEF r

\* A text stands at its places.
LEMMA PlaceCut ==
  ASSUME NEW text \in Text, NEW sub \in Text, NEW i \in Places(text, sub)
  PROVE  SubSeq(text, i + 1, i + Len(sub)) = sub
BY DEF Places, At

\* Joining puts a text back together.
LEMMA JoinedBack ==
  ASSUME NEW text \in Text, NEW sep \in Text, sep # Empty, NEW P, NEW b, NEW e,
         PartBounds(text, sep, P, b, e)
  PROVE  Joined(sep, Between(text, P, b, e)) = text
<1> DEFINE r == Between(text, P, b, e)
           L == Len(text)
           S == Len(sep)
<1>1. /\ P \in Nat /\ P # 0 /\ L \in Nat /\ S \in Nat /\ b[1] = 0 /\ e[P] = L
      /\ \A k \in 1 .. P : b[k] \in Nat /\ e[k] \in Nat /\ b[k] <= e[k] /\ e[k] <= L /\ b[k] <= L
      /\ \A k \in 1 .. P - 1 : e[k] \in Places(text, sep) /\ b[k + 1] = e[k] + S
  BY BoundsType
<1>2. r \in Seq(Text) /\ Len(r) = P /\ r # << >> /\ \A k \in 1 .. P : r[k] = SubSeq(text, b[k] + 1, e[k])
  BY BetweenType
<1>21. \A i \in Places(text, sep) : SubSeq(text, i + 1, i + S) = sep
  BY PlaceCut
<1>22. \A x, y, z \in Nat : x <= y /\ y <= z /\ z <= L =>
         SubSeq(text, x + 1, y) \o SubSeq(text, y + 1, z) = SubSeq(text, x + 1, z)
  BY CutsMeet
<1> DEFINE o == 0
<1>23. o \in Nat /\ o = 0
  OBVIOUS
<1> HIDE DEF r, L, S, o
<1>3. PICK g : JoinSteps(sep, r, g) /\ Joined(sep, r) = g[Len(r)]
  BY <1>2, JoinedIs
<1>4. /\ g[1] = r[1]
      /\ \A k \in 1 .. P - 1 : g[k + 1] = (g[k] \o sep) \o r[k + 1]
  BY <1>2, <1>3 DEF JoinSteps
<1> DEFINE G == {k \in 0 .. P - 1 : g[k + 1] = SubSeq(text, o + 1, e[k + 1])}
<1>5. 0 \in G
  <2>1. 1 \in 1 .. P /\ 0 \in 0 .. P - 1 /\ 0 + 1 = 1
    BY <1>1
  <2>2. g[1] = SubSeq(text, o + 1, e[1])
    BY <1>1, <1>2, <1>4, <1>23, <2>1
  <2> QED BY <2>1, <2>2
<1>6. ASSUME NEW k \in 1 .. P - 1, k - 1 \in G PROVE k \in G
  <2>1. k \in 1 .. P /\ k + 1 \in 1 .. P /\ (k - 1) + 1 = k /\ k \in 0 .. P - 1
    BY <1>1
  <2> DEFINE x == e[k]
             y == b[k + 1]
             z == e[k + 1]
  <2>21. x \in Nat /\ x \in Places(text, sep) /\ y = x + S
    BY <1>1, <2>1
  <2>22. y \in Nat /\ z \in Nat /\ y <= z /\ z <= L
    BY <1>1, <2>1
  <2>23. r[k + 1] = SubSeq(text, y + 1, z)
    BY <1>2, <2>1
  <2>24. x <= y
    BY <1>1, <2>21
  <2>2. x \in Nat /\ y \in Nat /\ z \in Nat /\ x <= y /\ y <= z /\ z <= L /\ y = x + S
        /\ x \in Places(text, sep) /\ r[k + 1] = SubSeq(text, y + 1, z)
    BY <2>21, <2>22, <2>23, <2>24
  <2>3. g[k] = SubSeq(text, o + 1, x)
    <3>1. g[(k - 1) + 1] = SubSeq(text, o + 1, e[(k - 1) + 1])
      BY <1>6
    <3> QED BY <2>1, <3>1
  <2>4. g[k + 1] = (g[k] \o sep) \o r[k + 1]
    BY <1>4
  <2> HIDE DEF x, y, z
  <2>5. sep = SubSeq(text, x + 1, y)
    BY <1>21, <2>2
  <2>6. o <= x /\ o <= y /\ y <= L
    BY <1>1, <1>23, <2>2
  <2>61. SubSeq(text, o + 1, x) \o SubSeq(text, x + 1, y) = SubSeq(text, o + 1, y)
    BY <1>22, <1>23, <2>2, <2>6, Zenon
  <2>62. SubSeq(text, o + 1, y) \o SubSeq(text, y + 1, z) = SubSeq(text, o + 1, z)
    BY <1>22, <1>23, <2>2, <2>6, Zenon
  <2>7. g[k] \o sep = SubSeq(text, o + 1, y)
    BY <2>3, <2>5, <2>61, Zenon
  <2>8. g[k + 1] = SubSeq(text, o + 1, z)
    BY <2>2, <2>4, <2>62, <2>7, Zenon
  <2> QED BY <2>1, <2>8 DEF z
<1>7. 0 .. P - 1 \subseteq G
  <2> HIDE DEF G
  <2>1. P - 1 \in Nat
    BY <1>1
  <2> QED BY <1>5, <1>6, <2>1, UpInduction
<1>8. g[P] = SubSeq(text, o + 1, L)
  <2>1. P - 1 \in 0 .. P - 1 /\ (P - 1) + 1 = P
    BY <1>1
  <2>2. g[(P - 1) + 1] = SubSeq(text, o + 1, e[(P - 1) + 1])
    BY <1>7, <2>1
  <2> QED BY <1>1, <2>1, <2>2
<1> QED BY <1>2, <1>3, <1>8, WholeCut DEF r, L, o

\* Replacing is joining the parts with something else.
LEMMA ReplacedBack ==
  ASSUME NEW text \in Text, NEW sep \in Text, sep # Empty, NEW new \in Text,
         NEW P, NEW b, NEW e, PartBounds(text, sep, P, b, e)
  PROVE  Replaced(text, sep, new) = Joined(new, Between(text, P, b, e))
<1> DEFINE r == Between(text, P, b, e)
           L == Len(text)
           S == Len(sep)
<1>1. /\ P \in Nat /\ P # 0 /\ L \in Nat /\ S \in Nat /\ b[1] = 0 /\ e[P] = L
      /\ Find(text, sep, b[P]) = -1
      /\ \A k \in 1 .. P : b[k] \in 0 .. L
      /\ \A k \in 1 .. P - 1 : e[k] = Find(text, sep, b[k]) /\ b[k + 1] = e[k] + S /\ e[k] \in Nat
  <2>1. \A k \in 1 .. P - 1 : k \in 1 .. P
    BY BoundsType
  <2> QED BY <2>1, BoundsType
<1>2. r \in Seq(Text) /\ Len(r) = P /\ r # << >> /\ \A k \in 1 .. P : r[k] = SubSeq(text, b[k] + 1, e[k])
  BY BetweenType
<1>3. \A k \in 1 .. P : r[k] \in Text
  BY <1>2
<1> HIDE DEF r
<1>4. PICK g : JoinSteps(new, r, g) /\ Joined(new, r) = g[Len(r)]
  BY <1>2, JoinedIs
<1>5. /\ g \in [1 .. P -> Text] /\ g[1] = r[1]
      /\ \A k \in 1 .. P - 1 : g[k + 1] = (g[k] \o new) \o r[k + 1]
  BY <1>2, <1>4 DEF JoinSteps
<1>6. PICK rest : Rests(text, sep, new, rest) /\ Replaced(text, sep, new) = rest[0]
  BY ReplacedIs
<1>7. /\ rest \in [0 .. L -> Text]
      /\ \A i \in 0 .. L :
           rest[i] = IF Find(text, sep, i) = -1 THEN SubSeq(text, i + 1, L)
                     ELSE SubSeq(text, i + 1, Find(text, sep, i)) \o new \o rest[Find(text, sep, i) + S]
  BY <1>6 DEF Rests
<1> HIDE DEF L, S
<1>8. rest[b[P]] = r[P]
  <2>1. P \in 1 .. P
    BY <1>1
  <2> QED BY <1>1, <1>2, <1>7, <2>1
<1>9. ASSUME NEW k \in 1 .. P - 1 PROVE rest[b[k]] = (r[k] \o new) \o rest[b[k + 1]]
  <2>1. k \in 1 .. P /\ b[k] \in 0 .. L /\ e[k] # -1
    BY <1>1
  <2>2. e[k] = Find(text, sep, b[k]) /\ b[k + 1] = e[k] + S
    BY <1>1
  <2> DEFINE x == b[k]
             y == e[k]
  <2>3. x \in 0 .. L /\ Find(text, sep, x) = y /\ y # -1 /\ b[k + 1] = y + S
    BY <2>1, <2>2
  <2>4. r[k] = SubSeq(text, x + 1, y)
    BY <1>2, <2>1
  <2> HIDE DEF x, y
  <2>5. rest[x] = (SubSeq(text, x + 1, y) \o new) \o rest[y + S]
    BY <1>7, <2>3
  <2> QED BY <2>3, <2>4, <2>5 DEF x
<1> DEFINE h(k) == IF k = 1 THEN << >> ELSE g[k - 1] \o new
           G == {k \in 0 .. P - 1 : rest[0] = h(k + 1) \o rest[b[k + 1]]}
<1>10. \A t \in Text : t \in Seq(Int)
  BY DEF Text
<1>11. << >> \in Seq(Int)
  BY EmptySeq
<1>12. \A k \in 1 .. P : h(k) \in Seq(Int)
  <2> SUFFICES ASSUME NEW k \in 1 .. P, k # 1 PROVE g[k - 1] \o new \in Seq(Int)
    BY <1>11
  <2>1. k - 1 \in 1 .. P
    BY <1>1
  <2>2. g[k - 1] \in Seq(Int) /\ new \in Seq(Int)
    BY <1>5, <1>10, <2>1
  <2> QED BY <2>2, ConcatProperties
<1>13. \A k \in 1 .. P : g[k] = h(k) \o r[k]
  <2> SUFFICES ASSUME NEW k \in 1 .. P PROVE g[k] = h(k) \o r[k]
    OBVIOUS
  <2>1. CASE k = 1
    <3>1. r[k] \in Seq(Int) /\ g[k] = r[k] /\ h(k) = << >>
      BY <1>3, <1>5, <1>10, <2>1
    <3> HIDE DEF h
    <3> QED BY <3>1, ConcatEmptySeq
  <2>2. CASE k # 1
    <3>1. k - 1 \in 1 .. P - 1 /\ (k - 1) + 1 = k
      BY <1>1, <2>2
    <3>2. g[(k - 1) + 1] = (g[k - 1] \o new) \o r[(k - 1) + 1]
      BY <1>5, <3>1
    <3> QED BY <2>2, <3>1, <3>2
  <2> QED BY <2>1, <2>2
<1>14. 0 \in G
  <2>1. 0 \in 0 .. P - 1 /\ 0 + 1 = 1 /\ b[1] = 0 /\ h(1) = << >> /\ 1 \in 1 .. P
    BY <1>1
  <2>2. rest[0] \in Seq(Int)
    BY <1>1, <1>7, <1>10, <2>1
  <2>3. rest[0] = << >> \o rest[0]
    BY <2>2, ConcatEmptySeq
  <2> HIDE DEF h
  <2> QED BY <2>1, <2>3
<1>15. ASSUME NEW k \in 1 .. P - 1, k - 1 \in G PROVE k \in G
  <2>1. k \in 1 .. P /\ k + 1 \in 1 .. P /\ (k - 1) + 1 = k /\ k \in 0 .. P - 1 /\ k + 1 # 1 /\ (k + 1) - 1 = k
    BY <1>1
  <2>2. h(k + 1) = g[k] \o new /\ g[k] = h(k) \o r[k]
    BY <1>13, <2>1
  <2>3. h(k) \in Seq(Int)
    BY <1>12, <2>1
  <2>4. rest[0] = h((k - 1) + 1) \o rest[b[(k - 1) + 1]]
    BY <1>15
  <2> HIDE DEF h
  <2>5. rest[0] = h(k) \o rest[b[k]]
    BY <2>1, <2>4
  <2>6. r[k] \in Seq(Int) /\ new \in Seq(Int) /\ rest[b[k + 1]] \in Seq(Int)
    BY <1>1, <1>3, <1>7, <1>10, <2>1
  <2> DEFINE a == h(k)
             x == r[k]
             z == rest[b[k + 1]]
  <2>7. a \in Seq(Int) /\ x \in Seq(Int) /\ z \in Seq(Int) /\ new \in Seq(Int)
    BY <2>3, <2>6
  <2>8. rest[0] = a \o ((x \o new) \o z) /\ h(k + 1) = (a \o x) \o new
    BY <1>9, <2>2, <2>5
  <2> HIDE DEF a, x
  <2>81. h(k + 1) \o z = ((a \o x) \o new) \o z
    BY <2>8
  <2> HIDE DEF z
  <2>9. x \o new \in Seq(Int) /\ a \o x \in Seq(Int)
    BY <2>7, ConcatProperties
  <2>10. a \o ((x \o new) \o z) = (a \o (x \o new)) \o z
    <3>1. a \in Seq(Int) /\ x \o new \in Seq(Int) /\ z \in Seq(Int)
      BY <2>7, <2>9 DEF z
    <3> QED BY <3>1, ThreeParts, Zenon
  <2>11. a \o (x \o new) = (a \o x) \o new
    BY <2>7, ThreeParts
  <2>12. rest[0] = h(k + 1) \o z
    BY <2>8, <2>81, <2>10, <2>11, Zenon
  <2> QED BY <2>1, <2>12 DEF z
<1>16. 0 .. P - 1 \subseteq G
  <2> HIDE DEF G
  <2>1. P - 1 \in Nat
    BY <1>1
  <2> QED BY <1>14, <1>15, <2>1, UpInduction
<1>17. rest[0] = h(P) \o rest[b[P]]
  <2>1. P - 1 \in 0 .. P - 1 /\ (P - 1) + 1 = P
    BY <1>1
  <2>2. rest[0] = h((P - 1) + 1) \o rest[b[(P - 1) + 1]]
    BY <1>16, <2>1
  <2> HIDE DEF h
  <2> QED BY <2>1, <2>2
<1>18. P \in 1 .. P
  BY <1>1
<1>19. g[P] = rest[0]
  <2> HIDE DEF h
  <2> QED BY <1>8, <1>13, <1>17, <1>18
<1> QED BY <1>2, <1>4, <1>6, <1>19 DEF r

\* No part has the separator in it.
LEMMA PartsFree ==
  ASSUME NEW text \in Text, NEW sep \in Text, sep # Empty,
         NEW P, NEW b, NEW e, PartBounds(text, sep, P, b, e), NEW k \in 1 .. P
  PROVE  ~Contained(Between(text, P, b, e)[k], sep)
<1> DEFINE r == SubSeq(text, b[k] + 1, e[k])
           x == b[k]
           y == e[k]
           S == Len(sep)
           L == Len(text)
<1>1. Between(text, P, b, e)[k] = r
  BY BetweenType
<1>2. x \in Nat /\ y \in Nat /\ x <= y /\ y <= L /\ L \in Nat /\ S \in Nat /\ S # 0
      /\ P \in Nat /\ \/ k = P /\ Find(text, sep, x) = -1
                      \/ Find(text, sep, x) = y
  <2>1. k = P \/ k \in 1 .. P - 1
    BY BoundsType
  <2> QED BY <2>1, BoundsType
<1> HIDE DEF x, y
<1>3. r \in Text /\ Len(r) = y - x /\ \A i \in 1 .. y - x : r[i] = text[x + i]
  <2>1. SubSeq(text, x + 1, y) \in Text /\ Len(SubSeq(text, x + 1, y)) = y - x
        /\ \A i \in 1 .. y - x : SubSeq(text, x + 1, y)[i] = text[x + i]
    BY <1>2, Cut
  <2> QED BY <2>1 DEF x, y
<1> HIDE DEF r
<1>4. ASSUME Find(r, sep, 0) # -1 PROVE FALSE
  <2> DEFINE i == Find(r, sep, 0)
  <2>1. i \in Places(r, sep) /\ i \in Nat
    BY <1>3, <1>4, FindStep
  <2> HIDE DEF i
  <2>2. i + S <= y - x /\ \A j \in 1 .. S : r[i + j] = sep[j]
    BY <1>3, <2>1, PlacesType
  <2>3. x + i \in Nat /\ x + i + S <= L /\ x <= x + i /\ ~(x + i < x)
    BY <1>2, <2>1, <2>2
  <2>4. ASSUME NEW j \in 1 .. S PROVE text[x + i + j] = sep[j]
    <3>1. i + j \in 1 .. y - x /\ x + (i + j) = x + i + j
      BY <1>2, <2>1, <2>2
    <3> QED BY <1>3, <2>2, <3>1
  <2>5. x + i \in Places(text, sep)
    BY <2>3, <2>4, PlacesType DEF L, S
  <2>6. CASE Find(text, sep, x) = -1
    <3>0. \/ Find(text, sep, x) = -1 /\ \A j \in Places(text, sep) : j < x
          \/ Find(text, sep, x) \in Places(text, sep)
      BY <1>2, FindIs
    <3>1. \A j \in Places(text, sep) : j < x
      <4>1. -1 \notin Places(text, sep)
        BY PlacesType
      <4> QED BY <2>6, <3>0, <4>1
    <3> QED BY <2>3, <2>5, <3>1
  <2>7. CASE Find(text, sep, x) = y
    <3>1. y # -1
      BY <1>2
    <3>2. \A j \in Places(text, sep) : x <= j => y <= j
      BY <1>2, <2>7, <3>1, FindIs
    <3>3. y <= x + i
      BY <2>3, <2>5, <3>2
    <3> QED BY <1>2, <2>1, <2>2, <3>3
  <2> QED BY <1>2, <2>6, <2>7
<1> QED BY <1>1, <1>4 DEF Contained

\* Replacing changes the length by the difference, match by match.
LEMMA LengthsChange ==
  \A o, s, c, t \in Int : (c * s + t) + (o - s) * c = c * o + t
<1> SUFFICES ASSUME NEW o \in Int, NEW s \in Int, NEW c \in Int, NEW t \in Int
             PROVE  (c * s + t) + (o - s) * c = c * o + t
  OBVIOUS
<1>1. (o - s) * c = c * o - c * s /\ c * o \in Int /\ c * s \in Int /\ (o - s) * c \in Int
  OBVIOUS
<1> DEFINE x == c * o
           y == c * s
           z == (o - s) * c
<1>2. z = x - y /\ x \in Int /\ y \in Int
  BY <1>1
<1> HIDE DEF x, y, z
<1>3. (y + t) + z = x + t
  BY <1>2
<1> QED BY <1>3 DEF x, y, z

\* Splitting at a separator loses nothing, and replacing is splitting and joining.
LEMMA SplitsAt ==
  ASSUME NEW text \in Text, NEW sep \in Text, sep # Empty, NEW other \in Text,
         Len(text) <= MaxLength, NEW parts, parts = SplitAt(text, sep)
  PROVE  /\ parts \in Seq(Text) /\ parts # << >>
         /\ Join(sep, parts) = text
         /\ \A k \in DOMAIN parts : ~Contained(parts[k], sep)
         /\ Replace(text, sep, other) = Join(other, parts)
         /\ Len(Replaced(text, sep, other)) = ReplaceLength(text, sep, other)
<1> DEFINE P == PartCount(text, sep)
<1>1. PICK b, e : /\ PartBounds(text, sep, P, b, e)
                  /\ SplitAt(text, sep) = [k \in 1 .. P |-> Slice(text, b[k], e[k])]
  BY SplitParts
<1> DEFINE r == Between(text, P, b, e)
<1>0. P = MatchCount(text, sep) + 1
  BY DEF PartCount
<1> HIDE DEF P
<1>2. \A k \in 1 .. P : b[k] \in Nat /\ e[k] \in Nat /\ b[k] <= e[k] /\ e[k] <= Len(text)
  BY <1>1, BoundsType
<1>3. \A k \in 1 .. P : Slice(text, b[k], e[k]) = SubSeq(text, b[k] + 1, e[k])
  BY <1>2, SliceIs
<1>4. parts = r
  BY <1>1, <1>3 DEF Between
<1>5. r \in Seq(Text) /\ r # << >> /\ Len(r) = P /\ \A k \in 1 .. P : r[k] = SubSeq(text, b[k] + 1, e[k])
  BY <1>1, BetweenType
<1>6. Joined(sep, r) = text
  BY <1>1, JoinedBack
<1>7. Replaced(text, sep, other) = Joined(other, r)
  BY <1>1, ReplacedBack
<1>8. \A k \in 1 .. P : ~Contained(r[k], sep)
  BY <1>1, PartsFree
<1> HIDE DEF r
<1>9. Len(text) = JoinLength(sep, r)
  BY <1>5, <1>6, JoinWrites
<1>10. Len(Joined(other, r)) = JoinLength(other, r) /\ Joined(other, r) \in Text
  BY <1>5, JoinWrites
<1> DEFINE c == P - 1
           t == SumFunction([k \in DOMAIN r |-> Len(r[k])])
           s == Len(sep)
           o == Len(other)
           M == MatchCount(text, sep)
<1>11. JoinLength(sep, r) = c * s + t /\ JoinLength(other, r) = c * o + t
  BY <1>5 DEF JoinLength
<1>12. ReplaceLength(text, sep, other) = Len(text) + (o - s) * M
  BY DEF ReplaceLength
<1>13. P \in Nat /\ P # 0 /\ s \in Int /\ o \in Int /\ c \in Int /\ Len(text) \in Int
  BY <1>1, BoundsType, TextType
<1>14. M = c /\ (M = 0 => P = 1)
  <2>1. PICK count : Counts(text, sep, count) /\ MatchCount(text, sep) = count[0]
    BY MatchCountIs
  <2>2. Len(text) \in Nat /\ 0 \in 0 .. Len(text)
    BY TextType
  <2>3. M \in Nat
    BY <2>1, <2>2 DEF Counts
  <2> HIDE DEF M
  <2> QED BY <1>0, <2>3 DEF M
<1>15. t \in Int
  <2> DEFINE f == [k \in DOMAIN r |-> Len(r[k])]
  <2>1. \A k \in 1 .. P : r[k] \in Text /\ Len(r[k]) \in Int
    BY <1>5, TextType
  <2>2. f \in Text
    BY <1>5, <1>13, <2>1 DEF Text
  <2> HIDE DEF f
  <2>3. 0 \in Int
    OBVIOUS
  <2>4. SumFunction(f) \in Int
    BY <2>2, <2>3, SumAppend
  <2> QED BY <2>4 DEF f
<1> HIDE DEF c, t, s, o, M
<1>16. (c * s + t) + (o - s) * c = c * o + t
  BY <1>13, <1>15, LengthsChange
<1>17. ReplaceLength(text, sep, other) = JoinLength(other, r)
  BY <1>9, <1>11, <1>12, <1>14, <1>16
<1>18. Len(Replaced(text, sep, other)) = ReplaceLength(text, sep, other)
  BY <1>7, <1>10, <1>17
<1>19. Join(sep, r) = text
  <2>1. ~(JoinLength(sep, r) > MaxLength)
    BY <1>9, <1>13, LengthAssumption
  <2> QED BY <1>5, <1>6, <2>1 DEF Join, Limited
<1>20. Join(other, r) = Limited(Joined(other, r), JoinLength(other, r))
  BY <1>5 DEF Join
<1>21. Replace(text, sep, other) = Join(other, r)
  <2>1. CASE M # 0
    <3>1. Replace(text, sep, other) = Limited(Replaced(text, sep, other), ReplaceLength(text, sep, other))
      BY <2>1 DEF Replace, M
    <3> QED BY <1>7, <1>17, <1>20, <3>1
  <2>2. CASE M = 0
    <3>1. Replace(text, sep, other) = text /\ P = 1
      BY <1>14, <2>2 DEF Replace, M
    <3>2. PICK g : JoinSteps(other, r, g) /\ Joined(other, r) = g[Len(r)]
      BY <1>5, JoinedIs
    <3>3. Joined(other, r) = r[1]
      BY <1>5, <3>1, <3>2 DEF JoinSteps
    <3>4. PICK h : JoinSteps(sep, r, h) /\ Joined(sep, r) = h[Len(r)]
      BY <1>5, JoinedIs
    <3>5. Joined(sep, r) = r[1]
      BY <1>5, <3>1, <3>4 DEF JoinSteps
    <3>6. Joined(other, r) = text
      BY <1>6, <3>3, <3>5
    <3>7. ~(JoinLength(other, r) > MaxLength)
      BY <1>10, <1>13, <3>6, LengthAssumption
    <3> QED BY <1>20, <3>1, <3>6, <3>7 DEF Limited
  <2> QED BY <2>1, <2>2
<1>22. DOMAIN r = 1 .. P
  BY <1>5
<1> QED BY <1>4, <1>5, <1>8, <1>18, <1>19, <1>21, <1>22

-----------------------------------------------------------------------------
(* Words.                                                                  *)

\* The next unit that is not blank.
LEMMA WordStartIs ==
  ASSUME NEW text \in Text, NEW i \in 0 .. Len(text)
  PROVE  /\ WordStart(text, i) \in 0 .. Len(text) /\ i <= WordStart(text, i)
         /\ WordStart(text, i) # Len(text) => ~Blank(text[WordStart(text, i) + 1])
         /\ \A j \in 0 .. Len(text) : i <= j /\ j < WordStart(text, i) => Blank(text[j + 1])
         /\ \A s \in 0 .. Len(text) :
              /\ i <= s /\ (s # Len(text) => ~Blank(text[s + 1]))
              /\ \A j \in 0 .. Len(text) : i <= j /\ j < s => Blank(text[j + 1])
              => WordStart(text, i) = s
<1> DEFINE L == Len(text)
           M == {j \in i .. L : j = L \/ ~Blank(text[j + 1])}
           w == WordStart(text, i)
<1>1. L \in Nat
  BY TextType
<1>2. w = Min(M)
  BY DEF WordStart
<1> HIDE DEF L, w
<1>3. \A j : j \in M <=> j \in 0 .. L /\ i <= j /\ (j # L => ~Blank(text[j + 1]))
  BY <1>1 DEF L
<1> HIDE DEF M
<1>4. M \in SUBSET Nat /\ M \in SUBSET Int
  BY <1>1, <1>3
<1>5. L \in M
  BY <1>1, <1>3 DEF L
<1>6. w \in M /\ \A y \in M : w <= y
  BY <1>2, <1>4, <1>5, MinMember
<1>7. w \in 0 .. L /\ i <= w /\ (w # L => ~Blank(text[w + 1]))
  BY <1>3, <1>6
<1>8. ASSUME NEW j \in 0 .. L, i <= j, j < w PROVE Blank(text[j + 1])
  <2>1. j \notin M
    BY <1>6, <1>7, <1>8
  <2> QED BY <1>3, <1>8, <2>1
<1>9. ASSUME NEW s \in 0 .. L, i <= s, s # L => ~Blank(text[s + 1]),
             \A j \in 0 .. L : i <= j /\ j < s => Blank(text[j + 1])
      PROVE  w = s
  <2>1. s \in M
    BY <1>3, <1>9
  <2>2. ASSUME NEW y \in M PROVE s <= y
    <3>1. y \in 0 .. L /\ i <= y /\ (y # L => ~Blank(text[y + 1]))
      BY <1>3
    <3>2. ~(y < s)
      BY <1>1, <1>9, <3>1
    <3> QED BY <3>1, <3>2, <1>1
  <2> QED BY <1>2, <1>4, <2>1, <2>2, MinIs
<1> QED BY <1>7, <1>8, <1>9 DEF L, w

\* The next blank unit.
LEMMA WordEndIs ==
  ASSUME NEW text \in Text, NEW i \in 0 .. Len(text)
  PROVE  /\ WordEnd(text, i) \in 0 .. Len(text) /\ i <= WordEnd(text, i)
         /\ WordEnd(text, i) # Len(text) => Blank(text[WordEnd(text, i) + 1])
         /\ \A j \in 0 .. Len(text) : i <= j /\ j < WordEnd(text, i) => ~Blank(text[j + 1])
         /\ \A s \in 0 .. Len(text) :
              /\ i <= s /\ (s # Len(text) => Blank(text[s + 1]))
              /\ \A j \in 0 .. Len(text) : i <= j /\ j < s => ~Blank(text[j + 1])
              => WordEnd(text, i) = s
<1> DEFINE L == Len(text)
           M == {j \in i .. L : j = L \/ ~(text[j + 1] > 32)}
           w == WordEnd(text, i)
<1>1. L \in Nat /\ \A j \in 1 .. L : text[j] \in Int
  BY TextType
<1>2. w = Min(M)
  BY DEF WordEnd
<1> HIDE DEF L, w
<1>31. \A j \in 0 .. L : j # L => (~(text[j + 1] > 32) <=> Blank(text[j + 1]))
  BY <1>1 DEF Blank
<1>32. \A j : j \in M <=> j \in 0 .. L /\ i <= j /\ (j # L => ~(text[j + 1] > 32))
  BY <1>1 DEF L
<1>3. \A j : j \in M <=> j \in 0 .. L /\ i <= j /\ (j # L => Blank(text[j + 1]))
  BY <1>31, <1>32
<1> HIDE DEF M
<1>4. M \in SUBSET Nat /\ M \in SUBSET Int
  BY <1>1, <1>3
<1>5. L \in M
  BY <1>1, <1>3 DEF L
<1>6. w \in M /\ \A y \in M : w <= y
  BY <1>2, <1>4, <1>5, MinMember
<1>7. w \in 0 .. L /\ i <= w /\ (w # L => Blank(text[w + 1]))
  BY <1>3, <1>6
<1>8. ASSUME NEW j \in 0 .. L, i <= j, j < w PROVE ~Blank(text[j + 1])
  <2>1. j \notin M
    BY <1>6, <1>7, <1>8
  <2> QED BY <1>3, <1>7, <1>8, <2>1
<1>9. ASSUME NEW s \in 0 .. L, i <= s, s # L => Blank(text[s + 1]),
             \A j \in 0 .. L : i <= j /\ j < s => ~Blank(text[j + 1])
      PROVE  w = s
  <2>1. s \in M
    BY <1>3, <1>9
  <2>2. ASSUME NEW y \in M PROVE s <= y
    <3>1. y \in 0 .. L /\ i <= y /\ (y # L => Blank(text[y + 1]))
      BY <1>3
    <3>2. ~(y < s)
      BY <1>1, <1>9, <3>1
    <3> QED BY <3>1, <3>2, <1>1
  <2> QED BY <1>2, <1>4, <2>1, <2>2, MinIs
<1> QED BY <1>7, <1>8, <1>9 DEF L, w

\* A word is not empty.
LEMMA WordIs ==
  ASSUME NEW text \in Text, NEW i \in 0 .. Len(text), WordStart(text, i) # Len(text)
  PROVE  /\ WordStart(text, i) < WordEnd(text, WordStart(text, i))
         /\ WordEnd(text, WordStart(text, i)) \in 0 .. Len(text)
         /\ i < WordEnd(text, WordStart(text, i))
<1> DEFINE w == WordStart(text, i)
           e == WordEnd(text, w)
<1>1. Len(text) \in Nat
  BY TextType
<1>2. w \in 0 .. Len(text) /\ i <= w /\ ~Blank(text[w + 1])
  BY WordStartIs
<1>3. w # Len(text)
  OBVIOUS
<1> HIDE DEF w
<1>4. e \in 0 .. Len(text) /\ w <= e /\ (e # Len(text) => Blank(text[e + 1]))
  BY <1>2, WordEndIs
<1> HIDE DEF e
<1>5. e # w
  BY <1>2, <1>3, <1>4
<1>6. w < e /\ i < e
  BY <1>1, <1>2, <1>4, <1>5
<1> QED BY <1>4, <1>6 DEF w, e

\* The scan of WordCount.
WordCounts(text, count) ==
    /\ count \in [0 .. Len(text) -> Nat]
    /\ \A i \in 0 .. Len(text) :
         count[i] = IF WordStart(text, i) = Len(text) THEN 0
                    ELSE 1 + count[WordEnd(text, WordStart(text, i))]

\* Words are counted by that scan.
LEMMA WordCountIs ==
  ASSUME NEW text \in Text
  PROVE  \E count : WordCounts(text, count) /\ WordCount(text) = count[0]
<1> DEFINE L == Len(text)
           D == 0 .. L
           m(i) == WordStart(text, i)
           w(i) == WordEnd(text, m(i))
           body(g, i) == IF m(i) = L THEN 0 ELSE 1 + g[w(i)]
           F == [i \in D |-> [g \in [D -> Nat] |-> body(g, i)]]
           s == CHOOSE g : g = [i \in D |-> body(g, i)]
<1>0. WordCount(text) = s[0]
  BY DEF WordCount
<1>1. L \in Nat
  BY TextType
<1>2. \A i \in D : m(i) # L => w(i) \in D /\ i < w(i)
  BY WordIs
<1> HIDE DEF L, m, w
<1>3. \A i \in D : \A g \in [D -> Nat] : body(g, i) \in Nat
  BY <1>2
<1>4. F \in [D -> [[D -> Nat] -> Nat]]
  BY <1>3
<1> DEFINE d == [i \in D |-> L - i]
<1>51. d \in [D -> Nat] /\ \A i \in D : d[i] = L - i /\ d[i] < L + 1
  BY <1>1
<1>52. \A i \in D : m(i) # L => d[w(i)] < d[i]
  BY <1>1, <1>2, <1>51
<1> HIDE DEF d
<1>53. ASSUME NEW i \in D, NEW g \in [D -> Nat], NEW h \in [D -> Nat],
             \A j \in D : d[j] < d[i] => g[j] = h[j]
      PROVE  F[i][g] = F[i][h]
  <2>1. body(g, i) = body(h, i)
    BY <1>2, <1>52, <1>53
  <2> QED BY <2>1
<1>54. Decreasing(D, Nat, d, F)
  <2> HIDE DEF F
  <2> QED BY <1>53 DEF Decreasing
<1>55. Solvable(D, Nat, F)
  <2> HIDE DEF F, D
  <2>1. L + 1 \in Nat /\ Nat # {}
    BY <1>1
  <2> QED BY <1>4, <1>51, <1>54, <2>1, Recursion
<1>6. PICK f \in [D -> Nat] : \A i \in D : f[i] = F[i][f]
  <2> HIDE DEF F, D
  <2> QED BY <1>55 DEF Solvable
<1>60. \A i \in D : f[i] = body(f, i)
  BY <1>6
<1>7. f = [i \in D |-> body(f, i)]
  BY <1>6
<1>8. s = [i \in D |-> body(s, i)]
  <2> HIDE DEF body
  <2> QED BY <1>7
<1> HIDE DEF s
<1>9. \A i \in D : s[i] = body(s, i)
  <2> HIDE DEF body
  <2> QED BY <1>8
<1> DEFINE G == {i \in D : s[i] = f[i]}
<1>10. ASSUME NEW i \in D, \A j \in D : i < j => j \in G PROVE i \in G
  <2>1. m(i) # L => s[w(i)] = f[w(i)]
    BY <1>2, <1>10
  <2> QED BY <1>9, <1>60, <2>1
<1>11. D \subseteq G
  <2> HIDE DEF G
  <2> QED BY <1>1, <1>10, DownInduction
<1>12. 0 \in D /\ s[0] = f[0]
  BY <1>1, <1>11
<1>13. WordCounts(text, f)
  BY <1>6, <1>60 DEF WordCounts, L, m, w
<1> QED BY <1>0, <1>12, <1>13

\* The words of a text: word k ends at e[k], and after the last one all is blank.
WordBounds(text, W, e) ==
    /\ W \in Nat /\ e \in [0 .. W -> 0 .. Len(text)] /\ e[0] = 0
    /\ \A k \in 1 .. W : /\ WordStart(text, e[k - 1]) # Len(text)
                         /\ e[k] = WordEnd(text, WordStart(text, e[k - 1]))
    /\ WordStart(text, e[W]) = Len(text)

\* The words between their bounds.
Words(text, W, e) == [k \in 1 .. W |-> SubSeq(text, WordStart(text, e[k - 1]) + 1, e[k])]

\* There is one such sequence of words.
LEMMA WordsUnique ==
  ASSUME NEW text \in Text, NEW V, NEW f, WordBounds(text, V, f), NEW W, NEW e, WordBounds(text, W, e)
  PROVE  V = W /\ \A k \in 0 .. W : f[k] = e[k]
<1>1. /\ V \in Nat /\ f[0] = 0 /\ WordStart(text, f[V]) = Len(text)
      /\ \A k \in 1 .. V : WordStart(text, f[k - 1]) # Len(text) /\ f[k] = WordEnd(text, WordStart(text, f[k - 1]))
  BY DEF WordBounds
<1>2. /\ W \in Nat /\ e[0] = 0 /\ WordStart(text, e[W]) = Len(text)
      /\ \A k \in 1 .. W : WordStart(text, e[k - 1]) # Len(text) /\ e[k] = WordEnd(text, WordStart(text, e[k - 1]))
  BY DEF WordBounds
<1> DEFINE N == {k \in Nat : k <= V /\ k <= W => f[k] = e[k]}
<1>3. 0 \in N
  BY <1>1, <1>2
<1>4. ASSUME NEW k \in Nat, k \in N PROVE k + 1 \in N
  <2> SUFFICES ASSUME k + 1 <= V, k + 1 <= W PROVE f[k + 1] = e[k + 1]
    OBVIOUS
  <2>1. k + 1 \in 1 .. V /\ k + 1 \in 1 .. W /\ (k + 1) - 1 = k /\ k <= V /\ k <= W
    BY <1>1, <1>2
  <2>2. f[k] = e[k]
    BY <1>4, <2>1
  <2>3. f[k + 1] = WordEnd(text, WordStart(text, f[(k + 1) - 1]))
    BY <1>1, <2>1
  <2>4. e[k + 1] = WordEnd(text, WordStart(text, e[(k + 1) - 1]))
    BY <1>2, <2>1
  <2> QED BY <2>1, <2>2, <2>3, <2>4
<1>5. Nat \subseteq N
  <2> HIDE DEF N
  <2> QED BY <1>3, <1>4, SetInduction
<1>6. \A k \in Nat : k <= V /\ k <= W => f[k] = e[k]
  BY <1>5
<1>7. V = W
  <2>1. ASSUME V < W PROVE FALSE
    <3>1. V + 1 \in 1 .. W /\ (V + 1) - 1 = V /\ V <= V /\ V <= W
      BY <1>1, <1>2, <2>1
    <3>2. f[V] = e[V]
      BY <1>1, <1>6, <3>1
    <3>3. WordStart(text, e[(V + 1) - 1]) # Len(text)
      BY <1>2, <3>1
    <3> QED BY <1>1, <3>1, <3>2, <3>3
  <2>2. ASSUME W < V PROVE FALSE
    <3>1. W + 1 \in 1 .. V /\ (W + 1) - 1 = W /\ W <= V /\ W <= W
      BY <1>1, <1>2, <2>2
    <3>2. f[W] = e[W]
      BY <1>2, <1>6, <3>1
    <3>3. WordStart(text, f[(W + 1) - 1]) # Len(text)
      BY <1>1, <3>1
    <3> QED BY <1>2, <3>1, <3>2, <3>3
  <2> QED BY <1>1, <1>2, <2>1, <2>2
<1>8. \A k \in 0 .. W : f[k] = e[k]
  <2>1. \A k \in 0 .. W : k \in Nat /\ k <= V /\ k <= W
    BY <1>2, <1>7
  <2> QED BY <1>6, <2>1
<1> QED BY <1>7, <1>8

\* Where split cuts out the words.
WordEnds(text, W, end) ==
    /\ end \in [0 .. W -> 0 .. Len(text)] /\ end[0] = 0
    /\ \A k \in 1 .. W : end[k] = WordEnd(text, WordStart(text, end[k - 1]))

\* Texts are cut into words at those ends.
LEMMA SplitWordsIs ==
  ASSUME NEW text \in Text, NEW W, W = WordCount(text), W \in Nat
  PROVE  \E end : /\ WordEnds(text, W, end)
                  /\ SplitWords(text) = [k \in 1 .. W |->
                                           Slice(text, WordStart(text, end[k - 1]), end[k])]
<1> DEFINE D == 0 .. W
           T == 0 .. Len(text)
           m(x) == WordEnd(text, WordStart(text, x))
           body(g, k) == IF k = 0 THEN 0 ELSE m(g[k - 1])
           F == [i \in D |-> [g \in [D -> T] |-> body(g, i)]]
           s == CHOOSE g : g = [i \in D |-> body(g, i)]
<1>0. SplitWords(text) = [k \in 1 .. W |-> Slice(text, WordStart(text, s[k - 1]), s[k])]
  BY DEF SplitWords
<1>1. Len(text) \in Nat /\ 0 \in T
  BY TextType
<1>2. \A x \in T : m(x) \in T
  <2> SUFFICES ASSUME NEW x \in T PROVE m(x) \in T
    OBVIOUS
  <2>1. WordStart(text, x) \in T
    BY WordStartIs
  <2> QED BY <2>1, WordEndIs
<1> HIDE DEF T, m
<1>4. ASSUME NEW i \in D, NEW g \in [D -> T] PROVE body(g, i) \in T
  <2>1. i # 0 => g[i - 1] \in T
    OBVIOUS
  <2> QED BY <1>1, <1>2, <2>1
<1>5. F \in [D -> [[D -> T] -> T]]
  BY <1>4
<1> DEFINE d == [i \in D |-> i]
<1>51. d \in [D -> Nat] /\ \A i \in D : d[i] = i /\ d[i] < W + 1
  OBVIOUS
<1>52. \A i \in D : i # 0 => i - 1 \in D /\ d[i - 1] < d[i]
  BY <1>51
<1> HIDE DEF d
<1>53. ASSUME NEW i \in D, NEW g \in [D -> T], NEW h \in [D -> T],
             \A j \in D : d[j] < d[i] => g[j] = h[j]
      PROVE  F[i][g] = F[i][h]
  <2>1. i # 0 => g[i - 1] = h[i - 1]
    BY <1>52, <1>53
  <2>2. body(g, i) = body(h, i)
    BY <2>1
  <2> QED BY <2>2
<1>54. Decreasing(D, T, d, F)
  <2> HIDE DEF F
  <2> QED BY <1>53 DEF Decreasing
<1>55. Solvable(D, T, F)
  <2> HIDE DEF F, D
  <2>1. W + 1 \in Nat /\ T # {}
    BY <1>1
  <2> QED BY <1>5, <1>51, <1>54, <2>1, Recursion
<1>6. PICK f \in [D -> T] : \A i \in D : f[i] = F[i][f]
  <2> HIDE DEF F, D
  <2> QED BY <1>55 DEF Solvable
<1>60. \A i \in D : f[i] = body(f, i)
  BY <1>6
<1>7. f = [i \in D |-> body(f, i)]
  BY <1>6
<1>8. s = [i \in D |-> body(s, i)]
  <2> HIDE DEF body
  <2> QED BY <1>7
<1> HIDE DEF s
<1>9. \A i \in D : s[i] = body(s, i)
  <2> HIDE DEF body
  <2> QED BY <1>8
<1> DEFINE G == {i \in D : s[i] = f[i]}
<1>10. 0 \in G
  BY <1>60, <1>9
<1>101. ASSUME NEW i \in 1 .. W, i - 1 \in G PROVE i \in G
  <2>1. i \in D /\ i # 0 /\ s[i - 1] = f[i - 1]
    BY <1>101
  <2>2. s[i] = body(s, i) /\ f[i] = body(f, i)
    BY <1>9, <1>60, <2>1
  <2> QED BY <2>1, <2>2
<1>11. D \subseteq G
  <2> HIDE DEF G
  <2> QED BY <1>10, <1>101, UpInduction
<1>12. \A i \in D : s[i] = f[i]
  BY <1>11
<1>13. WordEnds(text, W, f)
  <2>1. f[0] = 0
    BY <1>60
  <2>2. ASSUME NEW k \in 1 .. W PROVE f[k] = m(f[k - 1])
    <3>1. k \in D /\ k # 0
      OBVIOUS
    <3>2. f[k] = body(f, k)
      BY <1>60, <3>1
    <3> QED BY <3>1, <3>2
  <2> QED BY <1>6, <2>1, <2>2 DEF WordEnds, T, m
<1>14. \A k \in 1 .. W : k \in D /\ k - 1 \in D
  OBVIOUS
<1>15. [k \in 1 .. W |-> Slice(text, WordStart(text, s[k - 1]), s[k])]
         = [k \in 1 .. W |-> Slice(text, WordStart(text, f[k - 1]), f[k])]
  BY <1>12, <1>14
<1> QED BY <1>0, <1>13, <1>15

\* The second pass of split finds the words the first has counted.
LEMMA SplitsIntoWords ==
  ASSUME NEW text \in Text, Len(text) <= MaxLength
  PROVE  \E W, e : WordBounds(text, W, e) /\ SplitWords(text) = Words(text, W, e)
<1> DEFINE L == Len(text)
           W == WordCount(text)
           m(i) == WordStart(text, i)
           w(i) == WordEnd(text, m(i))
<1>1. PICK count : WordCounts(text, count) /\ W = count[0]
  BY WordCountIs
<1>2. L \in Nat /\ 0 \in 0 .. L
  BY TextType
<1>3. /\ count \in [0 .. L -> Nat] /\ W = count[0]
      /\ \A i \in 0 .. L : count[i] = IF m(i) = L THEN 0 ELSE 1 + count[w(i)]
  BY <1>1 DEF WordCounts
<1>4. W \in Nat
  BY <1>2, <1>3
<1>5. PICK e : /\ WordEnds(text, W, e)
               /\ SplitWords(text) = [k \in 1 .. W |-> Slice(text, WordStart(text, e[k - 1]), e[k])]
  BY <1>4, SplitWordsIs
<1> HIDE DEF W
<1>6. e \in [0 .. W -> 0 .. L] /\ e[0] = 0 /\ \A k \in 1 .. W : e[k] = w(e[k - 1])
  BY <1>5 DEF WordEnds
<1>7. \A i \in 0 .. L : m(i) # L => w(i) \in 0 .. L /\ m(i) \in 0 .. L /\ m(i) < w(i)
  BY WordIs, WordStartIs
<1> DEFINE G == {k \in 0 .. W : count[e[k]] = W - k}
<1>8. 0 \in G
  BY <1>2, <1>3, <1>4, <1>6
<1>9. ASSUME NEW k \in 1 .. W, k - 1 \in G PROVE k \in G /\ m(e[k - 1]) # L
  <2> DEFINE x == e[k - 1]
  <2>1. x \in 0 .. L /\ count[x] = W - (k - 1) /\ e[k] = w(x) /\ k \in 0 .. W
    BY <1>4, <1>6, <1>9
  <2> HIDE DEF x, m, w
  <2>2. count[x] = IF m(x) = L THEN 0 ELSE 1 + count[w(x)]
    BY <1>3, <2>1
  <2>3. m(x) # L
    BY <1>4, <2>1, <2>2
  <2>4. count[w(x)] \in Nat
    BY <1>3, <1>7, <2>1, <2>3
  <2>5. count[w(x)] = W - k
    BY <1>4, <2>1, <2>2, <2>3, <2>4
  <2> QED BY <2>1, <2>3, <2>5 DEF x
<1>10. 0 .. W \subseteq G
  <2> HIDE DEF G
  <2> QED BY <1>4, <1>8, <1>9, UpInduction
<1>11. \A k \in 1 .. W : m(e[k - 1]) # L
  <2> SUFFICES ASSUME NEW k \in 1 .. W PROVE m(e[k - 1]) # L
    OBVIOUS
  <2>1. k - 1 \in 0 .. W
    BY <1>4
  <2> HIDE DEF m, G
  <2> QED BY <1>9, <1>10, <2>1
<1>12. m(e[W]) = L
  <2>1. W \in 0 .. W /\ e[W] \in 0 .. L
    BY <1>4, <1>6
  <2>2. count[e[W]] = 0
    <3>1. W \in G
      BY <1>10, <2>1
    <3> QED BY <1>4, <3>1
  <2> DEFINE x == e[W]
  <2>3. count[x] = 0 /\ x \in 0 .. L
    BY <2>1, <2>2
  <2> HIDE DEF x, m, w
  <2>4. m(x) # L => count[w(x)] \in Nat
    BY <1>3, <1>7, <2>3
  <2>5. count[x] = IF m(x) = L THEN 0 ELSE 1 + count[w(x)]
    BY <1>3, <2>3
  <2>6. m(x) = L
    BY <2>3, <2>4, <2>5
  <2> QED BY <2>6 DEF x
<1>13. WordBounds(text, W, e)
  BY <1>4, <1>6, <1>11, <1>12 DEF WordBounds
<1>14. ASSUME NEW k \in 1 .. W
       PROVE  Slice(text, WordStart(text, e[k - 1]), e[k])
                = SubSeq(text, WordStart(text, e[k - 1]) + 1, e[k])
  <2> DEFINE x == m(e[k - 1])
             y == e[k]
  <2>1. e[k - 1] \in 0 .. L /\ e[k] = w(e[k - 1]) /\ m(e[k - 1]) # L
    BY <1>4, <1>6, <1>11
  <2>2. x \in 0 .. L /\ y \in 0 .. L /\ x < y
    BY <1>7, <2>1
  <2> HIDE DEF x, y
  <2>3. x \in Nat /\ y \in Nat /\ x <= y /\ y <= Len(text)
    BY <1>2, <2>2
  <2>4. Slice(text, x, y) = SubSeq(text, x + 1, y)
    BY <2>3, SliceIs
  <2> QED BY <2>4 DEF x, y
<1>15. SplitWords(text) = Words(text, W, e)
  BY <1>5, <1>14 DEF Words
<1> QED BY <1>13, <1>15

\* Whatever bounds the words of a text, split cuts it there.
LEMMA WordsAre ==
  ASSUME NEW text \in Text, Len(text) <= MaxLength, NEW W, NEW e, WordBounds(text, W, e)
  PROVE  SplitWords(text) = Words(text, W, e)
<1>1. PICK V, f : WordBounds(text, V, f) /\ SplitWords(text) = Words(text, V, f)
  BY SplitsIntoWords
<1>2. V = W /\ \A k \in 0 .. W : f[k] = e[k]
  BY <1>1, WordsUnique
<1>3. W \in Nat
  BY DEF WordBounds
<1>4. \A k \in 1 .. W : k \in 0 .. W /\ k - 1 \in 0 .. W
  BY <1>3
<1>5. Words(text, V, f) = Words(text, W, e)
  BY <1>2, <1>4 DEF Words
<1> QED BY <1>1, <1>5

\* What the bounds say of each word.
LEMMA WordsType ==
  ASSUME NEW text \in Text, NEW W, NEW e, WordBounds(text, W, e)
  PROVE  /\ W \in Nat /\ Len(text) \in Nat /\ e[0] = 0 /\ WordStart(text, e[W]) = Len(text)
         /\ \A k \in 0 .. W : e[k] \in 0 .. Len(text)
         /\ \A k \in 1 .. W :
              /\ e[k - 1] \in 0 .. Len(text) /\ WordStart(text, e[k - 1]) \in 0 .. Len(text)
              /\ e[k - 1] <= WordStart(text, e[k - 1]) /\ WordStart(text, e[k - 1]) < e[k]
              /\ WordStart(text, e[k - 1]) # Len(text)
              /\ e[k] = WordEnd(text, WordStart(text, e[k - 1]))
         /\ Words(text, W, e) \in Seq(Text) /\ Len(Words(text, W, e)) = W
         /\ \A k \in 1 .. W : /\ Words(text, W, e)[k] = SubSeq(text, WordStart(text, e[k - 1]) + 1, e[k])
                              /\ Words(text, W, e)[k] # Empty
<1> DEFINE L == Len(text)
           s(k) == WordStart(text, e[k - 1])
           c(k) == SubSeq(text, s(k) + 1, e[k])
           r == Words(text, W, e)
<1>1. L \in Nat
  BY TextType
<1>2. /\ W \in Nat /\ e \in [0 .. W -> 0 .. L] /\ e[0] = 0 /\ WordStart(text, e[W]) = L
      /\ \A k \in 1 .. W : s(k) # L /\ e[k] = WordEnd(text, s(k))
  BY DEF WordBounds
<1>3. \A k \in 0 .. W : e[k] \in 0 .. L
  BY <1>2
<1>4. \A k \in 1 .. W : k - 1 \in 0 .. W /\ k \in 0 .. W
  BY <1>2
<1>5. \A k \in 1 .. W : e[k - 1] \in 0 .. L /\ s(k) \in 0 .. L /\ e[k - 1] <= s(k)
  <2>1. \A x \in 0 .. L : WordStart(text, x) \in 0 .. L /\ x <= WordStart(text, x)
    BY WordStartIs
  <2> QED BY <1>3, <1>4, <2>1
<1>6. \A k \in 1 .. W : s(k) < e[k]
  <2>1. \A x \in 0 .. L : WordStart(text, x) # L => WordStart(text, x) < WordEnd(text, WordStart(text, x))
    BY WordIs
  <2> QED BY <1>2, <1>5, <2>1
<1>7. \A k \in 1 .. W : c(k) \in Text /\ c(k) # Empty
  <2> SUFFICES ASSUME NEW k \in 1 .. W PROVE c(k) \in Text /\ c(k) # Empty
    OBVIOUS
  <2> DEFINE x == s(k)
             y == e[k]
  <2>1. x \in Nat /\ y \in Nat /\ x <= y /\ y <= Len(text) /\ y - x # 0
    BY <1>1, <1>3, <1>4, <1>5, <1>6
  <2> HIDE DEF x, y
  <2> DEFINE z == SubSeq(text, x + 1, y)
  <2>2. z \in Text /\ Len(z) = y - x
    BY <2>1, Cut
  <2> HIDE DEF z
  <2>3. z \in Text /\ z # Empty
    BY <2>1, <2>2, TextType
  <2> QED BY <2>3 DEF z, x, y
<1>8. r = [k \in 1 .. W |-> c(k)]
  BY DEF Words
<1> HIDE DEF c
<1>9. r \in Seq(Text) /\ Len(r) = W /\ \A k \in 1 .. W : r[k] = c(k)
  <2> HIDE DEF r
  <2> QED BY <1>2, <1>7, <1>8
<1>10. \A k \in 1 .. W : r[k] = SubSeq(text, s(k) + 1, e[k]) /\ r[k] # Empty
  BY <1>7, <1>9 DEF c
<1> QED BY <1>1, <1>2, <1>3, <1>5, <1>6, <1>9, <1>10

\* What Without keeps of each beginning of a sequence.
Keeps(s, D, S, kept) ==
    /\ kept \in [0 .. Len(s) -> Seq(S)] /\ kept[0] = << >>
    /\ \A k \in 1 .. Len(s) :
         kept[k] = IF s[k] \in D THEN kept[k - 1] ELSE Append(kept[k - 1], s[k])

\* What Without keeps is kept step by step.
LEMMA WithoutIs ==
  ASSUME NEW S, NEW s \in Seq(S), NEW D
  PROVE  \E kept : Keeps(s, D, S, kept) /\ Without(s, D) = kept[Len(s)]
<1> DEFINE n == Len(s)
           I == 0 .. n
           body(g, k) == IF k = 0 THEN << >>
                         ELSE IF s[k] \in D THEN g[k - 1] ELSE Append(g[k - 1], s[k])
           F == [i \in I |-> [g \in [I -> Seq(S)] |-> body(g, i)]]
           c == CHOOSE g : g = [i \in I |-> body(g, i)]
<1>0. Without(s, D) = c[n]
  BY DEF Without
<1>1. n \in Nat /\ \A i \in 1 .. n : s[i] \in S
  OBVIOUS
<1>2. << >> \in Seq(S)
  BY EmptySeq
<1> HIDE DEF n
<1>4. ASSUME NEW i \in I, NEW g \in [I -> Seq(S)] PROVE body(g, i) \in Seq(S)
  <2>1. CASE i = 0
    BY <1>2, <2>1
  <2>2. CASE i # 0
    <3>1. i - 1 \in I /\ i \in 1 .. n
      BY <1>1, <2>2
    <3>2. g[i - 1] \in Seq(S) /\ s[i] \in S
      BY <1>1, <3>1
    <3>3. Append(g[i - 1], s[i]) \in Seq(S)
      BY <3>2, AppendProperties
    <3> QED BY <2>2, <3>2, <3>3
  <2> QED BY <2>1, <2>2
<1>5. F \in [I -> [[I -> Seq(S)] -> Seq(S)]]
  BY <1>4
<1> DEFINE d == [i \in I |-> i]
<1>51. d \in [I -> Nat] /\ \A i \in I : d[i] = i /\ d[i] < n + 1
  BY <1>1
<1>52. \A i \in I : i # 0 => i - 1 \in I /\ d[i - 1] < d[i]
  BY <1>1, <1>51
<1> HIDE DEF d
<1>53. ASSUME NEW i \in I, NEW g \in [I -> Seq(S)], NEW h \in [I -> Seq(S)],
             \A j \in I : d[j] < d[i] => g[j] = h[j]
      PROVE  F[i][g] = F[i][h]
  <2>1. i # 0 => g[i - 1] = h[i - 1]
    BY <1>52, <1>53
  <2>2. body(g, i) = body(h, i)
    BY <2>1
  <2> QED BY <2>2
<1>54. Decreasing(I, Seq(S), d, F)
  <2> HIDE DEF F
  <2> QED BY <1>53 DEF Decreasing
<1>55. Solvable(I, Seq(S), F)
  <2> HIDE DEF F, I
  <2>1. n + 1 \in Nat /\ Seq(S) # {}
    BY <1>1, <1>2
  <2> QED BY <1>5, <1>51, <1>54, <2>1, Recursion
<1>6. PICK f \in [I -> Seq(S)] : \A i \in I : f[i] = F[i][f]
  <2> HIDE DEF F, I
  <2> QED BY <1>55 DEF Solvable
<1>60. \A i \in I : f[i] = body(f, i)
  BY <1>6
<1>7. f = [i \in I |-> body(f, i)]
  BY <1>6
<1>8. c = [i \in I |-> body(c, i)]
  <2> HIDE DEF body
  <2> QED BY <1>7
<1> HIDE DEF c
<1>9. \A i \in I : c[i] = body(c, i)
  <2> HIDE DEF body
  <2> QED BY <1>8
<1> DEFINE G == {i \in I : c[i] = f[i]}
<1>10. 0 \in G
  BY <1>1, <1>60, <1>9
<1>101. ASSUME NEW i \in 1 .. n, i - 1 \in G PROVE i \in G
  <2>1. i \in I /\ i # 0 /\ c[i - 1] = f[i - 1]
    BY <1>1, <1>101
  <2>2. c[i] = body(c, i) /\ f[i] = body(f, i)
    BY <1>9, <1>60, <2>1
  <2> QED BY <2>1, <2>2
<1>11. I \subseteq G
  <2> HIDE DEF G
  <2> QED BY <1>1, <1>10, <1>101, UpInduction
<1>12. c[n] = f[n]
  BY <1>1, <1>11
<1>13. Keeps(s, D, S, f)
  <2>1. f[0] = << >>
    BY <1>1, <1>60
  <2>2. ASSUME NEW k \in 1 .. n
        PROVE  f[k] = IF s[k] \in D THEN f[k - 1] ELSE Append(f[k - 1], s[k])
    <3>1. k \in I /\ k # 0
      BY <1>1
    <3>2. f[k] = body(f, k)
      BY <1>60, <3>1
    <3> QED BY <3>1, <3>2
  <2> QED BY <1>6, <2>1, <2>2 DEF Keeps, n
<1> QED BY <1>0, <1>12, <1>13 DEF n

\* Nothing is kept of a range that is left out.
LEMMA KeptNone ==
  ASSUME NEW S, NEW s \in Seq(S), NEW D, NEW kept, Keeps(s, D, S, kept),
         NEW a \in Nat, NEW b \in Nat, a <= b, b <= Len(s),
         \A j \in 0 .. Len(s) : a <= j /\ j < b => s[j + 1] \in D
  PROVE  kept[b] = kept[a]
<1>1. \A k \in 1 .. Len(s) : s[k] \in D => kept[k] = kept[k - 1]
  BY DEF Keeps
<1>2. Len(s) \in Nat
  OBVIOUS
<1> DEFINE n == b - a
           G == {i \in 0 .. n : kept[a + i] = kept[a]}
<1>3. 0 \in G /\ n \in Nat
  OBVIOUS
<1>4. ASSUME NEW i \in 1 .. n, i - 1 \in G PROVE i \in G
  <2> DEFINE j == a + (i - 1)
  <2>1. j \in 0 .. Len(s) /\ a <= j /\ j < b /\ j + 1 = a + i /\ j + 1 \in 1 .. Len(s) /\ (j + 1) - 1 = j
    BY <1>2
  <2>2. kept[j] = kept[a]
    BY <1>4
  <2> HIDE DEF j
  <2>3. kept[j + 1] = kept[(j + 1) - 1]
    BY <1>1, <2>1
  <2> QED BY <2>1, <2>2, <2>3
<1>5. 0 .. n \subseteq G
  <2> HIDE DEF G, n
  <2> QED BY <1>3, <1>4, UpInduction
<1>6. n \in 0 .. n /\ a + n = b
  BY <1>3
<1>7. \A i \in 0 .. n : kept[a + i] = kept[a]
  BY <1>5
<1> HIDE DEF n, G
<1>8. kept[a + n] = kept[a]
  BY <1>6, <1>7
<1> QED BY <1>6, <1>8

\* A range of which nothing is left out.
NoneIn(s, D, a, b) ==
    /\ a \in Nat /\ b \in Nat /\ a <= b /\ b <= Len(s)
    /\ \A j \in 0 .. Len(s) : a <= j /\ j < b => s[j + 1] \notin D

\* What is kept up to b is what is kept up to a and the range between them.
KeptBetween(s, kept, a, b) == kept[b] = kept[a] \o SubSeq(s, a + 1, b)

\* All is kept of such a range.
LEMMA KeptAll ==
  ASSUME NEW s \in Text, NEW D, NEW kept, Keeps(s, D, Int, kept), NEW a, NEW b, NoneIn(s, D, a, b)
  PROVE  KeptBetween(s, kept, a, b)
<1>0. /\ a \in Nat /\ b \in Nat /\ a <= b /\ b <= Len(s)
      /\ \A j \in 0 .. Len(s) : a <= j /\ j < b => s[j + 1] \notin D
  BY DEF NoneIn
<1>1. /\ kept \in [0 .. Len(s) -> Seq(Int)]
      /\ \A k \in 1 .. Len(s) : s[k] \notin D => kept[k] = Append(kept[k - 1], s[k])
  BY DEF Keeps
<1>2. Len(s) \in Nat /\ \A k \in 1 .. Len(s) : s[k] \in Int
  BY TextType
<1> DEFINE n == b - a
           t == kept[a]
           G == {i \in 0 .. n : /\ Len(kept[a + i]) = Len(t) + i
                                /\ \A k \in 1 .. Len(t) : kept[a + i][k] = t[k]
                                /\ \A k \in 1 .. i : kept[a + i][Len(t) + k] = s[a + k]}
<1>21. t \in Seq(Int) /\ Len(t) \in Nat
  <2>1. a \in 0 .. Len(s)
    BY <1>0, <1>2
  <2>2. t \in Seq(Int)
    BY <1>1, <2>1
  <2> QED BY <2>2
<1>3. n \in Nat
  BY <1>0
<1>31. 0 \in G
  <2>1. a + 0 = a /\ Len(t) + 0 = Len(t) /\ 1 .. 0 = {} /\ 0 \in 0 .. n
    BY <1>0, <1>3, <1>21
  <2> QED BY <2>1
<1>4. ASSUME NEW i \in 1 .. n, i - 1 \in G PROVE i \in G
  <2> DEFINE j == a + (i - 1)
             x == kept[j]
             y == kept[a + i]
             c == s[a + i]
             m == Len(t)
  <2>1. j \in 0 .. Len(s) /\ a <= j /\ j < b /\ j + 1 = a + i /\ j + 1 \in 1 .. Len(s) /\ (j + 1) - 1 = j
    BY <1>0, <1>2
  <2>2. /\ Len(x) = m + (i - 1) /\ \A k \in 1 .. m : x[k] = t[k]
        /\ \A k \in 1 .. i - 1 : x[m + k] = s[a + k]
    BY <1>4
  <2>3. x \in Seq(Int) /\ m \in Nat
    BY <1>1, <1>21, <2>1
  <2>4. y = Append(x, c) /\ c \in Int
    <3> HIDE DEF j
    <3>1. s[j + 1] \notin D /\ s[j + 1] \in Int
      BY <1>0, <1>2, <2>1
    <3>2. kept[j + 1] = Append(kept[(j + 1) - 1], s[j + 1])
      BY <1>1, <2>1, <3>1
    <3> QED BY <2>1, <3>1, <3>2
  <2> HIDE DEF j, x, m, y, c
  <2>5. Len(y) = Len(x) + 1 /\ y[Len(x) + 1] = c /\ \A k \in 1 .. Len(x) : y[k] = x[k]
    BY <2>3, <2>4, AppendProperties
  <2>6. Len(y) = m + i /\ y[m + i] = c
    <3>1. (m + (i - 1)) + 1 = m + i
      BY <2>3
    <3> QED BY <2>2, <2>5, <3>1
  <2>7. \A k \in 1 .. m : y[k] = t[k]
    BY <2>2, <2>3, <2>5
  <2>8. ASSUME NEW k \in 1 .. i PROVE y[m + k] = s[a + k]
    <3>1. CASE k = i
      BY <2>6, <3>1 DEF c
    <3>2. CASE k # i
      <4>1. k \in 1 .. i - 1 /\ m + k \in 1 .. m + (i - 1)
        BY <2>3, <3>2
      <4> QED BY <2>2, <2>5, <4>1
    <3> QED BY <3>1, <3>2
  <2> QED BY <2>6, <2>7, <2>8 DEF y, m
<1>5. 0 .. n \subseteq G
  <2> HIDE DEF G, n
  <2> QED BY <1>3, <1>31, <1>4, UpInduction
<1>6. n \in 0 .. n /\ a + n = b
  BY <1>0, <1>3
<1> DEFINE z == SubSeq(s, a + 1, b)
           r == kept[b]
<1>7. Len(r) = Len(t) + n /\ (\A k \in 1 .. Len(t) : r[k] = t[k]) /\ \A k \in 1 .. n : r[Len(t) + k] = s[a + k]
  BY <1>5, <1>6
<1>8. z \in Text /\ Len(z) = n /\ \A k \in 1 .. n : z[k] = s[a + k]
  BY <1>0, Cut
<1>9. r \in Text
  <2>1. b \in 0 .. Len(s)
    BY <1>0, <1>2
  <2>2. r \in Seq(Int)
    BY <1>1, <2>1
  <2> QED BY <2>2, Zenon DEF Text
<1> HIDE DEF t, n, z, r
<1>10. /\ t \o z \in Text /\ Len(t \o z) = Len(t) + Len(z)
       /\ \A i \in 1 .. Len(t) + Len(z) : (t \o z)[i] = IF i <= Len(t) THEN t[i] ELSE z[i - Len(t)]
  BY <1>8, <1>21, ConcatProperties DEF Text
<1> DEFINE w == t \o z
<1>11. w \in Text /\ Len(w) = Len(t) + n
       /\ \A i \in 1 .. Len(t) + n : w[i] = IF i <= Len(t) THEN t[i] ELSE z[i - Len(t)]
  BY <1>8, <1>10
<1> HIDE DEF w
<1>12. ASSUME NEW i \in 1 .. Len(t) + n PROVE r[i] = w[i]
  <2>1. CASE i <= Len(t)
    BY <1>7, <1>11, <1>21, <2>1
  <2>2. CASE ~(i <= Len(t))
    <3>1. i - Len(t) \in 1 .. n /\ Len(t) + (i - Len(t)) = i
      BY <1>3, <1>21, <2>2
    <3>2. r[Len(t) + (i - Len(t))] = s[a + (i - Len(t))] /\ z[i - Len(t)] = s[a + (i - Len(t))]
      BY <1>7, <1>8, <3>1
    <3> QED BY <1>11, <2>2, <3>1, <3>2
  <2> QED BY <2>1, <2>2
<1>13. r = w
  BY <1>7, <1>9, <1>11, <1>12, SameText
<1> QED BY <1>13 DEF r, w, t, z, KeptBetween

\* The words are all of a text but its blanks.
LEMMA WordsFlatten ==
  ASSUME NEW text \in Text, NEW W, NEW e, WordBounds(text, W, e)
  PROVE  FlattenSeq(Words(text, W, e)) = Without(text, {c \in Int : Blank(c)})
<1> DEFINE L == Len(text)
           D == {c \in Int : Blank(c)}
           r == Words(text, W, e)
           s(k) == WordStart(text, e[k - 1])
<1>1. /\ W \in Nat /\ L \in Nat /\ e[0] = 0 /\ WordStart(text, e[W]) = L
      /\ \A k \in 0 .. W : e[k] \in 0 .. L
      /\ \A k \in 1 .. W : /\ e[k - 1] \in 0 .. L /\ s(k) \in 0 .. L /\ e[k - 1] <= s(k) /\ s(k) < e[k]
                           /\ e[k] = WordEnd(text, s(k))
      /\ r \in Seq(Text) /\ Len(r) = W /\ \A k \in 1 .. W : r[k] = SubSeq(text, s(k) + 1, e[k])
  BY WordsType
<1>2. PICK kept : Keeps(text, D, Int, kept) /\ Without(text, D) = kept[Len(text)]
  <2> HIDE DEF D
  <2>1. text \in Seq(Int)
    BY DEF Text
  <2> QED BY <2>1, WithoutIs
<1>3. kept[0] = << >> /\ kept \in [0 .. L -> Seq(Int)]
  BY <1>2 DEF Keeps
<1>4. \A j \in 0 .. L : j < L => (Blank(text[j + 1]) <=> text[j + 1] \in D)
  <2>1. \A j \in 0 .. L : j < L => text[j + 1] \in Int
    BY <1>1, TextType
  <2> QED BY <2>1
<1> HIDE DEF D, r
<1>5. ASSUME NEW x \in 0 .. L PROVE kept[WordStart(text, x)] = kept[x]
  <2> DEFINE y == WordStart(text, x)
  <2>1. /\ y \in 0 .. L /\ x <= y
        /\ \A j \in 0 .. L : x <= j /\ j < y => Blank(text[j + 1])
    BY WordStartIs
  <2> HIDE DEF y
  <2>2. x \in Nat /\ y \in Nat /\ y <= Len(text) /\ \A j \in 0 .. L : j < y => j < L
    BY <1>1, <2>1
  <2>3. \A j \in 0 .. Len(text) : x <= j /\ j < y => text[j + 1] \in D
    BY <1>4, <2>1, <2>2
  <2>4. text \in Seq(Int)
    BY DEF Text
  <2>5. kept[y] = kept[x]
    BY <1>2, <2>1, <2>2, <2>3, <2>4, KeptNone
  <2> QED BY <2>5 DEF y
<1>6. ASSUME NEW k \in 1 .. W PROVE kept[e[k]] = kept[e[k - 1]] \o r[k]
  <2> DEFINE x == s(k)
             y == e[k]
  <2>1. x \in 0 .. L /\ y \in 0 .. L /\ x < y /\ y = WordEnd(text, x)
    BY <1>1
  <2>20. r[k] = SubSeq(text, x + 1, y)
    BY <1>1
  <2>21. kept[x] = kept[e[k - 1]]
    <3> DEFINE z == e[k - 1]
    <3>1. z \in 0 .. L
      BY <1>1
    <3> HIDE DEF z
    <3>2. kept[WordStart(text, z)] = kept[z]
      BY <1>5, <3>1
    <3> QED BY <3>2 DEF z
  <2> HIDE DEF x, y
  <2>2. r[k] = SubSeq(text, x + 1, y) /\ kept[x] = kept[e[k - 1]]
    BY <2>20, <2>21
  <2>3. \A j \in 0 .. L : x <= j /\ j < y => ~Blank(text[j + 1])
    BY <2>1, WordEndIs
  <2>4. x \in Nat /\ y \in Nat /\ x <= y /\ y <= Len(text) /\ \A j \in 0 .. L : j < y => j < L
    BY <1>1, <2>1
  <2>5. \A j \in 0 .. Len(text) : x <= j /\ j < y => text[j + 1] \notin D
    BY <1>4, <2>3, <2>4
  <2>6. kept[y] = kept[x] \o SubSeq(text, x + 1, y)
    <3>1. NoneIn(text, D, x, y)
      BY <2>4, <2>5 DEF NoneIn
    <3>2. Keeps(text, D, Int, kept)
      BY <1>2
    <3>3. KeptBetween(text, kept, x, y)
      BY <3>1, <3>2, KeptAll, Zenon
    <3> QED BY <3>3 DEF KeptBetween
  <2> QED BY <2>2, <2>6 DEF y
<1>7. CASE W = 0
  <2>0. FlattenSeq(<< >>) = << >>
    BY <1>1, FlattenIs
  <2>1. r = << >> /\ FlattenSeq(r) = << >>
    <3>1. r = << >>
      BY <1>1, <1>7
    <3> QED BY <2>0, <3>1
  <2>2. kept[L] = kept[0]
    BY <1>1, <1>5, <1>7
  <2> QED BY <1>2, <1>3, <2>1, <2>2 DEF r, D
<1>8. CASE W # 0
  <2>1. r # << >>
    BY <1>1, <1>8
  <2>2. PICK g : FlattenFunction(r, g) /\ FlattenSeq(r) = g[Len(r)]
    BY <1>1, <2>1, FlattenIs
  <2>3. g \in [1 .. W -> Text] /\ \A i \in 1 .. W : g[i] = IF i = 1 THEN r[i] ELSE g[i - 1] \o r[i]
    BY <1>1, <2>2 DEF FlattenFunction
  <2> DEFINE G == {k \in 0 .. W - 1 : g[k + 1] = kept[e[k + 1]]}
  <2>4. 0 \in G
    <3>1. 0 \in 0 .. W - 1 /\ 0 + 1 = 1 /\ 1 \in 1 .. W /\ 1 - 1 = 0
      BY <1>1, <1>8
    <3>2. g[1] = r[1] /\ r[1] \in Seq(Int)
      BY <1>1, <2>3, <3>1 DEF Text
    <3>3. kept[e[1]] = kept[e[1 - 1]] \o r[1]
      BY <1>6, <3>1
    <3>4. kept[e[1]] = << >> \o r[1]
      BY <1>1, <1>3, <3>1, <3>3
    <3>5. << >> \o r[1] = r[1]
      BY <3>2, ConcatEmptySeq
    <3> QED BY <3>1, <3>2, <3>4, <3>5
  <2>5. ASSUME NEW k \in 1 .. W - 1, k - 1 \in G PROVE k \in G
    <3>1. k \in 1 .. W /\ k + 1 \in 1 .. W /\ (k - 1) + 1 = k /\ k \in 0 .. W - 1 /\ k + 1 # 1 /\ (k + 1) - 1 = k
      BY <1>1
    <3>2. g[(k - 1) + 1] = kept[e[(k - 1) + 1]]
      BY <2>5
    <3>3. g[k] = kept[e[k]]
      BY <3>1, <3>2
    <3>4. g[k + 1] = g[k] \o r[k + 1]
      BY <2>3, <3>1
    <3>5. kept[e[k + 1]] = kept[e[(k + 1) - 1]] \o r[k + 1]
      BY <1>6, <3>1
    <3> QED BY <3>1, <3>3, <3>4, <3>5
  <2>6. 0 .. W - 1 \subseteq G
    <3> HIDE DEF G
    <3>1. W - 1 \in Nat
      BY <1>1, <1>8
    <3> QED BY <2>4, <2>5, <3>1, UpInduction
  <2>7. g[W] = kept[e[W]]
    <3>1. W - 1 \in 0 .. W - 1 /\ (W - 1) + 1 = W
      BY <1>1, <1>8
    <3>2. g[(W - 1) + 1] = kept[e[(W - 1) + 1]]
      BY <2>6, <3>1
    <3> QED BY <3>1, <3>2
  <2>8. kept[L] = kept[e[W]]
    <3>1. W \in 0 .. W
      BY <1>1
    <3> QED BY <1>1, <1>5, <3>1
  <2> QED BY <1>1, <1>2, <2>2, <2>7, <2>8 DEF r, D
<1> QED BY <1>7, <1>8

\* What is cut out of a cut is cut out of the text.
LEMMA CutTwice ==
  ASSUME NEW text \in Text, NEW a \in Nat, NEW b \in Nat, a <= b, b <= Len(text),
         NEW trim, trim = SubSeq(text, a + 1, b),
         NEW x \in Nat, NEW y \in Nat, x <= y, y <= b - a
  PROVE  SubSeq(trim, x + 1, y) = SubSeq(text, (a + x) + 1, a + y)
<1>0. Len(text) \in Nat
  BY TextType
<1>1. trim \in Text /\ Len(trim) = b - a /\ \A i \in 1 .. b - a : trim[i] = text[a + i]
  BY Cut
<1> DEFINE u == a + x
           v == a + y
           p == SubSeq(trim, x + 1, y)
           q == SubSeq(text, u + 1, v)
<1>2. u \in Nat /\ v \in Nat /\ u <= v /\ v <= Len(text) /\ v - u = y - x /\ y <= Len(trim)
  BY <1>0, <1>1
<1>3. p \in Text /\ Len(p) = y - x /\ \A i \in 1 .. y - x : p[i] = trim[x + i]
  BY <1>1, <1>2, Cut
<1>20. u = a + x
  OBVIOUS
<1> HIDE DEF u, v, p
<1>4. q \in Text /\ Len(q) = v - u /\ \A i \in 1 .. v - u : q[i] = text[u + i]
  BY <1>2, Cut
<1> HIDE DEF q
<1>5. ASSUME NEW i \in 1 .. y - x PROVE p[i] = q[i]
  <2>1. x + i \in 1 .. b - a /\ a + (x + i) = u + i
    BY <1>20
  <2>2. q[i] = text[u + i]
    BY <1>2, <1>4
  <2> QED BY <1>1, <1>3, <2>1, <2>2
<1>6. p = q
  BY <1>2, <1>3, <1>4, <1>5, SameText
<1> QED BY <1>6 DEF p, q, u, v

\* A text without some of the blanks at either end.
Trimmed(text, a, b, trim) ==
    /\ a \in Nat /\ b \in Nat /\ a <= b /\ b <= Len(text) /\ trim = SubSeq(text, a + 1, b)
    /\ \A j \in 0 .. Len(text) : j < a => Blank(text[j + 1])
    /\ \A j \in 0 .. Len(text) : b <= j /\ j < Len(text) => Blank(text[j + 1])

\* Trimming takes blanks away at either end.
LEMMA TrimIs ==
  ASSUME NEW text \in Text
  PROVE  \E a, b : Trimmed(text, a, b, Trim(text))
<1> DEFINE L == Len(text)
           M == {i \in DOMAIN text : ~(text[i] <= 32)}
<1>1. L \in Nat /\ DOMAIN text = 1 .. L /\ \A i \in 1 .. L : text[i] \in Int
  BY TextType
<1>2. \A i : i \in M <=> i \in 1 .. L /\ ~Blank(text[i])
  BY <1>1 DEF Blank
<1>3. Trim(text) = IF M = {} THEN Empty ELSE SubSeq(text, Min(M), Max(M))
  BY DEF Trim
<1> HIDE DEF M
<1>4. CASE M = {}
  <2> DEFINE o == 0
             z == SubSeq(text, o + 1, o)
  <2>1. o \in Nat /\ o <= o /\ o <= Len(text) /\ o - o = 0
    BY <1>1
  <2>2. \A j \in 0 .. L : ~(j < o)
    BY <1>1
  <2> HIDE DEF o
  <2>3. z \in Text /\ Len(z) = o - o
    BY <2>1, Cut
  <2> HIDE DEF z
  <2>4. z = Empty
    BY <2>1, <2>3, TextType
  <2>5. \A j \in 0 .. L : o <= j /\ j < L => Blank(text[j + 1])
    BY <1>1, <1>2, <1>4
  <2>6. Trim(text) = SubSeq(text, o + 1, o)
    BY <1>3, <1>4, <2>4 DEF z
  <2>7. Trimmed(text, o, o, Trim(text))
    BY <2>1, <2>2, <2>5, <2>6 DEF Trimmed
  <2> QED BY <2>7
<1>5. CASE M # {}
  <2>0. M \in SUBSET Nat /\ \A y \in M : y <= L
    BY <1>1, <1>2
  <2> DEFINE l == Min(M)
             h == Max(M)
  <2>1. l \in M /\ \A y \in M : l <= y
    BY <1>5, <2>0, MinMember
  <2>2. h \in M /\ \A y \in M : y <= h
    BY <1>1, <1>5, <2>0, MaxMember
  <2>3. Trim(text) = SubSeq(text, l, h)
    BY <1>3, <1>5
  <2> HIDE DEF l, h
  <2> DEFINE a == l - 1
  <2>4. a \in Nat /\ h \in Nat /\ a <= h /\ h <= L /\ a + 1 = l
    BY <1>1, <1>2, <2>1, <2>2
  <2> HIDE DEF a
  <2>5. \A j \in 0 .. L : j < a => Blank(text[j + 1])
    <3> SUFFICES ASSUME NEW j \in 0 .. L, j < a PROVE Blank(text[j + 1])
      OBVIOUS
    <3>1. j + 1 \in 1 .. L /\ ~(l <= j + 1)
      BY <1>1, <2>4
    <3> QED BY <1>2, <2>1, <3>1
  <2>6. \A j \in 0 .. L : h <= j /\ j < L => Blank(text[j + 1])
    <3> SUFFICES ASSUME NEW j \in 0 .. L, h <= j, j < L PROVE Blank(text[j + 1])
      OBVIOUS
    <3>1. j + 1 \in 1 .. L /\ ~(j + 1 <= h)
      BY <1>1, <2>4
    <3> QED BY <1>2, <2>2, <3>1
  <2>7. Trim(text) = SubSeq(text, a + 1, h)
    BY <2>3, <2>4
  <2>8. Trimmed(text, a, h, Trim(text))
    BY <2>4, <2>5, <2>6, <2>7 DEF Trimmed
  <2> QED BY <2>8
<1> QED BY <1>4, <1>5

\* Words are where they were when blanks at either end are taken away.
LEMMA WordsShift ==
  ASSUME NEW text \in Text, NEW a, NEW b, NEW trim, Trimmed(text, a, b, trim),
         NEW i \in 0 .. b - a
  PROVE  /\ WordStart(text, a + i) = IF WordStart(trim, i) = Len(trim) THEN Len(text)
                                     ELSE a + WordStart(trim, i)
         /\ WordEnd(text, a + i) = a + WordEnd(trim, i)
<1> DEFINE L == Len(text)
           n == b - a
<1>0. /\ a \in Nat /\ b \in Nat /\ a <= b /\ b <= L /\ trim = SubSeq(text, a + 1, b)
      /\ \A j \in 0 .. L : b <= j /\ j < L => Blank(text[j + 1])
  BY DEF Trimmed
<1>1. L \in Nat /\ n \in Nat
  BY <1>0, TextType
<1>2. trim \in Text /\ Len(trim) = n /\ \A j \in 1 .. n : trim[j] = text[a + j]
  BY <1>0, Cut
<1>3. a + i \in 0 .. L /\ i \in 0 .. Len(trim)
  BY <1>0, <1>1, <1>2
<1>4. \A j \in 0 .. L : a + i <= j /\ j < b => /\ j - a \in 0 .. n /\ i <= j - a /\ j - a < n
                                              /\ trim[(j - a) + 1] = text[j + 1]
  <2> SUFFICES ASSUME NEW j \in 0 .. L, a + i <= j, j < b
               PROVE  /\ j - a \in 0 .. n /\ i <= j - a /\ j - a < n
                      /\ trim[(j - a) + 1] = text[j + 1]
    OBVIOUS
  <2>1. j - a \in 0 .. n /\ i <= j - a /\ j - a < n /\ (j - a) + 1 \in 1 .. n /\ a + ((j - a) + 1) = j + 1
    BY <1>0
  <2> QED BY <1>2, <2>1
<1>5. WordStart(text, a + i) = IF WordStart(trim, i) = n THEN L ELSE a + WordStart(trim, i)
  <2> DEFINE w == WordStart(trim, i)
  <2>1. /\ w \in 0 .. n /\ i <= w /\ (w # n => ~Blank(trim[w + 1]))
        /\ \A j \in 0 .. n : i <= j /\ j < w => Blank(trim[j + 1])
    BY <1>2, <1>3, WordStartIs
  <2> HIDE DEF w
  <2>2. \A s \in 0 .. L :
          /\ a + i <= s /\ (s # L => ~Blank(text[s + 1]))
          /\ \A j \in 0 .. L : a + i <= j /\ j < s => Blank(text[j + 1])
          => WordStart(text, a + i) = s
    BY <1>3, WordStartIs
  <2>3. ASSUME NEW j \in 0 .. L, a + i <= j, j < a + w PROVE Blank(text[j + 1])
    <3>0. a \in Nat /\ b \in Nat /\ w \in 0 .. n /\ j \in Nat
      BY <1>0, <1>1, <2>1
    <3>1. j < b /\ j - a < w
      BY <2>3, <3>0
    <3> QED BY <1>4, <2>1, <2>3, <3>1
  <2>4. CASE w = n
    <3>1. ASSUME NEW j \in 0 .. L, a + i <= j, j < L PROVE Blank(text[j + 1])
      <4>1. a + w = b
        BY <1>0, <1>1, <2>4
      <4>2. CASE j < b
        BY <2>3, <3>1, <4>1, <4>2
      <4>3. CASE ~(j < b)
        BY <1>0, <3>1, <4>3
      <4> QED BY <4>2, <4>3
    <3>2. L \in 0 .. L /\ a + i <= L
      BY <1>1, <1>3
    <3>3. WordStart(text, a + i) = L
      BY <2>2, <3>1, <3>2
    <3> QED BY <2>4, <3>3 DEF w
  <2>5. CASE w # n
    <3> DEFINE s == a + w
    <3>1. s \in 0 .. L /\ a + i <= s /\ s < b /\ s - a = w
      BY <1>0, <1>1, <2>1, <2>5
    <3>2. ~Blank(text[s + 1])
      BY <1>4, <2>1, <2>5, <3>1
    <3>3. \A j \in 0 .. L : a + i <= j /\ j < s => Blank(text[j + 1])
      BY <2>3
    <3> HIDE DEF s
    <3>4. WordStart(text, a + i) = s
      BY <2>2, <3>1, <3>2, <3>3
    <3> QED BY <2>5, <3>4 DEF s, w
  <2> QED BY <2>4, <2>5
<1>6. WordEnd(text, a + i) = a + WordEnd(trim, i)
  <2> DEFINE w == WordEnd(trim, i)
             s == a + w
  <2>1. /\ w \in 0 .. n /\ i <= w /\ (w # n => Blank(trim[w + 1]))
        /\ \A j \in 0 .. n : i <= j /\ j < w => ~Blank(trim[j + 1])
    BY <1>2, <1>3, WordEndIs
  <2> HIDE DEF w
  <2>2. \A x \in 0 .. L :
          /\ a + i <= x /\ (x # L => Blank(text[x + 1]))
          /\ \A j \in 0 .. L : a + i <= j /\ j < x => ~Blank(text[j + 1])
          => WordEnd(text, a + i) = x
    BY <1>3, WordEndIs
  <2>3. ASSUME NEW j \in 0 .. L, a + i <= j, j < s PROVE ~Blank(text[j + 1])
    <3>0. a \in Nat /\ b \in Nat /\ w \in 0 .. n /\ j \in Nat
      BY <1>0, <1>1, <2>1
    <3>1. j < b /\ j - a < w
      BY <2>3, <3>0
    <3> QED BY <1>4, <2>1, <2>3, <3>1
  <2>4. s \in 0 .. L /\ a + i <= s /\ s - a = w /\ s <= b /\ (w # n => s < b) /\ (w = n => s = b)
    BY <1>0, <1>1, <2>1
  <2>5. ASSUME s # L PROVE Blank(text[s + 1])
    <3>1. CASE w = n
      BY <1>0, <1>1, <2>4, <2>5, <3>1
    <3>2. CASE w # n
      BY <1>4, <2>1, <2>4, <3>2
    <3> QED BY <3>1, <3>2
  <2> HIDE DEF s
  <2>6. WordEnd(text, a + i) = s
    BY <2>2, <2>3, <2>4, <2>5
  <2> QED BY <2>6 DEF s, w
<1> QED BY <1>2, <1>5, <1>6

\* Trimming leaves the words as they are.
LEMMA TrimmedWords ==
  ASSUME NEW text \in Text, Len(text) <= MaxLength
  PROVE  SplitWords(Trim(text)) = SplitWords(text)
<1> DEFINE trim == Trim(text)
           L == Len(text)
<1>0. PICK a, b : Trimmed(text, a, b, trim)
  BY TrimIs
<1>1. /\ a \in Nat /\ b \in Nat /\ a <= b /\ b <= Len(text) /\ trim = SubSeq(text, a + 1, b)
      /\ \A j \in 0 .. Len(text) : j < a => Blank(text[j + 1])
      /\ \A j \in 0 .. Len(text) : b <= j /\ j < Len(text) => Blank(text[j + 1])
  BY <1>0 DEF Trimmed
<1> HIDE DEF trim
<1>2. L \in Nat /\ MaxLength \in Nat
  BY TextType, LengthAssumption
<1> DEFINE n == b - a
<1>3. trim \in Text /\ Len(trim) = n /\ n \in Nat
  BY <1>1, <1>2, Cut
<1>4. Len(trim) <= MaxLength
  BY <1>1, <1>2, <1>3
<1>5. PICK W, f : WordBounds(trim, W, f) /\ SplitWords(trim) = Words(trim, W, f)
  BY <1>3, <1>4, SplitsIntoWords
<1>6. /\ W \in Nat /\ f[0] = 0 /\ WordStart(trim, f[W]) = n
      /\ \A k \in 0 .. W : f[k] \in 0 .. n
      /\ \A k \in 1 .. W : /\ f[k - 1] \in 0 .. n /\ WordStart(trim, f[k - 1]) \in 0 .. n
                           /\ WordStart(trim, f[k - 1]) < f[k]
                           /\ WordStart(trim, f[k - 1]) # n
                           /\ f[k] = WordEnd(trim, WordStart(trim, f[k - 1]))
  BY <1>3, <1>5, WordsType
<1>70. \A i \in 0 .. b - a : /\ WordStart(text, a + i) = IF WordStart(trim, i) = Len(trim)
                                                           THEN Len(text) ELSE a + WordStart(trim, i)
                             /\ WordEnd(text, a + i) = a + WordEnd(trim, i)
  BY <1>0, WordsShift
<1>7. \A i \in 0 .. n : /\ WordStart(text, a + i) = IF WordStart(trim, i) = n THEN L
                                                    ELSE a + WordStart(trim, i)
                        /\ WordEnd(text, a + i) = a + WordEnd(trim, i)
  BY <1>3, <1>70
<1> DEFINE e == [k \in 0 .. W |-> IF k = 0 THEN 0 ELSE a + f[k]]
<1>8. \A k \in 0 .. W : e[k] = IF k = 0 THEN 0 ELSE a + f[k]
  OBVIOUS
<1>9. e \in [0 .. W -> 0 .. L]
  <2>1. \A k \in 0 .. W : a + f[k] \in 0 .. L
    BY <1>1, <1>2, <1>6
  <2> QED BY <1>2, <2>1
<1> HIDE DEF e, n
<1>10. WordStart(text, 0) = WordStart(text, a)
  <2> DEFINE w == WordStart(text, a)
  <2>0. a \in 0 .. L /\ 0 \in 0 .. L
    BY <1>1, <1>2
  <2>1. /\ w \in 0 .. L /\ a <= w /\ (w # L => ~Blank(text[w + 1]))
        /\ \A j \in 0 .. L : a <= j /\ j < w => Blank(text[j + 1])
    BY <2>0, WordStartIs
  <2> HIDE DEF w
  <2>2. \A j \in 0 .. L : 0 <= j /\ j < w => Blank(text[j + 1])
    <3> SUFFICES ASSUME NEW j \in 0 .. L, j < w PROVE Blank(text[j + 1])
      OBVIOUS
    <3>1. j < a \/ a <= j
      BY <1>1, <1>2
    <3> QED BY <1>1, <2>1, <3>1
  <2>3. 0 <= w
    BY <2>1
  <2>4. WordStart(text, 0) = w
    BY <2>0, <2>1, <2>2, <2>3, WordStartIs
  <2> QED BY <2>4 DEF w
<1>11. ASSUME NEW k \in 0 .. W
       PROVE  WordStart(text, e[k]) = IF WordStart(trim, f[k]) = n THEN L ELSE a + WordStart(trim, f[k])
  <2>1. f[k] \in 0 .. n
    BY <1>6
  <2>2. WordStart(text, e[k]) = WordStart(text, a + f[k])
    <3>1. CASE k = 0
      <4>1. e[k] = 0 /\ a + f[k] = a
        BY <1>1, <1>6, <1>8, <3>1
      <4> QED BY <1>10, <4>1
    <3>2. CASE k # 0
      BY <1>8, <3>2
    <3> QED BY <3>1, <3>2
  <2> QED BY <1>7, <2>1, <2>2
<1>12. ASSUME NEW k \in 1 .. W
       PROVE  /\ WordStart(text, e[k - 1]) = a + WordStart(trim, f[k - 1])
              /\ e[k] = WordEnd(text, WordStart(text, e[k - 1])) /\ e[k] = a + f[k]
              /\ WordStart(text, e[k - 1]) # L
  <2>1. k - 1 \in 0 .. W /\ k \in 0 .. W /\ k # 0
    BY <1>6
  <2> DEFINE x == WordStart(trim, f[k - 1])
  <2>2. x \in 0 .. n /\ x # n /\ f[k] = WordEnd(trim, x)
    BY <1>6
  <2>3. WordStart(text, e[k - 1]) = a + x
    BY <1>11, <2>1, <2>2
  <2>4. e[k] = a + f[k]
    BY <1>8, <2>1
  <2> HIDE DEF x
  <2>5. WordEnd(text, a + x) = a + WordEnd(trim, x)
    BY <1>7, <2>2
  <2>6. a + x # L
    BY <1>1, <1>2, <1>3, <2>2 DEF n
  <2> QED BY <2>2, <2>3, <2>4, <2>5, <2>6 DEF x
<1>13. WordBounds(text, W, e)
  <2>1. e[0] = 0
    BY <1>6, <1>8
  <2>2. WordStart(text, e[W]) = L
    BY <1>6, <1>11
  <2> QED BY <1>6, <1>9, <1>12, <2>1, <2>2 DEF WordBounds
<1>14. ASSUME NEW k \in 1 .. W
       PROVE  SubSeq(text, WordStart(text, e[k - 1]) + 1, e[k])
                = SubSeq(trim, WordStart(trim, f[k - 1]) + 1, f[k])
  <2> DEFINE x == WordStart(trim, f[k - 1])
             y == f[k]
  <2>1. x \in Nat /\ y \in Nat /\ x <= y /\ y <= b - a
    <3>1. k \in 0 .. W
      BY <1>6
    <3>2. x \in 0 .. n /\ y \in 0 .. n /\ x < y
      BY <1>6, <3>1
    <3> HIDE DEF x, y
    <3> QED BY <1>3, <3>2 DEF n
  <2>2. WordStart(text, e[k - 1]) = a + x /\ e[k] = a + y
    BY <1>12
  <2> HIDE DEF x, y
  <2>3. SubSeq(trim, x + 1, y) = SubSeq(text, (a + x) + 1, a + y)
    BY <1>1, <2>1, CutTwice
  <2> QED BY <2>2, <2>3 DEF x, y
<1>15. Words(text, W, e) = Words(trim, W, f)
  BY <1>14 DEF Words
<1>16. SplitWords(text) = Words(text, W, e)
  BY <1>13, WordsAre
<1> QED BY <1>5, <1>15, <1>16 DEF trim

\* Two slices that meet are the whole.
LEMMA SlicesMeet ==
  ASSUME NEW text \in Text, Len(text) <= MaxLength, NEW n \in 0 .. Len(text)
  PROVE  Concat(Slice(text, 0, n), Slice(text, n, Len(text))) = text
<1> DEFINE L == Len(text)
           o == 0
           x == Slice(text, o, n)
           y == Slice(text, n, L)
<1>1. L \in Nat /\ o \in Nat /\ n \in Nat /\ n <= L /\ o <= n /\ L <= L /\ L <= MaxLength
      /\ L - n \in Nat /\ MaxLength \in Nat
  BY TextType, LengthAssumption
<1>01. \A i \in 1 .. n : o + i = i
  OBVIOUS
<1>02. n - o = n
  OBVIOUS
<1> HIDE DEF L, o
<1>2. x = SubSeq(text, o + 1, n) /\ y = SubSeq(text, n + 1, L)
  BY <1>1, SliceIs DEF L
<1>3. x \in Text /\ Len(x) = n - o /\ \A i \in 1 .. n - o : x[i] = text[o + i]
  BY <1>1, <1>2, Cut DEF L
<1>4. y \in Text /\ Len(y) = L - n /\ \A i \in 1 .. L - n : y[i] = text[n + i]
  BY <1>1, <1>2, Cut DEF L
<1> HIDE DEF x, y
<1>5. Len(x) = n /\ \A i \in 1 .. n : x[i] = text[i]
  BY <1>01, <1>02, <1>3
<1>51. /\ x \o y \in Text /\ Len(x \o y) = Len(x) + Len(y)
       /\ \A i \in 1 .. Len(x) + Len(y) : (x \o y)[i] = IF i <= Len(x) THEN x[i] ELSE y[i - Len(x)]
  BY <1>3, <1>4, ConcatProperties DEF Text
<1> DEFINE z == x \o y
<1>6. z \in Text /\ Len(z) = n + (L - n) /\ \A i \in 1 .. n + (L - n) : z[i] = IF i <= n THEN x[i] ELSE y[i - n]
  BY <1>4, <1>5, <1>51
<1>7. Len(z) = L
  BY <1>1, <1>6
<1> HIDE DEF z
<1>8. ASSUME NEW i \in 1 .. L PROVE z[i] = text[i]
  <2>1. i \in 1 .. n + (L - n)
    BY <1>1
  <2>2. CASE i <= n
    BY <1>5, <1>6, <2>1, <2>2
  <2>3. CASE ~(i <= n)
    <3>1. i - n \in 1 .. L - n /\ n + (i - n) = i
      BY <1>1, <2>3
    <3> QED BY <1>4, <1>6, <2>1, <2>3, <3>1
  <2> QED BY <2>2, <2>3
<1>9. z = text
  BY <1>6, <1>7, <1>8, SameText DEF L
<1>10. ~(Len(x) + Len(y) > MaxLength)
  BY <1>1, <1>4, <1>5
<1>11. Concat(x, y) = z
  BY <1>10 DEF Concat, Limited, z
<1> QED BY <1>9, <1>11 DEF x, y, o, L

\* A range of an array is copied to where a slice of it has its units.
LEMMA ArraySlices ==
  ASSUME NEW text \in Text, NEW b \in -1 .. Len(text), NEW e \in 0 .. Len(text) + 1
  PROVE  ArraySlice(Shorts(text), b, e, "short", 32).items = Slice(text, b, e)
<1> DEFINE L == Len(text)
           copyBegin == Max({b, 0})
           copyEnd == Min({e, L})
           destination == copyBegin - b
           copied == copyEnd - copyBegin
           u == [i \in 1 .. e - b |->
                   IF destination < i /\ i <= destination + copied
                     THEN text[copyBegin + i - destination] ELSE 32]
           v == [i \in 1 .. e - b |-> IF b + i \in DOMAIN text THEN text[b + i] ELSE 32]
<1>1. L \in Nat /\ DOMAIN text = 1 .. L /\ b \in Int /\ e \in Int
  BY TextType
<1>2. copyBegin = IF b <= 0 THEN 0 ELSE b
  BY <1>1, MaxOfTwo
<1>3. copyEnd = IF e <= L THEN e ELSE L
  BY <1>1, MinOfTwo
<1>4. ArraySlice(Shorts(text), b, e, "short", 32).items
        = IF b < e /\ e - b <= MaxLength THEN u ELSE Empty
  <2>1. Shorts(text).items = text /\ Shorts(text).type = "short"
    BY DEF Shorts, Array
  <2> DEFINE a == Shorts(text)
  <2>2. ArraySlice(a, b, e, "short", 32)
          = IF b < e /\ e - b <= MaxLength THEN Array("short", u) ELSE NoArray
    <3>1. a.items = text /\ a.type = "short"
      BY <2>1
    <3> HIDE DEF a
    <3> QED BY <3>1, Zenon DEF ArraySlice
  <2>3. Array("short", u).items = u /\ NoArray.items = Empty
    <3> HIDE DEF u
    <3> QED BY DEF Array, NoArray
  <2> HIDE DEF u
  <2> QED BY <2>2, <2>3, Zenon
<1>5. Slice(text, b, e) = IF e <= b THEN Empty ELSE Limited(v, e - b)
  BY DEF Slice
<1> HIDE DEF copyBegin, copyEnd, L
<1>6. ASSUME NEW i \in 1 .. e - b
      PROVE  /\ (destination < i /\ i <= destination + copied) <=> b + i \in 1 .. L
             /\ copyBegin + i - destination = b + i
  BY <1>1, <1>2, <1>3
<1>7. u = v
  <2> HIDE DEF destination, copied
  <2> QED BY <1>1, <1>6
<1> HIDE DEF u, v
<1>8. b < e <=> ~(e <= b)
  BY <1>1
<1>9. e - b <= MaxLength <=> ~(e - b > MaxLength)
  BY <1>1, LengthAssumption
<1>10. Slice(text, b, e) = IF b < e /\ e - b <= MaxLength THEN v ELSE Empty
  BY <1>5, <1>8, <1>9, Zenon DEF Limited
<1> DEFINE r == ArraySlice(Shorts(text), b, e, "short", 32).items
<1>11. r = IF b < e /\ e - b <= MaxLength THEN u ELSE Empty
  BY <1>4
<1> HIDE DEF r
<1> QED BY <1>7, <1>10, <1>11 DEF r

\* Two arrays are joined like two texts.
LEMMA ArraysJoin ==
  ASSUME NEW text \in Text, NEW other \in Text
  PROVE  ArrayConcat(Shorts(text), Shorts(other)).items = Join(Empty, <<text, other>>)
<1> DEFINE p == <<text, other>>
<1>1. p \in Seq(Text) /\ Len(p) = 2 /\ p # << >> /\ p[1] = text /\ p[2] = other
  OBVIOUS
<1> HIDE DEF p
<1>2. Empty \in Text /\ Empty \in Seq(Int) /\ Len(Empty) = 0
  BY EmptySeq DEF Text, Empty
<1>3. PICK g : JoinSteps(Empty, p, g) /\ Joined(Empty, p) = g[Len(p)]
  BY <1>1, <1>2, JoinedIs
<1>4. g[1] = text /\ g[2] = (g[1] \o Empty) \o other
  <2>1. 1 \in 1 .. Len(p) - 1 /\ 1 + 1 = 2
    BY <1>1
  <2>2. g[1 + 1] = (g[1] \o Empty) \o p[1 + 1]
    BY <1>3, <2>1 DEF JoinSteps
  <2> QED BY <1>1, <1>3, <2>1, <2>2 DEF JoinSteps
<1>5. text \in Seq(Int) /\ text \o Empty = text
  BY ConcatEmptySeq DEF Text, Empty
<1>6. Joined(Empty, p) = text \o other
  BY <1>1, <1>3, <1>4, <1>5
<1>7. Len(text \o other) = Len(text) + Len(other)
  BY ConcatProperties DEF Text
<1>8. JoinLength(Empty, p) = Len(text) + Len(other)
  BY <1>1, <1>2, <1>6, <1>7, JoinWrites
<1> DEFINE n == Len(text) + Len(other)
           c == text \o other
<1>9. n \in Nat /\ c \in Text /\ Len(c) = n
  BY <1>7, ConcatProperties, TextType DEF Text
<1>10. Join(Empty, p) = IF n > MaxLength THEN Empty ELSE c
  BY <1>1, <1>6, <1>8, Zenon DEF Join, Limited
<1>11. ArrayConcat(Shorts(text), Shorts(other)).items
         = IF n > 0 /\ n <= MaxLength THEN c ELSE Empty
  <2>1. /\ Shorts(text).items = text /\ Shorts(text).type = "short"
        /\ Shorts(other).items = other /\ Shorts(other).type = "short"
    BY DEF Shorts, Array
  <2>2. ArrayConcat(Shorts(text), Shorts(other))
          = IF n > 0 /\ n <= MaxLength THEN Array("short", c) ELSE NoArray
    BY <2>1, Zenon DEF ArrayConcat
  <2>3. Array("short", c).items = c /\ NoArray.items = Empty
    <3> HIDE DEF c
    <3> QED BY DEF Array, NoArray
  <2> HIDE DEF c, n
  <2> QED BY <2>2, <2>3, Zenon
<1> HIDE DEF c, n
<1>12. n = 0 => c = Empty
  BY <1>9, EmptySeq DEF Text, Empty
<1>13. ~(n > MaxLength) <=> n <= MaxLength
  BY <1>9, LengthAssumption
<1>14. n > 0 <=> n # 0
  BY <1>9
<1> DEFINE r == ArrayConcat(Shorts(text), Shorts(other)).items
           q == Join(Empty, p)
<1>15. r = IF n > 0 /\ n <= MaxLength THEN c ELSE Empty
  BY <1>11
<1>16. q = IF n > MaxLength THEN Empty ELSE c
  BY <1>10
<1> HIDE DEF r, q
<1>17. r = q
  BY <1>12, <1>13, <1>14, <1>15, <1>16
<1> QED BY <1>17, Zenon DEF r, q, p

\* Quotient and remainder.
LEMMA QuotientIs ==
  ASSUME NEW a \in Nat, NEW m \in Nat, m # 0
  PROVE  /\ a \div m \in Nat /\ a % m \in 0 .. m - 1
         /\ a = m * (a \div m) + (a % m)
OBVIOUS

\* More of something.
LEMMA Times ==
  ASSUME NEW m \in Nat, NEW p \in Int, NEW q \in Int, p < q
  PROVE  m * p + m <= m * q /\ m * p \in Int /\ m * q \in Int
<1>1. q - p - 1 \in Nat
  OBVIOUS
<1>2. m * (q - p - 1) \in Nat
  BY <1>1
<1>3. m * (q - p - 1) = m * q - m * p - m
  OBVIOUS
<1>4. m * p \in Int /\ m * q \in Int
  OBVIOUS
<1> QED BY <1>2, <1>3, <1>4

\* The remainder of a multiple and a little more.
LEMMA RemainderIs ==
  ASSUME NEW m \in Nat, NEW k \in Nat, NEW r \in 0 .. m - 1
  PROVE  (m * k + r) % m = r
<1> DEFINE a == m * k + r
           q == a \div m
           s == a % m
           x == m * k
           y == m * q
<1>1. m # 0 /\ x \in Nat /\ a = x + r
  OBVIOUS
<1>2. a \in Nat
  BY <1>1
<1> HIDE DEF a
<1>3. q \in Nat /\ s \in 0 .. m - 1 /\ a = y + s
  BY <1>1, <1>2, QuotientIs
<1> HIDE DEF q, s
<1>4. q < k => y + m <= x /\ y \in Int
  BY <1>3, Times
<1>5. k < q => x + m <= y /\ y \in Int
  BY <1>3, Times
<1>6. y \in Int
  BY <1>3
<1> HIDE DEF x, y
<1>7. ~(q < k) /\ ~(k < q)
  BY <1>1, <1>3, <1>4, <1>5, <1>6
<1>8. q = k
  BY <1>3, <1>7
<1>9. x = y
  BY <1>8 DEF x, y
<1>10. s = r
  BY <1>1, <1>3, <1>6, <1>9
<1> QED BY <1>10 DEF s, a

\* A length is too long for a count exactly when the product is.
LEMMA ProductLimit ==
  ASSUME NEW m \in Nat, NEW n \in Nat, n # 0, NEW max \in Nat
  PROVE  m > max \div n <=> n * m > max
<1> DEFINE q == max \div n
           s == max % n
           x == n * q
           y == n * m
<1>1. q \in Nat /\ s \in 0 .. n - 1 /\ max = x + s
  BY QuotientIs
<1> HIDE DEF q, s
<1>2. q < m => x + n <= y
  BY <1>1, Times
<1>3. m < q => y + n <= x
  BY <1>1, Times
<1>4. x \in Nat /\ y \in Nat
  BY <1>1
<1>41. q = m => x = y
  OBVIOUS
<1> HIDE DEF x, y
<1>5. m > q <=> y > max
  BY <1>1, <1>2, <1>3, <1>4, <1>41
<1> QED BY <1>5 DEF q, y

\* Replicating is joining as many texts as are asked for.
LEMMA Replicates ==
  ASSUME NEW text \in Text, NEW n \in Nat
  PROVE  Replicate(text, n) = Join(Empty, [k \in 1 .. n |-> text])
<1> DEFINE p == [k \in 1 .. n |-> text]
           L == Len(text)
<1>1. p \in Seq(Text) /\ Len(p) = n /\ \A k \in 1 .. n : p[k] = text
  OBVIOUS
<1>2. L \in Nat /\ MaxLength \in Nat /\ DOMAIN text = 1 .. L /\ (text = Empty <=> L = 0)
      /\ \A i \in 1 .. L : text[i] \in Int
  BY TextType, LengthAssumption
<1>3. Empty \in Text /\ Empty \in Seq(Int) /\ Len(Empty) = 0
  BY EmptySeq DEF Text, Empty
<1>4. CASE n = 0
  <2>1. p = << >>
    BY <1>1, <1>4
  <2>2. Join(Empty, p) = Empty
    BY <2>1, Zenon DEF Join
  <2>3. n <= 0
    BY <1>4
  <2>4. Replicate(text, n) = Empty
    BY <2>3 DEF Replicate
  <2> QED BY <2>2, <2>4
<1>5. CASE n # 0
  <2>1. p # << >>
    BY <1>1, <1>5
  <2> HIDE DEF p
  <2>2. PICK g : JoinSteps(Empty, p, g) /\ Joined(Empty, p) = g[Len(p)]
    BY <1>1, <1>3, <2>1, JoinedIs
  <2>3. g \in [1 .. n -> Text] /\ g[1] = text /\ \A k \in 1 .. n - 1 : g[k + 1] = g[k] \o text
    <3>1. 1 \in 1 .. n
      BY <1>5
    <3>2. /\ g \in [1 .. n -> Text] /\ g[1] = p[1]
          /\ \A k \in 1 .. n - 1 : g[k + 1] = (g[k] \o Empty) \o p[k + 1]
      BY <1>1, <2>2 DEF JoinSteps
    <3>3. ASSUME NEW k \in 1 .. n - 1 PROVE g[k + 1] = g[k] \o text
      <4>1. k \in 1 .. n /\ k + 1 \in 1 .. n
        OBVIOUS
      <4>2. g[k] \in Seq(Int) /\ p[k + 1] = text
        BY <1>1, <3>2, <4>1 DEF Text
      <4>3. g[k] \o Empty = g[k]
        BY <4>2, ConcatEmptySeq DEF Empty
      <4> QED BY <3>2, <4>2, <4>3
    <3> QED BY <1>1, <3>1, <3>2, <3>3
  <2> DEFINE u(i) == text[1 + ((i - 1) % L)]
             G == {k \in 0 .. n - 1 : /\ Len(g[k + 1]) = L * k + L
                                      /\ \A i \in 1 .. L * k + L : g[k + 1][i] = u(i)}
  <2>4. ASSUME NEW k \in Nat, NEW j \in 1 .. L PROVE u(L * k + j) = text[j]
    <3> DEFINE x == L * k
    <3>1. j - 1 \in 0 .. L - 1 /\ x \in Nat
      BY <1>2
    <3>2. (x + (j - 1)) % L = j - 1
      BY <1>2, <3>1, RemainderIs
    <3> HIDE DEF x
    <3>3. (x + j) - 1 = x + (j - 1) /\ 1 + (j - 1) = j
      BY <3>1
    <3>4. text[1 + (((x + j) - 1) % L)] = text[j]
      BY <3>2, <3>3
    <3> QED BY <3>4 DEF x
  <2>5. 0 \in G
    <3>01. L * 0 = 0
      BY <1>2
    <3>02. 0 + 1 = 1
      OBVIOUS
    <3>03. 0 + L = L
      BY <1>2
    <3>0. L * 0 = 0 /\ 0 + 1 = 1 /\ L * 0 + L = L
      BY <3>01, <3>02, <3>03, Zenon
    <3>1. 0 \in 0 .. n - 1
      BY <1>5
    <3>2. \A i \in 1 .. L : u(i) = text[i]
      <4> SUFFICES ASSUME NEW i \in 1 .. L PROVE u(i) = text[i]
        OBVIOUS
      <4>1. L * 0 + i = i
        BY <3>0
      <4> HIDE DEF u
      <4>2. u(L * 0 + i) = text[i]
        BY <2>4
      <4> QED BY <4>1, <4>2
    <3> HIDE DEF u
    <3> QED BY <2>3, <3>0, <3>1, <3>2
  <2>6. ASSUME NEW k \in 1 .. n - 1, k - 1 \in G PROVE k \in G
    <3> DEFINE x == g[k]
               c == L * (k - 1)
               y == x \o text
    <3>0. k \in 1 .. n /\ k \in 0 .. n - 1 /\ (k - 1) + 1 = k
      OBVIOUS
    <3>1. c + L = L * k /\ c \in Nat /\ k - 1 \in Nat
      BY <1>2
    <3>2. Len(x) = c + L /\ \A i \in 1 .. c + L : x[i] = u(i)
      <4> HIDE DEF u
      <4>1. Len(g[(k - 1) + 1]) = L * (k - 1) + L
            /\ \A i \in 1 .. L * (k - 1) + L : g[(k - 1) + 1][i] = u(i)
        BY <2>6
      <4> QED BY <3>0, <4>1
    <3>3. x \in Seq(Int) /\ text \in Seq(Int)
      BY <2>3, <3>0 DEF Text
    <3>4. g[k + 1] = y
      BY <2>3
    <3> HIDE DEF x
    <3>5. /\ Len(x \o text) = Len(x) + Len(text)
          /\ \A i \in 1 .. Len(x) + Len(text) : (x \o text)[i] = IF i <= Len(x) THEN x[i] ELSE text[i - Len(x)]
      BY <3>3, ConcatProperties
    <3> DEFINE d == L * k
    <3>6. d \in Nat /\ Len(x) = d
      BY <3>1, <3>2
    <3>7. /\ Len(y) = d + L
          /\ \A i \in 1 .. d + L : y[i] = IF i <= d THEN x[i] ELSE text[i - d]
      BY <3>5, <3>6
    <3>8. \A i \in 1 .. d : x[i] = u(i)
      BY <3>1, <3>2
    <3>9. \A j \in 1 .. L : u(d + j) = text[j]
      <4>1. k \in Nat
        OBVIOUS
      <4> HIDE DEF u
      <4> QED BY <2>4, <4>1
    <3> HIDE DEF y, d, u
    <3>10. ASSUME NEW i \in 1 .. d + L PROVE y[i] = u(i)
      <4>1. CASE i <= d
        BY <3>6, <3>7, <3>8, <4>1
      <4>2. CASE ~(i <= d)
        <5>1. i - d \in 1 .. L /\ d + (i - d) = i
          BY <1>2, <3>6, <4>2
        <5>2. u(d + (i - d)) = text[i - d]
          BY <3>9, <5>1
        <5> QED BY <3>7, <4>2, <5>1, <5>2
      <4> QED BY <4>1, <4>2
    <3>11. Len(g[k + 1]) = L * k + L /\ \A i \in 1 .. L * k + L : g[k + 1][i] = u(i)
      BY <3>4, <3>7, <3>10 DEF d
    <3> QED BY <3>0, <3>11
  <2>7. 0 .. n - 1 \subseteq G
    <3> HIDE DEF G
    <3>1. n - 1 \in Nat
      BY <1>5
    <3> QED BY <2>5, <2>6, <3>1, UpInduction
  <2>8. n - 1 \in 0 .. n - 1 /\ (n - 1) + 1 = n /\ L * (n - 1) + L = L * n
    BY <1>2, <1>5
  <2> HIDE DEF u
  <2>9. Len(g[n]) = L * n /\ \A i \in 1 .. L * n : g[n][i] = u(i)
    <3>1. Len(g[(n - 1) + 1]) = L * (n - 1) + L /\ \A i \in 1 .. L * (n - 1) + L : g[(n - 1) + 1][i] = u(i)
      BY <2>7, <2>8
    <3> QED BY <2>8, <3>1
  <2>10. Joined(Empty, p) = g[n] /\ g[n] \in Text
    BY <1>1, <1>5, <2>2, <2>3
  <2>11. JoinLength(Empty, p) = L * n
    BY <1>1, <1>3, <2>1, <2>9, <2>10, JoinWrites
  <2>12. Join(Empty, p) = IF L * n > MaxLength THEN Empty ELSE g[n]
    BY <2>1, <2>10, <2>11 DEF Join, Limited
  <2>13. L * n = n * L
    BY <1>2
  <2>14. L > MaxLength \div n <=> L * n > MaxLength
    BY <1>2, <1>5, <2>13, ProductLimit
  <2>15. CASE L = 0
    <3>1. Len(g[n]) = 0
      BY <2>9, <2>15
    <3>2. g[n] = Empty
      BY <2>10, <3>1, TextType
    <3>3. Replicate(text, n) = Empty
      BY <1>2, <2>15 DEF Replicate
    <3> QED BY <2>12, <3>2, <3>3 DEF p
  <2>16. CASE L # 0
    <3> DEFINE w == [i \in 1 .. Len(text) * n |-> u(i)]
    <3>1. Replicate(text, n) = IF L * n > MaxLength THEN Empty ELSE w
      <4>1. ~(n <= 0)
        BY <1>5
      <4> QED BY <1>2, <2>14, <2>16, <4>1 DEF Replicate, u
    <3>2. w = g[n]
      <4>1. L * n \in Nat
        BY <1>2
      <4>2. g[n] = [i \in 1 .. L * n |-> g[n][i]]
        <5>1. DOMAIN g[n] = 1 .. Len(g[n])
          BY <2>10 DEF Text
        <5>2. g[n] = [i \in DOMAIN g[n] |-> g[n][i]]
          BY <2>10 DEF Text
        <5> QED BY <2>9, <5>1, <5>2
      <4> QED BY <2>9, <4>2
    <3> HIDE DEF w
    <3> QED BY <2>12, <3>1, <3>2 DEF p
  <2> QED BY <2>15, <2>16
<1> QED BY <1>4, <1>5

\* What comes out when every blank becomes a space.
LEMMA Spaced ==
  ASSUME NEW text \in Seq(Nat)
  PROVE  /\ Spacious(text) \in Text /\ Len(Spacious(text)) = Len(text)
         /\ \A i \in 1 .. Len(text) :
              Spacious(text)[i] = IF Blank(text[i]) THEN 32 ELSE text[i]
<1> DEFINE L == Len(text)
           unit(i) == IF Blank(text[i]) THEN 32 ELSE text[i]
           x == [i \in 1 .. L |-> unit(i)]
<1>1. L \in Nat /\ DOMAIN text = 1 .. L /\ \A i \in 1 .. L : text[i] \in Nat
  OBVIOUS
<1>2. Spacious(text) = x
  BY <1>1 DEF Spacious
<1>3. \A i \in 1 .. L : unit(i) \in Int
  BY <1>1
<1> HIDE DEF unit
<1>4. x \in Text /\ Len(x) = L /\ \A i \in 1 .. L : x[i] = unit(i)
  BY <1>1, <1>3 DEF Text
<1> HIDE DEF x
<1> QED BY <1>2, <1>4 DEF unit

\* A text with a space at each blank of another, and nowhere else.
Spacing(text, x, sp) ==
    /\ text \in Text /\ x \in Text /\ Len(x) = Len(text)
    /\ \A i \in 1 .. Len(text) : x[i] = IF Blank(text[i]) THEN 32 ELSE text[i]
    /\ sp \in Text /\ sp # Empty /\ Len(sp) = 1
    /\ \A j \in 0 .. Len(text) : j \in Places(x, sp) <=> j # Len(text) /\ Blank(text[j + 1])

\* Every blank becomes such a space.
LEMMA SpacePlaces ==
  ASSUME NEW text \in Seq(Nat) PROVE Spacing(text, Spacious(text), <<32>>)
<1> DEFINE L == Len(text)
           x == Spacious(text)
           sp == <<32>>
<1>1. /\ x \in Text /\ Len(x) = L
      /\ \A i \in 1 .. L : x[i] = IF Blank(text[i]) THEN 32 ELSE text[i]
  BY Spaced
<1>2. sp \in Text /\ sp # Empty /\ Len(sp) = 1 /\ sp[1] = 32
  BY DEF Text, Empty
<1>3. L \in Nat /\ text \in Text
  BY DEF Text
<1> HIDE DEF x, sp
<1>4. \A i \in Nat : i \in Places(x, sp) <=>
         i + Len(sp) <= Len(x) /\ \A k \in 1 .. Len(sp) : x[i + k] = sp[k]
  BY <1>1, <1>2, PlacesType
<1>5. ASSUME NEW j \in 0 .. L PROVE j \in Places(x, sp) <=> j # L /\ Blank(text[j + 1])
  <2>1. j \in Places(x, sp) <=> j + 1 <= L /\ x[j + 1] = 32
    <3>1. j \in Nat
      OBVIOUS
    <3>2. (\A k \in 1 .. Len(sp) : x[j + k] = sp[k]) <=> x[j + 1] = 32
      <4>1. \A k \in 1 .. Len(sp) : k = 1
        BY <1>2
      <4>2. 1 \in 1 .. Len(sp)
        BY <1>2
      <4> QED BY <1>2, <4>1, <4>2
    <3> QED BY <1>1, <1>2, <1>4, <3>1, <3>2
  <2>2. j + 1 <= L <=> j # L
    BY <1>3
  <2>3. ASSUME j # L PROVE x[j + 1] = 32 <=> Blank(text[j + 1])
    <3>1. j + 1 \in 1 .. L
      BY <1>3, <2>3
    <3>2. text[j + 1] = 32 => Blank(text[j + 1])
      BY DEF Blank
    <3> QED BY <1>1, <3>1, <3>2
  <2> QED BY <2>1, <2>2, <2>3
<1> QED BY <1>1, <1>2, <1>3, <1>5 DEF Spacing, x, sp

\* Parts of a text: no blank in them, one after each but the last.
SpacedBounds(text, x, P, b, e) ==
    /\ P \in Nat /\ P # 0 /\ b[1] = 0 /\ e[P] = Len(text)
    /\ \A k \in 1 .. P :
         /\ b[k] \in 0 .. Len(text) /\ e[k] \in 0 .. Len(text) /\ b[k] <= e[k]
         /\ \A j \in 0 .. Len(text) : b[k] <= j /\ j < e[k] => ~Blank(text[j + 1])
         /\ SubSeq(x, b[k] + 1, e[k]) = SubSeq(text, b[k] + 1, e[k])
    /\ \A k \in 1 .. P - 1 :
         e[k] # Len(text) /\ Blank(text[e[k] + 1]) /\ b[k + 1] = e[k] + 1

\* The parts between spaces are such parts.
LEMMA SpacedParts ==
  ASSUME NEW text, NEW x, NEW sp, Spacing(text, x, sp), NEW P, NEW b, NEW e, PartBounds(x, sp, P, b, e)
  PROVE  SpacedBounds(text, x, P, b, e)
<1> DEFINE L == Len(text)
<1>1. /\ x \in Text /\ Len(x) = L /\ text \in Text /\ L \in Nat
      /\ \A i \in 1 .. L : x[i] = IF Blank(text[i]) THEN 32 ELSE text[i]
  BY TextType DEF Spacing
<1>2. /\ sp \in Text /\ sp # Empty /\ Len(sp) = 1
      /\ \A j \in 0 .. L : j \in Places(x, sp) <=> j # L /\ Blank(text[j + 1])
  BY DEF Spacing
<1>3. /\ P \in Nat /\ P # 0 /\ b[1] = 0 /\ e[P] = L /\ Find(x, sp, b[P]) = -1
      /\ \A k \in 1 .. P : /\ b[k] \in Nat /\ e[k] \in Nat /\ b[k] <= e[k] /\ e[k] <= L
                           /\ b[k] \in 0 .. L
      /\ \A k \in 1 .. P - 1 : /\ e[k] = Find(x, sp, b[k]) /\ e[k] \in Places(x, sp)
                               /\ b[k + 1] = e[k] + Len(sp)
  <2>1. /\ P \in Nat /\ P # 0 /\ b[1] = 0 /\ e[P] = Len(x) /\ Find(x, sp, b[P]) = -1
        /\ \A k \in 1 .. P : /\ b[k] \in Nat /\ e[k] \in Nat /\ b[k] <= e[k] /\ e[k] <= Len(x)
                             /\ b[k] <= Len(x) /\ b[k] \in 0 .. Len(x)
        /\ \A k \in 1 .. P - 1 : /\ e[k] = Find(x, sp, b[k]) /\ e[k] \in Places(x, sp)
                                 /\ b[k + 1] = e[k] + Len(sp)
    <3>1. x \in Text /\ sp \in Text /\ sp # Empty
      BY <1>1, <1>2
    <3> QED BY <3>1, BoundsType
  <2> QED BY <1>1, <2>1
<1>4. ASSUME NEW k \in 1 .. P PROVE e[k] \in 0 .. L
  BY <1>1, <1>3
<1>5. ASSUME NEW k \in 1 .. P, NEW j \in 0 .. L, b[k] <= j, j < e[k] PROVE ~Blank(text[j + 1])
  <2> DEFINE u == b[k]
             v == e[k]
             f == Find(x, sp, u)
  <2>1. u \in Nat /\ v \in 0 .. L /\ u <= j /\ j < v /\ j # L
    BY <1>1, <1>3, <1>4, <1>5
  <2>2. f = -1 \/ f = v
    <3>1. k = P \/ k \in 1 .. P - 1
      BY <1>3
    <3> QED BY <1>3, <3>1
  <2> HIDE DEF u, v
  <2>3. \/ f = -1 /\ \A i \in Places(x, sp) : i < u
        \/ \A i \in Places(x, sp) : u <= i => f <= i
    BY <1>1, <1>2, <2>1, FindIs
  <2>4. \/ f = -1 /\ \A i \in Places(x, sp) : i < u
        \/ f = v /\ \A i \in Places(x, sp) : u <= i => v <= i
        \/ f = -1 /\ f \in Places(x, sp)
    BY <1>1, <1>2, <2>1, <2>2, FindIs
  <2>5. -1 \notin Places(x, sp)
    <3>1. Places(x, sp) \in SUBSET Nat
      BY <1>1, <1>2, PlacesType
    <3> QED BY <3>1
  <2> HIDE DEF f
  <2>6. j \notin Places(x, sp)
    BY <2>1, <2>4, <2>5
  <2> QED BY <1>2, <2>1, <2>6
<1>6. ASSUME NEW k \in 1 .. P PROVE SubSeq(x, b[k] + 1, e[k]) = SubSeq(text, b[k] + 1, e[k])
  <2> DEFINE u == b[k]
             v == e[k]
             p == SubSeq(x, u + 1, v)
             q == SubSeq(text, u + 1, v)
  <2>1. u \in Nat /\ v \in Nat /\ u <= v /\ v <= L
    BY <1>3
  <2>2. \A j \in 0 .. L : u <= j /\ j < v => ~Blank(text[j + 1])
    BY <1>5
  <2> HIDE DEF u, v
  <2>3. p \in Text /\ Len(p) = v - u /\ \A i \in 1 .. v - u : p[i] = x[u + i]
    BY <1>1, <2>1, Cut
  <2>4. q \in Text /\ Len(q) = v - u /\ \A i \in 1 .. v - u : q[i] = text[u + i]
    BY <1>1, <2>1, Cut
  <2> HIDE DEF p, q
  <2>5. ASSUME NEW i \in 1 .. v - u PROVE p[i] = q[i]
    <3> DEFINE j == u + (i - 1)
    <3>1. j \in 0 .. L /\ u <= j /\ j < v /\ j + 1 = u + i /\ u + i \in 1 .. L
      BY <1>1, <2>1
    <3> HIDE DEF j
    <3>2. ~Blank(text[u + i])
      <4>1. ~Blank(text[j + 1])
        BY <2>2, <3>1
      <4> QED BY <3>1, <4>1
    <3> QED BY <1>1, <2>3, <2>4, <3>1, <3>2
  <2>6. p = q
    BY <2>3, <2>4, <2>5, SameText
  <2> QED BY <2>6 DEF p, q, u, v
<1>7. ASSUME NEW k \in 1 .. P - 1
      PROVE  e[k] # L /\ Blank(text[e[k] + 1]) /\ b[k + 1] = e[k] + 1
  <2>1. k \in 1 .. P
    BY <1>3
  <2> QED BY <1>2, <1>3, <1>4, <2>1
<1> QED BY <1>3, <1>4, <1>5, <1>6, <1>7 DEF SpacedBounds

\* A word begins where the next unit is not blank, and after a blank where it would have without it.
LEMMA StartAfterBlank ==
  ASSUME NEW text \in Text, NEW i \in 0 .. Len(text), i # Len(text)
  PROVE  /\ Blank(text[i + 1]) => WordStart(text, i) = WordStart(text, i + 1)
         /\ ~Blank(text[i + 1]) => WordStart(text, i) = i
<1> DEFINE L == Len(text)
           w == WordStart(text, i + 1)
<1>1. L \in Nat /\ i + 1 \in 0 .. L
  BY TextType
<1>2. ASSUME Blank(text[i + 1]) PROVE WordStart(text, i) = w
  <2>1. /\ w \in 0 .. L /\ i + 1 <= w /\ (w # L => ~Blank(text[w + 1]))
        /\ \A j \in 0 .. L : i + 1 <= j /\ j < w => Blank(text[j + 1])
    BY <1>1, WordStartIs
  <2> HIDE DEF w
  <2>2. i <= w
    BY <2>1
  <2>3. ASSUME NEW j \in 0 .. L, i <= j, j < w PROVE Blank(text[j + 1])
    <3>1. j = i \/ i + 1 <= j
      BY <2>3
    <3> QED BY <1>2, <2>1, <2>3, <3>1
  <2> QED BY <2>1, <2>2, <2>3, WordStartIs
<1>3. ASSUME ~Blank(text[i + 1]) PROVE WordStart(text, i) = i
  <2>1. i <= i /\ \A j \in 0 .. L : ~(i <= j /\ j < i)
    OBVIOUS
  <2> QED BY <1>3, <2>1, WordStartIs
<1> QED BY <1>2, <1>3

\* Splitting cuts out what is between the bounds.
LEMMA SplitBetween ==
  ASSUME NEW text \in Text, NEW sep \in Text, sep # Empty, Len(text) <= MaxLength
  PROVE  \E P, b, e : PartBounds(text, sep, P, b, e) /\ SplitAt(text, sep) = Between(text, P, b, e)
<1> DEFINE P == PartCount(text, sep)
<1>1. PICK b, e : /\ PartBounds(text, sep, P, b, e)
                  /\ SplitAt(text, sep) = [k \in 1 .. P |-> Slice(text, b[k], e[k])]
  BY SplitParts
<1> HIDE DEF P
<1>2. \A k \in 1 .. P : b[k] \in Nat /\ e[k] \in Nat /\ b[k] <= e[k] /\ e[k] <= Len(text)
  BY <1>1, BoundsType
<1>3. ASSUME NEW k \in 1 .. P PROVE Slice(text, b[k], e[k]) = SubSeq(text, b[k] + 1, e[k])
  <2> DEFINE u == b[k]
             v == e[k]
  <2>1. u \in Nat /\ v \in Nat /\ u <= v /\ v <= Len(text)
    BY <1>2
  <2> HIDE DEF u, v
  <2>2. Slice(text, u, v) = SubSeq(text, u + 1, v)
    BY <2>1, SliceIs
  <2> QED BY <2>2 DEF u, v
<1>4. SplitAt(text, sep) = Between(text, P, b, e)
  BY <1>1, <1>3 DEF Between
<1> QED BY <1>1, <1>4

\* The words of a text are the parts between its blanks that are not empty.
LEMMA SpacedWords ==
  ASSUME NEW text, NEW x, NEW sp, Spacing(text, x, sp), Len(text) <= MaxLength
  PROVE  SplitWords(text) = Without(SplitAt(x, sp), {Empty})
<1> DEFINE L == Len(text)
<1>1. x \in Text /\ Len(x) = L /\ text \in Text /\ L \in Nat /\ sp \in Text /\ sp # Empty /\ Len(x) <= MaxLength
  BY TextType DEF Spacing
<1>2. PICK P, b, e : PartBounds(x, sp, P, b, e) /\ SplitAt(x, sp) = Between(x, P, b, e)
  BY <1>1, SplitBetween
<1> DEFINE r == Between(x, P, b, e)
<1>3. /\ P \in Nat /\ P # 0 /\ b[1] = 0 /\ e[P] = L
      /\ \A k \in 1 .. P :
           /\ b[k] \in 0 .. L /\ e[k] \in 0 .. L /\ b[k] <= e[k]
           /\ \A j \in 0 .. L : b[k] <= j /\ j < e[k] => ~Blank(text[j + 1])
           /\ SubSeq(x, b[k] + 1, e[k]) = SubSeq(text, b[k] + 1, e[k])
      /\ \A k \in 1 .. P - 1 : e[k] # L /\ Blank(text[e[k] + 1]) /\ b[k + 1] = e[k] + 1
  <2>1. PartBounds(x, sp, P, b, e)
    BY <1>2
  <2>2. SpacedBounds(text, x, P, b, e)
    BY <2>1, SpacedParts
  <2> QED BY <2>2 DEF SpacedBounds
<1>4. r \in Seq(Text) /\ Len(r) = P /\ \A k \in 1 .. P : r[k] = SubSeq(text, b[k] + 1, e[k])
  <2>1. r \in Seq(Text) /\ Len(r) = P /\ \A k \in 1 .. P : r[k] = SubSeq(x, b[k] + 1, e[k])
    BY <1>1, <1>2, BetweenType
  <2> HIDE DEF r
  <2> QED BY <1>3, <2>1
<1> HIDE DEF r
<1>5. PICK W, we : WordBounds(text, W, we) /\ SplitWords(text) = Words(text, W, we)
  BY <1>1, SplitsIntoWords
<1> DEFINE ws == Words(text, W, we)
           m(i) == WordStart(text, i)
<1>6. /\ W \in Nat /\ we[0] = 0 /\ m(we[W]) = L
      /\ \A k \in 1 .. W : m(we[k - 1]) # L /\ we[k] = WordEnd(text, m(we[k - 1]))
      /\ ws \in Seq(Text) /\ Len(ws) = W
      /\ \A k \in 1 .. W : ws[k] = SubSeq(text, m(we[k - 1]) + 1, we[k])
  <2>1. WordBounds(text, W, we)
    BY <1>5
  <2>2. /\ W \in Nat /\ we[0] = 0 /\ WordStart(text, we[W]) = Len(text)
        /\ \A k \in 1 .. W : /\ WordStart(text, we[k - 1]) # Len(text)
                             /\ we[k] = WordEnd(text, WordStart(text, we[k - 1]))
        /\ Words(text, W, we) \in Seq(Text) /\ Len(Words(text, W, we)) = W
        /\ \A k \in 1 .. W : Words(text, W, we)[k] = SubSeq(text, WordStart(text, we[k - 1]) + 1, we[k])
    BY <1>1, <2>1, WordsType
  <2> QED BY <2>2
<1>61. \A k \in 0 .. W : m(we[k]) = L => k = W
  <2> SUFFICES ASSUME NEW k \in 0 .. W, k # W PROVE m(we[k]) # L
    OBVIOUS
  <2>1. k + 1 \in 1 .. W /\ (k + 1) - 1 = k
    BY <1>6
  <2>2. m(we[(k + 1) - 1]) # L
    BY <1>6, <2>1
  <2> QED BY <2>1, <2>2
<1> HIDE DEF ws
<1> DEFINE D == {Empty}
<1>7. PICK kept : Keeps(r, D, Text, kept) /\ Without(r, D) = kept[Len(r)]
  <2> HIDE DEF D
  <2> QED BY <1>4, WithoutIs
<1>8. /\ kept \in [0 .. P -> Seq(Text)] /\ kept[0] = << >>
      /\ \A k \in 1 .. P : kept[k] = IF r[k] = Empty THEN kept[k - 1] ELSE Append(kept[k - 1], r[k])
  BY <1>4, <1>7 DEF Keeps
<1> DEFINE q(k) == IF k = 0 THEN 0 ELSE e[k]
           Has(k, j) == /\ Len(kept[k]) = j /\ \A i \in 1 .. j : kept[k][i] = ws[i]
                        /\ m(q(k)) = m(we[j])
           G == {k \in 0 .. P : \E j \in 0 .. W : Has(k, j)}
<1>9. 0 \in G
  <2>1. 0 \in 0 .. P /\ 0 \in 0 .. W
    BY <1>3, <1>6
  <2>2. Len(kept[0]) = 0 /\ \A i \in 1 .. 0 : FALSE
    BY <1>8
  <2>3. m(q(0)) = m(we[0])
    BY <1>6
  <2>4. Has(0, 0)
    BY <2>2, <2>3
  <2> HIDE DEF Has
  <2> QED BY <2>1, <2>4
<1>10. ASSUME NEW k \in 1 .. P PROVE m(b[k]) = m(q(k - 1))
  <2>1. CASE k = 1
    BY <1>3, <2>1
  <2>2. CASE k # 1
    <3> DEFINE h == k - 1
               c == e[h]
    <3>1. h \in 1 .. P - 1 /\ h \in 1 .. P /\ h + 1 = k /\ h # 0
      BY <1>3, <2>2
    <3> HIDE DEF h
    <3>2. c \in 0 .. L /\ c # L /\ Blank(text[c + 1]) /\ b[h + 1] = c + 1
      BY <1>3, <3>1
    <3> HIDE DEF c
    <3>3. WordStart(text, c) = WordStart(text, c + 1)
      BY <1>1, <3>2, StartAfterBlank
    <3>4. q(h) = c
      BY <3>1 DEF c
    <3>5. m(b[k]) = m(q(h))
      BY <3>1, <3>2, <3>3, <3>4
    <3> QED BY <3>5 DEF h
  <2> QED BY <2>1, <2>2
<1>11. ASSUME NEW k \in 1 .. P, k - 1 \in G PROVE k \in G
  <2> DEFINE u == b[k]
             v == e[k]
             z == SubSeq(text, u + 1, v)
             old == kept[k - 1]
             new == kept[k]
  <2>1. k \in 0 .. P /\ k - 1 \in 0 .. P /\ k # 0
    BY <1>3
  <2>2. PICK j \in 0 .. W : Has(k - 1, j)
    BY <1>11
  <2>3. Len(old) = j /\ (\A i \in 1 .. j : old[i] = ws[i]) /\ m(u) = m(we[j])
    BY <1>10, <2>2
  <2>4. /\ u \in 0 .. L /\ v \in 0 .. L /\ u <= v
        /\ \A i \in 0 .. L : u <= i /\ i < v => ~Blank(text[i + 1])
    BY <1>3
  <2>5. (v = L \/ Blank(text[v + 1])) /\ q(k) = v
    <3>1. k = P \/ k \in 1 .. P - 1
      BY <1>3
    <3> QED BY <1>3, <2>1, <3>1
  <2>6. r[k] = z
    BY <1>4
  <2>7. new = (IF z = Empty THEN old ELSE Append(old, z)) /\ old \in Seq(Text)
    BY <1>8, <2>1, <2>6
  <2>8. Has(k, j) <=> Len(new) = j /\ (\A i \in 1 .. j : new[i] = ws[i]) /\ m(v) = m(we[j])
    BY <2>5
  <2>9. Has(k, j + 1) <=> /\ Len(new) = j + 1 /\ \A i \in 1 .. j + 1 : new[i] = ws[i]
                          /\ m(v) = m(we[j + 1])
    BY <2>5
  <2> HIDE DEF u, v, old, new, q, Has
  <2>10. z \in Text /\ Len(z) = v - u
    BY <1>1, <2>4, Cut
  <2> HIDE DEF z
  <2>11. CASE u = v
    <3>1. z = Empty
      BY <2>10, <2>11, <2>4, TextType
    <3>2. new = old
      BY <2>7, <3>1
    <3>3. Has(k, j)
      BY <2>3, <2>8, <2>11, <3>2
    <3> QED BY <2>1, <3>3
  <2>12. CASE u # v
    <3>1. z # Empty
      BY <2>10, <2>12, <2>4, TextType
    <3>2. u # L /\ ~Blank(text[u + 1]) /\ u < v
      BY <2>4, <2>12
    <3>3. m(u) = u
      BY <1>1, <2>4, <3>2, StartAfterBlank
    <3>4. WordEnd(text, u) = v
      <4>1. v # L => Blank(text[v + 1])
        BY <2>5
      <4> QED BY <1>1, <2>4, <4>1, WordEndIs
    <3>5. j # W
      BY <1>6, <2>3, <3>2, <3>3
    <3>6. j + 1 \in 1 .. W /\ j + 1 \in 0 .. W /\ (j + 1) - 1 = j /\ j \in Nat
      BY <1>6, <3>5
    <3> HIDE DEF m
    <3>7. we[j + 1] = v
      <4>1. we[j + 1] = WordEnd(text, m(we[(j + 1) - 1]))
        BY <1>6, <3>6
      <4> QED BY <2>3, <3>3, <3>4, <3>6, <4>1
    <3>8. ws[j + 1] = z
      <4>1. ws[j + 1] = SubSeq(text, m(we[(j + 1) - 1]) + 1, we[j + 1])
        BY <1>6, <3>6
      <4>2. m(we[(j + 1) - 1]) = u
        BY <2>3, <3>3, <3>6
      <4> QED BY <3>7, <4>1, <4>2 DEF z
    <3>9. Len(new) = j + 1 /\ new[j + 1] = z /\ \A i \in 1 .. j : new[i] = old[i]
      <4>1. new = Append(old, z)
        BY <2>7, <3>1
      <4>2. /\ Len(Append(old, z)) = Len(old) + 1 /\ Append(old, z)[Len(old) + 1] = z
            /\ \A i \in 1 .. Len(old) : Append(old, z)[i] = old[i]
        BY <2>7, <2>10, AppendProperties
      <4> QED BY <2>3, <4>1, <4>2
    <3>10. \A i \in 1 .. j + 1 : new[i] = ws[i]
      <4>1. \A i \in 1 .. j + 1 : i = j + 1 \/ i \in 1 .. j
        BY <3>6
      <4> QED BY <2>3, <3>8, <3>9, <4>1
    <3>11. Has(k, j + 1)
      BY <2>9, <3>7, <3>9, <3>10
    <3> QED BY <2>1, <3>6, <3>11
  <2> QED BY <2>11, <2>12
<1>12. 0 .. P \subseteq G
  <2> HIDE DEF G
  <2> QED BY <1>3, <1>9, <1>11, UpInduction
<1>13. P \in 0 .. P /\ P # 0
  BY <1>3
<1>14. PICK j \in 0 .. W : Has(P, j)
  BY <1>12, <1>13
<1>15. q(P) = L /\ L \in 0 .. L
  BY <1>1, <1>3, <1>13
<1>16. m(L) = L
  <2>1. m(L) \in 0 .. L /\ L <= m(L)
    BY <1>1, <1>15, WordStartIs
  <2> HIDE DEF m
  <2> QED BY <1>1, <2>1
<1>17. j = W
  BY <1>14, <1>15, <1>16, <1>61
<1>18. Len(kept[P]) = W /\ \A i \in 1 .. W : kept[P][i] = ws[i]
  BY <1>14, <1>17
<1>19. kept[P] = ws
  <2> DEFINE y == kept[P]
  <2>1. y \in Seq(Text)
    BY <1>8, <1>13
  <2>2. Len(y) = Len(ws) /\ \A i \in 1 .. Len(y) : y[i] = ws[i]
    BY <1>6, <1>18
  <2> HIDE DEF y
  <2>3. y = ws
    BY <1>6, <2>1, <2>2, SeqEqual
  <2> QED BY <2>3 DEF y
<1> QED BY <1>2, <1>4, <1>5, <1>7, <1>19 DEF ws, r

\* Splitting at blanks loses nothing but them, and it is splitting at spaces without the empty parts.
LEMMA SplitsAtBlanks ==
  ASSUME NEW text \in Seq(Nat), Len(text) <= MaxLength, NEW parts, parts = SplitWords(text)
  PROVE  /\ parts \in Seq(Text)
         /\ FlattenSeq(parts) = Without(text, {c \in Int : Blank(c)})
         /\ Empty \notin ToSet(parts)
         /\ parts = SplitWords(Trim(text))
         /\ parts = Without(SplitAt(Spacious(text), <<32>>), {Empty})
<1>1. text \in Text
  BY DEF Text
<1>2. PICK W, e : WordBounds(text, W, e) /\ SplitWords(text) = Words(text, W, e)
  BY <1>1, SplitsIntoWords
<1>3. FlattenSeq(Words(text, W, e)) = Without(text, {c \in Int : Blank(c)})
  BY <1>1, <1>2, WordsFlatten
<1> DEFINE r == Words(text, W, e)
<1>4. r \in Seq(Text) /\ Len(r) = W /\ W \in Nat /\ \A k \in 1 .. W : r[k] # Empty
  BY <1>1, <1>2, WordsType
<1> HIDE DEF r
<1>5. Empty \notin ToSet(r)
  <2>1. DOMAIN r = 1 .. W
    BY <1>4
  <2> QED BY <1>4, <2>1 DEF ToSet
<1>6. SplitWords(Trim(text)) = SplitWords(text)
  BY <1>1, TrimmedWords
<1>7. Spacing(text, Spacious(text), <<32>>)
  BY SpacePlaces
<1>8. SplitWords(text) = Without(SplitAt(Spacious(text), <<32>>), {Empty})
  BY <1>7, SpacedWords
<1> QED BY <1>2, <1>3, <1>4, <1>5, <1>6, <1>8, Zenon DEF r

\* All of it for one sample.
LEMMA TextRejoins ==
  ASSUME NEW text \in Seq(Nat), Len(text) <= MaxLength, NEW sep \in Text, NEW other \in Text
  PROVE  Rejoins(text, sep, other)
<1> DEFINE parts == Split(text, sep)
           AtSeparators == sep # Empty =>
                      /\ Join(sep, parts) = text
                      /\ \A k \in DOMAIN parts : ~Contained(parts[k], sep)
                      /\ Replace(text, sep, other) = Join(other, parts)
                      /\ Len(Replaced(text, sep, other)) = ReplaceLength(text, sep, other)
           AtBlanks == sep = Empty =>
                      /\ FlattenSeq(parts) = Without(text, {c \in Int : Blank(c)})
                      /\ Empty \notin ToSet(parts)
                      /\ parts = Split(Trim(text), sep)
                      /\ parts = Without(Split(Spacious(text), <<32>>), {Empty})
<1>1. text \in Text
  BY DEF Text
<1>2. parts = IF sep = Empty THEN SplitWords(text) ELSE SplitAt(text, sep)
  BY DEF Split
<1>3. Split(Trim(text), Empty) = SplitWords(Trim(text))
  BY DEF Split
<1>4. Split(Spacious(text), <<32>>) = SplitAt(Spacious(text), <<32>>)
  <2>1. <<32>> # Empty
    BY DEF Empty
  <2> QED BY <2>1, Zenon DEF Split
<1> HIDE DEF parts
<1>5. AtSeparators /\ parts \in Seq(Text)
  <2>1. CASE sep = Empty
    BY <1>2, <2>1, SplitsAtBlanks
  <2>2. CASE sep # Empty
    <3>1. parts = SplitAt(text, sep)
      BY <1>2, <2>2
    <3> QED BY <1>1, <2>2, <3>1, SplitsAt
  <2> QED BY <2>1, <2>2
<1>6. AtBlanks
  <2> SUFFICES ASSUME sep = Empty
               PROVE  /\ FlattenSeq(parts) = Without(text, {c \in Int : Blank(c)})
                      /\ Empty \notin ToSet(parts)
                      /\ parts = Split(Trim(text), sep)
                      /\ parts = Without(Split(Spacious(text), <<32>>), {Empty})
    OBVIOUS
  <2>1. parts = SplitWords(text)
    BY <1>2
  <2>2. /\ FlattenSeq(parts) = Without(text, {c \in Int : Blank(c)})
        /\ Empty \notin ToSet(parts)
        /\ parts = SplitWords(Trim(text))
        /\ parts = Without(SplitAt(Spacious(text), <<32>>), {Empty})
    BY <2>1, SplitsAtBlanks
  <2> QED BY <1>3, <1>4, <2>2, Zenon
<1>7. parts # << >> => Len(Joined(other, parts)) = JoinLength(other, parts)
  BY <1>5, JoinWrites
<1>8. \A n \in 0 .. 3 : Replicate(text, n) = Join(Empty, [k \in 1 .. n |-> text])
  <2>1. \A n \in 0 .. 3 : n \in Nat
    OBVIOUS
  <2> QED BY <1>1, <2>1, Replicates, Zenon
<1>9. \A n \in 0 .. Len(text) : Concat(Slice(text, 0, n), Slice(text, n, Len(text))) = text
  BY <1>1, SlicesMeet
<1>10. \A b \in -1 .. Len(text), e \in 0 .. Len(text) + 1 :
         ArraySlice(Shorts(text), b, e, "short", 32).items = Slice(text, b, e)
  BY <1>1, ArraySlices
<1>11. ArrayConcat(Shorts(text), Shorts(other)).items = Join(Empty, <<text, other>>)
  BY <1>1, ArraysJoin
<1> QED BY <1>5, <1>6, <1>7, <1>8, <1>9, <1>10, <1>11, Zenon DEF Rejoins, parts

\* A text sample has a text of letters that is not too long.
LEMMA TextSizes ==
  ASSUME Init, sample.kind = "text"
  PROVE  /\ sample.text \in Seq(Nat) /\ Len(sample.text) <= MaxLength
         /\ sample.sep \in Text /\ sample.other \in Text
<1>1. Letters \in SUBSET Int /\ TextSize \in Nat
  BY SampleAssumption, UnitInt
<1>2. PICK text \in BoundedSeq(Letters, TextSize), sep \in BoundedSeq(Letters, SepSize),
           other \in BoundedSeq(Letters, OtherSize) :
         sample = [kind |-> "text", text |-> text, sep |-> sep, other |-> other]
  BY DEF Init
<1>3. text \in Seq(Letters) /\ Len(text) <= TextSize
  BY <1>1, BoundedText
<1>4. Letters \subseteq Nat
  BY SampleAssumption DEF Unit
<1>5. text \in Seq(Nat)
  BY <1>3, <1>4, SeqOfMore
<1>6. Len(text) <= MaxLength
  <2>1. Len(text) \in Nat /\ TextSize <= MaxLength /\ MaxLength \in Nat
    BY <1>5, SampleAssumption, LengthAssumption
  <2> QED BY <1>1, <1>3, <2>1
<1>7. sample.sep \in Text /\ sample.other \in Text
  BY TextSamples
<1> QED BY <1>2, <1>5, <1>6, <1>7

(* Splitting loses nothing, joining puts it back, replacing is splitting   *)
(* and joining, slices, trimmed and replicated texts agree with both, and  *)
(* each second pass writes as much as the first has measured, for samples  *)
(* of every size up to the longest text and of every unit                  *)
(* (embedded_runtime.c:2749-2963, 3292-3346).                              *)
THEOREM SplitsKeep == Spec => []SplitsRejoin
<1>1. Init => SplitsRejoin
  BY TextSizes, TextRejoins DEF SplitsRejoin
<1> QED BY <1>1, SampleStays, PTL
=============================================================================
