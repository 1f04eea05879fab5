-------------------------- MODULE FrameStacksProof --------------------------
(***************************************************************************)
(* For any contexts, any sizes of root frames and any depth of the C       *)
(* stacks, the chains of FrameStacks run through exactly the frames that   *)
(* are on the stack, and a collection is marked active exactly while it is *)
(* there.                                                                  *)
(*                                                                         *)
(* The argument: everything the runtime keeps is a function of the C stack.*)
(* ContextOf(s) is the context that the stack s calls for, and the frame at*)
(* address a was filled from ContextOf of the stack below a (Before).  A   *)
(* push changes ContextOf as root_frame_enter and exception_enter change   *)
(* the context (ContextPushed), and cutting the stack at a handler leaves  *)
(* the very stack its snapshot was taken from (Resumed).  The inductive    *)
(* invariant IInv adds to that the boundary of the collection: the handler *)
(* on top when it began.                                                   *)
(*                                                                         *)
(* What is not first order is reduced to SetInduction: the slot totals are *)
(* a recursive function, and the last frame of a chain a maximum.          *)
(***************************************************************************)
EXTENDS FrameStacks, FiniteSetTheorems, SequenceTheorems, TLAPS

-----------------------------------------------------------------------------
\* A set of naturals closed under successor holds them all.
LEMMA SetInduction ==
  ASSUME NEW S, 0 \in S, \A n \in Nat : n \in S => n + 1 \in S
  PROVE  Nat \subseteq S
<1> SUFFICES ASSUME Nat \ S # {} PROVE FALSE
  OBVIOUS
<1> DEFINE Less == {p \in Nat \X Nat : p[1] < p[2]}
<1>1. PICK x \in Nat \ S : \A y \in Nat \ S : <<y, x>> \notin Less
  <2>1. IsWellFoundedOn(Less, Nat)
    BY NatLessThanWellFounded DEF OpToRel
  <2> HIDE DEF Less
  <2> QED BY <2>1, WFMin
<1>2. x - 1 \in Nat \ S /\ <<x - 1, x>> \in Less
  OBVIOUS
<1> QED BY <1>1, <1>2

\* What a function of running totals satisfies.
IsTotal(g, w, n) ==
    /\ g \in [0 .. n -> Nat]
    /\ g[0] = 0
    /\ \A i \in 1 .. n : g[i] = g[i - 1] + w[i]

\* The recursive function Totals exists, and computes running totals.
LEMMA TotalsDef ==
  ASSUME NEW n \in Nat, NEW w \in [1 .. n -> Nat]
  PROVE  IsTotal(Totals(w, n), w, n)
<1> DEFINE S == {k \in Nat : k <= n => \E g : IsTotal(g, w, k)}
<1>1. 0 \in S
  <2>1. IsTotal([i \in 0 .. 0 |-> 0], w, 0)
    BY DEF IsTotal
  <2> QED BY <2>1
<1>2. ASSUME NEW k \in Nat, k \in S PROVE k + 1 \in S
  <2> SUFFICES ASSUME k + 1 <= n PROVE \E g : IsTotal(g, w, k + 1)
    OBVIOUS
  <2>1. PICK g : IsTotal(g, w, k)
    BY <1>2
  <2> DEFINE h == [i \in 0 .. k + 1 |-> IF i <= k THEN g[i] ELSE g[k] + w[k + 1]]
  <2>2. IsTotal(h, w, k + 1)
    <3>1. h \in [0 .. k + 1 -> Nat]
      BY <2>1 DEF IsTotal
    <3>2. h[0] = 0
      BY <2>1 DEF IsTotal
    <3>3. ASSUME NEW i \in 1 .. k + 1 PROVE h[i] = h[i - 1] + w[i]
      <4>1. i \in Int /\ i - 1 \in 0 .. k + 1 /\ i - 1 <= k
        OBVIOUS
      <4>2. h[i - 1] = g[i - 1] /\ h[i] = IF i <= k THEN g[i] ELSE g[k] + w[k + 1]
        BY <4>1
      <4>3. CASE i <= k
        BY <2>1, <4>2, <4>3 DEF IsTotal
      <4>4. CASE i = k + 1
        BY <4>2, <4>4
      <4> QED BY <4>3, <4>4
    <3> HIDE DEF h
    <3> QED BY <3>1, <3>2, <3>3 DEF IsTotal
  <2> QED BY <2>2
<1>3. n \in S
  <2> HIDE DEF S
  <2> QED BY <1>1, <1>2, SetInduction
<1>4. PICK g : IsTotal(g, w, n)
  BY <1>3
<1> DEFINE Eq(f) == f = [i \in 0 .. n |-> IF i = 0 THEN 0 ELSE f[i - 1] + w[i]]
<1>5. Eq(g)
  BY <1>4 DEF IsTotal
<1>6. Totals(w, n) = CHOOSE f : Eq(f)
  BY DEF Totals
<1>7. Eq(Totals(w, n))
  BY <1>5, <1>6
<1> QED
  <2> DEFINE t == Totals(w, n)
  <2>1. t = [i \in 0 .. n |-> IF i = 0 THEN 0 ELSE t[i - 1] + w[i]]
    BY <1>7
  <2> HIDE DEF t
  <2>2. t[0] = 0 /\ \A i \in 1 .. n : t[i] = t[i - 1] + w[i]
    BY <2>1
  <2> DEFINE N == {k \in Nat : k <= n => t[k] \in Nat}
  <2>3. 0 \in N
    BY <2>2
  <2>4. ASSUME NEW k \in Nat, k \in N PROVE k + 1 \in N
    <3>1. CASE k + 1 <= n
      <4>1. t[k] \in Nat /\ w[k + 1] \in Nat /\ t[k + 1] = t[k] + w[k + 1]
        BY <2>2, <2>4, <3>1
      <4> QED BY <4>1
    <3> QED BY <3>1
  <2>5. Nat \subseteq N
    <3> HIDE DEF N
    <3> QED BY <2>3, <2>4, SetInduction
  <2>6. \A k \in 0 .. n : t[k] \in Nat
    BY <2>5
  <2>7. t \in [0 .. n -> Nat]
    BY <2>1, <2>6
  <2> QED BY <2>2, <2>7 DEF IsTotal, t

(* Totals of the same weights agree.                                       *)
LEMMA TotalsAgree ==
  ASSUME NEW n \in Nat, NEW g, NEW v, NEW m \in Nat, NEW h, NEW w,
         IsTotal(g, v, n), IsTotal(h, w, m),
         NEW k \in Nat, k <= n, k <= m, \A i \in 1 .. k : v[i] = w[i]
  PROVE  g[k] = h[k]
<1> DEFINE S == {i \in Nat : i <= k => g[i] = h[i]}
<1>1. 0 \in S
  BY DEF IsTotal
<1>2. ASSUME NEW i \in Nat, i \in S PROVE i + 1 \in S
  <2> SUFFICES ASSUME i + 1 <= k PROVE g[i + 1] = h[i + 1]
    OBVIOUS
  <2>1. g[i] = h[i] /\ v[i + 1] = w[i + 1]
    BY <1>2
  <2>2. g[i + 1] = g[i] + v[i + 1] /\ h[i + 1] = h[i] + w[i + 1]
    BY DEF IsTotal
  <2> QED BY <2>1, <2>2
<1>3. k \in S
  <2> HIDE DEF S
  <2> QED BY <1>1, <1>2, SetInduction
<1> QED BY <1>3

-----------------------------------------------------------------------------
\* An upper bound in the set is its maximum.
LEMMA MaxIs ==
  ASSUME NEW S \in SUBSET Int, NEW m \in S, \A x \in S : x <= m
  PROVE  Max(S) = m
<1>1. \A x \in S : x \in Int
  OBVIOUS
<1>2. \A y \in S : m >= y
  BY <1>1
<1>3. ASSUME NEW z \in S, \A y \in S : z >= y PROVE z = m
  <2>1. z >= m /\ z <= m /\ z \in Int /\ m \in Int
    BY <1>1, <1>3
  <2> QED BY <2>1
<1>4. Max(S) \in S /\ \A y \in S : Max(S) >= y
  BY <1>2 DEF Max
<1> QED BY <1>3, <1>4

\* A non-empty set of addresses has a maximum.
LEMMA MaxExists ==
  ASSUME NEW n \in Nat, NEW S \in SUBSET (1 .. n), S # {}
  PROVE  Max(S) \in S /\ \A x \in S : x <= Max(S)
<1> DEFINE N == {k \in Nat : \A T \in SUBSET (1 .. k) :
                                T # {} => \E m \in T : \A x \in T : x <= m}
<1>1. 0 \in N
  <2>1. \A T \in SUBSET (1 .. 0) : T = {}
    <3>1. \A x : x \notin 1 .. 0
      OBVIOUS
    <3> QED BY <3>1
  <2> QED BY <2>1
<1>2. ASSUME NEW k \in Nat, k \in N PROVE k + 1 \in N
  <2> SUFFICES ASSUME NEW T \in SUBSET (1 .. k + 1), T # {}
               PROVE  \E m \in T : \A x \in T : x <= m
    OBVIOUS
  <2>1. CASE k + 1 \in T
    BY <2>1
  <2>2. CASE k + 1 \notin T
    <3>1. T \in SUBSET (1 .. k)
      BY <2>2
    <3> QED BY <1>2, <3>1
  <2> QED BY <2>1, <2>2
<1>3. n \in N
  <2> HIDE DEF N
  <2> QED BY <1>1, <1>2, SetInduction
<1>4. PICK m \in S : \A x \in S : x <= m
  BY <1>3
<1>5. Max(S) = m
  BY <1>4, MaxIs
<1> QED BY <1>4, <1>5

\* Of the frames of a kind, one pushed last is the last.
LEMMA BelowPushed ==
  ASSUME NEW n \in Nat, NEW S \in SUBSET (1 .. n)
  PROVE  Below(S \cup {n + 1}, n + 2) = n + 1
<1> DEFINE B == {b \in S \cup {n + 1} : b < n + 2}
<1>1. \A b \in S \cup {n + 1} : b \in Int /\ b <= n + 1 /\ b < n + 2
  <2>1. \A b \in S : b \in 1 .. n
    OBVIOUS
  <2> QED BY <2>1
<1>2. B = S \cup {n + 1}
  BY <1>1
<1>3. Max(S \cup {n + 1}) = n + 1
  BY <1>1, MaxIs
<1> QED BY <1>2, <1>3 DEF Below

\* The last frame of a kind is one of them.
LEMMA BelowLast ==
  ASSUME NEW n \in Nat, NEW S \in SUBSET (1 .. n), Below(S, n + 1) # Nil
  PROVE  Below(S, n + 1) \in S /\ \A x \in S : x <= Below(S, n + 1)
<1>1. {b \in S : b < n + 1} = S
  <2>1. \A b \in S : b \in 1 .. n
    OBVIOUS
  <2>2. \A b \in S : b < n + 1
    BY <2>1
  <2> QED BY <2>2
<1>2. S # {} /\ Below(S, n + 1) = Max(S)
  BY <1>1 DEF Below
<1> QED BY <1>2, MaxExists

-----------------------------------------------------------------------------
Kinds == {"root", "try", "collect"}
Activation == [kind : Kinds, slots : Nat]
Stacks == Seq(Activation)

Of(s, kind) == {a \in 1 .. Len(s) : s[a].kind = kind}
Weights(s) == [a \in 1 .. Len(s) |-> IF s[a].kind = "root" THEN s[a].slots ELSE 0]

ContextOf(s) == [roots |-> Below(Of(s, "root"), Len(s) + 1),
                 rootTotal |-> Cardinality(Of(s, "root")),
                 slotTotal |-> SlotsOf(s),
                 tries |-> Below(Of(s, "try"), Len(s) + 1),
                 depth |-> Cardinality(Of(s, "try"))]

Before(s, a) == ContextOf(SubSeq(s, 1, a - 1))

\* Types of a stack and of its activations.
LEMMA StackFacts ==
  ASSUME NEW s \in Stacks
  PROVE  /\ Len(s) \in Nat
         /\ \A a \in 1 .. Len(s) : s[a] \in Activation
         /\ \A kind : Of(s, kind) \in SUBSET (1 .. Len(s))
BY DEF Stacks, Of

\* A push leaves the activations below alone.
LEMMA PushedStack ==
  ASSUME NEW s \in Stacks, NEW e \in Activation
  PROVE  /\ Append(s, e) \in Stacks
         /\ Len(Append(s, e)) = Len(s) + 1
         /\ \A a \in 1 .. Len(s) : Append(s, e)[a] = s[a]
         /\ Append(s, e)[Len(s) + 1] = e
BY DEF Stacks

\* A cut leaves the activations below alone.
LEMMA CutStack ==
  ASSUME NEW s \in Stacks, NEW k \in 0 .. Len(s)
  PROVE  /\ SubSeq(s, 1, k) \in Stacks
         /\ Len(SubSeq(s, 1, k)) = k
         /\ \A a \in 1 .. k : SubSeq(s, 1, k)[a] = s[a]
<1>1. Len(s) \in Nat /\ \A i \in 1 .. k : s[i] \in Activation
  BY StackFacts
<1>2. SubSeq(s, 1, k) \in Seq(Activation)
      /\ Len(SubSeq(s, 1, k)) = (IF 1 <= k THEN k - 1 + 1 ELSE 0)
      /\ \A i \in 1 .. k - 1 + 1 : SubSeq(s, 1, k)[i] = s[1 + i - 1]
  BY <1>1, SubSeqProperties
<1> QED BY <1>1, <1>2 DEF Stacks

(* Two stacks that agree up to k have the same activations there.          *)
LEMMA SamePrefix ==
  ASSUME NEW s \in Stacks, NEW t \in Stacks, Len(s) = Len(t),
         \A a \in 1 .. Len(s) : s[a] = t[a]
  PROVE  s = t
BY SeqEqual DEF Stacks

\* Cutting below a pushed activation does not see it.
LEMMA CutOfPushed ==
  ASSUME NEW s \in Stacks, NEW e \in Activation, NEW k \in 0 .. Len(s)
  PROVE  SubSeq(Append(s, e), 1, k) = SubSeq(s, 1, k)
<1>1. Len(s) \in Nat /\ k \in 0 .. Len(Append(s, e)) /\ Append(s, e) \in Stacks
  BY StackFacts, PushedStack
<1> QED BY <1>1, CutStack, PushedStack, SamePrefix

\* A shorter cut does not see a longer one.
LEMMA CutOfCut ==
  ASSUME NEW s \in Stacks, NEW k \in 0 .. Len(s), NEW j \in 0 .. k
  PROVE  SubSeq(SubSeq(s, 1, k), 1, j) = SubSeq(s, 1, j)
<1>1. Len(s) \in Nat /\ j \in 0 .. Len(s) /\ SubSeq(s, 1, k) \in Stacks
      /\ j \in 0 .. Len(SubSeq(s, 1, k))
  BY StackFacts, CutStack
<1> QED BY <1>1, CutStack, SamePrefix

\* Cutting at the top cuts nothing.
LEMMA WholeStack ==
  ASSUME NEW s \in Stacks
  PROVE  SubSeq(s, 1, Len(s)) = s
<1>1. Len(s) \in Nat /\ Len(s) \in 0 .. Len(s)
  BY StackFacts
<1> QED BY <1>1, CutStack, SamePrefix

\* A stack is its front with its top pushed.
LEMMA TopOfStack ==
  ASSUME NEW s \in Stacks, Len(s) # 0
  PROVE  LET front == SubSeq(s, 1, Len(s) - 1) IN
         /\ front \in Stacks /\ Len(front) = Len(s) - 1
         /\ s[Len(s)] \in Activation
         /\ s = Append(front, s[Len(s)])
<1> DEFINE front == SubSeq(s, 1, Len(s) - 1)
<1>1. Len(s) \in Nat /\ Len(s) \in 1 .. Len(s) /\ Len(s) - 1 \in 0 .. Len(s)
  BY StackFacts
<1>2. /\ front \in Stacks /\ Len(front) = Len(s) - 1
      /\ \A a \in 1 .. Len(s) - 1 : front[a] = s[a]
  BY <1>1, CutStack
<1>3. s[Len(s)] \in Activation
  BY <1>1, StackFacts
<1> HIDE DEF front
<1>4. /\ Append(front, s[Len(s)]) \in Stacks
      /\ Len(Append(front, s[Len(s)])) = Len(s)
      /\ \A a \in 1 .. Len(s) : Append(front, s[Len(s)])[a] = s[a]
  <2>1. \A a \in 1 .. Len(s) : a \in 1 .. Len(s) - 1 \/ a = Len(s)
    BY <1>1
  <2> QED BY <1>1, <1>2, <1>3, <2>1, PushedStack
<1> QED BY <1>2, <1>3, <1>4, SamePrefix DEF front

-----------------------------------------------------------------------------
\* The frames of one kind after a push.
LEMMA OfPushed ==
  ASSUME NEW s \in Stacks, NEW e \in Activation, NEW kind
  PROVE  Of(Append(s, e), kind) =
            IF e.kind = kind THEN Of(s, kind) \cup {Len(s) + 1} ELSE Of(s, kind)
<1>1. Len(s) \in Nat
  BY StackFacts
<1>2. \A a : a \in 1 .. Len(s) + 1 <=> a \in 1 .. Len(s) \/ a = Len(s) + 1
  BY <1>1
<1> QED BY <1>1, <1>2, PushedStack DEF Of

\* The frames of one kind after a cut.
LEMMA OfCut ==
  ASSUME NEW s \in Stacks, NEW k \in 0 .. Len(s), NEW kind
  PROVE  Of(SubSeq(s, 1, k), kind) = {a \in Of(s, kind) : a < k + 1}
<1>1. Len(s) \in Nat
  BY StackFacts
<1>2. \A a : a \in 1 .. k <=> a \in 1 .. Len(s) /\ a < k + 1
  BY <1>1
<1> QED BY <1>2, CutStack DEF Of

\* The frames of one kind can be counted.
LEMMA OfFinite ==
  ASSUME NEW s \in Stacks, NEW kind
  PROVE  IsFiniteSet(Of(s, kind)) /\ Cardinality(Of(s, kind)) \in Nat
<1>1. Len(s) \in Nat /\ Of(s, kind) \in SUBSET (1 .. Len(s))
  BY StackFacts
<1>2. IsFiniteSet(1 .. Len(s))
  BY <1>1, FS_Interval
<1>3. IsFiniteSet(Of(s, kind))
  BY <1>1, <1>2, FS_Subset
<1> QED BY <1>3, FS_CardinalityType

\* A pushed root frame adds its slots, another activation none.
LEMMA SlotsPushed ==
  ASSUME NEW s \in Stacks, NEW e \in Activation
  PROVE  /\ SlotsOf(s) \in Nat
         /\ SlotsOf(Append(s, e)) =
                SlotsOf(s) + IF e.kind = "root" THEN e.slots ELSE 0
<1> DEFINE n == Len(s)
           t == Append(s, e)
<1>1. /\ n \in Nat /\ t \in Stacks /\ Len(t) = n + 1
      /\ \A a \in 1 .. n : t[a] = s[a]
      /\ t[n + 1] = e
  BY StackFacts, PushedStack
<1>2. \A u \in Stacks : Weights(u) \in [1 .. Len(u) -> Nat]
  BY StackFacts DEF Weights, Activation
<1> DEFINE g == Totals(Weights(s), n)
           h == Totals(Weights(t), n + 1)
<1>3. IsTotal(g, Weights(s), n) /\ IsTotal(h, Weights(t), n + 1)
  <2> HIDE DEF t
  <2>1. Weights(s) \in [1 .. n -> Nat] /\ Weights(t) \in [1 .. n + 1 -> Nat]
    <3>1. Weights(s) \in [1 .. Len(s) -> Nat] /\ Weights(t) \in [1 .. Len(t) -> Nat]
      BY <1>1, <1>2, Zenon
    <3> QED BY <3>1, <1>1, Zenon
  <2>2. IsTotal(Totals(Weights(s), n), Weights(s), n)
    BY <1>1, <2>1, TotalsDef
  <2>3. IsTotal(Totals(Weights(t), n + 1), Weights(t), n + 1)
    <3>1. n + 1 \in Nat
      BY <1>1
    <3> QED BY <3>1, <2>1, TotalsDef, Zenon
  <2> QED BY <2>2, <2>3
<1>4. \A i \in 1 .. n : Weights(s)[i] = Weights(t)[i]
  <2> HIDE DEF t
  <2> QED BY <1>1 DEF Weights
<1>5. Weights(t)[n + 1] = IF e.kind = "root" THEN e.slots ELSE 0
  <2> HIDE DEF t
  <2>1. n + 1 \in 1 .. Len(t)
    BY <1>1
  <2> QED BY <1>1, <2>1 DEF Weights
<1> HIDE DEF g, h, t
<1>6. g[n] = h[n]
  BY <1>1, <1>3, <1>4, TotalsAgree
<1>7. h[n + 1] = h[n] + Weights(t)[n + 1]
  BY <1>1, <1>3 DEF IsTotal
<1>8. g[n] \in Nat
  BY <1>1, <1>3 DEF IsTotal
<1>9. SlotsOf(s) = g[n] /\ SlotsOf(t) = h[n + 1]
  BY <1>1 DEF SlotsOf, Weights, g, h
<1> QED BY <1>5, <1>6, <1>7, <1>8, <1>9 DEF t

-----------------------------------------------------------------------------
\* The last frame of one kind after a push.
LEMMA BelowPushedOf ==
  ASSUME NEW s \in Stacks, NEW e \in Activation, NEW kind
  PROVE  Below(Of(Append(s, e), kind), Len(s) + 2) =
            IF e.kind = kind THEN Len(s) + 1 ELSE Below(Of(s, kind), Len(s) + 1)
<1>1. Len(s) \in Nat /\ Of(s, kind) \in SUBSET (1 .. Len(s))
  BY StackFacts
<1>2. CASE e.kind = kind
  BY <1>1, <1>2, OfPushed, BelowPushed
<1>3. CASE e.kind # kind
  <2>1. Of(Append(s, e), kind) = Of(s, kind)
    BY <1>3, OfPushed
  <2>2. \A b \in Of(s, kind) : b \in 1 .. Len(s)
    BY <1>1
  <2>3. {b \in Of(s, kind) : b < Len(s) + 2} = {b \in Of(s, kind) : b < Len(s) + 1}
    BY <1>1, <2>2
  <2> QED BY <1>3, <2>1, <2>3 DEF Below
<1> QED BY <1>2, <1>3

\* The number of frames of one kind after a push.
LEMMA CountPushed ==
  ASSUME NEW s \in Stacks, NEW e \in Activation, NEW kind
  PROVE  Cardinality(Of(Append(s, e), kind)) =
            IF e.kind = kind THEN Cardinality(Of(s, kind)) + 1
                             ELSE Cardinality(Of(s, kind))
<1>1. Len(s) \in Nat /\ Of(s, kind) \in SUBSET (1 .. Len(s))
  BY StackFacts
<1>2. Len(s) + 1 \notin Of(s, kind)
  <2>1. \A b \in Of(s, kind) : b \in 1 .. Len(s)
    BY <1>1
  <2> QED BY <1>1, <2>1
<1>3. IsFiniteSet(Of(s, kind))
  BY OfFinite
<1>4. Cardinality(Of(s, kind) \cup {Len(s) + 1}) = Cardinality(Of(s, kind)) + 1
  BY <1>2, <1>3, FS_AddElement
<1>5. Of(Append(s, e), kind) =
          IF e.kind = kind THEN Of(s, kind) \cup {Len(s) + 1} ELSE Of(s, kind)
  BY OfPushed
<1> QED BY <1>4, <1>5, Zenon

\* The context after root_frame_enter and exception_enter, field by field.
LEMMA EntersContext ==
  ASSUME NEW x, NEW a, NEW n,
         x = [roots |-> x.roots, rootTotal |-> x.rootTotal, slotTotal |-> x.slotTotal,
              tries |-> x.tries, depth |-> x.depth]
  PROVE  /\ WithRoot(x, a, n) =
                [roots |-> a, rootTotal |-> x.rootTotal + 1, slotTotal |-> x.slotTotal + n,
                 tries |-> x.tries, depth |-> x.depth]
         /\ WithTry(x, a) =
                [roots |-> x.roots, rootTotal |-> x.rootTotal, slotTotal |-> x.slotTotal,
                 tries |-> a, depth |-> x.depth + 1]
<1> DEFINE y == [x EXCEPT !.roots = a]
           z == [y EXCEPT !.rootTotal = x.rootTotal + 1]
           v == [x EXCEPT !.tries = a]
<1>1. y = [roots |-> a, rootTotal |-> x.rootTotal, slotTotal |-> x.slotTotal,
           tries |-> x.tries, depth |-> x.depth]
  OBVIOUS
<1>2. z = [roots |-> a, rootTotal |-> x.rootTotal + 1, slotTotal |-> x.slotTotal,
           tries |-> x.tries, depth |-> x.depth]
  <2> HIDE DEF y
  <2> QED BY <1>1
<1>3. [z EXCEPT !.slotTotal = x.slotTotal + n] =
          [roots |-> a, rootTotal |-> x.rootTotal + 1, slotTotal |-> x.slotTotal + n,
           tries |-> x.tries, depth |-> x.depth]
  <2> HIDE DEF z
  <2> QED BY <1>2
<1>4. v = [roots |-> x.roots, rootTotal |-> x.rootTotal, slotTotal |-> x.slotTotal,
           tries |-> a, depth |-> x.depth]
  OBVIOUS
<1>5. [v EXCEPT !.depth = x.depth + 1] =
          [roots |-> x.roots, rootTotal |-> x.rootTotal, slotTotal |-> x.slotTotal,
           tries |-> a, depth |-> x.depth + 1]
  <2> HIDE DEF v
  <2> QED BY <1>4
<1>6. WithRoot(x, a, n) = [z EXCEPT !.slotTotal = x.slotTotal + n]
      /\ WithTry(x, a) = [v EXCEPT !.depth = x.depth + 1]
  BY DEF WithRoot, WithTry
<1> QED BY <1>3, <1>5, <1>6

\* A push changes what the stack calls for as the runtime changes the context.
LEMMA ContextPushed ==
  ASSUME NEW s \in Stacks, NEW e \in Activation
  PROVE  /\ e.kind = "root" =>
                ContextOf(Append(s, e)) = WithRoot(ContextOf(s), Len(s) + 1, e.slots)
         /\ e.kind = "try" =>
                ContextOf(Append(s, e)) = WithTry(ContextOf(s), Len(s) + 1)
         /\ e.kind = "collect" => ContextOf(Append(s, e)) = ContextOf(s)
<1>1. Len(s) \in Nat /\ Len(Append(s, e)) = Len(s) + 1 /\ Len(s) + 1 + 1 = Len(s) + 2
  BY StackFacts, PushedStack
<1>2. \A kind : Cardinality(Of(s, kind)) \in Nat
  BY OfFinite
<1>3. SlotsOf(s) \in Nat
      /\ SlotsOf(Append(s, e)) = SlotsOf(s) + IF e.kind = "root" THEN e.slots ELSE 0
  BY SlotsPushed
<1> DEFINE x == ContextOf(s)
<1>. x = [roots |-> x.roots, rootTotal |-> x.rootTotal, slotTotal |-> x.slotTotal,
          tries |-> x.tries, depth |-> x.depth]
  BY DEF ContextOf
<1>4. CASE e.kind = "root"
  <2>1. WithRoot(x, Len(s) + 1, e.slots) =
           [roots |-> Len(s) + 1, rootTotal |-> x.rootTotal + 1,
            slotTotal |-> x.slotTotal + e.slots, tries |-> x.tries, depth |-> x.depth]
    <3> HIDE DEF x
    <3> QED BY EntersContext
  <2> QED BY <1>1, <1>2, <1>3, <1>4, <2>1, BelowPushedOf, CountPushed DEF ContextOf
<1>5. CASE e.kind = "try"
  <2>1. WithTry(x, Len(s) + 1) =
           [roots |-> x.roots, rootTotal |-> x.rootTotal, slotTotal |-> x.slotTotal,
            tries |-> Len(s) + 1, depth |-> x.depth + 1]
    <3> HIDE DEF x
    <3> QED BY EntersContext
  <2> QED BY <1>1, <1>2, <1>3, <1>5, <2>1, BelowPushedOf, CountPushed DEF ContextOf
<1>6. CASE e.kind = "collect"
  BY <1>1, <1>2, <1>3, <1>6, BelowPushedOf, CountPushed DEF ContextOf
<1> QED BY <1>4, <1>5, <1>6

(* What the prefix below a says of the frames of one kind.                 *)
LEMMA BelowCut ==
  ASSUME NEW s \in Stacks, NEW k \in 0 .. Len(s), NEW kind
  PROVE  Below(Of(SubSeq(s, 1, k), kind), k + 1) = Below(Of(s, kind), k + 1)
<1>1. {b \in {a \in Of(s, kind) : a < k + 1} : b < k + 1}
        = {a \in Of(s, kind) : a < k + 1}
  OBVIOUS
<1> QED BY <1>1, OfCut DEF Below

(* The handler on top is an activation, the one every later activation     *)
(* sees below it, and it has one handler fewer below it.                   *)
LEMMA TopHandler ==
  ASSUME NEW s \in Stacks, ContextOf(s).tries # Nil
  PROVE  LET a == ContextOf(s).tries IN
         /\ a \in 1 .. Len(s) /\ s[a].kind = "try"
         /\ Before(s, a).depth = ContextOf(s).depth - 1
         /\ \A k \in a + 1 .. Len(s) + 1 : Before(s, k).tries = a
<1> DEFINE a == ContextOf(s).tries
           tries == Of(s, "try")
<1>1. Len(s) \in Nat /\ tries \in SUBSET (1 .. Len(s))
  BY StackFacts
<1>2. a = Below(tries, Len(s) + 1)
  BY DEF ContextOf
<1>3. a \in tries /\ \A x \in tries : x <= a
  <2> HIDE DEF tries
  <2> QED BY <1>1, <1>2, BelowLast
<1>4. a \in 1 .. Len(s) /\ s[a].kind = "try"
  BY <1>3 DEF Of
<1>5. Before(s, a).depth = ContextOf(s).depth - 1
  <2> HIDE DEF a
  <2>1. a - 1 \in 0 .. Len(s) /\ a - 1 + 1 = a
    BY <1>1, <1>4
  <2>2. Of(SubSeq(s, 1, a - 1), "try") = {x \in tries : x < a}
    BY <2>1, OfCut
  <2>3. \A x \in tries : x \in Int
    BY <1>1
  <2>4. {x \in tries : x < a} = tries \ {a}
    <3>1. \A x \in tries : x < a <=> x # a
      BY <1>3, <1>4, <2>3
    <3> HIDE DEF tries
    <3> QED BY <3>1
  <2>5. IsFiniteSet(tries)
    BY OfFinite
  <2>6. Cardinality(tries \ {a}) = Cardinality(tries) - 1
    <3> HIDE DEF tries
    <3> QED BY <1>3, <2>5, FS_RemoveElement
  <2> QED BY <2>2, <2>4, <2>6 DEF Before, ContextOf
<1>6. ASSUME NEW k \in a + 1 .. Len(s) + 1 PROVE Before(s, k).tries = a
  <2> HIDE DEF a
  <2>1. k - 1 \in 0 .. Len(s) /\ k - 1 + 1 = k /\ k \in Int /\ a < k /\ Len(s) \in Nat
    BY <1>1, <1>4
  <2>2. Before(s, k).tries = Below(tries, k)
    <3>1. Len(SubSeq(s, 1, k - 1)) = k - 1
      BY <2>1, CutStack
    <3> QED BY <2>1, <3>1, BelowCut DEF Before, ContextOf
  <2>3. \A x \in tries : x \in Int /\ x < k /\ x < Len(s) + 1
    <3>1. \A x \in tries : x \in 1 .. Len(s) /\ x <= a
      BY <1>1, <1>3
    <3> QED BY <1>4, <2>1, <3>1
  <2>4. {x \in tries : x < k} = {x \in tries : x < Len(s) + 1}
    BY <2>3
  <2> QED BY <1>2, <2>2, <2>4 DEF Below
<1> QED BY <1>4, <1>5, <1>6

-----------------------------------------------------------------------------
Recorded(s, f) ==
    \A a \in 1 .. Len(s) :
        /\ s[a].kind = "root" => f[a] = RootFrame(Before(s, a), s[a].slots)
        /\ s[a].kind = "try" => f[a] = TryFrame(Before(s, a))

\* A push leaves what was below an activation alone.
LEMMA BeforePushed ==
  ASSUME NEW s \in Stacks, NEW e \in Activation, NEW a \in 1 .. Len(s) + 1
  PROVE  Before(Append(s, e), a) = Before(s, a)
<1>1. a - 1 \in 0 .. Len(s)
  BY StackFacts
<1> QED BY <1>1, CutOfPushed DEF Before

\* A cut leaves what was below an activation alone.
LEMMA BeforeCut ==
  ASSUME NEW s \in Stacks, NEW k \in 0 .. Len(s), NEW a \in 1 .. k
  PROVE  Before(SubSeq(s, 1, k), a) = Before(s, a)
<1>1. a - 1 \in 0 .. k
  BY StackFacts
<1> QED BY <1>1, CutOfCut DEF Before

\* Below the next activation is the whole stack.
LEMMA BeforeNext ==
  ASSUME NEW s \in Stacks
  PROVE  Before(s, Len(s) + 1) = ContextOf(s)
<1>1. Len(s) + 1 - 1 = Len(s)
  BY StackFacts
<1>2. SubSeq(s, 1, Len(s) + 1 - 1) = s
  BY <1>1, WholeStack
<1>3. Before(s, Len(s) + 1) = ContextOf(SubSeq(s, 1, Len(s) + 1 - 1))
  BY DEF Before
<1> QED BY <1>2, <1>3, Zenon

\* Frames stay exact when one is pushed and filled from the context.
LEMMA RecordedPushed ==
  ASSUME NEW s \in Stacks, NEW e \in Activation, NEW f, NEW g, Recorded(s, f),
         \A a \in 1 .. Len(s) : g[a] = f[a],
         e.kind = "root" => g[Len(s) + 1] = RootFrame(ContextOf(s), e.slots),
         e.kind = "try" => g[Len(s) + 1] = TryFrame(ContextOf(s))
  PROVE  Recorded(Append(s, e), g)
<1> DEFINE t == Append(s, e)
<1>1. /\ Len(s) \in Nat /\ Len(t) = Len(s) + 1
      /\ \A a \in 1 .. Len(s) : t[a] = s[a]
      /\ t[Len(s) + 1] = e
  BY StackFacts, PushedStack
<1>2. \A a \in 1 .. Len(s) + 1 : Before(t, a) = Before(s, a)
  BY BeforePushed
<1>3. Before(s, Len(s) + 1) = ContextOf(s)
  BY BeforeNext
<1>4. ASSUME NEW a \in 1 .. Len(s) + 1
      PROVE  /\ t[a].kind = "root" => g[a] = RootFrame(Before(t, a), t[a].slots)
             /\ t[a].kind = "try" => g[a] = TryFrame(Before(t, a))
  <2> HIDE DEF t
  <2>1. CASE a \in 1 .. Len(s)
    BY <1>1, <1>2, <2>1 DEF Recorded
  <2>2. CASE a = Len(s) + 1
    BY <1>1, <1>2, <1>3, <2>2
  <2> QED BY <1>1, <2>1, <2>2
<1> QED
  <2> HIDE DEF t
  <2>1. Recorded(t, g)
    BY <1>1, <1>4 DEF Recorded
  <2> QED BY <2>1 DEF t

\* Frames stay exact when the stack is cut.
LEMMA RecordedCut ==
  ASSUME NEW s \in Stacks, NEW k \in 0 .. Len(s), NEW f, NEW g, Recorded(s, f),
         \A a \in 1 .. k : g[a] = f[a]
  PROVE  Recorded(SubSeq(s, 1, k), g)
<1> DEFINE t == SubSeq(s, 1, k)
<1>1. Len(s) \in Nat /\ Len(t) = k /\ \A a \in 1 .. k : t[a] = s[a]
  BY StackFacts, CutStack
<1>2. \A a \in 1 .. k : Before(t, a) = Before(s, a)
  BY BeforeCut
<1> HIDE DEF t
<1>3. Recorded(t, g)
  BY <1>1, <1>2 DEF Recorded
<1> QED BY <1>3 DEF t

-----------------------------------------------------------------------------
StackInv ==
    /\ stack \in [Contexts -> Stacks]
    /\ DOMAIN context = Contexts /\ DOMAIN frame = Contexts
    /\ \A c \in Contexts : Top(c) <= Depth[c] /\ DOMAIN frame[c] = 1 .. Depth[c]

ChainInv ==
    \A c \in Contexts :
        /\ context[c] = ContextOf(stack[c])
        /\ Recorded(stack[c], frame[c])

CollectInv ==
    /\ active \in BOOLEAN
    /\ active <=> Of(stack[Owner], "collect") # {}
    /\ \A a, b \in Of(stack[Owner], "collect") : a = b
    /\ \A a \in Of(stack[Owner], "collect") : boundary = Before(stack[Owner], a).tries

IInv == StackInv /\ ChainInv /\ CollectInv

\* A step that changes the stack of one context, and its context with it.
LEMMA ChainStep ==
  ASSUME IInv, NEW c \in Contexts, NEW t \in Stacks, Len(t) <= Depth[c],
         stack' = [stack EXCEPT ![c] = t],
         DOMAIN context' = Contexts, DOMAIN frame' = Contexts,
         DOMAIN frame'[c] = 1 .. Depth[c],
         \A d \in Contexts \ {c} : context'[d] = context[d] /\ frame'[d] = frame[d],
         context'[c] = ContextOf(t), Recorded(t, frame'[c])
  PROVE  StackInv' /\ ChainInv'
<1>1. stack' \in [Contexts -> Stacks] /\ stack'[c] = t
      /\ \A d \in Contexts \ {c} : stack'[d] = stack[d]
  BY DEF IInv, StackInv
<1>2. StackInv'
  BY <1>1 DEF IInv, StackInv, Top
<1>3. ChainInv'
  BY <1>1 DEF IInv, ChainInv
<1> QED BY <1>2, <1>3

\* A step that leaves the collection where it is.
LEMMA SameCollection ==
  ASSUME IInv, NEW c \in Contexts, NEW t \in Stacks,
         stack' = [stack EXCEPT ![c] = t], active' = active, boundary' = boundary,
         c = Owner => /\ Of(t, "collect") = Of(stack[c], "collect")
                      /\ \A a \in Of(t, "collect") : Before(t, a) = Before(stack[c], a)
  PROVE  CollectInv'
<1>1. CASE c = Owner
  <2>1. stack'[Owner] = t
    BY <1>1 DEF IInv, StackInv
  <2> QED BY <1>1, <2>1 DEF IInv, CollectInv
<1>2. CASE c # Owner
  <2>1. stack'[Owner] = stack[Owner]
    BY <1>2, FrameAssumption DEF IInv, StackInv, FrameAssumption
  <2> QED BY <2>1 DEF IInv, CollectInv
<1> QED BY <1>1, <1>2

\* A push leaves the collection where it is.
LEMMA CollectionPushed ==
  ASSUME NEW s \in Stacks, NEW e \in Activation, e.kind # "collect"
  PROVE  /\ Of(Append(s, e), "collect") = Of(s, "collect")
         /\ \A a \in Of(s, "collect") : Before(Append(s, e), a) = Before(s, a)
<1>1. Len(s) \in Nat /\ Of(s, "collect") \in SUBSET (1 .. Len(s))
  BY StackFacts
<1>2. \A a \in Of(s, "collect") : a \in 1 .. Len(s) + 1
  BY <1>1
<1> QED BY <1>2, OfPushed, BeforePushed

\* A cut above the collection leaves it where it is.
LEMMA CollectionCut ==
  ASSUME NEW s \in Stacks, NEW k \in 0 .. Len(s), \A a \in Of(s, "collect") : a <= k
  PROVE  /\ Of(SubSeq(s, 1, k), "collect") = Of(s, "collect")
         /\ \A a \in Of(s, "collect") : Before(SubSeq(s, 1, k), a) = Before(s, a)
<1>1. Len(s) \in Nat /\ Of(s, "collect") \in SUBSET (1 .. Len(s))
  BY StackFacts
<1>2. \A a \in Of(s, "collect") : a \in 1 .. k /\ a < k + 1
  <2>1. \A a \in Of(s, "collect") : a \in 1 .. Len(s)
    BY <1>1
  <2> QED BY <1>1, <2>1
<1>3. Of(SubSeq(s, 1, k), "collect") = Of(s, "collect")
  <2> DEFINE S == Of(s, "collect")
  <2>1. Of(SubSeq(s, 1, k), "collect") = {a \in S : a < k + 1}
    BY OfCut
  <2>2. S = {a \in S : a < k + 1}
    BY <1>2
  <2> QED BY <2>1, <2>2
<1> QED BY <1>2, <1>3, BeforeCut

-----------------------------------------------------------------------------
(* What the top activation says of the chains.                             *)
LEMMA TopActivation ==
  ASSUME NEW s \in Stacks, s # << >>
  PROVE  LET n == Len(s)
             front == SubSeq(s, 1, n - 1)
             x == ContextOf(front)
         IN /\ n \in Nat \ {0} /\ n \in 1 .. Len(s) /\ n - 1 \in 0 .. Len(s)
            /\ front \in Stacks /\ Len(front) = n - 1 /\ Before(s, n) = x
            /\ s[n].kind = "root" => ContextOf(s) = WithRoot(x, n, s[n].slots)
            /\ s[n].kind = "try" => ContextOf(s) = WithTry(x, n)
            /\ s[n].kind = "collect" => ContextOf(s) = x
            /\ s[n].kind # "collect" => \A a \in Of(s, "collect") : a <= n - 1
<1> DEFINE n == Len(s)
           front == SubSeq(s, 1, n - 1)
<1>1. n \in Nat \ {0}
  BY EmptySeq DEF Stacks
<1>2. /\ front \in Stacks /\ Len(front) = n - 1
      /\ s[n] \in Activation /\ s = Append(front, s[n])
  BY <1>1, TopOfStack
<1>3. Before(s, n) = ContextOf(front)
  BY DEF Before
<1>4. n - 1 + 1 = n /\ n \in 1 .. Len(s) /\ n - 1 \in 0 .. Len(s)
  BY <1>1
<1>5. s[n].kind # "collect" => \A a \in Of(s, "collect") : a <= n - 1
  <2>1. \A a \in Of(s, "collect") : a \in 1 .. n /\ s[a].kind = "collect"
    BY DEF Of
  <2> QED BY <1>1, <2>1
<1>6. LET u == Append(front, s[n]) IN
      /\ s[n].kind = "root" => ContextOf(u) = WithRoot(ContextOf(front), n, s[n].slots)
      /\ s[n].kind = "try" => ContextOf(u) = WithTry(ContextOf(front), n)
      /\ s[n].kind = "collect" => ContextOf(u) = ContextOf(front)
  <2> HIDE DEF front
  <2> QED BY <1>2, <1>4, ContextPushed
<1> HIDE DEF n, front
<1>7. /\ s[n].kind = "root" => ContextOf(s) = WithRoot(ContextOf(front), n, s[n].slots)
      /\ s[n].kind = "try" => ContextOf(s) = WithTry(ContextOf(front), n)
      /\ s[n].kind = "collect" => ContextOf(s) = ContextOf(front)
  BY <1>2, <1>6
<1> QED BY <1>1, <1>2, <1>3, <1>4, <1>5, <1>7 DEF n, front

\* ContextOf is a record of five fields.
LEMMA ContextShape ==
  ASSUME NEW s
  PROVE  LET x == ContextOf(s) IN
         x = [roots |-> x.roots, rootTotal |-> x.rootTotal, slotTotal |-> x.slotTotal,
              tries |-> x.tries, depth |-> x.depth]
BY DEF ContextOf

\* Its totals are naturals.
LEMMA ContextNumbers ==
  ASSUME NEW s \in Stacks
  PROVE  /\ ContextOf(s).rootTotal \in Nat /\ ContextOf(s).depth \in Nat
         /\ ContextOf(s).slotTotal \in Nat
<1>1. \A kind : Cardinality(Of(s, kind)) \in Nat
  BY OfFinite
<1>2. SlotsOf(s) \in Nat
  <2>1. [kind |-> "try", slots |-> 0] \in Activation
    BY DEF Activation, Kinds
  <2> QED BY <2>1, SlotsPushed
<1> QED BY <1>1, <1>2 DEF ContextOf

-----------------------------------------------------------------------------
\* A push of a frame that is filled from the context keeps the invariant.
LEMMA PushStep ==
  ASSUME IInv, NEW c \in Contexts, NEW e \in Activation, NEW v, NEW y,
         e.kind # "collect",
         Top(c) + 1 <= Depth[c],
         stack' = [stack EXCEPT ![c] = Append(stack[c], e)],
         frame' = [frame EXCEPT ![c][Top(c) + 1] = v],
         context' = [context EXCEPT ![c] = y],
         y = ContextOf(Append(stack[c], e)),
         e.kind = "root" => v = RootFrame(ContextOf(stack[c]), e.slots),
         e.kind = "try" => v = TryFrame(ContextOf(stack[c])),
         active' = active, boundary' = boundary
  PROVE  IInv'
<1> DEFINE s == stack[c]
           t == Append(s, e)
<1>1. s \in Stacks /\ Len(s) \in Nat /\ Top(c) = Len(s)
  BY StackFacts DEF IInv, StackInv, Top
<1>2. t \in Stacks /\ Len(t) = Len(s) + 1
  BY <1>1, PushedStack
<1>3. Recorded(s, frame[c])
  BY DEF IInv, ChainInv
<1>4. /\ DOMAIN frame' = Contexts /\ DOMAIN context' = Contexts
      /\ DOMAIN frame'[c] = 1 .. Depth[c]
      /\ \A d \in Contexts \ {c} : context'[d] = context[d] /\ frame'[d] = frame[d]
      /\ context'[c] = y
      /\ \A a \in 1 .. Len(s) : frame'[c][a] = frame[c][a]
      /\ frame'[c][Len(s) + 1] = v
  <2> HIDE DEF s, t
  <2>1. DOMAIN context = Contexts /\ DOMAIN frame = Contexts /\ DOMAIN frame[c] = 1 .. Depth[c]
    BY DEF IInv, StackInv
  <2>2. Depth[c] \in Nat
    BY FrameAssumption DEF FrameAssumption
  <2> QED BY <1>1, <2>1, <2>2
<1>5. Recorded(t, frame'[c])
  <2> DEFINE f == frame[c]
             g == frame'[c]
  <2>1. /\ Recorded(s, f)
        /\ \A a \in 1 .. Len(s) : g[a] = f[a]
        /\ e.kind = "root" => g[Len(s) + 1] = RootFrame(ContextOf(s), e.slots)
        /\ e.kind = "try" => g[Len(s) + 1] = TryFrame(ContextOf(s))
    BY <1>3, <1>4
  <2> HIDE DEF s, f, g
  <2>2. Recorded(Append(s, e), g)
    BY <1>1, <2>1, RecordedPushed
  <2> QED BY <2>2 DEF g
<1>6. /\ Of(t, "collect") = Of(s, "collect")
      /\ \A a \in Of(t, "collect") : Before(t, a) = Before(s, a)
  BY <1>1, CollectionPushed
<1> HIDE DEF t
<1>7. stack' = [stack EXCEPT ![c] = t] /\ Len(t) <= Depth[c] /\ context'[c] = ContextOf(t)
  BY <1>1, <1>2, <1>4 DEF t
<1>8. StackInv' /\ ChainInv'
  BY <1>2, <1>4, <1>5, <1>7, ChainStep
<1>9. CollectInv'
  BY <1>2, <1>6, <1>7, SameCollection
<1> QED BY <1>8, <1>9 DEF IInv

\* A cut to what the context is reset to keeps the invariant.
LEMMA CutStep ==
  ASSUME IInv, NEW c \in Contexts, NEW k \in 0 .. Top(c),
         c = Owner => \A a \in Of(stack[c], "collect") : a <= k,
         stack' = [stack EXCEPT ![c] = SubSeq(stack[c], 1, k)],
         DOMAIN context' = Contexts, DOMAIN frame' = Contexts,
         DOMAIN frame'[c] = 1 .. Depth[c],
         \A d \in Contexts \ {c} : context'[d] = context[d] /\ frame'[d] = frame[d],
         context'[c] = ContextOf(SubSeq(stack[c], 1, k)),
         \A a \in 1 .. k : frame'[c][a] = frame[c][a],
         active' = active, boundary' = boundary
  PROVE  IInv'
<1> DEFINE s == stack[c]
           t == SubSeq(s, 1, k)
<1>1. s \in Stacks /\ Len(s) \in Nat /\ k \in 0 .. Len(s) /\ Len(s) <= Depth[c]
  BY StackFacts DEF IInv, StackInv, Top
<1>2. t \in Stacks /\ Len(t) = k
  BY <1>1, CutStack
<1>3. Recorded(t, frame'[c])
  <2> DEFINE f == frame[c]
             g == frame'[c]
  <2>1. Recorded(s, f) /\ \A a \in 1 .. k : g[a] = f[a]
    BY DEF IInv, ChainInv
  <2> HIDE DEF s, f, g
  <2>2. Recorded(SubSeq(s, 1, k), g)
    BY <1>1, <2>1, RecordedCut
  <2> QED BY <2>2 DEF g
<1>4. c = Owner => /\ Of(t, "collect") = Of(s, "collect")
                   /\ \A a \in Of(t, "collect") : Before(t, a) = Before(s, a)
  BY <1>1, CollectionCut
<1>5. Len(t) <= Depth[c]
  <2>1. Depth[c] \in Nat
    BY FrameAssumption DEF FrameAssumption
  <2> QED BY <1>1, <1>2, <2>1
<1> HIDE DEF t
<1>6. stack' = [stack EXCEPT ![c] = t] /\ context'[c] = ContextOf(t)
  BY DEF t
<1>7. StackInv' /\ ChainInv'
  BY <1>2, <1>3, <1>5, <1>6, ChainStep
<1>8. CollectInv'
  BY <1>2, <1>4, <1>6, SameCollection
<1> QED BY <1>7, <1>8 DEF IInv

-----------------------------------------------------------------------------
\* bmx_embedded_root_frame_enter.
LEMMA RootEnterStep ==
  ASSUME IInv, NEW c \in Contexts, NEW n \in SlotCounts, RootEnter(c, n)
  PROVE  IInv'
<1> DEFINE s == stack[c]
           e == [kind |-> "root", slots |-> n]
<1>1. e \in Activation /\ s \in Stacks /\ e.kind = "root" /\ e.slots = n
  BY FrameAssumption DEF FrameAssumption, Activation, Kinds, IInv, StackInv
<1>2. stack' = [stack EXCEPT ![c] = Append(s, e)]
  BY DEF RootEnter, Pushed
<1>3. context[c] = ContextOf(s)
  BY DEF IInv, ChainInv
<1>4. /\ frame' = [frame EXCEPT ![c][Top(c) + 1] = RootFrame(context[c], n)]
      /\ context' = [context EXCEPT ![c] = WithRoot(context[c], Top(c) + 1, n)]
      /\ Top(c) + 1 <= Depth[c]
      /\ active' = active /\ boundary' = boundary
  BY DEF RootEnter, Room
<1> HIDE DEF e
<1>5. WithRoot(context[c], Top(c) + 1, n) = ContextOf(Append(s, e))
  BY <1>1, <1>3, ContextPushed DEF Top
<1>6. RootFrame(context[c], n) = RootFrame(ContextOf(s), e.slots)
  BY <1>1, <1>3
<1> QED BY <1>1, <1>2, <1>4, <1>5, <1>6, PushStep

\* bmx_embedded_exception_enter.
LEMMA TryEnterStep ==
  ASSUME IInv, NEW c \in Contexts, TryEnter(c)
  PROVE  IInv'
<1> DEFINE s == stack[c]
           e == [kind |-> "try", slots |-> 0]
<1>1. e \in Activation /\ s \in Stacks /\ e.kind = "try"
  BY DEF Activation, Kinds, IInv, StackInv
<1>2. stack' = [stack EXCEPT ![c] = Append(s, e)]
  BY DEF TryEnter, Pushed
<1>3. context[c] = ContextOf(s)
  BY DEF IInv, ChainInv
<1>4. /\ frame' = [frame EXCEPT ![c][Top(c) + 1] = TryFrame(context[c])]
      /\ context' = [context EXCEPT ![c] = WithTry(context[c], Top(c) + 1)]
      /\ Top(c) + 1 <= Depth[c]
      /\ active' = active /\ boundary' = boundary
  BY DEF TryEnter, Room
<1> HIDE DEF e
<1>5. WithTry(context[c], Top(c) + 1) = ContextOf(Append(s, e))
  BY <1>1, <1>3, ContextPushed DEF Top
<1> QED BY <1>1, <1>2, <1>3, <1>4, <1>5, PushStep

WithoutRoot(x, a, n) == [x EXCEPT !.roots = a, !.rootTotal = @ - 1, !.slotTotal = @ - n]

\* Leaving a root frame undoes entering it.
LEMMA LeavesContext ==
  ASSUME NEW x, NEW n, NEW m \in Nat, NEW w, NEW r,
         x = [roots |-> r, rootTotal |-> x.rootTotal, slotTotal |-> x.slotTotal,
              tries |-> x.tries, depth |-> x.depth],
         w = [roots |-> n, rootTotal |-> x.rootTotal + 1, slotTotal |-> x.slotTotal + m,
              tries |-> x.tries, depth |-> x.depth],
         x.rootTotal \in Nat, x.slotTotal \in Nat
  PROVE  WithoutRoot(w, r, m) = x
<1> DEFINE y == [w EXCEPT !.roots = r]
           z == [y EXCEPT !.rootTotal = w.rootTotal - 1]
<1>1. y = [roots |-> r, rootTotal |-> x.rootTotal + 1, slotTotal |-> x.slotTotal + m,
           tries |-> x.tries, depth |-> x.depth]
  OBVIOUS
<1>2. z = [roots |-> r, rootTotal |-> x.rootTotal, slotTotal |-> x.slotTotal + m,
           tries |-> x.tries, depth |-> x.depth]
  <2> HIDE DEF y
  <2> QED BY <1>1
<1>3. [z EXCEPT !.slotTotal = w.slotTotal - m] =
          [roots |-> r, rootTotal |-> x.rootTotal, slotTotal |-> x.slotTotal,
           tries |-> x.tries, depth |-> x.depth]
  <2> HIDE DEF z
  <2> QED BY <1>2
<1>4. WithoutRoot(w, r, m) = [z EXCEPT !.slotTotal = w.slotTotal - m]
  BY DEF WithoutRoot, y, z
<1> QED BY <1>3, <1>4

\* A root frame is left from the top of its chain: the refusal is never taken.
LEMMA RootLeaveStep ==
  ASSUME IInv, NEW c \in Contexts, RootLeave(c)
  PROVE  IInv'
<1> DEFINE s == stack[c]
           n == Len(s)
           front == SubSeq(s, 1, n - 1)
           x == ContextOf(front)
<1>1. s \in Stacks /\ s # << >> /\ s[n].kind = "root" /\ Top(c) = n
  BY DEF RootLeave, IsTop, Top, IInv, StackInv
<1>2. /\ n \in Nat \ {0} /\ n \in 1 .. Len(s) /\ n - 1 \in 0 .. Len(s)
      /\ Before(s, n) = x
      /\ ContextOf(s) = WithRoot(x, n, s[n].slots)
      /\ \A a \in Of(s, "collect") : a <= n - 1
  <2> HIDE DEF s
  <2> QED BY <1>1, TopActivation
<1>3. context[c] = WithRoot(x, n, s[n].slots)
      /\ frame[c][n] = RootFrame(x, s[n].slots)
  BY <1>1, <1>2 DEF IInv, ChainInv, Recorded
<1>4. stack' = [stack EXCEPT ![c] = front] /\ active' = active /\ boundary' = boundary
  BY <1>1 DEF RootLeave, Pop
<1>5. x.rootTotal \in Nat /\ x.slotTotal \in Nat /\ s[n].slots \in Nat
  <2>1. front \in Stacks /\ s[n] \in Activation
    BY <1>1, <1>2, TopActivation, StackFacts
  <2> HIDE DEF front, n
  <2> QED BY <2>1, ContextNumbers DEF Activation
<1>6. x = [roots |-> x.roots, rootTotal |-> x.rootTotal, slotTotal |-> x.slotTotal,
           tries |-> x.tries, depth |-> x.depth]
  BY ContextShape
<1> DEFINE m == s[n].slots
           w == [roots |-> n, rootTotal |-> x.rootTotal + 1, slotTotal |-> x.slotTotal + m,
                 tries |-> x.tries, depth |-> x.depth]
<1>7. WithRoot(x, n, m) = w
  <2> HIDE DEF x, n, m
  <2> QED BY <1>6, EntersContext
<1>8. context[c].roots = n
  BY <1>3, <1>7
<1>9. /\ context' = [context EXCEPT ![c].roots = frame[c][n].previous,
                                    ![c].rootTotal = @ - 1,
                                    ![c].slotTotal = @ - frame[c][n].slots]
      /\ frame' = [frame EXCEPT ![c][n] = [previous |-> Nil, slots |-> 0]]
  BY <1>1, <1>8 DEF RootLeave
<1>10. DOMAIN context = Contexts /\ DOMAIN frame = Contexts /\ DOMAIN frame[c] = 1 .. Depth[c]
  BY DEF IInv, StackInv
<1>11. context'[c] = x
  <2>1. context[c] = w /\ frame[c][n].previous = x.roots /\ frame[c][n].slots = m
    BY <1>3, <1>7 DEF RootFrame
  <2> HIDE DEF x, n, m
  <2> DEFINE r == x.roots
  <2>2. context'[c] = WithoutRoot(w, r, m)
    BY <1>9, <1>10, <2>1 DEF WithoutRoot
  <2>3. w = [roots |-> n, rootTotal |-> x.rootTotal + 1, slotTotal |-> x.slotTotal + m,
             tries |-> x.tries, depth |-> x.depth]
    OBVIOUS
  <2>4. /\ m \in Nat /\ x.rootTotal \in Nat /\ x.slotTotal \in Nat
        /\ x = [roots |-> r, rootTotal |-> x.rootTotal, slotTotal |-> x.slotTotal,
                tries |-> x.tries, depth |-> x.depth]
    BY <1>5, <1>6 DEF m
  <2> HIDE DEF w, r
  <2>5. WithoutRoot(w, r, m) = x
    BY <2>3, <2>4, LeavesContext
  <2> QED BY <2>2, <2>5
<1>12. /\ DOMAIN frame' = Contexts /\ DOMAIN context' = Contexts
       /\ DOMAIN frame'[c] = 1 .. Depth[c]
       /\ \A d \in Contexts \ {c} : context'[d] = context[d] /\ frame'[d] = frame[d]
       /\ \A a \in 1 .. n - 1 : frame'[c][a] = frame[c][a]
  <2> HIDE DEF n
  <2> QED BY <1>2, <1>9, <1>10
<1> QED
  <2>1. n - 1 \in 0 .. Top(c)
    BY <1>1, <1>2
  <2> HIDE DEF n
  <2> QED BY <1>2, <1>4, <1>11, <1>12, <2>1, CutStep

\* A handler is left from the top of its chain: it is the one on top of the stack.
LEMMA TryLeaveStep ==
  ASSUME IInv, NEW c \in Contexts, TryLeave(c)
  PROVE  IInv'
<1> DEFINE s == stack[c]
           n == Len(s)
           front == SubSeq(s, 1, n - 1)
           x == ContextOf(front)
<1>1. s \in Stacks /\ s # << >> /\ s[n].kind = "try" /\ Top(c) = n
  BY DEF TryLeave, IsTop, Top, IInv, StackInv
<1>2. /\ n \in Nat \ {0} /\ n \in 1 .. Len(s) /\ n - 1 \in 0 .. Len(s)
      /\ front \in Stacks
      /\ Before(s, n) = x
      /\ ContextOf(s) = WithTry(x, n)
      /\ \A a \in Of(s, "collect") : a <= n - 1
  <2> HIDE DEF s
  <2> QED BY <1>1, TopActivation
<1>3. context[c] = WithTry(x, n) /\ frame[c][n] = TryFrame(x)
  BY <1>1, <1>2 DEF IInv, ChainInv, Recorded
<1>4. stack' = [stack EXCEPT ![c] = front] /\ active' = active /\ boundary' = boundary
  BY <1>1 DEF TryLeave, Pop
<1>5. x.depth \in Nat
  <2> HIDE DEF front
  <2> QED BY <1>2, ContextNumbers
<1>6. x = [roots |-> x.roots, rootTotal |-> x.rootTotal, slotTotal |-> x.slotTotal,
           tries |-> x.tries, depth |-> x.depth]
  BY ContextShape
<1> DEFINE w == [roots |-> x.roots, rootTotal |-> x.rootTotal, slotTotal |-> x.slotTotal,
                 tries |-> n, depth |-> x.depth + 1]
<1>7. WithTry(x, n) = w
  <2> HIDE DEF x, n
  <2> QED BY <1>6, EntersContext
<1>8. context[c].tries = n /\ frame[c][n].previous = x.tries
  BY <1>3, <1>7 DEF TryFrame
<1>9. /\ context' = [context EXCEPT ![c].tries = x.tries, ![c].depth = @ - 1]
      /\ frame' = [frame EXCEPT ![c][n].previous = Nil]
  BY <1>8 DEF TryLeave
<1>10. DOMAIN context = Contexts /\ DOMAIN frame = Contexts /\ DOMAIN frame[c] = 1 .. Depth[c]
  BY DEF IInv, StackInv
<1>11. context'[c] = x
  <2>1. context[c] = w
    BY <1>3, <1>7
  <2> HIDE DEF x, n
  <2> DEFINE y == [w EXCEPT !.tries = x.tries]
  <2>2. y = [roots |-> x.roots, rootTotal |-> x.rootTotal, slotTotal |-> x.slotTotal,
             tries |-> x.tries, depth |-> x.depth + 1]
    OBVIOUS
  <2>3. w.depth - 1 = x.depth
    BY <1>5
  <2> HIDE DEF w
  <2>4. context'[c] = [y EXCEPT !.depth = w.depth - 1]
    BY <1>9, <1>10, <2>1
  <2> HIDE DEF y
  <2>5. [y EXCEPT !.depth = w.depth - 1] = x
    BY <1>6, <2>2, <2>3
  <2> QED BY <2>4, <2>5
<1>12. /\ DOMAIN frame' = Contexts /\ DOMAIN context' = Contexts
       /\ DOMAIN frame'[c] = 1 .. Depth[c]
       /\ \A d \in Contexts \ {c} : context'[d] = context[d] /\ frame'[d] = frame[d]
       /\ \A a \in 1 .. n - 1 : frame'[c][a] = frame[c][a]
  <2> HIDE DEF n, x
  <2> QED BY <1>2, <1>9, <1>10
<1> QED
  <2>1. n - 1 \in 0 .. Top(c)
    BY <1>1, <1>2
  <2> HIDE DEF n
  <2> QED BY <1>2, <1>4, <1>11, <1>12, <2>1, CutStep

\* The handler on top becomes the boundary.
LEMMA CollectBeginStep ==
  ASSUME IInv, CollectBegin
  PROVE  IInv'
<1> DEFINE s == stack[Owner]
           e == [kind |-> "collect", slots |-> 0]
           t == Append(s, e)
<1>1. /\ s \in Stacks /\ e \in Activation /\ e.kind = "collect" /\ Owner \in Contexts
      /\ Len(s) \in Nat
  BY StackFacts, FrameAssumption DEF FrameAssumption, Activation, Kinds, IInv, StackInv
<1>2. /\ stack' = [stack EXCEPT ![Owner] = t] /\ Len(s) + 1 <= Depth[Owner]
      /\ context' = context /\ frame' = frame
      /\ active = FALSE /\ active' = TRUE /\ boundary' = context[Owner].tries
  BY DEF CollectBegin, Room, Pushed, Top, IInv, CollectInv
<1>3. context[Owner] = ContextOf(s) /\ Recorded(s, frame[Owner])
  BY <1>1 DEF IInv, ChainInv
<1> HIDE DEF e
<1>4. t \in Stacks /\ Len(t) = Len(s) + 1 /\ ContextOf(t) = ContextOf(s)
  BY <1>1, PushedStack, ContextPushed
<1>5. Recorded(t, frame[Owner])
  <2> DEFINE f == frame[Owner]
  <2> HIDE DEF s, f
  <2> QED BY <1>1, <1>3, RecordedPushed DEF f
<1>6. Of(t, "collect") = {Len(s) + 1}
  <2>1. Of(s, "collect") = {}
    BY <1>2 DEF IInv, CollectInv
  <2> QED BY <1>1, <2>1, OfPushed
<1>7. Before(t, Len(s) + 1) = ContextOf(s)
  <2>1. Len(s) + 1 \in 1 .. Len(s) + 1
    BY <1>1
  <2> QED BY <1>1, <2>1, BeforePushed, BeforeNext
<1> HIDE DEF t
<1>8. stack'[Owner] = t
  BY <1>1, <1>2 DEF IInv, StackInv
<1>9. StackInv' /\ ChainInv'
  <2>1. /\ DOMAIN context' = Contexts /\ DOMAIN frame' = Contexts
        /\ DOMAIN frame'[Owner] = 1 .. Depth[Owner]
        /\ \A d \in Contexts \ {Owner} : context'[d] = context[d] /\ frame'[d] = frame[d]
        /\ context'[Owner] = ContextOf(t) /\ Recorded(t, frame'[Owner])
    BY <1>1, <1>2, <1>3, <1>4, <1>5 DEF IInv, StackInv
  <2> QED BY <1>1, <1>2, <1>4, <2>1, ChainStep
<1>10. CollectInv'
  <2>1. boundary' = Before(t, Len(s) + 1).tries
    BY <1>2, <1>3, <1>7
  <2>2. Of(stack'[Owner], "collect") = {Len(s) + 1}
    BY <1>6, <1>8
  <2> QED BY <1>2, <1>8, <2>1, <2>2 DEF CollectInv
<1> QED BY <1>9, <1>10 DEF IInv

\* The collection on top of the stack was the only one.
LEMMA CollectEndStep ==
  ASSUME IInv, CollectEnd
  PROVE  IInv'
<1> DEFINE s == stack[Owner]
           n == Len(s)
           t == SubSeq(s, 1, n - 1)
<1>1. s \in Stacks /\ s # << >> /\ s[n].kind = "collect" /\ Owner \in Contexts
      /\ Top(Owner) = n
  BY FrameAssumption DEF FrameAssumption, CollectEnd, IsTop, Top, IInv, StackInv
<1>2. /\ n \in Nat \ {0} /\ n \in 1 .. Len(s) /\ n - 1 \in 0 .. Len(s)
      /\ t \in Stacks /\ Len(t) = n - 1 /\ ContextOf(s) = ContextOf(t)
  <2> HIDE DEF s
  <2> QED BY <1>1, TopActivation
<1>3. /\ stack' = [stack EXCEPT ![Owner] = t] /\ context' = context /\ frame' = frame
      /\ active' = FALSE
  BY <1>1 DEF CollectEnd, Pop
<1>4. context[Owner] = ContextOf(t) /\ Recorded(s, frame[Owner]) /\ n <= Depth[Owner]
  BY <1>1, <1>2 DEF IInv, ChainInv, StackInv
<1>5. Recorded(t, frame[Owner])
  <2> DEFINE f == frame[Owner]
  <2> HIDE DEF s, f
  <2> QED BY <1>1, <1>2, <1>4, RecordedCut DEF f
<1>6. Of(t, "collect") = {}
  <2>1. n \in Of(s, "collect")
    BY <1>1, <1>2 DEF Of
  <2>2. \A a \in Of(s, "collect") : a = n
    BY <2>1 DEF IInv, CollectInv
  <2>3. Of(t, "collect") = {a \in Of(s, "collect") : a < n - 1 + 1}
    BY <1>1, <1>2, OfCut
  <2> QED BY <1>2, <2>2, <2>3
<1> HIDE DEF t
<1>7. stack'[Owner] = t
  BY <1>1, <1>3 DEF IInv, StackInv
<1>8. StackInv' /\ ChainInv'
  <2>1. /\ DOMAIN context' = Contexts /\ DOMAIN frame' = Contexts
        /\ DOMAIN frame'[Owner] = 1 .. Depth[Owner]
        /\ \A d \in Contexts \ {Owner} : context'[d] = context[d] /\ frame'[d] = frame[d]
        /\ context'[Owner] = ContextOf(t) /\ Recorded(t, frame'[Owner])
    BY <1>1, <1>3, <1>4, <1>5 DEF IInv, StackInv
  <2>2. Len(t) <= Depth[Owner]
    BY <1>2, <1>4, FrameAssumption DEF FrameAssumption
  <2> QED BY <1>1, <1>2, <1>3, <2>1, <2>2, ChainStep
<1>9. CollectInv'
  BY <1>3, <1>6, <1>7 DEF CollectInv
<1> QED BY <1>8, <1>9 DEF IInv

\* The snapshot in the handler is what the stack below it was, so is what is restored.
LEMMA Resumed ==
  ASSUME IInv, NEW c \in Contexts, context[c].tries # Nil
  PROVE  LET a == context[c].tries IN
         /\ a \in 1 .. Top(c) /\ a - 1 \in 0 .. Top(c)
         /\ stack[c][a].kind = "try"
         /\ Restored(context[c], frame[c][a]) = ContextOf(SubSeq(stack[c], 1, a - 1))
         /\ \A k \in a + 1 .. Top(c) + 1 : Before(stack[c], k).tries = a
<1> DEFINE s == stack[c]
           a == context[c].tries
           x == Before(s, a)
<1>1. s \in Stacks /\ context[c] = ContextOf(s) /\ Recorded(s, frame[c])
  BY DEF IInv, StackInv, ChainInv
<1>2. /\ a \in 1 .. Len(s) /\ s[a].kind = "try"
      /\ x.depth = context[c].depth - 1
      /\ \A k \in a + 1 .. Len(s) + 1 : Before(s, k).tries = a
  <2> HIDE DEF s
  <2> QED BY <1>1, TopHandler
<1>3. frame[c][a] = TryFrame(x)
  <2> HIDE DEF a, s
  <2> QED BY <1>1, <1>2 DEF Recorded
<1>4. x = [roots |-> x.roots, rootTotal |-> x.rootTotal, slotTotal |-> x.slotTotal,
           tries |-> x.tries, depth |-> x.depth]
  BY ContextShape DEF Before
<1>5. Restored(context[c], TryFrame(x)) = x
  <2> HIDE DEF x, a
  <2> QED BY <1>2, <1>4 DEF Restored, TryFrame
<1>6. x = ContextOf(SubSeq(s, 1, a - 1))
  BY DEF Before
<1>7. a - 1 \in 0 .. Len(s)
  <2> HIDE DEF a
  <2> QED BY <1>1, <1>2, StackFacts
<1> QED BY <1>2, <1>3, <1>5, <1>6, <1>7 DEF Top

\* A throw ends the collection exactly when it cuts the stack below it.
LEMMA ThrowStep ==
  ASSUME IInv, NEW c \in Contexts, Throw(c)
  PROVE  IInv'
<1> DEFINE s == stack[c]
           a == context[c].tries
           t == SubSeq(s, 1, a - 1)
<1>1. context[c].tries # Nil
  BY DEF Throw
<1>2. /\ a \in 1 .. Len(s) /\ a - 1 \in 0 .. Len(s) /\ s[a].kind = "try"
      /\ Restored(context[c], frame[c][a]) = ContextOf(t)
      /\ \A k \in a + 1 .. Len(s) + 1 : Before(s, k).tries = a
  BY <1>1, Resumed DEF Top
<1>3. /\ stack' = [stack EXCEPT ![c] = t]
      /\ context' = [context EXCEPT ![c] = Restored(context[c], frame[c][a])]
      /\ frame' = frame
      /\ IF Escapes(c, a) THEN active' = FALSE /\ boundary' = Nil
                          ELSE active' = active /\ boundary' = boundary
  BY DEF Throw
<1>4. s \in Stacks /\ Len(s) \in Nat /\ Len(s) <= Depth[c] /\ Depth[c] \in Nat
      /\ Recorded(s, frame[c])
  BY StackFacts, FrameAssumption DEF FrameAssumption, IInv, StackInv, ChainInv, Top
<1>5. t \in Stacks /\ Len(t) = a - 1
  <2> HIDE DEF a, s
  <2> QED BY <1>2, <1>4, CutStack
<1>6. /\ DOMAIN context' = Contexts /\ DOMAIN frame' = Contexts
      /\ DOMAIN frame'[c] = 1 .. Depth[c]
      /\ \A d \in Contexts \ {c} : context'[d] = context[d] /\ frame'[d] = frame[d]
      /\ context'[c] = ContextOf(t)
  <2> HIDE DEF t, a
  <2> QED BY <1>2, <1>3 DEF IInv, StackInv
<1>7. CASE Escapes(c, a)
  <2>1. c = Owner /\ active /\ a = boundary
    BY <1>7 DEF Escapes
  <2>2. PICK k \in Of(s, "collect") : TRUE
    BY <2>1 DEF IInv, CollectInv
  <2>3. Before(s, k).tries = a /\ \A b \in Of(s, "collect") : b = k
    BY <2>1 DEF IInv, CollectInv
  <2>4. k \in 1 .. Len(s) /\ k - 1 \in 0 .. Len(s)
    BY <1>4 DEF Of
  <2>5. a < k
    <3> DEFINE u == SubSeq(s, 1, k - 1)
    <3>1. u \in Stacks /\ Len(u) = k - 1
      <4> HIDE DEF s
      <4> QED BY <1>4, <2>4, CutStack
    <3>2. ContextOf(u).tries = a
      BY <2>3 DEF Before
    <3> HIDE DEF u, a
    <3>3. a \in 1 .. Len(u)
      BY <1>1, <3>1, <3>2, TopHandler DEF a
    <3> QED BY <2>4, <3>1, <3>3
  <2>6. Of(t, "collect") = {}
    <3> HIDE DEF a, s
    <3>1. Of(t, "collect") = {b \in Of(s, "collect") : b < a - 1 + 1}
      BY <1>2, <1>4, OfCut
    <3>2. ~(k < a - 1 + 1)
      BY <1>2, <1>4, <2>4, <2>5
    <3> QED BY <2>3, <3>1, <3>2
  <2>7. Recorded(t, frame'[c])
    <3> DEFINE f == frame[c]
    <3>1. frame'[c] = f
      BY <1>3
    <3>2. Recorded(s, f)
      BY <1>4
    <3> HIDE DEF a, s, f
    <3>3. Recorded(t, f)
      BY <1>2, <1>4, <3>2, RecordedCut
    <3> QED BY <3>1, <3>3
  <2>8. Len(t) <= Depth[c]
    BY <1>2, <1>4, <1>5
  <2> HIDE DEF t
  <2>9. StackInv' /\ ChainInv'
    BY <1>3, <1>5, <1>6, <2>7, <2>8, ChainStep
  <2>10. stack'[Owner] = t
    BY <1>3, <2>1 DEF IInv, StackInv
  <2>11. CollectInv'
    BY <1>3, <1>7, <2>6, <2>10 DEF CollectInv
  <2> QED BY <2>9, <2>11 DEF IInv
<1>8. CASE ~Escapes(c, a)
  <2>1. active' = active /\ boundary' = boundary
    BY <1>3, <1>8
  <2>2. c = Owner => \A k \in Of(s, "collect") : k <= a - 1
    <3> SUFFICES ASSUME c = Owner, NEW k \in Of(s, "collect") PROVE k <= a - 1
      OBVIOUS
    <3>1. k \in 1 .. Len(s) /\ s[k].kind = "collect"
      BY DEF Of
    <3>2. active /\ boundary = Before(s, k).tries
      BY DEF IInv, CollectInv
    <3>3. k # a
      BY <1>2, <3>1
    <3>4. ~(k > a)
      <4> SUFFICES ASSUME k > a PROVE FALSE
        OBVIOUS
      <4>1. k \in a + 1 .. Len(s) + 1
        <5> HIDE DEF a, s
        <5> QED BY <1>2, <1>4, <3>1
      <4>2. Before(s, k).tries = a
        <5> HIDE DEF a, s
        <5> QED BY <1>2, <4>1
      <4> QED BY <1>8, <3>2, <4>2 DEF Escapes
    <3> HIDE DEF a, s
    <3> QED BY <1>2, <1>4, <3>1, <3>3, <3>4
  <2>3. \A b \in 1 .. a - 1 : frame'[c][b] = frame[c][b]
    BY <1>3
  <2> DEFINE k == a - 1
  <2>4. k \in 0 .. Top(c)
    BY <1>2 DEF Top
  <2> HIDE DEF k
  <2>5. /\ stack' = [stack EXCEPT ![c] = SubSeq(stack[c], 1, k)]
        /\ context'[c] = ContextOf(SubSeq(stack[c], 1, k))
        /\ c = Owner => \A b \in Of(stack[c], "collect") : b <= k
        /\ \A b \in 1 .. k : frame'[c][b] = frame[c][b]
    BY <1>3, <1>6, <2>2, <2>3 DEF k
  <2> QED BY <1>6, <2>1, <2>4, <2>5, CutStep
<1> QED BY <1>7, <1>8

\* The description before the panic runs under one more root frame and one more handler.
LEMMA UnhandledStep ==
  ASSUME IInv, NEW c \in Contexts, Unhandled(c)
  PROVE  IInv'
<1> DEFINE s == stack[c]
           n == Len(s)
           e1 == [kind |-> "root", slots |-> 2]
           e2 == [kind |-> "try", slots |-> 0]
           s1 == Append(s, e1)
           s2 == Append(s1, e2)
           x == context[c]
           x1 == WithRoot(x, n + 1, 2)
           x2 == WithTry(x1, n + 2)
           f == frame[c]
           f2 == frame'[c]
<1>1. /\ s \in Stacks /\ n \in Nat /\ x = ContextOf(s) /\ Recorded(s, f)
      /\ Top(c) = n /\ n + 2 <= Depth[c] /\ n + 1 + 1 = n + 2 /\ Depth[c] \in Nat
  <2>1. s \in Stacks /\ x = ContextOf(s) /\ Recorded(s, f)
    BY DEF IInv, StackInv, ChainInv
  <2>2. n + 2 <= Depth[c] /\ Top(c) = n
    BY DEF Unhandled, Room, Top
  <2>3. Depth[c] \in Nat
    BY FrameAssumption DEF FrameAssumption
  <2>4. n \in Nat
    BY <2>1, StackFacts
  <2> HIDE DEF n
  <2> QED BY <2>1, <2>2, <2>3, <2>4
<1>2. /\ e1 \in Activation /\ e1.kind = "root" /\ e1.slots = 2
      /\ e2 \in Activation /\ e2.kind = "try"
  BY DEF Activation, Kinds
<1>3. /\ stack' = [stack EXCEPT ![c] = s1 \o <<e2>>]
      /\ frame' = [frame EXCEPT ![c][n + 1] = RootFrame(x, 2), ![c][n + 2] = TryFrame(x1)]
      /\ context' = [context EXCEPT ![c] = x2]
      /\ active' = active /\ boundary' = boundary
  BY <1>1 DEF Unhandled, Pushed
<1> HIDE DEF e1, e2
<1>4. s1 \in Stacks /\ Len(s1) = n + 1 /\ s2 \in Stacks /\ Len(s2) = n + 2
  BY <1>1, <1>2, PushedStack
<1>5. s1 \o <<e2>> = s2
  <2> HIDE DEF s1
  <2> QED BY <1>2, <1>4 DEF Stacks
<1>6. x1 = ContextOf(s1)
  <2> HIDE DEF s, n
  <2> QED BY <1>1, <1>2, ContextPushed DEF n
<1>7. x2 = ContextOf(s2)
  <2> HIDE DEF s1, x1, n
  <2> QED BY <1>1, <1>2, <1>4, <1>6, ContextPushed
<1>8. /\ DOMAIN frame' = Contexts /\ DOMAIN context' = Contexts
      /\ DOMAIN f2 = 1 .. Depth[c]
      /\ \A d \in Contexts \ {c} : context'[d] = context[d] /\ frame'[d] = frame[d]
      /\ context'[c] = x2
      /\ \A a \in 1 .. n : f2[a] = f[a]
      /\ f2[n + 1] = RootFrame(x, 2) /\ f2[n + 2] = TryFrame(x1)
  <2>1. DOMAIN context = Contexts /\ DOMAIN frame = Contexts /\ DOMAIN frame[c] = 1 .. Depth[c]
    BY DEF IInv, StackInv
  <2> HIDE DEF n, x1, x2
  <2> QED BY <1>1, <1>3, <2>1
<1>9. Recorded(s2, f2)
  <2> HIDE DEF s, n, f, f2, x, x1
  <2>1. Recorded(s1, f2)
    <3>1. \A a \in 1 .. Len(s) : f2[a] = f[a]
      BY <1>8 DEF n
    <3>2. f2[Len(s) + 1] = RootFrame(ContextOf(s), e1.slots)
      BY <1>1, <1>2, <1>8 DEF n
    <3> QED BY <1>1, <1>2, <3>1, <3>2, RecordedPushed
  <2> HIDE DEF s1
  <2>2. f2[Len(s1) + 1] = TryFrame(ContextOf(s1))
    BY <1>1, <1>4, <1>6, <1>8
  <2> QED BY <1>2, <1>4, <2>1, <2>2, RecordedPushed
<1>10. /\ Of(s2, "collect") = Of(s, "collect")
       /\ \A a \in Of(s2, "collect") : Before(s2, a) = Before(s, a)
  <2>1. /\ Of(s1, "collect") = Of(s, "collect")
        /\ \A a \in Of(s, "collect") : Before(s1, a) = Before(s, a)
    BY <1>1, <1>2, CollectionPushed
  <2> HIDE DEF s1
  <2>2. /\ Of(s2, "collect") = Of(s1, "collect")
        /\ \A a \in Of(s1, "collect") : Before(s2, a) = Before(s1, a)
    BY <1>2, <1>4, CollectionPushed
  <2> HIDE DEF s2, s
  <2> QED BY <2>1, <2>2
<1>11. StackInv' /\ ChainInv'
  <2> HIDE DEF s2, x2
  <2>1. stack' = [stack EXCEPT ![c] = s2] /\ Len(s2) <= Depth[c]
    BY <1>1, <1>3, <1>4, <1>5
  <2>2. context'[c] = ContextOf(s2) /\ Recorded(s2, frame'[c])
        /\ DOMAIN frame'[c] = 1 .. Depth[c]
    BY <1>7, <1>8, <1>9
  <2> QED BY <1>4, <1>8, <2>1, <2>2, ChainStep
<1>12. CollectInv'
  <2> HIDE DEF s2
  <2> QED BY <1>3, <1>4, <1>5, <1>10, SameCollection
<1> QED BY <1>11, <1>12 DEF IInv

-----------------------------------------------------------------------------
\* Empty stacks call for empty contexts.
LEMMA InitIInv == Init => IInv
<1> SUFFICES ASSUME Init PROVE IInv
  OBVIOUS
<1> USE FrameAssumption DEF FrameAssumption
<1>1. << >> \in Stacks /\ Len(<< >>) = 0
  BY EmptySeq DEF Stacks
<1>2. \A kind : Of(<< >>, kind) = {}
  <2>1. \A a : a \notin 1 .. 0
    OBVIOUS
  <2> QED BY <1>1, <2>1 DEF Of
<1>3. StackInv
  BY <1>1 DEF Init, StackInv, Top
<1>4. ContextOf(<< >>) = Empty
  <2>1. \A a : Below({}, a) = Nil
    BY DEF Below
  <2>2. Cardinality({}) = 0
    BY FS_EmptySet
  <2>3. SlotsOf(<< >>) = 0
    <3> DEFINE w == Weights(<< >>)
    <3>1. w \in [1 .. 0 -> Nat]
      BY <1>1 DEF Weights
    <3>2. SlotsOf(<< >>) = Totals(w, 0)[0]
      BY <1>1 DEF SlotsOf, Weights
    <3> HIDE DEF w
    <3>3. IsTotal(Totals(w, 0), w, 0)
      BY <3>1, TotalsDef
    <3> QED BY <3>2, <3>3 DEF IsTotal
  <2> QED BY <1>1, <1>2, <2>1, <2>2, <2>3 DEF ContextOf, Empty
<1>5. ChainInv
  BY <1>1, <1>4 DEF Init, ChainInv, Recorded
<1>6. CollectInv
  BY <1>2 DEF Init, CollectInv
<1> QED BY <1>3, <1>5, <1>6 DEF IInv

\* Every step keeps the invariant.
LEMMA NextIInv == IInv /\ [Next]_vars => IInv'
<1> SUFFICES ASSUME IInv, [Next]_vars PROVE IInv'
  OBVIOUS
<1>1. CASE UNCHANGED vars
  BY <1>1 DEF vars, IInv, StackInv, ChainInv, CollectInv, Top
<1>2. ASSUME NEW c \in Contexts, NEW n \in SlotCounts, RootEnter(c, n) PROVE IInv'
  BY <1>2, RootEnterStep
<1>3. ASSUME NEW c \in Contexts, RootLeave(c) PROVE IInv'
  BY <1>3, RootLeaveStep
<1>4. ASSUME NEW c \in Contexts, TryEnter(c) PROVE IInv'
  BY <1>4, TryEnterStep
<1>5. ASSUME NEW c \in Contexts, TryLeave(c) PROVE IInv'
  BY <1>5, TryLeaveStep
<1>6. ASSUME NEW c \in Contexts, Throw(c) PROVE IInv'
  BY <1>6, ThrowStep
<1>7. ASSUME NEW c \in Contexts, Unhandled(c) PROVE IInv'
  BY <1>7, UnhandledStep
<1>8. CASE CollectBegin
  BY <1>8, CollectBeginStep
<1>9. CASE CollectEnd
  BY <1>9, CollectEndStep
<1>10. CASE Halted
  BY <1>1, <1>10 DEF Halted
<1> QED BY <1>1, <1>2, <1>3, <1>4, <1>5, <1>6, <1>7, <1>8, <1>9, <1>10 DEF Next

(* Everything the runtime keeps is what the C stack calls for.             *)
THEOREM FramesInductive == Spec => []IInv
BY InitIInv, NextIInv, PTL DEF Spec

(* The collector walks exactly the frames that are on the stack and counts *)
(* their slots, and a throw lands in a function that has not returned      *)
(* (embedded_runtime.c:1647-1707, 1842-1848).                              *)
THEOREM ChainsAreExact == Spec => []ChainsExact
<1>1. IInv => ChainsExact
  <2> SUFFICES ASSUME IInv, NEW c \in Contexts
               PROVE  LET roots == At(c, "root")
                          tries == At(c, "try")
                      IN /\ context[c] = [roots |-> Below(roots, Depth[c] + 1),
                                          rootTotal |-> Cardinality(roots),
                                          slotTotal |-> SlotsOf(stack[c]),
                                          tries |-> Below(tries, Depth[c] + 1),
                                          depth |-> Cardinality(tries)]
                         /\ \A a \in roots : frame[c][a] = [previous |-> Below(roots, a),
                                                            slots |-> stack[c][a].slots]
                         /\ \A a \in tries : frame[c][a].previous = Below(tries, a)
    BY DEF ChainsExact
  <2> DEFINE s == stack[c]
  <2>1. /\ s \in Stacks /\ Len(s) \in Nat /\ Len(s) <= Depth[c] /\ Depth[c] \in Nat
        /\ context[c] = ContextOf(s) /\ Recorded(s, frame[c])
    BY StackFacts, FrameAssumption DEF FrameAssumption, IInv, StackInv, ChainInv, Top
  <2>2. \A kind : At(c, kind) = Of(s, kind)
    BY DEF At, Of, Top
  <2>3. \A kind : Below(Of(s, kind), Len(s) + 1) = Below(Of(s, kind), Depth[c] + 1)
    <3> SUFFICES ASSUME NEW kind
                 PROVE  Below(Of(s, kind), Len(s) + 1) = Below(Of(s, kind), Depth[c] + 1)
      OBVIOUS
    <3> HIDE DEF s
    <3> DEFINE S == Of(s, kind)
    <3>1. \A b \in S : b < Len(s) + 1 /\ b < Depth[c] + 1
      BY <2>1 DEF Of
    <3> HIDE DEF S
    <3>2. {b \in S : b < Len(s) + 1} = {b \in S : b < Depth[c] + 1}
      BY <3>1
    <3>3. Below(S, Len(s) + 1) = Below(S, Depth[c] + 1)
      BY <3>2 DEF Below
    <3> QED BY <3>3 DEF S
  <2>4. \A kind : \A a \in Of(s, kind) :
           Below(Of(SubSeq(s, 1, a - 1), kind), Len(SubSeq(s, 1, a - 1)) + 1)
             = Below(Of(s, kind), a)
    <3> SUFFICES ASSUME NEW kind, NEW a \in Of(s, kind)
                 PROVE  Below(Of(SubSeq(s, 1, a - 1), kind), Len(SubSeq(s, 1, a - 1)) + 1)
                          = Below(Of(s, kind), a)
      OBVIOUS
    <3> HIDE DEF s
    <3>1. a - 1 \in 0 .. Len(s) /\ a - 1 + 1 = a
      BY <2>1 DEF Of
    <3>2. Len(SubSeq(s, 1, a - 1)) = a - 1
      BY <2>1, <3>1, CutStack
    <3> QED BY <2>1, <3>1, <3>2, BelowCut
  <2>5. context[c] = [roots |-> Below(At(c, "root"), Depth[c] + 1),
                      rootTotal |-> Cardinality(At(c, "root")),
                      slotTotal |-> SlotsOf(s),
                      tries |-> Below(At(c, "try"), Depth[c] + 1),
                      depth |-> Cardinality(At(c, "try"))]
    <3> HIDE DEF s
    <3> QED BY <2>1, <2>2, <2>3 DEF ContextOf
  <2>6. \A a \in Of(s, "root") : /\ a \in 1 .. Len(s)
                                 /\ frame[c][a] = RootFrame(Before(s, a), s[a].slots)
    <3> HIDE DEF s
    <3> QED BY <2>1 DEF Recorded, Of
  <2>7. \A a \in Of(s, "try") : /\ a \in 1 .. Len(s)
                                /\ frame[c][a] = TryFrame(Before(s, a))
    <3> HIDE DEF s
    <3> QED BY <2>1 DEF Recorded, Of
  <2>8. \A a \in Of(s, "root") : Before(s, a).roots = Below(Of(s, "root"), a)
    <3> HIDE DEF s
    <3> QED BY <2>4 DEF Before, ContextOf
  <2>9. \A a \in Of(s, "try") : Before(s, a).tries = Below(Of(s, "try"), a)
    <3> HIDE DEF s
    <3> QED BY <2>4 DEF Before, ContextOf
  <2>10. \A a \in Of(s, "root") : frame[c][a] = [previous |-> Below(Of(s, "root"), a),
                                                slots |-> s[a].slots]
    <3> HIDE DEF s
    <3> QED BY <2>6, <2>8 DEF RootFrame
  <2>11. \A a \in Of(s, "try") : frame[c][a].previous = Below(Of(s, "try"), a)
    <3> HIDE DEF s
    <3>1. \A x : TryFrame(x).previous = x.tries
      BY DEF TryFrame
    <3>2. ASSUME NEW a \in Of(s, "try")
          PROVE  frame[c][a].previous = Below(Of(s, "try"), a)
      <4>1. frame[c][a] = TryFrame(Before(s, a))
        BY <2>7
      <4>2. TryFrame(Before(s, a)).previous = Before(s, a).tries
        BY <3>1
      <4> QED BY <2>9, <4>1, <4>2
    <3> QED BY <3>2
  <2>12. At(c, "root") = Of(s, "root") /\ At(c, "try") = Of(s, "try")
    BY <2>2
  <2> QED BY <2>5, <2>10, <2>11, <2>12
<1> QED BY <1>1, FramesInductive, PTL

(* A collection is active exactly while it is on the stack, whatever its   *)
(* callbacks throw and catch (embedded_runtime.c:1839-1841).               *)
THEOREM ActiveIsOnStack == Spec => []ActiveMeansOnStack
<1>1. IInv => ActiveMeansOnStack
  <2> SUFFICES ASSUME IInv
               PROVE  /\ active <=> At(Owner, "collect") # {}
                      /\ Cardinality(At(Owner, "collect")) <= 1
    BY DEF ActiveMeansOnStack
  <2>1. At(Owner, "collect") = Of(stack[Owner], "collect")
    BY DEF At, Of, Top
  <2> DEFINE S == Of(stack[Owner], "collect")
  <2>2. (active <=> S # {}) /\ \A a, b \in S : a = b
    BY DEF IInv, CollectInv
  <2> HIDE DEF S
  <2>3. Cardinality(S) <= 1
    <3>1. CASE S = {}
      BY <3>1, FS_EmptySet
    <3>2. CASE S # {}
      <4>1. PICK a \in S : S = {a}
        BY <2>2, <3>2
      <4>2. Cardinality({a}) = 1
        BY FS_Singleton
      <4> QED BY <4>1, <4>2
    <3> QED BY <3>1, <3>2
  <2> QED BY <2>1, <2>2, <2>3 DEF S
<1> QED BY <1>1, FramesInductive, PTL
=============================================================================
