------------------------- MODULE HeapAllocatorProof -------------------------
(***************************************************************************)
(* For any arena, header, alignment and word size, and any requests: the   *)
(* links, the free list and the counters are exact after any mixture of    *)
(* allocations, releases, extensions and sweeps, the runtime's integrity   *)
(* check passes, and the allocator implements ArenaContract.               *)
(*                                                                         *)
(* The argument: the blocks tile the arena up to its offset (Tiled), and   *)
(* the links are those of the tiling, so they are the same whichever way   *)
(* the blocks came about.  Growing, splitting and absorbing a successor    *)
(* each keep a tiling; release and sweep are made of the last.  The sweep  *)
(* is a pass over addresses, and its proof an induction over them.         *)
(***************************************************************************)
EXTENDS HeapAllocator, FiniteSetTheorems, SequenceTheorems, TLAPS

-----------------------------------------------------------------------------
Link == Int \cup {Nil}
HeaderType == [prev : Link, next : Link, cap : Nat, size : Nat, kind : Kinds \cup {"free"}]

After(blk, b) == b + Header + blk[b].cap

\* The blocks of blk fill the arena up to top.
Tiles(blk, top) ==
    /\ top \in 0 .. ArenaSize /\ top % Align = 0
    /\ blk \in [DOMAIN blk -> HeaderType] /\ DOMAIN blk \subseteq Nat
    /\ \A b \in DOMAIN blk : blk[b].cap >= 1 /\ b % Align = 0 /\ blk[b].cap % Align = 0
    /\ \A b \in DOMAIN blk : After(blk, b) <= top
    /\ \A b \in DOMAIN blk : After(blk, b) < top => After(blk, b) \in DOMAIN blk
    /\ \A b, c \in DOMAIN blk : b < c => After(blk, b) <= c
    /\ top # 0 => 0 \in DOMAIN blk

\* The links are those of the tiling.
Linked(blk, top) ==
    /\ \A b \in DOMAIN blk :
          /\ blk[b].next = IF After(blk, b) < top THEN After(blk, b) ELSE Nil
          /\ IF b = 0 THEN blk[b].prev = Nil
                      ELSE blk[b].prev \in DOMAIN blk /\ After(blk, blk[b].prev) = b

Tiled(blk, top) == Tiles(blk, top) /\ Linked(blk, top)

LastIs(blk, top, l) == IF top = 0 THEN l = Nil ELSE l \in DOMAIN blk /\ After(blk, l) = top

\* What is free has no requested bytes, and what is not, some that fit.
Labelled(blk) ==
    \A b \in DOMAIN blk : IF blk[b].kind = "free" THEN blk[b].size = 0
                                                  ELSE blk[b].size \in 1 .. blk[b].cap

Frees(blk) == {b \in DOMAIN blk : blk[b].kind = "free"}

\* No two free blocks are neighbours.
Merged(blk) == \A b, c \in Frees(blk) : After(blk, b) # c

InUse(blk) == {b \in DOMAIN blk : blk[b].kind # "free"}

\* In r the blocks of S are in use, as they were in blk, and no others.
Keeps(r, blk, S) ==
    /\ InUse(r) = S
    /\ \A b \in S : b \in DOMAIN blk /\ r[b].size = blk[b].size /\ r[b].kind = blk[b].kind

\* In r the block b is in use too, with n bytes requested of the kind k.
Granted(r, blk, b, n, k) ==
    /\ b \notin InUse(blk) /\ b \in DOMAIN r
    /\ InUse(r) = InUse(blk) \cup {b}
    /\ r[b].size = n /\ r[b].kind = k /\ n \in 1 .. r[b].cap
    /\ \A x \in InUse(blk) : r[x].size = blk[x].size /\ r[x].kind = blk[x].kind

\* f lists the addresses of F, each once.
Lists(f, F) == f \in Seq(Int) /\ IsInjective(f) /\ ToSet(f) = F

ExtendInv ==
    \/ extend = NoExtend
    \/ /\ extend.step = "allocate"
       /\ extend \in [step : {"allocate"}, from : RawBlocks, size : Nat,
                      newSize : 1 .. WordMax, oldSize : Nat]
       /\ extend.oldSize = block[extend.from].size
    \/ /\ extend.step = "copied"
       /\ extend \in [step : {"copied"}, from : RawBlocks, to : RawBlocks, copied : Nat]
       /\ extend.from # extend.to
       /\ extend.copied <= block[extend.from].size
       /\ extend.copied <= block[extend.to].size

HeapInv ==
    /\ Tiled(block, offset)
    /\ LastIs(block, offset, last)
    /\ first = IF offset = 0 THEN Nil ELSE 0
    /\ Labelled(block)
    /\ Merged(block)
    /\ Lists(free, Frees(block))

LiveType == live \in [Managed -> [n : Nat, bytes : Nat]]

CoreInv == HeapInv /\ ExtendInv /\ LiveType /\ CountersValid

HighInv == highWater \in Nat /\ offset <= highWater /\ highWater <= ArenaSize

IInv == CoreInv /\ HighInv

-----------------------------------------------------------------------------
\* A set of naturals closed under successor holds them all.
LEMMA SetInduction ==
  ASSUME NEW S, 0 \in S, \A n \in Nat : n \in S => n + 1 \in S
  PROVE  Nat \subseteq S
<1> SUFFICES ASSUME Nat \ S # {} PROVE FALSE
  OBVIOUS
<1> DEFINE Less == {p \in Nat \X Nat : p[1] < p[2]}
<1>1. PICK x \in Nat \ S : \A y \in Nat \ S : <<y, x>> \notin Less
  <2>1. IsWellFoundedOn(Less, Nat)
    BY NatLessThanWellFounded DEF OpToRel
  <2> HIDE DEF Less
  <2> QED BY <2>1, WFMin
<1>2. x - 1 \in Nat \ S /\ <<x - 1, x>> \in Less
  OBVIOUS
<1> QED BY <1>1, <1>2

-----------------------------------------------------------------------------
(* Arithmetic.                                                             *)

LEMMA Divides ==
  ASSUME NEW a \in Nat, NEW d \in Nat \ {0}, a % d = 0
  PROVE  a \div d \in Nat /\ a = d * (a \div d)
OBVIOUS

LEMMA Divisible ==
  ASSUME NEW a \in Nat, NEW d \in Nat \ {0}, NEW q \in Int, a = d * q
  PROVE  a % d = 0
OBVIOUS

LEMMA DivisibleSum ==
  ASSUME NEW a \in Nat, NEW b \in Nat, NEW d \in Nat \ {0}, a % d = 0, b % d = 0
  PROVE  /\ (a + b) % d = 0
         /\ b <= a => (a - b) % d = 0
<1> DEFINE q == a \div d
           r == b \div d
<1>1. q \in Nat /\ a = d * q /\ r \in Nat /\ b = d * r
  BY Divides
<1> HIDE DEF q, r
<1>2. a + b = d * (q + r) /\ a - b = d * (q - r)
  BY <1>1
<1> QED BY <1>1, <1>2, Divisible

\* A size that the alignment does not wrap is rounded up to a multiple.
LEMMA AlignedSize ==
  ASSUME NEW n \in 1 .. WordMax, AlignSize(n) >= n
  PROVE  AlignSize(n) \in Nat /\ AlignSize(n) >= 1 /\ AlignSize(n) % Align = 0
<1> DEFINE sum == (n + Align - 1) % (WordMax + 1)
<1>1. Align \in Nat \ {0} /\ WordMax \in Nat
  BY HeapAssumption
<1>2. sum \in Nat
  <2>1. n + Align - 1 \in Nat /\ WordMax + 1 \in Nat \ {0}
    BY <1>1
  <2> QED BY <2>1
<1>3. AlignSize(n) = sum - (sum % Align)
  BY DEF AlignSize
<1> HIDE DEF sum
<1>4. sum % Align \in 0 .. sum
  BY <1>1, <1>2
<1>5. (sum - (sum % Align)) % Align = 0
  <2> DEFINE q == sum \div Align
  <2>1. q \in Nat /\ sum = (Align * q) + (sum % Align)
    BY <1>1, <1>2
  <2> HIDE DEF q
  <2> DEFINE r == sum - (sum % Align)
  <2>2. r = Align * q /\ r \in Nat
    BY <1>1, <1>2, <1>4, <2>1
  <2> HIDE DEF r
  <2>3. r % Align = 0
    BY <1>1, <2>1, <2>2, Divisible
  <2> QED BY <2>3 DEF r
<1>6. AlignSize(n) \in Int /\ WordMax \in Nat
  BY <1>1, <1>2, <1>3, <1>4
<1> QED BY <1>2, <1>3, <1>4, <1>5, <1>6

-----------------------------------------------------------------------------
(* Tilings.                                                                *)

LEMMA Addresses ==
  ASSUME NEW blk, NEW top, Tiles(blk, top), NEW b \in DOMAIN blk
  PROVE  /\ b \in Nat /\ top \in Nat /\ blk[b] \in HeaderType
         /\ blk[b].cap \in Nat /\ blk[b].size \in Nat
         /\ After(blk, b) \in Nat /\ b < After(blk, b) /\ After(blk, b) <= top
         /\ b % Align = 0 /\ After(blk, b) % Align = 0
<1>1. b \in Nat /\ top \in Nat /\ blk[b] \in HeaderType
  BY HeapAssumption DEF Tiles
<1>2. blk[b].cap \in Nat /\ blk[b].size \in Nat /\ Header \in Nat \ {0} /\ Align \in Nat \ {0}
  BY <1>1, HeapAssumption DEF HeaderType
<1>3. After(blk, b) \in Nat /\ b < After(blk, b) /\ After(blk, b) <= top
  BY <1>1, <1>2 DEF After, Tiles
<1>4. b % Align = 0 /\ blk[b].cap % Align = 0 /\ Header % Align = 0
  BY HeapAssumption DEF Tiles
<1>5. (b + Header) % Align = 0 /\ b + Header \in Nat
  BY <1>1, <1>2, <1>4, DivisibleSum
<1>6. After(blk, b) % Align = 0
  BY <1>2, <1>4, <1>5, DivisibleSum DEF After
<1> QED BY <1>1, <1>2, <1>3, <1>4, <1>6

\* Blocks that end at the same place are the same.
LEMMA AfterUnique ==
  ASSUME NEW blk, NEW top, Tiles(blk, top), NEW b \in DOMAIN blk, NEW c \in DOMAIN blk,
         After(blk, b) = After(blk, c)
  PROVE  b = c
<1>1. /\ b \in Nat /\ After(blk, b) \in Nat /\ b < After(blk, b)
      /\ c \in Nat /\ After(blk, c) \in Nat /\ c < After(blk, c)
  BY Addresses
<1>2. ASSUME b < c PROVE FALSE
  <2>1. After(blk, b) <= c
    BY <1>2 DEF Tiles
  <2> QED BY <1>1, <2>1
<1>3. ASSUME c < b PROVE FALSE
  <2>1. After(blk, c) <= b
    BY <1>3 DEF Tiles
  <2> QED BY <1>1, <2>1
<1> QED BY <1>1, <1>2, <1>3

\* The links of neighbours are each other's.
LEMMA Neighbours ==
  ASSUME NEW blk, NEW top, Tiled(blk, top), NEW b \in DOMAIN blk
  PROVE  /\ blk[b].next # Nil => /\ blk[b].next = After(blk, b) /\ blk[b].next \in DOMAIN blk
                                 /\ blk[blk[b].next].prev = b /\ After(blk, b) < top
         /\ blk[b].prev # Nil => /\ blk[b].prev \in DOMAIN blk /\ blk[blk[b].prev].next = b
                                 /\ After(blk, blk[b].prev) = b
         /\ blk[b].next = Nil => After(blk, b) = top
<1>1. Nil \notin Int /\ 0 \in Int
  BY HeapAssumption
<1>2. /\ b \in Nat /\ After(blk, b) \in Nat /\ b < After(blk, b) /\ After(blk, b) <= top
      /\ top \in Nat
  BY Addresses DEF Tiled
<1>3. blk[b].next = IF After(blk, b) < top THEN After(blk, b) ELSE Nil
  BY DEF Tiled, Linked
<1>4. ASSUME blk[b].next # Nil
      PROVE  /\ blk[b].next = After(blk, b) /\ blk[b].next \in DOMAIN blk
             /\ blk[blk[b].next].prev = b /\ After(blk, b) < top
  <2>1. blk[b].next = After(blk, b) /\ After(blk, b) < top /\ After(blk, b) \in DOMAIN blk
    BY <1>3, <1>4 DEF Tiled, Tiles
  <2> DEFINE c == After(blk, b)
  <2>2. c # 0 /\ c \in DOMAIN blk
    BY <1>2, <2>1
  <2> HIDE DEF c
  <2>3. blk[c].prev \in DOMAIN blk /\ After(blk, blk[c].prev) = c
    BY <2>2 DEF Tiled, Linked
  <2>4. blk[c].prev = b
    BY <2>3, AfterUnique DEF Tiled, c
  <2> QED BY <2>1, <2>4 DEF c
<1>5. ASSUME blk[b].prev # Nil
      PROVE  /\ blk[b].prev \in DOMAIN blk /\ blk[blk[b].prev].next = b
             /\ After(blk, blk[b].prev) = b
  <2>1. blk[b].prev \in DOMAIN blk /\ After(blk, blk[b].prev) = b
    BY <1>5 DEF Tiled, Linked
  <2>2. b < top
    BY <1>2
  <2> QED BY <2>1, <2>2 DEF Tiled, Linked
<1>6. blk[b].next = Nil => After(blk, b) = top
  BY <1>1, <1>2, <1>3
<1> QED BY <1>4, <1>5, <1>6

-----------------------------------------------------------------------------
(* A block takes over its successor.                                       *)

\* r is what becomes of blk when its block at b takes over the one at c.
Absorbed(r, blk, b, c) ==
    /\ DOMAIN r = DOMAIN blk \ {c} /\ b # c /\ c = After(blk, b)
    /\ r = [x \in DOMAIN r |-> r[x]]
    /\ \A x \in DOMAIN r :
          /\ r[x] \in HeaderType
          /\ r[x].size = blk[x].size /\ r[x].kind = blk[x].kind
          /\ r[x].cap = IF x = b THEN blk[b].cap + Header + blk[c].cap ELSE blk[x].cap
          /\ r[x].next = IF x = b THEN blk[c].next ELSE blk[x].next
          /\ r[x].prev = IF x = blk[c].next THEN b ELSE blk[x].prev

LEMMA AbsorbFields ==
  ASSUME NEW blk, NEW top, Tiled(blk, top), NEW b \in DOMAIN blk,
         NEW c \in DOMAIN blk, blk[b].next = c
  PROVE  Absorbed(AbsorbNext(blk, b), blk, b, c)
<1>1. /\ b \in Nat /\ c \in Nat /\ b < After(blk, b) /\ c < After(blk, c)
      /\ Header \in Nat /\ \A x \in DOMAIN blk : blk[x] \in HeaderType
  BY Addresses, HeapAssumption DEF Tiled, Tiles
<1>2. c = After(blk, b) /\ c # Nil
  BY <1>1, Neighbours, HeapAssumption
<1>3. b # c /\ blk[c].next # b /\ blk[c].next # c
  <2>1. blk[c].next \in {Nil, After(blk, c)}
    BY DEF Tiled, Linked
  <2>2. After(blk, c) # b /\ After(blk, c) # c /\ Nil # b /\ Nil # c
    BY <1>1, <1>2, HeapAssumption
  <2>3. After(blk, c) \in Int /\ After(blk, b) \in Int
    BY Addresses DEF Tiled
  <2> QED BY <1>1, <1>2, <2>1, <2>2, <2>3
<1> DEFINE r == AbsorbNext(blk, b)
           hb == [blk[b] EXCEPT !.cap = @ + Header + blk[c].cap, !.next = blk[c].next]
           hx(x) == [blk[x] EXCEPT !.prev = b]
<1>4. r = [x \in DOMAIN blk \ {c} |-> IF x = b THEN hb
                                      ELSE IF x = blk[c].next THEN hx(x) ELSE blk[x]]
  BY DEF AbsorbNext
<1>5. /\ hb \in HeaderType
      /\ hb.size = blk[b].size /\ hb.kind = blk[b].kind /\ hb.prev = blk[b].prev
      /\ hb.cap = blk[b].cap + Header + blk[c].cap /\ hb.next = blk[c].next
  <2> DEFINE n == blk[b].cap + Header + blk[c].cap
             g == [blk[b] EXCEPT !.cap = n]
  <2>1. blk[b].cap \in Nat /\ blk[c].cap \in Nat /\ blk[c].next \in Link
    BY <1>1 DEF HeaderType
  <2>2. n \in Nat
    BY <1>1, <2>1
  <2>3. hb = [g EXCEPT !.next = blk[c].next]
    OBVIOUS
  <2> HIDE DEF n, hb
  <2>4. /\ g \in HeaderType /\ g.cap = n
        /\ g.size = blk[b].size /\ g.kind = blk[b].kind /\ g.prev = blk[b].prev
    BY <1>1, <2>2 DEF HeaderType
  <2> HIDE DEF g
  <2>5. /\ hb \in HeaderType /\ hb.cap = n /\ hb.next = blk[c].next
        /\ hb.size = blk[b].size /\ hb.kind = blk[b].kind /\ hb.prev = blk[b].prev
    BY <2>1, <2>3, <2>4 DEF HeaderType
  <2> QED BY <2>5 DEF n
<1>6. \A x \in DOMAIN blk : /\ hx(x) \in HeaderType
                            /\ hx(x).size = blk[x].size /\ hx(x).kind = blk[x].kind
                            /\ hx(x).cap = blk[x].cap /\ hx(x).next = blk[x].next
                            /\ hx(x).prev = b
  BY <1>1 DEF HeaderType, Link
<1> HIDE DEF hb, hx, r
<1>7. DOMAIN r = DOMAIN blk \ {c} /\ r = [x \in DOMAIN r |-> r[x]]
  BY <1>4
<1>8. ASSUME NEW x \in DOMAIN r
      PROVE  /\ r[x] \in HeaderType
             /\ r[x].size = blk[x].size /\ r[x].kind = blk[x].kind
             /\ r[x].cap = IF x = b THEN blk[b].cap + Header + blk[c].cap ELSE blk[x].cap
             /\ r[x].next = IF x = b THEN blk[c].next ELSE blk[x].next
             /\ r[x].prev = IF x = blk[c].next THEN b ELSE blk[x].prev
  <2>1. CASE x = b
    BY <1>3, <1>4, <1>5, <1>7, <2>1
  <2>2. CASE x # b /\ x = blk[c].next
    BY <1>4, <1>6, <1>7, <2>2
  <2>3. CASE x # b /\ x # blk[c].next
    BY <1>1, <1>4, <1>7, <2>3
  <2> QED BY <2>1, <2>2, <2>3
<1>9. Absorbed(r, blk, b, c)
  BY <1>2, <1>3, <1>7, <1>8 DEF Absorbed
<1> QED BY <1>9 DEF r

LEMMA AbsorbTiles ==
  ASSUME NEW blk, NEW top, Tiled(blk, top), NEW b \in DOMAIN blk,
         NEW c \in DOMAIN blk, blk[b].next = c, NEW r, Absorbed(r, blk, b, c)
  PROVE  /\ Tiled(r, top)
         /\ \A x \in DOMAIN r : After(r, x) = IF x = b THEN After(blk, c) ELSE After(blk, x)
<1>1. \A x \in DOMAIN blk : /\ x \in Nat /\ blk[x].cap \in Nat /\ After(blk, x) \in Nat
                            /\ x < After(blk, x) /\ x % Align = 0 /\ After(blk, x) % Align = 0
                            /\ After(blk, x) <= top
  BY Addresses DEF Tiled
<1>2. /\ Header \in Nat \ {0} /\ Align \in Nat \ {0} /\ Nil \notin Int /\ Header % Align = 0
      /\ top \in Nat
  BY HeapAssumption DEF Tiled, Tiles
<1>3. DOMAIN r = DOMAIN blk \ {c} /\ b # c /\ c = After(blk, b)
  BY DEF Absorbed
<1>4. \A x \in DOMAIN r :
              /\ r[x] \in HeaderType
              /\ r[x].cap = IF x = b THEN blk[b].cap + Header + blk[c].cap ELSE blk[x].cap
              /\ r[x].next = IF x = b THEN blk[c].next ELSE blk[x].next
              /\ r[x].prev = IF x = blk[c].next THEN b ELSE blk[x].prev
  BY DEF Absorbed
<1>5. \A x \in DOMAIN r : After(r, x) = IF x = b THEN After(blk, c) ELSE After(blk, x)
  BY <1>1, <1>2, <1>3, <1>4 DEF After
<1>6. Tiles(r, top)
  <2>1. r \in [DOMAIN r -> HeaderType]
    <3>1. r = [x \in DOMAIN r |-> r[x]]
      BY DEF Absorbed
    <3> QED BY <1>4, <3>1
  <2>2. \A x \in DOMAIN r : r[x].cap >= 1 /\ x % Align = 0 /\ r[x].cap % Align = 0
    <3>1. \A x \in DOMAIN blk : blk[x].cap >= 1 /\ blk[x].cap % Align = 0
      BY DEF Tiled, Tiles
    <3>2. (blk[b].cap + Header) % Align = 0 /\ blk[b].cap + Header \in Nat
      <4>1. /\ blk[b].cap \in Nat /\ blk[b].cap % Align = 0
            /\ Header \in Nat /\ Header % Align = 0 /\ Align \in Nat \ {0}
        BY <1>1, <1>2, <3>1
      <4> DEFINE x == blk[b].cap
      <4>2. x \in Nat /\ x % Align = 0
        BY <4>1
      <4> HIDE DEF x
      <4>3. (x + Header) % Align = 0
        BY <4>1, <4>2, DivisibleSum
      <4> QED BY <4>1, <4>3 DEF x
    <3>3. (blk[b].cap + Header + blk[c].cap) % Align = 0
      BY <1>1, <1>2, <3>1, <3>2, DivisibleSum
    <3>4. blk[b].cap + Header + blk[c].cap >= 1
      BY <1>1, <1>2, <3>1
    <3> QED BY <1>1, <1>3, <1>4, <3>1, <3>3, <3>4
  <2>3. \A x \in DOMAIN r : After(r, x) <= top
    BY <1>1, <1>3, <1>5
  <2>4. ASSUME NEW x \in DOMAIN r, After(r, x) < top PROVE After(r, x) \in DOMAIN r
    <3> DEFINE y == IF x = b THEN c ELSE x
    <3>1. y \in DOMAIN blk /\ y # b /\ After(r, x) = After(blk, y)
      BY <1>3, <1>5
    <3>2. After(blk, y) \in DOMAIN blk
      BY <2>4, <3>1 DEF Tiled, Tiles
    <3>3. After(blk, y) # After(blk, b)
      BY <3>1, AfterUnique DEF Tiled
    <3> QED BY <1>3, <3>1, <3>2, <3>3
  <2>5. ASSUME NEW x \in DOMAIN r, NEW z \in DOMAIN r, x < z PROVE After(r, x) <= z
    <3>1. x \in DOMAIN blk /\ z \in DOMAIN blk /\ z # c /\ After(blk, x) <= z
      BY <1>3, <2>5 DEF Tiled, Tiles
    <3>2. CASE x = b
      <4>1. c < z
        BY <1>1, <1>3, <3>1, <3>2
      <4>2. After(blk, c) <= z
        BY <3>1, <4>1 DEF Tiled, Tiles
      <4> QED BY <1>5, <3>2, <4>2
    <3>3. CASE x # b
      BY <1>5, <3>1, <3>3
    <3> QED BY <3>2, <3>3
  <2>6. top # 0 => 0 \in DOMAIN r
    <3>1. c # 0
      BY <1>1, <1>3
    <3> QED BY <1>3, <3>1 DEF Tiled, Tiles
  <2> QED BY <1>3, <2>1, <2>2, <2>3, <2>4, <2>5, <2>6 DEF Tiled, Tiles
<1>7. ASSUME NEW x \in DOMAIN r
      PROVE  /\ r[x].next = IF After(r, x) < top THEN After(r, x) ELSE Nil
             /\ IF x = 0 THEN r[x].prev = Nil
                         ELSE r[x].prev \in DOMAIN r /\ After(r, r[x].prev) = x
  <2>1. /\ blk[x].next = IF After(blk, x) < top THEN After(blk, x) ELSE Nil
        /\ blk[c].next = IF After(blk, c) < top THEN After(blk, c) ELSE Nil
        /\ IF x = 0 THEN blk[x].prev = Nil
                    ELSE blk[x].prev \in DOMAIN blk /\ After(blk, blk[x].prev) = x
    BY <1>3 DEF Tiled, Linked
  <2>2. r[x].next = IF After(r, x) < top THEN After(r, x) ELSE Nil
    BY <1>4, <1>5, <2>1
  <2>3. CASE x = blk[c].next
    <3>1. x = After(blk, c) /\ x # 0
      BY <1>1, <1>2, <1>3, <2>1, <2>3
    <3> QED BY <1>3, <1>4, <1>5, <2>2, <2>3, <3>1
  <2>4. CASE x # blk[c].next /\ x = 0
    BY <1>4, <2>1, <2>2, <2>4
  <2>5. CASE x # blk[c].next /\ x # 0
    <3>1. blk[x].prev \in DOMAIN blk /\ After(blk, blk[x].prev) = x /\ r[x].prev = blk[x].prev
      BY <1>4, <2>1, <2>5
    <3>2. blk[x].prev # c
      <4>1. x < top
        BY <1>1, <1>2, <1>3
      <4> QED BY <2>1, <2>5, <3>1, <4>1
    <3>3. blk[x].prev # b
      BY <1>3, <3>1
    <3> QED BY <1>3, <1>5, <2>2, <2>5, <3>1, <3>2, <3>3
  <2> QED BY <2>3, <2>4, <2>5
<1> QED BY <1>5, <1>6, <1>7 DEF Tiled, Linked

-----------------------------------------------------------------------------
(* A block gets another label, and nothing else changes.                   *)

Relabelled(r, blk) ==
    /\ DOMAIN r = DOMAIN blk
    /\ r = [x \in DOMAIN r |-> r[x]]
    /\ \A x \in DOMAIN blk : /\ r[x] \in HeaderType
                             /\ r[x].prev = blk[x].prev /\ r[x].next = blk[x].next
                             /\ r[x].cap = blk[x].cap

LEMMA RelabelTiles ==
  ASSUME NEW blk, NEW top, Tiled(blk, top), NEW r, Relabelled(r, blk)
  PROVE  /\ Tiled(r, top)
         /\ \A x \in DOMAIN blk : After(r, x) = After(blk, x)
<1>1. \A x \in DOMAIN blk : After(r, x) = After(blk, x)
  BY DEF After, Relabelled
<1>2. DOMAIN r = DOMAIN blk /\ r \in [DOMAIN r -> HeaderType]
  BY DEF Relabelled
<1>3. Tiles(r, top)
  BY <1>1, <1>2 DEF Tiled, Tiles, Relabelled
<1>4. Linked(r, top)
  BY <1>1, <1>2 DEF Tiled, Linked, Relabelled
<1> QED BY <1>1, <1>3, <1>4 DEF Tiled

\* In r the block b is labelled with n and k.
Labels(r, blk, b, n, k) ==
    /\ Relabelled(r, blk)
    /\ r[b].size = n /\ r[b].kind = k
    /\ \A x \in DOMAIN blk : x # b => r[x] = blk[x]

LEMMA LabelFields ==
  ASSUME NEW blk, NEW top, Tiles(blk, top), NEW b \in DOMAIN blk,
         NEW n \in Nat, NEW k \in Kinds \cup {"free"},
         NEW r, r = [blk EXCEPT ![b].size = n, ![b].kind = k]
  PROVE  Labels(r, blk, b, n, k)
<1> DEFINE g == [blk[b] EXCEPT !.size = n]
           h == [g EXCEPT !.kind = k]
<1>1. \A x \in DOMAIN blk : blk[x] \in HeaderType
  BY DEF Tiles
<1>2. blk = [x \in DOMAIN blk |-> blk[x]]
  BY DEF Tiles
<1>3. /\ g \in HeaderType /\ g.size = n /\ g.kind = blk[b].kind
      /\ g.prev = blk[b].prev /\ g.next = blk[b].next /\ g.cap = blk[b].cap
  BY <1>1 DEF HeaderType
<1>4. r = [blk EXCEPT ![b] = h]
  <2> DEFINE q == [blk EXCEPT ![b].size = n]
  <2>1. r = [q EXCEPT ![b].kind = k]
    OBVIOUS
  <2>2. q = [blk EXCEPT ![b] = g]
    OBVIOUS
  <2>3. q[b] = g
    BY <2>2
  <2> HIDE DEF g
  <2>4. r = [q EXCEPT ![b] = h]
    BY <2>1, <2>3
  <2> HIDE DEF h, q
  <2> QED BY <1>2, <2>2, <2>4
<1> HIDE DEF g
<1>5. /\ h \in HeaderType /\ h.size = n /\ h.kind = k
      /\ h.prev = blk[b].prev /\ h.next = blk[b].next /\ h.cap = blk[b].cap
  BY <1>3 DEF HeaderType
<1> HIDE DEF h
<1>6. DOMAIN r = DOMAIN blk /\ r[b] = h /\ \A x \in DOMAIN blk : x # b => r[x] = blk[x]
  BY <1>4
<1>7. r = [x \in DOMAIN r |-> r[x]]
  BY <1>2, <1>4
<1> QED BY <1>1, <1>5, <1>6, <1>7 DEF Relabelled, Labels

-----------------------------------------------------------------------------
(* The free list.                                                          *)

LEMMA ListsEmpty == Lists(<< >>, {})
BY DEF Lists, IsInjective, ToSet

LEMMA ListsRemoveAt ==
  ASSUME NEW f, NEW F, Lists(f, F), NEW i \in DOMAIN f
  PROVE  Lists(RemoveAt(f, i), F \ {f[i]})
<1>1. f \in Seq(Int) /\ Len(f) \in Nat /\ i \in 1 .. Len(f)
  BY DEF Lists
<1> DEFINE r == RemoveAt(f, i)
<1>2. /\ r \in Seq(Int) /\ Len(r) = Len(f) - 1
      /\ \A j \in 1 .. Len(r) : r[j] = IF j < i THEN f[j] ELSE f[j + 1]
  <2> DEFINE a == SubSeq(f, 1, i - 1)
             c == SubSeq(f, i + 1, Len(f))
  <2>1. /\ a \in Seq(Int) /\ Len(a) = i - 1 /\ DOMAIN a = 1 .. i - 1
        /\ \A j \in 1 .. i - 1 : a[j] = f[j]
    BY <1>1
  <2>2. /\ c \in Seq(Int) /\ Len(c) = Len(f) - i /\ DOMAIN c = 1 .. Len(f) - i
        /\ \A j \in 1 .. Len(f) - i : c[j] = f[j + i]
    <3>1. /\ i + 1 \in Int /\ Len(f) \in Int /\ \A k \in i + 1 .. Len(f) : f[k] \in Int
          /\ i \in Int /\ i <= Len(f)
      BY <1>1
    <3>2. /\ c \in Seq(Int)
          /\ Len(c) = IF i + 1 <= Len(f) THEN Len(f) - (i + 1) + 1 ELSE 0
          /\ \A k \in 1 .. Len(f) - (i + 1) + 1 : c[k] = f[i + 1 + k - 1]
      BY <3>1, SubSeqProperties
    <3> HIDE DEF c
    <3>3. Len(c) = Len(f) - i /\ Len(f) - (i + 1) + 1 = Len(f) - i
      BY <3>1, <3>2
    <3>4. DOMAIN c = 1 .. Len(f) - i
      BY <3>2, <3>3
    <3>5. \A j \in 1 .. Len(f) - i : i + 1 + j - 1 = j + i
      BY <3>1
    <3> QED BY <3>2, <3>3, <3>4, <3>5
  <2>3. r = a \o c
    BY DEF RemoveAt
  <2> HIDE DEF a, c, r
  <2>4. r \in Seq(Int) /\ Len(r) = Len(f) - 1 /\ DOMAIN r = 1 .. Len(r)
    BY <1>1, <2>1, <2>2, <2>3
  <2>5. ASSUME NEW j \in 1 .. Len(r) PROVE r[j] = IF j < i THEN f[j] ELSE f[j + 1]
    <3>1. CASE j < i
      <4>1. j \in DOMAIN a /\ j <= Len(a)
        BY <1>1, <2>1, <2>4, <3>1
      <4>2. r[j] = a[j]
        BY <2>1, <2>2, <2>3, <4>1
      <4> QED BY <2>1, <3>1, <4>1, <4>2
    <3>2. CASE ~(j < i)
      <4>1. /\ j \in Int /\ i \in Int /\ Len(f) \in Int /\ Len(a) \in Int /\ Len(c) \in Int
            /\ Len(r) = Len(f) - 1 /\ Len(a) = i - 1 /\ Len(c) = Len(f) - i
        BY <1>1, <2>1, <2>2, <2>4
      <4>2. 1 <= j /\ j <= Len(f) - 1 /\ i <= j
        BY <3>2, <4>1
      <4> DEFINE m == j - Len(a)
      <4>3. m \in 1 .. Len(f) - i /\ m + i = j + 1 /\ ~(j <= Len(a)) /\ j <= Len(a) + Len(c)
        <5>1. m = (j - i) + 1
          BY <4>1
        <5> HIDE DEF m
        <5>2. m \in 1 .. Len(f) - i /\ m + i = j + 1
          BY <4>1, <4>2, <5>1
        <5>3. ~(j <= Len(a)) /\ j <= Len(a) + Len(c)
          BY <4>1, <4>2
        <5> QED BY <5>2, <5>3
      <4>4. r[j] = c[j - Len(a)]
        <5>1. j \in 1 .. (Len(a) + Len(c))
          BY <4>1, <4>2, <4>3
        <5>2. \A k \in 1 .. (Len(a) + Len(c)) :
                 (a \o c)[k] = IF k <= Len(a) THEN a[k] ELSE c[k - Len(a)]
          BY <2>1, <2>2, ConcatProperties, Zenon
        <5> QED BY <2>3, <4>3, <5>1, <5>2, Zenon
      <4>5. c[m] = f[m + i]
        BY <2>2, <4>3
      <4> QED BY <3>2, <4>3, <4>4, <4>5
    <3> QED BY <3>1, <3>2
  <2> QED BY <2>4, <2>5
<1>3. /\ DOMAIN r = 1 .. Len(r) /\ DOMAIN f = 1 .. Len(f)
      /\ \A j \in DOMAIN r : j \in Int /\ j \in DOMAIN f /\ j + 1 \in DOMAIN f
  <2> HIDE DEF r
  <2>1. DOMAIN r = 1 .. Len(r) /\ DOMAIN f = 1 .. Len(f) /\ Len(r) = Len(f) - 1
    BY <1>1, <1>2
  <2> QED BY <1>1, <2>1
<1> HIDE DEF r
<1>4. \A j, k \in DOMAIN f : f[j] = f[k] => j = k
  BY DEF Lists, IsInjective
<1>5. \A j \in DOMAIN r : r[j] = IF j < i THEN f[j] ELSE f[j + 1]
  BY <1>2, <1>3
<1>6. IsInjective(r)
  <2> SUFFICES ASSUME NEW j \in DOMAIN r, NEW k \in DOMAIN r, r[j] = r[k] PROVE j = k
    BY DEF IsInjective
  <2>1. \E a \in {j, j + 1}, b \in {k, k + 1} :
           /\ a \in DOMAIN f /\ b \in DOMAIN f /\ f[a] = f[b]
           /\ a = (IF j < i THEN j ELSE j + 1) /\ b = (IF k < i THEN k ELSE k + 1)
    BY <1>3, <1>5
  <2>2. (IF j < i THEN j ELSE j + 1) = (IF k < i THEN k ELSE k + 1)
    BY <1>4, <2>1
  <2>3. j \in Int /\ k \in Int
    BY <1>3, <1>5
  <2> QED BY <1>1, <2>2, <2>3
<1>7. ASSUME NEW j \in DOMAIN r PROVE r[j] \in F \ {f[i]}
  <2> DEFINE a == IF j < i THEN j ELSE j + 1
  <2>1. a \in DOMAIN f /\ a # i /\ r[j] = f[a]
    BY <1>1, <1>3, <1>5
  <2> HIDE DEF a
  <2> QED BY <1>1, <1>3, <1>5, <1>4, <2>1 DEF Lists, ToSet
<1>8. ASSUME NEW x \in F \ {f[i]} PROVE \E j \in DOMAIN r : x = r[j]
  <2>1. PICK j \in DOMAIN f : x = f[j]
    BY DEF Lists, ToSet
  <2>2. j # i
    BY <1>8, <2>1
  <2>3. CASE j < i
    <3>1. j \in DOMAIN r
      BY <1>1, <1>2, <1>3, <1>5, <2>3
    <3> QED BY <1>3, <1>5, <2>1, <2>3, <3>1
  <2>4. CASE ~(j < i)
    <3>1. /\ j \in Int /\ i \in Int /\ i < j /\ j <= Len(f)
          /\ j - 1 \in DOMAIN r /\ ~(j - 1 < i) /\ (j - 1) + 1 = j
      <4>1. Len(r) = Len(f) - 1 /\ Len(f) \in Nat /\ i \in 1 .. Len(f)
        BY <1>1, <1>2
      <4>2. j \in 1 .. Len(f) /\ DOMAIN r = 1 .. Len(r)
        BY <1>3
      <4>3. j - 1 \in 1 .. Len(r)
        BY <2>2, <2>4, <4>1, <4>2
      <4> QED BY <2>2, <2>4, <4>1, <4>2, <4>3
    <3>2. r[j - 1] = f[(j - 1) + 1]
      BY <1>3, <1>5, <3>1
    <3> QED BY <2>1, <3>1, <3>2
  <2> QED BY <2>3, <2>4
<1>9. ToSet(r) = F \ {f[i]}
  BY <1>7, <1>8 DEF ToSet
<1> QED BY <1>2, <1>6, <1>9 DEF Lists, r

\* Removing an element twice, or one that is not there, does no harm.
LEMMA ListsRemove ==
  ASSUME NEW f, NEW F, Lists(f, F), NEW e
  PROVE  Lists(RemoveFirst(f, e), F \ {e})
<1>1. f \in Seq(Int) /\ Len(f) \in Nat /\ DOMAIN f = 1 .. Len(f) /\ F = {f[j] : j \in DOMAIN f}
  BY DEF Lists, ToSet
<1>2. CASE ~\E i \in 1 .. Len(f) : f[i] = e
  <2>1. RemoveFirst(f, e) = f /\ F \ {e} = F
    BY <1>1, <1>2 DEF RemoveFirst
  <2> QED BY <2>1
<1>3. CASE \E i \in 1 .. Len(f) : f[i] = e
  <2>1. PICK i \in 1 .. Len(f) : f[i] = e
    BY <1>3
  <2> DEFINE I == {j \in 1 .. Len(f) : f[j] = e}
  <2>2. I = {i}
    BY <1>1, <2>1 DEF Lists, IsInjective
  <2>3. Min(I) = i
    <3>1. i \in Int
      BY <2>1
    <3> HIDE DEF I
    <3> QED BY <2>2, <3>1 DEF Min
  <2>4. SelectInSeq(f, LAMBDA v : v = e) = i
    BY <2>2, <2>3 DEF SelectInSeq
  <2>5. RemoveFirst(f, e) = RemoveAt(f, i)
    BY <1>3, <2>4 DEF RemoveFirst
  <2> QED BY <1>1, <2>1, <2>5, ListsRemoveAt
<1> QED BY <1>2, <1>3

LEMMA ListsPush ==
  ASSUME NEW f, NEW F, Lists(f, F), NEW x \in Int, x \notin F
  PROVE  Lists(<<x>> \o f, F \cup {x})
<1>1. f \in Seq(Int) /\ Len(f) \in Nat /\ DOMAIN f = 1 .. Len(f)
  BY DEF Lists
<1> DEFINE r == <<x>> \o f
<1>2. /\ r \in Seq(Int) /\ Len(r) = Len(f) + 1 /\ DOMAIN r = 1 .. Len(r)
      /\ r[1] = x /\ \A j \in 1 .. Len(f) : r[j + 1] = f[j]
  BY <1>1
<1> HIDE DEF r
<1>3. \A j \in DOMAIN r : j = 1 \/ (j - 1 \in DOMAIN f /\ r[j] = f[j - 1])
  <2> SUFFICES ASSUME NEW j \in DOMAIN r, j # 1 PROVE j - 1 \in DOMAIN f /\ r[j] = f[j - 1]
    OBVIOUS
  <2>1. j - 1 \in 1 .. Len(f) /\ j = (j - 1) + 1
    BY <1>1, <1>2
  <2>2. r[(j - 1) + 1] = f[j - 1]
    BY <1>2, <2>1
  <2> QED BY <1>1, <2>1, <2>2
<1>4. \A j \in DOMAIN f : f[j] \in F /\ f[j] # x
  BY DEF Lists, ToSet
<1>5. IsInjective(r)
  <2> SUFFICES ASSUME NEW j \in DOMAIN r, NEW k \in DOMAIN r, r[j] = r[k] PROVE j = k
    BY DEF IsInjective
  <2>1. j = 1 <=> k = 1
    BY <1>2, <1>3, <1>4
  <2>2. CASE j # 1
    <3>1. j - 1 = k - 1
      BY <1>3, <2>1, <2>2 DEF Lists, IsInjective
    <3> QED BY <1>2, <3>1
  <2> QED BY <2>1, <2>2
<1>6. ToSet(r) = F \cup {x}
  <2>1. \A j \in DOMAIN r : r[j] \in F \cup {x}
    BY <1>2, <1>3, <1>4
  <2>2. \A y \in F : \E j \in DOMAIN r : y = r[j]
    <3> SUFFICES ASSUME NEW y \in F PROVE \E j \in DOMAIN r : y = r[j]
      OBVIOUS
    <3>1. PICK j \in DOMAIN f : y = f[j]
      BY DEF Lists, ToSet
    <3>2. j + 1 \in DOMAIN r /\ r[j + 1] = y
      BY <1>1, <1>2, <3>1
    <3> QED BY <3>2
  <2>3. 1 \in DOMAIN r /\ r[1] = x
    BY <1>1, <1>2
  <2> QED BY <2>1, <2>2, <2>3 DEF ToSet
<1> QED BY <1>2, <1>5, <1>6 DEF Lists, r

-----------------------------------------------------------------------------
(* Release.                                                                *)

\* r is the heap blk with the free blocks at b and c joined.
Joined(r, blk, top, b, c) ==
    /\ Tiled(r, top)
    /\ Frees(r) = Frees(blk) \ {c} /\ b \in Frees(r)
    /\ Keeps(r, blk, InUse(blk))
    /\ Labelled(blk) => Labelled(r)
    /\ \A l : LastIs(blk, top, l) => LastIs(r, top, IF blk[c].next = Nil THEN b ELSE l)

LEMMA AbsorbFrees ==
  ASSUME NEW blk, NEW top, Tiled(blk, top), NEW b \in Frees(blk), NEW c \in Frees(blk),
         blk[b].next = c, NEW r, Absorbed(r, blk, b, c)
  PROVE  Joined(r, blk, top, b, c)
<1>1. /\ Tiled(r, top) /\ b \in DOMAIN blk /\ c \in DOMAIN blk
      /\ \A x \in DOMAIN r : After(r, x) = IF x = b THEN After(blk, c) ELSE After(blk, x)
  BY AbsorbTiles DEF Frees
<1>2. /\ DOMAIN r = DOMAIN blk \ {c} /\ b # c
      /\ \A x \in DOMAIN r : r[x].size = blk[x].size /\ r[x].kind = blk[x].kind
  BY DEF Absorbed
<1>3. Frees(r) = Frees(blk) \ {c} /\ b \in Frees(r)
  BY <1>1, <1>2 DEF Frees
<1>4. Keeps(r, blk, InUse(blk))
  BY <1>1, <1>2 DEF Keeps, InUse, Frees
<1>5. Labelled(blk) => Labelled(r)
  <2> SUFFICES ASSUME Labelled(blk), NEW x \in DOMAIN r
               PROVE  IF r[x].kind = "free" THEN r[x].size = 0 ELSE r[x].size \in 1 .. r[x].cap
    BY DEF Labelled
  <2>1. CASE x = b
    BY <1>1, <1>2, <2>1 DEF Labelled, Frees
  <2>2. CASE x # b
    <3>1. r[x].cap = blk[x].cap
      BY <2>2 DEF Absorbed
    <3> QED BY <1>2, <3>1 DEF Labelled
  <2> QED BY <2>1, <2>2
<1>6. ASSUME NEW l, LastIs(blk, top, l) PROVE LastIs(r, top, IF blk[c].next = Nil THEN b ELSE l)
  <2>1. top # 0 /\ l \in DOMAIN blk /\ After(blk, l) = top
    <3>1. b \in Nat /\ b < After(blk, b) /\ After(blk, b) <= top /\ After(blk, b) \in Nat
      BY <1>1, Addresses DEF Tiled
    <3>2. top # 0
      BY <3>1
    <3> QED BY <1>6, <3>2 DEF LastIs
  <2>2. CASE blk[c].next = Nil
    <3>1. After(blk, c) = top
      BY <1>1, <2>2, Neighbours
    <3> QED BY <1>1, <1>2, <2>1, <2>2, <3>1 DEF LastIs
  <2>3. CASE blk[c].next # Nil
    <3>1. l # c /\ l # b
      <4>1. /\ After(blk, c) < top /\ After(blk, c) \in Int /\ top \in Int
        BY <1>1, <2>3, Neighbours, Addresses DEF Tiled
      <4>2. c = After(blk, b) /\ c < After(blk, c) /\ c \in Int
        BY <1>1, Addresses DEF Tiled, Absorbed
      <4>3. After(blk, c) # top /\ After(blk, b) # top
        BY <4>1, <4>2
      <4> QED BY <2>1, <4>3
    <3> QED BY <1>1, <1>2, <2>1, <2>3, <3>1 DEF LastIs
  <2> QED BY <2>2, <2>3
<1> QED BY <1>1, <1>3, <1>4, <1>5, <1>6 DEF Joined

LEMMA KeepsAgain ==
  ASSUME NEW r, NEW q, NEW blk, NEW S, Keeps(r, q, InUse(q)), Keeps(q, blk, S)
  PROVE  Keeps(r, blk, S)
BY DEF Keeps

\* Which blocks end where the block b begins, and where it ends.
LEMMA Adjacent ==
  ASSUME NEW blk, NEW top, Tiled(blk, top), NEW b \in DOMAIN blk, NEW x \in DOMAIN blk
  PROVE  /\ After(blk, x) = b => x = blk[b].prev
         /\ After(blk, b) = x => x = blk[b].next
<1>1. /\ x \in Nat /\ After(blk, x) \in Nat /\ x < After(blk, x) /\ After(blk, x) <= top
      /\ b \in Nat /\ After(blk, b) \in Nat /\ b < After(blk, b) /\ After(blk, b) <= top
      /\ top \in Nat
  BY Addresses DEF Tiled
<1>2. ASSUME After(blk, x) = b PROVE x = blk[b].prev
  <2>1. b # 0
    BY <1>1, <1>2
  <2>2. blk[b].prev \in DOMAIN blk /\ After(blk, blk[b].prev) = b
    BY <2>1 DEF Tiled, Linked
  <2> QED BY <1>2, <2>2, AfterUnique DEF Tiled
<1>3. ASSUME After(blk, b) = x PROVE x = blk[b].next
  <2>1. After(blk, b) < top
    BY <1>1, <1>3
  <2> QED BY <1>3, <2>1 DEF Tiled, Linked
<1> QED BY <1>2, <1>3

\* A block in use becomes free and merges with its free neighbours.
LEMMA ReleaseStep ==
  ASSUME HeapInv, NEW b \in InUse(block), Release(b)
  PROVE  HeapInv' /\ Keeps(block', block, InUse(block) \ {b})
<1> DEFINE next == block[b].next
           prev == block[b].prev
           freed == Freed(block, b)
           joined == IF IsFree(block, next) THEN AbsorbNext(freed, b) ELSE freed
           start == IF IsFree(block, prev) THEN prev ELSE b
           final == IF start = prev THEN AbsorbNext(joined, prev) ELSE joined
           lastj == IF joined[b].next = Nil THEN b ELSE last
           F == Frees(block)
<1>1. /\ Tiled(block, offset) /\ Tiles(block, offset) /\ Labelled(block) /\ Merged(block)
      /\ LastIs(block, offset, last) /\ Lists(free, F)
      /\ b \in DOMAIN block /\ b \notin F /\ Nil \notin Int
  BY HeapAssumption DEF HeapInv, Tiled, InUse, Frees
<1>2. /\ block' = final /\ first' = first /\ offset' = offset
      /\ last' = IF final[start].next = Nil THEN start ELSE last
      /\ free' = <<start>> \o RemoveFirst(RemoveFirst(free, next), prev)
  BY DEF Release
<1>3. /\ IsFree(block, next) <=> next \in F
      /\ IsFree(block, prev) <=> prev \in F
      /\ F \subseteq Int /\ b \in Int /\ b # prev /\ b # next /\ (next \in F => next # prev)
  <2>1. /\ next # Nil => next \in DOMAIN block /\ next = After(block, b)
        /\ prev # Nil => prev \in DOMAIN block /\ After(block, prev) = b
    BY <1>1, Neighbours
  <2>2. \A x \in DOMAIN block : x \in Int /\ After(block, x) \in Int /\ x < After(block, x)
    BY <1>1, Addresses
  <2>3. next # Nil => next \in Int /\ b < next
    BY <1>1, <2>1, <2>2
  <2>4. prev # Nil => prev \in Int /\ prev < b
    BY <1>1, <2>1, <2>2
  <2>5. b \in Int /\ F \subseteq Int /\ Nil \notin F /\ Nil # b
    BY <1>1, <2>2 DEF Frees
  <2>6. /\ IsFree(block, next) <=> next \in F
        /\ IsFree(block, prev) <=> prev \in F
    BY <1>1, <2>1, <2>5 DEF IsFree, Frees
  <2>7. b # prev /\ b # next
    BY <2>3, <2>4, <2>5
  <2>8. next \in F => next # prev
    BY <2>3, <2>4, <2>5
  <2> QED BY <2>5, <2>6, <2>7, <2>8
<1>4. /\ Tiled(freed, offset) /\ DOMAIN freed = DOMAIN block
      /\ \A x \in DOMAIN block : /\ After(freed, x) = After(block, x)
                                 /\ freed[x].next = block[x].next /\ freed[x].cap = block[x].cap
      /\ freed[b].size = 0 /\ freed[b].kind = "free"
      /\ \A x \in DOMAIN block : x # b => freed[x] = block[x]
  <2>1. 0 \in Nat /\ "free" \in Kinds \cup {"free"}
    OBVIOUS
  <2>2. freed = [block EXCEPT ![b].size = 0, ![b].kind = "free"]
    BY DEF Freed
  <2> HIDE DEF freed
  <2>3. Labels(freed, block, b, 0, "free")
    BY <1>1, <2>1, <2>2, LabelFields
  <2>4. Tiled(freed, offset) /\ \A x \in DOMAIN block : After(freed, x) = After(block, x)
    BY <1>1, <2>3, RelabelTiles DEF Labels
  <2> QED BY <2>3, <2>4 DEF Relabelled, Labels
<1> HIDE DEF freed
<1>5. /\ Frees(freed) = F \cup {b} /\ Labelled(freed) /\ LastIs(freed, offset, last)
      /\ Keeps(freed, block, InUse(block) \ {b})
  <2>1. Frees(freed) = F \cup {b}
    BY <1>1, <1>4 DEF Frees
  <2>2. Labelled(freed)
    BY <1>1, <1>4 DEF Labelled
  <2>3. LastIs(freed, offset, last)
    BY <1>1, <1>4 DEF LastIs
  <2>4. Keeps(freed, block, InUse(block) \ {b})
    BY <1>1, <1>4 DEF Keeps, InUse
  <2> QED BY <2>1, <2>2, <2>3, <2>4

<1> HIDE DEF joined, final, start, lastj
<1>6. /\ Tiled(joined, offset) /\ Frees(joined) = (F \ {next}) \cup {b}
      /\ Labelled(joined) /\ LastIs(joined, offset, lastj)
      /\ Keeps(joined, block, InUse(block) \ {b})
      /\ \A x, y \in Frees(joined) : After(joined, x) = y => x = prev /\ y = b
  <2>0. \A x, y \in F \cup {b} : After(block, x) = y => (x = prev /\ y = b) \/ (x = b /\ y = next)
    BY <1>1, Adjacent DEF Merged, Frees
  <2>1. CASE next \in F
    <3>1. joined = AbsorbNext(freed, b)
      BY <1>3, <2>1 DEF joined
    <3>2. b \in Frees(freed) /\ next \in Frees(freed) /\ freed[b].next = next
      BY <1>1, <1>4, <1>5, <2>1
    <3>3. Absorbed(joined, freed, b, next)
      BY <1>4, <3>1, <3>2, AbsorbFields DEF Frees
    <3>4. /\ Tiled(joined, offset) /\ Frees(joined) = Frees(freed) \ {next}
          /\ Keeps(joined, freed, InUse(freed)) /\ Labelled(joined)
          /\ LastIs(joined, offset, IF freed[next].next = Nil THEN b ELSE last)
      <4>1. Joined(joined, freed, offset, b, next)
        BY <1>4, <3>2, <3>3, AbsorbFrees
      <4> QED BY <1>4, <1>5, <4>1 DEF Joined
    <3>5. LastIs(joined, offset, lastj)
      <4>1. joined[b].next = freed[next].next
        BY <1>1, <1>4, <3>3, <1>3 DEF Absorbed
      <4> QED BY <3>4, <4>1 DEF lastj
    <3>6. Frees(joined) = (F \ {next}) \cup {b}
      BY <1>3, <1>5, <3>4
    <3>7. ASSUME NEW x \in Frees(joined), NEW y \in Frees(joined), After(joined, x) = y
          PROVE  x = prev /\ y = b
      <4>1. /\ x \in DOMAIN joined /\ next \in DOMAIN freed /\ b \in DOMAIN freed
            /\ x \in DOMAIN freed /\ y # next
        BY <1>1, <1>4, <3>2, <3>3 DEF Frees, Absorbed
      <4>2. After(joined, x) = IF x = b THEN After(freed, next) ELSE After(freed, x)
        BY <1>4, <3>2, <3>3, <4>1, AbsorbTiles
      <4>3. CASE x = b
        <5>1. After(block, next) = y /\ y \in F \cup {b}
          BY <1>4, <3>6, <3>7, <4>1, <4>2, <4>3
        <5>2. next # b /\ next # prev
          BY <1>3, <2>1
        <5> QED BY <2>0, <2>1, <5>1, <5>2
      <4>4. CASE x # b
        <5>1. After(block, x) = y /\ x \in F \cup {b} /\ y \in F \cup {b}
          BY <1>4, <3>6, <3>7, <4>1, <4>2, <4>4
        <5> QED BY <2>0, <4>4, <5>1
      <4> QED BY <4>3, <4>4
    <3> QED BY <1>5, <3>4, <3>5, <3>6, <3>7, KeepsAgain
  <2>2. CASE next \notin F
    <3>1. joined = freed
      BY <1>3, <2>2 DEF joined
    <3>2. Frees(joined) = (F \ {next}) \cup {b}
      BY <1>5, <2>2, <3>1
    <3>3. LastIs(joined, offset, lastj)
      <4>1. CASE freed[b].next = Nil
        <5>1. After(freed, b) = offset /\ offset # 0
          <6>1. freed[b].next = Nil => After(freed, b) = offset
            BY <1>1, <1>4, Neighbours
          <6>2. b \in Nat /\ b < After(freed, b) /\ After(freed, b) \in Nat
            BY <1>1, <1>4, Addresses DEF Tiled
          <6> QED BY <4>1, <6>1, <6>2
        <5> QED BY <1>1, <1>4, <3>1, <4>1, <5>1 DEF LastIs, lastj
      <4>2. CASE freed[b].next # Nil
        BY <1>5, <3>1, <4>2 DEF lastj
      <4> QED BY <4>1, <4>2
    <3>4. ASSUME NEW x \in Frees(joined), NEW y \in Frees(joined), After(joined, x) = y
          PROVE  x = prev /\ y = b
      <4>1. /\ x \in F \cup {b} /\ y \in F \cup {b} /\ x \in DOMAIN block
        BY <1>1, <1>4, <1>5, <3>1, <3>4 DEF Frees
      <4>2. After(block, x) = y
        BY <1>4, <3>1, <3>4, <4>1
      <4>3. y # next
        BY <1>3, <2>2, <4>1
      <4> QED BY <2>0, <4>1, <4>2, <4>3
    <3> QED BY <1>4, <1>5, <3>1, <3>2, <3>3, <3>4
  <2> QED BY <2>1, <2>2
<1>7. /\ Tiled(final, offset) /\ Frees(final) = ((F \ {next}) \ {prev}) \cup {start}
      /\ Labelled(final) /\ LastIs(final, offset, IF final[start].next = Nil THEN start ELSE last)
      /\ Keeps(final, block, InUse(block) \ {b}) /\ Merged(final)
  <2>1. CASE prev \in F
    <3>1. start = prev /\ final = AbsorbNext(joined, prev)
      BY <1>3, <2>1 DEF start, final
    <3>2. b \in Frees(joined) /\ prev \in Frees(joined)
      BY <1>3, <1>6, <2>1
    <3>3. joined[prev].next = b
      <4>1. block[prev].next = b /\ prev \in DOMAIN block
        BY <1>1, <1>3, <2>1, Neighbours DEF Frees
      <4>2. freed[prev].next = b
        BY <1>4, <4>1
      <4>3. CASE next \in F
        <5>1. Absorbed(joined, freed, b, next)
          BY <1>1, <1>3, <1>4, <4>3, AbsorbFields DEF joined, Frees
        <5> QED BY <1>3, <3>2, <4>2, <5>1 DEF Absorbed, Frees
      <4>4. CASE next \notin F
        BY <1>3, <4>2, <4>4 DEF joined
      <4> QED BY <4>3, <4>4
    <3>4. Absorbed(final, joined, prev, b)
      BY <1>6, <3>1, <3>2, <3>3, AbsorbFields DEF Frees
    <3>5. /\ Tiled(final, offset) /\ Frees(final) = Frees(joined) \ {b}
          /\ Keeps(final, joined, InUse(joined)) /\ Labelled(final)
          /\ LastIs(final, offset, IF joined[b].next = Nil THEN prev ELSE lastj)
      <4>1. /\ Tiled(final, offset) /\ Frees(final) = Frees(joined) \ {b}
            /\ Keeps(final, joined, InUse(joined))
            /\ Labelled(joined) => Labelled(final)
            /\ \A l : LastIs(joined, offset, l)
                      => LastIs(final, offset, IF joined[b].next = Nil THEN prev ELSE l)
        <5>1. Tiled(joined, offset)
          BY <1>6
        <5>2. Joined(final, joined, offset, prev, b)
          BY <3>2, <3>3, <3>4, <5>1, AbsorbFrees
        <5> QED BY <5>2 DEF Joined
      <4> QED BY <1>6, <4>1
    <3>6. LastIs(final, offset, IF final[start].next = Nil THEN start ELSE last)
      <4>1. final[prev].next = joined[b].next
        BY <3>2, <3>4 DEF Absorbed, Frees
      <4> QED BY <3>1, <3>5, <4>1 DEF lastj
    <3>7. Frees(final) = ((F \ {next}) \ {prev}) \cup {start}
      BY <1>1, <1>3, <1>6, <2>1, <3>1, <3>5
    <3>8. ASSUME NEW x \in Frees(final), NEW y \in Frees(final), After(final, x) = y PROVE FALSE
      <4>1. x \in DOMAIN final /\ x \in Frees(joined) /\ y \in Frees(joined) /\ y # b /\ x # b
        BY <3>5, <3>8 DEF Frees
      <4>2. After(final, x) = IF x = prev THEN After(joined, b) ELSE After(joined, x)
        BY <1>6, <3>2, <3>3, <3>4, <4>1, AbsorbTiles DEF Frees
      <4> QED BY <1>6, <3>2, <3>8, <4>1, <4>2
    <3> QED BY <1>6, <3>5, <3>6, <3>7, <3>8, KeepsAgain DEF Merged
  <2>2. CASE prev \notin F
    <3>1. start = b /\ final = joined
      BY <1>3, <2>2 DEF start, final
    <3>2. Frees(final) = ((F \ {next}) \ {prev}) \cup {start}
      BY <1>6, <2>2, <3>1
    <3>3. LastIs(final, offset, IF final[start].next = Nil THEN start ELSE last)
      BY <1>6, <3>1 DEF lastj
    <3>4. Merged(final)
      BY <1>3, <1>6, <2>2, <3>1 DEF Merged
    <3> QED BY <1>6, <3>1, <3>2, <3>3, <3>4
  <2> QED BY <2>1, <2>2
<1>8. Lists(free', Frees(final))
  <2>1. Lists(RemoveFirst(RemoveFirst(free, next), prev), (F \ {next}) \ {prev})
    BY <1>1, ListsRemove
  <2>2. start \in Int /\ start \notin (F \ {next}) \ {prev}
    BY <1>1, <1>3 DEF start
  <2> QED BY <1>2, <1>7, <2>1, <2>2, ListsPush
<1> QED BY <1>2, <1>7, <1>8
        DEF HeapInv, Frees, Tiled, Tiles, Linked, After, LastIs, Labelled, Merged

-----------------------------------------------------------------------------
(* Allocation.                                                             *)

\* q is what becomes of blk when its block at b is cut at r, after n bytes.
Divided(q, blk, b, n, r) ==
    /\ r = b + Header + n /\ r \notin DOMAIN blk /\ DOMAIN q = DOMAIN blk \cup {r}
    /\ q = [x \in DOMAIN q |-> q[x]]
    /\ q[r] \in HeaderType /\ q[r].size = 0 /\ q[r].kind = "free"
    /\ q[r].cap = blk[b].cap - n - Header /\ q[r].next = blk[b].next /\ q[r].prev = b
    /\ \A x \in DOMAIN blk :
          /\ q[x] \in HeaderType
          /\ q[x].size = blk[x].size /\ q[x].kind = blk[x].kind
          /\ q[x].cap = IF x = b THEN n ELSE blk[x].cap
          /\ q[x].next = IF x = b THEN r ELSE blk[x].next
          /\ q[x].prev = IF x = blk[b].next THEN r ELSE blk[x].prev

LEMMA SplitFields ==
  ASSUME NEW top, Tiled(block, top), NEW b \in DOMAIN block, NEW n \in Nat,
         n >= 1, n % Align = 0, block[b].cap >= n + Header + MaxAlign
  PROVE  Divided(Split(b, n), block, b, n, b + Header + n)
<1>1. /\ b \in Nat /\ block[b].cap \in Nat /\ b < After(block, b) /\ After(block, b) \in Nat
      /\ Header \in Nat \ {0} /\ MaxAlign \in Nat \ {0} /\ Nil \notin Int
      /\ \A x \in DOMAIN block : block[x] \in HeaderType /\ x \in Nat
  BY Addresses, HeapAssumption DEF Tiled, Tiles
<1> DEFINE r == b + Header + n
           rest == [prev |-> b, next |-> block[b].next, size |-> 0, kind |-> "free",
                    cap |-> block[b].cap - n - Header]
           hb == [block[b] EXCEPT !.next = r, !.cap = n]
           hx(x) == [block[x] EXCEPT !.prev = r]
           q == Split(b, n)
<1>2. q = [c \in DOMAIN block \cup {r} |->
             IF c = r THEN rest ELSE IF c = b THEN hb
             ELSE IF c = block[b].next THEN hx(c) ELSE block[c]]
  BY DEF Split, Payload
<1>3. r \in Nat /\ b < r /\ r < After(block, b)
  BY <1>1 DEF After
<1>4. r \notin DOMAIN block
  <2>1. ASSUME r \in DOMAIN block PROVE FALSE
    <3>1. After(block, b) <= r
      BY <1>3, <2>1 DEF Tiled, Tiles
    <3> QED BY <1>1, <1>3, <3>1
  <2> QED BY <2>1
<1>5. block[b].next # b
  <2>1. block[b].next \in {Nil, After(block, b)}
    BY DEF Tiled, Linked
  <2>2. Nil # b /\ After(block, b) # b
    BY <1>1
  <2> QED BY <2>1, <2>2
<1>6. /\ rest \in HeaderType /\ rest.size = 0 /\ rest.kind = "free" /\ rest.prev = b
      /\ rest.cap = block[b].cap - n - Header /\ rest.next = block[b].next
  <2>1. block[b].cap - n - Header \in Nat
    BY <1>1
  <2>2. block[b].next \in Link /\ b \in Link
    BY <1>1 DEF HeaderType, Link
  <2> QED BY <2>1, <2>2 DEF HeaderType
<1>7. /\ hb \in HeaderType /\ hb.size = block[b].size /\ hb.kind = block[b].kind
      /\ hb.prev = block[b].prev /\ hb.cap = n /\ hb.next = r
  <2> DEFINE g == [block[b] EXCEPT !.next = r]
  <2>1. hb = [g EXCEPT !.cap = n] /\ r \in Link
    BY <1>3 DEF Link
  <2> HIDE DEF r, hb
  <2>2. /\ g \in HeaderType /\ g.next = r
        /\ g.size = block[b].size /\ g.kind = block[b].kind /\ g.prev = block[b].prev
    BY <1>1, <2>1 DEF HeaderType
  <2> HIDE DEF g
  <2> QED BY <2>1, <2>2 DEF HeaderType
<1>8. \A x \in DOMAIN block : /\ hx(x) \in HeaderType
                              /\ hx(x).size = block[x].size /\ hx(x).kind = block[x].kind
                              /\ hx(x).cap = block[x].cap /\ hx(x).next = block[x].next
                              /\ hx(x).prev = r
  <2>1. r \in Link
    BY <1>3 DEF Link
  <2> HIDE DEF r
  <2> QED BY <1>1, <2>1 DEF HeaderType
<1> HIDE DEF rest, hb, hx, q, r
<1>9. DOMAIN q = DOMAIN block \cup {r} /\ q = [x \in DOMAIN q |-> q[x]] /\ q[r] = rest
  BY <1>2
<1>10. ASSUME NEW x \in DOMAIN block
       PROVE  /\ q[x] \in HeaderType
              /\ q[x].size = block[x].size /\ q[x].kind = block[x].kind
              /\ q[x].cap = IF x = b THEN n ELSE block[x].cap
              /\ q[x].next = IF x = b THEN r ELSE block[x].next
              /\ q[x].prev = IF x = block[b].next THEN r ELSE block[x].prev
  <2>1. CASE x = b
    BY <1>2, <1>4, <1>5, <1>7, <2>1
  <2>2. CASE x # b /\ x = block[b].next
    BY <1>2, <1>4, <1>8, <2>2
  <2>3. CASE x # b /\ x # block[b].next
    BY <1>1, <1>2, <1>4, <2>3
  <2> QED BY <2>1, <2>2, <2>3
<1>11. Divided(q, block, b, n, r)
  <2>1. r = b + Header + n
    BY DEF r
  <2> QED BY <1>4, <1>6, <1>9, <1>10, <2>1 DEF Divided
<1> QED BY <1>11 DEF q, r

LEMMA SplitTiles ==
  ASSUME NEW blk, NEW top, Tiled(blk, top), NEW b \in DOMAIN blk, NEW n \in Nat,
         n >= 1, n % Align = 0, blk[b].cap >= n + Header + MaxAlign,
         NEW q, NEW r, Divided(q, blk, b, n, r)
  PROVE  /\ Tiled(q, top)
         /\ \A x \in DOMAIN q : After(q, x) = IF x = b THEN r
                                              ELSE IF x = r THEN After(blk, b) ELSE After(blk, x)
<1>1. \A x \in DOMAIN blk : /\ x \in Nat /\ blk[x].cap \in Nat /\ After(blk, x) \in Nat
                            /\ x < After(blk, x) /\ x % Align = 0 /\ After(blk, x) % Align = 0
                            /\ After(blk, x) <= top /\ blk[x].cap >= 1 /\ blk[x].cap % Align = 0
  BY Addresses DEF Tiled, Tiles
<1>2. /\ Header \in Nat \ {0} /\ Align \in Nat \ {0} /\ Nil \notin Int /\ Header % Align = 0
      /\ top \in Nat /\ MaxAlign \in Nat \ {0}
  BY HeapAssumption DEF Tiled, Tiles
<1>3. /\ r = b + Header + n /\ r \notin DOMAIN blk /\ DOMAIN q = DOMAIN blk \cup {r}
      /\ q[r].cap = blk[b].cap - n - Header
      /\ \A x \in DOMAIN blk : q[x].cap = IF x = b THEN n ELSE blk[x].cap
  BY DEF Divided
<1>4. r \in Nat /\ b < r /\ r < After(blk, b)
  <2>1. After(blk, b) = b + Header + blk[b].cap
    BY DEF After
  <2> QED BY <1>1, <1>2, <1>3, <2>1
<1>5. ASSUME NEW x \in DOMAIN q
      PROVE After(q, x) = IF x = b THEN r ELSE IF x = r THEN After(blk, b) ELSE After(blk, x)
  <2>1. CASE x = r
    <3>1. After(q, r) = r + Header + q[r].cap /\ After(blk, b) = b + Header + blk[b].cap
      BY DEF After
    <3>2. After(q, r) = After(blk, b)
      BY <1>1, <1>2, <1>3, <1>4, <3>1
    <3> QED BY <1>3, <2>1, <3>2
  <2>2. CASE x # r
    BY <1>3, <2>2 DEF After
  <2> QED BY <2>1, <2>2
<1>6. Tiles(q, top)
  <2>1. q \in [DOMAIN q -> HeaderType] /\ DOMAIN q \subseteq Nat
    <3>1. q = [x \in DOMAIN q |-> q[x]] /\ \A x \in DOMAIN q : q[x] \in HeaderType
      BY DEF Divided
    <3> QED BY <1>1, <1>3, <1>4, <3>1
  <2>2. \A x \in DOMAIN q : q[x].cap >= 1 /\ x % Align = 0 /\ q[x].cap % Align = 0
    <3>1. (b + Header) % Align = 0 /\ b + Header \in Nat
      BY <1>1, <1>2, DivisibleSum
    <3>2. r % Align = 0
      BY <1>2, <1>3, <3>1, DivisibleSum
    <3>3. blk[b].cap - n \in Nat /\ (blk[b].cap - n) % Align = 0 /\ Header <= blk[b].cap - n
      <4>1. n <= blk[b].cap /\ blk[b].cap - n \in Nat /\ Header <= blk[b].cap - n
        BY <1>1, <1>2
      <4>2. (blk[b].cap - n) % Align = 0
        BY <1>1, <1>2, <4>1, DivisibleSum
      <4> QED BY <4>1, <4>2
    <3>4. (blk[b].cap - n - Header) % Align = 0
      BY <1>2, <3>3, DivisibleSum
    <3>5. blk[b].cap - n - Header >= 1
      BY <1>1, <1>2
    <3> QED BY <1>1, <1>3, <3>2, <3>4, <3>5
  <2>3. \A x \in DOMAIN q : After(q, x) <= top
    BY <1>1, <1>2, <1>3, <1>4, <1>5
  <2>4. ASSUME NEW x \in DOMAIN q, After(q, x) < top PROVE After(q, x) \in DOMAIN q
    BY <1>3, <1>5, <2>4 DEF Tiled, Tiles
  <2>5. ASSUME NEW x \in DOMAIN q, NEW z \in DOMAIN q, x < z PROVE After(q, x) <= z
    <3>0. \A c, d \in DOMAIN blk : c < d => After(blk, c) <= d
      BY DEF Tiled, Tiles
    <3>1. CASE x = r
      <4>1. z \in DOMAIN blk /\ z # r
        BY <1>3, <1>4, <2>5, <3>1
      <4>2. b < z
        BY <1>1, <1>4, <2>5, <3>1, <4>1
      <4> QED BY <1>3, <1>4, <1>5, <3>0, <3>1, <4>1, <4>2
    <3>2. CASE x = b /\ z # r
      <4>1. z \in DOMAIN blk /\ After(blk, b) <= z
        BY <1>3, <2>5, <3>0, <3>2
      <4> QED BY <1>1, <1>4, <1>5, <3>2, <4>1
    <3>3. CASE x = b /\ z = r
      BY <1>4, <1>5, <3>3
    <3>4. CASE x # b /\ x # r /\ z = r
      <4>1. x \in DOMAIN blk /\ (x < b \/ b < x)
        BY <1>1, <1>3, <3>4
      <4>2. CASE x < b
        <5>1. After(blk, x) <= b
          BY <3>0, <4>1, <4>2
        <5> QED BY <1>1, <1>4, <1>5, <3>4, <4>1, <5>1
      <4>3. CASE b < x
        <5>1. After(blk, b) <= x
          BY <3>0, <4>1, <4>3
        <5> QED BY <1>1, <1>4, <2>5, <3>4, <4>1, <5>1
      <4> QED BY <4>1, <4>2, <4>3
    <3>5. CASE x # b /\ x # r /\ z # r
      BY <1>3, <1>5, <2>5, <3>0, <3>5
    <3> QED BY <3>1, <3>2, <3>3, <3>4, <3>5
  <2>6. top # 0 => 0 \in DOMAIN q
    BY <1>3 DEF Tiled, Tiles
  <2>7. top \in 0 .. ArenaSize /\ top % Align = 0
    BY DEF Tiled, Tiles
  <2> QED BY <2>1, <2>2, <2>3, <2>4, <2>5, <2>6, <2>7 DEF Tiles
<1>7. ASSUME NEW x \in DOMAIN q
      PROVE  /\ q[x].next = IF After(q, x) < top THEN After(q, x) ELSE Nil
             /\ IF x = 0 THEN q[x].prev = Nil
                         ELSE q[x].prev \in DOMAIN q /\ After(q, q[x].prev) = x
  <2>0. \A y \in DOMAIN blk : /\ blk[y].next = IF After(blk, y) < top THEN After(blk, y) ELSE Nil
                              /\ IF y = 0 THEN blk[y].prev = Nil
                                 ELSE blk[y].prev \in DOMAIN blk /\ After(blk, blk[y].prev) = y
    BY DEF Tiled, Linked
  <2>1. CASE x = r
    <3>1. q[r].next = blk[b].next /\ q[r].prev = b
      BY DEF Divided
    <3>2. After(q, r) = After(blk, b) /\ After(q, b) = r /\ b \in DOMAIN q /\ r # 0
      BY <1>1, <1>3, <1>4, <1>5
    <3>3. blk[b].next = IF After(blk, b) < top THEN After(blk, b) ELSE Nil
      BY <2>0
    <3> QED BY <2>1, <3>1, <3>2, <3>3
  <2>2. CASE x # r
    <3>1. /\ x \in DOMAIN blk
          /\ q[x].next = IF x = b THEN r ELSE blk[x].next
          /\ q[x].prev = IF x = blk[b].next THEN r ELSE blk[x].prev
      BY <1>3, <2>2 DEF Divided
    <3>2. q[x].next = IF After(q, x) < top THEN After(q, x) ELSE Nil
      <4>1. r < top
        BY <1>1, <1>2, <1>4
      <4> QED BY <1>5, <2>0, <2>2, <3>1, <4>1
    <3>3. CASE x = blk[b].next
      <4>1. x = After(blk, b) /\ x # 0
        BY <1>1, <1>2, <2>0, <3>1, <3>3
      <4> QED BY <1>3, <1>4, <1>5, <3>1, <3>2, <3>3, <4>1
    <3>4. CASE x # blk[b].next
      <4>1. x # 0 => blk[x].prev # b
        <5>1. ASSUME x # 0, blk[x].prev = b PROVE FALSE
          <6>1. After(blk, b) = x
            BY <2>0, <3>1, <5>1
          <6> QED BY <3>1, <3>4, <6>1, Adjacent
        <5> QED BY <5>1
      <4> QED BY <1>3, <1>5, <2>0, <3>1, <3>2, <3>4, <4>1
    <3> QED BY <3>3, <3>4
  <2> QED BY <2>1, <2>2
<1> QED BY <1>5, <1>6, <1>7 DEF Tiled, Linked

\* A free block that is large enough is handed out, and its rest cut off.
LEMMA ReuseStep ==
  ASSUME HeapInv, NEW bytes \in 1 .. WordMax, AlignSize(bytes) >= bytes,
         NEW kind \in Kinds, NEW b, Reuse(bytes, kind, b)
  PROVE  HeapInv' /\ Granted(block', block, b, bytes, kind)
<1> DEFINE n == AlignSize(bytes)
           F == Frees(block)
           r == b + Header + n
           q == Split(b, n)
<1>1. /\ Tiled(block, offset) /\ Tiles(block, offset) /\ Labelled(block) /\ Merged(block)
      /\ LastIs(block, offset, last) /\ Lists(free, F) /\ Nil \notin Int
  BY HeapAssumption DEF HeapInv, Tiled
<1>2. PICK i \in FirstFit(n) :
         /\ b = free[i]
         /\ IF block[b].cap >= n + Header + MaxAlign
              THEN /\ Grant(Split(b, n), b, bytes, kind)
                   /\ free' = <<Payload(b) + n>> \o RemoveAt(free, i)
                   /\ last' = IF block[b].next = Nil THEN Payload(b) + n ELSE last
              ELSE /\ Grant(block, b, bytes, kind)
                   /\ free' = RemoveAt(free, i)
                   /\ UNCHANGED last
         /\ UNCHANGED <<first, offset>>
  BY DEF Reuse
<1>3. /\ i \in DOMAIN free /\ b \in F /\ b \in DOMAIN block /\ block[b].kind = "free"
      /\ block[b].cap >= n
  BY <1>1, <1>2 DEF FirstFit, Lists, ToSet, Frees
<1>4. /\ n \in Nat /\ n >= 1 /\ n % Align = 0 /\ bytes \in Nat /\ bytes <= n /\ bytes >= 1
      /\ WordMax \in Nat
  BY AlignedSize, HeapAssumption
<1>5. /\ b \in Nat /\ After(block, b) \in Nat /\ b < After(block, b) /\ block[b].cap \in Nat
      /\ After(block, b) <= offset /\ offset \in Nat
      /\ Header \in Nat \ {0} /\ MaxAlign \in Nat \ {0}
  BY <1>1, <1>3, Addresses, HeapAssumption
<1>6. kind # "free" /\ kind \in Kinds \cup {"free"}
  BY HeapAssumption DEF Kinds
<1>7. Lists(RemoveAt(free, i), F \ {b})
  BY <1>1, <1>2, <1>3, ListsRemoveAt
<1>8. offset' = offset /\ first' = first
  BY <1>2
<1> HIDE DEF n, F
<1>9. CASE block[b].cap >= n + Header + MaxAlign
  <2>1. /\ block' = [q EXCEPT ![b].size = bytes, ![b].kind = kind]
        /\ free' = <<r>> \o RemoveAt(free, i)
        /\ last' = IF block[b].next = Nil THEN r ELSE last
    BY <1>2, <1>9 DEF Grant, Payload
  <2>2. Divided(q, block, b, n, r)
    BY <1>1, <1>3, <1>4, <1>9, SplitFields
  <2> HIDE DEF q
  <2> HIDE DEF r
  <2>3. /\ Tiled(q, offset) /\ Tiles(q, offset)
        /\ \A x \in DOMAIN q : After(q, x) = IF x = b THEN r
                                 ELSE IF x = r THEN After(block, b) ELSE After(block, x)
    BY <1>1, <1>3, <1>4, <1>9, <2>2, SplitTiles DEF Tiled
  <2>4. /\ r \notin DOMAIN block /\ DOMAIN q = DOMAIN block \cup {r} /\ b # r
        /\ q[r].size = 0 /\ q[r].kind = "free" /\ q[b].cap = n
        /\ \A x \in DOMAIN block : q[x].size = block[x].size /\ q[x].kind = block[x].kind
        /\ \A x \in DOMAIN block : x # b => q[x].cap = block[x].cap
        /\ r = b + Header + n
    BY <1>3, <2>2 DEF Divided
  <2>5. Labels(block', q, b, bytes, kind)
    BY <1>3, <1>4, <1>6, <2>1, <2>3, <2>4, LabelFields
  <2>6. Tiled(block', offset) /\ \A x \in DOMAIN q : After(block', x) = After(q, x)
    BY <2>3, <2>5, RelabelTiles DEF Labels
  <2>7. /\ DOMAIN block' = DOMAIN q /\ block'[b].cap = n
        /\ block'[b].size = bytes /\ block'[b].kind = kind
        /\ \A x \in DOMAIN q : x # b => block'[x] = q[x]
    BY <1>3, <2>4, <2>5 DEF Labels, Relabelled
  <2>8. Labelled(block')
    BY <1>1, <1>4, <1>6, <2>4, <2>7 DEF Labelled
  <2>9. Frees(block') = (F \ {b}) \cup {r}
    BY <1>6, <2>4, <2>7 DEF Frees, F
  <2>10. Lists(free', Frees(block'))
    <3>1. r \in Int /\ r \notin F \ {b}
      BY <1>4, <1>5, <2>4 DEF Frees, F
    <3>2. Lists(<<r>> \o RemoveAt(free, i), (F \ {b}) \cup {r})
      BY <1>7, <3>1, ListsPush
    <3> QED BY <2>1, <2>9, <3>2
  <2>11. Merged(block')
    <3> SUFFICES ASSUME NEW x \in Frees(block'), NEW y \in Frees(block'), After(block', x) = y
                 PROVE  FALSE
      BY DEF Merged
    <3>1. x \in DOMAIN q /\ y \in DOMAIN q /\ After(q, x) = y /\ x # b /\ y # b
      BY <1>3, <2>4, <2>6, <2>7, <2>9 DEF Frees, F
    <3>2. y # r
      <4>1. After(q, b) = r /\ b \in DOMAIN q
        BY <1>3, <2>3, <2>4
      <4> QED BY <2>3, <3>1, <4>1, AfterUnique
    <3>3. y \in F
      BY <2>9, <3>2
    <3>4. x = r \/ x \in F
      BY <2>9
    <3>5. After(block, IF x = r THEN b ELSE x) = y
      BY <2>3, <3>1
    <3> QED BY <1>1, <1>3, <3>3, <3>4, <3>5 DEF Merged, F
  <2>12. LastIs(block', offset, last')
    <3>1. offset # 0 /\ last \in DOMAIN block /\ After(block, last) = offset
      BY <1>1, <1>5 DEF LastIs
    <3>2. CASE block[b].next = Nil
      <4>1. After(block, b) = offset
        BY <1>1, <1>3, <3>2, Neighbours
      <4>2. r \in DOMAIN q /\ After(q, r) = offset
        BY <2>3, <2>4, <4>1
      <4> QED BY <2>1, <2>6, <2>7, <3>1, <3>2, <4>2 DEF LastIs
    <3>3. CASE block[b].next # Nil
      <4>1. last # b
        <5>1. After(block, b) < offset
          BY <1>1, <1>3, <3>3, Neighbours
        <5> QED BY <1>5, <3>1, <5>1
      <4>2. last \in DOMAIN q /\ last # r /\ After(q, last) = offset
        BY <2>3, <2>4, <3>1, <4>1
      <4> QED BY <2>1, <2>6, <2>7, <3>1, <3>3, <4>2 DEF LastIs
    <3> QED BY <3>2, <3>3
  <2>13. HeapInv'
    BY <1>8, <2>6, <2>8, <2>10, <2>11, <2>12
       DEF HeapInv, Frees, Tiled, Tiles, Linked, After, LastIs, Labelled, Merged
  <2>14. Granted(block', block, b, bytes, kind)
    BY <1>3, <1>4, <1>6, <2>4, <2>7 DEF Granted, InUse
  <2> QED BY <2>13, <2>14
<1>10. CASE ~(block[b].cap >= n + Header + MaxAlign)
  <2>1. /\ block' = [block EXCEPT ![b].size = bytes, ![b].kind = kind]
        /\ free' = RemoveAt(free, i) /\ last' = last
    BY <1>2, <1>10 DEF Grant
  <2>2. Labels(block', block, b, bytes, kind)
    BY <1>1, <1>3, <1>4, <1>6, <2>1, LabelFields
  <2>3. Tiled(block', offset) /\ \A x \in DOMAIN block : After(block', x) = After(block, x)
    BY <1>1, <2>2, RelabelTiles DEF Labels
  <2>4. /\ DOMAIN block' = DOMAIN block /\ block'[b].cap = block[b].cap
        /\ block'[b].size = bytes /\ block'[b].kind = kind
        /\ \A x \in DOMAIN block : x # b => block'[x] = block[x]
    BY <1>3, <2>2 DEF Labels, Relabelled
  <2>5. Labelled(block')
    <3>1. bytes \in 1 .. block[b].cap
      BY <1>3, <1>4, <1>5
    <3> QED BY <1>1, <1>6, <2>4, <3>1 DEF Labelled
  <2>6. Frees(block') = F \ {b}
    BY <1>6, <2>4 DEF Frees, F
  <2>7. Lists(free', Frees(block'))
    BY <1>7, <2>1, <2>6
  <2>8. Merged(block')
    BY <1>1, <2>3, <2>4, <2>6 DEF Merged, Frees, F
  <2>9. LastIs(block', offset, last')
    BY <1>1, <2>1, <2>3, <2>4 DEF LastIs
  <2>10. HeapInv'
    BY <1>8, <2>3, <2>5, <2>7, <2>8, <2>9
       DEF HeapInv, Frees, Tiled, Tiles, Linked, After, LastIs, Labelled, Merged
  <2>11. Granted(block', block, b, bytes, kind)
    <3>1. bytes \in 1 .. block[b].cap
      BY <1>3, <1>4, <1>5
    <3> QED BY <1>3, <1>6, <2>4, <3>1 DEF Granted, InUse
  <2> QED BY <2>10, <2>11
<1> QED BY <1>9, <1>10

\* No free block is large enough, and the arena grows by one block.
LEMMA GrowStep ==
  ASSUME HeapInv, NEW bytes \in 1 .. WordMax, AlignSize(bytes) >= bytes,
         NEW kind \in Kinds, NEW b, Grow(bytes, kind, b)
  PROVE  HeapInv' /\ Granted(block', block, b, bytes, kind)
<1> DEFINE n == AlignSize(bytes)
           F == Frees(block)
           top == offset + Header + n
           new == [prev |-> last, next |-> Nil, cap |-> n, size |-> bytes, kind |-> kind]
           hl(c) == [block[c] EXCEPT !.next = b]
<1>1. /\ Tiled(block, offset) /\ Tiles(block, offset) /\ Labelled(block) /\ Merged(block)
      /\ LastIs(block, offset, last) /\ Lists(free, F) /\ Nil \notin Int
      /\ first = IF offset = 0 THEN Nil ELSE 0
  BY HeapAssumption DEF HeapInv, Tiled
<1>2. /\ b = offset /\ offset' = top /\ Header + n <= ArenaSize - offset
      /\ block' = [c \in DOMAIN block \cup {b} |->
                     IF c = b THEN new ELSE IF c = last THEN hl(c) ELSE block[c]]
      /\ first' = (IF last = Nil THEN b ELSE first) /\ last' = b /\ free' = free
  BY DEF Grow
<1>3. /\ n \in Nat /\ n >= 1 /\ n % Align = 0 /\ bytes \in Nat /\ bytes <= n /\ bytes >= 1
      /\ WordMax \in Nat
  BY AlignedSize, HeapAssumption
<1>4. /\ b \in Nat /\ offset \in Nat /\ b % Align = 0 /\ Header \in Nat \ {0} /\ ArenaSize \in Nat
      /\ Align \in Nat \ {0} /\ Header % Align = 0
  BY <1>1, <1>2, HeapAssumption DEF Tiles
<1>5. \A x \in DOMAIN block : /\ x \in Nat /\ block[x] \in HeaderType /\ block[x].cap \in Nat
                              /\ After(block, x) \in Nat /\ x < After(block, x)
                              /\ After(block, x) <= offset /\ x # b
  <2>1. \A x \in DOMAIN block : /\ x \in Nat /\ block[x] \in HeaderType /\ block[x].cap \in Nat
                                /\ After(block, x) \in Nat /\ x < After(block, x)
                                /\ After(block, x) <= offset
    BY <1>1, Addresses
  <2> QED BY <1>2, <1>4, <2>1
<1>6. kind # "free" /\ kind \in Kinds \cup {"free"}
  BY HeapAssumption DEF Kinds
<1>7. /\ offset = 0 => last = Nil /\ DOMAIN block = {}
      /\ offset # 0 => last \in DOMAIN block /\ After(block, last) = offset /\ last # Nil
  <2>1. ASSUME offset = 0, NEW x \in DOMAIN block PROVE FALSE
    BY <1>5, <2>1
  <2>2. LastIs(block, offset, last) /\ Nil \notin Int
    BY <1>1
  <2>3. CASE offset = 0
    BY <2>1, <2>2, <2>3 DEF LastIs
  <2>4. CASE offset # 0
    <3>1. last \in DOMAIN block /\ After(block, last) = offset
      BY <2>2, <2>4 DEF LastIs
    <3>2. last \in Int
      BY <1>5, <3>1
    <3> QED BY <2>2, <2>4, <3>1, <3>2
  <2> QED BY <2>3, <2>4
<1>8. top \in Nat /\ top <= ArenaSize /\ top % Align = 0 /\ b < top /\ top # 0
  <2>1. top \in Nat /\ top <= ArenaSize /\ b < top
    BY <1>2, <1>3, <1>4
  <2>2. (offset + Header) % Align = 0 /\ offset + Header \in Nat
    BY <1>2, <1>4, DivisibleSum
  <2>3. top % Align = 0
    BY <1>3, <1>4, <2>2, DivisibleSum
  <2> QED BY <1>4, <2>1, <2>3
<1>9. /\ new \in HeaderType /\ new.prev = last /\ new.next = Nil /\ new.cap = n
      /\ new.size = bytes /\ new.kind = kind
  <2>1. last \in Link
    BY <1>5, <1>7 DEF Link
  <2> QED BY <1>3, <1>6, <2>1 DEF HeaderType, Link
<1>10. \A x \in DOMAIN block : /\ hl(x) \in HeaderType /\ hl(x).next = b
                               /\ hl(x).size = block[x].size /\ hl(x).kind = block[x].kind
                               /\ hl(x).cap = block[x].cap /\ hl(x).prev = block[x].prev
  <2>1. b \in Link
    BY <1>4 DEF Link
  <2> QED BY <1>5, <2>1 DEF HeaderType
<1> HIDE DEF n, F, new, hl, top
<1>11. /\ DOMAIN block' = DOMAIN block \cup {b} /\ block'[b] = new
       /\ block' = [x \in DOMAIN block' |-> block'[x]]
  BY <1>2
<1>12. ASSUME NEW x \in DOMAIN block
       PROVE  /\ block'[x] \in HeaderType
              /\ block'[x].size = block[x].size /\ block'[x].kind = block[x].kind
              /\ block'[x].cap = block[x].cap /\ block'[x].prev = block[x].prev
              /\ block'[x].next = IF x = last THEN b ELSE block[x].next
  <2>1. CASE x = last
    BY <1>2, <1>5, <1>10, <2>1
  <2>2. CASE x # last
    BY <1>2, <1>5, <2>2
  <2> QED BY <2>1, <2>2
<1> DEFINE B == block'
<1>13. /\ DOMAIN B = DOMAIN block \cup {b} /\ B[b] = new /\ B = [x \in DOMAIN B |-> B[x]]
       /\ \A x \in DOMAIN block :
              /\ B[x] \in HeaderType
              /\ B[x].size = block[x].size /\ B[x].kind = block[x].kind
              /\ B[x].cap = block[x].cap /\ B[x].prev = block[x].prev
              /\ B[x].next = IF x = last THEN b ELSE block[x].next
  BY <1>11, <1>12
<1> HIDE DEF B
<1>14. /\ After(B, b) = top /\ \A x \in DOMAIN block : After(B, x) = After(block, x)
       /\ \A x \in DOMAIN B : After(B, x) <= top
  <2>1. After(B, b) = top
    BY <1>2, <1>9, <1>13 DEF After, top
  <2>2. \A x \in DOMAIN block : After(B, x) = After(block, x)
    BY <1>13 DEF After
  <2>3. ASSUME NEW x \in DOMAIN B PROVE After(B, x) <= top
    <3>1. CASE x = b
      BY <1>8, <2>1, <3>1
    <3>2. CASE x \in DOMAIN block
      BY <1>2, <1>4, <1>5, <1>8, <2>2, <3>2
    <3> QED BY <1>13, <3>1, <3>2
  <2> QED BY <2>1, <2>2, <2>3
<1>15. Tiles(B, top)
  <2>1. B \in [DOMAIN B -> HeaderType] /\ DOMAIN B \subseteq Nat
    BY <1>4, <1>5, <1>9, <1>13
  <2>2. \A x \in DOMAIN B : B[x].cap >= 1 /\ x % Align = 0 /\ B[x].cap % Align = 0
    BY <1>1, <1>3, <1>4, <1>9, <1>13 DEF Tiles
  <2>3. \A x \in DOMAIN B : After(B, x) < top => After(B, x) \in DOMAIN B
    <3>1. \A x \in DOMAIN block : After(block, x) < offset => After(block, x) \in DOMAIN block
      BY <1>1 DEF Tiles
    <3>2. ASSUME NEW x \in DOMAIN block PROVE After(B, x) \in DOMAIN B
      <4>1. After(block, x) < offset \/ After(block, x) = b
        BY <1>2, <1>4, <1>5
      <4> QED BY <1>13, <1>14, <3>1, <4>1
    <3>3. ~(After(B, b) < top)
      BY <1>8, <1>14
    <3> QED BY <1>13, <3>2, <3>3
  <2>4. \A x, z \in DOMAIN B : x < z => After(B, x) <= z
    <3> SUFFICES ASSUME NEW x \in DOMAIN B, NEW z \in DOMAIN B, x < z PROVE After(B, x) <= z
      OBVIOUS
    <3>1. x # b
      BY <1>2, <1>4, <1>5, <1>13
    <3>2. x \in DOMAIN block /\ After(B, x) = After(block, x)
      BY <1>13, <1>14, <3>1
    <3>3. CASE z = b
      BY <1>2, <1>5, <3>2, <3>3
    <3>4. CASE z \in DOMAIN block
      BY <1>1, <3>2, <3>4 DEF Tiles
    <3> QED BY <1>13, <3>3, <3>4
  <2>5. 0 \in DOMAIN B
    BY <1>1, <1>2, <1>13 DEF Tiles
  <2> QED BY <1>4, <1>8, <1>14, <2>1, <2>2, <2>3, <2>4, <2>5 DEF Tiles
<1>16. Linked(B, top)
  <2> SUFFICES ASSUME NEW x \in DOMAIN B
               PROVE  /\ B[x].next = IF After(B, x) < top THEN After(B, x) ELSE Nil
                      /\ IF x = 0 THEN B[x].prev = Nil
                                  ELSE B[x].prev \in DOMAIN B /\ After(B, B[x].prev) = x
    BY DEF Linked
  <2>1. CASE x = b
    <3>1. B[x].next = Nil /\ B[x].prev = last /\ ~(After(B, x) < top)
      BY <1>8, <1>9, <1>13, <1>14, <2>1
    <3> QED BY <1>2, <1>7, <1>13, <1>14, <2>1, <3>1
  <2>2. CASE x \in DOMAIN block
    <3>1. /\ block[x].next = IF After(block, x) < offset THEN After(block, x) ELSE Nil
          /\ IF x = 0 THEN block[x].prev = Nil
             ELSE block[x].prev \in DOMAIN block /\ After(block, block[x].prev) = x
      BY <1>1, <2>2 DEF Tiled, Linked
    <3>2. IF x = 0 THEN B[x].prev = Nil
                   ELSE B[x].prev \in DOMAIN B /\ After(B, B[x].prev) = x
      BY <1>13, <1>14, <2>2, <3>1
    <3>3. After(B, x) = After(block, x) /\ After(block, x) < top
      BY <1>2, <1>4, <1>5, <1>8, <1>14, <2>2
    <3>4. CASE x = last
      BY <1>2, <1>5, <1>7, <1>13, <2>2, <3>2, <3>3, <3>4
    <3>5. CASE x # last
      <4>1. offset # 0 /\ After(block, x) # offset
        <5>1. offset # 0
          BY <1>7, <2>2
        <5> QED BY <1>1, <1>7, <2>2, <3>5, <5>1, AfterUnique
      <4>2. After(block, x) < offset
        BY <1>4, <1>5, <2>2, <4>1
      <4> QED BY <1>13, <2>2, <3>1, <3>2, <3>3, <3>5, <4>2
    <3> QED BY <3>4, <3>5
  <2> QED BY <1>13, <2>1, <2>2
<1>17. LastIs(B, top, b)
  BY <1>8, <1>13, <1>14 DEF LastIs
<1>18. Frees(B) = F /\ Merged(B)
  <2>1. Frees(B) = F
    BY <1>6, <1>9, <1>13 DEF Frees, F
  <2>2. Merged(B)
    BY <1>1, <1>14, <2>1 DEF Merged, Frees, F
  <2> QED BY <2>1, <2>2
<1>19. Labelled(B)
  BY <1>1, <1>3, <1>6, <1>9, <1>13 DEF Labelled
<1>20. first' = IF offset' = 0 THEN Nil ELSE 0
  BY <1>1, <1>2, <1>7, <1>8
<1>21. HeapInv'
  <2>1. /\ Tiled(block', offset') /\ LastIs(block', offset', last')
        /\ Labelled(block') /\ Merged(block') /\ Lists(free', Frees(block'))
    BY <1>1, <1>2, <1>15, <1>16, <1>17, <1>18, <1>19 DEF B, Tiled
  <2> QED BY <1>20, <2>1
       DEF HeapInv, Frees, Tiled, Tiles, Linked, After, LastIs, Labelled, Merged
<1>22. Granted(B, block, b, bytes, kind)
  BY <1>3, <1>5, <1>6, <1>9, <1>13 DEF Granted, InUse
<1> QED BY <1>21, <1>22 DEF B

LEMMA AllocateStep ==
  ASSUME HeapInv, NEW bytes \in 0 .. WordMax, NEW kind \in Kinds, NEW b,
         Allocate(bytes, kind, b)
  PROVE  HeapInv' /\ Granted(block', block, b, bytes, kind)
<1>1. bytes \in 1 .. WordMax /\ AlignSize(bytes) >= bytes
  BY HeapAssumption DEF Allocate
<1>2. Reuse(bytes, kind, b) \/ Grow(bytes, kind, b)
  BY DEF Allocate
<1> QED BY <1>1, <1>2, ReuseStep, GrowStep

-----------------------------------------------------------------------------
(* The sweep.                                                              *)

\* What the pass has done when it comes to the address a.
PassInv(s, a) ==
    /\ s = [block |-> s.block, run |-> s.run, last |-> s.last, free |-> s.free]
    /\ Tiled(s.block, offset) /\ Labelled(s.block) /\ LastIs(s.block, offset, s.last)
    /\ Lists(s.free, {x \in Frees(s.block) : x < a})
    /\ \A x, y \in Frees(s.block) : y < a => After(s.block, x) # y
    /\ IF s.run = Nil
         THEN \A x \in Frees(s.block) : x < a => After(s.block, x) < a
         ELSE /\ s.run \in Frees(s.block) /\ s.run < a
              /\ After(s.block, s.run) >= a \/ After(s.block, s.run) = offset

\* One step of the pass.
LEMMA MergeStep ==
  ASSUME NEW s, NEW a \in Nat, PassInv(s, a)
  PROVE  /\ PassInv(Merge(s, a), a + 1)
         /\ Keeps(Merge(s, a).block, s.block, InUse(s.block))
<1> DEFINE B == s.block
           F == Frees(B)
<1>1. /\ Tiled(B, offset) /\ Tiles(B, offset) /\ Labelled(B) /\ LastIs(B, offset, s.last)
      /\ Lists(s.free, {x \in F : x < a})
      /\ \A x, y \in F : y < a => After(B, x) # y
      /\ s = [block |-> B, run |-> s.run, last |-> s.last, free |-> s.free]
      /\ Nil \notin Int /\ a # Nil
  BY HeapAssumption DEF PassInv, Tiled
<1>2. /\ \A x \in DOMAIN B : /\ x \in Nat /\ After(B, x) \in Nat /\ x < After(B, x)
                             /\ After(B, x) <= offset
      /\ offset \in Nat /\ F \subseteq DOMAIN B
      /\ \A x, y \in DOMAIN B : x < y => After(B, x) <= y
      /\ \A x \in DOMAIN B : x # offset
  <2>1. \A x \in DOMAIN B : /\ x \in Nat /\ After(B, x) \in Nat /\ x < After(B, x)
                            /\ After(B, x) <= offset
    BY <1>1, Addresses
  <2>2. offset \in Nat /\ F \subseteq DOMAIN B /\ \A x, y \in DOMAIN B : x < y => After(B, x) <= y
    BY <1>1 DEF Tiles, Frees
  <2>3. \A x \in DOMAIN B : x # offset
    BY <2>1, <2>2
  <2> QED BY <2>1, <2>2, <2>3
<1>3. IF s.run = Nil
        THEN \A x \in F : x < a => After(B, x) < a
        ELSE s.run \in F /\ s.run < a /\ (After(B, s.run) >= a \/ After(B, s.run) = offset)
  BY DEF PassInv
<1>4. Keeps(B, B, InUse(B))
  BY DEF Keeps, InUse
<1>5. a \notin F => {x \in F : x < a + 1} = {x \in F : x < a}
  BY <1>2
<1> HIDE DEF B, F
<1>6. CASE a \notin DOMAIN B
  <2>1. Merge(s, a) = s
    BY <1>6 DEF Merge, B
  <2>2. \A x \in F : x # a
    BY <1>2, <1>6
  <2>3. Lists(s.free, {x \in F : x < a + 1})
    BY <1>1, <1>5, <2>2
  <2>4. \A x, y \in F : y < a + 1 => After(B, x) # y
    BY <1>1, <1>2, <2>2
  <2>5. IF s.run = Nil
          THEN \A x \in F : x < a + 1 => After(B, x) < a + 1
          ELSE /\ s.run \in F /\ s.run < a + 1
               /\ After(B, s.run) >= a + 1 \/ After(B, s.run) = offset
    <3>1. CASE s.run = Nil
      BY <1>2, <1>3, <2>2, <3>1
    <3>2. CASE s.run # Nil
      <4>1. s.run \in F /\ s.run < a /\ (After(B, s.run) >= a \/ After(B, s.run) = offset)
        BY <1>3, <3>2
      <4>2. /\ s.run \in DOMAIN B /\ s.run \in Nat /\ After(B, s.run) \in Nat
            /\ After(B, s.run) <= offset
        BY <1>2, <4>1
      <4>3. After(B, s.run) = offset \/ After(B, s.run) \in DOMAIN B
        BY <1>1, <1>2, <4>2 DEF Tiles
      <4>4. After(B, s.run) = offset \/ After(B, s.run) # a
        BY <1>6, <4>3
      <4> QED BY <3>2, <4>1, <4>2, <4>4
    <3> QED BY <3>1, <3>2
  <2> QED BY <1>1, <1>4, <2>1, <2>3, <2>4, <2>5 DEF PassInv, B, F
<1>7. CASE a \in DOMAIN B /\ ~IsFree(B, a)
  <2> DEFINE r == Merge(s, a)
  <2>1. r = [s EXCEPT !.run = Nil]
    BY <1>7 DEF Merge, B
  <2> HIDE DEF r
  <2>2. r = [block |-> B, run |-> Nil, last |-> s.last, free |-> s.free]
    BY <1>1, <2>1
  <2>3. r.block = B /\ r.run = Nil /\ r.last = s.last /\ r.free = s.free
    BY <2>2
  <2>4. \A x \in F : x # a
    BY <1>1, <1>7 DEF IsFree, F, Frees
  <2>5. Lists(r.free, {x \in F : x < a + 1})
    BY <1>1, <1>5, <2>3, <2>4
  <2>6. \A x, y \in F : y < a + 1 => After(B, x) # y
    BY <1>1, <1>2, <2>4
  <2>7. \A x \in F : x < a + 1 => After(B, x) < a + 1
    <3> SUFFICES ASSUME NEW x \in F, x < a + 1 PROVE After(B, x) < a + 1
      OBVIOUS
    <3>1. x \in DOMAIN B /\ x < a
      BY <1>2, <2>4
    <3>2. After(B, x) <= a
      BY <1>2, <1>7, <3>1
    <3> QED BY <1>2, <3>1, <3>2
  <2>8. PassInv(r, a + 1)
    BY <1>1, <2>2, <2>3, <2>5, <2>6, <2>7 DEF PassInv, F
  <2> QED BY <1>4, <2>3, <2>8 DEF r, B
<1>8. CASE a \in F /\ s.run = Nil
  <2> DEFINE r == Merge(s, a)
  <2>1. r = [s EXCEPT !.run = a, !.free = <<a>> \o s.free]
    <3>1. a \in DOMAIN s.block /\ IsFree(s.block, a)
      BY <1>1, <1>2, <1>8 DEF IsFree, B, F, Frees
    <3> QED BY <1>8, <3>1 DEF Merge
  <2> HIDE DEF r
  <2>2. r = [block |-> B, run |-> a, last |-> s.last, free |-> <<a>> \o s.free]
    <3> DEFINE f == <<a>> \o s.free
    <3>1. r = [s EXCEPT !.run = a, !.free = f]
      BY <2>1
    <3> HIDE DEF f
    <3> DEFINE g == [s EXCEPT !.run = a]
    <3>2. g = [block |-> B, run |-> a, last |-> s.last, free |-> s.free]
      BY <1>1
    <3>3. r = [g EXCEPT !.free = f]
      BY <3>1
    <3> HIDE DEF g
    <3>4. r = [block |-> B, run |-> a, last |-> s.last, free |-> f]
      BY <3>2, <3>3
    <3> QED BY <3>4 DEF f
  <2>3. r.block = B /\ r.run = a /\ r.last = s.last /\ r.free = <<a>> \o s.free
    BY <2>2
  <2>4. Lists(r.free, {x \in F : x < a + 1})
    <3>1. Lists(<<a>> \o s.free, {x \in F : x < a} \cup {a})
      <4>1. a \in Int /\ a \notin {x \in F : x < a}
        OBVIOUS
      <4> QED BY <1>1, <4>1, ListsPush
    <3>2. {x \in F : x < a + 1} = {x \in F : x < a} \cup {a}
      BY <1>2, <1>8
    <3> QED BY <2>3, <3>1, <3>2
  <2>5. \A x, y \in F : y < a + 1 => After(B, x) # y
    <3> SUFFICES ASSUME NEW x \in F, NEW y \in F, y < a + 1, After(B, x) = y PROVE FALSE
      OBVIOUS
    <3>1. x \in Nat /\ y \in Nat /\ x < y
      BY <1>2
    <3>2. CASE y < a
      BY <1>1, <3>2
    <3>3. CASE y = a
      <4>1. After(B, x) < a
        BY <1>3, <1>8, <3>1, <3>3
      <4> QED BY <3>3, <4>1
    <3> QED BY <3>1, <3>2, <3>3
  <2>6. After(B, a) >= a + 1 /\ a < a + 1
    BY <1>2, <1>8
  <2>7. PassInv(r, a + 1)
    BY <1>1, <1>8, <2>2, <2>3, <2>4, <2>5, <2>6 DEF PassInv, F
  <2> QED BY <1>4, <2>3, <2>7 DEF r, B
<1>9. CASE a \in F /\ s.run # Nil
  <2> DEFINE r == Merge(s, a)
             p == s.run
             C == AbsorbNext(B, p)
             l == IF B[a].next = Nil THEN p ELSE s.last
  <2>1. r = [s EXCEPT !.block = C, !.last = l]
    <3>1. a \in DOMAIN s.block /\ IsFree(s.block, a)
      BY <1>1, <1>2, <1>9 DEF IsFree, B, F, Frees
    <3>2. r = [s EXCEPT !.block = AbsorbNext(@, s.run),
                        !.last = IF s.block[a].next = Nil THEN s.run ELSE @]
      BY <1>9, <3>1 DEF Merge
    <3> QED BY <3>2 DEF B
  <2>2. /\ p \in F /\ p < a /\ p \in DOMAIN B /\ a \in DOMAIN B /\ After(B, p) = a
        /\ B[p].next = a
    <3>1. p \in F /\ p < a /\ (After(B, p) >= a \/ After(B, p) = offset)
      BY <1>3, <1>9
    <3>2. /\ p \in DOMAIN B /\ a \in DOMAIN B /\ After(B, p) <= a
          /\ After(B, p) \in Nat /\ a < After(B, a) /\ After(B, a) <= offset
          /\ After(B, a) \in Nat
      BY <1>2, <1>9, <3>1
    <3>3. After(B, p) = a
      BY <1>2, <3>1, <3>2
    <3>4. B[p].next = a
      BY <1>1, <3>2, <3>3, Adjacent
    <3> QED BY <3>1, <3>2, <3>3, <3>4
  <2> HIDE DEF r, C, l, p
  <2>3. r = [block |-> C, run |-> p, last |-> l, free |-> s.free]
    BY <1>1, <2>1 DEF p
  <2>4. r.block = C /\ r.run = p /\ r.last = l /\ r.free = s.free
    BY <2>3
  <2>5. Absorbed(C, B, p, a)
    BY <1>1, <2>2, AbsorbFields DEF C
  <2>6. /\ Tiled(C, offset) /\ Frees(C) = F \ {a} /\ Keeps(C, B, InUse(B))
        /\ Labelled(B) => Labelled(C)
        /\ \A m : LastIs(B, offset, m) => LastIs(C, offset, IF B[a].next = Nil THEN p ELSE m)
    <3>1. Tiled(B, offset) /\ p \in Frees(B) /\ a \in Frees(B)
      BY <1>1, <1>9, <2>2 DEF F
    <3>2. B[p].next = a
      BY <2>2
    <3>3. Joined(C, B, offset, p, a)
      BY <2>5, <3>1, <3>2, AbsorbFrees
    <3> QED BY <3>3 DEF Joined, F
  <2>7. LastIs(C, offset, l)
    BY <1>1, <2>6 DEF l
  <2>8. \A x \in DOMAIN C : After(C, x) = IF x = p THEN After(B, a) ELSE After(B, x)
    BY <1>1, <2>2, <2>5, AbsorbTiles
  <2>9. Lists(r.free, {x \in Frees(C) : x < a + 1})
    <3>1. {x \in Frees(C) : x < a + 1} = {x \in F : x < a}
      BY <1>2, <2>6
    <3> QED BY <1>1, <2>4, <3>1
  <2>10. \A x, y \in Frees(C) : y < a + 1 => After(C, x) # y
    <3> SUFFICES ASSUME NEW x \in Frees(C), NEW y \in Frees(C), y < a + 1, After(C, x) = y
                 PROVE  FALSE
      OBVIOUS
    <3>1. /\ x \in F /\ y \in F /\ x \in DOMAIN C /\ y # a /\ y \in Nat
          /\ After(B, a) \in Nat /\ a < After(B, a)
      BY <1>2, <2>2, <2>6 DEF Frees
    <3>2. y < a
      BY <3>1
    <3>3. x # p
      BY <2>8, <3>1, <3>2
    <3> QED BY <1>1, <2>8, <3>1, <3>2, <3>3
  <2>11. p \in Frees(C) /\ p < a + 1 /\ After(C, p) >= a + 1 /\ p # Nil
    <3>1. p \in Frees(C) /\ p \in DOMAIN C /\ p \in Nat
      BY <1>2, <2>2, <2>6 DEF Frees
    <3>2. After(C, p) = After(B, a) /\ After(B, a) \in Nat /\ a < After(B, a)
      BY <1>2, <2>2, <2>8, <3>1
    <3> QED BY <1>1, <2>2, <3>1, <3>2
  <2>12. PassInv(r, a + 1)
    <3>1. Labelled(C)
      BY <1>1, <2>6
    <3>2. /\ r = [block |-> r.block, run |-> r.run, last |-> r.last, free |-> r.free]
          /\ Tiled(r.block, offset) /\ Labelled(r.block) /\ LastIs(r.block, offset, r.last)
      BY <2>3, <2>4, <2>6, <2>7, <3>1
    <3> QED BY <2>4, <2>9, <2>10, <2>11, <3>2 DEF PassInv
  <2> QED BY <2>4, <2>6, <2>12 DEF r, B
<1>10. a \notin DOMAIN B \/ (a \in DOMAIN B /\ ~IsFree(B, a)) \/ a \in F
  BY <1>1 DEF IsFree, F, Frees
<1> QED BY <1>6, <1>7, <1>8, <1>9, <1>10

\* The recursive function Passes exists, and takes one step after the other.
LEMMA PassesDef ==
  ASSUME NEW S
  PROVE  /\ Passes(S)[0] = [block |-> Emptied(S), run |-> Nil, last |-> last, free |-> << >>]
         /\ \A a \in 0 .. ArenaSize - 1 : Passes(S)[a + 1] = Merge(Passes(S)[a], a)
<1> DEFINE start == [block |-> Emptied(S), run |-> Nil, last |-> last, free |-> << >>]
           Runs(g, n) == g = [a \in 0 .. n |-> IF a = 0 THEN start ELSE Merge(g[a - 1], a - 1)]
           N == {n \in Nat : \E g : Runs(g, n)}
<1>1. ArenaSize \in Nat
  BY HeapAssumption
<1> HIDE DEF start
<1>2. 0 \in N
  <2> DEFINE g == [a \in 0 .. 0 |-> start]
  <2>1. Runs(g, 0)
    OBVIOUS
  <2> QED BY <2>1
<1>3. ASSUME NEW n \in Nat, n \in N PROVE n + 1 \in N
  <2>1. PICK g : Runs(g, n)
    BY <1>3
  <2> DEFINE next == Merge(g[n], n)
             h == [a \in 0 .. n + 1 |-> IF a <= n THEN g[a] ELSE next]
  <2> HIDE DEF next
  <2>2. \A a \in 0 .. n : h[a] = g[a]
    OBVIOUS
  <2>3. h[n + 1] = next
    OBVIOUS
  <2>4. ASSUME NEW a \in 0 .. n + 1
        PROVE  h[a] = IF a = 0 THEN start ELSE Merge(h[a - 1], a - 1)
    <3>1. CASE a = 0
      BY <2>1, <2>2, <3>1
    <3>2. CASE a # 0 /\ a <= n
      <4>1. a \in 0 .. n /\ a - 1 \in 0 .. n
        BY <3>2
      <4>2. h[a] = g[a] /\ h[a - 1] = g[a - 1]
        BY <2>2, <4>1
      <4>3. g[a] = Merge(g[a - 1], a - 1)
        BY <2>1, <3>2, <4>1
      <4> QED BY <3>2, <4>2, <4>3
    <3>3. CASE a = n + 1
      <4>1. a - 1 = n /\ n \in 0 .. n /\ a # 0
        BY <3>3
      <4>2. h[a - 1] = g[n]
        BY <2>2, <4>1
      <4> QED BY <2>3, <3>3, <4>1, <4>2 DEF next
    <3> QED BY <3>1, <3>2, <3>3
  <2>5. h = [a \in 0 .. n + 1 |-> h[a]]
    OBVIOUS
  <2> HIDE DEF h
  <2>6. Runs(h, n + 1)
    BY <2>4, <2>5
  <2> QED BY <2>6
<1>4. \E g : Runs(g, ArenaSize)
  <2>1. Nat \subseteq N
    <3> HIDE DEF N
    <3> QED BY <1>2, <1>3, SetInduction
  <2> QED BY <1>1, <2>1
<1> DEFINE Eq(g) == g = [a \in 0 .. ArenaSize |-> IF a = 0 THEN start ELSE Merge(g[a - 1], a - 1)]
<1>5. Passes(S) = CHOOSE g : Eq(g)
  BY DEF Passes, start
<1>6. Eq(Passes(S))
  BY <1>4, <1>5
<1> DEFINE p == Passes(S)
<1>7. p = [a \in 0 .. ArenaSize |-> IF a = 0 THEN start ELSE Merge(p[a - 1], a - 1)]
  BY <1>6
<1> HIDE DEF p
<1>8. p[0] = start
  BY <1>1, <1>7
<1>9. ASSUME NEW a \in 0 .. ArenaSize - 1 PROVE p[a + 1] = Merge(p[a], a)
  <2>1. a + 1 \in 0 .. ArenaSize /\ a + 1 # 0 /\ (a + 1) - 1 = a
    BY <1>1
  <2> QED BY <1>7, <2>1
<1> QED BY <1>8, <1>9 DEF p, start

\* The pass over the emptied heap, up to any address.
LEMMA PassesStep ==
  ASSUME HeapInv, NEW S \in SUBSET InUse(block), NEW a \in 0 .. ArenaSize
  PROVE  /\ PassInv(Passes(S)[a], a)
         /\ Keeps(Passes(S)[a].block, block, InUse(block) \ S)
<1> DEFINE p == Passes(S)
           E == Emptied(S)
           Kept(n) == PassInv(p[n], n) /\ Keeps(p[n].block, block, InUse(block) \ S)
           N == {n \in Nat : n <= ArenaSize => Kept(n)}
<1>1. /\ Tiled(block, offset) /\ Tiles(block, offset) /\ Labelled(block)
      /\ LastIs(block, offset, last) /\ ArenaSize \in Nat /\ Nil \notin Int
  BY HeapAssumption DEF HeapInv, Tiled
<1>2. /\ \A x \in DOMAIN block : block[x] \in HeaderType /\ x \in Nat
      /\ S \subseteq DOMAIN block
  BY <1>1 DEF Tiles, InUse
<1>3. /\ DOMAIN E = DOMAIN block /\ E = [x \in DOMAIN E |-> E[x]]
      /\ \A x \in DOMAIN block \ S : E[x] = block[x]
  BY DEF Emptied
<1>4. ASSUME NEW x \in S
      PROVE  /\ E[x] \in HeaderType /\ E[x].size = 0 /\ E[x].kind = "free"
             /\ E[x].prev = block[x].prev /\ E[x].next = block[x].next
             /\ E[x].cap = block[x].cap
  <2> DEFINE g == [block[x] EXCEPT !.size = 0]
             h == [g EXCEPT !.kind = "free"]
  <2>1. E[x] = h
    BY <1>2 DEF Emptied
  <2>2. /\ g \in HeaderType /\ g.size = 0 /\ g.prev = block[x].prev
        /\ g.next = block[x].next /\ g.cap = block[x].cap
    BY <1>2 DEF HeaderType
  <2> HIDE DEF g
  <2>3. /\ h \in HeaderType /\ h.size = 0 /\ h.kind = "free" /\ h.prev = block[x].prev
        /\ h.next = block[x].next /\ h.cap = block[x].cap
    BY <2>2 DEF HeaderType
  <2> HIDE DEF h, E
  <2> QED BY <2>1, <2>3
<1> HIDE DEF E
<1>5. Relabelled(E, block)
  BY <1>2, <1>3, <1>4 DEF Relabelled
<1>6. Tiled(E, offset) /\ \A x \in DOMAIN block : After(E, x) = After(block, x)
  BY <1>1, <1>5, RelabelTiles
<1>7. Labelled(E)
  BY <1>1, <1>3, <1>4 DEF Labelled
<1>8. LastIs(E, offset, last)
  BY <1>1, <1>3, <1>6 DEF LastIs
<1>9. Keeps(E, block, InUse(block) \ S)
  BY <1>2, <1>3, <1>4 DEF Keeps, InUse
<1>10. \A x \in Frees(E) : x \in Nat
  BY <1>2, <1>3 DEF Frees
<1>11. 0 \in N
  <2>1. p[0] = [block |-> E, run |-> Nil, last |-> last, free |-> << >>]
    BY PassesDef DEF E
  <2> HIDE DEF p
  <2>2. /\ p[0] = [block |-> p[0].block, run |-> p[0].run, last |-> p[0].last,
                   free |-> p[0].free]
        /\ p[0].block = E /\ p[0].run = Nil /\ p[0].last = last /\ p[0].free = << >>
    BY <2>1
  <2>3. {x \in Frees(E) : x < 0} = {}
    BY <1>10
  <2>4. Lists(p[0].free, {x \in Frees(E) : x < 0})
    BY <2>2, <2>3, ListsEmpty
  <2>5. \A x \in Frees(E) : ~(x < 0)
    BY <1>10
  <2>6. PassInv(p[0], 0)
    BY <1>6, <1>7, <1>8, <2>2, <2>4, <2>5 DEF PassInv
  <2> QED BY <1>9, <2>2, <2>6
<1>12. ASSUME NEW n \in Nat, n \in N PROVE n + 1 \in N
  <2> SUFFICES ASSUME n + 1 <= ArenaSize PROVE Kept(n + 1)
    OBVIOUS
  <2>1. Kept(n)
    BY <1>1, <1>12
  <2>2. p[n + 1] = Merge(p[n], n)
    <3>1. n \in 0 .. ArenaSize - 1
      BY <1>1
    <3> QED BY <3>1, PassesDef
  <2> HIDE DEF p
  <2>3. /\ PassInv(p[n + 1], n + 1)
        /\ Keeps(p[n + 1].block, p[n].block, InUse(p[n].block))
    BY <2>1, <2>2, MergeStep
  <2>4. Keeps(p[n + 1].block, block, InUse(block) \ S)
    BY <2>1, <2>3, KeepsAgain
  <2> QED BY <2>3, <2>4
<1>13. a \in N /\ a <= ArenaSize
  <2>1. Nat \subseteq N
    <3> HIDE DEF N
    <3> QED BY <1>11, <1>12, SetInduction
  <2> QED BY <1>1, <2>1
<1> QED BY <1>13

LEMMA SweepStep ==
  ASSUME HeapInv, NEW S \in SUBSET ManagedBlocks, Sweep(S)
  PROVE  HeapInv' /\ Keeps(block', block, InUse(block) \ S)
<1> DEFINE s == Swept(S)
<1>1. S \in SUBSET InUse(block)
  BY HeapAssumption DEF ManagedBlocks, InUse
<1>2. ArenaSize \in Nat /\ ArenaSize \in 0 .. ArenaSize
  BY HeapAssumption
<1>3. PassInv(s, ArenaSize) /\ Keeps(s.block, block, InUse(block) \ S)
  BY <1>1, <1>2, PassesStep DEF Swept
<1>4. /\ block' = s.block /\ last' = s.last /\ free' = s.free
      /\ first' = first /\ offset' = offset
  BY DEF Sweep
<1> HIDE DEF s
<1>5. Tiled(s.block, offset) /\ Labelled(s.block) /\ LastIs(s.block, offset, s.last)
  BY <1>3 DEF PassInv
<1>6. \A x \in Frees(s.block) : x < ArenaSize
  <2>1. \A x \in DOMAIN s.block : /\ x \in Nat /\ After(s.block, x) \in Nat
                                  /\ x < After(s.block, x) /\ After(s.block, x) <= offset
    BY <1>5, Addresses DEF Tiled
  <2>2. offset \in Nat /\ offset <= ArenaSize
    BY <1>2, <1>5 DEF Tiled, Tiles
  <2> QED BY <1>2, <2>1, <2>2 DEF Frees
<1>7. {x \in Frees(s.block) : x < ArenaSize} = Frees(s.block)
  BY <1>6
<1>8. Lists(s.free, Frees(s.block)) /\ Merged(s.block)
  BY <1>3, <1>6, <1>7 DEF PassInv, Merged
<1>9. /\ Tiled(block', offset') /\ LastIs(block', offset', last') /\ Labelled(block')
      /\ Merged(block') /\ Lists(free', Frees(block'))
  BY <1>4, <1>5, <1>8
<1>10. HeapInv'
  BY <1>4, <1>9
     DEF HeapInv, Frees, Tiled, Tiles, Linked, After, LastIs, Labelled, Merged
<1> QED BY <1>3, <1>4, <1>10

-----------------------------------------------------------------------------
(* Sums of requested bytes.                                                *)

Weights == [0 .. ArenaSize - 1 -> Nat]

\* The recursive function Totals exists, and computes running totals.
LEMMA TotalsDef ==
  ASSUME NEW w \in Weights
  PROVE  /\ Totals(w)[0] = 0
         /\ \A a \in 0 .. ArenaSize - 1 : Totals(w)[a + 1] = Totals(w)[a] + w[a]
         /\ \A a \in 0 .. ArenaSize : Totals(w)[a] \in Nat
<1> DEFINE Sums(g, n) == g = [a \in 0 .. n |-> IF a = 0 THEN 0 ELSE g[a - 1] + w[a - 1]]
           N == {n \in Nat : \E g : Sums(g, n)}
<1>1. ArenaSize \in Nat
  BY HeapAssumption
<1>2. 0 \in N
  <2> DEFINE g == [a \in 0 .. 0 |-> 0]
  <2>1. Sums(g, 0)
    OBVIOUS
  <2> QED BY <2>1
<1>3. ASSUME NEW n \in Nat, n \in N PROVE n + 1 \in N
  <2>1. PICK g : Sums(g, n)
    BY <1>3
  <2> DEFINE next == g[n] + w[n]
             h == [a \in 0 .. n + 1 |-> IF a <= n THEN g[a] ELSE next]
  <2> HIDE DEF next
  <2>2. \A a \in 0 .. n : h[a] = g[a]
    OBVIOUS
  <2>3. h[n + 1] = next
    OBVIOUS
  <2>4. ASSUME NEW a \in 0 .. n + 1
        PROVE  h[a] = IF a = 0 THEN 0 ELSE h[a - 1] + w[a - 1]
    <3>1. CASE a = 0
      BY <2>1, <2>2, <3>1
    <3>2. CASE a # 0 /\ a <= n
      <4>1. a \in 0 .. n /\ a - 1 \in 0 .. n
        BY <3>2
      <4>2. h[a] = g[a] /\ h[a - 1] = g[a - 1]
        BY <2>2, <4>1
      <4>3. g[a] = g[a - 1] + w[a - 1]
        BY <2>1, <3>2, <4>1
      <4> QED BY <3>2, <4>2, <4>3
    <3>3. CASE a = n + 1
      <4>1. a - 1 = n /\ n \in 0 .. n /\ a # 0
        BY <3>3
      <4>2. h[a - 1] = g[n]
        BY <2>2, <4>1
      <4> QED BY <2>3, <3>3, <4>1, <4>2 DEF next
    <3> QED BY <3>1, <3>2, <3>3
  <2>5. h = [a \in 0 .. n + 1 |-> h[a]]
    OBVIOUS
  <2> HIDE DEF h
  <2>6. Sums(h, n + 1)
    BY <2>4, <2>5
  <2> QED BY <2>6
<1>4. \E g : Sums(g, ArenaSize)
  <2>1. Nat \subseteq N
    <3> HIDE DEF N
    <3> QED BY <1>2, <1>3, SetInduction
  <2> QED BY <1>1, <2>1
<1> DEFINE Eq(g) == g = [a \in 0 .. ArenaSize |-> IF a = 0 THEN 0 ELSE g[a - 1] + w[a - 1]]
<1>5. Totals(w) = CHOOSE g : Eq(g)
  BY DEF Totals
<1>6. Eq(Totals(w))
  BY <1>4, <1>5
<1> DEFINE p == Totals(w)
<1>7. p = [a \in 0 .. ArenaSize |-> IF a = 0 THEN 0 ELSE p[a - 1] + w[a - 1]]
  BY <1>6
<1> HIDE DEF p
<1>8. p[0] = 0
  BY <1>1, <1>7
<1>9. ASSUME NEW a \in 0 .. ArenaSize - 1 PROVE p[a + 1] = p[a] + w[a]
  <2>1. a + 1 \in 0 .. ArenaSize /\ a + 1 # 0 /\ (a + 1) - 1 = a
    BY <1>1
  <2> QED BY <1>7, <2>1
<1>10. \A a \in 0 .. ArenaSize : p[a] \in Nat
  <2> DEFINE M == {n \in Nat : n <= ArenaSize => p[n] \in Nat}
  <2>1. 0 \in M
    BY <1>8
  <2>2. ASSUME NEW n \in Nat, n \in M PROVE n + 1 \in M
    <3>1. CASE n + 1 <= ArenaSize
      <4>1. n \in 0 .. ArenaSize - 1 /\ p[n] \in Nat
        BY <1>1, <2>2, <3>1
      <4>2. p[n + 1] = p[n] + w[n] /\ w[n] \in Nat
        BY <1>9, <4>1 DEF Weights
      <4> QED BY <4>1, <4>2
    <3> QED BY <3>1
  <2>3. Nat \subseteq M
    <3> HIDE DEF M
    <3> QED BY <2>1, <2>2, SetInduction
  <2> QED BY <1>1, <2>3
<1> QED BY <1>8, <1>9, <1>10 DEF p

\* Totals of sums, and of a single weight.
LEMMA TotalsAdd ==
  ASSUME NEW u \in Weights, NEW v \in Weights, NEW w \in Weights,
         \A a \in 0 .. ArenaSize - 1 : w[a] = u[a] + v[a]
  PROVE  Totals(w)[ArenaSize] = Totals(u)[ArenaSize] + Totals(v)[ArenaSize]
<1> DEFINE U == Totals(u)
           V == Totals(v)
           W == Totals(w)
           N == {n \in Nat : n <= ArenaSize => W[n] = U[n] + V[n]}
<1>1. ArenaSize \in Nat
  BY HeapAssumption
<1>2. /\ U[0] = 0 /\ V[0] = 0 /\ W[0] = 0
      /\ \A a \in 0 .. ArenaSize - 1 : /\ U[a + 1] = U[a] + u[a] /\ V[a + 1] = V[a] + v[a]
                                       /\ W[a + 1] = W[a] + w[a]
      /\ \A a \in 0 .. ArenaSize : U[a] \in Nat /\ V[a] \in Nat
  BY TotalsDef
<1> HIDE DEF U, V, W
<1>3. 0 \in N
  BY <1>2
<1>4. ASSUME NEW n \in Nat, n \in N PROVE n + 1 \in N
  <2>1. CASE n + 1 <= ArenaSize
    <3>1. n \in 0 .. ArenaSize - 1 /\ n \in 0 .. ArenaSize /\ W[n] = U[n] + V[n]
      BY <1>1, <1>4, <2>1
    <3>2. u[n] \in Nat /\ v[n] \in Nat /\ w[n] = u[n] + v[n] /\ U[n] \in Nat /\ V[n] \in Nat
      BY <1>2, <3>1 DEF Weights
    <3>3. /\ U[n + 1] = U[n] + u[n] /\ V[n + 1] = V[n] + v[n] /\ W[n + 1] = W[n] + w[n]
      BY <1>2, <3>1
    <3>4. W[n + 1] = U[n + 1] + V[n + 1]
      BY <3>1, <3>2, <3>3
    <3> QED BY <3>4
  <2> QED BY <2>1
<1>5. ArenaSize \in N
  <2> HIDE DEF N
  <2> QED BY <1>1, <1>3, <1>4, SetInduction
<1> QED BY <1>5 DEF U, V, W

LEMMA TotalsSingle ==
  ASSUME NEW w \in Weights, NEW b \in 0 .. ArenaSize - 1,
         \A a \in 0 .. ArenaSize - 1 : a # b => w[a] = 0
  PROVE  Totals(w)[ArenaSize] = w[b]
<1> DEFINE W == Totals(w)
           N == {n \in Nat : n <= ArenaSize => W[n] = IF n <= b THEN 0 ELSE w[b]}
<1>1. ArenaSize \in Nat /\ w[b] \in Nat /\ b \in Nat
  BY HeapAssumption DEF Weights
<1>2. W[0] = 0 /\ \A a \in 0 .. ArenaSize - 1 : W[a + 1] = W[a] + w[a]
  BY TotalsDef
<1> HIDE DEF W
<1>3. 0 \in N
  BY <1>1, <1>2
<1>4. ASSUME NEW n \in Nat, n \in N PROVE n + 1 \in N
  <2>1. CASE n + 1 <= ArenaSize
    <3>1. n \in 0 .. ArenaSize - 1 /\ W[n] = IF n <= b THEN 0 ELSE w[b]
      BY <1>1, <1>4, <2>1
    <3>2. W[n + 1] = W[n] + w[n]
      BY <1>2, <3>1
    <3>3. CASE n = b
      BY <1>1, <3>1, <3>2, <3>3
    <3>4. CASE n # b
      <4>1. w[n] = 0
        BY <3>1, <3>4
      <4> QED BY <1>1, <3>1, <3>2, <3>4, <4>1
    <3> QED BY <3>3, <3>4
  <2> QED BY <2>1
<1>5. ArenaSize \in N
  <2> HIDE DEF N
  <2> QED BY <1>1, <1>3, <1>4, SetInduction
<1>6. ~(ArenaSize <= b)
  BY <1>1
<1> QED BY <1>5, <1>6 DEF W

Weight(blk, B) == [a \in 0 .. ArenaSize - 1 |-> IF a \in B THEN blk[a].size ELSE 0]

BytesOf(blk, B) == Totals(Weight(blk, B))[ArenaSize]

Sized(blk, B) == B \subseteq 0 .. ArenaSize - 1 /\ \A b \in B : blk[b].size \in Nat

LEMMA BytesType ==
  ASSUME NEW blk, NEW B, Sized(blk, B)
  PROVE  Weight(blk, B) \in Weights /\ BytesOf(blk, B) \in Nat
<1>1. Weight(blk, B) \in Weights
  BY DEF Sized, Weight, Weights
<1>2. ArenaSize \in 0 .. ArenaSize
  BY HeapAssumption
<1> QED BY <1>1, <1>2, TotalsDef DEF BytesOf

LEMMA BytesAdd ==
  ASSUME NEW blk, NEW A, NEW B, Sized(blk, A), Sized(blk, B), A \cap B = {}
  PROVE  BytesOf(blk, A \cup B) = BytesOf(blk, A) + BytesOf(blk, B)
<1>1. Sized(blk, A \cup B)
  BY DEF Sized
<1>2. /\ Weight(blk, A) \in Weights /\ Weight(blk, B) \in Weights
      /\ Weight(blk, A \cup B) \in Weights
  BY <1>1, BytesType
<1>3. ASSUME NEW a \in 0 .. ArenaSize - 1
      PROVE  Weight(blk, A \cup B)[a] = Weight(blk, A)[a] + Weight(blk, B)[a]
  <2>1. CASE a \in A
    <3>1. blk[a].size \in Nat /\ a \notin B
      BY <2>1 DEF Sized
    <3>2. Weight(blk, A \cup B)[a] = blk[a].size /\ Weight(blk, A)[a] = blk[a].size
          /\ Weight(blk, B)[a] = 0
      BY <2>1, <3>1 DEF Weight
    <3> QED BY <3>1, <3>2
  <2>2. CASE a \in B
    <3>1. blk[a].size \in Nat /\ a \notin A
      BY <2>2 DEF Sized
    <3>2. Weight(blk, A \cup B)[a] = blk[a].size /\ Weight(blk, B)[a] = blk[a].size
          /\ Weight(blk, A)[a] = 0
      BY <2>2, <3>1 DEF Weight
    <3> QED BY <3>1, <3>2
  <2>3. CASE a \notin A \cup B
    BY <2>3 DEF Weight
  <2> QED BY <2>1, <2>2, <2>3
<1> QED BY <1>2, <1>3, TotalsAdd DEF BytesOf

LEMMA BytesSame ==
  ASSUME NEW blk, NEW r, NEW B, \A b \in B : r[b].size = blk[b].size
  PROVE  BytesOf(r, B) = BytesOf(blk, B)
<1>1. Weight(r, B) = Weight(blk, B)
  BY DEF Weight
<1> QED BY <1>1 DEF BytesOf

LEMMA BytesSingle ==
  ASSUME NEW blk, NEW b, Sized(blk, {b})
  PROVE  BytesOf(blk, {b}) = blk[b].size
<1>1. Weight(blk, {b}) \in Weights /\ b \in 0 .. ArenaSize - 1
  BY BytesType DEF Sized
<1>2. \A a \in 0 .. ArenaSize - 1 : a # b => Weight(blk, {b})[a] = 0
  BY DEF Weight
<1>3. Weight(blk, {b})[b] = blk[b].size
  BY <1>1 DEF Weight
<1> QED BY <1>1, <1>2, <1>3, TotalsSingle DEF BytesOf

-----------------------------------------------------------------------------
(* The live counters.                                                      *)

KindOf(blk, k) == {b \in DOMAIN blk : blk[b].kind = k}

\* The blocks of a tiling are few and small.
LEMMA Blocks ==
  ASSUME NEW blk, NEW top, Tiles(blk, top), NEW B \in SUBSET DOMAIN blk
  PROVE  Sized(blk, B) /\ IsFiniteSet(B) /\ Cardinality(B) \in Nat
<1>1. \A b \in DOMAIN blk : b \in 0 .. ArenaSize - 1 /\ blk[b].size \in Nat
  <2>1. \A b \in DOMAIN blk : /\ b \in Nat /\ After(blk, b) \in Nat /\ b < After(blk, b)
                              /\ After(blk, b) <= top /\ blk[b].size \in Nat
    BY Addresses
  <2>2. top \in Nat /\ top <= ArenaSize /\ ArenaSize \in Nat
    BY HeapAssumption DEF Tiles
  <2> QED BY <2>1, <2>2
<1>2. B \subseteq 0 .. ArenaSize - 1
  BY <1>1
<1>3. IsFiniteSet(0 .. ArenaSize - 1)
  BY HeapAssumption, FS_Interval
<1>4. IsFiniteSet(B)
  BY <1>2, <1>3, FS_Subset
<1> QED BY <1>1, <1>2, <1>4, FS_CardinalityType DEF Sized

CountsOf(blk, lv) ==
    /\ lv \in [Managed -> [n : Nat, bytes : Nat]]
    /\ \A k \in Managed : /\ lv[k].n = Cardinality(KindOf(blk, k))
                          /\ lv[k].bytes = BytesOf(blk, KindOf(blk, k))

LEMMA CountsAre ==
  /\ LiveType /\ CountersValid <=> CountsOf(block, live)
  /\ (LiveType /\ CountersValid)' <=> CountsOf(block', live')
BY DEF LiveType, CountersValid, CountsOf, KindOf, OfKind, Bytes, BytesOf, Weight

\* Blocks that are kept, and no others, are counted as before.
LEMMA KeptKind ==
  ASSUME NEW r, NEW blk, NEW S, S \subseteq InUse(blk), Keeps(r, blk, S), NEW k \in Managed
  PROVE  KindOf(r, k) = KindOf(blk, k) \cap S
BY HeapAssumption DEF Keeps, InUse, KindOf

\* A release of a raw block.
LEMMA CountsReleased ==
  ASSUME HeapInv, CountsOf(block, live), NEW b \in RawBlocks,
         Keeps(block', block, InUse(block) \ {b})
  PROVE  CountsOf(block', live)
<1> SUFFICES ASSUME NEW k \in Managed
             PROVE  /\ live[k].n = Cardinality(KindOf(block', k))
                    /\ live[k].bytes = BytesOf(block', KindOf(block', k))
  BY DEF CountsOf
<1>1. KindOf(block', k) = KindOf(block, k)
  <2>1. KindOf(block', k) = KindOf(block, k) \cap (InUse(block) \ {b})
    BY KeptKind
  <2> QED BY <2>1, HeapAssumption DEF KindOf, InUse, RawBlocks
<1>2. \A x \in KindOf(block, k) : block'[x].size = block[x].size
  BY HeapAssumption DEF Keeps, KindOf, InUse, RawBlocks
<1>3. BytesOf(block', KindOf(block, k)) = BytesOf(block, KindOf(block, k))
  BY <1>2, BytesSame
<1> QED BY <1>1, <1>3 DEF CountsOf

\* An allocation.
LEMMA CountsGranted ==
  ASSUME HeapInv, HeapInv', CountsOf(block, live), NEW bytes \in Nat, NEW kind \in Kinds, NEW b,
         Granted(block', block, b, bytes, kind), Count(kind, bytes)
  PROVE  CountsOf(block', live')
<1> DEFINE K(k) == KindOf(block, k)
<1>1. live \in [Managed -> [n : Nat, bytes : Nat]]
  BY DEF CountsOf
<1>2. Tiles(block, offset) /\ Tiles(block', offset')
  BY DEF HeapInv, Tiled, Tiles, After
<1>3. /\ b \in DOMAIN block' /\ block'[b].size = bytes /\ block'[b].kind = kind
      /\ InUse(block') = InUse(block) \cup {b} /\ b \notin InUse(block)
      /\ \A x \in InUse(block) : block'[x].size = block[x].size /\ block'[x].kind = block[x].kind
  BY DEF Granted
<1>4. ASSUME NEW k \in Managed
      PROVE  /\ KindOf(block', k) = IF k = kind THEN K(k) \cup {b} ELSE K(k)
             /\ b \notin K(k)
  <2>1. k # "free"
    BY HeapAssumption
  <2>2. /\ KindOf(block', k) = {x \in InUse(block') : block'[x].kind = k}
        /\ K(k) = {x \in InUse(block) : block[x].kind = k}
    BY <2>1 DEF KindOf, InUse
  <2> QED BY <1>3, <2>2
<1>5. ASSUME NEW k \in Managed
      PROVE  /\ BytesOf(block', K(k)) = BytesOf(block, K(k))
             /\ k = kind => /\ BytesOf(block', K(k) \cup {b}) = BytesOf(block, K(k)) + bytes
                            /\ Cardinality(K(k) \cup {b}) = Cardinality(K(k)) + 1
  <2>1. \A x \in K(k) : x \in InUse(block)
    BY HeapAssumption DEF KindOf, InUse
  <2>2. BytesOf(block', K(k)) = BytesOf(block, K(k))
    BY <1>3, <2>1, BytesSame
  <2>3. CASE k = kind
    <3>1. K(k) \subseteq DOMAIN block' /\ b \in DOMAIN block'
      BY <1>3, <2>1 DEF InUse
    <3>2. Sized(block', K(k)) /\ Sized(block', {b}) /\ IsFiniteSet(K(k))
      BY <1>2, <3>1, Blocks
    <3>3. K(k) \cap {b} = {}
      BY <1>4
    <3>4. BytesOf(block', K(k) \cup {b}) = BytesOf(block', K(k)) + BytesOf(block', {b})
      BY <3>2, <3>3, BytesAdd
    <3>5. BytesOf(block', {b}) = bytes
      BY <1>3, <3>2, BytesSingle
    <3>6. Cardinality(K(k) \cup {b}) = Cardinality(K(k)) + 1
      BY <1>4, <3>2, FS_AddElement
    <3> QED BY <2>2, <3>4, <3>5, <3>6
  <2> QED BY <2>2, <2>3
<1> HIDE DEF K
<1>6. ASSUME NEW k \in Managed
      PROVE  live[k].n = Cardinality(K(k)) /\ live[k].bytes = BytesOf(block, K(k))
  BY DEF CountsOf, K
<1>7. ASSUME kind \notin Managed PROVE CountsOf(block', live')
  <2>1. live' = live
    BY <1>7 DEF Count
  <2> QED BY <1>1, <1>4, <1>5, <1>6, <1>7, <2>1 DEF CountsOf
<1>8. ASSUME kind \in Managed PROVE CountsOf(block', live')
  <2> DEFINE h == [live[kind] EXCEPT !.n = @ + 1, !.bytes = @ + bytes]
  <2>1. live' = [live EXCEPT ![kind] = h]
    <3> DEFINE m == [live EXCEPT ![kind].n = @ + 1]
               g == [live[kind] EXCEPT !.n = @ + 1]
    <3>1. live' = [m EXCEPT ![kind].bytes = @ + bytes]
      BY <1>8 DEF Count
    <3>2. m = [live EXCEPT ![kind] = g]
      OBVIOUS
    <3>3. m[kind] = g
      BY <1>1, <1>8, <3>2
    <3>4. h = [g EXCEPT !.bytes = @ + bytes]
      OBVIOUS
    <3> HIDE DEF g, h
    <3>5. live' = [m EXCEPT ![kind] = h]
      BY <3>1, <3>3, <3>4
    <3> HIDE DEF m
    <3> QED BY <1>1, <3>2, <3>5
  <2>2. live[kind] \in [n : Nat, bytes : Nat]
    BY <1>1, <1>8
  <2>3. h \in [n : Nat, bytes : Nat] /\ h.n = live[kind].n + 1 /\ h.bytes = live[kind].bytes + bytes
    <3> DEFINE g == [live[kind] EXCEPT !.n = @ + 1]
    <3>1. /\ g \in [n : Nat, bytes : Nat] /\ g.n = live[kind].n + 1
          /\ g.bytes = live[kind].bytes
      BY <2>2
    <3>2. h = [g EXCEPT !.bytes = @ + bytes]
      OBVIOUS
    <3> HIDE DEF g, h
    <3> QED BY <3>1, <3>2
  <2> HIDE DEF h
  <2>4. live' \in [Managed -> [n : Nat, bytes : Nat]]
    BY <1>1, <2>1, <2>3
  <2>5. ASSUME NEW k \in Managed
        PROVE  /\ live'[k].n = Cardinality(KindOf(block', k))
               /\ live'[k].bytes = BytesOf(block', KindOf(block', k))
    <3>1. CASE k = kind
      <4>1. live'[k] = h
        BY <1>1, <1>8, <2>1, <3>1
      <4> QED BY <1>4, <1>5, <1>6, <1>8, <2>3, <3>1, <4>1
    <3>2. CASE k # kind
      <4>1. live'[k] = live[k]
        BY <1>1, <2>1, <3>2
      <4> QED BY <1>4, <1>5, <1>6, <3>2, <4>1
    <3> QED BY <3>1, <3>2
  <2> QED BY <2>4, <2>5 DEF CountsOf
<1> QED BY <1>7, <1>8

\* A sweep.
LEMMA CountsSwept ==
  ASSUME HeapInv, CountsOf(block, live), NEW S \in SUBSET ManagedBlocks, Uncount(S),
         Keeps(block', block, InUse(block) \ S)
  PROVE  CountsOf(block', live')
<1>1. Tiles(block, offset) /\ S \subseteq InUse(block) /\ InUse(block) \subseteq DOMAIN block
  BY HeapAssumption DEF HeapInv, Tiled, ManagedBlocks, InUse
<1>2. ASSUME NEW k \in Managed
      PROVE  LET K == KindOf(block, k)
             IN  /\ Cardinality(K) - Cardinality(S \cap K) = Cardinality(KindOf(block', k))
                 /\ BytesOf(block, K) - BytesOf(block, S \cap K)
                       = BytesOf(block', KindOf(block', k))
                 /\ Cardinality(KindOf(block', k)) \in Nat
                 /\ BytesOf(block', KindOf(block', k)) \in Nat
  <2> DEFINE K == KindOf(block, k)
             D == S \cap K
             R == K \ S
  <2>1. KindOf(block', k) = R
    <3>1. KindOf(block', k) = K \cap (InUse(block) \ S)
      BY KeptKind
    <3>2. K \subseteq InUse(block)
      BY HeapAssumption DEF KindOf, InUse
    <3> QED BY <3>1, <3>2
  <2>2. K \subseteq DOMAIN block /\ D \subseteq DOMAIN block /\ R \subseteq DOMAIN block
    BY DEF KindOf
  <2>3. /\ Sized(block, D) /\ Sized(block, R) /\ IsFiniteSet(K)
        /\ Cardinality(R) \in Nat /\ Cardinality(K) \in Nat /\ Cardinality(D) \in Nat
    BY <1>1, <2>2, Blocks
  <2>4. K = D \cup R /\ D \cap R = {} /\ K \cap S = D /\ K \ S = R
    OBVIOUS
  <2>5. Cardinality(R) = Cardinality(K) - Cardinality(D)
    <3> HIDE DEF K
    <3>1. Cardinality(K \ S) = Cardinality(K) - Cardinality(K \cap S)
      BY <2>3, FS_Difference
    <3> QED BY <2>4, <3>1
  <2>6. BytesOf(block, D \cup R) = BytesOf(block, D) + BytesOf(block, R)
    BY <2>3, <2>4, BytesAdd
  <2>7. BytesOf(block', R) = BytesOf(block, R)
    <3>1. \A x \in R : block'[x].size = block[x].size
      <4>1. R \subseteq InUse(block) \ S
        BY HeapAssumption DEF KindOf, InUse
      <4> QED BY <4>1 DEF Keeps
    <3> QED BY <3>1, BytesSame
  <2>8. BytesOf(block, D) \in Nat /\ BytesOf(block, R) \in Nat
    BY <2>3, BytesType
  <2> HIDE DEF D, R, K
  <2>9. /\ Cardinality(K) - Cardinality(D) = Cardinality(KindOf(block', k))
        /\ BytesOf(block, K) - BytesOf(block, D) = BytesOf(block', KindOf(block', k))
        /\ Cardinality(KindOf(block', k)) \in Nat
        /\ BytesOf(block', KindOf(block', k)) \in Nat
    BY <2>1, <2>3, <2>4, <2>5, <2>6, <2>7, <2>8
  <2> QED BY <2>9 DEF D, K
<1>3. \A k \in Managed : /\ live[k].n = Cardinality(KindOf(block, k))
                         /\ live[k].bytes = BytesOf(block, KindOf(block, k))
  BY DEF CountsOf
<1>4. live' = [k \in Managed |->
                 [n |-> live[k].n - Cardinality(S \cap KindOf(block, k)),
                  bytes |-> live[k].bytes - BytesOf(block, S \cap KindOf(block, k))]]
  BY DEF Uncount, OfKind, KindOf, Bytes, BytesOf, Weight
<1>5. live' = [k \in Managed |-> [n |-> Cardinality(KindOf(block', k)),
                                  bytes |-> BytesOf(block', KindOf(block', k))]]
  <2>1. \A k \in Managed :
           /\ live[k].n - Cardinality(S \cap KindOf(block, k)) = Cardinality(KindOf(block', k))
           /\ live[k].bytes - BytesOf(block, S \cap KindOf(block, k))
                 = BytesOf(block', KindOf(block', k))
    BY <1>2, <1>3
  <2> QED BY <1>4, <2>1
<1> QED BY <1>2, <1>5 DEF CountsOf

-----------------------------------------------------------------------------
(* The inductive invariant.                                                *)

\* What extends goes on undisturbed while its blocks are kept.
LEMMA ExtendKept ==
  ASSUME ExtendInv, extend' = extend,
         \A x \in Extending : x \in RawBlocks' /\ block'[x].size = block[x].size
  PROVE  ExtendInv'
<1>1. CASE extend = NoExtend
  BY <1>1 DEF ExtendInv, NoExtend
<1>2. CASE extend.step = "allocate" /\ extend # NoExtend
  <2>1. /\ extend \in [step : {"allocate"}, from : RawBlocks, size : Nat,
                       newSize : 1 .. WordMax, oldSize : Nat]
        /\ extend.oldSize = block[extend.from].size
    BY <1>2 DEF ExtendInv
  <2>2. extend.from \in Extending
    BY <1>2 DEF Extending
  <2>3. extend.from \in RawBlocks' /\ block'[extend.from].size = block[extend.from].size
    BY <2>2
  <2>4. extend \in [step : {"allocate"}, from : RawBlocks', size : Nat,
                    newSize : 1 .. WordMax, oldSize : Nat]
    BY <2>1, <2>3
  <2> QED BY <1>2, <2>1, <2>3, <2>4 DEF ExtendInv
<1>3. CASE extend.step = "copied" /\ extend # NoExtend
  <2>1. /\ extend \in [step : {"copied"}, from : RawBlocks, to : RawBlocks, copied : Nat]
        /\ extend.from # extend.to
        /\ extend.copied <= block[extend.from].size
        /\ extend.copied <= block[extend.to].size
    BY <1>3 DEF ExtendInv
  <2>2. extend.from \in Extending /\ extend.to \in Extending
    BY <1>3 DEF Extending
  <2>3. /\ extend.from \in RawBlocks' /\ block'[extend.from].size = block[extend.from].size
        /\ extend.to \in RawBlocks' /\ block'[extend.to].size = block[extend.to].size
    BY <2>2
  <2>4. extend \in [step : {"copied"}, from : RawBlocks', to : RawBlocks', copied : Nat]
    BY <2>1, <2>3
  <2> QED BY <1>3, <2>1, <2>3, <2>4 DEF ExtendInv
<1> QED BY <1>1, <1>2, <1>3 DEF ExtendInv

LEMMA ExtendingRaw ==
  ASSUME ExtendInv
  PROVE  Extending \subseteq RawBlocks
BY DEF ExtendInv, Extending, NoExtend

\* Raw blocks that are in use stay raw.
LEMMA RawKept ==
  ASSUME NEW S, S \subseteq InUse(block), Keeps(block', block, S)
  PROVE  \A x \in RawBlocks \cap S : x \in RawBlocks' /\ block'[x].size = block[x].size
BY DEF RawBlocks, Keeps, InUse

LEMMA RawGranted ==
  ASSUME NEW b, NEW n, NEW k, Granted(block', block, b, n, k)
  PROVE  \A x \in RawBlocks : x \in RawBlocks' /\ block'[x].size = block[x].size /\ x # b
BY DEF RawBlocks, Granted, InUse

LEMMA MinThree ==
  ASSUME NEW a \in Nat, NEW b \in Nat, NEW c \in Nat
  PROVE  LET m == Min({a, b, c}) IN m \in Nat /\ m <= a /\ m <= b /\ m <= c
<1> DEFINE S == {a, b, c}
<1>1. \E x \in S : \A y \in S : x <= y
  <2>1. CASE a <= b /\ a <= c
    BY <2>1
  <2>2. CASE b <= a /\ b <= c
    BY <2>2
  <2>3. CASE c <= a /\ c <= b
    BY <2>3
  <2> QED BY <2>1, <2>2, <2>3
<1>2. Min(S) \in S /\ \A y \in S : Min(S) <= y
  <2> HIDE DEF S
  <2> QED BY <1>1 DEF Min
<1> QED BY <1>2

LEMMA InitIInv == Init => IInv
<1> SUFFICES ASSUME Init PROVE IInv
  OBVIOUS
<1>1. block = << >> /\ first = Nil /\ last = Nil /\ free = << >> /\ offset = 0
  BY DEF Init
<1>2. DOMAIN block = {} /\ Frees(block) = {}
  BY <1>1 DEF Frees
<1>3. Tiled(block, offset)
  <2>1. 0 \in 0 .. ArenaSize /\ 0 % Align = 0
    BY HeapAssumption
  <2>2. block \in [DOMAIN block -> HeaderType]
    BY <1>1
  <2> QED BY <1>1, <1>2, <2>1, <2>2 DEF Tiled, Tiles, Linked
<1>4. HeapInv
  BY <1>1, <1>2, <1>3, ListsEmpty DEF HeapInv, LastIs, Labelled, Merged
<1>5. ExtendInv
  BY DEF Init, ExtendInv
<1>6. LiveType /\ CountersValid
  <2>1. \A k \in Managed : KindOf(block, k) = {}
    BY <1>2 DEF KindOf
  <2>2. Tiles(block, offset)
    BY <1>3 DEF Tiled
  <2>3. BytesOf(block, {}) = 0
    <3> DEFINE N == {}
    <3>1. Sized(block, N) /\ N \cap N = {} /\ N \cup N = N
      BY <2>2, Blocks
    <3> HIDE DEF N
    <3>2. /\ BytesOf(block, N) \in Nat
          /\ BytesOf(block, N \cup N) = BytesOf(block, N) + BytesOf(block, N)
      BY <3>1, BytesAdd, BytesType
    <3>3. BytesOf(block, N) = BytesOf(block, N) + BytesOf(block, N)
      BY <3>1, <3>2
    <3>4. \A n \in Nat : n = n + n => n = 0
      OBVIOUS
    <3> QED BY <3>2, <3>3, <3>4 DEF N
  <2>4. live = [k \in Managed |-> [n |-> 0, bytes |-> 0]]
    BY DEF Init
  <2>5. CountsOf(block, live)
    BY <2>1, <2>3, <2>4, FS_EmptySet DEF CountsOf
  <2> QED BY <2>5, CountsAre
<1>7. HighInv
  BY HeapAssumption DEF Init, HighInv
<1> QED BY <1>4, <1>5, <1>6, <1>7 DEF IInv, CoreInv

\* An allocation keeps the heap and its counters in order.
LEMMA AllocateKeeps ==
  ASSUME CoreInv, NEW bytes \in 0 .. WordMax, NEW kind \in Kinds, NEW b,
         Allocate(bytes, kind, b)
  PROVE  HeapInv' /\ (LiveType /\ CountersValid)' /\ Granted(block', block, b, bytes, kind)
<1>1. HeapInv /\ CountsOf(block, live)
  BY CountsAre DEF CoreInv
<1>2. HeapInv' /\ Granted(block', block, b, bytes, kind)
  BY <1>1, AllocateStep
<1>3. Count(kind, bytes) /\ bytes \in Nat
  BY HeapAssumption DEF Allocate
<1>4. CountsOf(block', live')
  BY <1>1, <1>2, <1>3, CountsGranted
<1> QED BY <1>2, <1>4, CountsAre

\* So does a release of a raw block.
LEMMA ReleaseKeeps ==
  ASSUME CoreInv, NEW b \in RawBlocks, Release(b), UNCHANGED live
  PROVE  /\ HeapInv' /\ (LiveType /\ CountersValid)'
         /\ Keeps(block', block, InUse(block) \ {b})
<1>1. HeapInv /\ CountsOf(block, live)
  BY CountsAre DEF CoreInv
<1>2. b \in InUse(block)
  BY DEF RawBlocks, InUse
<1>3. HeapInv' /\ Keeps(block', block, InUse(block) \ {b})
  BY <1>1, <1>2, ReleaseStep
<1>4. CountsOf(block', live')
  BY <1>1, <1>3, CountsReleased
<1> QED BY <1>3, <1>4, CountsAre

\* What leaves the heap alone leaves it in order.
LEMMA HeapKept ==
  ASSUME CoreInv, UNCHANGED <<block, first, last, free, offset, live>>
  PROVE  HeapInv' /\ (LiveType /\ CountersValid)'
<1>1. /\ block' = block /\ first' = first /\ last' = last /\ free' = free
      /\ offset' = offset /\ live' = live
  OBVIOUS
<1>2. HeapInv /\ CountsOf(block, live)
  BY CountsAre DEF CoreInv
<1>3. HeapInv'
  <2>1. Tiled(block, offset)' /\ LastIs(block, offset, last)'
    BY <1>1, <1>2 DEF HeapInv, Tiled, Tiles, Linked, After, LastIs
  <2>2. Labelled(block)' /\ Merged(block)' /\ Lists(free, Frees(block))'
    BY <1>1, <1>2 DEF HeapInv, Labelled, Merged, Lists, Frees, After
  <2>3. first' = IF offset' = 0 THEN Nil ELSE 0
    BY <1>1, <1>2 DEF HeapInv
  <2> QED BY <2>1, <2>2, <2>3 DEF HeapInv
<1>4. CountsOf(block', live')
  BY <1>1, <1>2
<1> QED BY <1>3, <1>4, CountsAre

LEMMA NextKeeps == CoreInv /\ [Next]_vars => CoreInv'
<1> SUFFICES ASSUME CoreInv, [Next]_vars PROVE CoreInv'
  OBVIOUS
<1>0. HeapInv /\ ExtendInv /\ LiveType /\ CountersValid /\ Extending \subseteq RawBlocks
  BY ExtendingRaw DEF CoreInv
<1>1. ASSUME NEW bytes \in Requests, NEW kind \in Kinds,
             \E b \in 0 .. ArenaSize - 1 : Allocate(bytes, kind, b), UNCHANGED extend
      PROVE  CoreInv'
  <2>1. PICK b \in 0 .. ArenaSize - 1 : Allocate(bytes, kind, b)
    BY <1>1
  <2>2. /\ HeapInv' /\ (LiveType /\ CountersValid)'
        /\ Granted(block', block, b, bytes, kind)
    BY <2>1, HeapAssumption, AllocateKeeps
  <2>3. ExtendInv'
    BY <1>0, <1>1, <2>2, RawGranted, ExtendKept
  <2> QED BY <2>2, <2>3 DEF CoreInv
<1>2. ASSUME NEW b \in DOMAIN block, MemFree(b) PROVE CoreInv'
  <2>1. b \in RawBlocks /\ b \notin Extending /\ Release(b) /\ UNCHANGED <<live, extend>>
    BY <1>2 DEF MemFree
  <2>2. /\ HeapInv' /\ (LiveType /\ CountersValid)'
        /\ Keeps(block', block, InUse(block) \ {b})
    BY <2>1, ReleaseKeeps
  <2>3. \A x \in Extending : x \in RawBlocks \cap (InUse(block) \ {b})
    BY <1>0, <2>1 DEF RawBlocks, InUse
  <2>4. ExtendInv'
    BY <1>0, <2>1, <2>2, <2>3, RawKept, ExtendKept
  <2> QED BY <2>2, <2>4 DEF CoreInv
<1>3. ASSUME NEW b \in DOMAIN block, NEW size \in Requests, NEW newSize \in Requests,
             ExtendLookup(b, size, newSize)
      PROVE  CoreInv'
  <2>1. /\ b \in RawBlocks /\ newSize # 0
        /\ extend' = [step |-> "allocate", from |-> b, size |-> size,
                      newSize |-> newSize, oldSize |-> block[b].size]
        /\ UNCHANGED <<block, first, last, free, offset, highWater, live>>
    BY <1>3 DEF ExtendLookup
  <2>2. size \in Nat /\ newSize \in 1 .. WordMax /\ block[b].size \in Nat
    <3>1. size \in Nat /\ newSize \in 1 .. WordMax
      BY <2>1, HeapAssumption
    <3>2. block[b].size \in Nat
      BY <1>0, Addresses DEF HeapInv, Tiled
    <3> QED BY <3>1, <3>2
  <2>3. RawBlocks' = RawBlocks
    BY <2>1 DEF RawBlocks
  <2>4. ExtendInv'
    BY <2>1, <2>2, <2>3 DEF ExtendInv
  <2>5. HeapInv' /\ (LiveType /\ CountersValid)'
    BY <2>1, HeapKept
  <2> QED BY <2>4, <2>5 DEF CoreInv
<1>4. CASE ExtendAllocate
  <2>1. PICK b \in 0 .. ArenaSize - 1 :
           /\ Allocate(extend.newSize, "raw", b)
           /\ extend' = [step |-> "copied", from |-> extend.from, to |-> b,
                         copied |-> Copied(extend)]
    BY <1>4 DEF ExtendAllocate
  <2>2. /\ extend.from \in RawBlocks /\ extend.size \in Nat /\ extend.newSize \in 1 .. WordMax
        /\ extend.oldSize \in Nat /\ extend.oldSize = block[extend.from].size
    BY <1>0, <1>4 DEF ExtendAllocate, ExtendInv, NoExtend
  <2>3. /\ HeapInv' /\ (LiveType /\ CountersValid)'
        /\ Granted(block', block, b, extend.newSize, "raw")
    <3>1. extend.newSize \in 0 .. WordMax /\ "raw" \in Kinds
      BY <2>2 DEF Kinds
    <3> QED BY <2>1, <3>1, AllocateKeeps
  <2>4. /\ Copied(extend) \in Nat /\ Copied(extend) <= extend.oldSize
        /\ Copied(extend) <= extend.newSize
    BY <2>2, MinThree DEF Copied
  <2>5. /\ b \in RawBlocks' /\ block'[b].size = extend.newSize
        /\ extend.from \in RawBlocks' /\ block'[extend.from].size = extend.oldSize
        /\ extend.from # b
    <3>1. b \in RawBlocks' /\ block'[b].size = extend.newSize
      BY <2>3 DEF Granted, RawBlocks
    <3> QED BY <2>2, <2>3, <3>1, RawGranted
  <2>6. ExtendInv'
    <3>1. extend' \in [step : {"copied"}, from : RawBlocks', to : RawBlocks', copied : Nat]
      BY <2>1, <2>4, <2>5
    <3>2. /\ extend'.step = "copied" /\ extend'.from = extend.from /\ extend'.to = b
          /\ extend'.copied = Copied(extend)
      BY <2>1
    <3> QED BY <2>4, <2>5, <3>1, <3>2 DEF ExtendInv
  <2> QED BY <2>3, <2>6 DEF CoreInv
<1>5. CASE ExtendFails
  <2>1. extend' = NoExtend /\ UNCHANGED <<block, first, last, free, offset, highWater, live>>
    BY <1>5 DEF ExtendFails
  <2>2. HeapInv' /\ (LiveType /\ CountersValid)'
    BY <2>1, HeapKept
  <2> QED BY <2>1, <2>2 DEF CoreInv, ExtendInv
<1>6. CASE ExtendRelease
  <2>1. /\ extend.step = "copied" /\ Release(extend.from) /\ extend' = NoExtend
        /\ UNCHANGED live
    BY <1>6 DEF ExtendRelease
  <2>2. extend.from \in RawBlocks
    BY <1>0, <2>1 DEF Extending
  <2>3. HeapInv' /\ (LiveType /\ CountersValid)'
    BY <2>1, <2>2, ReleaseKeeps
  <2> QED BY <2>1, <2>3 DEF CoreInv, ExtendInv
<1>7. ASSUME NEW S \in SUBSET ManagedBlocks, Sweep(S) PROVE CoreInv'
  <2>1. HeapInv' /\ Keeps(block', block, InUse(block) \ S)
    BY <1>0, <1>7, SweepStep
  <2>2. (LiveType /\ CountersValid)'
    <3>1. CountsOf(block, live) /\ Uncount(S)
      BY <1>0, <1>7, CountsAre DEF Sweep
    <3>2. CountsOf(block', live')
      BY <1>0, <2>1, <3>1, CountsSwept
    <3> QED BY <3>2, CountsAre
  <2>3. extend' = extend /\ \A x \in Extending : x \in RawBlocks \cap (InUse(block) \ S)
    <3>1. \A x \in RawBlocks : x \notin ManagedBlocks /\ x \in InUse(block)
      BY HeapAssumption DEF RawBlocks, ManagedBlocks, InUse
    <3> QED BY <1>0, <1>7, <3>1 DEF Sweep
  <2>4. ExtendInv'
    BY <1>0, <2>1, <2>3, RawKept, ExtendKept
  <2> QED BY <2>1, <2>2, <2>4 DEF CoreInv
<1>8. CASE UNCHANGED vars
  <2>1. HeapInv' /\ (LiveType /\ CountersValid)'
    BY <1>8, HeapKept DEF vars
  <2>2. ExtendInv'
    <3>1. extend' = extend /\ block' = block /\ RawBlocks' = RawBlocks
      BY <1>8 DEF vars, RawBlocks
    <3> QED BY <1>0, <3>1, ExtendKept
  <2> QED BY <2>1, <2>2 DEF CoreInv
<1> QED BY <1>1, <1>2, <1>3, <1>4, <1>5, <1>6, <1>7, <1>8
        DEF Next, NewManaged, MemAlloc, Kinds

\* The offset only grows, and the high water mark with it.
LEMMA HighWaterKept == IInv /\ CoreInv' /\ [Next]_vars => HighInv'
<1> SUFFICES ASSUME IInv, CoreInv', [Next]_vars PROVE HighInv'
  OBVIOUS
<1>1. /\ highWater \in Nat /\ offset <= highWater /\ highWater <= ArenaSize
      /\ offset' \in Nat /\ offset' <= ArenaSize
  BY HeapAssumption DEF IInv, CoreInv, HighInv, HeapInv, Tiled, Tiles
<1>2. RaiseHighWater \/ (offset' = offset /\ highWater' = highWater)
  BY DEF Next, NewManaged, MemAlloc, Allocate, MemFree, Release, ExtendLookup,
         ExtendAllocate, ExtendFails, ExtendRelease, Sweep, vars
<1> QED BY <1>1, <1>2 DEF RaiseHighWater, HighInv

LEMMA NextIInv == IInv /\ [Next]_vars => IInv'
BY NextKeeps, HighWaterKept DEF IInv

(* The heap and the extension in progress are in order in every reachable  *)
(* state.                                                                  *)
THEOREM HeapInductive == Spec => []IInv
BY InitIInv, NextIInv, PTL DEF Spec

-----------------------------------------------------------------------------
(* What the invariant says of the heap.                                    *)

\* A list that names each element once is as long as the set is large.
LEMMA ListsLength ==
  ASSUME NEW f, NEW F, Lists(f, F)
  PROVE  Len(f) = Cardinality(F)
<1>1. f \in Seq(Int) /\ IsInjective(f) /\ ToSet(f) = F
  BY DEF Lists
<1>2. Len(f) \in Nat /\ DOMAIN f = 1 .. Len(f)
  BY <1>1
<1>3. f \in [1 .. Len(f) -> F] /\ \A x \in F : \E i \in 1 .. Len(f) : f[i] = x
  BY <1>1, <1>2 DEF ToSet
<1>4. \A i, j \in 1 .. Len(f) : f[i] = f[j] => i = j
  BY <1>1, <1>2 DEF IsInjective
<1>5. ExistsBijection(1 .. Len(f), F)
  <2>1. f \in Bijection(1 .. Len(f), F)
    BY <1>3, <1>4 DEF Bijection, Injection, Surjection, IsInjective
  <2> QED BY <2>1 DEF ExistsBijection
<1>6. IsFiniteSet(1 .. Len(f)) /\ Cardinality(1 .. Len(f)) = Len(f)
  <2>1. 1 \in Int /\ Len(f) \in Int
    BY <1>2
  <2>2. /\ IsFiniteSet(1 .. Len(f))
        /\ Cardinality(1 .. Len(f)) = IF 1 > Len(f) THEN 0 ELSE Len(f) - 1 + 1
    BY <2>1, FS_Interval
  <2>3. Len(f) = IF 1 > Len(f) THEN 0 ELSE Len(f) - 1 + 1
    BY <1>2
  <2> QED BY <2>2, <2>3
<1> QED BY <1>5, <1>6, FS_Bijection

LEMMA HeaderOK ==
  ASSUME HeapInv, NEW b \in DOMAIN block
  PROVE  HeaderValid(b)
<1>1. Tiled(block, offset) /\ Tiles(block, offset) /\ Labelled(block) /\ Merged(block)
  BY DEF HeapInv, Tiled
<1>2. End(b) = After(block, b)
  BY DEF End, Payload, After
<1>3. /\ b \in Nat /\ offset \in Nat /\ block[b].cap \in Nat /\ End(b) \in Nat
      /\ b < End(b) /\ End(b) <= offset /\ b % Align = 0
  BY <1>1, <1>2, Addresses
<1>4. block[b].cap # 0 /\ block[b].cap % Align = 0
  BY <1>1, <1>3 DEF Tiles
<1>5. block[b].next = IF End(b) < offset THEN End(b) ELSE Nil
  BY <1>1, <1>2 DEF Tiled, Linked
<1>6. block[b].prev = Nil <=> b = 0
  <2>1. CASE b = 0
    BY <1>1, <2>1 DEF Tiled, Linked
  <2>2. CASE b # 0
    <3>1. block[b].prev \in DOMAIN block
      BY <1>1, <2>2 DEF Tiled, Linked
    <3>2. block[b].prev \in Int
      BY <1>1, <3>1, Addresses
    <3> QED BY <2>2, <3>2, HeapAssumption
  <2> QED BY <2>1, <2>2
<1>7. End(b) < offset => End(b) \in DOMAIN block /\ block[End(b)].prev = b
  <2> SUFFICES ASSUME End(b) < offset
               PROVE  End(b) \in DOMAIN block /\ block[End(b)].prev = b
    OBVIOUS
  <2>1. block[b].next = End(b) /\ block[b].next # Nil
    BY <1>3, <1>5, HeapAssumption
  <2> QED BY <1>1, <2>1, Neighbours
<1>8. IF block[b].kind = "free"
        THEN block[b].size = 0 /\ ~IsFree(block, block[b].prev)
        ELSE block[b].size \in 1 .. block[b].cap
  <2>1. CASE block[b].kind # "free"
    BY <1>1, <2>1 DEF Labelled
  <2>2. CASE block[b].kind = "free"
    <3>1. block[b].size = 0
      BY <1>1, <2>2 DEF Labelled
    <3>2. ASSUME IsFree(block, block[b].prev) PROVE FALSE
      <4>1. block[b].prev # Nil /\ block[block[b].prev].kind = "free"
        BY <3>2 DEF IsFree
      <4>2. block[b].prev \in DOMAIN block /\ After(block, block[b].prev) = b
        BY <1>1, <4>1, Neighbours
      <4> QED BY <1>1, <2>2, <4>1, <4>2 DEF Merged, Frees
    <3> QED BY <2>2, <3>1, <3>2
  <2> QED BY <2>1, <2>2
<1> QED BY <1>3, <1>4, <1>5, <1>6, <1>7, <1>8 DEF HeaderValid

LEMMA InvIntegrity == IInv => IntegrityValid
<1> SUFFICES ASSUME IInv PROVE IntegrityValid
  OBVIOUS
<1>1. HeapInv /\ CountersValid /\ offset <= highWater /\ highWater <= ArenaSize
  BY DEF IInv, CoreInv, HighInv
<1>2. /\ Tiled(block, offset) /\ Tiles(block, offset) /\ LastIs(block, offset, last)
      /\ first = (IF offset = 0 THEN Nil ELSE 0) /\ Lists(free, Frees(block))
  BY <1>1 DEF HeapInv, Tiled
<1>3. CASE offset = 0
  <2>1. DOMAIN block = {}
    <3>1. ASSUME NEW b \in DOMAIN block PROVE FALSE
      <4>1. b \in Nat /\ After(block, b) \in Nat /\ b < After(block, b) /\ After(block, b) <= offset
        BY <1>2, Addresses
      <4> QED BY <1>3, <4>1
    <3> QED BY <3>1
  <2>2. free = << >>
    <3>1. free \in Seq(Int) /\ ToSet(free) = {}
      BY <1>2, <2>1 DEF Lists, Frees
    <3>2. Len(free) \in Nat /\ DOMAIN free = 1 .. Len(free)
      BY <3>1
    <3>3. Len(free) = 0
      <4>1. ASSUME Len(free) # 0 PROVE FALSE
        <5>1. 1 \in DOMAIN free
          BY <3>2, <4>1
        <5> QED BY <3>1, <5>1 DEF ToSet
      <4> QED BY <4>1
    <3> QED BY <3>1, <3>3
  <2> QED BY <1>1, <1>2, <1>3, <2>2 DEF IntegrityValid, LastIs
<1>4. CASE offset # 0
  <2>1. first = 0 /\ 0 \in DOMAIN block
    BY <1>2, <1>4 DEF Tiles
  <2>2. last \in DOMAIN block /\ End(last) = offset
    BY <1>2, <1>4 DEF LastIs, End, Payload, After
  <2>3. \A b \in DOMAIN block : HeaderValid(b)
    BY <1>1, HeaderOK
  <2>4. FreeListValid
    <3>1. OfKind("free") = Frees(block)
      BY DEF OfKind, Frees
    <3>2. Len(free) = Cardinality(Frees(block)) /\ ToSet(free) = Frees(block)
      BY <1>2, ListsLength DEF Lists
    <3> QED BY <3>1, <3>2 DEF FreeListValid
  <2> QED BY <1>1, <1>4, <2>1, <2>2, <2>3, <2>4 DEF IntegrityValid
<1> QED BY <1>3, <1>4

(* The runtime's integrity check passes in every reachable state, for any  *)
(* arena, header, alignment and word size and any requests                 *)
(* (embedded_runtime.c:2479-2579).                                         *)
THEOREM IntegrityAlwaysPasses == Spec => []IntegrityCheckPasses
<1>1. IInv => IntegrityCheckPasses
  BY InvIntegrity DEF IntegrityCheckPasses
<1> QED BY <1>1, HeapInductive, PTL

(* The free list holds the free blocks, each once (embedded_runtime.c:     *)
(* 2564-2579).                                                             *)
THEOREM FreeListIsExact == Spec => []FreeListExact
<1>1. IInv => FreeListExact
  BY DEF IInv, CoreInv, HeapInv, Lists, FreeListExact, OfKind, Frees
<1> QED BY <1>1, HeapInductive, PTL

(* bbMemExtend copies within both of its blocks, whatever was allocated,   *)
(* freed or collected while it had let the lock go (embedded_runtime.c:    *)
(* 1115-1149).                                                             *)
THEOREM ExtendStaysInBounds == Spec => []ExtendInBounds
<1>1. IInv => ExtendInBounds
  <2> SUFFICES ASSUME IInv, extend.step = "copied"
               PROVE  /\ {extend.from, extend.to} \subseteq RawBlocks
                      /\ extend.from # extend.to
                      /\ extend.copied <= block[extend.from].size
                      /\ extend.copied <= block[extend.to].size
    BY DEF ExtendInBounds
  <2> QED BY DEF IInv, CoreInv, ExtendInv, NoExtend
<1> QED BY <1>1, HeapInductive, PTL

(* Links, sizes, kinds, counters and the free list stay in their ranges.   *)
THEOREM HeapTypeCorrect == Spec => []HeapTypeOK
<1>1. IInv => HeapTypeOK
  <2> SUFFICES ASSUME IInv PROVE HeapTypeOK
    OBVIOUS
  <2>1. /\ Tiled(block, offset) /\ Tiles(block, offset) /\ LastIs(block, offset, last)
        /\ Labelled(block)
        /\ first = (IF offset = 0 THEN Nil ELSE 0) /\ Lists(free, Frees(block))
    BY DEF IInv, CoreInv, HeapInv, Tiled
  <2>2. offset \in 0 .. ArenaSize /\ ArenaSize \in Nat /\ ArenaSize <= WordMax /\ WordMax \in Nat
    BY <2>1, HeapAssumption DEF Tiles
  <2>3. ASSUME NEW b \in DOMAIN block
        PROVE  /\ b \in 0 .. ArenaSize - 1
               /\ block[b].prev \in DOMAIN block \cup {Nil}
               /\ block[b].next \in DOMAIN block \cup {Nil}
               /\ block[b].cap \in 1 .. ArenaSize
               /\ block[b].size \in 0 .. WordMax
               /\ block[b].kind \in Kinds \cup {"free"}
    <3>1. /\ b \in Nat /\ After(block, b) \in Nat /\ b < After(block, b)
          /\ After(block, b) <= offset /\ block[b] \in HeaderType
          /\ block[b].cap \in Nat /\ block[b].size \in Nat
      BY <2>1, Addresses
    <3>2. block[b].cap >= 1 /\ Header \in Nat /\ After(block, b) = b + Header + block[b].cap
      BY <2>1, HeapAssumption DEF Tiles, After
    <3>3. block[b].cap \in 1 .. ArenaSize /\ b \in 0 .. ArenaSize - 1
      BY <2>2, <3>1, <3>2
    <3>4. block[b].size \in 0 .. WordMax
      <4>1. CASE block[b].kind = "free"
        BY <2>1, <2>2, <4>1 DEF Labelled
      <4>2. CASE block[b].kind # "free"
        <5>1. block[b].size \in 1 .. block[b].cap
          BY <2>1, <4>2 DEF Labelled
        <5> QED BY <2>2, <3>1, <3>3, <5>1
      <4> QED BY <4>1, <4>2
    <3>5. block[b].kind \in Kinds \cup {"free"}
      BY <3>1 DEF HeaderType
    <3>6. block[b].next \in DOMAIN block \cup {Nil} /\ block[b].prev \in DOMAIN block \cup {Nil}
      BY <2>1, Neighbours
    <3> QED BY <3>3, <3>4, <3>5, <3>6
  <2>4. first \in DOMAIN block \cup {Nil} /\ last \in DOMAIN block \cup {Nil}
    BY <2>1 DEF Tiles, LastIs
  <2>5. ToSet(free) \subseteq DOMAIN block
    BY <2>1 DEF Lists, Frees
  <2>6. live \in [Managed -> [n : Nat, bytes : Nat]]
    BY DEF IInv, CoreInv, LiveType
  <2>7. extend.step \in {"none", "allocate", "copied"}
    BY DEF IInv, CoreInv, ExtendInv, NoExtend
  <2> QED BY <2>2, <2>3, <2>4, <2>5, <2>6, <2>7 DEF HeapTypeOK
<1> QED BY <1>1, HeapInductive, PTL

-----------------------------------------------------------------------------
(* The address check of the native-safe buffer calls.                      *)

\* The byte after the requested bytes of a raw block is requested by none.
LEMMA NotRequested ==
  ASSUME HeapInv, NEW b \in RawBlocks, NEW c \in RawBlocks
  PROVE  Payload(b) + block[b].size \notin Payload(c) .. Payload(c) + block[c].size - 1
<1>1. Tiles(block, offset) /\ Labelled(block) /\ b \in DOMAIN block /\ c \in DOMAIN block
  BY DEF HeapInv, Tiled, RawBlocks
<1>2. /\ b \in Nat /\ block[b].cap \in Nat /\ block[b].size \in Nat
      /\ c \in Nat /\ block[c].cap \in Nat /\ block[c].size \in Nat
  BY <1>1, Addresses
<1>3. block[b].size <= block[b].cap /\ block[c].size <= block[c].cap
  BY <1>1, <1>2 DEF Labelled, RawBlocks
<1>4. b < c => After(block, b) <= c
  BY <1>1 DEF Tiles
<1>5. c < b => After(block, c) <= b
  BY <1>1 DEF Tiles
<1>6. Header \in Nat /\ Header >= 1
  BY HeapAssumption
<1>7. /\ After(block, b) = b + Header + block[b].cap
      /\ After(block, c) = c + Header + block[c].cap
      /\ Payload(b) = b + Header /\ Payload(c) = c + Header
  BY DEF After, Payload
<1>8. CASE b = c
  BY <1>2, <1>6, <1>7, <1>8
<1>9. CASE b < c
  BY <1>2, <1>3, <1>4, <1>6, <1>7, <1>9
<1>10. CASE c < b
  BY <1>2, <1>3, <1>5, <1>6, <1>7, <1>10
<1> QED BY <1>2, <1>8, <1>9, <1>10

\* A buffer is usable if it has no byte in the arena or all are requested.
LEMMA UsableExact ==
  ASSUME HeapInv, NEW a \in Int, NEW n \in Nat, n # 0
  PROVE  Usable(a, n) <=>
            LET bytes == a .. a + n - 1
                RawBytes == UNION {Payload(b) .. Payload(b) + block[b].size - 1 : b \in RawBlocks}
                Arena == 0 .. ArenaSize - 1
            IN bytes \cap Arena = {} \/ bytes \subseteq RawBytes
<1> DEFINE bytes == a .. a + n - 1
           RawBytes == UNION {Payload(b) .. Payload(b) + block[b].size - 1 : b \in RawBlocks}
           Arena == 0 .. ArenaSize - 1
<1>1. ArenaSize \in Nat /\ ArenaSize >= 1 /\ offset \in Nat /\ offset <= ArenaSize
  BY HeapAssumption DEF HeapInv, Tiled, Tiles
<1>2. ASSUME NEW b \in RawBlocks
      PROVE  /\ b \in Nat /\ block[b].size \in Nat /\ Payload(b) \in Nat
             /\ Payload(b) + block[b].size <= ArenaSize
  <2>1. Tiles(block, offset) /\ Labelled(block) /\ b \in DOMAIN block /\ block[b].kind = "raw"
    BY DEF HeapInv, Tiled, RawBlocks
  <2>2. /\ b \in Nat /\ block[b].size \in Nat /\ block[b].cap \in Nat
        /\ After(block, b) \in Nat /\ After(block, b) <= offset
    BY <2>1, Addresses
  <2>3. block[b].size <= block[b].cap
    BY <2>1, <2>2 DEF Labelled
  <2>4. Header \in Nat /\ After(block, b) = b + Header + block[b].cap /\ Payload(b) = b + Header
    BY HeapAssumption DEF After, Payload
  <2> QED BY <1>1, <2>2, <2>3, <2>4
<1>3. \A x : x \in RawBytes <=>
                \E b \in RawBlocks : x \in Payload(b) .. Payload(b) + block[b].size - 1
  OBVIOUS
<1>4. \A x : x \in bytes <=> x \in Int /\ a <= x /\ x < a + n
  OBVIOUS
<1>5. \A x : x \in Arena <=> x \in Int /\ 0 <= x /\ x < ArenaSize
  BY <1>1
<1> HIDE DEF bytes, RawBytes, Arena
<1>6. ASSUME Usable(a, n) PROVE bytes \cap Arena = {} \/ bytes \subseteq RawBytes
  <2>2. CASE a + n <= 0 \/ a >= ArenaSize
    <3>1. \A x : ~ (x \in bytes /\ x \in Arena)
      BY <1>1, <1>4, <1>5, <2>2
    <3> QED BY <3>1
  <2>3. ASSUME NEW b \in RawBlocks, Payload(b) <= a, a - Payload(b) <= block[b].size,
               n <= block[b].size - (a - Payload(b))
        PROVE  bytes \subseteq RawBytes
    <3>1. ASSUME NEW x \in bytes PROVE x \in RawBytes
      <4>1. x \in Payload(b) .. Payload(b) + block[b].size - 1
        BY <1>2, <1>4, <2>3
      <4> QED BY <1>3, <4>1
    <3> QED BY <3>1
  <2> QED BY <1>6, <2>2, <2>3 DEF Usable
<1>7. ASSUME bytes \cap Arena = {} PROVE Usable(a, n)
  <2>1. CASE a + n <= 0 \/ a >= ArenaSize
    BY <2>1 DEF Usable
  <2>2. CASE a + n > 0 /\ a < ArenaSize /\ a < 0
    <3>1. 0 \in bytes /\ 0 \in Arena
      BY <1>1, <1>4, <1>5, <2>2
    <3> QED BY <1>7, <3>1
  <2>3. CASE a < ArenaSize /\ a >= 0
    <3>1. a \in bytes /\ a \in Arena
      BY <1>4, <1>5, <1>7, <2>3
    <3> QED BY <1>7, <3>1
  <2> QED BY <1>1, <2>1, <2>2, <2>3
<1>8. ASSUME bytes \subseteq RawBytes PROVE Usable(a, n)
  <2>1. a \in bytes
    BY <1>4, <1>8
  <2>2. PICK b \in RawBlocks : a \in Payload(b) .. Payload(b) + block[b].size - 1
    BY <1>3, <1>8, <2>1
  <2>3. /\ b \in Nat /\ block[b].size \in Nat /\ Payload(b) \in Nat
        /\ Payload(b) + block[b].size <= ArenaSize
    BY <1>2
  <2>4. a + n <= Payload(b) + block[b].size
    <3>1. ASSUME a + n > Payload(b) + block[b].size PROVE FALSE
      <4> DEFINE e == Payload(b) + block[b].size
      <4>1. e \in bytes
        BY <1>4, <2>2, <2>3, <3>1
      <4> HIDE DEF e
      <4>2. PICK c \in RawBlocks : e \in Payload(c) .. Payload(c) + block[c].size - 1
        BY <1>3, <1>8, <4>1
      <4> QED BY <4>2, NotRequested DEF e
    <3> QED BY <2>3, <3>1
  <2>5. /\ Payload(b) <= a /\ a - Payload(b) <= block[b].size
        /\ n <= block[b].size - (a - Payload(b)) /\ a >= 0 /\ a + n <= ArenaSize
    BY <1>1, <2>2, <2>3, <2>4
  <2> QED BY <2>5 DEF Usable
<1>10. Usable(a, n) <=> (bytes \cap Arena = {} \/ bytes \subseteq RawBytes)
  BY <1>6, <1>7, <1>8
<1> QED BY <1>10 DEF bytes, RawBytes, Arena

\* The tests for NULL and for the end of the address space ask for addresses.
LEMMA AddressableExact ==
  ASSUME NEW p \in 0 .. AddressMax, NEW n \in Nat
  PROVE  p .. p + n \subseteq 1 .. AddressMax <=> p # 0 /\ n <= AddressMax - p
<1>1. AddressMax \in Nat
  BY HeapAssumption
<1>2. ASSUME p .. p + n \subseteq 1 .. AddressMax PROVE p # 0 /\ n <= AddressMax - p
  <2>1. p \in p .. p + n /\ p + n \in p .. p + n
    OBVIOUS
  <2>2. p \in 1 .. AddressMax /\ p + n \in 1 .. AddressMax
    BY <1>2, <2>1
  <2> QED BY <1>1, <2>2
<1>3. ASSUME p # 0, n <= AddressMax - p PROVE p .. p + n \subseteq 1 .. AddressMax
  BY <1>1, <1>3
<1> QED BY <1>2, <1>3

(* The address check of the buffer calls lets through, wherever the arena  *)
(* is, exactly the empty buffers and those that with their ends are        *)
(* addresses and have no byte in the arena or only requested bytes of raw  *)
(* blocks; without an arena in place, only the empty ones                  *)
(* (embedded_runtime.c:467-501).                                           *)
THEOREM BufferCheckIsExact == Spec => []BufferCheckExact
<1>1. IInv => BufferCheckExact
  <2> DEFINE RawBytes == UNION {Payload(b) .. Payload(b) + block[b].size - 1 : b \in RawBlocks}
             Arena == 0 .. ArenaSize - 1
             Addressable(p, n) == p .. p + n \subseteq 1 .. AddressMax
             bytes(a, n) == a .. a + n - 1
             Outside(a, n) == bytes(a, n) \cap Arena = {} \/ bytes(a, n) \subseteq RawBytes
  <2> SUFFICES ASSUME IInv, NEW arena \in Bases, NEW p \in 0 .. AddressMax,
                      NEW n \in 0 .. AddressMax
               PROVE  BufferStable(arena, p, n) <=>
                         \/ n = 0
                         \/ /\ Addressable(p, n) /\ Addressable(arena, ArenaSize)
                            /\ Outside(p - arena, n)
    BY DEF BufferCheckExact
  <2>1. /\ AddressMax \in Nat /\ arena \in 0 .. AddressMax /\ ArenaSize \in Nat
        /\ p - arena \in Int /\ n \in Nat /\ HeapInv
    BY HeapAssumption DEF IInv, CoreInv
  <2>2. n # 0 => (Usable(p - arena, n) <=> Outside(p - arena, n))
    BY <2>1, UsableExact
  <2>3. Addressable(p, n) <=> p # 0 /\ n <= AddressMax - p
    BY <2>1, AddressableExact
  <2>4. Addressable(arena, ArenaSize) <=> arena # 0 /\ ArenaSize <= AddressMax - arena
    BY <2>1, AddressableExact
  <2> HIDE DEF Addressable, Outside
  <2> QED BY <2>2, <2>3, <2>4 DEF BufferStable
<1> QED BY <1>1, HeapInductive, PTL

-----------------------------------------------------------------------------
(* The allocator implements its contract.                                  *)

\* The contract's allocations, in the heap blk.
LiveOf(blk) ==
    [a \in {Payload(b) : b \in InUse(blk)} |->
        [size |-> blk[a - Header].size, kind |-> blk[a - Header].kind]]

LEMMA LiveFields ==
  ASSUME NEW blk, NEW top, Tiles(blk, top)
  PROVE  /\ DOMAIN LiveOf(blk) = {Payload(b) : b \in InUse(blk)}
         /\ \A b \in InUse(blk) :
               /\ Payload(b) \in DOMAIN LiveOf(blk)
               /\ LiveOf(blk)[Payload(b)] = [size |-> blk[b].size, kind |-> blk[b].kind]
         /\ \A a \in DOMAIN LiveOf(blk) : \E b \in InUse(blk) : a = Payload(b)
         /\ LiveOf(blk) = [a \in DOMAIN LiveOf(blk) |-> LiveOf(blk)[a]]
<1>1. \A b \in InUse(blk) : b \in Nat /\ Header \in Nat /\ Payload(b) - Header = b
  <2> TAKE b \in InUse(blk)
  <2>1. b \in Nat /\ Header \in Nat
    BY Addresses, HeapAssumption DEF InUse
  <2> QED BY <2>1 DEF Payload
<1> DEFINE h(a) == [size |-> blk[a - Header].size, kind |-> blk[a - Header].kind]
<1>2. LiveOf(blk) = [a \in {Payload(b) : b \in InUse(blk)} |-> h(a)]
  BY DEF LiveOf
<1>3. \A b \in InUse(blk) : h(Payload(b)) = [size |-> blk[b].size, kind |-> blk[b].kind]
  BY <1>1
<1> HIDE DEF h
<1> QED BY <1>2, <1>3

\* An allocation is a grant.
LEMMA GrantMaps ==
  ASSUME HeapInv, HeapInv', NEW b, NEW n \in Nat, NEW k \in Kinds,
         Granted(block', block, b, n, k)
  PROVE  Contract!Next
<1>1. Tiles(block, offset) /\ Tiles(block', offset') /\ Labelled(block')
  BY DEF HeapInv, Tiled
<1>2. /\ b \in DOMAIN block' /\ b \in InUse(block') /\ b \notin InUse(block)
      /\ InUse(block') = InUse(block) \cup {b}
      /\ block'[b].size = n /\ block'[b].kind = k /\ n \in 1 .. block'[b].cap
      /\ \A x \in InUse(block) : block'[x].size = block[x].size /\ block'[x].kind = block[x].kind
  BY DEF Granted, InUse
<1>3. ASSUME NEW x \in InUse(block')
      PROVE  /\ x \in DOMAIN block' /\ x \in Nat /\ block'[x].cap \in Nat
             /\ block'[x].size \in 1 .. block'[x].cap
             /\ After(block', x) = x + Header + block'[x].cap
             /\ Payload(x) = x + Header /\ Payload(x) + block'[x].size <= After(block', x)
             /\ After(block', x) <= ArenaSize
  <2>1. x \in DOMAIN block' /\ block'[x].kind # "free"
    BY DEF InUse
  <2>2. /\ x \in Nat /\ block'[x].cap \in Nat /\ block'[x].size \in Nat
        /\ After(block', x) \in Nat /\ After(block', x) <= offset'
    BY <1>1, <2>1, Addresses
  <2>3. block'[x].size \in 1 .. block'[x].cap
    BY <1>1, <2>1 DEF Labelled
  <2>4. After(block', x) = x + Header + block'[x].cap /\ Payload(x) = x + Header
    BY DEF After, Payload
  <2>5. offset' \in Nat /\ offset' <= ArenaSize /\ Header \in Nat /\ ArenaSize \in Nat
    BY <1>1, HeapAssumption DEF Tiles
  <2> QED BY <2>1, <2>2, <2>3, <2>4, <2>5
<1> DEFINE a == Payload(b)
<1>4. Header \in Nat /\ Header >= 1 /\ ArenaSize \in Nat
  BY HeapAssumption
<1>5. a \in 0 .. ArenaSize - 1 /\ n \in 1 .. ArenaSize /\ n >= 1 /\ 0 <= a /\ a + n <= ArenaSize
  BY <1>2, <1>3, <1>4
<1>6. ASSUME NEW x \in InUse(block)
      PROVE  (a .. a + n - 1) \cap (Payload(x) .. Payload(x) + block[x].size - 1) = {}
  <2>1. x \in InUse(block') /\ x # b /\ block'[x].size = block[x].size
    BY <1>2
  <2>2. /\ x \in DOMAIN block' /\ x \in Nat /\ b \in Nat
        /\ Payload(x) = x + Header /\ Payload(x) + block[x].size <= After(block', x)
        /\ a = b + Header /\ a + n <= After(block', b)
        /\ block[x].size \in Nat /\ After(block', x) \in Int /\ After(block', b) \in Int
    BY <1>2, <1>3, <1>4, <2>1
  <2>3. (x < b => After(block', x) <= b) /\ (b < x => After(block', b) <= x)
    BY <1>1, <1>2, <2>2 DEF Tiles
  <2>4. CASE x < b
    BY <1>4, <2>2, <2>3, <2>4
  <2>5. CASE b < x
    BY <1>4, <2>2, <2>3, <2>5
  <2> QED BY <2>1, <2>2, <2>4, <2>5
<1>7. \A c \in DOMAIN LiveOf(block) :
         (a .. a + n - 1) \cap (c .. c + LiveOf(block)[c].size - 1) = {}
  <2> TAKE c \in DOMAIN LiveOf(block)
  <2>1. PICK x \in InUse(block) : c = Payload(x)
    BY <1>1, LiveFields
  <2>2. LiveOf(block)[Payload(x)] = [size |-> block[x].size, kind |-> block[x].kind]
    BY <1>1, LiveFields
  <2>3. LiveOf(block)[c].size = block[x].size
    BY <2>1, <2>2
  <2> QED BY <1>6, <2>1, <2>3
<1>8. LiveOf(block') = [c \in DOMAIN LiveOf(block) \cup {a} |->
                           IF c = a THEN [size |-> n, kind |-> k] ELSE LiveOf(block)[c]]
  <2>1. DOMAIN LiveOf(block') = DOMAIN LiveOf(block) \cup {a}
    <3>1. DOMAIN LiveOf(block') = {Payload(x) : x \in InUse(block')}
      BY <1>1, LiveFields
    <3>2. DOMAIN LiveOf(block) = {Payload(x) : x \in InUse(block)}
      BY <1>1, LiveFields
    <3> QED BY <1>2, <3>1, <3>2
  <2>2. ASSUME NEW c \in DOMAIN LiveOf(block')
        PROVE  LiveOf(block')[c] = IF c = a THEN [size |-> n, kind |-> k] ELSE LiveOf(block)[c]
    <3>1. PICK x \in InUse(block') : c = Payload(x)
      BY <1>1, LiveFields
    <3>2. LiveOf(block')[c] = [size |-> block'[x].size, kind |-> block'[x].kind]
      BY <1>1, <3>1, LiveFields
    <3>3. c = a <=> x = b
      BY <1>2, <1>3, <1>4, <3>1
    <3>4. x # b => LiveOf(block)[c] = [size |-> block[x].size, kind |-> block[x].kind]
      BY <1>1, <1>2, <3>1, LiveFields
    <3>5. CASE x = b
      BY <1>2, <3>2, <3>3, <3>5
    <3>6. CASE x # b
      BY <1>2, <3>2, <3>3, <3>4, <3>6
    <3> QED BY <3>5, <3>6
  <2>3. LiveOf(block') = [c \in DOMAIN LiveOf(block') |-> LiveOf(block')[c]]
    BY <1>1, LiveFields
  <2> QED BY <2>1, <2>2, <2>3
<1> HIDE DEF a
<1>9. Contract!Grant(a, n, k)
  BY <1>5, <1>7, <1>8 DEF Contract!Grant, Contract!Extent, LiveOf, InUse, Allocated
<1>10. k \in Contract!Kinds
  BY DEF Kinds, Contract!Kinds
<1> QED BY <1>5, <1>9, <1>10 DEF Contract!Next

\* A block that is given up is dropped.
LEMMA DropMaps ==
  ASSUME HeapInv, HeapInv', NEW S, S \subseteq InUse(block),
         Keeps(block', block, InUse(block) \ S)
  PROVE  Contract!Drop({Payload(x) : x \in S})
<1>1. Tiles(block, offset) /\ Tiles(block', offset')
  BY DEF HeapInv, Tiled
<1>2. InUse(block') = InUse(block) \ S
  BY DEF Keeps
<1>3. \A x, y \in InUse(block) : Payload(x) = Payload(y) => x = y
  <2> TAKE x, y \in InUse(block)
  <2>1. x \in Nat /\ y \in Nat /\ Header \in Nat
    BY <1>1, Addresses, HeapAssumption DEF InUse
  <2> QED BY <2>1 DEF Payload
<1> DEFINE D == {Payload(x) : x \in S}
<1>4. DOMAIN LiveOf(block') = DOMAIN LiveOf(block) \ D
  <2>1. DOMAIN LiveOf(block') = {Payload(x) : x \in InUse(block')}
    BY <1>1, LiveFields
  <2>2. DOMAIN LiveOf(block) = {Payload(x) : x \in InUse(block)}
    BY <1>1, LiveFields
  <2> QED BY <1>2, <1>3, <2>1, <2>2
<1>5. ASSUME NEW c \in DOMAIN LiveOf(block') PROVE LiveOf(block')[c] = LiveOf(block)[c]
  <2>1. PICK x \in InUse(block') : c = Payload(x)
    BY <1>1, LiveFields
  <2>2. LiveOf(block')[c] = [size |-> block'[x].size, kind |-> block'[x].kind]
    BY <1>1, <2>1, LiveFields
  <2>3. LiveOf(block)[c] = [size |-> block[x].size, kind |-> block[x].kind]
    BY <1>1, <1>2, <2>1, LiveFields
  <2>4. block'[x].size = block[x].size /\ block'[x].kind = block[x].kind
    BY <1>2 DEF Keeps
  <2> QED BY <2>2, <2>3, <2>4
<1>6. LiveOf(block') = [c \in DOMAIN LiveOf(block') |-> LiveOf(block')[c]]
  BY <1>1, LiveFields
<1>7. LiveOf(block') = [c \in DOMAIN LiveOf(block) \ D |-> LiveOf(block)[c]]
  BY <1>4, <1>5, <1>6
<1> HIDE DEF D
<1>8. Contract!Drop(D)
  BY <1>7 DEF Contract!Drop, Contract!Restrict, LiveOf, InUse, Allocated
<1> QED BY <1>8 DEF D

LEMMA InitMaps == Init => Contract!Init
<1> SUFFICES ASSUME Init PROVE Contract!Init
  OBVIOUS
<1>1. Allocated = {}
  BY DEF Init, Allocated
<1> QED BY <1>1 DEF Contract!Init

\* What leaves the blocks alone stutters.
LEMMA StutterMaps ==
  ASSUME block' = block
  PROVE  UNCHANGED [a \in {Payload(b) : b \in Allocated} |->
                       [size |-> block[a - Header].size, kind |-> block[a - Header].kind]]
BY DEF Allocated

LEMMA NextMaps ==
  IInv /\ IInv' /\ [Next]_vars =>
     \/ Contract!Next
     \/ UNCHANGED [a \in {Payload(b) : b \in Allocated} |->
                      [size |-> block[a - Header].size, kind |-> block[a - Header].kind]]
<1> SUFFICES ASSUME IInv, IInv', [Next]_vars
             PROVE  \/ Contract!Next
                    \/ UNCHANGED [a \in {Payload(b) : b \in Allocated} |->
                         [size |-> block[a - Header].size, kind |-> block[a - Header].kind]]
  OBVIOUS
<1>0. CoreInv /\ HeapInv /\ HeapInv' /\ ExtendInv
  BY DEF IInv, CoreInv
<1>1. ASSUME NEW bytes \in 0 .. WordMax, NEW kind \in Kinds,
             \E b \in 0 .. ArenaSize - 1 : Allocate(bytes, kind, b)
      PROVE  Contract!Next
  <2>1. PICK b \in 0 .. ArenaSize - 1 : Allocate(bytes, kind, b)
    BY <1>1
  <2>2. Granted(block', block, b, bytes, kind) /\ bytes \in Nat
    BY <1>0, <2>1, AllocateKeeps
  <2> QED BY <1>0, <2>2, GrantMaps
<1>2. ASSUME NEW b \in RawBlocks, Release(b), UNCHANGED live PROVE Contract!Next
  <2>1. Keeps(block', block, InUse(block) \ {b}) /\ {b} \subseteq InUse(block)
    BY <1>0, <1>2, ReleaseKeeps DEF RawBlocks, InUse
  <2>2. Contract!Drop({Payload(x) : x \in {b}})
    BY <1>0, <2>1, DropMaps
  <2>3. {Payload(x) : x \in {b}} = {Payload(b)}
    OBVIOUS
  <2>4. /\ Payload(b) \in DOMAIN LiveOf(block)
        /\ LiveOf(block)[Payload(b)].kind = "raw"
    <3>1. b \in InUse(block) /\ block[b].kind = "raw" /\ Tiles(block, offset)
      BY <1>0 DEF RawBlocks, InUse, HeapInv, Tiled
    <3>2. /\ Payload(b) \in DOMAIN LiveOf(block)
          /\ LiveOf(block)[Payload(b)] = [size |-> block[b].size, kind |-> block[b].kind]
      BY <3>1, LiveFields
    <3> QED BY <3>1, <3>2
  <2> QED BY <2>2, <2>3, <2>4 DEF Contract!Next, LiveOf, InUse, Allocated
<1>3. ASSUME NEW S \in SUBSET ManagedBlocks, Sweep(S) PROVE Contract!Next
  <2>1. Keeps(block', block, InUse(block) \ S) /\ S \subseteq InUse(block)
    <3>1. S \subseteq InUse(block)
      BY HeapAssumption DEF ManagedBlocks, InUse
    <3> QED BY <1>0, <1>3, <3>1, SweepStep
  <2>2. Contract!Drop({Payload(x) : x \in S})
    BY <1>0, <2>1, DropMaps
  <2>3. ASSUME NEW c \in {Payload(x) : x \in S}
        PROVE  c \in DOMAIN LiveOf(block) /\ LiveOf(block)[c].kind \in Managed
    <3>1. PICK x \in S : c = Payload(x)
      OBVIOUS
    <3>2. x \in InUse(block) /\ block[x].kind \in Managed /\ Tiles(block, offset)
      BY <1>0, <2>1, <3>1 DEF ManagedBlocks, HeapInv, Tiled
    <3>3. /\ Payload(x) \in DOMAIN LiveOf(block)
          /\ LiveOf(block)[Payload(x)] = [size |-> block[x].size, kind |-> block[x].kind]
      BY <3>2, LiveFields
    <3> QED BY <3>1, <3>2, <3>3
  <2> DEFINE D == {Payload(x) : x \in S}
  <2>4. D \in SUBSET {c \in DOMAIN LiveOf(block) : LiveOf(block)[c].kind \in Managed}
    BY <2>3
  <2> HIDE DEF D
  <2>5. Contract!Drop(D)
    BY <2>2 DEF D
  <2> QED BY <2>4, <2>5 DEF Contract!Next, LiveOf, InUse, Allocated
<1>4. CASE ExtendAllocate
  <2>1. extend.newSize \in 0 .. WordMax
    BY <1>0, <1>4 DEF ExtendAllocate, ExtendInv, NoExtend
  <2> QED BY <1>1, <1>4, <2>1 DEF ExtendAllocate, Kinds
<1>5. CASE ExtendRelease
  <2>1. extend.from \in RawBlocks
    BY <1>0, <1>5 DEF ExtendRelease, ExtendInv, NoExtend
  <2> QED BY <1>2, <1>5, <2>1 DEF ExtendRelease
<1>6. CASE block' = block
  BY <1>6, StutterMaps
<1>7. ASSUME NEW b \in DOMAIN block, MemFree(b) PROVE Contract!Next
  BY <1>2, <1>7 DEF MemFree
<1>8. ASSUME NEW bytes \in Requests, NEW kind \in Kinds,
             \E b \in 0 .. ArenaSize - 1 : Allocate(bytes, kind, b)
      PROVE  Contract!Next
  BY <1>1, <1>8, HeapAssumption
<1> QED BY <1>3, <1>4, <1>5, <1>6, <1>7, <1>8
        DEF Next, vars, NewManaged, MemAlloc, Kinds, ExtendLookup, ExtendFails

(* The allocator implements the arena's contract for any arena, header,    *)
(* alignment and word size: no allocation is ever put on a byte of         *)
(* another, all stay within the arena, and one disappears only by its own  *)
(* release or, if managed, by a sweep (embedded_runtime.c:642-794,         *)
(* 2334-2385).                                                             *)
THEOREM HeapImplementsArena == Spec => ImplementsArena
BY HeapInductive, InitMaps, NextMaps, PTL DEF Spec, Contract!Spec, ImplementsArena

(* Whatever implements the arena's contract, as the allocator does, never  *)
(* puts two live allocations on one byte, whatever was granted and dropped *)
(* before (embedded_runtime.c:721-794).                                    *)
THEOREM AllocationsDisjoint == Contract!Spec => []Contract!Disjoint
<1> DEFINE held == [a \in {Payload(b) : b \in Allocated} |->
                      [size |-> block[a - Header].size, kind |-> block[a - Header].kind]]
<1>1. Contract!Init => Contract!Disjoint
  BY DEF Contract!Init, Contract!Disjoint
<1>0. Contract!Disjoint <=> \A a, c \in DOMAIN held :
        a # c => (a .. a + held[a].size - 1) \cap (c .. c + held[c].size - 1) = {}
  BY DEF Contract!Disjoint, Contract!Extent
<1>2. Contract!Disjoint /\ UNCHANGED held => Contract!Disjoint'
  BY DEF Contract!Disjoint, Contract!Extent
<1>3. ASSUME Contract!Disjoint, NEW a \in 0 .. ArenaSize - 1, NEW n \in 1 .. ArenaSize,
             NEW k \in Contract!Kinds, Contract!Grant(a, n, k)
      PROVE  Contract!Disjoint'
  <2>1. /\ DOMAIN held' = DOMAIN held \cup {a}
        /\ \A c \in DOMAIN held \cup {a} :
              Contract!Extent(c)' = IF c = a THEN a .. a + n - 1 ELSE Contract!Extent(c)
    BY <1>3 DEF Contract!Grant, Contract!Extent
  <2>2. \A c \in DOMAIN held : (a .. a + n - 1) \cap Contract!Extent(c) = {}
    BY <1>3 DEF Contract!Grant
  <2>3. \A c, e \in DOMAIN held : c # e => Contract!Extent(c) \cap Contract!Extent(e) = {}
    BY <1>3 DEF Contract!Disjoint
  <2>4. ASSUME NEW c \in DOMAIN held', NEW e \in DOMAIN held', c # e
        PROVE  Contract!Extent(c)' \cap Contract!Extent(e)' = {}
    <3> HIDE DEF held
    <3>1. CASE c = a
      <4>1. e \in DOMAIN held /\ Contract!Extent(e)' = Contract!Extent(e)
            /\ Contract!Extent(c)' = a .. a + n - 1
        BY <2>1, <2>4, <3>1
      <4> QED BY <2>2, <4>1
    <3>2. CASE e = a
      <4>1. c \in DOMAIN held /\ Contract!Extent(c)' = Contract!Extent(c)
            /\ Contract!Extent(e)' = a .. a + n - 1
        BY <2>1, <2>4, <3>2
      <4> QED BY <2>2, <4>1
    <3>3. CASE c # a /\ e # a
      <4>1. /\ c \in DOMAIN held /\ Contract!Extent(c)' = Contract!Extent(c)
            /\ e \in DOMAIN held /\ Contract!Extent(e)' = Contract!Extent(e)
        BY <2>1, <2>4, <3>3
      <4> QED BY <2>3, <2>4, <4>1
    <3> QED BY <3>1, <3>2, <3>3
  <2> QED
    BY <2>4 DEF Contract!Disjoint
<1>4. ASSUME Contract!Disjoint, NEW S \in SUBSET DOMAIN held, Contract!Drop(S)
      PROVE  Contract!Disjoint'
  <2>1. /\ DOMAIN held' \subseteq DOMAIN held
        /\ \A c \in DOMAIN held' : Contract!Extent(c)' = Contract!Extent(c)
    BY <1>4 DEF Contract!Drop, Contract!Restrict, Contract!Extent
  <2> QED
    BY <1>4, <2>1 DEF Contract!Disjoint
<1>5. Contract!Disjoint /\ [Contract!Next]_held => Contract!Disjoint'
  BY <1>2, <1>3, <1>4 DEF Contract!Next
<1> QED
  BY <1>1, <1>5, PTL DEF Contract!Spec

=============================================================================
