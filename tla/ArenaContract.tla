--------------------------- MODULE ArenaContract ----------------------------
(***************************************************************************)
(* What the managed arena promises its callers: every live allocation owns *)
(* an extent of bytes inside the arena that no other allocation shares and *)
(* that stays as it is until the allocation is released.  A manual (raw)   *)
(* allocation is released by its owner alone, one at a time; managed ones  *)
(* are released by a sweep, several at once.                               *)
(*                                                                         *)
(* docs/runtime-integration.md, "Memory allocation and collection", is the *)
(* prose; HeapAllocator refines this module.                               *)
(***************************************************************************)
EXTENDS Integers, Functions

CONSTANTS ArenaSize,   \* bytes of the arena
          Managed      \* the kinds of collectable allocations

Kinds == Managed \cup {"raw"}

VARIABLE live   \* live[a]: size and kind of the allocation whose payload is at a

Extent(a) == a .. a + live[a].size - 1

TypeOK == /\ DOMAIN live \subseteq 0 .. ArenaSize - 1
          /\ \A a \in DOMAIN live : /\ live[a].size \in 1 .. ArenaSize
                                    /\ live[a].kind \in Kinds

Init == live = << >>

Grant(a, n, k) ==
    /\ n >= 1 /\ 0 <= a /\ a + n <= ArenaSize
    /\ \A c \in DOMAIN live : (a .. a + n - 1) \cap Extent(c) = {}
    /\ live' = [c \in DOMAIN live \cup {a} |->
                   IF c = a THEN [size |-> n, kind |-> k] ELSE live[c]]

Drop(S) == live' = Restrict(live, DOMAIN live \ S)

Next == \/ \E a \in 0 .. ArenaSize - 1, n \in 1 .. ArenaSize, k \in Kinds :
              Grant(a, n, k)
        \/ \E a \in DOMAIN live : live[a].kind = "raw" /\ Drop({a})
        \/ \E S \in SUBSET {a \in DOMAIN live : live[a].kind \in Managed} : Drop(S)

Spec == Init /\ [][Next]_live

(* Live allocations never overlap.                                         *)
Disjoint == \A a, c \in DOMAIN live : a # c => Extent(a) \cap Extent(c) = {}
=============================================================================
