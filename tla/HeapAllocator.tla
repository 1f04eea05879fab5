--------------------------- MODULE HeapAllocator ----------------------------
(***************************************************************************)
(* The managed-arena allocator of runtime.mod/native/embedded_runtime.c:   *)
(* block headers linked in address order, a last-in first-out free list,   *)
(* first fit with splitting, release with coalescing, and the sweep that   *)
(* rebuilds the free list in place; on top of it bbMemAlloc, bbMemFree and *)
(* bbMemExtend, and the address check of the native-safe buffer calls.     *)
(*                                                                         *)
(* This is the multicore build: the owner and the worker allocate, each    *)
(* under the allocator lock, so an allocation, a release and a sweep (the  *)
(* world is stopped for it) are one step each.  bbMemExtend takes the lock *)
(* three times and is three steps.  What a sweep finds unreachable is      *)
(* chosen freely here; Collector says what it can be.                      *)
(*                                                                         *)
(* The header links previous and next are kept as the code keeps them; the *)
(* chain of free_next links is the sequence free.  Addresses are offsets   *)
(* from the arena's base, which the target aligns; only the address check  *)
(* of the buffer calls sees the base, and the machine's own addresses.     *)
(* Without a base every allocation is refused, which changes nothing.      *)
(***************************************************************************)
EXTENDS Integers, SequencesExt

CONSTANTS ArenaSize,   \* BMX_EMBEDDED_ARENA_SIZE
          Header,      \* sizeof(BMXEmbeddedHeapBlock)
          Align,       \* BMX_EMBEDDED_MEMORY_ALIGNMENT
          MaxAlign,    \* _Alignof(max_align_t)
          WordMax,     \* UINT32_MAX
          AddressMax,  \* UINTPTR_MAX
          Bases,       \* what bmx_embedded_arena_base may return, 0 for NULL
          Requests,    \* sizes callers ask for
          Managed,     \* kinds of collectable blocks
          Nil          \* the NULL link

ASSUME HeapAssumption ==
    /\ Align \in Nat \ {0} /\ Header \in Nat \ {0} /\ MaxAlign \in Nat \ {0}
    /\ Header % Align = 0 /\ ArenaSize % Align = 0
    /\ WordMax \in Nat /\ ArenaSize \in 1 .. WordMax
    /\ (WordMax + 1) % Align = 0
    /\ Requests \subseteq 0 .. WordMax
    /\ AddressMax \in Nat /\ Bases \subseteq 0 .. AddressMax
    /\ {"raw", "free"} \cap Managed = {}
    /\ Nil \notin Int

Kinds == Managed \cup {"raw"}

VARIABLES
    block,    \* block[b]: the header at address b, for every header in use
    first,    \* bmx_embedded_heap_first
    last,     \* bmx_embedded_heap_last
    free,     \* the free list, from bmx_embedded_heap_free on
    offset,   \* bmx_embedded_arena_offset
    highWater, \* bmx_embedded_arena_high_water_mark
    live,     \* live[k]: live count and bytes of managed kind k
    extend    \* the bbMemExtend in progress

vars == <<block, first, last, free, offset, highWater, live, extend>>

Payload(b) == b + Header
NoExtend == [step |-> "none"]

HeapTypeOK ==
    /\ DOMAIN block \subseteq 0 .. ArenaSize - 1
    /\ \A b \in DOMAIN block :
          /\ block[b].prev \in DOMAIN block \cup {Nil}
          /\ block[b].next \in DOMAIN block \cup {Nil}
          /\ block[b].cap \in 1 .. ArenaSize
          /\ block[b].size \in 0 .. WordMax
          /\ block[b].kind \in Kinds \cup {"free"}
    /\ first \in DOMAIN block \cup {Nil} /\ last \in DOMAIN block \cup {Nil}
    /\ ToSet(free) \subseteq DOMAIN block
    /\ offset \in 0 .. ArenaSize
    /\ live \in [Managed -> [n : Nat, bytes : Nat]]
    /\ extend.step \in {"none", "allocate", "copied"}

Init ==
    /\ block = << >> /\ first = Nil /\ last = Nil /\ free = << >>
    /\ offset = 0 /\ highWater = 0
    /\ live = [k \in Managed |-> [n |-> 0, bytes |-> 0]]
    /\ extend = NoExtend

-----------------------------------------------------------------------------
(* Allocation                                                              *)

\* bytes + alignment - 1 wraps at 32 bits.
AlignSize(n) == LET sum == (n + Align - 1) % (WordMax + 1) IN sum - (sum % Align)

\* Mutant: the header is taken for part of the capacity.
FitsWithHeader(n) == {i \in DOMAIN free :
                         /\ block[free[i]].cap + Header >= n
                         /\ \A j \in 1 .. i - 1 : block[free[j]].cap + Header < n}

\* Index in the free list of the first block that is large enough.
FirstFit(n) == {i \in DOMAIN free :
                   /\ block[free[i]].cap >= n
                   /\ \A j \in 1 .. i - 1 : block[free[j]].cap < n}

\* b keeps n bytes of its payload and the rest becomes a free block.
Split(b, n) ==
    LET r == Payload(b) + n
        rest == [prev |-> b, next |-> block[b].next, size |-> 0, kind |-> "free",
                 cap |-> block[b].cap - n - Header]
    IN [c \in DOMAIN block \cup {r} |->
           IF c = r THEN rest
           ELSE IF c = b THEN [block[b] EXCEPT !.next = r, !.cap = n]
           ELSE IF c = block[b].next THEN [block[c] EXCEPT !.prev = r]
           ELSE block[c]]

Grant(blk, b, bytes, kind) ==
    block' = [blk EXCEPT ![b].size = bytes, ![b].kind = kind]

Count(kind, bytes) ==
    live' = IF kind \in Managed
              THEN [live EXCEPT ![kind].n = @ + 1, ![kind].bytes = @ + bytes]
              ELSE live

Reuse(bytes, kind, b) ==
    LET n == AlignSize(bytes) IN
    \E i \in FirstFit(n) :
        /\ b = free[i]
        /\ IF block[b].cap >= n + Header + MaxAlign
             THEN /\ Grant(Split(b, n), b, bytes, kind)
                  /\ free' = <<Payload(b) + n>> \o RemoveAt(free, i)
                  /\ last' = IF block[b].next = Nil THEN Payload(b) + n ELSE last
             ELSE /\ Grant(block, b, bytes, kind)
                  /\ free' = RemoveAt(free, i)
                  /\ UNCHANGED last
        /\ UNCHANGED <<first, offset>>

\* No free block fits: the arena grows, if it can.
Grow(bytes, kind, b) ==
    LET n == AlignSize(bytes)
        new == [prev |-> last, next |-> Nil, cap |-> n, size |-> bytes, kind |-> kind]
    IN
    /\ FirstFit(n) = {}
    /\ n <= WordMax - Header
    /\ Header + n <= ArenaSize - offset
    /\ b = offset
    /\ offset' = offset + Header + n
    /\ block' = [c \in DOMAIN block \cup {b} |->
                    IF c = b THEN new
                    ELSE IF c = last THEN [block[c] EXCEPT !.next = b]
                    ELSE block[c]]
    /\ first' = IF last = Nil THEN b ELSE first
    /\ last' = b
    /\ UNCHANGED free

RaiseHighWater == highWater' = IF offset' > highWater THEN offset' ELSE highWater

\* Mutant: a size that wraps to 0 when aligned is not refused.
AllocateWrapped(bytes, kind, b) ==
    /\ bytes # 0
    /\ Reuse(bytes, kind, b) \/ Grow(bytes, kind, b)
    /\ RaiseHighWater
    /\ Count(kind, bytes)

\* heap_allocate: a request that cannot be served changes nothing.
Allocate(bytes, kind, b) ==
    /\ bytes # 0
    /\ AlignSize(bytes) >= bytes
    /\ Reuse(bytes, kind, b) \/ Grow(bytes, kind, b)
    /\ RaiseHighWater
    /\ Count(kind, bytes)

CanAllocate(bytes) ==
    LET n == AlignSize(bytes) IN
    /\ bytes # 0 /\ n >= bytes
    /\ \/ FirstFit(n) # {}
       \/ n <= WordMax - Header /\ Header + n <= ArenaSize - offset

NewManaged(bytes, kind) ==
    /\ \E b \in 0 .. ArenaSize - 1 : Allocate(bytes, kind, b)
    /\ UNCHANGED extend

\* bbMemAlloc and the worker's arena_allocate
MemAlloc(bytes) ==
    /\ \E b \in 0 .. ArenaSize - 1 : Allocate(bytes, "raw", b)
    /\ UNCHANGED extend

-----------------------------------------------------------------------------
(* Release and coalescing                                                  *)

IsFree(blk, b) == b # Nil /\ blk[b].kind = "free"

\* Mutant: the block after the absorbed one keeps its previous link.
AbsorbOneWay(blk, b) ==
    LET c == blk[b].next
    IN [x \in DOMAIN blk \ {c} |->
           IF x = b THEN [blk[b] EXCEPT !.cap = @ + Header + blk[c].cap,
                                        !.next = blk[c].next]
           ELSE blk[x]]

\* b takes over its physical successor, header and all.
AbsorbNext(blk, b) ==
    LET c == blk[b].next
    IN [x \in DOMAIN blk \ {c} |->
           IF x = b THEN [blk[b] EXCEPT !.cap = @ + Header + blk[c].cap,
                                        !.next = blk[c].next]
           ELSE IF x = blk[c].next THEN [blk[x] EXCEPT !.prev = b]
           ELSE blk[x]]

Freed(blk, b) == [blk EXCEPT ![b].size = 0, ![b].kind = "free"]

\* Mutant: the following free block stays on the free list when it is merged.
ReleaseKeepingNext(b) ==
    LET next == block[b].next
        prev == block[b].prev
        freed == Freed(block, b)
        joined == IF IsFree(block, next) THEN AbsorbNext(freed, b) ELSE freed
        start == IF IsFree(block, prev) THEN prev ELSE b
    IN /\ block' = IF start = prev THEN AbsorbNext(joined, prev) ELSE joined
       /\ last' = IF block'[start].next = Nil THEN start ELSE last
       /\ free' = <<start>> \o RemoveFirst(free, prev)
       /\ UNCHANGED <<first, offset, highWater>>

Release(b) ==
    LET next == block[b].next
        prev == block[b].prev
        freed == Freed(block, b)
        joined == IF IsFree(block, next) THEN AbsorbNext(freed, b) ELSE freed
        start == IF IsFree(block, prev) THEN prev ELSE b
    IN /\ block' = IF start = prev THEN AbsorbNext(joined, prev) ELSE joined
       /\ last' = IF block'[start].next = Nil THEN start ELSE last
       /\ free' = <<start>> \o RemoveFirst(RemoveFirst(free, next), prev)
       /\ UNCHANGED <<first, offset, highWater>>

\* raw_block: the block a manual pointer names; anything else panics.
RawBlocks == {b \in DOMAIN block : block[b].kind = "raw"}

\* The blocks a pending bbMemExtend works on; freeing one is the caller's bug.
Extending == CASE extend.step = "allocate" -> {extend.from}
               [] extend.step = "copied"   -> {extend.from, extend.to}
               [] OTHER                    -> {}

MemFree(b) ==
    /\ b \in RawBlocks \ Extending
    /\ Release(b)
    /\ UNCHANGED <<live, extend>>

-----------------------------------------------------------------------------
(* bbMemExtend(memory, size, new_size): looks the block up, allocates as   *)
(* bbMemAlloc does (which may collect), copies, frees.                     *)

ExtendLookup(b, size, newSize) ==
    /\ extend = NoExtend
    /\ b \in RawBlocks
    /\ newSize # 0
    /\ extend' = [step |-> "allocate", from |-> b, size |-> size,
                  newSize |-> newSize, oldSize |-> block[b].size]
    /\ UNCHANGED <<block, first, last, free, offset, highWater, live>>

\* Mutant: the caller's idea of the old size is believed.
CopiedAsClaimed(e) == Min({e.size, e.newSize})

Copied(e) == Min({e.size, e.oldSize, e.newSize})

ExtendAllocate ==
    /\ extend.step = "allocate"
    /\ \E b \in 0 .. ArenaSize - 1 :
          /\ Allocate(extend.newSize, "raw", b)
          /\ extend' = [step |-> "copied", from |-> extend.from, to |-> b,
                        copied |-> Copied(extend)]

\* Out of memory: NULL is returned and the old block stays.
ExtendFails ==
    /\ extend.step = "allocate"
    /\ ~CanAllocate(extend.newSize)
    /\ extend' = NoExtend
    /\ UNCHANGED <<block, first, last, free, offset, highWater, live>>

ExtendRelease ==
    /\ extend.step = "copied"
    /\ Release(extend.from)
    /\ extend' = NoExtend
    /\ UNCHANGED live

-----------------------------------------------------------------------------
(* The sweep of bmx_embedded_collect_objects, with S the managed blocks    *)
(* that were not marked: one pass in physical order.  The first free block *)
(* of a run takes over the others and is pushed on a new free list.        *)

ManagedBlocks == {b \in DOMAIN block : block[b].kind \in Managed}

\* The pass, at the address a: run is the free block before it, or Nil.
\* The links lead upwards, so the addresses come in the order of the links.
Merge(s, a) ==
    CASE a \notin DOMAIN s.block -> s
      [] a \in DOMAIN s.block /\ ~IsFree(s.block, a) -> [s EXCEPT !.run = Nil]
      [] a \in DOMAIN s.block /\ IsFree(s.block, a) /\ s.run = Nil ->
           [s EXCEPT !.run = a, !.free = <<a>> \o @]
      [] OTHER -> [s EXCEPT !.block = AbsorbNext(@, s.run),
                            !.last = IF s.block[a].next = Nil THEN s.run ELSE @]

\* The blocks of S are given up.  What is dead is settled before the pass, so
\* this can come before anything merges.
Emptied(S) == [b \in DOMAIN block |->
                  IF b \in S THEN [block[b] EXCEPT !.size = 0, !.kind = "free"]
                             ELSE block[b]]

Passes(S) ==
    LET pass[a \in 0 .. ArenaSize] ==
            IF a = 0
              THEN [block |-> Emptied(S), run |-> Nil, last |-> last, free |-> << >>]
              ELSE Merge(pass[a - 1], a - 1)
    IN pass

Swept(S) == Passes(S)[ArenaSize]

\* The running totals of w[0], w[1], ..., w[ArenaSize - 1].
Totals(w) ==
    LET total[a \in 0 .. ArenaSize] == IF a = 0 THEN 0 ELSE total[a - 1] + w[a - 1]
    IN total

\* The requested bytes of the blocks of B.
Bytes(B) ==
    Totals([a \in 0 .. ArenaSize - 1 |-> IF a \in B THEN block[a].size ELSE 0])[ArenaSize]

OfKind(k) == {b \in DOMAIN block : block[b].kind = k}

Uncount(S) ==
    live' = [k \in Managed |-> [n |-> live[k].n - Cardinality(S \cap OfKind(k)),
                                bytes |-> live[k].bytes - Bytes(S \cap OfKind(k))]]

Sweep(S) ==
    /\ S # {} /\ S \subseteq ManagedBlocks
    /\ block' = Swept(S).block
    /\ last' = Swept(S).last
    /\ free' = Swept(S).free
    /\ Uncount(S)
    /\ UNCHANGED <<first, offset, highWater, extend>>

-----------------------------------------------------------------------------
(* buffer_stable: may native code work on the n bytes at address p while   *)
(* collections run?  What NULL or the end of the address space cuts off is *)
(* refused, and everything while there is no arena in place.  Otherwise    *)
(* memory outside the arena may be used, and of the arena only the         *)
(* requested part of one raw block.                                        *)

\* Mutant: the rounded-up capacity of the block counts as requested.
UsableByCapacity(a, n) ==
    \/ a + n <= 0 \/ a >= ArenaSize
    \/ /\ a >= 0 /\ a + n <= ArenaSize
       /\ \E b \in RawBlocks :
             /\ Payload(b) <= a
             /\ a + n <= Payload(b) + block[b].cap

\* The n bytes at the offset a, which is negative below the arena.
Usable(a, n) ==
    \/ a + n <= 0 \/ a >= ArenaSize
    \/ /\ a >= 0 /\ a + n <= ArenaSize
       /\ \E b \in RawBlocks :
             /\ Payload(b) <= a
             /\ a - Payload(b) <= block[b].size
             /\ n <= block[b].size - (a - Payload(b))

BufferStable(arena, p, n) ==
    \/ n = 0
    \/ /\ p # 0
       /\ n <= AddressMax - p
       /\ arena # 0
       /\ ArenaSize <= AddressMax - arena
       /\ Usable(p - arena, n)

-----------------------------------------------------------------------------
(* heap_integrity_valid walks the arena from its base, header by header,   *)
(* then checks the counters and the free list against what it met.  Its    *)
(* tests of the flags need no conjunct: a block has one kind here, and the *)
(* finalizer flags, which only an object may carry, are Collector's.       *)

End(b) == Payload(b) + block[b].cap

HeaderValid(b) ==
    /\ b % Align = 0 /\ block[b].cap % Align = 0 /\ block[b].cap # 0
    /\ End(b) <= offset
    /\ block[b].next = IF End(b) < offset THEN End(b) ELSE Nil
    /\ block[b].prev = Nil <=> b = 0
    /\ End(b) < offset => End(b) \in DOMAIN block /\ block[End(b)].prev = b
    /\ IF block[b].kind = "free"
         THEN block[b].size = 0 /\ ~IsFree(block, block[b].prev)
         ELSE block[b].size \in 1 .. block[b].cap

CountersValid ==
    \A k \in Managed : /\ live[k].n = Cardinality(OfKind(k))
                       /\ live[k].bytes = Bytes(OfKind(k))

FreeListValid ==
    ToSet(free) \subseteq OfKind("free") /\ Len(free) = Cardinality(OfKind("free"))

IntegrityValid ==
    /\ offset <= highWater /\ highWater <= ArenaSize
    /\ IF offset = 0
         THEN first = Nil /\ last = Nil /\ free = << >>
         ELSE /\ first = 0 /\ 0 \in DOMAIN block
              /\ \A b \in DOMAIN block : HeaderValid(b)
              /\ last \in DOMAIN block /\ End(last) = offset
              /\ CountersValid /\ FreeListValid

-----------------------------------------------------------------------------
Next ==
    \/ \E bytes \in Requests, kind \in Managed : NewManaged(bytes, kind)
    \/ \E bytes \in Requests : MemAlloc(bytes)
    \/ \E b \in DOMAIN block : MemFree(b)
    \/ \E b \in DOMAIN block, size, newSize \in Requests : ExtendLookup(b, size, newSize)
    \/ ExtendAllocate \/ ExtendFails \/ ExtendRelease
    \/ \E S \in SUBSET ManagedBlocks : Sweep(S)

Spec == Init /\ [][Next]_vars

-----------------------------------------------------------------------------
(* Properties                                                              *)

(* The free list holds every free block once and nothing else: a block     *)
(* that was merged away or handed out is never found on it                 *)
(* (embedded_runtime.c:2564-2579).                                         *)
FreeListExact ==
    /\ IsInjective(free)
    /\ ToSet(free) = OfKind("free")

(* The runtime's own integrity check, which programs and tests may call at *)
(* any moment, never reports a damaged heap, whatever mixture of splits,   *)
(* merges, extensions and sweeps led here (embedded_runtime.c:2479-2579).  *)
(* It counts free-list entries, so FreeListExact says more.                *)
IntegrityCheckPasses == IntegrityValid

(* bbMemExtend copies no byte from beyond the old request or to beyond the *)
(* new one, and both blocks are still its own when it copies, though the   *)
(* lock was released in between (embedded_runtime.c:1115-1149).            *)
ExtendInBounds ==
    extend.step = "copied" =>
        /\ {extend.from, extend.to} \subseteq RawBlocks
        /\ extend.from # extend.to
        /\ extend.copied <= block[extend.from].size
        /\ extend.copied <= block[extend.to].size

(* The address check agrees, byte by byte, with its purpose, wherever the  *)
(* arena is: a buffer passes if it is empty, or if the buffer and the      *)
(* arena, each with its end, are addresses other than NULL, and the        *)
(* buffer has no byte in the arena or all of them are requested bytes of   *)
(* raw blocks - never a header, padding, or memory a collection may        *)
(* reclaim (embedded_runtime.c:467-501).                                   *)
BufferCheckExact ==
    LET RawBytes == UNION {Payload(b) .. Payload(b) + block[b].size - 1 : b \in RawBlocks}
        Arena == 0 .. ArenaSize - 1
        Addressable(p, n) == p .. p + n \subseteq 1 .. AddressMax
    IN \A arena \in Bases, p, n \in 0 .. AddressMax :
          BufferStable(arena, p, n) <=>
             LET bytes == p - arena .. p - arena + n - 1
             IN \/ n = 0
                \/ /\ Addressable(p, n) /\ Addressable(arena, ArenaSize)
                   /\ bytes \cap Arena = {} \/ bytes \subseteq RawBytes

(* Allocations never overlap, and one disappears only by its own release   *)
(* or, if managed, by a sweep.                                             *)
Allocated == {b \in DOMAIN block : block[b].kind # "free"}

Contract == INSTANCE ArenaContract
    WITH live <- [a \in {Payload(b) : b \in Allocated} |->
                    [size |-> block[a - Header].size, kind |-> block[a - Header].kind]]

ImplementsArena == Contract!Spec
=============================================================================
