---------------------------- MODULE FrameStacks -----------------------------
(***************************************************************************)
(* The root and exception frames of runtime.mod/native/embedded_runtime.c. *)
(* Both kinds of frame live in the C frames of their functions; the        *)
(* runtime keeps, for each execution context, a chain of pointers to them  *)
(* and some totals.  A throw leaves by longjmp: the C frames above the     *)
(* handler vanish without a leave, and what the chains must be after it is *)
(* taken from a snapshot in the handler's frame.  A collection remembers   *)
(* the handler that was on top when it began; an exception that reaches it *)
(* has escaped the collection and ends it.                                 *)
(*                                                                         *)
(* stack is what the C stack really holds, innermost last; an address is a *)
(* position in it, so frames that come later reuse the addresses of frames *)
(* that are gone, and a dangling pointer would point at one of them.       *)
(***************************************************************************)
EXTENDS Integers, Sequences, FiniteSetsExt

CONSTANTS Contexts,    \* execution contexts
          Owner,       \* the one that collects
          SlotCounts,  \* sizes of root frames
          Depth,       \* Depth[c]: bound on the depth of the C stack of c
          Nil          \* the NULL pointer

ASSUME FrameAssumption ==
    /\ Owner \in Contexts
    /\ SlotCounts \subseteq Nat
    /\ Depth \in [Contexts -> Nat \ {0}]
    /\ Nil \notin Int

VARIABLES
    stack,     \* stack[c]: the activations of c that matter here
    frame,     \* frame[c][a]: the frame structure at address a, stale ones included
    context,   \* bmx_embedded_contexts
    active,    \* bmx_embedded_collection_active
    boundary,  \* bmx_embedded_collection_exception_boundary
    dying      \* dying[c]: depth at which an exception of c found no handler, or Nil

vars == <<stack, frame, context, active, boundary, dying>>

Empty == [roots |-> Nil, rootTotal |-> 0, slotTotal |-> 0, tries |-> Nil, depth |-> 0]

Init ==
    /\ stack = [c \in Contexts |-> << >>]
    /\ frame = [c \in Contexts |-> [a \in 1 .. Depth[c] |-> Nil]]
    /\ context = [c \in Contexts |-> Empty]
    /\ active = FALSE /\ boundary = Nil
    /\ dying = [c \in Contexts |-> Nil]

-----------------------------------------------------------------------------
Top(c) == Len(stack[c])
Panicked == \E c \in Contexts : dying[c] # Nil /\ dying[c] = Top(c)
IsTop(c, kind) == ~Panicked /\ stack[c] # << >> /\ stack[c][Top(c)].kind = kind
Room(c, n) == ~Panicked /\ Top(c) + n <= Depth[c]

Pushed(c, kind, n) == Append(stack[c], [kind |-> kind, slots |-> n])
Pop(c) == stack' = [stack EXCEPT ![c] = SubSeq(@, 1, Top(c) - 1)]

\* What root_frame_enter and exception_enter make of a context and a frame.
RootFrame(x, n) == [previous |-> x.roots, slots |-> n]
WithRoot(x, a, n) == [x EXCEPT !.roots = a, !.rootTotal = @ + 1, !.slotTotal = @ + n]
TryFrame(x) == [previous |-> x.tries, snapshot |-> x.roots,
                rootTotal |-> x.rootTotal, slotTotal |-> x.slotTotal]
WithTry(x, a) == [x EXCEPT !.tries = a, !.depth = @ + 1]

RootEnter(c, n) ==
    /\ Room(c, 1)
    /\ stack' = [stack EXCEPT ![c] = Pushed(c, "root", n)]
    /\ frame' = [frame EXCEPT ![c][Top(c) + 1] = RootFrame(context[c], n)]
    /\ context' = [context EXCEPT ![c] = WithRoot(@, Top(c) + 1, n)]
    /\ UNCHANGED <<active, boundary, dying>>

\* A frame that is not the top of the chain is refused and stays.
RootLeave(c) ==
    /\ IsTop(c, "root")
    /\ Pop(c)
    /\ IF context[c].roots # Top(c)
         THEN UNCHANGED <<frame, context>>
         ELSE /\ context' = [context EXCEPT
                                ![c].roots = frame[c][Top(c)].previous,
                                ![c].rootTotal = @ - 1,
                                ![c].slotTotal = @ - frame[c][Top(c)].slots]
              /\ frame' = [frame EXCEPT ![c][Top(c)] = [previous |-> Nil, slots |-> 0]]
    /\ UNCHANGED <<active, boundary, dying>>

TryEnter(c) ==
    /\ Room(c, 1)
    /\ stack' = [stack EXCEPT ![c] = Pushed(c, "try", 0)]
    /\ frame' = [frame EXCEPT ![c][Top(c) + 1] = TryFrame(context[c])]
    /\ context' = [context EXCEPT ![c] = WithTry(@, Top(c) + 1)]
    /\ UNCHANGED <<active, boundary, dying>>

\* exception_leave takes the top of the chain, whatever it is.
TryLeave(c) ==
    /\ IsTop(c, "try")
    /\ Pop(c)
    /\ LET a == context[c].tries IN
       /\ context' = [context EXCEPT ![c].tries = frame[c][a].previous,
                                     ![c].depth = @ - 1]
       /\ frame' = [frame EXCEPT ![c][a].previous = Nil]
    /\ UNCHANGED <<active, boundary, dying>>

-----------------------------------------------------------------------------
\* collect_objects, while callbacks (trace, finalizers) run in it; it is refused inside itself.
CollectBegin ==
    /\ Room(Owner, 1)
    /\ ~active
    /\ active' = TRUE
    /\ boundary' = context[Owner].tries
    /\ stack' = [stack EXCEPT ![Owner] = Pushed(Owner, "collect", 0)]
    /\ UNCHANGED <<frame, context, dying>>

CollectEnd ==
    /\ IsTop(Owner, "collect")
    /\ active' = FALSE /\ boundary' = Nil
    /\ Pop(Owner)
    /\ UNCHANGED <<frame, context, dying>>

\* Mutant: any exception thrown during a collection ends it.
EscapesAlways(c, a) == active

\* The handler that is about to be entered is older than the collection.
Escapes(c, a) == active /\ c = Owner /\ a = boundary

\* Mutant: the slot total is left as the unwound frames had it.
RestoredRootsOnly(x, f) ==
    [x EXCEPT !.roots = f.snapshot, !.rootTotal = f.rootTotal,
              !.tries = f.previous, !.depth = @ - 1]

Restored(x, f) ==
    [roots |-> f.snapshot, rootTotal |-> f.rootTotal, slotTotal |-> f.slotTotal,
     tries |-> f.previous, depth |-> x.depth - 1]

\* exception_throw and the longjmp to the top handler, which takes the value.
Throw(c) ==
    /\ ~Panicked
    /\ context[c].tries # Nil
    /\ LET a == context[c].tries IN
       /\ IF Escapes(c, a) THEN active' = FALSE /\ boundary' = Nil
                           ELSE UNCHANGED <<active, boundary>>
       /\ context' = [context EXCEPT ![c] = Restored(@, frame[c][a])]
       /\ stack' = [stack EXCEPT ![c] = SubSeq(@, 1, a - 1)]
    /\ UNCHANGED <<frame, dying>>

(* Without a handler the object is asked for its description before the    *)
(* panic, under a root frame of two slots and a handler of its own.        *)
Unhandled(c) ==
    /\ Room(c, 2)
    /\ context[c].tries = Nil /\ dying[c] = Nil
    /\ LET r == Top(c) + 1
           rooted == WithRoot(context[c], r, 2)
       IN /\ stack' = [stack EXCEPT ![c] = Pushed(c, "root", 2)
                                             \o <<[kind |-> "try", slots |-> 0]>>]
          /\ frame' = [frame EXCEPT ![c][r] = RootFrame(context[c], 2),
                                    ![c][r + 1] = TryFrame(rooted)]
          /\ context' = [context EXCEPT ![c] = WithTry(rooted, r + 1)]
    /\ dying' = [dying EXCEPT ![c] = Top(c)]
    /\ UNCHANGED <<active, boundary>>

\* PLATFORM_PANIC does not return.
Halted == Panicked /\ UNCHANGED vars

-----------------------------------------------------------------------------
Next ==
    \/ \E c \in Contexts :
          \/ \E n \in SlotCounts : RootEnter(c, n)
          \/ RootLeave(c)
          \/ TryEnter(c) \/ TryLeave(c)
          \/ Throw(c) \/ Unhandled(c)
    \/ CollectBegin \/ CollectEnd
    \/ Halted

Spec == Init /\ [][Next]_vars

-----------------------------------------------------------------------------
(* Properties                                                              *)

At(c, kind) == {a \in 1 .. Top(c) : stack[c][a].kind = kind}
Below(S, a) == LET B == {b \in S : b < a} IN IF B = {} THEN Nil ELSE Max(B)

\* The running totals of w[1], w[2], ..., w[n].
Totals(w, n) ==
    LET total[i \in 0 .. n] == IF i = 0 THEN 0 ELSE total[i - 1] + w[i]
    IN total

\* The slots of the root frames of a stack.
SlotsOf(s) ==
    Totals([a \in 1 .. Len(s) |-> IF s[a].kind = "root" THEN s[a].slots ELSE 0],
           Len(s))[Len(s)]

(* The chains run through exactly the frames that are on the C stack, in   *)
(* its order, and the totals are theirs, after any mixture of leaves and   *)
(* throws: the collector never reads a root slot of a frame that is gone,  *)
(* misses none of a live one, and no throw lands in a function that has    *)
(* returned (embedded_runtime.c:1647-1707, 1842-1848).                     *)
ChainsExact ==
    \A c \in Contexts :
        LET roots == At(c, "root")
            tries == At(c, "try")
        IN /\ context[c] = [roots |-> Below(roots, Depth[c] + 1),
                            rootTotal |-> Cardinality(roots),
                            slotTotal |-> SlotsOf(stack[c]),
                            tries |-> Below(tries, Depth[c] + 1),
                            depth |-> Cardinality(tries)]
           /\ \A a \in roots : frame[c][a] = [previous |-> Below(roots, a),
                                              slots |-> stack[c][a].slots]
           /\ \A a \in tries : frame[c][a].previous = Below(tries, a)

(* A collection is marked active exactly while it is on the owner's stack, *)
(* whichever handlers its callbacks enter, leave and throw to, and whatever*)
(* the worker throws meanwhile: an exception that escapes it ends it, and  *)
(* one that is caught inside does not (embedded_runtime.c:1839-1841,       *)
(* docs/runtime-integration.md:74-75).                                     *)
ActiveMeansOnStack ==
    LET collecting == At(Owner, "collect") IN
    /\ active <=> collecting # {}
    /\ Cardinality(collecting) <= 1
=============================================================================
