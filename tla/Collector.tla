----------------------------- MODULE Collector ------------------------------
(***************************************************************************)
(* The mark-and-sweep collector of runtime.mod/native/embedded_runtime.c,  *)
(* composed with the promise of the stop-the-world handshake: roots and    *)
(* references that a program changes whenever it runs, the mark epoch and  *)
(* the mark queue, finalizers that run outside the stop and may allocate,  *)
(* resurrect or throw, the abort of a collection by an exception, and the  *)
(* allocation that collects, perhaps twice, before it fails.               *)
(*                                                                         *)
(* Blocks are places in the heap; HeapAllocator says how they are carved   *)
(* out.  A step of marking takes one block off the queue.  Sweeping is one *)
(* step, for no callback runs in it.  The owner alone collects.  Without   *)
(* Multicore there is no other task, and the stop is granted at once.      *)
(*                                                                         *)
(* An exception leaves the frames that it unwinds: the roots in them go,   *)
(* and which ones these are depends on the program.                        *)
(***************************************************************************)
EXTENDS Integers, FiniteSets

CONSTANTS Blocks,      \* places for blocks
          Types,       \* what a block can be: a subset of AllTypes
          Tasks,       \* the contexts: the owner, and the worker if Multicore
          Owner,
          NoTask,
          Nil,         \* no block
          Foreign,     \* a reference that is no block of the heap
          Multicore,   \* BMX_EMBEDDED_MULTICORE
          EpochMax,    \* UINT32_MAX, the largest reachability epoch
          CountMax,    \* UINT32_MAX, the largest live count
          MaxRefs,     \* bound on the references in one block
          MaxRoots     \* bound on the roots of one task

AllTypes == {"object", "finalizable", "array"}

ASSUME CollectorAssumption ==
    /\ IsFiniteSet(Blocks) /\ Types \subseteq AllTypes
    /\ Owner \in Tasks /\ NoTask \notin Tasks
    /\ Multicore \in BOOLEAN
    /\ ~Multicore => Tasks = {Owner}
    /\ EpochMax \in Nat \ {0} /\ CountMax \in Nat
    /\ Nil \notin Blocks /\ Foreign \notin Blocks

VARIABLES
    mode, stopper,   \* the world, as in StopTheWorld
    type,            \* type[b]: a type, or "free"
    refs,            \* refs[b]: the blocks that b's fields refer to
    roots,           \* roots[t]: the blocks that the root slots of t refer to
    flag,            \* flag[b]: "none", "pending" or "finalized"
    mark,            \* mark[b]: mark_epoch
    epoch,           \* bmx_embedded_reachability_epoch
    phase,           \* where the collection is
    queue,           \* the mark queue
    invalid,         \* invalid_references # 0
    pending,         \* bmx_embedded_finalizer_pending_objects
    finalized,       \* last_finalized_objects # 0
    current,         \* the object whose finalizer runs
    live,            \* live_objects and live_arrays
    wants,           \* what the owner waits for: an audit, or the first or second
                     \* collection of an allocation that met a full heap
    building,        \* the array whose initializer runs
    entered          \* history: the finalizer of the block at b has been called

heapVars == <<type, refs, flag, mark, live, entered>>
gcVars == <<epoch, phase, queue, invalid, pending, finalized, current>>
worldVars == <<mode, stopper>>
vars == <<worldVars, heapVars, gcVars, roots, wants, building>>

World == INSTANCE StopTheWorld

Phases == {"idle", "stopping", "marking", "finalizing", "callback"}

TypeOK ==
    /\ World!TypeOK
    /\ type \in [Blocks -> Types \cup {"free"}]
    /\ refs \in [Blocks -> SUBSET Blocks]
    /\ roots \in [Tasks -> SUBSET (Blocks \cup {Foreign})]
    /\ flag \in [Blocks -> {"none", "pending", "finalized"}]
    /\ mark \in [Blocks -> 0 .. EpochMax]
    /\ epoch \in 0 .. EpochMax
    /\ phase \in Phases
    /\ queue \subseteq Blocks
    /\ invalid \in BOOLEAN /\ finalized \in BOOLEAN
    /\ pending \in Nat
    /\ current \in Blocks \cup {Nil}
    /\ live \in [{"objects", "arrays"} -> 0 .. CountMax]
    /\ wants \in {"nothing", "audit", "first", "second"}
    /\ building \in Blocks \cup {Nil}
    /\ entered \in [Blocks -> BOOLEAN]

Init ==
    /\ mode = [t \in Tasks |-> IF t = Owner THEN "run" ELSE "out"]
    /\ stopper = NoTask
    /\ type = [b \in Blocks |-> "free"]
    /\ refs = [b \in Blocks |-> {}]
    /\ roots = [t \in Tasks |-> {}]
    /\ flag = [b \in Blocks |-> "none"]
    /\ mark = [b \in Blocks |-> 0]
    /\ epoch = 0 /\ phase = "idle" /\ queue = {} /\ invalid = FALSE
    /\ pending = 0 /\ finalized = FALSE /\ current = Nil
    /\ live = [c \in {"objects", "arrays"} |-> 0]
    /\ wants = "nothing" /\ building = Nil
    /\ entered = [b \in Blocks |-> FALSE]

Allocated == {b \in Blocks : type[b] # "free"}
AllRoots == UNION {roots[t] : t \in Tasks}

\* The least set of blocks that holds R's and is closed under references.
Closed(S) == \A b \in S : refs[b] \subseteq S
Reach(R) == {b \in Blocks : \A S \in SUBSET Blocks :
                               R \cap Blocks \subseteq S /\ Closed(S) => b \in S}

Counter(k) == IF k = "array" THEN "arrays" ELSE "objects"
Wrapped(n) == n % (CountMax + 1)
Of(c) == {b \in Allocated : Counter(type[b]) = c}

-----------------------------------------------------------------------------
(* The program.  The owner runs between collections and in finalizers; the *)
(* worker runs whenever the handshake lets it.                             *)

\* The owner is inside the collector or between two of its allocation's tries.
Collecting == /\ phase # "callback"
              /\ phase # "idle" \/ wants # "nothing"

\* Mutant: a mutator does not stop at safepoints.
RunsRegardless(t) ==
    /\ mode[t] # "out"
    /\ t = Owner => mode[t] = "run" /\ ~Collecting

Runs(t) ==
    /\ mode[t] = "run"
    /\ t = Owner => ~Collecting

\* What t can get hold of; a finalizer also has the object it finalizes.
Accessible(t) == Reach(AllRoots \cup IF t = Owner /\ phase = "callback" THEN {current} ELSE {})

AddRoot(t, b) ==
    /\ Runs(t)
    /\ b \in Accessible(t) \ roots[t]
    /\ Cardinality(roots[t]) < MaxRoots
    /\ roots' = [roots EXCEPT ![t] = @ \cup {b}]
    /\ UNCHANGED <<worldVars, heapVars, gcVars, wants, building>>

\* Only foreign code puts such a value into a root slot.
AddForeignRoot ==
    /\ Runs(Owner)
    /\ Foreign \notin roots[Owner] /\ Cardinality(roots[Owner]) < MaxRoots
    /\ roots' = [roots EXCEPT ![Owner] = @ \cup {Foreign}]
    /\ UNCHANGED <<worldVars, heapVars, gcVars, wants, building>>

\* The array under construction is rooted by array_new_1d itself.
DropRoot(t, b) ==
    /\ Runs(t)
    /\ b \in roots[t] \ IF t = Owner THEN {building} ELSE {}
    /\ roots' = [roots EXCEPT ![t] = @ \ {b}]
    /\ UNCHANGED <<worldVars, heapVars, gcVars, wants, building>>

Link(t, b, c) ==
    /\ Runs(t)
    /\ {b, c} \subseteq Accessible(t)
    /\ c \notin refs[b] /\ Cardinality(refs[b]) < MaxRefs
    /\ refs' = [refs EXCEPT ![b] = @ \cup {c}]
    /\ UNCHANGED <<worldVars, type, flag, mark, live, entered, gcVars, roots, wants, building>>

Unlink(t, b, c) ==
    /\ Runs(t)
    /\ b \in Accessible(t) /\ c \in refs[b]
    /\ refs' = [refs EXCEPT ![b] = @ \ {c}]
    /\ UNCHANGED <<worldVars, type, flag, mark, live, entered, gcVars, roots, wants, building>>

\* An array of a single-core build, from its allocation to its initializer's end.
StartsBuilding(k) == ~Multicore /\ k = "array" /\ building = Nil /\ phase = "idle"

(* heap_allocate and the caller's initialization: the flags and the mark   *)
(* are reset, the result is rooted.  A single-core build counts an array   *)
(* only after its initializer; an initializer started in another one's or  *)
(* in a finalizer is not followed.                                         *)
Place(t, b, k) ==
    /\ type[b] = "free" /\ k \in Types
    /\ type' = [type EXCEPT ![b] = k]
    /\ flag' = [flag EXCEPT ![b] = "none"]
    /\ mark' = [mark EXCEPT ![b] = 0]
    /\ entered' = [entered EXCEPT ![b] = FALSE]
    /\ roots' = [roots EXCEPT ![t] = @ \cup {b}]
    /\ building' = IF StartsBuilding(k) THEN b ELSE building
    /\ live' = IF StartsBuilding(k) THEN live
                                    ELSE [live EXCEPT ![Counter(k)] = Wrapped(@ + 1)]
    /\ UNCHANGED refs

Allocate(t, b, k) ==
    /\ Runs(t)
    /\ Cardinality(roots[t]) < MaxRoots
    /\ Place(t, b, k)
    /\ UNCHANGED <<worldVars, gcVars, wants>>

\* The initializer of the array returned.
Built ==
    /\ Runs(Owner) /\ phase = "idle" /\ building # Nil
    /\ building' = Nil
    /\ live' = [live EXCEPT !["arrays"] = Wrapped(@ + 1)]
    /\ UNCHANGED <<worldVars, type, refs, flag, mark, entered, gcVars, roots, wants>>

\* What is left of the owner's frames when an exception has been caught.
Unwind ==
    /\ \E R \in SUBSET roots[Owner] :
          /\ roots' = [roots EXCEPT ![Owner] = R]
          /\ building' \in {building, Nil}
          /\ building' # Nil => building' \in R
    /\ wants' = "nothing"

Throw ==
    /\ Runs(Owner) /\ phase = "idle" /\ building # Nil
    /\ Unwind
    /\ building' = Nil
    /\ UNCHANGED <<worldVars, heapVars, gcVars>>

\* The worker comes, goes and reaches safepoints; so does the owner.
WorkerStep(t) ==
    /\ t # Owner
    /\ \/ World!Join(t) \/ World!Hold(t) \/ World!Resume(t)
       \/ World!Leave(t) /\ roots[t] = {}
    /\ UNCHANGED <<heapVars, gcVars, roots, wants, building>>

-----------------------------------------------------------------------------
(* bmx_embedded_collect_objects                                            *)

StopBegin(w) ==
    /\ World!Hold(Owner)
    /\ phase' = "stopping"
    /\ wants' = w
    /\ UNCHANGED <<heapVars, epoch, queue, invalid, pending, finalized, current, roots, building>>

\* CollectObjects(), reachability_audit(), or an allocation found the heap full.
Collect == /\ Runs(Owner) /\ phase = "idle"
           /\ StopBegin("nothing") \/ StopBegin("audit") \/ StopBegin("first")

\* stop_begin gave up: the statistics keep what the last collection left.
StopFails ==
    /\ Multicore
    /\ phase = "stopping" /\ stopper = NoTask
    /\ World!Resume(Owner)
    /\ phase' = "idle"
    /\ wants' = IF wants = "audit" THEN "nothing" ELSE wants
    /\ UNCHANGED <<heapVars, epoch, queue, invalid, pending, finalized, current,
                   roots, building>>

\* Mutant: the wrap leaves the old marks.
MarksKept == mark

\* Epoch 0 means "never marked"; when the counter wraps all marks are cleared.
NextEpoch == IF epoch = EpochMax THEN 1 ELSE epoch + 1
MarksBefore == IF epoch = EpochMax THEN [b \in Blocks |-> 0] ELSE mark

\* The world is stopped: a new epoch, and the roots of every context.
MarkRoots ==
    /\ phase = "stopping"
    /\ World!Grant(Owner)
    /\ phase' = "marking"
    /\ IF wants = "audit" THEN UNCHANGED <<finalized, pending>>
                          ELSE finalized' = FALSE /\ pending' = 0
    /\ epoch' = NextEpoch
    /\ LET new == {b \in AllRoots \cap Allocated : MarksBefore[b] # NextEpoch}
       IN /\ queue' = new
          /\ mark' = [b \in Blocks |-> IF b \in new THEN NextEpoch ELSE MarksBefore[b]]
    /\ invalid' = ~(AllRoots \subseteq Allocated)
    /\ UNCHANGED <<type, refs, flag, live, entered, current, roots, wants, building>>

\* Mutant: what a block refers to is marked but not queued.
MarkBlockOnly(b) ==
    /\ phase = "marking" /\ b \in queue
    /\ LET new == {c \in refs[b] \cap Allocated : mark[c] # epoch}
       IN /\ queue' = queue \ {b}
          /\ mark' = [c \in Blocks |-> IF c \in new THEN epoch ELSE mark[c]]
    /\ invalid' = (invalid \/ ~(refs[b] \subseteq Allocated))
    /\ UNCHANGED <<worldVars, type, refs, flag, live, entered, epoch, phase, pending,
                   finalized, current, roots, wants, building>>

\* The references of one block of the queue; every type descriptor lists them all.
MarkBlock(b) ==
    /\ phase = "marking" /\ b \in queue
    /\ LET new == {c \in refs[b] \cap Allocated : mark[c] # epoch}
       IN /\ queue' = (queue \ {b}) \cup new
          /\ mark' = [c \in Blocks |-> IF c \in new THEN epoch ELSE mark[c]]
    /\ invalid' = (invalid \/ ~(refs[b] \subseteq Allocated))
    /\ UNCHANGED <<worldVars, type, refs, flag, live, entered, epoch, phase, pending,
                   finalized, current, roots, wants, building>>

Unmarked == {b \in Allocated : mark[b] # epoch}
Unreachable(c) == Wrapped(live[c] - Cardinality(Of(c) \ Unmarked))

AllLive == \A c \in DOMAIN live : Unreachable(c) = 0
Marked == phase = "marking" /\ queue = {}
MarkedForSweep == Marked /\ wants # "audit"

Return == phase' = "idle" /\ queue' = {} /\ invalid' = FALSE /\ current' = Nil

\* An audit reports what it counted, and that is all.
AuditExit ==
    /\ Marked /\ wants = "audit"
    /\ World!Yield(Owner)
    /\ Return
    /\ wants' = "nothing"
    /\ UNCHANGED <<heapVars, epoch, pending, finalized, roots, building>>

\* A single-core audit is possible in a finalizer, in the middle of a collection.
AuditInFinalizer ==
    /\ ~Multicore /\ phase = "callback"
    /\ epoch' = NextEpoch
    /\ mark' = [b \in Blocks |-> IF b \in Reach(AllRoots) THEN NextEpoch ELSE MarksBefore[b]]
    /\ UNCHANGED <<worldVars, type, refs, flag, live, entered, phase, queue, invalid,
                   pending, finalized, current, roots, wants, building>>

\* A reference that is none refuses the whole collection.
InvalidExit ==
    /\ MarkedForSweep /\ invalid
    /\ World!Yield(Owner)
    /\ Return
    /\ UNCHANGED <<heapVars, epoch, pending, finalized, roots, wants, building>>

AllLiveExit ==
    /\ MarkedForSweep /\ ~invalid /\ AllLive
    /\ World!Yield(Owner)
    /\ Return
    /\ UNCHANGED <<heapVars, epoch, pending, finalized, roots, wants, building>>

ToFinalize == {b \in Unmarked : type[b] = "finalizable" /\ flag[b] # "finalized"}

\* The stop ends before any finalizer runs, and nothing is swept.
QueueFinalizers ==
    /\ MarkedForSweep /\ ~invalid /\ ~AllLive
    /\ ToFinalize # {}
    /\ flag' = [b \in Blocks |-> IF b \in ToFinalize THEN "pending" ELSE flag[b]]
    /\ pending' = Cardinality(ToFinalize)
    /\ World!Yield(Owner)
    /\ phase' = "finalizing"
    /\ UNCHANGED <<type, refs, mark, live, entered, epoch, queue, invalid, finalized,
                   current, roots, wants, building>>

Reclaim(dead) ==
    /\ type' = [b \in Blocks |-> IF b \in dead THEN "free" ELSE type[b]]
    /\ refs' = [b \in Blocks |-> IF b \in dead THEN {} ELSE refs[b]]
    /\ mark' = [b \in Blocks |-> IF b \in dead THEN 0 ELSE mark[b]]
    /\ flag' = [b \in Blocks |-> IF b \in dead THEN "none" ELSE flag[b]]
    /\ live' = [c \in DOMAIN live |-> Wrapped(live[c] - Cardinality(dead \cap Of(c)))]
    /\ entered' = [b \in Blocks |-> b \notin dead /\ entered[b]]
    /\ World!Yield(Owner)
    /\ Return
    /\ UNCHANGED <<epoch, pending, finalized, roots, wants, building>>

\* Mutants: the sweep keeps arrays, or does not wait for finalizers.
SweepObjects == /\ MarkedForSweep /\ ~invalid /\ ~AllLive
                /\ ToFinalize = {}
                /\ Reclaim(Unmarked \ Of("arrays"))

SweepAtOnce == /\ MarkedForSweep /\ ~invalid /\ ~AllLive
               /\ Reclaim(Unmarked)

Sweep == /\ MarkedForSweep /\ ~invalid /\ ~AllLive
         /\ ToFinalize = {}
         /\ Reclaim(Unmarked)

\* stop_end, then the owner is back in managed code.
OwnerResumes ==
    /\ phase \in {"idle", "finalizing"}
    /\ World!Resume(Owner)
    /\ UNCHANGED <<heapVars, gcVars, roots, wants, building>>

\* Each finalizer is marked as entered before it is called.
FinalizeNext(b) ==
    /\ phase = "finalizing" /\ mode[Owner] = "run"
    /\ flag[b] = "pending"
    /\ flag' = [flag EXCEPT ![b] = "finalized"]
    /\ pending' = pending - 1
    /\ finalized' = TRUE
    /\ entered' = [entered EXCEPT ![b] = TRUE]
    /\ current' = b /\ phase' = "callback"
    /\ UNCHANGED <<worldVars, type, refs, mark, live, epoch, queue, invalid,
                   roots, wants, building>>

FinalizerReturns ==
    /\ phase = "callback"
    /\ phase' = "finalizing" /\ current' = Nil
    /\ UNCHANGED <<worldVars, heapVars, epoch, queue, invalid, pending, finalized, roots, wants, building>>

FinalizersDone ==
    /\ phase = "finalizing" /\ mode[Owner] = "run"
    /\ \A b \in Blocks : flag[b] # "pending"
    /\ Return
    /\ UNCHANGED <<worldVars, heapVars, epoch, pending, finalized, roots, wants, building>>

\* Mutant: an escaping exception leaves the other finalizers pending.
AbortKeepingPending ==
    /\ pending' = 0
    /\ Return
    /\ Unwind
    /\ UNCHANGED <<type, refs, mark, live, entered, epoch, finalized, flag>>

\* abort_collection, and the exception unwinds to the frame that was on top
\* when the collection began.
Abort ==
    /\ flag' = [b \in Blocks |-> IF flag[b] = "pending" THEN "none" ELSE flag[b]]
    /\ pending' = 0
    /\ Return
    /\ Unwind
    /\ UNCHANGED <<type, refs, mark, live, entered, epoch, finalized>>

FinalizerThrows ==
    /\ phase = "callback"
    /\ Abort
    /\ UNCHANGED worldVars

\* Mutant: the exception from a trace callback does not end the stop.
TraceThrowsInStop ==
    /\ phase = "marking" /\ queue # {}
    /\ Abort
    /\ UNCHANGED worldVars

\* A custom trace callback throws in the middle of marking.
TraceThrows ==
    /\ phase = "marking" /\ queue # {}
    /\ World!Yield(Owner)
    /\ Abort

-----------------------------------------------------------------------------
(* allocate_with_collection, after its first collection                    *)

Retrying == phase = "idle" /\ mode[Owner] = "run" /\ wants \in {"first", "second"}

CollectAgain ==
    /\ Retrying /\ wants = "first" /\ finalized
    /\ StopBegin("second")

LastTry == Retrying /\ ~(wants = "first" /\ finalized)

RetrySucceeds(b, k) ==
    /\ LastTry
    /\ Cardinality(roots[Owner]) < MaxRoots
    /\ Place(Owner, b, k)
    /\ wants' = "nothing"
    /\ UNCHANGED <<worldVars, gcVars>>

\* The heap is full: the allocation failure is thrown.
RetryFails ==
    /\ LastTry
    /\ Unwind
    /\ UNCHANGED <<worldVars, heapVars, gcVars>>

-----------------------------------------------------------------------------
Program ==
    \/ \E t \in Tasks, b \in Blocks :
          \/ AddRoot(t, b) \/ DropRoot(t, b)
          \/ \E c \in Blocks : Link(t, b, c) \/ Unlink(t, b, c)
          \/ \E k \in Types : Allocate(t, b, k)
    \/ AddForeignRoot \/ DropRoot(Owner, Foreign)
    \/ Built \/ Throw
    \/ \E t \in Tasks : WorkerStep(t)

Marking == MarkRoots \/ \E b \in Blocks : MarkBlock(b)
Verdict == AuditExit \/ InvalidExit \/ AllLiveExit \/ QueueFinalizers \/ Sweep
Finalizing == (\E b \in Blocks : FinalizeNext(b)) \/ FinalizersDone
FinalizerEnds == FinalizerReturns \/ FinalizerThrows

Retry == \/ CollectAgain \/ RetryFails
         \/ \E b \in Blocks, k \in Types : RetrySucceeds(b, k)

Next == \/ Program
        \/ Collect \/ StopFails \/ Marking \/ TraceThrows \/ Verdict
        \/ OwnerResumes \/ Finalizing \/ FinalizerEnds \/ AuditInFinalizer
        \/ Retry

Spec == Init /\ [][Next]_vars

(* The collection runs on, its finalizers end, and a rendezvous whose      *)
(* worker is stopped again and again succeeds (GCHandshake,                *)
(* RendezvousSucceeds) unless it is given up.                              *)
FairSpec ==
    /\ Spec
    /\ SF_vars(MarkRoots \/ StopFails)
    /\ WF_vars(\E b \in Blocks : MarkBlock(b))
    /\ WF_vars(Verdict) /\ WF_vars(OwnerResumes)
    /\ WF_vars(Finalizing) /\ WF_vars(FinalizerEnds)

-----------------------------------------------------------------------------
(* Properties                                                              *)

(* No reachable block is reclaimed: not by marks left over from an earlier *)
(* epoch or an aborted round, not because a finalizer or the worker moved  *)
(* a reference meanwhile (MULTICORE_GC_DESIGN.md:36, invariant 1).         *)
NoLiveReclaimed ==
    [][\A b \in Reach(AllRoots) : type[b] # "free" => type'[b] = type[b]]_vars

(* When the queue is empty the marked blocks are exactly the reachable     *)
(* ones: nothing live is missed and no garbage floats, whatever marks      *)
(* earlier rounds left behind (embedded_runtime.c:1991-2090).              *)
MarkExact ==
    Marked => {b \in Blocks : mark[b] = epoch} = Reach(AllRoots) \cap Allocated

(* A finalizable object's memory is reused only after its finalizer has    *)
(* been entered, and the finalizer of one allocation is entered at most    *)
(* once, exceptions or not (MULTICORE_GC_DESIGN.md:41, invariant 6).       *)
FinalizedOnceBeforeReclaimed ==
    [][\A b \in Blocks :
          /\ type[b] = "finalizable" /\ type'[b] = "free" => entered[b]
          /\ phase = "finalizing" /\ current'= b => ~entered[b]]_vars

(* Outside a finalizer round no block is pending, and the count of pending *)
(* finalizers is the number of pending blocks                              *)
(* (docs/runtime-integration.md:74-77).                                    *)
PendingExact ==
    LET P == {b \in Blocks : flag[b] = "pending"} IN
    /\ pending = Cardinality(P)
    /\ P # {} => phase \in {"finalizing", "callback"}
    /\ \A b \in P : type[b] = "finalizable" /\ ~entered[b]

(* The live counters agree with the heap at every moment, also in the      *)
(* middle of an array's initializer (MULTICORE_GC_DESIGN.md:114).          *)
LiveCountsExact == \A c \in DOMAIN live : live[c] = Cardinality(Of(c))

(* The collector's books are in order whenever anyone can look at them.    *)
Bookkeeping == TypeOK /\ PendingExact /\ LiveCountsExact

(* The collection that returns early because nothing is unreachable is     *)
(* right (embedded_runtime.c:2257-2258).                                   *)
AllLiveMeansNoGarbage == Marked /\ ~invalid /\ AllLive => Allocated = Reach(AllRoots)

(* Every collection ends, by whatever exit, with the world running.        *)
CollectionReturns ==
    (phase # "idle" \/ stopper # NoTask) ~> (phase = "idle" /\ mode[Owner] = "run")

(* Garbage that stays garbage is reclaimed by a program that goes on       *)
(* collecting, unless its collections go on running finalizers, being      *)
(* refused for a foreign reference, being mere audits, or being aborted.   *)
GarbageReclaimed ==
    \A b \in Blocks :
        /\ []<><<MarkRoots>>_vars
        /\ <>[](type[b] # "free" /\ b \notin Reach(AllRoots))
        => []<><<QueueFinalizers \/ InvalidExit \/ AuditExit \/ TraceThrows>>_vars
=============================================================================
